--------------------------- MODULE PolicyRequests ---------------------------
(***************************************************************************)
(* The policy of ExternalEvidencePolicy over every request of a bounded    *)
(* set.  A state is one request; a step is what may change between two     *)
(* passes of the host: the verdict of the evidence at hand, or one         *)
(* obligation of the request.                                              *)
(***************************************************************************)
EXTENDS ExternalEvidencePolicy, FiniteSetsExt

CONSTANTS
    Requests,       \* the requests to start from
    Replacements    \* projections an obligation may change to

\* An obligation as a host projects it.
Projection ==
    [obligation : STRING, routable_kind : BOOLEAN, has_workflow_binding : BOOLEAN,
     explicit_only : BOOLEAN, subject_state : SubjectStates,
     subject_digest : Nat, remote_available : BOOLEAN,
     attempts_exhausted : BOOLEAN, evidence_present : BOOLEAN,
     evidence : [obligation : STRING, subject_digest : Nat, run_identity : Nat,
                 verdict : Verdicts, claim : Claims, complete : BOOLEAN],
     run_present : BOOLEAN,
     run : [run_identity : Nat, subject_digest : Nat, state : RunStates,
            conclusion : Conclusions]]

ASSUME RequestAssumption ==
    /\ Requests \subseteq [max_dispatches : Nat, obligations : Seq(Projection)]
    /\ Replacements \subseteq Projection

VARIABLES request, result

requestVars == <<request, result>>

RequestInit ==
    /\ request \in Requests
    /\ result = BuildResult(request)

\* The evidence of obligation k turns out to carry another verdict.
ChangeVerdict(k) ==
    /\ request.obligations[k].evidence_present
    /\ \E v \in Verdicts \ {request.obligations[k].evidence.verdict, "none"} :
          request' = [request EXCEPT !.obligations[k].evidence.verdict = v]

\* Obligation k is measured differently.
Remeasure(k) ==
    \E o \in Replacements \ {request.obligations[k]} :
        request' = [request EXCEPT !.obligations[k] =
                       [o EXCEPT !.obligation = request.obligations[k].obligation]]

RequestNext ==
    /\ \E k \in DOMAIN request.obligations : ChangeVerdict(k) \/ Remeasure(k)
    /\ result' = BuildResult(request')

RequestSpec == RequestInit /\ [][RequestNext]_requestVars

-----------------------------------------------------------------------------
(* Properties                                                              *)

Positions == DOMAIN request.obligations
Status(k) == result.decisions[k].status
Eligible == {k \in Positions : Status(k) = "dispatch_eligible"}

\* The positions of the request the budget reaches: reference definition of
\* what the loop of build_result admits.
Admitted == {k \in Eligible :
                Cardinality({j \in Eligible : j < k}) < request.max_dispatches}

\* The queue holds the first max_dispatches eligible obligations in the order
\* of the request, and exactly the eligible rest is marked deferred.
QueueIsBudgetedPrefix ==
    /\ Len(result.dispatch_queue) = Cardinality(Admitted)
    /\ \A k \in Admitted :
          result.dispatch_queue[Cardinality({j \in Admitted : j <= k})]
              = request.obligations[k].obligation
    /\ \A k \in Positions :
          result.decisions[k].deferred <=> k \in Eligible \ Admitted

\* Nothing is dispatched that has admissible evidence, a run under way on the
\* exact subject, or a subject or effect that must never be sent out; and a
\* retry without a bound run respects the limits the host reports.
DispatchIsJustified ==
    \A k \in Admitted :
        LET o == request.obligations[k] IN
        /\ o.routable_kind /\ o.has_workflow_binding /\ ~o.explicit_only
        /\ o.subject_state = "clean"
        /\ ~(/\ o.evidence_present /\ o.evidence.complete
             /\ o.evidence.obligation = o.obligation
             /\ o.evidence.subject_digest = o.subject_digest
             /\ o.evidence.claim = "established")
        /\ o.run_present /\ o.run.subject_digest = o.subject_digest
              => o.run.state # "in_progress"
        /\ o.attempts_exhausted \/ ~o.remote_available
              => /\ o.run_present
                 /\ o.run.subject_digest = o.subject_digest
                 /\ o.run.conclusion # "success"

\* "A current FAIL is never a reason to redispatch": a change of verdicts
\* changes no status, no queue and no count.
OnlyVerdictsChange ==
    /\ DOMAIN request'.obligations = Positions
    /\ \A k \in Positions :
          [request'.obligations[k] EXCEPT !.evidence.verdict = "none"]
              = [request.obligations[k] EXCEPT !.evidence.verdict = "none"]

VerdictNeverDecides ==
    [][OnlyVerdictsChange =>
          /\ result'.dispatch_queue = result.dispatch_queue
          /\ result'.summary = result.summary
          /\ \A k \in Positions : result'.decisions[k].status = Status(k)]_requestVars
=============================================================================
