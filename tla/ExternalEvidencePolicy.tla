----------------------- MODULE ExternalEvidencePolicy -----------------------
(***************************************************************************)
(* The decisions of native/mncs/actions/external_evidence.mncs: for every  *)
(* obligation the host projects, whether external evidence is current,     *)
(* pending, eligible for one bounded dispatch, or none of these; and the   *)
(* dispatch queue under the budget of the request.  Identities and digests *)
(* are compared only for equality, so they are arbitrary values; runs are  *)
(* numbered, and 0 stands for an empty run identity.                       *)
(***************************************************************************)
EXTENDS Integers, Sequences, FiniteSets

SubjectStates == {"clean", "dirty", "unknown", "clean_unpublished"}
Verdicts      == {"passed", "failed", "unknown", "none"}
Claims        == {"established", "not_established", "none"}
RunStates     == {"none", "in_progress", "completed"}
Conclusions   == {"none", "success", "failure", "infra"}
Statuses      == {"current", "dispatch_eligible", "delegated_pending",
                  "no_route", "unavailable", "deferred", "escalate"}

\* run_binds_subject
Bound(o) == o.run_present /\ o.run.subject_digest = o.subject_digest

\* A bug to tell apart: only a PASS is current.
AdmitsPassed(o) ==
    /\ o.evidence_present
    /\ o.evidence.obligation = o.obligation
    /\ o.evidence.subject_digest = o.subject_digest
    /\ o.evidence.complete
    /\ o.evidence.claim = "established"
    /\ o.evidence.verdict = "passed"

\* A bug to tell apart: evidence of any subject is current.
AdmitsAnySubject(o) ==
    /\ o.evidence_present
    /\ o.evidence.obligation = o.obligation
    /\ o.evidence.complete
    /\ o.evidence.claim = "established"

\* evidence_admits, of evidence that is present
Admits(o) ==
    /\ o.evidence_present
    /\ o.evidence.obligation = o.obligation
    /\ o.evidence.subject_digest = o.subject_digest
    /\ o.evidence.complete
    /\ o.evidence.claim = "established"

\* A finished run that did not conclude with success.
RunFailed(o) == o.run.state = "completed" /\ o.run.conclusion # "success"

\* Why the evidence at hand, if any, does not do.
StaleReason(o) ==
    IF ~o.evidence_present THEN "no_evidence"
    ELSE IF o.evidence.claim # "established" THEN "claim_not_established"
    ELSE "evidence_mismatch"

Decision(o, status, reason, operation, deferred) ==
    [obligation |-> o.obligation, status |-> status, reason |-> reason,
     operation |-> operation, deferred |-> deferred,
     verdict |-> "none", claim |-> "none", run_identity |-> 0]

Refusal(o, status, reason) == Decision(o, status, reason, "none", FALSE)

\* decide_current: the verdict travels with the evidence, whatever it is.
DecideCurrent(o) ==
    [Refusal(o, "current", "evidence_current") EXCEPT
        !.verdict = o.evidence.verdict,
        !.claim = o.evidence.claim,
        !.run_identity = o.evidence.run_identity]

\* A decision about the bound run.
OfRun(o, status, reason, operation) ==
    [Decision(o, status, reason, operation, FALSE) EXCEPT
        !.run_identity = o.run.run_identity]

\* A bug to tell apart: the state of the subject is not looked at.
RoutableAnySubject(o) ==
    o.routable_kind /\ o.has_workflow_binding /\ ~o.explicit_only

\* Whether the obligation may be routed at all: the kind, the binding, the
\* effects and the subject are tested before any evidence is looked at.
Routable(o) ==
    /\ o.routable_kind /\ o.has_workflow_binding /\ ~o.explicit_only
    /\ o.subject_state = "clean"

\* The early returns of an obligation that is not routable, in their order.
Unroutable(o) ==
    IF ~o.routable_kind THEN Refusal(o, "no_route", "non_routable_kind")
    ELSE IF ~o.has_workflow_binding
         THEN Refusal(o, "no_route", "no_workflow_binding")
    ELSE IF o.explicit_only
         THEN Refusal(o, "escalate", "explicit_only_effects")
    ELSE Refusal(o, "unavailable",
                 CASE o.subject_state = "dirty" -> "dirty_subject"
                   [] o.subject_state = "clean_unpublished"
                                               -> "unpublished_subject"
                   [] OTHER                    -> "unknown_subject")

\* The early returns of a routable one: evidence at hand first, then the
\* bound run, then the limits, then a dispatch.
EvaluateObligation(o) ==
    IF ~Routable(o) THEN Unroutable(o)
    ELSE IF Admits(o) THEN DecideCurrent(o)
    ELSE IF Bound(o) /\ o.run.state = "in_progress"
         THEN OfRun(o, "delegated_pending", "run_pending", "subscribe")
    ELSE IF Bound(o) /\ RunFailed(o)
         THEN OfRun(o, "dispatch_eligible", "run_failed", "dispatch")
    ELSE IF Bound(o) /\ o.run.state = "completed"
         THEN OfRun(o, "delegated_pending", "run_completed_unadmitted",
                    "subscribe")
    ELSE IF o.attempts_exhausted
         THEN Decision(o, "deferred", "attempts_exhausted", "none", TRUE)
    ELSE IF ~o.remote_available
         THEN Decision(o, "deferred", "remote_unavailable", "none", TRUE)
    ELSE Decision(o, "dispatch_eligible", StaleReason(o), "dispatch", FALSE)

-----------------------------------------------------------------------------
(* build_result                                                            *)

\* status_queues
Queueable(d) == d.status = "dispatch_eligible"

\* Which counter of the accumulator, besides queued and deferred, a status
\* is counted in ("none": in no counter).
Counter(status) ==
    CASE status = "current"                        -> "current"
      [] status = "delegated_pending"              -> "pending"
      [] status \in {"no_route", "unavailable"}    -> "unsupported"
      [] status = "escalate"                       -> "escalated"
      [] OTHER                                     -> "none"

Counters == {"current", "pending", "unsupported", "escalated"}

AccumulatorEmpty ==
    [decisions |-> << >>, queue |-> << >>, deferred |-> 0,
     count |-> [c \in Counters |-> 0]]

\* A bug to tell apart: the budget is exceeded by one.
AccumulateOneMore(acc, o, max) ==
    LET evaluated == EvaluateObligation(o)
        queueable == Queueable(evaluated)
        admitted  == queueable /\ Len(acc.queue) <= max
    IN  [acc EXCEPT
          !.decisions = Append(@,
             [evaluated EXCEPT !.deferred = queueable /\ ~admitted]),
          !.queue = IF admitted THEN Append(@, o.obligation) ELSE @]

\* One iteration of the loop: the budget admits what is eligible, in the
\* order of the request, and the deferred mark is set for the rest of it.
Accumulate(acc, o, max) ==
    LET evaluated == EvaluateObligation(o)
        queueable == Queueable(evaluated)
        admitted  == queueable /\ Len(acc.queue) < max
    IN  [decisions |-> Append(acc.decisions,
             [evaluated EXCEPT !.deferred = queueable /\ ~admitted]),
         queue     |-> IF admitted THEN Append(acc.queue, o.obligation)
                                   ELSE acc.queue,
         deferred  |-> IF queueable /\ ~admitted THEN acc.deferred + 1
                                                 ELSE acc.deferred,
         count     |-> [c \in Counters |->
             IF Counter(evaluated.status) = c THEN acc.count[c] + 1
                                              ELSE acc.count[c]]]

BuildResult(request) ==
    LET obs == request.obligations
        after[n \in 0 .. Len(obs)] ==
            IF n = 0 THEN AccumulatorEmpty
            ELSE Accumulate(after[n - 1], obs[n], request.max_dispatches)
        acc == after[Len(obs)]
    IN  [decisions |-> acc.decisions,
         dispatch_queue |-> acc.queue,
         summary |-> [obligations |-> Len(obs),
                      current |-> acc.count["current"],
                      dispatch_queued |-> Len(acc.queue),
                      pending |-> acc.count["pending"],
                      deferred |-> acc.deferred,
                      unsupported |-> acc.count["unsupported"],
                      escalated |-> acc.count["escalated"]]]
=============================================================================
