--------------------------- MODULE AmbientEvidence ---------------------------
(***************************************************************************)
(* Ambient external evidence end to end: hosts (agent sessions on one      *)
(* machine) measure a repository, ask ExternalEvidencePolicy what to do,   *)
(* and move bytes with bin/mncs-actions-remote, while a developer edits,   *)
(* others push to the same branch, and GitHub runs workflows.              *)
(*                                                                         *)
(* The policy is INSTANCEd as it is; status, dispatch, fetch and validate  *)
(* are the transport's subcommands.  Of the ledger, which DispatchLedger   *)
(* models file by file, the claims that would be found live are kept, and  *)
(* how a claim is taken: the look at the file, its write and the launch    *)
(* are steps of their own, and a claim may run out at any time.  The       *)
(* worktree, GitHub and the pass of the host are external: they are        *)
(* modelled from how the policy and the transport use them.                *)
(***************************************************************************)
EXTENDS ExternalEvidencePolicy, SequencesExt

CONSTANTS
    Hosts,           \* sessions running passes concurrently
    Obligations,     \* external obligations of the repository
    Workflows,       \* workflows that produce their evidence
    Binding,         \* Binding[o]: the workflow obligation o is bound to
    MaxDispatches,   \* max_dispatches of every request
    MaxAttempts,     \* dispatches of one subject after which the host reports
                     \* attempts_exhausted
    Reliable,        \* do measurement and network probe always succeed?
    MaxRevision,     \* bound: commits
    MaxRuns          \* bound: workflow runs

ASSUME AmbientAssumption ==
    /\ Binding \in [Obligations -> Workflows] /\ IsFiniteSet(Obligations)
    /\ MaxDispatches \in Nat /\ MaxAttempts \in Nat
    /\ Reliable \in BOOLEAN
    /\ MaxRevision \in Nat \ {0} /\ MaxRuns \in Nat

VARIABLES
    worktree,   \* the developer's checkout: its revision and subject state
    tip,        \* the commit the remote branch points at
    commits,    \* number of commits made so far
    runs,       \* the workflow runs, in creation order
    staged,     \* staged[o]: the evidence fetched last for o
    claims,     \* live claims of the dispatch ledger: [workflow, revision]
    stage,      \* stage[h]: how far the dispatch call of host h has got
    lost,       \* history: identities whose claim failed to exclude somebody
    plan        \* plan[h]: what the current pass of host h decided

vars == <<worktree, tip, commits, runs, staged, claims, stage, lost, plan>>
ledger == <<claims, stage, lost>>
remote == <<tip, commits, runs, ledger>>

NoEvidence == [obligation |-> "", subject_digest |-> 0, run_identity |-> 0,
               verdict |-> "none", claim |-> "none", complete |-> FALSE]
NoRun == [run_identity |-> 0, subject_digest |-> 0, state |-> "none",
          conclusion |-> "none"]
NoPlan == [active |-> FALSE, revision |-> 0, ref |-> 0, decisions |-> << >>,
           todo |-> {}, fetch |-> {}, overtaken |-> {}]
NoStage == [step |-> "none", obligation |-> ""]

\* The obligations in the order every request lists them.
Order == SetToSeq(Obligations)

\* The dispatch identity of obligation o at revision r.
Identity(o, r) == [workflow |-> Binding[o], revision |-> r]

-----------------------------------------------------------------------------
(* Measurement.                                                            *)

\* cmd_status: the listed runs of the workflow at exactly this sha.
StatusRuns(o, r) ==
    {i \in DOMAIN runs : /\ runs[i].listed
                         /\ runs[i].workflow = Binding[o]
                         /\ runs[i].head = r}

\* The host attaches to the newest of them.
ObservedRun(o, r) ==
    LET seen == StatusRuns(o, r)
        i == CHOOSE n \in seen : \A m \in seen : m <= n
    IN  IF seen = {} THEN NoRun
        ELSE [run_identity |-> i, subject_digest |-> r,
              state |-> runs[i].state, conclusion |-> runs[i].conclusion]

Attempts(o, r) ==
    Cardinality({i \in DOMAIN runs : /\ runs[i].workflow = Binding[o]
                                     /\ runs[i].requested = r})

\* One obligation as the host projects it into the request.
Project(o, state, available) ==
    LET r == worktree.revision
    IN  [obligation |-> o, routable_kind |-> TRUE,
         has_workflow_binding |-> TRUE, explicit_only |-> FALSE,
         subject_state |-> state, subject_digest |-> r,
         remote_available |-> available,
         attempts_exhausted |-> Attempts(o, r) >= MaxAttempts,
         evidence_present |-> staged[o] # NoEvidence, evidence |-> staged[o],
         run_present |-> StatusRuns(o, r) # {}, run |-> ObservedRun(o, r)]

Request(state, available) ==
    [max_dispatches |-> MaxDispatches,
     obligations |-> [k \in DOMAIN Order |->
                          Project(Order[k], state, available)]]

-----------------------------------------------------------------------------
Init ==
    /\ worktree = [revision |-> 1, state |-> "clean"]
    /\ tip = 1
    /\ commits = 1
    /\ runs = << >>
    /\ staged = [o \in Obligations |-> NoEvidence]
    /\ claims = {}
    /\ stage = [h \in Hosts |-> NoStage]
    /\ lost = {}
    /\ plan = [h \in Hosts |-> NoPlan]

(* The host.                                                               *)

\* A bug to tell apart: the subject is measured without asking whether it
\* was published, and the local branch is taken for the remote ref.
EvaluateLocally(h) ==
    /\ ~plan[h].active
    /\ \E request \in {Request(
          IF worktree.state = "clean_unpublished" THEN "clean"
          ELSE worktree.state, TRUE)} :
       \E result \in {BuildResult(request)} :
          plan' = [plan EXCEPT ![h] =
             [active |-> TRUE, revision |-> worktree.revision,
              ref |-> worktree.revision, decisions |-> result.decisions,
              todo |-> ToSet(result.dispatch_queue),
              fetch |-> {}, overtaken |-> {}]]
    /\ UNCHANGED <<worktree, staged, remote>>

\* A pass begins: measure (the measurement may fail, the network may be
\* down), evaluate, and keep the decisions with the measured revision and
\* the remote ref that points at it.  Finished runs are to be fetched.
Evaluate(h) ==
    /\ ~plan[h].active
    /\ \E state \in {worktree.state} \cup (IF Reliable THEN {} ELSE {"unknown"}),
          available \in {TRUE} \cup (IF Reliable THEN {} ELSE {FALSE}) :
       \E request \in {Request(state, available)} :
       \E result \in {BuildResult(request)} :
          plan' = [plan EXCEPT ![h] =
             [active |-> TRUE, revision |-> worktree.revision, ref |-> tip,
              decisions |-> result.decisions,
              todo |-> ToSet(result.dispatch_queue),
              fetch |-> {d.obligation : d \in {e \in ToSet(result.decisions) :
                  e.reason \in {"run_completed_unadmitted", "run_failed"}}},
              overtaken |-> {}]]
    /\ UNCHANGED <<worktree, staged, remote>>

\* Host h is taking, or has, the claim of this identity.
Holder(h, id) ==
    /\ stage[h] # NoStage
    /\ Identity(stage[h].obligation, plan[h].revision) = id

\* A bug to tell apart: the claim of the identity is not consulted.
ClaimUnchecked(h, o) ==
    LET id == Identity(o, plan[h].revision) IN
    /\ stage[h] = NoStage
    /\ o \in plan[h].todo
    /\ plan[h].ref = plan[h].revision
    /\ stage' = [stage EXCEPT ![h] = [step |-> "claiming", obligation |-> o]]
    /\ lost' = IF \E g \in Hosts : Holder(g, id) THEN lost \cup {id} ELSE lost
    /\ UNCHANGED <<worktree, staged, tip, commits, runs, claims, plan>>

\* dispatch of one queued obligation finds no live claim of its identity: no
\* file, an empty one, or one whose claim is over.  Nothing keeps another host
\* from finding the same until this one has written.
Claim(h, o) ==
    LET id == Identity(o, plan[h].revision) IN
    /\ stage[h] = NoStage
    /\ o \in plan[h].todo
    /\ plan[h].ref = plan[h].revision
    /\ id \notin claims
    /\ stage' = [stage EXCEPT ![h] = [step |-> "claiming", obligation |-> o]]
    /\ lost' = IF \E g \in Hosts : Holder(g, id) THEN lost \cup {id} ELSE lost
    /\ UNCHANGED <<worktree, staged, tip, commits, runs, claims, plan>>

WriteClaim(h, o) ==
    /\ stage[h] = [step |-> "claiming", obligation |-> o]
    /\ claims' = claims \cup {Identity(o, plan[h].revision)}
    /\ stage' = [stage EXCEPT ![h] = [step |-> "claimed", obligation |-> o]]
    /\ UNCHANGED <<worktree, staged, tip, commits, runs, lost, plan>>

\* The write fails, and may have emptied the file.
ClaimFails(h, o) ==
    /\ stage[h] = [step |-> "claiming", obligation |-> o]
    /\ claims' \in {claims, claims \ {Identity(o, plan[h].revision)}}
    /\ stage' = [stage EXCEPT ![h] = NoStage]
    /\ plan' = [plan EXCEPT ![h].todo = @ \ {o}]
    /\ UNCHANGED <<worktree, staged, tip, commits, runs, lost>>

\* gh launches the run, which starts at the commit the branch points at by
\* now.
Dispatch(h, o) ==
    LET id == Identity(o, plan[h].revision) IN
    /\ stage[h] = [step |-> "claimed", obligation |-> o]
    /\ Len(runs) < MaxRuns
    /\ runs' = Append(runs,
          [workflow |-> id.workflow, requested |-> id.revision, head |-> tip,
           listed |-> FALSE, state |-> "in_progress", conclusion |-> "none",
           artifact |-> [p \in Obligations |-> "none"]])
    /\ stage' = [stage EXCEPT ![h] = NoStage]
    /\ plan' = [plan EXCEPT ![h].todo = @ \ {o}]
    /\ UNCHANGED <<worktree, staged, tip, commits, claims, lost>>

\* gh fails: no run, but the claim stays in the ledger.
DispatchFails(h, o) ==
    /\ stage[h] = [step |-> "claimed", obligation |-> o]
    /\ stage' = [stage EXCEPT ![h] = NoStage]
    /\ plan' = [plan EXCEPT ![h].todo = @ \ {o}]
    /\ UNCHANGED <<worktree, staged, tip, commits, runs, claims, lost>>

\* Without a ref for the measured revision dispatch refuses; with a live
\* claim it answers claim_held.
DispatchRefused(h, o) ==
    /\ stage[h] = NoStage
    /\ o \in plan[h].todo
    /\ \/ plan[h].ref # plan[h].revision
       \/ Identity(o, plan[h].revision) \in claims
    /\ plan' = [plan EXCEPT ![h].todo = @ \ {o}]
    /\ UNCHANGED <<worktree, staged, remote>>

\* The run obligation o was decided on.
DecidedRun(h, o) ==
    LET ds == plan[h].decisions
    IN  ds[CHOOSE k \in DOMAIN ds : ds[k].obligation = o].run_identity

\* fetch and validate the artifact of the completed run this pass attached
\* to.  artifact_missing, or an artifact that does not validate, stages
\* nothing.
Fetch(h, o) ==
    LET i == DecidedRun(h, o) IN
    /\ stage[h] = NoStage
    /\ o \in plan[h].fetch
    /\ plan' = [plan EXCEPT ![h].fetch = @ \ {o}]
    /\ staged' = IF runs[i].artifact[o] = "none" THEN staged
                 ELSE [staged EXCEPT ![o] =
                   [obligation |-> o, subject_digest |-> runs[i].head,
                    run_identity |-> i, verdict |-> runs[i].artifact[o],
                    claim |-> "established", complete |-> TRUE]]
    /\ UNCHANGED <<worktree, remote>>

\* The pass is over.
EndPass(h) ==
    /\ plan[h].active
    /\ plan[h].todo = {} /\ plan[h].fetch = {}
    /\ plan' = [plan EXCEPT ![h] = NoPlan]
    /\ UNCHANGED <<worktree, staged, remote>>

-----------------------------------------------------------------------------
(* The worktree and GitHub (external).                                     *)

Edit ==
    /\ worktree.state = "clean"
    /\ commits < MaxRevision
    /\ worktree' = [worktree EXCEPT !.state = "dirty"]
    /\ UNCHANGED <<staged, plan, remote>>

Commit ==
    /\ worktree.state = "dirty"
    /\ commits < MaxRevision
    /\ commits' = commits + 1
    /\ worktree' = [revision |-> commits + 1, state |-> "clean_unpublished"]
    /\ UNCHANGED <<tip, runs, staged, ledger, plan>>

Push ==
    /\ worktree.state = "clean_unpublished"
    /\ worktree' = [worktree EXCEPT !.state = "clean"]
    /\ tip' = worktree.revision
    /\ UNCHANGED <<commits, runs, staged, ledger, plan>>

\* Somebody else advances the branch.
RefAdvances ==
    /\ commits < MaxRevision
    /\ commits' = commits + 1
    /\ tip' = commits + 1
    /\ UNCHANGED <<worktree, runs, staged, ledger, plan>>

\* The run becomes visible to status.  Passes that measured before it did
\* are remembered until they end.
ListRun(i) ==
    /\ i \in DOMAIN runs /\ ~runs[i].listed
    /\ runs' = [runs EXCEPT ![i].listed = TRUE]
    /\ plan' = [h \in Hosts |->
          IF plan[h].active
          THEN [plan[h] EXCEPT !.overtaken = @ \cup
                  {[workflow |-> runs[i].workflow,
                    revision |-> runs[i].requested]}]
          ELSE plan[h]]
    /\ UNCHANGED <<worktree, staged, tip, commits, ledger>>

\* The run ends.  Its conclusion says how the workflow went; whether each
\* obligation's check was packaged, and its verdict, is another matter.
CompleteRun(i) ==
    /\ i \in DOMAIN runs /\ runs[i].listed /\ runs[i].state = "in_progress"
    /\ \E conclusion \in {"success", "failure"},
          artifact \in [Obligations -> {"none", "passed", "failed"}] :
          /\ \A o \in Obligations :
                Binding[o] # runs[i].workflow => artifact[o] = "none"
          /\ runs' = [runs EXCEPT ![i].state = "completed",
                                  ![i].conclusion = conclusion,
                                  ![i].artifact = artifact]
    /\ UNCHANGED <<worktree, tip, commits, staged, ledger, plan>>

\* The claim of an identity still covers somebody: a run status does not list
\* yet, a pass that measured before one was listed, a call under way.
Covering(id) ==
    \/ \E i \in DOMAIN runs :
          /\ runs[i].workflow = id.workflow /\ runs[i].requested = id.revision
          /\ ~runs[i].listed
    \/ \E h \in Hosts : id \in plan[h].overtaken \/ Holder(h, id)

\* LEDGER_TTL_SECONDS are over: whatever the run of the claim and the passes
\* are doing, the next look at the file finds no claim.
ClaimExpires(id) ==
    /\ id \in claims
    /\ claims' = claims \ {id}
    /\ lost' = IF Covering(id) THEN lost \cup {id} ELSE lost
    /\ UNCHANGED <<worktree, tip, commits, runs, staged, stage, plan>>

HostStep(h) ==
    \/ Evaluate(h)
    \/ \E o \in Obligations : \/ Claim(h, o)
                              \/ WriteClaim(h, o)
                              \/ ClaimFails(h, o)
                              \/ Dispatch(h, o)
                              \/ DispatchFails(h, o)
                              \/ DispatchRefused(h, o)
                              \/ Fetch(h, o)
    \/ EndPass(h)

RunStep == \E i \in DOMAIN runs : ListRun(i) \/ CompleteRun(i)
Expiry  == \E id \in claims : ClaimExpires(id)

Next ==
    \/ \E h \in Hosts : HostStep(h)
    \/ Edit \/ Commit \/ Push \/ RefAdvances
    \/ RunStep
    \/ Expiry

Spec == Init /\ [][Next]_vars

\* Hosts keep passing and finish what a pass decided, runs end, claims
\* expire.  Nobody has to edit, commit or push.
Fairness ==
    /\ \A h \in Hosts : WF_vars(HostStep(h))
    /\ WF_vars(RunStep)
    /\ WF_vars(Expiry)

FairSpec == Spec /\ Fairness

-----------------------------------------------------------------------------
(* Properties                                                              *)

Revisions == 1 .. MaxRevision

\* A pass that calls an obligation current does so on a run that executed
\* exactly the measured revision and packaged this obligation's check, and
\* carries that check's verdict: a run that started at another commit, an
\* older revision's evidence or a green workflow never stands in for it.
CurrentIsProved ==
    \A h \in Hosts : \A k \in DOMAIN plan[h].decisions :
        LET d == plan[h].decisions[k] IN
        d.status = "current" =>
            \E i \in DOMAIN runs :
                /\ i = d.run_identity
                /\ runs[i].head = plan[h].revision
                /\ runs[i].workflow = Binding[d.obligation]
                /\ runs[i].state = "completed"
                /\ runs[i].artifact[d.obligation] = d.verdict

\* "One in-flight run per exact subject: attach, never redispatch": of the
\* runs started at a revision at most one per workflow is under way, however
\* the passes of several hosts interleave - unless a run requested for
\* another revision raced to this one, which the claim of this revision does
\* not cover, or this revision's claim was lost: two hosts found none before
\* either had written, or it ran out before its run was listed, "rarely".
Unraced(w, r) ==
    \A i \in DOMAIN runs :
        runs[i].workflow = w /\ runs[i].head = r => runs[i].requested = r

InFlight(w, r) ==
    {i \in DOMAIN runs : /\ runs[i].workflow = w /\ runs[i].head = r
                         /\ runs[i].state = "in_progress"}

InFlightAtMostOne ==
    \A w \in Workflows, r \in Revisions :
        Unraced(w, r) /\ [workflow |-> w, revision |-> r] \notin lost
            => Cardinality(InFlight(w, r)) <= 1

\* Remote evidence is only ever requested for a commit that was published:
\* dirt and unpublished commits never reach GitHub.
OnlyPublishedRequested ==
    \A i \in DOMAIN runs :
        runs[i].requested = worktree.revision =>
            worktree.state \in {"clean", "dirty"}

\* The limit on attempts holds except after a failure: a run beyond
\* MaxAttempts was requested because an earlier one, of the same obligation
\* and for the very same commit, had failed (the policy answers for a failed
\* run before it looks at attempts_exhausted) or because the claim of that
\* commit was lost.  Hosts racing under one claim, a run raced to another
\* commit and evidence that never arrives do not exceed the limit.
Requested(w, r) ==
    {i \in DOMAIN runs : runs[i].workflow = w /\ runs[i].requested = r}

AttemptsBounded ==
    \A w \in Workflows, r \in Revisions : \A i \in Requested(w, r) :
        [workflow |-> w, revision |-> r] \notin lost /\
        Cardinality({j \in Requested(w, r) : j < i}) >= MaxAttempts =>
            \E j \in 1 .. i - 1 :
                /\ runs[j].workflow = w /\ runs[j].head = r
                /\ runs[j].state = "completed" /\ runs[j].conclusion = "failure"

\* "The completed receipt satisfies the obligation": once the newest run at
\* the checked out revision has ended with this obligation's check packaged,
\* its own evidence gets a pass to call the obligation current - unless the
\* developer moves on, and whatever evidence of other subjects is staged.
\* (Evidence of the very subject that is in force stays in force: a newer run
\* of it is never fetched; and a host that set out to fetch an older run may
\* still put that one's evidence in its place.)
Newest == Len(runs)

Usable(o) ==
    /\ worktree.state = "clean" /\ Newest > 0
    /\ runs[Newest].workflow = Binding[o]
    /\ runs[Newest].head = worktree.revision
    /\ runs[Newest].state = "completed" /\ runs[Newest].artifact[o] # "none"

Awaited(o) ==
    /\ Usable(o)
    /\ staged[o].subject_digest # worktree.revision
    /\ \A h \in Hosts : o \in plan[h].fetch => DecidedRun(h, o) = Newest

AdmittedOnNewest(o) ==
    \E h \in Hosts : \E k \in DOMAIN plan[h].decisions :
        LET d == plan[h].decisions[k]
        IN  /\ plan[h].revision = worktree.revision /\ d.obligation = o
            /\ d.status = "current" /\ d.run_identity = Newest

\* The newest run and the revision cannot change while the run is Usable.
EvidenceIsAdmitted ==
    \A o \in Obligations : Awaited(o) ~> AdmittedOnNewest(o) \/ ~Usable(o)
=============================================================================
