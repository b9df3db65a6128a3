----------------------------- MODULE FamilyVerify -----------------------------
(***************************************************************************)
(* One job of the reusable workflow mncs-family-verify.yml.  The providers *)
(* run one after the other in one workspace, each through actions/run-check*)
(* with its own result file; a step that fails skips what follows.         *)
(* actions/aggregate then composes the RESULT FILES (not the packaged      *)
(* copies), and actions/render-badge, which always runs, projects the      *)
(* verdict.  Run-check defers FAIL and UNKNOWN to the aggregation.         *)
(***************************************************************************)
EXTENDS Aggregation

CONSTANTS
    Providers,  \* the providers, in the order of the workflow's steps; the
                \* id of a provider's check is the provider itself
    Extra,      \* the check of input additional-checks
    Boundaries  \* the values of required-checks and optional-checks to try

ASSUME FamilyAssumption ==
    /\ Providers \in Seq(STRING)
    /\ \A i, j \in DOMAIN Providers : Providers[i] = Providers[j] => i = j
    /\ Extra \in STRING
    /\ \A i \in DOMAIN Providers : Providers[i] # Extra

Provider == {Providers[i] : i \in DOMAIN Providers}
Ids == Provider \cup {Extra}

ASSUME BoundaryAssumption ==
    Boundaries \subseteq [required : SUBSET Ids, optional : SUBSET Ids]

VARIABLES
    configured,    \* the providers that have a command
    extraPath,     \* how additional-checks names its file, or "unlisted"
    required,      \* input required-checks
    optional,      \* input optional-checks
    failOnUnknown, \* input fail-on-unknown
    goodLabel,     \* input badge-label is valid
    pc,            \* the next step
    turn,          \* the provider whose step is next
    files,         \* the result files in the workspace
    lastWriter,    \* history: who wrote each of them last
    packaged,      \* the check each run-check packaged
    output,        \* output verdict of each run-check
    failed,        \* a step of the job has failed
    consumed,      \* history: the files the aggregation read
    evidence,      \* the files in the aggregate evidence directory
    verdict,       \* output verdict of the aggregate step
    badge,         \* the badge file in the workspace
    rendered       \* the badge was rendered by this job

inputs == <<configured, extraPath, required, optional, failOnUnknown,
            goodLabel>>
vars == <<inputs, pc, turn, files, lastWriter, packaged, output, failed,
          consumed, evidence, verdict, badge, rendered>>

Documents == {CheckResult(id, v) : id \in Ids, v \in Verdicts}

\* What a provider may write as the result of q: the check q with any verdict
\* or, with one verdict, a check with another id.
Written(q) == {CheckResult(q, v) : v \in Verdicts}
              \cup {CheckResult(id, "PASS") : id \in Ids}
BadgeStates == Verdicts \cup {"INVALID"}

-----------------------------------------------------------------------------
\* The caller's repository may hold a result file of Extra, and holds a PASS
\* badge of an earlier job; the result files of the providers are not there.
Init ==
    /\ configured \in SUBSET Provider
    /\ extraPath \in {"unlisted", "safe", "unsafe", "escaping"}
    /\ \E b \in Boundaries : required = b.required /\ optional = b.optional
    /\ failOnUnknown \in BOOLEAN /\ goodLabel \in BOOLEAN
    /\ pc = "providers"
    /\ turn = 1
    /\ files \in {[id \in Ids |-> IF id = Extra THEN d ELSE NoFile] :
                     d \in {NoFile, CheckResult(Extra, "PASS")}}
    /\ lastWriter = [id \in Ids |-> "checkout"]
    /\ packaged = [p \in Provider |-> NoFile]
    /\ output = [p \in Provider |-> ""]
    /\ failed = FALSE
    /\ consumed = << >>
    /\ evidence = {}
    /\ verdict = ""
    /\ badge = "PASS"
    /\ rendered = FALSE

-----------------------------------------------------------------------------
(* The providers                                                           *)

\* A bug to tell apart: the id of the result is not compared.
AnyCheckIsEstablished(p, content) == content.kind = "check"

\* run_check.sh establishes a well-formed result that has the expected id.
Established(p, content) == content.kind = "check" /\ content.id = p

\* What run-check leaves in the evidence directory of p.
Package(p, content) == IF Established(p, content) THEN content ELSE NoFile

\* The command of p is any program: it leaves its result file as it is, or
\* writes or removes it, and it may write the result file of another.  The
\* step succeeds when the result is established, the packaging wrote its
\* outputs (it may refuse to start, or die) and the command exited with 0.
RunProvider(p) ==
    /\ pc = "providers" /\ turn \in DOMAIN Providers /\ p = Providers[turn]
    /\ p \in configured /\ ~failed
    /\ \E own \in Written(p) \cup {NoFile, Malformed, files[p]} :
       \E q \in Ids \ {p} : \E other \in Written(q) \cup {files[q]} :
          /\ files' = [files EXCEPT ![p] = own, ![q] = other]
          /\ lastWriter' = [id \in Ids |-> IF files'[id] # files[id] THEN p
                                           ELSE lastWriter[id]]
    /\ packaged' = [packaged EXCEPT ![p] = Package(p, files'[p])]
    /\ \/ /\ output' = [output EXCEPT ![p] =
                  IF Established(p, files'[p]) THEN files'[p].verdict
                  ELSE "INVALID"]
          /\ failed' \in {~Established(p, files'[p]), TRUE}
       \/ failed' = TRUE /\ UNCHANGED output
    /\ turn' = turn + 1
    /\ UNCHANGED <<inputs, pc, consumed, evidence, verdict, badge, rendered>>

\* if: inputs.<p>-command != '', and no earlier step failed.
SkipProvider(p) ==
    /\ pc = "providers" /\ turn \in DOMAIN Providers /\ p = Providers[turn]
    /\ p \notin configured \/ failed
    /\ turn' = turn + 1
    /\ UNCHANGED <<inputs, pc, files, lastWriter, packaged, output, failed,
                   consumed, evidence, verdict, badge, rendered>>

\* The aggregate step is skipped when a step has failed.
EndOfProviders ==
    /\ pc = "providers" /\ turn \notin DOMAIN Providers
    /\ pc' = IF failed THEN "badge" ELSE "aggregate"
    /\ UNCHANGED <<inputs, turn, files, lastWriter, packaged, output, failed,
                   consumed, evidence, verdict, badge, rendered>>

-----------------------------------------------------------------------------
(* The aggregation                                                         *)

\* Only the files of the providers that have a command are listed, and that
\* of additional-checks.
Listed ==
    [f \in configured \cup (IF extraPath = "unlisted" THEN {} ELSE {Extra}) |->
        [path |-> IF f = Extra THEN extraPath ELSE "safe",
         content |-> files[f]]]

\* A receipt that claims nothing, exit 2.
AggregateRefuses ==
    /\ pc = "aggregate"
    /\ AggregateErrors(Listed, required, optional)
    /\ consumed' = Listed
    /\ evidence' = {"receipt"}
    /\ verdict' = "INVALID"
    /\ failed' = TRUE
    /\ pc' = "badge"
    /\ UNCHANGED <<inputs, turn, files, lastWriter, packaged, output, badge,
                   rendered>>

\* The script ends before its outputs are written: input required-checks is
\* the empty string (one of blanks is an empty set), the document it built
\* is invalid, or it dies, possibly between two of its files.
AggregateDies ==
    /\ pc = "aggregate"
    /\ \/ evidence' = {}
       \/ /\ ~AggregateErrors(Listed, required, optional)
          /\ ~UnsafeBinding(Listed)
          /\ evidence' \in {{"aggregate"}, {"aggregate", "receipt"},
                            {"aggregate", "receipt", "manifest"}}
    /\ consumed' = Listed
    /\ failed' = TRUE
    /\ pc' = "badge"
    /\ UNCHANGED <<inputs, turn, files, lastWriter, packaged, output, verdict,
                   badge, rendered>>

\* A bug to tell apart: a FAIL is let through with a warning.
GateDefersFail(v) == v \in {"PASS", "FAIL"} \/ (v = "UNKNOWN" /\ ~failOnUnknown)

\* The gate of the aggregate action.
GateAccepts(v) == v = "PASS" \/ (v = "UNKNOWN" /\ ~failOnUnknown)

AggregateComposes ==
    /\ pc = "aggregate"
    /\ ~AggregateErrors(Listed, required, optional)
    /\ ~UnsafeBinding(Listed)
    /\ consumed' = Listed
    /\ evidence' = {"aggregate", "receipt", "manifest"}
    /\ verdict' = AggregateVerdict(LoadedVerdicts(Listed), required)
    /\ failed' = ~GateAccepts(verdict')
    /\ pc' = "badge"
    /\ UNCHANGED <<inputs, turn, files, lastWriter, packaged, output, badge,
                   rendered>>

-----------------------------------------------------------------------------
(* The badge: if: always()                                                 *)

\* A bug to tell apart: the default of a skipped aggregation is forgotten.
OutputOnly == verdict

\* steps.aggregate.outputs.verdict || 'INVALID'
BadgeVerdict == IF verdict = "" THEN "INVALID" ELSE verdict

RenderBadge ==
    /\ pc = "badge" /\ goodLabel /\ BadgeVerdict \in BadgeStates
    /\ badge' = BadgeVerdict
    /\ rendered' = TRUE
    /\ pc' = "done"
    /\ UNCHANGED <<inputs, turn, files, lastWriter, packaged, output, failed,
                   consumed, evidence, verdict>>

\* The badge in the repository, if any, stays.
BadgeFails ==
    /\ pc = "badge" /\ ~(goodLabel /\ BadgeVerdict \in BadgeStates)
    /\ failed' = TRUE
    /\ pc' = "done"
    /\ UNCHANGED <<inputs, turn, files, lastWriter, packaged, output, consumed,
                   evidence, verdict, badge, rendered>>

Next ==
    \/ \E p \in Provider : RunProvider(p) \/ SkipProvider(p)
    \/ EndOfProviders
    \/ AggregateRefuses \/ AggregateDies \/ AggregateComposes
    \/ RenderBadge \/ BadgeFails

Spec == Init /\ [][Next]_vars

-----------------------------------------------------------------------------
(* Properties                                                              *)

\* Every variable has its type; only established checks are packaged.
TypeOK ==
    /\ configured \subseteq Provider
    /\ required \subseteq Ids /\ optional \subseteq Ids
    /\ failOnUnknown \in BOOLEAN /\ goodLabel \in BOOLEAN
    /\ pc \in {"providers", "aggregate", "badge", "done"}
    /\ turn \in 1 .. Len(Providers) + 1
    /\ files \in [Ids -> Documents \cup {NoFile, Malformed}]
    /\ lastWriter \in [Ids -> Provider \cup {"checkout"}]
    /\ packaged \in [Provider -> Documents \cup {NoFile}]
    /\ \A p \in Provider : packaged[p] # NoFile => packaged[p].id = p
    /\ output \in [Provider -> BadgeStates \cup {""}]
    /\ failed \in BOOLEAN /\ rendered \in BOOLEAN
    /\ evidence \subseteq {"aggregate", "receipt", "manifest"}
    /\ verdict \in BadgeStates \cup {""}
    /\ badge \in BadgeStates

Consumed == Loaded(consumed)
AggregateIsEstablished == verdict \in Verdicts

\* A badge rendered as PASS is earned: every required check was consumed with
\* PASS, every provider that has a command had its own check packaged, and
\* the evidence of the aggregation is complete.  Neither a skipped, refused
\* or dead aggregation nor missing coverage can yield it.
BadgeIsEarned ==
    rendered /\ badge = "PASS" =>
        /\ \A id \in required : CheckResult(id, "PASS") \in Consumed
        /\ \A p \in configured : packaged[p] # NoFile
        /\ evidence = {"aggregate", "receipt", "manifest"}

\* What an established aggregation consumed for a provider is the check that
\* run-check packaged for it, unless a provider that ran later changed that
\* result file: a packaged FAIL cannot turn into a PASS otherwise.
ChangedLater(p) ==
    \E i, j \in DOMAIN Providers :
        i < j /\ p = Providers[i] /\ lastWriter[p] = Providers[j]

ConsumedIsPackaged ==
    AggregateIsEstablished =>
        \A p \in configured :
            \/ ChangedLater(p)
            \/ /\ packaged[p] # NoFile
               /\ packaged[p] \in Consumed
               /\ \A c \in Consumed : c.id = p => c = packaged[p]

\* A job that succeeds has rendered a badge, PASS or a tolerated UNKNOWN; one
\* whose badge says FAIL or INVALID has failed.  A badge left by an earlier
\* job never stands for this one in a green job.
GreenJob ==
    pc = "done" /\ ~failed =>
        /\ rendered
        /\ badge = "PASS" \/ (badge = "UNKNOWN" /\ ~failOnUnknown)
        /\ evidence = {"aggregate", "receipt", "manifest"}

\* With a valid label a job always replaces the badge, also when a provider
\* failed and the aggregation was skipped or died; it then says INVALID.  The
\* renderer's other refusals (a revision, a digest, a path or a sidecar that
\* does not validate) and failing writes are not modelled: then the badge
\* stays, and the job fails.
BadgeIsCurrent ==
    pc = "done" /\ goodLabel =>
        /\ rendered
        /\ badge = "INVALID" <=> ~AggregateIsEstablished

\* No consumed check is hidden: under an established aggregate every check
\* consumed was declared, and one that is not PASS is reported as unresolved
\* or is the FAIL that decided the verdict; so is every missing required one.
NothingHidden ==
    AggregateIsEstablished =>
        LET verdicts == LoadedVerdicts(consumed)
            reported == Unresolved(verdicts, required, optional)
        IN  /\ \A c \in Consumed :
                  /\ c.id \in required \cup optional
                  /\ c.verdict # "PASS" =>
                        \/ c.id \in reported
                        \/ (c.verdict = "FAIL" /\ verdict = "FAIL")
            /\ required \ DOMAIN verdicts \subseteq reported

Rank(v) == IF v = "FAIL" THEN 0 ELSE IF v = "UNKNOWN" THEN 1 ELSE 2

\* Worse evidence never gives a better verdict: had one of the consumed checks
\* been worse, or not been listed at all, the verdict would not be better -
\* except that leaving out a FAIL turns it into missing coverage.
WorseIsNeverBetter ==
    AggregateIsEstablished =>
        LET verdicts == LoadedVerdicts(consumed) IN
        \A id \in DOMAIN verdicts :
            /\ \A v \in Verdicts : Rank(v) <= Rank(verdicts[id]) =>
                  Rank(AggregateVerdict([verdicts EXCEPT ![id] = v], required))
                     <= Rank(verdict)
            /\ verdicts[id] # "FAIL" =>
                  Rank(AggregateVerdict(
                         [x \in DOMAIN verdicts \ {id} |-> verdicts[x]],
                         required)) <= Rank(verdict)
=============================================================================
