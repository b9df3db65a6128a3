--------------------------- MODULE FamilyEvidence ---------------------------
(***************************************************************************)
(* How the evidence of the family is produced and assembled                *)
(* (scripts/family_producer.py, scripts/assemble_family_evidence.py,       *)
(* scripts/family_protocol.py, scripts/run_family_contracts.py and the     *)
(* workflows family-contract-canary.yml, moving-head-family-drift.yml and  *)
(* family-contract-advance.yml).                                           *)
(*                                                                         *)
(* One producer job per owner runs the owner's code, hashes what it wrote  *)
(* and seals it in an envelope.  The assembler reads envelopes and files   *)
(* only: it never runs an owner's code.  In a workflow the jobs run in     *)
(* parallel, each uploads its directory whatever became of it, and the     *)
(* assembler starts always(): a re-run finds the artifacts of earlier      *)
(* attempts, the candidate among them.  The local entry point              *)
(* runs the producers one after another in one file system, where nothing  *)
(* is reset between two invocations and the contract may be edited.        *)
(*                                                                         *)
(* A process the owner's code left behind may write after the code is      *)
(* done.  A digest is modelled by the content it is taken of, a document   *)
(* of the contract by its schema, base and revisions; the descriptors are  *)
(* those of the checkout and do not change.                                *)
(***************************************************************************)
EXTENDS Aggregation, Functions

CONSTANTS
    Producers,      \* the producers, numbers in the order of their names
    Checks,         \* the checks the descriptors declare
    Owner,          \* the producer that declares a check
    Required,       \* the checks the boundary requires, the rest is optional
    Workflows,      \* of "canary", "drift", "advance" and "local"
    MaxRevision,    \* bound on the revisions; revision 0 is the fixed one
    MaxAttempts,    \* bound on the attempts of a run
    MayFail,        \* the checks the owners may reach a FAIL for
    MaxEdits,       \* bound on the edits of the contract in a local run
    MaxLate,        \* bound on the late writes
    None            \* a document that is not there

Revision == 0..MaxRevision

\* The documents of the contract, what a directory may hold, the envelopes
\* and the evidence.
Native == "native"
Stray == "stray"
Documents == [schema : {"fixed", "candidate"}, base : [Producers -> Revision],
              revision : [Producers -> Revision]]
File ==
    [kind : {"check"}, id : Checks, verdict : {"PASS", "FAIL", "UNKNOWN"},
     revision : Revision, at : Nat]
    \cup [kind : {"report"}, by : {"operation", "leftover"}, at : Nat]
    \cup [kind : {"malformed"}, at : Nat]
Trees == UNION {[D -> File] : D \in SUBSET (Checks \cup {Native, Stray})}
Envelopes == [contract : Documents, revision : Revision,
              schema : {"fixed", "candidate"}, attempt : Nat,
              files : Trees, checks : Trees]
FamilyEvidences == [contract : Documents, revisions : [Producers -> Revision],
                    checks : [Checks -> File], source : [Producers -> Envelopes]]

ASSUME ConstantsAssumption ==
    /\ Producers \subseteq Nat /\ Producers # {}
    /\ Owner \in [Checks -> Producers]
    /\ Required \subseteq Checks
    /\ Workflows \subseteq {"canary", "drift", "advance", "local"}
    /\ MayFail \subseteq Checks
    /\ MaxRevision \in Nat /\ MaxAttempts \in Nat
    /\ MaxEdits \in Nat /\ MaxLate \in Nat
    /\ None \notin Documents /\ None \notin FamilyEvidences

VARIABLES
    workflow,   \* which workflow runs
    registry,   \* what the descriptor registry holds of each producer
    contract,   \* the contract document the jobs find: of the checkout, or
                \* the candidate that was uploaded last
    phase,      \* "prepare", "produce", "assemble" or "concluded"
    attempt,    \* the number of the attempt
    edits,      \* how often the contract was edited
    late,       \* how often a process left behind has written
    job,        \* the producer jobs and their output directories
    artifact,   \* what a job uploaded last
    assembler,  \* the assembler and its output directory
    proposal,   \* the fixed contract an advancement proposes
    evidence,   \* the family evidence of this attempt
    green       \* the run succeeded

vars == <<workflow, registry, contract, phase, attempt, edits, late,
          job, artifact, assembler, proposal, evidence, green>>

setting == <<workflow, registry>>
counters == <<attempt, edits, late>>
results == <<proposal, evidence, green>>

-----------------------------------------------------------------------------
(* Documents.                                                              *)

FixedRevisions == [p \in Producers |-> 0]
Fixed ==
    [schema |-> "fixed", base |-> FixedRevisions, revision |-> FixedRevisions]

\* propose: a candidate on the fixed contract, with the heads it resolved.
Candidate(base, revisions) ==
    [schema |-> "candidate", base |-> base, revision |-> revisions]

\* The contracts a local run may be given: of a candidate the base may be
\* another fixed contract than the one of the checkout.
Contracts == {Fixed}
    \cup {Candidate([p \in Producers |-> b], r) :
                b \in {0, MaxRevision}, r \in [Producers -> Revision]}

\* validate_fixed, or validate_candidate and validate_against_fixed.
Accepted(c) == c.schema = "candidate" => c.base = Fixed.revision

\* A bug to tell apart: the revisions proposed are those of the base.
PromotesBase(c) == [Fixed EXCEPT !.revision = c.base]

\* promoted_fixed_document
Promoted(c) == [Fixed EXCEPT !.revision = c.revision]

\* A registry, with a fault in the descriptor of at most one producer.
Registries ==
    {[p \in Producers |-> "described"]}
    \cup {[p \in Producers |-> IF p = q THEN fault ELSE "described"] :
            q \in Producers, fault \in {"malformed", "absent"}}

\* validate_descriptor_registry: each producer is described, and well.
RegistryHolds == \A p \in Producers : registry[p] = "described"

\* descriptor_outputs
Declared(p) == {c \in Checks : Owner[c] = p}

\* What a producer's directory holds; "at" is the attempt it was written in.
CheckFile(c, verdict, r) ==
    [kind |-> "check", id |-> c, verdict |-> verdict, revision |-> r,
     at |-> attempt]
Report(by) == [kind |-> "report", by |-> by, at |-> attempt]
Broken == [kind |-> "malformed", at |-> attempt]

Nothing == << >>

\* A directory with one file, and files written over those of a directory.
\* (The provers know no definition of :> and @@ of module TLC.)
Only(f, content) == [name \in {f} |-> content]
Over(new, old) == [f \in DOMAIN new \cup DOMAIN old |->
                      IF f \in DOMAIN new THEN new[f] ELSE old[f]]

Unsealed == Only(Native, Report("operation"))

IdleJob(tree) == [pc |-> "idle", entries |-> None, tree |-> tree,
                  hashed |-> Nothing, envelope |-> None]
IdleAssembler(out) == [pc |-> "idle", entries |-> None, digest |-> None,
                       seen |-> {}, out |-> out]

\* What the assembler finds of a producer: its artifact, or its directory.
Area(p) == IF workflow = "local"
           THEN [tree |-> job[p].tree, envelope |-> job[p].envelope]
           ELSE artifact[p]

\* A bug to tell apart: leftovers do not keep a run from starting.
CleanAnyhow(directory) == TRUE

\* ensure_clean_directory
Clean(directory) == directory = Nothing

-----------------------------------------------------------------------------
(* Preparing the run: the candidate and the matrix of producers.           *)

Init ==
    /\ workflow \in Workflows
    /\ registry \in Registries
    /\ contract \in (IF workflow = "local" THEN Contracts
                     ELSE IF workflow = "canary" THEN {Fixed} ELSE {None})
    /\ phase = "prepare" /\ attempt = 1 /\ edits = 0 /\ late = 0
    /\ job = [p \in Producers |-> IdleJob(Nothing)]
    /\ artifact = [p \in Producers |-> [tree |-> Nothing, envelope |-> None]]
    /\ assembler = IdleAssembler(Nothing)
    /\ proposal = None /\ evidence = None /\ green = FALSE

\* The fixed contract of the checkout, or a candidate of the present heads.
Prepared == IF workflow = "canary" THEN {Fixed}
            ELSE {Candidate(FixedRevisions, r) : r \in [Producers -> Revision]}

\* The job prepare, whose last step uploads the candidate.
Prepare ==
    /\ phase = "prepare" /\ workflow # "local"
    /\ contract' \in Prepared
    /\ phase' = "produce"
    /\ UNCHANGED <<setting, counters, results, job, artifact, assembler>>

\* A head does not resolve, or the job dies, before its upload or after it.
\* The producers are skipped; the assembler is not, and fails at once only if
\* no attempt has uploaded a candidate.
PrepareFails ==
    /\ phase = "prepare" /\ workflow # "local"
    /\ contract' \in {contract} \cup Prepared
    /\ phase' = IF contract' = None THEN "concluded" ELSE "produce"
    /\ job' = [p \in Producers |-> [job[p] EXCEPT !.pc = "skipped"]]
    /\ UNCHANGED <<setting, counters, results, artifact, assembler>>

LocalMayStart ==
    /\ Accepted(contract) /\ RegistryHolds
    /\ Clean(assembler.out)
    /\ \A p \in Producers : Clean(job[p].tree)

\* run_family_contracts: both directories must be clean.
Invoke ==
    /\ phase = "prepare" /\ workflow = "local"
    /\ phase' = IF LocalMayStart THEN "produce" ELSE "concluded"
    /\ UNCHANGED <<setting, counters, results, contract, job, artifact,
                   assembler>>

-----------------------------------------------------------------------------
(* A producer job.                                                         *)

Ended(p) == job[p].pc \in (IF workflow = "local" THEN {"done", "failed"}
                           ELSE {"succeeded", "red", "skipped"})

\* Local producers run one after another, until one fails.
Scheduled(p) ==
    workflow = "local" => \A q \in Producers : q < p => job[q].pc = "done"

\* The documents, the checkout and the directory are in order.
MayStart(p, revision) ==
    /\ Accepted(contract) /\ RegistryHolds
    /\ revision = contract.revision[p]
    /\ Clean(job[p].tree)

\* A workflow checks the owner out at the revision of the matrix; locally it
\* is whatever the working copy is at.
Start(p) ==
    /\ phase = "produce" /\ job[p].pc = "idle" /\ Scheduled(p)
    /\ \E revision \in IF workflow = "local" THEN Revision
                       ELSE {contract.revision[p]} :
         job' = [job EXCEPT ![p] =
                   IF MayStart(p, revision)
                   THEN [@ EXCEPT !.pc = "started", !.entries = contract]
                   ELSE [@ EXCEPT !.pc = "failed"]]
    /\ UNCHANGED <<setting, counters, results, contract, phase, artifact,
                   assembler>>

\* All an operation may leave: its native report and its checks.
Outputs(p) ==
    {Over([c \in Declared(p) |->
              CheckFile(c, verdict[c], job[p].entries.revision[p])], Unsealed) :
        verdict \in {v \in [Declared(p) -> {"PASS", "FAIL"}] :
                        \A c \in Declared(p) \ MayFail : v[c] = "PASS"}}

\* _run_operation
Operate(p) ==
    /\ job[p].pc = "started"
    /\ \E tree \in Outputs(p) :
         job' = [job EXCEPT ![p].pc = "operated", ![p].tree = Over(tree, @)]
    /\ UNCHANGED <<setting, counters, results, contract, phase, artifact,
                   assembler>>

\* The operation fails, is timed out or killed.  Of the files it leaves only
\* matters whether there is one.
OperateFails(p) ==
    /\ job[p].pc = "started"
    /\ \E tree \in {Nothing, Unsealed} :
         job' = [job EXCEPT ![p].pc = "failed", ![p].tree = Over(tree, @)]
    /\ UNCHANGED <<setting, counters, results, contract, phase, artifact,
                   assembler>>

\* run walks the directory and hashes every file.
Hash(p) ==
    /\ job[p].pc = "operated"
    /\ job' = [job EXCEPT ![p].pc = "hashed", ![p].hashed = job[p].tree]
    /\ UNCHANGED <<setting, counters, results, contract, phase, artifact,
                   assembler>>

\* The checks a job may seal: valid, its own, and of its revision.
SoundChecks(p) ==
    \A c \in Declared(p) :
        /\ c \in DOMAIN job[p].tree
        /\ job[p].tree[c].kind = "check"
        /\ job[p].tree[c].revision = job[p].entries.revision[p]

\* The checks are read again, and so is the contract for its digest.
Seal(p) ==
    /\ job[p].pc = "hashed"
    /\ job' = [job EXCEPT ![p] =
                 IF SoundChecks(p)
                 THEN [@ EXCEPT !.pc = "sealed", !.hashed = Nothing,
                         !.envelope = [contract |-> contract,
                                       revision |-> job[p].entries.revision[p],
                                       schema |-> job[p].entries.schema,
                                       attempt |-> attempt,
                                       files |-> job[p].hashed,
                                       checks |-> Restrict(job[p].tree, Declared(p))]]
                 ELSE [@ EXCEPT !.pc = "failed"]]
    /\ UNCHANGED <<setting, counters, results, contract, phase, artifact,
                   assembler>>

\* validate_transport_tree: the envelope is there by now, whatever it finds.
Confirm(p) ==
    /\ job[p].pc = "sealed"
    /\ job' = [job EXCEPT ![p].pc =
                 IF DOMAIN job[p].tree = DOMAIN job[p].envelope.files
                 THEN "done" ELSE "failed"]
    /\ UNCHANGED <<setting, counters, results, contract, phase, artifact,
                   assembler>>

\* The job is killed before the operation or after it.
JobDies(p) ==
    /\ phase = "produce" /\ Scheduled(p)
    /\ job[p].pc \in {"idle", "operated", "hashed", "sealed"}
    /\ job' = [job EXCEPT ![p].pc = "failed"]
    /\ UNCHANGED <<setting, counters, results, contract, phase, artifact,
                   assembler>>

\* A process the operation left behind writes one file more: a check, the
\* native report or a stray file.  Late writes to producer-execution.json
\* itself are left out.
LateWrite(p) ==
    /\ job[p].pc \in {"operated", "hashed", "sealed", "done", "failed"}
    /\ job[p].entries # None /\ late < MaxLate /\ phase # "concluded"
    /\ \E f \in Declared(p) \cup {Native, Stray} :
       \E content \in IF f \in {Native, Stray} THEN {Report("leftover")}
                      ELSE {Broken, CheckFile(f, "UNKNOWN",
                                                 job[p].entries.revision[p])} :
         job' = [job EXCEPT ![p].tree = Over(Only(f, content), @)]
    /\ late' = late + 1
    /\ UNCHANGED <<setting, results, contract, phase, attempt, edits,
                   artifact, assembler>>

\* The directory is uploaded always(), unless there is nothing in it.
Upload(p) ==
    /\ workflow # "local" /\ job[p].pc \in {"done", "failed"}
    /\ artifact' = IF job[p].tree = Nothing THEN artifact
                   ELSE [artifact EXCEPT ![p] =
                           [tree |-> IF job[p].envelope = None THEN Unsealed
                                     ELSE job[p].tree,
                            envelope |-> job[p].envelope]]
    /\ job' = [job EXCEPT ![p] = [IdleJob(Nothing) EXCEPT !.pc =
                 IF job[p].pc = "done" THEN "succeeded" ELSE "red"]]
    /\ UNCHANGED <<setting, counters, results, contract, phase, assembler>>

-----------------------------------------------------------------------------
(* The assembler.                                                          *)

\* The local run stops at the first producer that fails.
LocalStops ==
    /\ phase = "produce" /\ workflow = "local"
    /\ \E p \in Producers : job[p].pc = "failed"
    /\ phase' = "concluded"
    /\ UNCHANGED <<setting, counters, results, contract, job, artifact,
                   assembler>>

\* The assembler starts once every job has ended, however it ended.  Before
\* it, an advancement writes its proposal.
AssembleStarts ==
    /\ phase = "produce" /\ \A p \in Producers : Ended(p)
    /\ workflow = "local" => \A p \in Producers : job[p].pc = "done"
    /\ phase' = IF Accepted(contract) /\ RegistryHolds THEN "assemble" ELSE "concluded"
    /\ assembler' = [assembler EXCEPT !.pc = "reading", !.entries = contract]
    /\ proposal' = IF workflow = "advance" /\ Accepted(contract)
                   THEN Promoted(contract) ELSE None
    /\ UNCHANGED <<setting, counters, contract, job, artifact, evidence,
                   green>>

Enveloped == {p \in Producers : Area(p).envelope # None}

\* The digest of the contract is taken, the output directory must be empty,
\* and every file found must be of a producer that sealed an envelope.
OpenEnvelopes ==
    /\ phase = "assemble" /\ assembler.pc = "reading"
    /\ IF /\ Clean(assembler.out) /\ Enveloped # {}
          /\ \A p \in Producers \ Enveloped : Area(p).tree = Nothing
       THEN /\ assembler' = [assembler EXCEPT !.pc = "open", !.digest = contract]
            /\ phase' = phase
       ELSE /\ assembler' = [assembler EXCEPT !.pc = "failed"]
            /\ phase' = "concluded"
    /\ UNCHANGED <<setting, counters, results, contract, job, artifact>>

\* A bug to tell apart: an envelope of another contract is taken.
AnyContract(p, e) ==
    /\ e.schema = assembler.entries.schema
    /\ e.revision = assembler.entries.revision[p]
    /\ DOMAIN e.checks = Declared(p)
    /\ \A c \in Declared(p) : c \in DOMAIN e.files /\ e.files[c] = e.checks[c]

\* validate_producer_output
EnvelopeHolds(p, e) ==
    /\ e.schema = assembler.entries.schema
    /\ e.revision = assembler.entries.revision[p]
    /\ e.contract = assembler.digest
    /\ DOMAIN e.checks = Declared(p)
    /\ \A c \in Declared(p) : c \in DOMAIN e.files /\ e.files[c] = e.checks[c]

\* A bug to tell apart: the transported bytes are not compared.
SameFiles(tree, e) == DOMAIN tree = DOMAIN e.files

\* validate_transport_tree and the digest of every transported byte.
TransportHolds(tree, e) == tree = e.files

\* A transported check is valid and of the revision of the contract.
CheckHolds(p, content) ==
    content.kind = "check" /\ content.revision = assembler.entries.revision[p]

\* One envelope: its checks are copied out as soon as they are verified.
Take(p) ==
    /\ phase = "assemble" /\ assembler.pc = "open"
    /\ p \in Enveloped \ assembler.seen
    /\ LET area == Area(p)
       IN  IF /\ EnvelopeHolds(p, area.envelope)
              /\ TransportHolds(area.tree, area.envelope)
              /\ \A c \in Declared(p) : CheckHolds(p, area.tree[c])
           THEN /\ assembler' = [assembler EXCEPT !.seen = @ \cup {p},
                     !.out = Over(Restrict(area.tree, Declared(p)), @)]
                /\ phase' = phase
           ELSE /\ assembler' = [assembler EXCEPT !.pc = "failed"]
                /\ phase' = "concluded"
    /\ UNCHANGED <<setting, counters, results, contract, job, artifact>>

\* Every producer and every declared check, and no other.
WholeFamily == assembler.seen = Producers /\ DOMAIN assembler.out = Checks

\* The document the assembler builds of what it took.
Composed ==
    [contract |-> assembler.digest,
     revisions |-> assembler.entries.revision,
     checks |-> assembler.out,
     source |-> [p \in assembler.seen |-> Area(p).envelope]]

\* validate_family_integration_evidence
EvidenceHolds(e) ==
    /\ e.contract = assembler.digest
    /\ e.revisions = assembler.entries.revision
    /\ DOMAIN e.checks = Checks
    /\ \A c \in Checks : e.checks[c].revision = e.revisions[Owner[c]]

\* The evidence is written when all envelopes were taken and none is missing.
Conclude ==
    /\ phase = "assemble" /\ assembler.pc = "open" /\ assembler.seen = Enveloped
    /\ IF WholeFamily /\ EvidenceHolds(Composed)
       THEN /\ evidence' = Composed
            /\ assembler' = [assembler EXCEPT !.pc = "assembled"]
            /\ phase' = IF workflow = "local" THEN "concluded" ELSE phase
            /\ green' = (workflow = "local")
       ELSE /\ assembler' = [assembler EXCEPT !.pc = "failed"]
            /\ phase' = "concluded"
            /\ UNCHANGED <<evidence, green>>
    /\ UNCHANGED <<setting, counters, contract, job, artifact, proposal>>

\* A bug to tell apart: only a failed aggregation fails the job.
NoGate(verdict) == TRUE

\* Of the workflows only the drift observation fails with a verdict.
Gate(verdict) == workflow = "drift" => verdict # "FAIL"

\* aggregate.sh over the files in the directory "checks".  The run succeeds if
\* no other job failed or was skipped.
Aggregate ==
    /\ phase = "assemble" /\ assembler.pc = "assembled"
    /\ LET out == assembler.out
           verdict == AggregateVerdict([c \in DOMAIN out |-> out[c].verdict], Required)
       IN  green' = (Gate(verdict) /\ \A p \in Producers : job[p].pc = "succeeded")
    /\ phase' = "concluded"
    /\ UNCHANGED <<setting, counters, contract, job, artifact, assembler,
                   proposal, evidence>>

\* The job dies between two of its steps.
AssemblerDies ==
    /\ phase = "assemble"
    /\ phase' = "concluded"
    /\ UNCHANGED <<setting, counters, results, contract, job, artifact,
                   assembler>>

-----------------------------------------------------------------------------
(* Between two attempts.                                                   *)

MayRetry == phase = "concluded" /\ attempt < MaxAttempts

\* All jobs run again, or prepare and with it those that need it: new machines,
\* the old artifacts.
RerunAll ==
    /\ MayRetry /\ workflow # "local"
    /\ attempt' = attempt + 1
    /\ phase' = "prepare"
    /\ job' = [p \in Producers |-> IdleJob(Nothing)]
    /\ assembler' = IdleAssembler(Nothing)
    /\ proposal' = None /\ evidence' = None /\ green' = FALSE
    /\ UNCHANGED <<setting, contract, edits, late, artifact>>

\* The failed producers run again, with the candidate there is.
RerunFailed ==
    /\ MayRetry /\ workflow # "local" /\ contract # None /\ ~ green
    /\ \A p \in Producers : job[p].pc # "skipped"
    /\ attempt' = attempt + 1
    /\ phase' = "produce"
    /\ job' = [p \in Producers |-> IF job[p].pc = "red" THEN IdleJob(Nothing)
                                   ELSE job[p]]
    /\ assembler' = IdleAssembler(Nothing)
    /\ proposal' = None /\ evidence' = None /\ green' = FALSE
    /\ UNCHANGED <<setting, contract, edits, late, artifact>>

\* A local run is invoked again; its directories may have been removed.
LocalAgain ==
    /\ MayRetry /\ workflow = "local"
    /\ attempt' = attempt + 1
    /\ phase' = "prepare" /\ green' = FALSE
    /\ \E cleanJobs, cleanOutput \in BOOLEAN :
         /\ job' = [p \in Producers |->
                      IF cleanJobs THEN IdleJob(Nothing)
                      ELSE [job[p] EXCEPT !.pc = "idle"]]
         /\ assembler' = IdleAssembler(IF cleanOutput THEN Nothing ELSE assembler.out)
         /\ evidence' = IF cleanOutput THEN None ELSE evidence
    /\ UNCHANGED <<setting, contract, edits, late, artifact, proposal>>

\* Locally the contract is a file of a working tree.
LocalEdit ==
    /\ workflow = "local" /\ edits < MaxEdits /\ phase # "concluded"
    /\ edits' = edits + 1
    /\ contract' \in Contracts \ {contract}
    /\ UNCHANGED <<setting, results, phase, attempt, late, job, artifact,
                   assembler>>

ProducerStep(p) ==
    \/ Start(p) \/ Operate(p) \/ OperateFails(p) \/ Hash(p) \/ Seal(p)
    \/ Confirm(p) \/ JobDies(p) \/ Upload(p)

AssemblerStep ==
    \/ LocalStops \/ AssembleStarts \/ OpenEnvelopes \/ Conclude \/ Aggregate
    \/ AssemblerDies \/ \E p \in Producers : Take(p)

Next ==
    \/ Prepare \/ PrepareFails \/ Invoke
    \/ \E p \in Producers : ProducerStep(p) \/ LateWrite(p)
    \/ AssemblerStep
    \/ RerunAll \/ RerunFailed \/ LocalAgain \/ LocalEdit

Spec == Init /\ [][Next]_vars

-----------------------------------------------------------------------------
(* Properties.                                                             *)

\* Whatever checks a leftover process writes, and whenever: every check of the
\* evidence is byte for byte the one its producer hashed and validated in one
\* execution, of the revision the evidence names.  The envelope itself is
\* taken for the one the verifier wrote: late writes to it are not modelled.
EvidenceIsSealed ==
    evidence # None =>
        \A c \in Checks :
            /\ evidence.checks[c] = evidence.source[Owner[c]].checks[c]
            /\ evidence.checks[c] = evidence.source[Owner[c]].files[c]
            /\ evidence.checks[c].kind = "check"
            /\ evidence.checks[c].revision = evidence.revisions[Owner[c]]

\* The evidence is about one contract: the revisions it names are those of
\* the document whose digest it carries, every producer sealed under that
\* document, and it is a document on the fixed contract.  In a workflow it is
\* the document the assembler found, whatever envelopes earlier attempts left;
\* after a prepare that failed that may be the candidate of an earlier attempt.
\* Locally, where the contract is read twice by each program, it takes more
\* than two edits to come apart.
EvidenceIsOfOneContract ==
    evidence # None =>
        /\ \A p \in Producers : evidence.source[p].contract = evidence.contract
        /\ workflow # "local" => evidence.contract = contract
        /\ workflow # "local" \/ edits <= 2 =>
              /\ evidence.revisions = evidence.contract.revision
              /\ Accepted(evidence.contract)

\* What a producer seals was written in the attempt that seals it, and the
\* evidence of a local run is of envelopes sealed in that run: no file of an
\* earlier run fills a newer set.
SealsItsOwnRun ==
    /\ \A p \in Producers : job[p].envelope # None =>
          \A f \in DOMAIN job[p].envelope.files :
              job[p].envelope.files[f].at = job[p].envelope.attempt
    /\ workflow = "local" /\ green =>
          \A p \in Producers : evidence.source[p].attempt = attempt

\* A run that succeeded assembled every producer and check, and the drift
\* observation succeeds with no failed check the boundary requires.
GreenIsWhole ==
    green => /\ evidence # None /\ DOMAIN evidence.checks = Checks
             /\ DOMAIN evidence.source = Producers
             /\ workflow = "drift" =>
                   \A c \in Required : evidence.checks[c].verdict # "FAIL"

\* What an advancement proposes are the revisions its evidence is about.
ProposalIsObserved ==
    workflow = "advance" /\ evidence # None =>
        proposal # None /\ proposal.revision = evidence.revisions
=============================================================================
