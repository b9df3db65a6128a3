------------------------- MODULE FamilyEvidenceProofs -------------------------
(***************************************************************************)
(* Proofs about FamilyEvidence, for any producers, checks, revisions and   *)
(* bounds.                                                                 *)
(*                                                                         *)
(* What an envelope says of a directory holds because the directory was    *)
(* empty when the job started and everything in it was written in the      *)
(* attempt.  What the evidence says holds because the files a job uploads  *)
(* and the envelope that seals them do not change while the assembler      *)
(* reads them, and the assembler takes no byte that the envelope does not  *)
(* vouch for.  Of a local contract the argument counts the edits: for a    *)
(* digest to be of another document than the revisions, the document must  *)
(* have been put in place before the last seal, replaced before the        *)
(* assembler reads its entries and put back before it takes the digest.    *)
(***************************************************************************)
EXTENDS FamilyEvidence, TLAPS

Running == {"started", "operated", "hashed", "sealed"}

WrittenAt(tree, n) == \A f \in DOMAIN tree : tree[f].at = n

\* Envelope e of producer p is about the revision its own contract names.
Consistent(p, e) ==
    e.revision = e.contract.revision[p] /\ Accepted(e.contract)

Jobs == [pc : {"idle", "started", "operated", "hashed", "sealed", "done",
               "failed", "succeeded", "red", "skipped"},
         entries : Documents \cup {None}, tree : Trees, hashed : Trees,
         envelope : Envelopes \cup {None}]
Assemblers == [pc : {"idle", "reading", "open", "assembled", "failed"},
               entries : Documents \cup {None},
               digest : Documents \cup {None}, seen : SUBSET Producers,
               out : Trees]

TypeInv ==
    /\ workflow \in {"canary", "drift", "advance", "local"}
    /\ contract \in Documents \cup {None}
    /\ phase \in {"produce", "assemble"} => contract \in Documents
    /\ workflow = "local" => contract \in Documents
    /\ attempt \in Nat /\ edits \in Nat
    /\ job \in [Producers -> Jobs]
    /\ artifact \in [Producers -> [tree : Trees,
                                   envelope : Envelopes \cup {None}]]
    /\ assembler \in Assemblers
    /\ evidence \in FamilyEvidences \cup {None}

\* Where job p may be when it is j.
Placed(p, j) ==
    /\ j.pc \in Running => phase = "produce"
    /\ workflow = "local" =>
          /\ j.pc # "idle" => \A q \in Producers : q < p => job[q].pc = "done"
          /\ phase = "assemble" => j.pc = "done"
    /\ workflow # "local" /\ phase # "produce" => j.pc \notin {"done", "failed"}

\* When the files of job j were written, and what its envelope says of it.
SealedJob(j) ==
    /\ j.pc \in {"started", "operated", "hashed"} => j.entries \in Documents
    /\ j.pc = "started" => j.tree = Nothing
    /\ j.pc \in {"operated", "hashed", "sealed"} => WrittenAt(j.tree, attempt)
    /\ j.pc = "hashed" => WrittenAt(j.hashed, attempt)
    /\ j.envelope # None => WrittenAt(j.envelope.files, j.envelope.attempt)
    /\ j.pc \in {"sealed", "done"} => j.envelope \in Envelopes
    /\ workflow = "local" /\ j.pc \in {"sealed", "done"} =>
          j.envelope.attempt = attempt

\* What a number of edits can have done to job p of a local run.
EditedJob(p, j) ==
    workflow = "local" =>
        /\ j.pc \in {"started", "operated", "hashed"} /\ edits = 0 =>
              j.entries = contract /\ Accepted(contract)
        /\ j.pc \in {"sealed", "done"} =>
              /\ edits = 0 => Consistent(p, j.envelope)
              /\ \/ j.envelope.contract = contract
                 \/ Consistent(p, j.envelope)
                 \/ edits >= 2

JobsInv ==
    \A p \in Producers :
        Placed(p, job[p]) /\ SealedJob(job[p]) /\ EditedJob(p, job[p])

\* All envelopes are of the document with these entries, or consistent.
Agreed(entries) ==
    \A p \in Producers : \/ job[p].envelope.contract = entries
                         \/ Consistent(p, job[p].envelope)

\* What a number of edits can have done to the assembler of a local run.
EditInv ==
    workflow = "local" /\ phase = "assemble" =>
        /\ assembler.pc = "reading" =>
              \/ assembler.entries = contract
              \/ edits >= 3
              \/ Agreed(assembler.entries)
        /\ assembler.pc = "open" =>
              \/ assembler.entries = assembler.digest
              \/ edits >= 3
              \/ Agreed(assembler.entries)

\* What the assembler has taken is what the envelopes vouch for.
TakenInv ==
    /\ assembler.digest \in Documents
    /\ workflow # "local" => assembler.digest = contract
    /\ DOMAIN assembler.out = {c \in Checks : Owner[c] \in assembler.seen}
    /\ \A p \in assembler.seen :
          /\ Area(p).envelope \in Envelopes
          /\ EnvelopeHolds(p, Area(p).envelope)
    /\ \A c \in DOMAIN assembler.out :
          /\ assembler.out[c] = Area(Owner[c]).envelope.files[c]
          /\ CheckHolds(Owner[c], assembler.out[c])

AssemblerInv ==
    /\ assembler.pc \in {"idle", "reading"} => assembler.seen = {}
    /\ phase \in {"prepare", "produce"} => assembler.pc = "idle"
    /\ phase = "assemble" =>
          /\ assembler.entries \in Documents
          /\ Accepted(assembler.entries)
          /\ workflow # "local" => assembler.entries = contract
          /\ workflow = "advance" => proposal = Promoted(contract)
          /\ assembler.pc = "open" => TakenInv
          /\ assembler.pc = "assembled" =>
                /\ workflow # "local"
                /\ evidence # None /\ evidence.checks = assembler.out

EvidenceInv ==
    /\ EvidenceIsSealed
    /\ EvidenceIsOfOneContract
    /\ workflow = "local" /\ green =>
          \A p \in Producers : evidence.source[p].attempt = attempt
    /\ GreenIsWhole
    /\ evidence # None /\ workflow # "local" =>
          phase \in {"assemble", "concluded"}
    /\ evidence # None /\ workflow = "advance" => proposal = Promoted(contract)

IInv == TypeInv /\ JobsInv /\ EditInv /\ AssemblerInv /\ EvidenceInv

-----------------------------------------------------------------------------
(* Lemmas about documents and directories.                                 *)

\* An empty directory.
LEMMA NothingIsEmpty == Nothing \in Trees /\ DOMAIN Nothing = {}
<1>1. DOMAIN Nothing = {}
  BY DEF Nothing
<1>2. Nothing \in [{} -> File]
  BY <1>1 DEF Nothing
<1>3. QED
  BY <1>1, <1>2 DEF Trees

\* What a directory is: files by name.
LEMMA TreeIsFiles ==
    ASSUME NEW t \in Trees
    PROVE  /\ DOMAIN t \subseteq Checks \cup {Native, Stray}
           /\ t \in [DOMAIN t -> File]
BY DEF Trees

LEMMA FilesAreTree ==
    ASSUME NEW D \in SUBSET (Checks \cup {Native, Stray}), NEW t \in [D -> File]
    PROVE  t \in Trees
BY DEF Trees

\* Files written over a directory.
LEMMA WrittenOver ==
    ASSUME NEW s \in Trees, NEW t \in Trees
    PROVE  /\ Over(s, t) \in Trees
           /\ DOMAIN Over(s, t) = DOMAIN s \cup DOMAIN t
           /\ \A f \in DOMAIN Over(s, t) :
                 Over(s, t)[f] = IF f \in DOMAIN s THEN s[f] ELSE t[f]
<1> DEFINE D == DOMAIN s \cup DOMAIN t
<1>1. /\ Over(s, t) = [f \in D |-> IF f \in DOMAIN s THEN s[f] ELSE t[f]]
  BY DEF Over
<1>2. /\ D \subseteq Checks \cup {Native, Stray}
      /\ s \in [DOMAIN s -> File] /\ t \in [DOMAIN t -> File]
  BY TreeIsFiles
<1>3. \A f \in D : (IF f \in DOMAIN s THEN s[f] ELSE t[f]) \in File
  BY <1>2
<1>4. Over(s, t) \in [D -> File]
  BY <1>1, <1>3
<1>5. Over(s, t) \in Trees
  BY <1>2, <1>4, FilesAreTree
<1>6. QED
  BY <1>1, <1>5

\* The only file of a directory.
LEMMA OneFile ==
    ASSUME NEW f \in Checks \cup {Native, Stray}, NEW content \in File
    PROVE  /\ Only(f, content) \in Trees
           /\ DOMAIN Only(f, content) = {f}
           /\ Only(f, content)[f] = content
<1>1. Only(f, content) = [x \in {f} |-> content]
  BY DEF Only
<1>2. Only(f, content) \in [{f} -> File]
  BY <1>1
<1>3. QED
  BY <1>1, <1>2, FilesAreTree

\* The documents a contract may be.
LEMMA ContractsAreDocuments ==
    /\ Fixed \in Documents
    /\ \A b, r \in [Producers -> Revision] : Candidate(b, r) \in Documents
    /\ FixedRevisions \in [Producers -> Revision]
    /\ Contracts \subseteq Documents
    /\ \A c \in Documents : Promoted(c) \in Documents
<1>1. 0 \in Revision /\ MaxRevision \in Revision
  BY ConstantsAssumption DEF Revision
<1>2. FixedRevisions \in [Producers -> Revision]
  BY <1>1 DEF FixedRevisions
<1>3. Fixed \in Documents
  BY <1>2 DEF Fixed, Documents
<1>4. \A b, r \in [Producers -> Revision] : Candidate(b, r) \in Documents
  BY DEF Candidate, Documents
<1>5. \A b \in {0, MaxRevision} : [p \in Producers |-> b] \in [Producers -> Revision]
  BY <1>1
<1>6. Contracts \subseteq Documents
  BY <1>3, <1>4, <1>5 DEF Contracts
<1>7. \A c \in Documents : Promoted(c) \in Documents
  BY <1>3 DEF Promoted, Documents
<1>8. QED
  BY <1>2, <1>3, <1>4, <1>6, <1>7

\* The files of this attempt.
LEMMA FilesOfNow ==
    ASSUME attempt \in Nat
    PROVE  /\ \A c \in Checks, v \in {"PASS", "FAIL", "UNKNOWN"}, r \in Revision :
                 CheckFile(c, v, r) \in File /\ CheckFile(c, v, r).at = attempt
           /\ \A by \in {"operation", "leftover"} :
                 Report(by) \in File /\ Report(by).at = attempt
           /\ Broken \in File /\ Broken.at = attempt
           /\ Unsealed \in Trees /\ WrittenAt(Unsealed, attempt)
<1>1. \A c \in Checks, v \in {"PASS", "FAIL", "UNKNOWN"}, r \in Revision :
         CheckFile(c, v, r) \in File /\ CheckFile(c, v, r).at = attempt
  BY DEF CheckFile, File
<1>2. \A by \in {"operation", "leftover"} :
         Report(by) \in File /\ Report(by).at = attempt
  BY DEF Report, File
<1>3. Broken \in File /\ Broken.at = attempt
  BY DEF Broken, File
<1>4. Unsealed \in Trees /\ WrittenAt(Unsealed, attempt)
  <2>1. Unsealed = Only(Native, Report("operation"))
    BY DEF Unsealed
  <2>2. Native \in Checks \cup {Native, Stray} /\ Report("operation") \in File
    BY <1>2
  <2>3. /\ Unsealed \in Trees /\ DOMAIN Unsealed = {Native}
        /\ Unsealed[Native] = Report("operation")
    BY <2>1, <2>2, OneFile
  <2>4. QED
    BY <1>2, <2>3 DEF WrittenAt
<1>5. QED
  BY <1>1, <1>2, <1>3, <1>4

\* All an operation leaves are files of this attempt.
LEMMA OutputsOfNow ==
    ASSUME attempt \in Nat, NEW p \in Producers,
           job[p].entries.revision \in [Producers -> Revision],
           NEW t \in Outputs(p)
    PROVE  t \in Trees /\ WrittenAt(t, attempt)
<1>1. PICK verdict \in [Declared(p) -> {"PASS", "FAIL"}] :
         t = Over([c \in Declared(p) |->
                      CheckFile(c, verdict[c], job[p].entries.revision[p])],
                  Unsealed)
  BY DEF Outputs
<1> DEFINE s == [c \in Declared(p) |->
                    CheckFile(c, verdict[c], job[p].entries.revision[p])]
<1>2. Declared(p) \subseteq Checks
  BY DEF Declared
<1>3. ASSUME NEW c \in Declared(p)
      PROVE  s[c] \in File /\ s[c].at = attempt
  <2>1. /\ c \in Checks /\ verdict[c] \in {"PASS", "FAIL", "UNKNOWN"}
        /\ job[p].entries.revision[p] \in Revision
    BY <1>2
  <2>2. QED
    BY <2>1, FilesOfNow
<1>4. s \in [Declared(p) -> File]
  BY <1>3
<1>5. s \in Trees /\ DOMAIN s = Declared(p)
  BY <1>2, <1>4, FilesAreTree
<1>6. Unsealed \in Trees /\ WrittenAt(Unsealed, attempt)
  BY FilesOfNow
<1> HIDE DEF s
<1>7. t = Over(s, Unsealed)
  BY <1>1 DEF s
<1>8. t \in Trees
  BY <1>5, <1>6, <1>7, WrittenOver
<1>9. ASSUME NEW f \in DOMAIN t
      PROVE  t[f].at = attempt
  <2>1. /\ f \in DOMAIN s \cup DOMAIN Unsealed
        /\ t[f] = IF f \in DOMAIN s THEN s[f] ELSE Unsealed[f]
    BY <1>7 DEF Over
  <2>2. CASE f \in DOMAIN s
    BY <2>1, <2>2, <1>3, <1>5
  <2>3. CASE f \notin DOMAIN s
    BY <2>1, <2>3, <1>6 DEF WrittenAt
  <2>4. QED
    BY <2>2, <2>3
<1>10. QED
  BY <1>8, <1>9 DEF WrittenAt

\* What a job seals is an envelope.
LEMMA SealedIsEnvelope ==
    ASSUME TypeInv, JobsInv, NEW p \in Producers, job[p].pc = "hashed",
           contract \in Documents, SoundChecks(p)
    PROVE  [contract |-> contract,
            revision |-> job[p].entries.revision[p],
            schema |-> job[p].entries.schema,
            attempt |-> attempt,
            files |-> job[p].hashed,
            checks |-> Restrict(job[p].tree, Declared(p))] \in Envelopes
<1>1. /\ job[p].entries \in Documents /\ attempt \in Nat
      /\ job[p].tree \in Trees /\ job[p].hashed \in Trees
  BY DEF TypeInv, JobsInv, SealedJob, Jobs
<1>2. /\ job[p].entries.revision[p] \in Revision
      /\ job[p].entries.schema \in {"fixed", "candidate"}
  BY <1>1 DEF Documents
<1>3. Restrict(job[p].tree, Declared(p)) \in Trees
  <2>1. /\ Declared(p) \subseteq Checks
        /\ Declared(p) \subseteq DOMAIN job[p].tree
    BY DEF Declared, SoundChecks
  <2>2. Restrict(job[p].tree, Declared(p)) \in [Declared(p) -> File]
    BY <1>1, <2>1, TreeIsFiles DEF Restrict
  <2>3. QED
    BY <2>1, <2>2, FilesAreTree
<1>4. QED
  BY <1>1, <1>2, <1>3 DEF Envelopes

\* What the assembler holds when it concludes.
LEMMA ComposedIsEvidence ==
    ASSUME TypeInv, AssemblerInv, phase = "assemble", assembler.pc = "open",
           WholeFamily
    PROVE  /\ Composed \in FamilyEvidences
           /\ Composed # None
<1>1. /\ assembler.entries \in Documents /\ TakenInv
      /\ assembler.seen = Producers /\ DOMAIN assembler.out = Checks
  BY DEF AssemblerInv, WholeFamily
<1>2. assembler.entries.revision \in [Producers -> Revision]
  BY <1>1 DEF Documents
<1>3. assembler.out \in [Checks -> File]
  BY <1>1, TreeIsFiles DEF TypeInv, Assemblers
<1>4. [p \in assembler.seen |-> Area(p).envelope] \in [Producers -> Envelopes]
  BY <1>1 DEF TakenInv
<1>5. assembler.digest \in Documents
  BY <1>1 DEF TakenInv
<1>6. Composed \in FamilyEvidences
  BY <1>2, <1>3, <1>4, <1>5 DEF Composed, FamilyEvidences
<1>7. QED
  BY <1>6, ConstantsAssumption

-----------------------------------------------------------------------------
(* Types.                                                                  *)

LEMMA InitTypes == Init => TypeInv
<1> SUFFICES ASSUME Init PROVE TypeInv
  OBVIOUS
<1>1. \A p \in Producers : IdleJob(Nothing) \in Jobs
  BY NothingIsEmpty DEF IdleJob, Jobs
<1>2. IdleAssembler(Nothing) \in Assemblers
  BY NothingIsEmpty DEF IdleAssembler, Assemblers
<1>3. \A p \in Producers : IdleJob(Nothing).pc = "idle"
  BY DEF IdleJob
<1>4. [p \in Producers |-> [tree |-> Nothing, envelope |-> None]]
         \in [Producers -> [tree : Trees, envelope : Envelopes \cup {None}]]
  BY NothingIsEmpty
<1>5. contract \in Documents \cup {None}
      /\ (workflow = "local" => contract \in Documents)
  BY ContractsAreDocuments DEF Init
<1>6. QED
  BY <1>1, <1>2, <1>3, <1>4, <1>5, ConstantsAssumption DEF Init, TypeInv

-----------------------------------------------------------------------------
(* The jobs of the producers.                                              *)

\* A step that replaces job p by j, and may upload what it leaves.
LEMMA JobReplaced ==
    ASSUME IInv, NEW p \in Producers, NEW j \in Jobs,
           job' = [job EXCEPT ![p] = j],
           Placed(p, j), SealedJob(j), EditedJob(p, j),
           workflow = "local" /\ job[p].pc = "done" => j.pc = "done",
           workflow = "local" /\ phase = "assemble" =>
               j.envelope = job[p].envelope,
           \/ artifact' = artifact
           \/ phase # "assemble" /\ \E t \in Trees : artifact' =
                 [artifact EXCEPT ![p] = [tree |-> t, envelope |-> job[p].envelope]],
           UNCHANGED <<setting, contract, phase, attempt, edits, assembler,
                       results>>
    PROVE  IInv'
<1>1. /\ job \in [Producers -> Jobs] /\ job[p] \in Jobs
      /\ artifact \in [Producers -> [tree : Trees, envelope : Envelopes \cup {None}]]
  BY DEF IInv, TypeInv
<1>2. /\ job' \in [Producers -> Jobs] /\ job'[p] = j
      /\ \A q \in Producers \ {p} : job'[q] = job[q]
  BY <1>1
<1>3. /\ workflow' = workflow /\ contract' = contract /\ phase' = phase
      /\ attempt' = attempt /\ edits' = edits /\ assembler' = assembler
      /\ proposal' = proposal /\ evidence' = evidence /\ green' = green
  BY DEF setting, results
<1>4. TypeInv'
  <2>1. artifact' \in [Producers -> [tree : Trees, envelope : Envelopes \cup {None}]]
    <3>1. job[p].envelope \in Envelopes \cup {None}
      BY <1>1 DEF Jobs
    <3>2. QED
      BY <1>1, <3>1
  <2>2. QED
    BY <1>2, <1>3, <2>1 DEF IInv, TypeInv
<1>5. JobsInv'
  <2> SUFFICES ASSUME NEW q \in Producers
               PROVE  (Placed(q, job[q]) /\ SealedJob(job[q]) /\ EditedJob(q, job[q]))'
    BY DEF JobsInv
  <2>1. \A r \in Producers : workflow = "local" /\ job[r].pc = "done" =>
           job'[r].pc = "done"
    BY <1>2
  <2>2. CASE q = p
    BY <1>2, <1>3, <2>1, <2>2
       DEF Placed, SealedJob, EditedJob, Consistent, Accepted
  <2>3. CASE q # p
    <3>1. Placed(q, job[q]) /\ SealedJob(job[q]) /\ EditedJob(q, job[q])
      BY DEF IInv, JobsInv
    <3>2. QED
      BY <1>2, <1>3, <2>1, <2>3, <3>1
         DEF Placed, SealedJob, EditedJob, Consistent, Accepted
  <2>4. QED
    BY <2>2, <2>3
<1>6. phase = "assemble" => \A q \in Producers :
         /\ Area(q).envelope' = Area(q).envelope
         /\ workflow = "local" => job'[q].envelope = job[q].envelope
  BY <1>2, <1>3 DEF Area
<1>7. EditInv'
  BY <1>3, <1>6 DEF IInv, EditInv, Agreed, Consistent, Accepted
<1>8. AssemblerInv'
  <2>1. ASSUME phase = "assemble", TakenInv PROVE TakenInv'
    <3>1. /\ assembler.seen \subseteq Producers
          /\ \A c \in Checks : Owner[c] \in Producers
      BY ConstantsAssumption DEF IInv, TypeInv, Assemblers
    <3>2. \A q \in assembler.seen : Area(q).envelope' = Area(q).envelope
      BY <1>6, <2>1, <3>1
    <3>3. \A c \in DOMAIN assembler.out :
             Area(Owner[c]).envelope' = Area(Owner[c]).envelope
      BY <1>6, <2>1, <3>1 DEF TakenInv
    <3>4. \A q \in assembler.seen :
             /\ Area(q).envelope' \in Envelopes
             /\ EnvelopeHolds(q, Area(q).envelope)'
      BY <2>1, <1>3, <3>2 DEF TakenInv, EnvelopeHolds, Declared
    <3>5. \A c \in DOMAIN assembler.out :
             /\ assembler.out[c] = Area(Owner[c]).envelope'.files[c]
             /\ CheckHolds(Owner[c], assembler.out[c])'
      BY <2>1, <1>3, <3>3 DEF TakenInv, CheckHolds
    <3> HIDE DEF Area
    <3>6. QED
      BY <2>1, <1>3, <3>4, <3>5 DEF TakenInv
  <2>2. QED
    BY <1>3, <2>1 DEF IInv, AssemblerInv, Accepted, Promoted
<1>9. EvidenceInv'
  BY <1>3 DEF IInv, EvidenceInv, EvidenceIsSealed, EvidenceIsOfOneContract,
              GreenIsWhole, Accepted, Promoted
<1>10. QED
  BY <1>4, <1>5, <1>7, <1>8, <1>9 DEF IInv

\* What is known of a job before a step.
LEMMA JobBefore ==
    ASSUME IInv, NEW p \in Producers
    PROVE  /\ job \in [Producers -> Jobs] /\ job[p] \in Jobs
           /\ attempt \in Nat /\ edits \in Nat
           /\ Placed(p, job[p]) /\ SealedJob(job[p]) /\ EditedJob(p, job[p])
           /\ phase = "produce" => contract \in Documents
           /\ job[p].pc \in Running => phase = "produce"
BY DEF IInv, TypeInv, JobsInv, Placed

LEMMA StartKeeps ==
    ASSUME IInv, NEW p \in Producers, Start(p)
    PROVE  IInv'
<1> USE JobBefore
<1>1. PICK revision \in IF workflow = "local" THEN Revision
                        ELSE {contract.revision[p]} :
         job' = [job EXCEPT ![p] =
                   IF MayStart(p, revision)
                   THEN [@ EXCEPT !.pc = "started", !.entries = contract]
                   ELSE [@ EXCEPT !.pc = "failed"]]
  BY DEF Start
<1> DEFINE started == [job[p] EXCEPT !.pc = "started", !.entries = contract]
           failed == [job[p] EXCEPT !.pc = "failed"]
           j == IF MayStart(p, revision) THEN started ELSE failed
<1>2. /\ phase = "produce" /\ job[p].pc = "idle" /\ Scheduled(p)
      /\ contract \in Documents
  BY DEF Start
<1>3. /\ started \in Jobs /\ failed \in Jobs
  BY <1>2 DEF Jobs
<1>4. /\ started.pc = "started" /\ started.entries = contract
      /\ started.tree = job[p].tree /\ started.envelope = job[p].envelope
      /\ failed.pc = "failed" /\ failed.envelope = job[p].envelope
  BY <1>3 DEF Jobs
<1> HIDE DEF started, failed
<1>5. MayStart(p, revision) => Accepted(contract) /\ job[p].tree = Nothing
  BY DEF MayStart, Clean
<1>6. Placed(p, j)
  BY <1>2, <1>4 DEF Placed, Scheduled, Running
<1>7. SealedJob(j) /\ EditedJob(p, j)
  BY <1>2, <1>4, <1>5 DEF SealedJob, EditedJob
<1>8. j \in Jobs /\ job' = [job EXCEPT ![p] = j]
  BY <1>1, <1>3 DEF started, failed
<1>9. UNCHANGED <<setting, contract, phase, attempt, edits, assembler, results, artifact>>
  BY DEF Start, counters
<1> HIDE DEF j
<1>10. QED
  BY <1>2, <1>6, <1>7, <1>8, <1>9, JobReplaced

LEMMA OperateKeeps ==
    ASSUME IInv, NEW p \in Producers, Operate(p) \/ OperateFails(p)
    PROVE  IInv'
<1> USE JobBefore
<1>1. /\ job[p].pc = "started" /\ phase = "produce"
      /\ job[p].entries \in Documents /\ job[p].tree = Nothing
  BY DEF Operate, OperateFails, Running, SealedJob
<1>2. PICK pc \in {"operated", "failed"}, tree \in Outputs(p) \cup {Nothing, Unsealed} :
         job' = [job EXCEPT ![p].pc = pc, ![p].tree = Over(tree, @)]
  BY DEF Operate, OperateFails
<1> DEFINE files == Over(tree, job[p].tree)
           j == [job[p] EXCEPT !.pc = pc, !.tree = files]
<1>3. tree \in Trees /\ WrittenAt(tree, attempt)
  <2>1. job[p].entries.revision \in [Producers -> Revision]
    BY <1>1 DEF Documents
  <2>2. QED
    BY <2>1, OutputsOfNow, FilesOfNow, NothingIsEmpty DEF WrittenAt
<1>4. files \in Trees /\ WrittenAt(files, attempt)
  <2>1. files \in Trees
    BY <1>1, <1>3, NothingIsEmpty, WrittenOver
  <2>2. \A f \in DOMAIN files : f \in DOMAIN tree /\ files[f] = tree[f]
    BY <1>1, NothingIsEmpty DEF Over
  <2>3. QED
    BY <1>3, <2>1, <2>2 DEF WrittenAt
<1> HIDE DEF files
<1>5. /\ j \in Jobs /\ j.pc = pc /\ j.tree = files
      /\ j.entries = job[p].entries /\ j.envelope = job[p].envelope
  BY <1>4 DEF Jobs
<1>6. job' = [job EXCEPT ![p] = j]
  BY <1>2 DEF files, Jobs
<1> HIDE DEF j
<1>7. Placed(p, j)
  BY <1>1, <1>5 DEF Placed, Running
<1>8. SealedJob(j) /\ EditedJob(p, j)
  BY <1>1, <1>4, <1>5 DEF SealedJob, EditedJob
<1>9. UNCHANGED <<setting, contract, phase, attempt, edits, assembler, results, artifact>>
  BY DEF Operate, OperateFails, counters
<1>10. QED
  BY <1>1, <1>5, <1>6, <1>7, <1>8, <1>9, JobReplaced

LEMMA HashKeeps ==
    ASSUME IInv, NEW p \in Producers, Hash(p)
    PROVE  IInv'
<1> USE JobBefore
<1> DEFINE j == [job[p] EXCEPT !.pc = "hashed", !.hashed = job[p].tree]
<1>1. job[p].pc = "operated" /\ phase = "produce"
  BY DEF Hash, Running
<1>2. /\ j \in Jobs /\ j.pc = "hashed" /\ j.tree = job[p].tree
      /\ j.hashed = job[p].tree
      /\ j.entries = job[p].entries /\ j.envelope = job[p].envelope
  BY DEF Jobs
<1>3. job' = [job EXCEPT ![p] = j]
  BY DEF Hash, Jobs
<1> HIDE DEF j
<1>4. Placed(p, j)
  BY <1>1, <1>2 DEF Placed, Running
<1>5. SealedJob(j) /\ EditedJob(p, j)
  BY <1>1, <1>2 DEF SealedJob, EditedJob
<1>6. UNCHANGED <<setting, contract, phase, attempt, edits, assembler, results, artifact>>
  BY DEF Hash, counters
<1>7. QED
  BY <1>1, <1>2, <1>3, <1>4, <1>5, <1>6, JobReplaced

LEMMA SealKeeps ==
    ASSUME IInv, NEW p \in Producers, Seal(p)
    PROVE  IInv'
<1> USE JobBefore
<1> DEFINE e == [contract |-> contract,
                 revision |-> job[p].entries.revision[p],
                 schema |-> job[p].entries.schema,
                 attempt |-> attempt,
                 files |-> job[p].hashed,
                 checks |-> Restrict(job[p].tree, Declared(p))]
           sealed == [job[p] EXCEPT !.pc = "sealed", !.hashed = Nothing,
                                    !.envelope = e]
           failed == [job[p] EXCEPT !.pc = "failed"]
           j == IF SoundChecks(p) THEN sealed ELSE failed
<1>1. /\ job[p].pc = "hashed" /\ phase = "produce"
      /\ contract \in Documents /\ job[p].entries \in Documents
  BY DEF Seal, Running, SealedJob
<1>2. SoundChecks(p) => e \in Envelopes
  BY <1>1, SealedIsEnvelope DEF IInv
<1>3. /\ e.contract = contract /\ e.attempt = attempt
      /\ e.files = job[p].hashed /\ e.revision = job[p].entries.revision[p]
  OBVIOUS
<1>4. job' = [job EXCEPT ![p] = j]
  BY Zenon DEF Seal
<1> HIDE DEF e
<1>5. SoundChecks(p) =>
         /\ sealed \in Jobs /\ sealed.pc = "sealed" /\ sealed.tree = job[p].tree
         /\ sealed.envelope = e
  BY <1>2, NothingIsEmpty DEF Jobs
<1>6. failed \in Jobs /\ failed.pc = "failed" /\ failed.envelope = job[p].envelope
  BY DEF Jobs
<1> HIDE DEF sealed, failed
<1>7. Placed(p, j) /\ j \in Jobs
  BY <1>1, <1>5, <1>6 DEF Placed, Running
<1>8. SealedJob(j)
  BY <1>1, <1>2, <1>3, <1>5, <1>6 DEF SealedJob
<1>9. EditedJob(p, j)
  BY <1>1, <1>3, <1>5, <1>6 DEF EditedJob, Consistent
<1> HIDE DEF j
<1>10. UNCHANGED <<setting, contract, phase, attempt, edits, assembler, results, artifact>>
  BY DEF Seal, counters
<1>11. QED
  BY <1>1, <1>4, <1>7, <1>8, <1>9, <1>10, JobReplaced

\* Steps that only move a job on, or end it.
LEMMA ConfirmOrDieKeeps ==
    ASSUME IInv, NEW p \in Producers, Confirm(p) \/ JobDies(p)
    PROVE  IInv'
<1> USE JobBefore
<1>1. PICK pc \in {"done", "failed"} :
         /\ job' = [job EXCEPT ![p].pc = pc]
         /\ pc = "done" => job[p].pc = "sealed"
  BY DEF Confirm, JobDies
<1> DEFINE j == [job[p] EXCEPT !.pc = pc]
<1>2. /\ phase = "produce" /\ job[p].pc # "done"
      /\ workflow = "local" => \A q \in Producers : q < p => job[q].pc = "done"
  BY DEF Confirm, JobDies, Running, Scheduled, Placed
<1>3. /\ j \in Jobs /\ j.pc = pc /\ j.tree = job[p].tree
      /\ j.entries = job[p].entries /\ j.envelope = job[p].envelope
  BY DEF Jobs
<1>4. job' = [job EXCEPT ![p] = j]
  BY <1>1 DEF Jobs
<1> HIDE DEF j
<1>5. Placed(p, j)
  BY <1>2, <1>3 DEF Placed, Running
<1>6. SealedJob(j) /\ EditedJob(p, j)
  BY <1>1, <1>3 DEF SealedJob, EditedJob
<1>7. UNCHANGED <<setting, contract, phase, attempt, edits, assembler, results, artifact>>
  BY DEF Confirm, JobDies, counters
<1>8. QED
  BY <1>2, <1>3, <1>4, <1>5, <1>6, <1>7, JobReplaced

\* A process that was left behind writes in the attempt.
LEMMA LateWriteKeeps ==
    ASSUME IInv, NEW p \in Producers, LateWrite(p)
    PROVE  IInv'
<1> USE JobBefore
<1>1. PICK f \in Declared(p) \cup {Native, Stray}, content \in File :
         /\ content.at = attempt
         /\ job' = [job EXCEPT ![p].tree = Over(Only(f, content), @)]
  <2>0. PICK f \in Declared(p) \cup {Native, Stray} :
           \E content \in IF f \in {Native, Stray} THEN {Report("leftover")}
                         ELSE {Broken, CheckFile(f, "UNKNOWN",
                                                 job[p].entries.revision[p])} :
             job' = [job EXCEPT ![p].tree = Over(Only(f, content), @)]
    BY DEF LateWrite
  <2>1. PICK content \in IF f \in {Native, Stray} THEN {Report("leftover")}
                         ELSE {Broken, CheckFile(f, "UNKNOWN",
                                                 job[p].entries.revision[p])} :
           job' = [job EXCEPT ![p].tree = Over(Only(f, content), @)]
    BY <2>0
  <2>2. job[p].entries \in Documents
    BY DEF LateWrite, Jobs
  <2>3. job[p].entries.revision[p] \in Revision
    BY <2>2 DEF Documents
  <2>4. f \notin {Native, Stray} => f \in Checks
    BY DEF Declared
  <2>5. content \in File /\ content.at = attempt
    BY <2>1, <2>3, <2>4, FilesOfNow
  <2>6. QED
    BY <2>1, <2>5
<1> DEFINE files == Over(Only(f, content), job[p].tree)
           j == [job[p] EXCEPT !.tree = files]
<1>2. /\ f \in Checks \cup {Native, Stray}
      /\ Only(f, content) \in Trees /\ job[p].tree \in Trees
      /\ WrittenAt(Only(f, content), attempt)
  <2>1. f \in Checks \cup {Native, Stray}
    BY DEF Declared
  <2>2. job[p].tree \in Trees
    BY DEF Jobs
  <2>3. /\ Only(f, content) \in Trees /\ DOMAIN Only(f, content) = {f}
        /\ Only(f, content)[f] = content
    BY <2>1, OneFile
  <2>4. QED
    BY <1>1, <2>1, <2>2, <2>3 DEF WrittenAt
<1>3. files \in Trees
  BY <1>2, WrittenOver
<1>4. WrittenAt(job[p].tree, attempt) => WrittenAt(files, attempt)
  BY <1>2 DEF WrittenAt, Over
<1> HIDE DEF files
<1>5. /\ j \in Jobs /\ j.pc = job[p].pc /\ j.tree = files
      /\ j.entries = job[p].entries /\ j.envelope = job[p].envelope
      /\ j.hashed = job[p].hashed
  BY <1>3 DEF Jobs
<1>6. job' = [job EXCEPT ![p] = j]
  BY <1>1 DEF files, Jobs
<1> HIDE DEF j
<1>7. job[p].pc # "started"
  BY DEF LateWrite
<1>8. Placed(p, j)
  BY <1>5 DEF Placed
<1>9. SealedJob(j) /\ EditedJob(p, j)
  BY <1>4, <1>5, <1>7 DEF SealedJob, EditedJob
<1>10. UNCHANGED <<setting, contract, phase, attempt, edits, assembler, results, artifact>>
  BY DEF LateWrite
<1>11. QED
  BY <1>5, <1>6, <1>8, <1>9, <1>10, JobReplaced

\* A job uploads its directory, and its machine is gone.
LEMMA UploadKeeps ==
    ASSUME IInv, NEW p \in Producers, Upload(p)
    PROVE  IInv'
<1> USE JobBefore
<1>1. PICK pc \in {"succeeded", "red"} :
         job' = [job EXCEPT ![p] = [IdleJob(Nothing) EXCEPT !.pc = pc]]
  BY DEF Upload
<1> DEFINE j == [IdleJob(Nothing) EXCEPT !.pc = pc]
<1>2. workflow # "local" /\ phase = "produce"
  BY DEF Upload, Placed
<1>3. j \in Jobs /\ j.pc = pc /\ j.envelope = None
  BY NothingIsEmpty DEF IdleJob, Jobs
<1>4. job' = [job EXCEPT ![p] = j]
  BY <1>1
<1> HIDE DEF j
<1>5. Placed(p, j) /\ SealedJob(j) /\ EditedJob(p, j)
  BY <1>2, <1>3 DEF Placed, SealedJob, EditedJob, Running
<1>6. \/ artifact' = artifact
      \/ phase # "assemble" /\ \E t \in Trees : artifact' =
            [artifact EXCEPT ![p] = [tree |-> t, envelope |-> job[p].envelope]]
  BY <1>2, FilesOfNow DEF Upload, Jobs
<1>7. UNCHANGED <<setting, contract, phase, attempt, edits, assembler, results>>
  BY DEF Upload, counters
<1>8. QED
  BY <1>2, <1>3, <1>4, <1>5, <1>6, <1>7, JobReplaced

-----------------------------------------------------------------------------
(* The preparation and the assembler.                                      *)

\* The initial states.
LEMMA InitHolds == Init => IInv
<1> SUFFICES ASSUME Init PROVE IInv
  OBVIOUS
<1>1. TypeInv
  BY InitTypes
<1>2. /\ phase = "prepare" /\ evidence = None /\ green = FALSE
      /\ assembler.pc = "idle" /\ assembler.seen = {}
      /\ \A p \in Producers : job[p].pc = "idle" /\ job[p].envelope = None
  BY DEF Init, IdleJob, IdleAssembler
<1>3. JobsInv
  BY <1>2 DEF JobsInv, Placed, SealedJob, EditedJob, Running
<1>4. EditInv /\ AssemblerInv /\ EvidenceInv
  BY <1>2 DEF EditInv, AssemblerInv, EvidenceInv, EvidenceIsSealed,
              EvidenceIsOfOneContract, GreenIsWhole
<1>5. QED
  BY <1>1, <1>3, <1>4 DEF IInv

\* What is known of the jobs once none is running.
LEMMA JobsStay ==
    ASSUME IInv, UNCHANGED <<setting, contract, attempt, edits, job>>,
           \A p \in Producers : job[p].pc \notin Running,
           workflow # "local" /\ phase' # "produce" =>
               \A p \in Producers : job[p].pc \notin {"done", "failed"},
           workflow = "local" /\ phase' = "assemble" =>
               \A p \in Producers : job[p].pc = "done"
    PROVE  JobsInv'
<1>1. /\ workflow' = workflow /\ contract' = contract /\ attempt' = attempt
      /\ edits' = edits /\ job' = job
  BY DEF setting
<1>2. ASSUME NEW p \in Producers
      PROVE  Placed(p, job[p])' /\ SealedJob(job[p])' /\ EditedJob(p, job[p])'
  <2>1. Placed(p, job[p]) /\ SealedJob(job[p]) /\ EditedJob(p, job[p])
    BY DEF IInv, JobsInv
  <2>2. Placed(p, job[p])'
    BY <1>1, <2>1 DEF Placed
  <2>3. SealedJob(job[p])' /\ EditedJob(p, job[p])'
    BY <1>1, <2>1 DEF SealedJob, EditedJob, Consistent, Accepted
  <2>4. QED
    BY <2>2, <2>3
<1>3. QED
  BY <1>2 DEF JobsInv

\* While envelopes are read, and afterwards, no job is running.
LEMMA NoneRuns ==
    ASSUME IInv, phase # "produce"
    PROVE  \A p \in Producers :
              /\ job[p].pc \notin Running
              /\ workflow # "local" => job[p].pc \notin {"done", "failed"}
              /\ workflow = "local" /\ phase = "assemble" => job[p].pc = "done"
BY DEF IInv, JobsInv, Placed

\* The evidence of an attempt stays what it is as the attempt ends.
LEMMA EvidenceStays ==
    ASSUME IInv, UNCHANGED <<setting, contract, attempt, edits, results>>,
           phase' \in {"assemble", "concluded"} \/ workflow = "local"
               \/ phase \notin {"assemble", "concluded"}
    PROVE  EvidenceInv'
<1>1. /\ workflow' = workflow /\ contract' = contract /\ attempt' = attempt
      /\ edits' = edits /\ proposal' = proposal /\ evidence' = evidence
      /\ green' = green
  BY DEF setting, results
<1>2. EvidenceInv
  BY DEF IInv
<1>3. EvidenceIsSealed' /\ EvidenceIsOfOneContract' /\ GreenIsWhole'
  BY <1>1, <1>2 DEF EvidenceInv, EvidenceIsSealed, EvidenceIsOfOneContract,
                    GreenIsWhole, Accepted
<1>4. QED
  BY <1>1, <1>2, <1>3 DEF EvidenceInv, Promoted

\* An attempt that ends with no evidence, or with what it had.
LEMMA ConcludedKeeps ==
    ASSUME IInv, phase' = "concluded", EvidenceInv',
           UNCHANGED <<setting, contract, attempt, edits, job, artifact>>,
           \A p \in Producers : job[p].pc \notin Running,
           workflow # "local" =>
               \A p \in Producers : job[p].pc \notin {"done", "failed"},
           evidence' \in FamilyEvidences \cup {None},
           assembler' \in Assemblers,
           assembler'.pc \in {"idle", "reading"} => assembler'.seen = {}
    PROVE  IInv'
<1>1. JobsInv'
  BY JobsStay
<1>2. TypeInv'
  BY DEF IInv, TypeInv, setting
<1>3. EditInv' /\ AssemblerInv'
  BY DEF EditInv, AssemblerInv
<1>4. QED
  BY <1>1, <1>2, <1>3 DEF IInv

\* An assembler that stops.
LEMMA StoppedAssembler ==
    ASSUME IInv, assembler' = [assembler EXCEPT !.pc = "failed"]
    PROVE  assembler' \in Assemblers /\ assembler'.pc = "failed"
BY DEF IInv, TypeInv, Assemblers

LEMMA PrepareKeeps ==
    ASSUME IInv, Prepare
    PROVE  IInv'
<1>1. /\ workflow # "local" /\ workflow' = workflow
      /\ phase = "prepare" /\ phase' = "produce"
      /\ attempt' = attempt /\ edits' = edits /\ job' = job
      /\ artifact' = artifact /\ assembler' = assembler
      /\ proposal' = proposal /\ evidence' = evidence /\ green' = green
  BY DEF Prepare, setting, counters, results
<1>2. contract' \in Documents
  BY ContractsAreDocuments DEF Prepare, Prepared
<1>3. TypeInv'
  BY <1>1, <1>2 DEF IInv, TypeInv
<1>4. evidence = None
  BY <1>1 DEF IInv, EvidenceInv
<1>5. EvidenceInv'
  BY <1>1, <1>4 DEF IInv, EvidenceInv, EvidenceIsSealed,
                    EvidenceIsOfOneContract, GreenIsWhole
<1>6. JobsInv'
  <2> SUFFICES ASSUME NEW p \in Producers
               PROVE  (Placed(p, job[p]) /\ SealedJob(job[p]) /\ EditedJob(p, job[p]))'
    BY DEF JobsInv
  <2>1. Placed(p, job[p]) /\ SealedJob(job[p])
    BY DEF IInv, JobsInv
  <2>2. QED
    BY <1>1, <2>1 DEF Placed, SealedJob, EditedJob
<1>7. EditInv' /\ AssemblerInv'
  BY <1>1 DEF IInv, EditInv, AssemblerInv
<1>8. QED
  BY <1>3, <1>5, <1>6, <1>7 DEF IInv

\* The producers are skipped: they keep what they hold, which is nothing.
LEMMA PrepareFailsKeeps ==
    ASSUME IInv, PrepareFails
    PROVE  IInv'
<1>1. /\ workflow # "local" /\ workflow' = workflow /\ phase = "prepare"
      /\ phase' = (IF contract' = None THEN "concluded" ELSE "produce")
      /\ job' = [p \in Producers |-> [job[p] EXCEPT !.pc = "skipped"]]
      /\ attempt' = attempt /\ edits' = edits
      /\ artifact' = artifact /\ assembler' = assembler
      /\ proposal' = proposal /\ evidence' = evidence /\ green' = green
  BY DEF PrepareFails, setting, counters, results
<1>2. /\ contract' \in Documents \cup {None}
      /\ phase' = "produce" => contract' \in Documents
  <2>1. contract' \in {contract} \cup Prepared /\ contract \in Documents \cup {None}
    BY DEF PrepareFails, IInv, TypeInv
  <2>2. Prepared \subseteq Documents
    BY ContractsAreDocuments DEF Prepared
  <2>3. QED
    BY <1>1, <2>1, <2>2
<1>3. ASSUME NEW p \in Producers
      PROVE  /\ job'[p] \in Jobs /\ job'[p].pc = "skipped"
             /\ job'[p].envelope = job[p].envelope
  <2>1. job[p] \in Jobs
    BY DEF IInv, TypeInv
  <2>2. job'[p] = [job[p] EXCEPT !.pc = "skipped"]
    BY <1>1
  <2>3. QED
    BY <2>1, <2>2 DEF Jobs
<1>4. TypeInv'
  <2>1. job' \in [Producers -> Jobs]
    BY <1>1, <1>3
  <2>2. QED
    BY <1>1, <1>2, <2>1 DEF IInv, TypeInv
<1>5. evidence = None
  BY <1>1 DEF IInv, EvidenceInv
<1>6. EvidenceInv'
  BY <1>1, <1>5 DEF IInv, EvidenceInv, EvidenceIsSealed,
                    EvidenceIsOfOneContract, GreenIsWhole
<1>7. JobsInv'
  <2> SUFFICES ASSUME NEW p \in Producers
               PROVE  (Placed(p, job[p]) /\ SealedJob(job[p]) /\ EditedJob(p, job[p]))'
    BY DEF JobsInv
  <2>1. SealedJob(job[p])
    BY DEF IInv, JobsInv
  <2>2. job'[p].envelope # None =>
            WrittenAt(job'[p].envelope.files, job'[p].envelope.attempt)
    BY <1>3, <2>1 DEF SealedJob
  <2>3. QED
    BY <1>1, <1>3, <2>2 DEF Placed, SealedJob, EditedJob, Running
<1>8. EditInv' /\ AssemblerInv'
  BY <1>1 DEF IInv, EditInv, AssemblerInv
<1>9. QED
  BY <1>4, <1>6, <1>7, <1>8 DEF IInv

LEMMA InvokeKeeps ==
    ASSUME IInv, Invoke
    PROVE  IInv'
<1>1. /\ phase = "prepare" /\ phase' \in {"produce", "concluded"}
      /\ workflow = "local"
  BY DEF Invoke
<1>2. UNCHANGED <<setting, contract, attempt, edits, job, artifact, assembler, results>>
  BY DEF Invoke, counters
<1>3. EvidenceInv'
  BY <1>1, <1>2, EvidenceStays
<1>4. JobsInv'
  BY <1>1, <1>2, NoneRuns, JobsStay
<1>5. TypeInv'
  BY <1>1, <1>2 DEF IInv, TypeInv, setting, results
<1>6. EditInv' /\ AssemblerInv'
  BY <1>1, <1>2 DEF IInv, EditInv, AssemblerInv
<1>7. QED
  BY <1>3, <1>4, <1>5, <1>6 DEF IInv

\* The first producer that fails is the last that was started.
LEMMA LocalStopsKeeps ==
    ASSUME IInv, LocalStops
    PROVE  IInv'
<1>1. phase = "produce" /\ phase' = "concluded" /\ workflow = "local"
  BY DEF LocalStops
<1>2. UNCHANGED <<setting, contract, attempt, edits, job, artifact, assembler, results>>
  BY DEF LocalStops, counters
<1>3. EvidenceInv'
  BY <1>1, <1>2, EvidenceStays
<1>4. PICK p \in Producers : job[p].pc = "failed"
  BY DEF LocalStops
<1>5. ASSUME NEW q \in Producers, job[q].pc \in Running
      PROVE  FALSE
  <2>1. /\ \A r \in Producers : r < p => job[r].pc = "done"
        /\ \A r \in Producers : r < q => job[r].pc = "done"
    BY <1>1, <1>4, <1>5 DEF IInv, JobsInv, Placed, Running
  <2>2. p \in Nat /\ q \in Nat /\ p # q
    BY <1>4, <1>5, ConstantsAssumption DEF Running
  <2>3. QED
    BY <1>4, <1>5, <2>1, <2>2 DEF Running
<1>6. /\ assembler' \in Assemblers /\ evidence' \in FamilyEvidences \cup {None}
      /\ assembler'.pc \in {"idle", "reading"} => assembler'.seen = {}
  BY <1>2 DEF IInv, TypeInv, AssemblerInv, results
<1>7. QED
  BY <1>1, <1>2, <1>3, <1>5, <1>6, ConcludedKeeps

LEMMA AssemblerDiesKeeps ==
    ASSUME IInv, AssemblerDies
    PROVE  IInv'
<1>1. phase = "assemble" /\ phase' = "concluded"
  BY DEF AssemblerDies
<1>2. UNCHANGED <<setting, contract, attempt, edits, job, artifact, assembler, results>>
  BY DEF AssemblerDies, counters
<1>3. EvidenceInv'
  BY <1>1, <1>2, EvidenceStays
<1>4. /\ assembler' \in Assemblers /\ evidence' \in FamilyEvidences \cup {None}
      /\ assembler'.pc \in {"idle", "reading"} => assembler'.seen = {}
  BY <1>2 DEF IInv, TypeInv, AssemblerInv, results
<1>5. QED
  BY <1>1, <1>2, <1>3, <1>4, NoneRuns, ConcludedKeeps

LEMMA AssembleStartsKeeps ==
    ASSUME IInv, AssembleStarts
    PROVE  IInv'
<1>1. /\ phase = "produce" /\ contract \in Documents
      /\ phase' \in {"assemble", "concluded"}
      /\ phase' = "assemble" => Accepted(contract)
  BY DEF AssembleStarts, IInv, TypeInv
<1>2. /\ assembler' \in Assemblers /\ assembler'.pc = "reading"
      /\ assembler'.entries = contract /\ assembler'.seen = {}
  BY <1>1 DEF AssembleStarts, IInv, TypeInv, AssemblerInv, Assemblers
<1>3. /\ workflow' = workflow /\ contract' = contract /\ attempt' = attempt
      /\ edits' = edits /\ job' = job /\ artifact' = artifact
      /\ evidence' = evidence /\ green' = green
  BY DEF AssembleStarts, setting, counters
<1>4. \A p \in Producers :
         /\ workflow = "local" => job[p].pc = "done"
         /\ workflow # "local" => job[p].pc \in {"succeeded", "red", "skipped"}
  BY DEF AssembleStarts, Ended
<1>5. evidence # None => workflow = "local"
  BY <1>1 DEF IInv, EvidenceInv
<1>6. phase' = "assemble" /\ workflow = "advance" => proposal' = Promoted(contract)
  BY <1>1 DEF AssembleStarts
<1>7. EvidenceInv'
  <2>1. EvidenceInv
    BY DEF IInv
  <2>2. EvidenceIsSealed' /\ EvidenceIsOfOneContract' /\ GreenIsWhole'
    BY <1>3, <2>1 DEF EvidenceInv, EvidenceIsSealed, EvidenceIsOfOneContract,
                      GreenIsWhole, Accepted
  <2>3. QED
    BY <1>3, <1>5, <2>1, <2>2 DEF EvidenceInv
<1>8. JobsInv'
  <2>1. UNCHANGED <<setting, contract, attempt, edits, job>>
    BY DEF AssembleStarts, counters
  <2>2. QED
    BY <1>4, <2>1, JobsStay DEF Running
<1>9. TypeInv'
  BY <1>1, <1>2, <1>3 DEF IInv, TypeInv
<1>10. EditInv'
  BY <1>2, <1>3 DEF EditInv
<1>11. AssemblerInv'
  BY <1>1, <1>2, <1>3, <1>6 DEF AssemblerInv, Accepted, Promoted
<1>12. QED
  BY <1>7, <1>8, <1>9, <1>10, <1>11 DEF IInv

\* An assembler that stops while it reads.
LEMMA AssemblyFailsKeeps ==
    ASSUME IInv, phase = "assemble", phase' = "concluded",
           assembler' = [assembler EXCEPT !.pc = "failed"],
           UNCHANGED <<setting, counters, results, contract, job, artifact>>
    PROVE  IInv'
<1>1. UNCHANGED <<setting, contract, attempt, edits, job, artifact, results>>
  BY DEF counters
<1>2. EvidenceInv'
  BY <1>1, EvidenceStays
<1>3. evidence' \in FamilyEvidences \cup {None}
  BY <1>1 DEF IInv, TypeInv, results
<1>4. QED
  BY <1>1, <1>2, <1>3, NoneRuns, StoppedAssembler, ConcludedKeeps

\* A step of an assembler that goes on reading.
LEMMA ReadingKeeps ==
    ASSUME IInv, phase = "assemble", phase' = "assemble",
           UNCHANGED <<setting, counters, results, contract, job, artifact>>,
           assembler' \in Assemblers, assembler'.pc = "open",
           assembler'.entries = assembler.entries,
           TakenInv', EditInv'
    PROVE  IInv'
<1>1. UNCHANGED <<setting, contract, attempt, edits, job, artifact, results>>
  BY DEF counters
<1>2. EvidenceInv'
  BY <1>1, EvidenceStays
<1>3. JobsInv'
  BY <1>1, NoneRuns, JobsStay
<1>4. TypeInv'
  BY <1>1 DEF IInv, TypeInv, setting, results
<1>5. AssemblerInv'
  BY <1>1 DEF IInv, AssemblerInv, setting, results, Accepted, Promoted
<1>6. QED
  BY <1>2, <1>3, <1>4, <1>5 DEF IInv

\* The digest is taken of the contract as it is by now.
LEMMA OpenEnvelopesKeeps ==
    ASSUME IInv, OpenEnvelopes
    PROVE  IInv'
<1>1. /\ phase = "assemble" /\ assembler.pc = "reading"
      /\ UNCHANGED <<setting, counters, results, contract, job, artifact>>
  BY DEF OpenEnvelopes
<1>2. CASE /\ assembler' = [assembler EXCEPT !.pc = "failed"]
           /\ phase' = "concluded"
  BY <1>1, <1>2, AssemblyFailsKeeps
<1>3. CASE /\ Clean(assembler.out)
           /\ assembler' = [assembler EXCEPT !.pc = "open", !.digest = contract]
           /\ phase' = phase
  <2>1. contract \in Documents /\ assembler \in Assemblers
    BY <1>1 DEF IInv, TypeInv
  <2>2. assembler.seen = {} /\ DOMAIN assembler.out = {}
    BY <1>1, <1>3, NothingIsEmpty DEF IInv, AssemblerInv, Clean
  <2>3. /\ assembler' \in Assemblers /\ assembler'.pc = "open"
        /\ assembler'.entries = assembler.entries
        /\ assembler'.digest = contract /\ assembler'.seen = {}
        /\ DOMAIN assembler'.out = {}
    BY <1>3, <2>1, <2>2 DEF Assemblers
  <2>4. TakenInv'
    BY <1>1, <2>1, <2>3 DEF TakenInv, setting
  <2>5. EditInv'
    BY <1>1, <2>3
       DEF IInv, EditInv, Agreed, Consistent, Accepted, setting, counters
  <2>6. QED
    BY <1>1, <1>3, <2>3, <2>4, <2>5, ReadingKeeps
<1>4. QED
  BY <1>2, <1>3 DEF OpenEnvelopes

\* What is taken of producer p are the bytes its envelope vouches for.
LEMMA TakeKeeps ==
    ASSUME IInv, NEW p \in Producers, Take(p)
    PROVE  IInv'
<1> DEFINE area == Area(p)
           new == Restrict(area.tree, Declared(p))
<1>1. /\ phase = "assemble" /\ assembler.pc = "open"
      /\ p \in Enveloped /\ p \notin assembler.seen
      /\ UNCHANGED <<setting, counters, results, contract, job, artifact>>
  BY DEF Take
<1>2. CASE /\ assembler' = [assembler EXCEPT !.pc = "failed"]
           /\ phase' = "concluded"
  BY <1>1, <1>2, AssemblyFailsKeeps
<1>3. CASE /\ EnvelopeHolds(p, area.envelope)
           /\ TransportHolds(area.tree, area.envelope)
           /\ \A c \in Declared(p) : CheckHolds(p, area.tree[c])
           /\ assembler' = [assembler EXCEPT !.seen = @ \cup {p},
                               !.out = Over(new, @)]
           /\ phase' = phase
  <2>1. /\ assembler \in Assemblers /\ TakenInv
        /\ assembler.seen \subseteq Producers /\ assembler.out \in Trees
    BY <1>1 DEF IInv, TypeInv, AssemblerInv, Assemblers
  <2>2. area.envelope \in Envelopes /\ area.tree \in Trees
    BY <1>1 DEF Enveloped, Area, IInv, TypeInv, Jobs
  <2>3. \A q \in Producers : Area(q)' = Area(q)
    BY <1>1 DEF Area, setting
  <2> HIDE DEF area
  <2>4. /\ area.tree = area.envelope.files
        /\ Declared(p) \subseteq DOMAIN area.tree
        /\ Declared(p) \subseteq Checks
    BY <1>3 DEF EnvelopeHolds, TransportHolds, Declared
  <2>5. /\ new \in Trees /\ DOMAIN new = Declared(p)
        /\ \A c \in Declared(p) : new[c] = area.envelope.files[c]
    <3>1. new \in [Declared(p) -> File]
      BY <2>2, <2>4, TreeIsFiles DEF Restrict
    <3>2. QED
      BY <2>4, <3>1, FilesAreTree DEF Restrict
  <2> HIDE DEF new
  <2>6. /\ Over(new, assembler.out) \in Trees
        /\ DOMAIN Over(new, assembler.out) = Declared(p) \cup DOMAIN assembler.out
        /\ \A c \in DOMAIN Over(new, assembler.out) :
              Over(new, assembler.out)[c] =
                 IF c \in Declared(p) THEN new[c] ELSE assembler.out[c]
    <3>1. Over(new, assembler.out) \in Trees
      BY <2>1, <2>5, WrittenOver
    <3>2. QED
      BY <2>5, <3>1 DEF Over
  <2>7. /\ assembler' \in Assemblers /\ assembler'.pc = "open"
        /\ assembler'.entries = assembler.entries
        /\ assembler'.digest = assembler.digest
        /\ assembler'.seen = assembler.seen \cup {p}
        /\ assembler'.out = Over(new, assembler.out)
    BY <1>1, <1>3, <2>1, <2>6 DEF Assemblers
  <2>8. DOMAIN assembler'.out = {c \in Checks : Owner[c] \in assembler'.seen}
    BY <2>1, <2>6, <2>7 DEF TakenInv, Declared
  <2>9. ASSUME NEW q \in assembler'.seen
        PROVE  Area(q)'.envelope \in Envelopes /\ EnvelopeHolds(q, Area(q).envelope)'
    <3>1. q \in Producers /\ Area(q)' = Area(q)
      BY <2>1, <2>3, <2>7
    <3>2. Area(q).envelope \in Envelopes /\ EnvelopeHolds(q, Area(q).envelope)
      BY <1>3, <2>1, <2>2, <2>7 DEF TakenInv, area
    <3> HIDE DEF Area
    <3>3. QED
      BY <2>7, <3>1, <3>2 DEF EnvelopeHolds, Declared
  <2>10. ASSUME NEW c \in DOMAIN assembler'.out
         PROVE  /\ assembler'.out[c] = Area(Owner[c])'.envelope.files[c]
                /\ CheckHolds(Owner[c], assembler.out[c])'
    <3>1. /\ c \in Checks /\ Owner[c] \in Producers
          /\ Area(Owner[c])' = Area(Owner[c])
      BY <2>3, <2>8, ConstantsAssumption
    <3> HIDE DEF Area
    <3>2. CASE c \in Declared(p)
      <4>1. Owner[c] = p /\ assembler'.out[c] = area.tree[c]
        BY <3>2, <2>4, <2>5, <2>6, <2>7 DEF Declared
      <4>2. QED
        BY <1>3, <2>4, <2>7, <3>1, <3>2, <4>1 DEF CheckHolds, area
    <3>3. CASE c \notin Declared(p)
      <4>1. c \in DOMAIN assembler.out /\ assembler'.out[c] = assembler.out[c]
        BY <3>3, <2>6, <2>7
      <4>2. QED
        BY <2>1, <2>7, <3>1, <4>1 DEF TakenInv, CheckHolds
    <3>4. QED
      BY <3>2, <3>3
  <2>11. TakenInv'
    BY <1>1, <2>1, <2>7, <2>8, <2>9, <2>10 DEF TakenInv, setting
  <2>12. EditInv'
    BY <1>1, <2>7 DEF IInv, EditInv, Agreed, Consistent, Accepted, setting, counters
  <2>13. QED
    BY <1>1, <1>3, <2>7, <2>11, <2>12, ReadingKeeps
<1>4. QED
  BY <1>2, <1>3 DEF Take

\* Evidence that is composed is sealed, of one contract and of this attempt.
LEMMA ComposedHolds ==
    ASSUME IInv, phase = "assemble", assembler.pc = "open", WholeFamily
    PROVE  /\ \A c \in Checks :
                 /\ Composed.checks[c] = Composed.source[Owner[c]].checks[c]
                 /\ Composed.checks[c] = Composed.source[Owner[c]].files[c]
                 /\ Composed.checks[c].kind = "check"
                 /\ Composed.checks[c].revision = Composed.revisions[Owner[c]]
           /\ \A p \in Producers : Composed.source[p].contract = Composed.contract
           /\ workflow # "local" => Composed.contract = contract
           /\ workflow # "local" \/ edits <= 2 =>
                 /\ Composed.revisions = Composed.contract.revision
                 /\ Accepted(Composed.contract)
           /\ workflow = "local" =>
                 \A p \in Producers : Composed.source[p].attempt = attempt
           /\ DOMAIN Composed.checks = Checks /\ DOMAIN Composed.source = Producers
<1>1. /\ TakenInv /\ assembler.entries \in Documents
      /\ Accepted(assembler.entries)
      /\ workflow # "local" => assembler.entries = contract
      /\ assembler.seen = Producers /\ DOMAIN assembler.out = Checks
  BY DEF IInv, AssemblerInv, WholeFamily
<1> DEFINE source == [p \in Producers |-> Area(p).envelope]
<1>2. /\ Composed.checks = assembler.out /\ Composed.source = source
      /\ Composed.contract = assembler.digest
      /\ Composed.revisions = assembler.entries.revision
  BY <1>1 DEF Composed
<1>3. \A p \in Producers :
         /\ source[p] = Area(p).envelope
         /\ source[p] \in Envelopes /\ EnvelopeHolds(p, source[p])
  BY <1>1 DEF TakenInv
<1>4. workflow = "local" => \A p \in Producers :
         job[p].pc = "done" /\ source[p] = job[p].envelope
  BY <1>3, NoneRuns DEF Area
<1>5. ASSUME NEW c \in Checks
      PROVE  /\ assembler.out[c] = source[Owner[c]].files[c]
             /\ assembler.out[c] = source[Owner[c]].checks[c]
             /\ assembler.out[c].kind = "check"
             /\ assembler.out[c].revision = assembler.entries.revision[Owner[c]]
  <2>1. Owner[c] \in Producers /\ c \in Declared(Owner[c])
    BY ConstantsAssumption DEF Declared
  <2>2. assembler.out[c] = Area(Owner[c]).envelope.files[c] /\ CheckHolds(Owner[c], assembler.out[c])
    BY <1>1 DEF TakenInv
  <2>3. EnvelopeHolds(Owner[c], source[Owner[c]])
    BY <1>3, <2>1
  <2>4. source[Owner[c]].files[c] = source[Owner[c]].checks[c]
    BY <2>1, <2>3 DEF EnvelopeHolds
  <2>5. QED
    BY <1>3, <2>1, <2>2, <2>4 DEF CheckHolds
<1>6. DOMAIN source = Producers
  OBVIOUS
<1> HIDE DEF source
<1>7. \A p \in Producers : source[p].contract = assembler.digest
  BY <1>3 DEF EnvelopeHolds
<1>8. workflow = "local" /\ edits <= 2 =>
         /\ assembler.entries.revision = assembler.digest.revision
         /\ Accepted(assembler.digest)
  <2> SUFFICES ASSUME workflow = "local", edits <= 2
               PROVE  /\ assembler.entries.revision = assembler.digest.revision
                      /\ Accepted(assembler.digest)
    OBVIOUS
  <2>1. edits \in Nat /\ ~ (edits >= 3)
    BY DEF IInv, TypeInv
  <2>2. assembler.entries = assembler.digest \/ Agreed(assembler.entries)
    BY <2>1 DEF IInv, EditInv
  <2>3. CASE assembler.entries = assembler.digest
    BY <1>1, <2>3
  <2>4. CASE assembler.entries # assembler.digest
    <3>1. \A p \in Producers : Consistent(p, source[p])
      BY <1>4, <1>7, <2>2, <2>4 DEF Agreed
    <3>2. \A p \in Producers :
             assembler.entries.revision[p] = assembler.digest.revision[p]
      BY <1>3, <1>7, <3>1 DEF Consistent, EnvelopeHolds
    <3>3. /\ assembler.entries.revision \in [Producers -> Revision]
          /\ assembler.digest.revision \in [Producers -> Revision]
      BY <1>1 DEF TakenInv, Documents
    <3>4. assembler.entries.revision = assembler.digest.revision
      BY <3>2, <3>3
    <3>5. Accepted(assembler.digest)
      BY <1>7, <3>1, ConstantsAssumption DEF Consistent
    <3>6. QED
      BY <3>4, <3>5
  <2>5. QED
    BY <2>3, <2>4
<1>9. workflow = "local" => \A p \in Producers : source[p].attempt = attempt
  BY <1>4 DEF IInv, JobsInv, SealedJob
<1>10. workflow # "local" => assembler.digest = contract
  BY <1>1 DEF TakenInv
<1>11. QED
  BY <1>1, <1>2, <1>5, <1>6, <1>7, <1>8, <1>9, <1>10

LEMMA ConcludeKeeps ==
    ASSUME IInv, Conclude
    PROVE  IInv'
<1>1. /\ phase = "assemble" /\ assembler.pc = "open"
      /\ UNCHANGED <<setting, counters, contract, job, artifact, proposal>>
  BY DEF Conclude
<1>2. CASE /\ assembler' = [assembler EXCEPT !.pc = "failed"]
           /\ phase' = "concluded" /\ UNCHANGED <<evidence, green>>
  BY <1>1, <1>2, AssemblyFailsKeeps DEF results
<1>3. CASE /\ WholeFamily /\ evidence' = Composed
           /\ assembler' = [assembler EXCEPT !.pc = "assembled"]
           /\ phase' = IF workflow = "local" THEN "concluded" ELSE phase
           /\ green' = (workflow = "local")
  <2>1. evidence' \in FamilyEvidences /\ evidence' # None
    BY <1>1, <1>3, ComposedIsEvidence DEF IInv
  <2>2. /\ workflow' = workflow /\ contract' = contract /\ edits' = edits
        /\ attempt' = attempt /\ job' = job /\ artifact' = artifact
        /\ proposal' = proposal /\ evidence'.checks = assembler.out
        /\ assembler' \in Assemblers /\ assembler'.pc = "assembled"
        /\ assembler'.out = assembler.out /\ assembler'.entries = assembler.entries
    BY <1>1, <1>3 DEF setting, counters, Composed, IInv, TypeInv, Assemblers
  <2>3. EvidenceIsSealed' /\ EvidenceIsOfOneContract'
    BY <1>1, <1>3, <2>2, ComposedHolds
       DEF EvidenceIsSealed, EvidenceIsOfOneContract, Accepted
  <2>4. EvidenceInv'
    <3>1. GreenIsWhole'
      BY <1>1, <1>3, <2>1, <2>2, ComposedHolds DEF GreenIsWhole
    <3>2. workflow = "advance" => proposal = Promoted(contract)
      BY <1>1 DEF IInv, AssemblerInv
    <3>3. QED
      BY <1>1, <1>3, <2>2, <2>3, <3>1, <3>2, ComposedHolds
         DEF EvidenceInv, Promoted
  <2>5. JobsInv'
    BY <1>1, <1>3, <2>2, NoneRuns, JobsStay DEF setting
  <2>6. TypeInv'
    BY <1>1, <1>3, <2>1, <2>2 DEF IInv, TypeInv
  <2>7. EditInv'
    BY <1>3, <2>2 DEF EditInv
  <2>8. AssemblerInv'
    BY <1>1, <1>3, <2>1, <2>2 DEF IInv, AssemblerInv, Accepted, Promoted
  <2>9. QED
    BY <2>4, <2>5, <2>6, <2>7, <2>8 DEF IInv
<1>4. QED
  BY <1>2, <1>3 DEF Conclude

\* A drift observation is green only when no required check failed.
LEMMA AggregateKeeps ==
    ASSUME IInv, Aggregate
    PROVE  IInv'
<1> DEFINE out == assembler.out
           verdicts == [c \in DOMAIN out |-> out[c].verdict]
<1>1. /\ phase = "assemble" /\ phase' = "concluded" /\ assembler.pc = "assembled"
      /\ green' = (/\ Gate(AggregateVerdict(verdicts, Required))
                   /\ \A p \in Producers : job[p].pc = "succeeded")
      /\ UNCHANGED <<setting, counters, contract, job, artifact, assembler,
                     proposal, evidence>>
  BY DEF Aggregate
<1>2. /\ workflow # "local" /\ evidence # None /\ evidence.checks = out
      /\ evidence \in FamilyEvidences
  BY <1>1 DEF IInv, TypeInv, AssemblerInv
<1>3. /\ evidence.checks \in [Checks -> File] /\ DOMAIN evidence.checks = Checks
      /\ DOMAIN evidence.source = Producers
  BY <1>2 DEF FamilyEvidences
<1>4. workflow = "drift" /\ green' =>
         \A c \in Required : evidence.checks[c].verdict # "FAIL"
  <2> SUFFICES ASSUME workflow = "drift", green', NEW c \in Required,
                      evidence.checks[c].verdict = "FAIL"
               PROVE  FALSE
    OBVIOUS
  <2>1. Has(verdicts, c, "FAIL")
    BY <1>2, <1>3, ConstantsAssumption DEF Has
  <2> HIDE DEF verdicts
  <2>2. AggregateVerdict(verdicts, Required) = "FAIL"
    BY <2>1 DEF AggregateVerdict
  <2>3. QED
    BY <1>1, <2>2 DEF Gate
<1>5. EvidenceInv'
  <2>1. EvidenceInv
    BY DEF IInv
  <2>2. EvidenceIsSealed' /\ EvidenceIsOfOneContract'
    BY <1>1, <2>1 DEF EvidenceInv, EvidenceIsSealed, EvidenceIsOfOneContract,
                      Accepted, setting, counters
  <2>3. GreenIsWhole'
    BY <1>1, <1>2, <1>3, <1>4 DEF GreenIsWhole, setting
  <2>4. QED
    BY <1>1, <1>2, <2>1, <2>2, <2>3 DEF EvidenceInv, setting, Promoted
<1>6. UNCHANGED <<setting, contract, attempt, edits, job, artifact, assembler, evidence>>
  BY <1>1 DEF counters
<1>7. /\ assembler' \in Assemblers /\ assembler'.pc = "assembled"
      /\ evidence' \in FamilyEvidences \cup {None}
  BY <1>1, <1>2 DEF IInv, TypeInv
<1>8. QED
  BY <1>1, <1>5, <1>6, <1>7, NoneRuns, ConcludedKeeps

-----------------------------------------------------------------------------
(* Between two attempts.                                                   *)

\* A workflow runs again, with no evidence and the jobs that succeeded.
LEMMA RerunKeeps ==
    ASSUME IInv, RerunAll \/ RerunFailed
    PROVE  IInv'
<1>1. /\ phase = "concluded" /\ workflow # "local" /\ workflow' = workflow
      /\ phase' \in {"prepare", "produce"} /\ attempt' = attempt + 1
      /\ edits' = edits /\ artifact' = artifact
      /\ assembler' = IdleAssembler(Nothing)
      /\ proposal' = None /\ evidence' = None /\ green' = FALSE
  BY DEF RerunAll, RerunFailed, MayRetry, setting
<1>2. /\ contract' \in Documents \cup {None}
      /\ phase' = "produce" => contract' \in Documents
  BY DEF RerunAll, RerunFailed, IInv, TypeInv
<1>3. assembler' \in Assemblers /\ assembler'.pc = "idle" /\ assembler'.seen = {}
  BY <1>1, NothingIsEmpty DEF IdleAssembler, Assemblers
<1>4. IdleJob(Nothing) \in Jobs /\ IdleJob(Nothing).pc = "idle"
      /\ IdleJob(Nothing).envelope = None
  BY NothingIsEmpty DEF IdleJob, Jobs
<1>5. /\ job' \in [Producers -> Jobs]
      /\ \A p \in Producers : job'[p] \in {IdleJob(Nothing), job[p]}
  BY <1>4 DEF RerunAll, RerunFailed, IInv, TypeInv
<1>6. JobsInv'
  <2> SUFFICES ASSUME NEW p \in Producers
               PROVE  (Placed(p, job[p]) /\ SealedJob(job[p]) /\ EditedJob(p, job[p]))'
    BY DEF JobsInv
  <2>1. /\ job[p].pc \notin Running \cup {"done", "failed"}
        /\ SealedJob(job[p])
    BY <1>1, NoneRuns DEF IInv, JobsInv
  <2>2. /\ job'[p].pc \notin Running \cup {"done", "failed"}
        /\ job'[p].envelope # None =>
              WrittenAt(job'[p].envelope.files, job'[p].envelope.attempt)
    BY <1>4, <1>5, <2>1 DEF SealedJob, Running
  <2>3. QED
    BY <1>1, <2>2 DEF Placed, SealedJob, EditedJob, Running
<1>7. TypeInv'
  BY <1>1, <1>2, <1>3, <1>5 DEF IInv, TypeInv
<1>8. EditInv' /\ AssemblerInv' /\ EvidenceInv'
  BY <1>1, <1>3 DEF EditInv, AssemblerInv, EvidenceInv, EvidenceIsSealed,
                    EvidenceIsOfOneContract, GreenIsWhole
<1>9. QED
  BY <1>6, <1>7, <1>8 DEF IInv

\* A local run finds the files of the run before, but none of its jobs.
LEMMA LocalAgainKeeps ==
    ASSUME IInv, LocalAgain
    PROVE  IInv'
<1>1. PICK cleanJobs \in BOOLEAN, cleanOutput \in BOOLEAN :
         /\ job' = [p \in Producers |->
                      IF cleanJobs THEN IdleJob(Nothing)
                      ELSE [job[p] EXCEPT !.pc = "idle"]]
         /\ assembler' = IdleAssembler(IF cleanOutput THEN Nothing ELSE assembler.out)
         /\ evidence' = IF cleanOutput THEN None ELSE evidence
  BY DEF LocalAgain
<1>2. /\ phase = "concluded" /\ workflow = "local" /\ workflow' = workflow
      /\ phase' = "prepare" /\ attempt' = attempt + 1
      /\ edits' = edits /\ artifact' = artifact /\ contract' = contract
      /\ proposal' = proposal /\ green' = FALSE
  BY DEF LocalAgain, MayRetry, setting
<1>3. assembler' \in Assemblers /\ assembler'.pc = "idle" /\ assembler'.seen = {}
  <2>1. assembler.out \in Trees
    BY DEF IInv, TypeInv, Assemblers
  <2>2. QED
    BY <1>1, <2>1, NothingIsEmpty DEF IdleAssembler, Assemblers
<1>4. IdleJob(Nothing) \in Jobs /\ IdleJob(Nothing).pc = "idle"
      /\ IdleJob(Nothing).envelope = None
  BY NothingIsEmpty DEF IdleJob, Jobs
<1>5. \A p \in Producers :
         /\ [job[p] EXCEPT !.pc = "idle"] \in Jobs
         /\ [job[p] EXCEPT !.pc = "idle"].pc = "idle"
         /\ [job[p] EXCEPT !.pc = "idle"].envelope = job[p].envelope
  BY DEF IInv, TypeInv, Jobs
<1>6. /\ job' \in [Producers -> Jobs]
      /\ \A p \in Producers :
            job'[p].pc = "idle" /\ job'[p].envelope \in {None, job[p].envelope}
  BY <1>1, <1>4, <1>5
<1>7. JobsInv'
  <2> SUFFICES ASSUME NEW p \in Producers
               PROVE  (Placed(p, job[p]) /\ SealedJob(job[p]) /\ EditedJob(p, job[p]))'
    BY DEF JobsInv
  <2>1. SealedJob(job[p])
    BY DEF IInv, JobsInv
  <2>2. QED
    BY <1>2, <1>6, <2>1 DEF Placed, SealedJob, EditedJob, Running
<1>8. evidence' \in {None, evidence}
  BY <1>1
<1>9. TypeInv'
  BY <1>2, <1>3, <1>6, <1>8 DEF IInv, TypeInv
<1>10. EvidenceInv'
  BY <1>2, <1>8 DEF IInv, EvidenceInv, EvidenceIsSealed,
                    EvidenceIsOfOneContract, GreenIsWhole, Accepted, Promoted
<1>11. EditInv' /\ AssemblerInv'
  BY <1>2, <1>3 DEF EditInv, AssemblerInv
<1>12. QED
  BY <1>7, <1>9, <1>10, <1>11 DEF IInv

\* An edit of the contract counts against what the envelopes agree on.
LEMMA LocalEditKeeps ==
    ASSUME IInv, LocalEdit
    PROVE  IInv'
<1>1. /\ workflow = "local" /\ workflow' = workflow
      /\ phase' = phase /\ attempt' = attempt /\ edits' = edits + 1
      /\ edits \in Nat /\ job' = job /\ artifact' = artifact
      /\ assembler' = assembler /\ proposal' = proposal
      /\ evidence' = evidence /\ green' = green
  BY DEF LocalEdit, setting, results, IInv, TypeInv
<1>2. contract' \in Documents
  BY ContractsAreDocuments DEF LocalEdit
<1>3. TypeInv'
  BY <1>1, <1>2 DEF IInv, TypeInv
<1>4. JobsInv'
  <2> SUFFICES ASSUME NEW p \in Producers
               PROVE  (Placed(p, job[p]) /\ SealedJob(job[p]) /\ EditedJob(p, job[p]))'
    BY DEF JobsInv
  <2>1. Placed(p, job[p]) /\ SealedJob(job[p]) /\ EditedJob(p, job[p])
    BY DEF IInv, JobsInv
  <2>2. Placed(p, job[p])' /\ SealedJob(job[p])'
    BY <1>1, <2>1 DEF Placed, SealedJob
  <2>3. EditedJob(p, job[p])'
    BY <1>1, <2>1 DEF EditedJob, Consistent, Accepted
  <2>4. QED
    BY <2>2, <2>3
<1>5. EditInv'
  <2>1. EditInv
    BY DEF IInv
  <2>2. ASSUME phase = "assemble", assembler.pc = "reading",
               assembler.entries = contract, ~ (edits' >= 3)
        PROVE  Agreed(assembler.entries)
    <3>1. ~ (edits >= 2)
      BY <1>1, <2>2
    <3>2. QED
      BY <1>1, <2>2, <3>1, NoneRuns DEF IInv, JobsInv, EditedJob, Agreed
  <2>3. Agreed(assembler.entries) => Agreed(assembler.entries)'
    BY <1>1 DEF Agreed, Consistent, Accepted
  <2>4. edits >= 3 => edits' >= 3
    BY <1>1
  <2>5. QED
    BY <1>1, <2>1, <2>2, <2>3, <2>4 DEF EditInv
<1>6. AssemblerInv'
  <2>1. TakenInv => TakenInv'
    BY <1>1 DEF TakenInv, Area, EnvelopeHolds, CheckHolds, Declared
  <2>2. QED
    BY <1>1, <2>1 DEF IInv, AssemblerInv, Accepted
<1>7. EvidenceInv'
  BY <1>1 DEF IInv, EvidenceInv, EvidenceIsSealed, EvidenceIsOfOneContract,
              GreenIsWhole, Accepted
<1>8. QED
  BY <1>3, <1>4, <1>5, <1>6, <1>7 DEF IInv

LEMMA StutterKeeps ==
    ASSUME IInv, UNCHANGED vars
    PROVE  IInv'
<1>1. /\ UNCHANGED <<workflow, registry, contract, phase, attempt, edits, late>>
      /\ UNCHANGED <<job, artifact, assembler, proposal, evidence, green>>
  BY DEF vars
<1>2. TypeInv' /\ JobsInv'
  BY <1>1 DEF IInv, TypeInv, JobsInv, Placed, SealedJob, EditedJob, Consistent,
              Accepted
<1>3. EditInv'
  BY <1>1 DEF IInv, EditInv, Agreed, Consistent, Accepted
<1>4. AssemblerInv'
  <2>1. TakenInv => TakenInv'
    BY <1>1 DEF TakenInv, Area, EnvelopeHolds, CheckHolds, Declared
  <2>2. QED
    BY <1>1, <2>1 DEF IInv, AssemblerInv, Accepted, Promoted
<1>5. EvidenceInv'
  BY <1>1 DEF IInv, EvidenceInv, EvidenceIsSealed, EvidenceIsOfOneContract,
              GreenIsWhole, Accepted, Promoted
<1>6. QED
  BY <1>2, <1>3, <1>4, <1>5 DEF IInv

-----------------------------------------------------------------------------
(* The theorems.                                                           *)

\* The invariant is inductive: no step of a job, of the assembler, of a
\* process left behind or of whoever edits or runs again breaks it.
LEMMA NextKeeps == IInv /\ [Next]_vars => IInv'
<1> SUFFICES ASSUME IInv, [Next]_vars PROVE IInv'
  OBVIOUS
<1>1. CASE Prepare \/ PrepareFails \/ Invoke
  BY <1>1, PrepareKeeps, PrepareFailsKeeps, InvokeKeeps
<1>2. ASSUME NEW p \in Producers, ProducerStep(p) \/ LateWrite(p)
      PROVE  IInv'
  BY <1>2, StartKeeps, OperateKeeps, HashKeeps, SealKeeps, ConfirmOrDieKeeps,
     UploadKeeps, LateWriteKeeps DEF ProducerStep
<1>3. CASE AssemblerStep
  BY <1>3, LocalStopsKeeps, AssembleStartsKeeps, OpenEnvelopesKeeps,
     ConcludeKeeps, AggregateKeeps, AssemblerDiesKeeps, TakeKeeps DEF AssemblerStep
<1>4. CASE RerunAll \/ RerunFailed \/ LocalAgain \/ LocalEdit
  BY <1>4, RerunKeeps, LocalAgainKeeps, LocalEditKeeps
<1>5. CASE UNCHANGED vars
  BY <1>5, StutterKeeps
<1>6. QED
  BY <1>1, <1>2, <1>3, <1>4, <1>5 DEF Next

\* What jobs, artifacts, assembler and evidence hold in every reachable state
\* of every workflow, for any producers and checks and any bounds.
THEOREM InvariantHolds == Spec => []IInv
<1>1. Init => IInv
  BY InitHolds
<1>2. IInv /\ [Next]_vars => IInv'
  BY NextKeeps
<1>3. QED
  BY <1>1, <1>2, PTL DEF Spec

\* Every check of the evidence is byte for byte the one its producer hashed
\* and validated, whatever checks a process that was left behind writes.
THEOREM EvidenceSealed == Spec => []EvidenceIsSealed
<1>1. IInv => EvidenceIsSealed
  BY DEF IInv, EvidenceInv
<1>2. QED
  BY <1>1, InvariantHolds, PTL

\* The evidence is of one contract, and in a workflow it is the candidate that
\* was uploaded last, also when the assembler runs after a prepare that failed;
\* a local contract must be edited three times to break it.
THEOREM EvidenceOfOneContract == Spec => []EvidenceIsOfOneContract
<1>1. IInv => EvidenceIsOfOneContract
  BY DEF IInv, EvidenceInv
<1>2. QED
  BY <1>1, InvariantHolds, PTL

\* No file of an earlier run fills a newer envelope or newer evidence.
THEOREM RunsSealTheirOwn == Spec => []SealsItsOwnRun
<1>1. IInv => SealsItsOwnRun
  BY DEF IInv, JobsInv, SealedJob, WrittenAt, EvidenceInv, SealsItsOwnRun
<1>2. QED
  BY <1>1, InvariantHolds, PTL

\* A green run has assembled every producer and check, and a green drift
\* observation has no required check that failed.
THEOREM GreenRunsAreWhole == Spec => []GreenIsWhole
<1>1. IInv => GreenIsWhole
  BY DEF IInv, EvidenceInv
<1>2. QED
  BY <1>1, InvariantHolds, PTL

\* An advancement proposes the revisions its evidence is about.
THEOREM ProposalsAreObserved == Spec => []ProposalIsObserved
<1>1. ASSUME IInv, workflow = "advance", evidence # None
      PROVE  proposal # None /\ proposal.revision = evidence.revisions
  <2>1. /\ proposal = Promoted(contract) /\ contract = evidence.contract
        /\ evidence.revisions = contract.revision
        /\ evidence \in FamilyEvidences
    BY <1>1 DEF IInv, TypeInv, EvidenceInv, EvidenceIsOfOneContract
  <2>2. contract \in Documents
    BY <2>1 DEF FamilyEvidences
  <2>3. Promoted(contract) \in Documents /\ Promoted(contract).revision = contract.revision
    BY <2>2, ContractsAreDocuments DEF Promoted, Documents, Fixed
  <2>4. QED
    BY <2>1, <2>3, ConstantsAssumption
<1>2. IInv => ProposalIsObserved
  BY <1>1 DEF ProposalIsObserved
<1>3. QED
  BY <1>2, InvariantHolds, PTL
=============================================================================
