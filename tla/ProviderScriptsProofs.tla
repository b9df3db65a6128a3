------------------------ MODULE ProviderScriptsProofs ------------------------
(***************************************************************************)
(* Proofs about ProviderScripts and the packaging it composes, for any     *)
(* number of uses of an action in a job and whatever its programs do.      *)
(*                                                                         *)
(* A manifest contains the receipt it was written over, so an artifact     *)
(* whose two files agree is of one execution (Sound), and the check beside *)
(* them can only be replaced where a packaging step dies right after the   *)
(* replacement (Kept).  What a gate reads was written in its execution     *)
(* because the packaging goes through its stages in order (Stages), and    *)
(* what they package is the provider's own because a script leaves an      *)
(* earlier file in place only where a program kept silent (Fresh,          *)
(* Debugged).                                                              *)
(***************************************************************************)
EXTENDS ProviderScripts, TLAPS

-----------------------------------------------------------------------------
(* Types.                                                                  *)

Qualified == {"good", "wrong_id", "malformed"}

\* What may be in a file, whichever execution wrote it.
AllDocuments == {NoFile, Torn} \cup
    [kind : {"document"}, by : Nat, quality : Qualified, verdict : Verdicts,
     about : [test : Nat, witness : Nat, diagnosis : Nat]]

Receipts == {NoFile, Torn} \cup
    [kind : {"receipt"}, by : Nat, claim : {"ESTABLISHED", "NOT_ESTABLISHED"},
     verdict : Verdicts \cup {"NONE"}, exit : {"ok", "error", "unset"},
     produced : SUBSET AllDocuments]

Manifests == {NoFile, Torn} \cup
    [kind : {"manifest"}, by : Nat, verdict : Verdicts,
     exit : {"ok", "error", "unset"},
     check : AllDocuments, receipt : Receipts]

Directories == [check : AllDocuments, observed : AllDocuments,
                receipt : Receipts, manifest : Manifests]

Reports == {NoFile} \cup
    [kind : {"report"}, by : Executions, verdict : Verdicts]

Positions == {"provider", "package", "copy", "receipt", "manifest", "outputs",
              "observe", "negative", "upload", "gate", "done"}

\* A document that a packaging step establishes a claim for.
Established(d) ==
    /\ d \in Documents
    /\ d.kind = "document" /\ d.quality = "good" /\ d.verdict \in Verdicts

Types ==
    /\ TypeOK
    /\ pc \in Positions
    /\ dir \in Directories
    /\ uploaded \in Seq(Directories)
    /\ Len(uploaded) = IF pc \in {"gate", "done"} THEN execution
                       ELSE execution - 1
    /\ outputs.verdict \in Verdicts \cup {"", "INVALID"}
    /\ pc \in {"copy", "receipt", "manifest", "outputs"} => Established(result)

ScriptTypes ==
    /\ detailed \in Reports
    /\ witness \in {NoFile} \cup [by : Executions]
    /\ diagnosis \in {NoFile} \cup [by : Executions, sufficient : BOOLEAN]
    /\ debugCheck \in Documents

\* Every document of the job is a document, and the next use has more.
LEMMA DocumentsAre ==
    ASSUME execution \in Nat
    PROVE  Documents \subseteq AllDocuments
BY DEF Documents, AllDocuments, Executions, Qualified, Verdicts

\* The documents of a job are among those of its next execution.
LEMMA DocumentsGrow ==
    ASSUME execution \in Nat, execution' = execution + 1
    PROVE  Documents \subseteq Documents'
BY DEF Documents, Executions, NoFile, Torn

\* What a provider writes in this execution is a document of the job.
LEMMA DocumentIs ==
    ASSUME execution \in Nat \ {0}, NEW q \in Qualified, NEW v \in Verdicts
    PROVE  /\ Document(execution, q, v) \in Documents
           /\ Document(execution, q, v).by = execution
           /\ Document(execution, q, v).kind = "document"
           /\ Document(execution, q, v).verdict = v
BY DEF Document, Documents, Executions, Qualified, Verdicts, Unrelated

\* A document has a verdict.
LEMMA DocumentKinds ==
    ASSUME NEW d \in Documents, d.kind = "document"
    PROVE  d.verdict \in Verdicts
<1>1. NoFile.kind = "none" /\ Torn.kind = "torn"
  BY DEF NoFile, Torn
<1>2. d \notin {NoFile, Torn}
  BY <1>1
<1>3. QED
  BY <1>2 DEF Documents, Verdicts

\* Writing one file leaves the others.
LEMMA Directory ==
    ASSUME NEW d \in Directories
    PROVE  /\ \A x \in AllDocuments : LET e == [d EXCEPT !.check = x] IN
                 /\ e \in Directories /\ e.check = x /\ e.observed = d.observed
                 /\ e.receipt = d.receipt /\ e.manifest = d.manifest
           /\ \A x \in AllDocuments : LET e == [d EXCEPT !.observed = x] IN
                 /\ e \in Directories /\ e.check = d.check /\ e.observed = x
                 /\ e.receipt = d.receipt /\ e.manifest = d.manifest
           /\ \A x \in Receipts : LET e == [d EXCEPT !.receipt = x] IN
                 /\ e \in Directories /\ e.check = d.check
                 /\ e.observed = d.observed
                 /\ e.receipt = x /\ e.manifest = d.manifest
           /\ \A x \in Manifests : LET e == [d EXCEPT !.manifest = x] IN
                 /\ e \in Directories /\ e.check = d.check
                 /\ e.observed = d.observed
                 /\ e.receipt = d.receipt /\ e.manifest = x
BY DEF Directories
-----------------------------------------------------------------------------
(* Types, step by step.                                                    *)

\* The job is in one of its executions.
LEMMA ExecutionIs ==
    ASSUME Types
    PROVE  execution \in Nat \ {0} /\ execution \in Executions
<1>1. execution \in 1 .. MaxExecutions
  BY DEF Types, TypeOK
<1>2. MaxExecutions \in Nat
  BY PackagingAssumption
<1>3. QED
  BY <1>1, <1>2 DEF Executions

\* What a debugger's script leaves is a document, and so are its inputs.
LEMMA DebugScriptTypes ==
    ASSUME Types, ScriptTypes, NEW old \in Documents, NEW new,
           DebugScript(old, new)
    PROVE  /\ new \in Documents
           /\ new # old /\ new.kind = "document" =>
                 new.quality = "good" /\ new.by = execution
           /\ witness' \in {NoFile} \cup [by : Executions]
           /\ diagnosis' \in {NoFile} \cup [by : Executions, sufficient : BOOLEAN]
<1>1. execution \in Nat \ {0} /\ execution \in Executions
  BY ExecutionIs
<1>2. /\ Unknown \in Documents /\ Unknown.quality = "good"
      /\ Unknown.by = execution
  BY <1>1, DocumentIs DEF Unknown, Document, Qualified, Verdicts
<1>3. NoFile \in Documents /\ NoFile.kind # "document"
  BY DEF Documents, NoFile
<1>4. CASE Decline(old, new) \/ CaptureNothing(old, new)
  BY <1>2, <1>4 DEF Decline, CaptureNothing, WriteUnknown, ScriptTypes
<1>5. ASSUME witness' \in Witnesses, diagnosis' \in Diagnoses
      PROVE  /\ witness' \in {NoFile} \cup [by : Executions]
             /\ diagnosis' \in {NoFile} \cup [by : Executions, sufficient : BOOLEAN]
             /\ witness'.by \in 0 .. execution
             /\ diagnosis' # NoFile => diagnosis'.by \in 0 .. execution
  BY <1>1, <1>5 DEF Witnesses, Diagnoses, ScriptTypes, Executions
<1>6. CASE Reject(old, new)
  BY <1>3, <1>5, <1>6 DEF Reject
<1>7. CASE Diagnose(old, new)
  <2> DEFINE about == [test |-> detailed.by, witness |-> witness'.by,
                       diagnosis |-> IF diagnosis' = NoFile THEN 0
                                     ELSE diagnosis'.by]
  <2>1. detailed.by \in 0 .. execution
    BY <1>1, <1>7 DEF Diagnose, Declined, ScriptTypes, Reports, Executions
  <2>2. about \in [test : 0 .. execution, witness : 0 .. execution,
                   diagnosis : 0 .. execution]
    BY <1>1, <1>5, <1>7, <2>1 DEF Diagnose
  <2> HIDE DEF about
  <2>3. PICK v \in {"PASS", "UNKNOWN"} :
           new = [Document(execution, "good", v) EXCEPT !.about = about]
    BY <1>7 DEF Diagnose, DebugDocument, about
  <2>4. new = [kind |-> "document", by |-> execution, quality |-> "good",
               verdict |-> v, about |-> about]
    BY <2>3 DEF Document
  <2>5. new \in Documents
    BY <1>1, <2>2, <2>4 DEF Documents, Executions
  <2>6. QED
    BY <1>5, <1>7, <2>4, <2>5 DEF Diagnose
<1>8. QED
  BY <1>4, <1>6, <1>7 DEF DebugScript

\* What all providers have in common: they end, and leave a result.
ProviderEnds ==
    /\ pc = "provider" /\ pc' = "package"
    /\ UNCHANGED <<inputs, execution, dir, outcome, outputs, uploaded,
                   green, died>>
    /\ result' \in Documents
    /\ exitCode' \in {"ok", "error", "unset"}
    /\ action = "mncs-debug" => exitCode' \in {"ok", "unset"}

AnyProvider ==
    \/ RunProvider /\ UNCHANGED scriptVars
    \/ RefuseToTest \/ RunTests \/ RunDebugger
    \/ EmitCheck \/ EmitterDies \/ ScriptKilled

\* A runner's files are its own, those before it, or what the script writes.
LEMMA TestTypes ==
    ASSUME Types, ScriptTypes, RefuseToTest \/ RunTests
    PROVE  result' \in Documents /\ detailed' \in Reports
<1>1. execution \in Nat \ {0} /\ execution \in Executions
  BY ExecutionIs
<1>2. Unknown \in Documents
  BY <1>1, DocumentIs DEF Unknown, Qualified, Verdicts
<1>3. \A v \in Verdicts : Report(v) \in Reports
  BY <1>1 DEF Report, Reports
<1>4. result \in Documents /\ detailed \in Reports
  BY DEF Types, TypeOK, ScriptTypes
<1>5. ASSUME NEW c \in Documents, NEW r \in Reports, StartFailure(c, r)
      PROVE  result' \in Documents /\ detailed' \in Reports
  BY <1>2, <1>3, <1>5 DEF StartFailure, Verdicts
<1>6. CASE RefuseToTest
  BY <1>4, <1>5, <1>6 DEF RefuseToTest
<1>7. CASE RunTests
  <2>1. PICK q \in {"good", "malformed"}, v \in Verdicts,
             wrote \in SUBSET {"check", "report"} :
           LET check == IF "check" \in wrote THEN Document(execution, q, v)
                        ELSE result
               report == IF "report" \in wrote THEN Report(v) ELSE detailed
           IN  IF report = NoFile THEN StartFailure(check, report)
               ELSE result' = check /\ detailed' = report
    BY <1>7 DEF RunTests
  <2>2. Document(execution, q, v) \in Documents
    BY <1>1, DocumentIs DEF Qualified
  <2>3. QED
    BY <1>3, <1>4, <1>5, <2>1, <2>2
<1>8. QED
  BY <1>6, <1>7

\* Every provider ends, and leaves documents.
LEMMA ProvidersEnd ==
    ASSUME Types, ScriptTypes, AnyProvider
    PROVE  ProviderEnds /\ ScriptTypes'
<1>1. execution \in Nat \ {0}
  BY ExecutionIs
<1>2. /\ result \in Documents
      /\ NoFile \in Documents /\ Torn \in Documents
      /\ exitCode \in {"ok", "error", "unset"}
  BY DEF Types, TypeOK, Documents
<1>3. execution' = execution => /\ Documents' = Documents
                                /\ Executions' = Executions
                                /\ Reports' = Reports
  BY DEF Documents, Executions, Reports
<1>4. CASE RunProvider /\ UNCHANGED scriptVars
  BY <1>1, <1>2, <1>3, <1>4, DocumentIs
     DEF RunProvider, Qualities, Qualified, Verdicts, ProviderEnds,
         ScriptTypes, scriptVars
<1>5. CASE RefuseToTest
  BY <1>3, <1>5, TestTypes
     DEF RefuseToTest, packagingVars, ProviderEnds, ScriptTypes
<1>6. CASE RunTests
  BY <1>3, <1>6, TestTypes
     DEF RunTests, packagingVars, ProviderEnds, ScriptTypes
<1>7. CASE RunDebugger
  BY <1>2, <1>3, <1>7, DebugScriptTypes
     DEF RunDebugger, packagingVars, ProviderEnds, ScriptTypes
<1>8. CASE EmitCheck
  BY <1>1, <1>3, <1>8, DocumentIs
     DEF EmitCheck, packagingVars, ProviderEnds, ScriptTypes, Qualified
<1>9. CASE EmitterDies
  BY <1>2, <1>3, <1>9
     DEF EmitterDies, packagingVars, ProviderEnds, ScriptTypes
<1>10. CASE ScriptKilled
  BY <1>2, <1>3, <1>10
     DEF ScriptKilled, packagingVars, ProviderEnds, ScriptTypes
<1>11. QED
  BY <1>4, <1>5, <1>6, <1>7, <1>8, <1>9, <1>10 DEF AnyProvider
\* Whatever a provider leaves, the variables keep their types.
LEMMA ProviderTypes ==
    ASSUME Types, ProviderEnds
    PROVE  Types'
<1>1. execution' = execution /\ Documents' = Documents /\ Executions' = Executions
  BY DEF ProviderEnds, Documents, Executions
<1>2. TypeOK'
  BY <1>1 DEF Types, TypeOK, ProviderEnds, inputs
<1>3. QED
  BY <1>1, <1>2 DEF Types, ProviderEnds, Positions

\* The receipts and manifests the packaging writes are what they are called.
LEMMA PackagedDocuments ==
    ASSUME Types, NEW v \in Verdicts, NEW c \in AllDocuments,
           NEW r \in Receipts
    PROVE  /\ Receipt("ESTABLISHED", v, {c}) \in Receipts
           /\ Receipt("ESTABLISHED", v, {c}).kind = "receipt"
           /\ Manifest(v, c, r) \in Manifests
           /\ Manifest(v, c, r).kind = "manifest"
           /\ \A S \in SUBSET AllDocuments :
                 /\ Receipt("NOT_ESTABLISHED", "NONE", S) \in Receipts
                 /\ Receipt("NOT_ESTABLISHED", "NONE", S).kind = "receipt"
<1>1. execution \in Nat
  BY ExecutionIs
<1>2. exitCode \in {"ok", "error", "unset"}
  BY DEF Types, TypeOK
<1>3. QED
  BY <1>1, <1>2 DEF Receipt, Manifest, Receipts, Manifests

PackagingSteps ==
    \/ RefuseToPackage \/ Validate
    \/ CopyResult \/ WriteReceipt \/ WriteManifest \/ WriteOutputs
    \/ Observe \/ WriteNegativeReceipt
    \/ PackagingDies
    \/ Gate
    \/ ~DebugDue /\ Upload

\* What a step of the packaging does to the directory, if anything.
LEMMA DirectorySteps ==
    ASSUME Types, PackagingSteps
    PROVE  \/ dir' = dir
           \/ /\ pc = "copy" /\ dir' = [dir EXCEPT !.check = result]
           \/ /\ pc = "copy" /\ dir' = [dir EXCEPT !.check = Torn]
           \/ /\ pc = "receipt" /\ dir' = [dir EXCEPT !.receipt =
                    Receipt("ESTABLISHED", result.verdict, {dir.check})]
           \/ /\ pc = "manifest" /\ dir' = [dir EXCEPT !.manifest =
                    Manifest(result.verdict, dir.check, dir.receipt)]
           \/ /\ pc = "observe" /\ \E x \in {result, Torn} :
                    dir' = [dir EXCEPT !.observed = x]
           \/ /\ pc = "negative" /\ \E S \in SUBSET {result} :
                    dir' = [dir EXCEPT !.receipt =
                               Receipt("NOT_ESTABLISHED", "NONE", S)]
           \/ /\ pc \in {"receipt", "negative"}
              /\ dir' = [dir EXCEPT !.receipt = Torn]
           \/ /\ pc = "manifest" /\ dir' = [dir EXCEPT !.manifest = Torn]
<1>1. CASE PackagingDies
  BY <1>1 DEF PackagingDies, Written
<1>2. CASE Observe
  BY <1>2 DEF Observe, Types, Directories
<1>3. CASE WriteNegativeReceipt
  BY <1>3 DEF WriteNegativeReceipt
<1>4. CASE CopyResult \/ WriteReceipt \/ WriteManifest
  BY <1>4 DEF CopyResult, WriteReceipt, WriteManifest
<1>5. CASE RefuseToPackage \/ Validate \/ WriteOutputs \/ Gate \/ Upload
  BY <1>5 DEF RefuseToPackage, Validate, WriteOutputs, Gate, Upload
<1>6. QED
  BY <1>1, <1>2, <1>3, <1>4, <1>5 DEF PackagingSteps

\* The directory stays a directory; its check is torn or good.
LEMMA DirectoryTypes ==
    ASSUME Types, PackagingSteps
    PROVE  /\ dir' \in Directories
           /\ {dir'.check, dir'.observed} \subseteq Documents
           /\ dir'.check.kind = "document" => dir'.check.quality = "good"
           /\ dir'.receipt.kind \in {"none", "torn", "receipt"}
           /\ dir'.manifest.kind \in {"none", "torn", "manifest"}
<1>1. /\ dir \in Directories
      /\ {dir.check, dir.observed} \subseteq Documents
      /\ dir.check.kind = "document" => dir.check.quality = "good"
      /\ dir.receipt.kind \in {"none", "torn", "receipt"}
      /\ dir.manifest.kind \in {"none", "torn", "manifest"}
      /\ result \in Documents
      /\ pc \in {"copy", "receipt", "manifest"} => Established(result)
  BY DEF Types, TypeOK
<1>2. Documents \subseteq AllDocuments
  BY ExecutionIs, DocumentsAre
<1>3. /\ Torn \in Documents /\ Torn \in Receipts /\ Torn \in Manifests
      /\ Torn.kind = "torn"
  BY DEF Documents, Receipts, Manifests, Torn
<1>4. dir.check \in AllDocuments /\ dir.receipt \in Receipts
  BY <1>1 DEF Directories
<1>5. pc \in {"receipt", "manifest"} => result.verdict \in Verdicts
  BY <1>1 DEF Established
<1>6. pc = "copy" => result.quality = "good"
  BY <1>1 DEF Established
<1>7. CASE dir' = dir
  BY <1>1, <1>7
<1>8. CASE pc = "copy" /\ \E x \in {result, Torn} : dir' = [dir EXCEPT !.check = x]
  BY <1>1, <1>2, <1>3, <1>6, <1>8, Directory
<1>9. CASE \E x \in {result, Torn} : dir' = [dir EXCEPT !.observed = x]
  BY <1>1, <1>2, <1>3, <1>9, Directory
<1>10. CASE /\ pc = "receipt"
            /\ dir' = [dir EXCEPT !.receipt =
                          Receipt("ESTABLISHED", result.verdict, {dir.check})]
  BY <1>1, <1>4, <1>5, <1>10, Directory, PackagedDocuments
<1>11. CASE \E S \in SUBSET {result} :
                dir' = [dir EXCEPT !.receipt =
                           Receipt("NOT_ESTABLISHED", "NONE", S)]
  <2>1. PICK S \in SUBSET {result} :
           dir' = [dir EXCEPT !.receipt = Receipt("NOT_ESTABLISHED", "NONE", S)]
    BY <1>11
  <2>2. S \in SUBSET AllDocuments
    BY <1>1, <1>2
  <2>3. "PASS" \in Verdicts
    BY DEF Verdicts
  <2>4. /\ Receipt("NOT_ESTABLISHED", "NONE", S) \in Receipts
        /\ Receipt("NOT_ESTABLISHED", "NONE", S).kind = "receipt"
    BY <1>4, <2>2, <2>3, PackagedDocuments
  <2>5. QED
    BY <1>1, <2>1, <2>4, Directory
<1>12. CASE dir' = [dir EXCEPT !.receipt = Torn]
  BY <1>1, <1>3, <1>12, Directory
<1>13. CASE /\ pc = "manifest"
            /\ dir' = [dir EXCEPT !.manifest =
                          Manifest(result.verdict, dir.check, dir.receipt)]
  <2> DEFINE m == Manifest(result.verdict, dir.check, dir.receipt)
  <2>1. m \in Manifests /\ m.kind = "manifest"
    BY <1>4, <1>5, <1>13, PackagedDocuments
  <2>2. dir' = [dir EXCEPT !.manifest = m]
    BY <1>13
  <2> HIDE DEF m
  <2>3. QED
    BY <1>1, <2>1, <2>2, Directory
<1>14. CASE dir' = [dir EXCEPT !.manifest = Torn]
  BY <1>1, <1>3, <1>14, Directory
<1>15. QED
  BY <1>7, <1>8, <1>9, <1>10, <1>11, <1>12, <1>13, <1>14, DirectorySteps
\* The packaging, the upload and the gate keep the types.
LEMMA PackagingTypes ==
    ASSUME Types, PackagingSteps
    PROVE  Types'
<1>1. /\ UNCHANGED <<action, failOnFail, failOnUnknown, execution, result, exitCode>>
      /\ Documents' = Documents /\ Executions' = Executions
  BY DEF PackagingSteps, RefuseToPackage, Validate, CopyResult, WriteReceipt,
         WriteManifest, WriteOutputs, Observe, WriteNegativeReceipt,
         PackagingDies, Gate, Upload, inputs, Documents, Executions
<1>2. /\ outcome' \in {"none", "success", "failure"}
      /\ outputs'.verdict \in Verdicts \cup {"", "INVALID"}
      /\ pc' \in Positions
      /\ pc' \in {"copy", "receipt", "manifest", "outputs"} => Established(result)
  <2>1. /\ outcome \in {"none", "success", "failure"}
        /\ outputs.verdict \in Verdicts \cup {"", "INVALID"}
        /\ result \in Documents
        /\ pc \in {"copy", "receipt", "manifest", "outputs"} => Established(result)
    BY DEF Types, TypeOK
  <2>2. CASE RefuseToPackage \/ Upload \/ Gate \/ PackagingDies \/ Observe
    BY <2>1, <2>2 DEF RefuseToPackage, Upload, Gate, PackagingDies, Observe,
                      Positions
  <2>3. CASE Validate
    <3>1. result.kind = "document" => result.verdict \in Verdicts
      BY <2>1, DocumentKinds
    <3>2. QED
      BY <2>1, <2>3, <3>1 DEF Validate, Positions, Established
  <2>4. CASE CopyResult \/ WriteReceipt \/ WriteManifest
    BY <2>1, <2>4 DEF CopyResult, WriteReceipt, WriteManifest, Positions
  <2>5. CASE WriteOutputs
    <3>1. result.verdict \in Verdicts
      BY <2>1, <2>5 DEF WriteOutputs, Established
    <3>2. /\ outputs' = [verdict |-> result.verdict, claim |-> "ESTABLISHED"]
          /\ outcome' = "success" /\ pc' = "upload"
      BY <2>5 DEF WriteOutputs
    <3>3. QED
      BY <3>1, <3>2 DEF Positions
  <2>6. CASE WriteNegativeReceipt
    BY <2>1, <2>6 DEF WriteNegativeReceipt, Positions
  <2>7. QED
    BY <2>2, <2>3, <2>4, <2>5, <2>6 DEF PackagingSteps
<1>3. /\ uploaded' \in Seq(Directories)
      /\ Len(uploaded') = IF pc' \in {"gate", "done"} THEN execution
                          ELSE execution - 1
  <2>1. /\ uploaded \in Seq(Directories) /\ dir \in Directories
        /\ Len(uploaded) = IF pc \in {"gate", "done"} THEN execution
                           ELSE execution - 1
        /\ execution \in Nat
    BY ExecutionIs DEF Types
  <2>2. CASE Upload
    BY <2>1, <2>2 DEF Upload
  <2>3. CASE /\ uploaded' = uploaded
             /\ pc \in {"gate", "done"} <=> pc' \in {"gate", "done"}
    BY <2>1, <2>3
  <2>4. PackagingSteps /\ ~ Upload =>
           /\ uploaded' = uploaded
           /\ pc \in {"gate", "done"} <=> pc' \in {"gate", "done"}
    BY DEF PackagingSteps, RefuseToPackage, Validate, CopyResult, WriteReceipt,
           WriteManifest, WriteOutputs, Observe, WriteNegativeReceipt,
           PackagingDies, Gate, Written
  <2>5. QED
    BY <2>2, <2>3, <2>4
<1>4. green' \subseteq Executions
  <2>1. green \subseteq Executions
    BY DEF Types, TypeOK
  <2>2. green' = green \/ green' = green \cup {execution}
    BY DEF PackagingSteps, RefuseToPackage, Validate, CopyResult, WriteReceipt,
           WriteManifest, WriteOutputs, Observe, WriteNegativeReceipt,
           PackagingDies, Gate, Upload
  <2>3. QED
    BY <2>1, <2>2, ExecutionIs
<1>5. QED
  BY <1>1, <1>2, <1>3, <1>4, DirectoryTypes DEF Types, TypeOK, Established
-----------------------------------------------------------------------------
(* What the packaging leaves in the directory.                             *)

\* A manifest refers to the receipt of its own execution.
Sound(m) ==
    m.kind = "manifest" =>
        /\ m.receipt.kind = "receipt" /\ m.receipt.claim = "ESTABLISHED"
        /\ m.receipt.by = m.by
        /\ m.receipt.verdict = m.verdict
        /\ m.receipt.produced = {m.check}

\* The files are those of this execution's result.
ReceiptWritten ==
    dir.check = result
        /\ dir.receipt = Receipt("ESTABLISHED", result.verdict, {result})

ManifestWritten ==
    ReceiptWritten /\ dir.manifest = Manifest(result.verdict, result, dir.receipt)

Stages ==
    /\ pc = "receipt" => dir.check = result
    /\ pc = "manifest" => ReceiptWritten
    /\ pc = "outputs" => ManifestWritten
    /\ outcome = "success" =>
          /\ pc \in {"upload", "gate", "done"}
          /\ Established(result) /\ ManifestWritten
          /\ outputs.verdict = result.verdict
          /\ exitCode # "unset"
    /\ pc = "provider" => outputs = NoOutputs
    /\ exitCode = "unset" =>
          /\ pc \in {"provider", "package", "upload", "gate", "done"}
          /\ outputs = NoOutputs
    /\ action = "mncs-debug" /\ pc # "provider" => exitCode \in {"ok", "unset"}

\* The check is the one a manifest and its receipt are about, unless a
\* packaging step died between them.
Kept(d) ==
    d.manifest.kind = "manifest" /\ d.receipt = d.manifest.receipt =>
        \/ d.check = d.manifest.check
        \/ "receipt" \in died
        \/ d.check = Torn /\ "copy" \in died

Packaged ==
    /\ Stages
    /\ Sound(dir.manifest)
    /\ pc # "receipt" => Kept(dir)

\* The fields of the documents the packaging writes.
LEMMA Fields ==
    ASSUME NEW v, NEW c, NEW r, NEW S
    PROVE  /\ Receipt("ESTABLISHED", v, S).kind = "receipt"
           /\ Receipt("ESTABLISHED", v, S).claim = "ESTABLISHED"
           /\ Receipt("ESTABLISHED", v, S).by = execution
           /\ Receipt("ESTABLISHED", v, S).verdict = v
           /\ Receipt("ESTABLISHED", v, S).exit = exitCode
           /\ Receipt("ESTABLISHED", v, S).produced = S
           /\ Receipt("NOT_ESTABLISHED", v, S).claim = "NOT_ESTABLISHED"
           /\ Manifest(v, c, r).kind = "manifest"
           /\ Manifest(v, c, r).by = execution
           /\ Manifest(v, c, r).verdict = v
           /\ Manifest(v, c, r).check = c
           /\ Manifest(v, c, r).receipt = r
           /\ Torn.kind = "torn" /\ NoFile.kind = "none"
BY DEF Receipt, Manifest, Torn, NoFile

\* Steps that change no file and no position the packaging knows of.
LEMMA PackagedStays ==
    ASSUME Packaged, UNCHANGED vars
    PROVE  Packaged'
BY DEF Packaged, Stages, Sound, Kept, ReceiptWritten, ManifestWritten,
       Established, Documents, Executions, Receipt, Manifest, vars, inputs

\* A provider touches nothing that was packaged.
LEMMA ProviderPackaged ==
    ASSUME Packaged, ProviderEnds
    PROVE  Packaged'
<1>1. Stages'
  BY DEF Packaged, Stages, ProviderEnds, inputs
<1>2. Sound(dir'.manifest) /\ Kept(dir)'
  BY DEF Packaged, Sound, Kept, ProviderEnds
<1>3. QED
  BY <1>1, <1>2 DEF Packaged, Sound

\* Nor does the next use of the action, which begins with no outputs.
LEMMA NextPackaged ==
    ASSUME Packaged, NextExecution
    PROVE  Packaged'
<1>1. Stages'
  BY DEF Packaged, Stages, NextExecution, inputs
<1>2. Sound(dir'.manifest) /\ Kept(dir)'
  BY DEF Packaged, Sound, Kept, NextExecution
<1>3. QED
  BY <1>1, <1>2 DEF Packaged, Sound

\* The receipt and the manifest of an execution that is going on do not
\* change their meaning.
LEMMA SameExecution ==
    ASSUME execution' = execution, exitCode' = exitCode, result' = result
    PROVE  /\ \A d : Established(d)' <=> Established(d)
           /\ \A c, v, S : Receipt(c, v, S)' = Receipt(c, v, S)
           /\ \A v, c, r : Manifest(v, c, r)' = Manifest(v, c, r)
BY DEF Established, Documents, Executions, Receipt, Manifest
\* Each step of the packaging keeps what was packaged in order.
LEMMA PackagingPackaged ==
    ASSUME Types, Packaged, PackagingSteps
    PROVE  Packaged'
<1>1. /\ UNCHANGED <<action, execution, result, exitCode>>
      /\ died \subseteq died'
  BY DEF PackagingSteps, RefuseToPackage, Validate, CopyResult, WriteReceipt,
         WriteManifest, WriteOutputs, Observe, WriteNegativeReceipt,
         PackagingDies, Gate, Upload, inputs
<1>2. /\ dir \in Directories /\ result \in AllDocuments
      /\ dir.check \in AllDocuments /\ dir.receipt \in Receipts
      /\ pc \in {"receipt", "manifest"} => result.verdict \in Verdicts
      /\ pc \in {"copy", "receipt", "manifest", "outputs"} => Established(result)
      /\ Torn \in AllDocuments /\ Torn \in Receipts /\ Torn \in Manifests
  <2>1. /\ dir \in Directories /\ result \in Documents
        /\ pc \in {"copy", "receipt", "manifest", "outputs"} => Established(result)
    BY DEF Types, TypeOK
  <2>2. QED
    BY <2>1, ExecutionIs, DocumentsAre
       DEF Established, Directories, AllDocuments, Receipts, Manifests
<1>3. /\ \A d : Established(d)' <=> Established(d)
      /\ \A c, v, S : Receipt(c, v, S)' = Receipt(c, v, S)
      /\ \A v, c, r : Manifest(v, c, r)' = Manifest(v, c, r)
  BY <1>1, SameExecution
<1>4. ASSUME UNCHANGED dir
      PROVE  /\ Sound(dir'.manifest)
             /\ pc # "receipt" => Kept(dir)'
             /\ ReceiptWritten => ReceiptWritten'
             /\ ManifestWritten => ManifestWritten'
  BY <1>1, <1>3, <1>4 DEF Packaged, Sound, Kept, ReceiptWritten, ManifestWritten
<1>5. CASE RefuseToPackage
  BY <1>1, <1>3, <1>4, <1>5 DEF RefuseToPackage, Packaged, Stages
<1>6. CASE Validate
  BY <1>1, <1>3, <1>4, <1>6 DEF Validate, Packaged, Stages
<1>7. CASE CopyResult
  <2>1. /\ pc = "copy" /\ pc' = "receipt"
        /\ dir'.check = result /\ dir'.receipt = dir.receipt
        /\ dir'.manifest = dir.manifest
        /\ UNCHANGED <<outcome, outputs>>
    BY <1>2, <1>7, Directory DEF CopyResult
  <2>2. QED
    BY <1>1, <2>1 DEF Packaged, Stages, Sound
<1>8. CASE WriteReceipt
  <2>1. /\ pc = "receipt" /\ pc' = "manifest" /\ dir.check = result
        /\ dir' = [dir EXCEPT !.receipt =
                      Receipt("ESTABLISHED", result.verdict, {dir.check})]
        /\ UNCHANGED <<outcome, outputs>>
    BY <1>8 DEF WriteReceipt, Packaged, Stages
  <2>2. /\ dir'.check = result
        /\ dir'.receipt = Receipt("ESTABLISHED", result.verdict, {result})
        /\ dir'.manifest = dir.manifest
    BY <1>2, <2>1, Directory, PackagedDocuments
  <2>3. Kept(dir)'
    BY <2>2, Fields DEF Packaged, Sound, Kept
  <2>4. QED
    BY <1>1, <1>3, <2>1, <2>2, <2>3 DEF Packaged, Stages, Sound, ReceiptWritten
<1>9. CASE WriteManifest
  <2>1. /\ pc = "manifest" /\ pc' = "outputs" /\ ReceiptWritten
        /\ dir' = [dir EXCEPT !.manifest =
                      Manifest(result.verdict, result, dir.receipt)]
        /\ UNCHANGED <<outcome, outputs>>
    BY <1>9 DEF WriteManifest, Packaged, Stages, ReceiptWritten
  <2>2. Manifest(result.verdict, result, dir.receipt) \in Manifests
    BY <1>2, <2>1, PackagedDocuments
  <2>3. /\ dir'.check = result
        /\ dir'.receipt = Receipt("ESTABLISHED", result.verdict, {result})
        /\ dir'.manifest = Manifest(result.verdict, result, dir'.receipt)
    BY <1>2, <2>1, <2>2, Directory DEF ReceiptWritten
  <2>4. Sound(dir'.manifest) /\ Kept(dir)'
    BY <2>3, Fields DEF Sound, Kept
  <2>5. QED
    BY <1>1, <1>3, <2>1, <2>3, <2>4
       DEF Packaged, Stages, ReceiptWritten, ManifestWritten
<1>10. CASE WriteOutputs
  <2>1. /\ pc = "outputs" /\ pc' = "upload" /\ UNCHANGED dir
        /\ outputs'.verdict = result.verdict
        /\ Established(result) /\ ManifestWritten
        /\ exitCode # "unset"
    BY <1>2, <1>10 DEF WriteOutputs, Packaged, Stages
  <2>2. QED
    BY <1>1, <1>3, <1>4, <2>1 DEF Packaged, Stages
<1>11. CASE Observe
  <2>1. /\ pc = "observe" /\ pc' = "negative"
        /\ dir'.check = dir.check /\ dir'.receipt = dir.receipt
        /\ dir'.manifest = dir.manifest
        /\ UNCHANGED <<outcome, outputs>>
    <3>1. \E x \in AllDocuments : dir' = [dir EXCEPT !.observed = x]
      BY <1>2, <1>11 DEF Observe, Directories
    <3>2. QED
      BY <1>2, <1>11, <3>1, Directory DEF Observe
  <2>2. QED
    BY <1>1, <2>1 DEF Packaged, Stages, Sound, Kept
<1>12. CASE WriteNegativeReceipt
  <2> DEFINE S == ({result} \cap {dir.observed}) \ {NoFile}
             r == Receipt("NOT_ESTABLISHED", "NONE", S)
  <2>1. S \in SUBSET AllDocuments
    BY <1>2
  <2>2. r \in Receipts
    BY <1>2, <2>1, PackagedDocuments DEF Verdicts
  <2>3. r.claim = "NOT_ESTABLISHED"
    BY Fields
  <2>4. /\ pc = "negative" /\ pc' = "upload"
        /\ dir' = [dir EXCEPT !.receipt = r]
        /\ outcome' = "failure"
    BY <1>12 DEF WriteNegativeReceipt
  <2> HIDE DEF S, r
  <2>5. /\ dir'.check = dir.check /\ dir'.receipt = r
        /\ dir'.manifest = dir.manifest
    BY <1>2, <2>2, <2>4, Directory
  <2>6. Sound(dir'.manifest) /\ Kept(dir)'
    BY <2>3, <2>5 DEF Packaged, Sound, Kept
  <2>7. QED
    BY <1>1, <2>4, <2>6 DEF Packaged, Stages
<1>13. CASE PackagingDies
  <2>1. /\ pc \in {"copy", "receipt", "manifest", "negative"}
        /\ pc' = "upload" /\ outcome' = "failure" /\ outputs' = outputs
        /\ died' = died \cup {pc}
    BY <1>13 DEF PackagingDies, Written
  <2>2. Stages'
    BY <1>1, <2>1 DEF Packaged, Stages
  <2>3. CASE dir' = dir
    BY <1>4, <2>1, <2>2, <2>3 DEF Packaged, Kept
  <2>4. CASE pc = "copy" /\ dir' = [dir EXCEPT !.check = Torn]
    <3>1. /\ dir'.check = Torn /\ dir'.receipt = dir.receipt
          /\ dir'.manifest = dir.manifest
      BY <1>2, <2>4, Directory
    <3>2. QED
      BY <2>1, <2>2, <2>4, <3>1 DEF Packaged, Sound, Kept
  <2>5. CASE dir' = [dir EXCEPT !.receipt = Torn]
    <3>1. /\ dir'.check = dir.check /\ dir'.receipt = Torn
          /\ dir'.manifest = dir.manifest
      BY <1>2, <2>5, Directory
    <3>2. QED
      BY <2>2, <3>1, Fields DEF Packaged, Sound, Kept
  <2>6. CASE dir' = [dir EXCEPT !.manifest = Torn]
    <3>1. dir'.manifest = Torn
      BY <1>2, <2>6, Directory
    <3>2. QED
      BY <2>2, <3>1, Fields DEF Packaged, Sound, Kept
  <2>7. QED
    BY <1>13, <2>3, <2>4, <2>5, <2>6 DEF PackagingDies, Written
<1>14. CASE Gate \/ Upload
  BY <1>1, <1>3, <1>4, <1>14 DEF Gate, Upload, Packaged, Stages
<1>15. QED
  BY <1>5, <1>6, <1>7, <1>8, <1>9, <1>10, <1>11, <1>12, <1>13, <1>14
     DEF PackagingSteps
-----------------------------------------------------------------------------
(* Whose result it is.                                                     *)

Scripted == action \in {"mncs-test", "mncs-debug", "obligation"}

\* The document d is of execution k, or the provider kept silent about it.
FreshOf(d, k) ==
    \/ d.by = k
    \/ action = "mncs-test" /\ Slipped(k, "check")
    \/ action = "mncs-debug" /\ Slipped(k, "unknown")

Fresh ==
    Scripted /\ pc # "provider" /\ exitCode = "ok" /\ result.kind = "document"
        => FreshOf(result, execution)

\* No step forgets that a provider kept silent.
SlipsStay == slips \subseteq slips' /\ UNCHANGED action

\* A result that a script lets through is of its execution, or the program
\* behind it kept silent.
LEMMA ProviderFresh ==
    ASSUME Types, ScriptTypes, AnyProvider
    PROVE  Fresh' /\ SlipsStay
<1>1. execution \in Nat \ {0}
  BY ExecutionIs
<1>2. execution' = execution /\ action' = action
  BY ProvidersEnd DEF ProviderEnds, inputs
<1>3. CASE RunProvider /\ UNCHANGED scriptVars
  BY <1>3 DEF RunProvider, scriptVars, inputs, SlipsStay, Fresh, Scripted
<1>4. CASE RefuseToTest
  BY <1>2, <1>4 DEF RefuseToTest, Slip, SlipsStay, Fresh
<1>5. CASE RunTests
  <2>1. PICK q \in {"good", "malformed"}, v \in Verdicts,
             wrote \in SUBSET {"check", "report"}, exit \in {"ok", "error"} :
           LET check  == IF "check" \in wrote THEN Document(execution, q, v)
                         ELSE result
               report == IF "report" \in wrote THEN Report(v) ELSE detailed
           IN  /\ IF report = NoFile THEN StartFailure(check, report)
                  ELSE result' = check /\ detailed' = report
               /\ exitCode' = exit
               /\ slips' = slips \cup
                     {<<execution, w>> : w \in
                         (IF "check" \notin wrote /\ exit = "ok"
                          THEN {"check"} ELSE {})
                         \cup ({"report"} \ wrote)}
    BY <1>5 DEF RunTests
  <2>2. Document(execution, q, v).by = execution /\ Unknown.by = execution
    BY DEF Document, Unknown
  <2>3. "check" \in wrote => result'.by = execution
    BY <2>1, <2>2 DEF StartFailure
  <2>4. "check" \notin wrote /\ exitCode' = "ok" => <<execution, "check">> \in slips'
    BY <2>1
  <2>5. slips \subseteq slips'
    BY <2>1
  <2>6. action = "mncs-test"
    BY <1>5 DEF RunTests
  <2>7. QED
    BY <1>2, <2>3, <2>4, <2>5, <2>6 DEF Fresh, FreshOf, Slipped, SlipsStay
<1>6. CASE RunDebugger
  <2>1. action = "mncs-debug" /\ DebugScript(result, result')
    BY <1>6 DEF RunDebugger
  <2>2. \/ result'.by = execution
        \/ result'.kind # "document"
        \/ <<execution, "unknown">> \in slips'
    BY <2>1 DEF DebugScript, Decline, CaptureNothing, WriteUnknown, Slip,
         Reject, Diagnose, DebugDocument, Document, Unknown, NoFile
  <2>3. slips \subseteq slips'
    BY <2>1 DEF DebugScript, Decline, CaptureNothing, WriteUnknown, Slip,
         Reject, Diagnose
  <2>4. QED
    BY <1>2, <2>1, <2>2, <2>3 DEF Fresh, FreshOf, Slipped, SlipsStay
<1>7. CASE EmitCheck
  <2>1. result'.by = execution /\ slips' = slips
    BY <1>7 DEF EmitCheck, Document
  <2>2. QED
    BY <1>2, <2>1 DEF Fresh, FreshOf, SlipsStay
<1>8. CASE EmitterDies \/ ScriptKilled
  BY <1>2, <1>8 DEF EmitterDies, ScriptKilled, Fresh, SlipsStay
<1>9. QED
  BY <1>3, <1>4, <1>5, <1>6, <1>7, <1>8 DEF AnyProvider

-----------------------------------------------------------------------------
(* Artifacts and gates.                                                    *)

Uploads ==
    /\ \A k \in DOMAIN uploaded :
          Sound(uploaded[k].manifest) /\ Kept(uploaded[k])
    /\ pc \in {"gate", "done"} => uploaded[execution] = dir

Gates == green \subseteq DOMAIN uploaded /\ GreenIsPackaged /\ GreenIsFresh

\* What an upload and a gate read of the artifacts there already are.
LEMMA ArtifactsStay ==
    ASSUME Types, UNCHANGED <<uploaded, inputs>>, died \subseteq died',
           slips \subseteq slips', Uploads, Gates
    PROVE  /\ \A k \in DOMAIN uploaded :
                 Sound(uploaded'[k].manifest) /\ Kept(uploaded[k])'
           /\ green' = green => Gates'
BY DEF Uploads, Gates, Sound, Kept, GreenIsPackaged, GreenIsFresh, Slipped,
       Accepts, StagedCheck, inputs
\* What a gate that accepts knows of the directory.
LEMMA GateKnows ==
    ASSUME Types, Packaged, Fresh, pc = "gate", GateAccepts
    PROVE  /\ Accepts(dir)
           /\ dir.receipt.by = execution /\ dir.receipt.exit = "ok"
           /\ dir.check = dir.manifest.check
           /\ dir.manifest.verdict = "FAIL" => action \in Deferring /\ ~failOnFail
           /\ dir.manifest.verdict = "UNKNOWN" => ~failOnUnknown
           /\ Scripted => FreshOf(dir.check, execution)
<1>1. /\ Established(result) /\ ManifestWritten
      /\ outputs.verdict = result.verdict
      /\ exitCode = "ok"
  BY DEF GateAccepts, Packaged, Stages
<1>2. /\ dir.check = result
      /\ dir.receipt = Receipt("ESTABLISHED", result.verdict, {result})
      /\ dir.manifest = Manifest(result.verdict, result, dir.receipt)
  BY <1>1 DEF ManifestWritten, ReceiptWritten
<1>3. /\ dir.receipt.kind = "receipt" /\ dir.receipt.by = execution
      /\ dir.receipt.exit = "ok"
      /\ dir.manifest.kind = "manifest" /\ dir.manifest.check = result
      /\ dir.manifest.verdict = result.verdict
      /\ dir.manifest.receipt = dir.receipt
  BY <1>1, <1>2, Fields
<1>4. Accepts(dir)
  BY <1>1, <1>2, <1>3 DEF Accepts, StagedCheck, Established
<1>5. Scripted => FreshOf(result, execution)
  BY <1>1 DEF Fresh, Established
<1>6. QED
  BY <1>1, <1>2, <1>3, <1>4, <1>5 DEF GateAccepts

\* Uploads and gates keep what artifacts and green executions prove.
LEMMA PackagingUploads ==
    ASSUME Types, Packaged, Fresh, Uploads, Gates,
           PackagingSteps, UNCHANGED scriptVars
    PROVE  Uploads' /\ Gates'
<1>1. /\ UNCHANGED <<action, failOnFail, failOnUnknown, execution, inputs, slips>>
      /\ died \subseteq died' /\ slips \subseteq slips'
  BY DEF PackagingSteps, RefuseToPackage, Validate, CopyResult, WriteReceipt,
         WriteManifest, WriteOutputs, Observe, WriteNegativeReceipt,
         PackagingDies, Gate, Upload, inputs, scriptVars
<1>2. CASE Upload
  <2>1. /\ pc = "upload" /\ pc' = "gate" /\ uploaded' = Append(uploaded, dir)
        /\ UNCHANGED <<dir, green, died>>
    BY <1>2 DEF Upload
  <2>2. /\ uploaded \in Seq(Directories) /\ dir \in Directories
        /\ Len(uploaded) = execution - 1 /\ execution \in Nat
    BY <2>1, ExecutionIs DEF Types
  <2>3. /\ DOMAIN uploaded' = DOMAIN uploaded \cup {execution}
        /\ uploaded'[execution] = dir
        /\ \A k \in DOMAIN uploaded : uploaded'[k] = uploaded[k]
    BY <2>1, <2>2
  <2>4. Sound(dir.manifest) /\ Kept(dir)
    BY <2>1 DEF Packaged
  <2>5. Uploads'
    BY <1>1, <2>1, <2>3, <2>4 DEF Uploads, Sound, Kept
  <2>6. Gates'
    BY <1>1, <2>1, <2>3 DEF Gates, GreenIsPackaged, GreenIsFresh, Slipped,
                            Accepts, StagedCheck
  <2>7. QED
    BY <2>5, <2>6
<1>3. CASE Gate
  <2>1. /\ pc = "gate" /\ pc' = "done" /\ UNCHANGED <<dir, uploaded, died>>
        /\ green' = IF GateAccepts THEN green \cup {execution} ELSE green
    BY <1>3 DEF Gate
  <2>2. uploaded[execution] = dir /\ execution \in DOMAIN uploaded
    <3>1. /\ uploaded \in Seq(Directories) /\ Len(uploaded) = execution
          /\ execution \in Nat \ {0}
      BY <2>1, ExecutionIs DEF Types
    <3>2. QED
      BY <2>1, <3>1 DEF Uploads
  <2>3. Uploads'
    BY <1>1, <2>1, ArtifactsStay DEF Uploads
  <2>4. CASE ~GateAccepts
    BY <1>1, <2>1, <2>3, <2>4, ArtifactsStay
  <2>5. CASE GateAccepts
    <3>1. \A k \in green' : \/ k \in green /\ k \in DOMAIN uploaded
                            \/ k = execution /\ uploaded[k] = dir
      BY <2>1, <2>2 DEF Gates
    <3>2. /\ UNCHANGED <<action, uploaded, failOnFail, failOnUnknown, slips>>
          /\ \A a : Accepts(a)' <=> Accepts(a)
      BY <1>1, <2>1 DEF Accepts, StagedCheck
    <3>3. green' \subseteq DOMAIN uploaded'
      BY <2>2, <3>1, <3>2
    <3>4. /\ Accepts(dir)
          /\ dir.receipt.by = execution /\ dir.receipt.exit = "ok"
          /\ dir.check = dir.manifest.check
          /\ dir.manifest.verdict = "FAIL" => action \in Deferring /\ ~failOnFail
          /\ dir.manifest.verdict = "UNKNOWN" => ~failOnUnknown
          /\ Scripted => FreshOf(dir.check, execution)
      BY <2>1, <2>5, GateKnows
    <3>5. GreenIsPackaged'
      BY <3>1, <3>2, <3>4 DEF Gates, GreenIsPackaged
    <3>6. GreenIsFresh'
      BY <3>1, <3>2, <3>4
         DEF Gates, GreenIsFresh, Slipped, FreshOf, Scripted
    <3>7. QED
      BY <2>3, <3>3, <3>5, <3>6 DEF Gates
  <2>6. QED
    BY <2>3, <2>4, <2>5
<1>4. CASE ~Upload /\ ~Gate
  <2>1. /\ UNCHANGED <<uploaded, green>>
        /\ pc' \notin {"gate", "done"}
    BY <1>4 DEF PackagingSteps, RefuseToPackage, Validate, CopyResult,
       WriteReceipt, WriteManifest, WriteOutputs, Observe,
       WriteNegativeReceipt, PackagingDies
  <2>2. QED
    BY <1>1, <2>1, ArtifactsStay DEF Uploads
<1>5. QED
  BY <1>2, <1>3, <1>4

-----------------------------------------------------------------------------
(* The debug stage.                                                        *)

StageTypes ==
    stage \in [at : {"none", "captured", "packaged", "judged"},
               outcome : {"none", "success", "failure"},
               verdict : Verdicts \cup {""}]

\* What a debug check of execution k that calls itself a PASS is about.
Explains(c, k) ==
    c.verdict = "PASS" =>
        /\ c.by = k \/ Slipped(k, "unknown")
        /\ c.by = k =>
              /\ c.about.test = k \/ Slipped(k, "report")
              /\ (c.about.witness = k /\ c.about.diagnosis = k)
                    \/ Slipped(k, "debugger")

\* The detailed result is of this execution, or the runner kept silent.
Reported ==
    action = "mncs-test" /\ pc # "provider" /\ exitCode # "unset" =>
        detailed = NoFile \/ detailed.by = execution
            \/ Slipped(execution, "report")

Debugged ==
    /\ StageTypes
    /\ Reported
    /\ stage.at # "none" => pc \in {"upload", "gate", "done"}
    /\ stage.at = "none" => debugCheck.kind # "document"
                               \/ debugCheck.by < execution
    /\ stage.at \in {"captured", "packaged"} /\ debugCheck.kind = "document" =>
          Explains(debugCheck, execution)
    /\ stage.outcome = "success" => /\ stage.at \in {"packaged", "judged"}
                                    /\ debugCheck.kind = "document"
                                    /\ stage.verdict = debugCheck.verdict
    /\ DebugIsOfThisFailure

\* A provider keeps what is known of debug checks; its runner's detailed
\* result is its own, or it kept silent.
LEMMA ProviderDebugged ==
    ASSUME Types, ScriptTypes, Debugged, AnyProvider
    PROVE  Debugged'
<1>1. /\ pc = "provider" /\ pc' = "package"
      /\ UNCHANGED <<execution, action>>
      /\ slips \subseteq slips'
  BY ProvidersEnd, ProviderFresh DEF ProviderEnds, SlipsStay, inputs
<1>2. UNCHANGED <<stage, debugCheck, accepted>>
  BY DEF AnyProvider, scriptVars, RefuseToTest, RunTests, RunDebugger,
         EmitCheck, EmitterDies, ScriptKilled, packagingVars
<1>3. stage.at = "none"
  BY <1>1 DEF Debugged
<1>4. Reported'
  <2>1. CASE RefuseToTest
    BY <1>1, <2>1 DEF RefuseToTest, Reported, Report, Slip, Slipped
  <2>2. CASE RunTests
    <3>1. PICK q \in {"good", "malformed"}, v \in Verdicts,
               wrote \in SUBSET {"check", "report"} :
             LET check  == IF "check" \in wrote THEN Document(execution, q, v)
                           ELSE result
                 report == IF "report" \in wrote THEN Report(v) ELSE detailed
             IN  /\ IF report = NoFile THEN StartFailure(check, report)
                    ELSE detailed' = report
                 /\ "report" \notin wrote => <<execution, "report">> \in slips'
      BY <2>2 DEF RunTests
    <3>2. Report(v).by = execution /\ Report("UNKNOWN").by = execution
      BY DEF Report
    <3>3. QED
      BY <1>1, <3>1, <3>2 DEF Reported, StartFailure, Slipped
  <2>3. CASE ScriptKilled
    BY <2>3 DEF ScriptKilled, Reported
  <2>4. CASE \/ RunProvider /\ UNCHANGED scriptVars
             \/ RunDebugger \/ EmitCheck \/ EmitterDies
    BY <1>1, <2>4 DEF RunProvider, RunDebugger, EmitCheck, EmitterDies, Reported
  <2>5. QED
    BY <2>1, <2>2, <2>3, <2>4 DEF AnyProvider
<1>5. DebugIsOfThisFailure'
  BY <1>1, <1>2 DEF Debugged, DebugIsOfThisFailure, Slipped
<1>6. QED
  BY <1>1, <1>2, <1>3, <1>4, <1>5 DEF Debugged, StageTypes
\* What the debugger's script leaves of an earlier or no check explains the
\* test result at hand, with the exceptions of silent programs.
LEMMA ScriptExplains ==
    ASSUME Types, ScriptTypes,
           NEW old \in Documents, NEW new, DebugScript(old, new),
           old.kind # "document" \/ old.by < execution,
           detailed = NoFile \/ detailed.by = execution
              \/ Slipped(execution, "report"),
           new.kind = "document", execution' = execution
    PROVE  Explains(new, execution)' /\ slips \subseteq slips'
<1>1. execution \in Nat \ {0}
  BY ExecutionIs
<1>2. Unknown.verdict = "UNKNOWN"
  BY DEF Unknown, Document
<1>3. NoFile.kind = "none"
  BY DEF NoFile
<1>4. CASE Decline(old, new) \/ CaptureNothing(old, new)
  <2>1. \/ new = Unknown /\ slips' = slips
        \/ new = old /\ slips' = slips \cup {<<execution, "unknown">>}
    BY <1>4 DEF Decline, CaptureNothing, WriteUnknown, Slip
  <2>2. CASE new = Unknown /\ slips' = slips
    BY <1>2, <2>2 DEF Explains
  <2>3. CASE new = old /\ slips' = slips \cup {<<execution, "unknown">>}
    <3>1. new.by # execution
      BY <1>1, <2>3
    <3>2. QED
      BY <2>3, <3>1 DEF Explains, Slipped
  <2>4. QED
    BY <2>1, <2>2, <2>3
<1>5. CASE Reject(old, new)
  BY <1>3, <1>5 DEF Reject
<1>6. CASE Diagnose(old, new)
  <2>1. PICK v : new = DebugDocument(v, witness', diagnosis')
    BY <1>6 DEF Diagnose
  <2>2. new.by = execution /\ new.about.test = detailed.by
    BY <2>1 DEF DebugDocument, Document
  <2>3. detailed.by = execution \/ Slipped(execution, "report")
    BY <1>6 DEF Diagnose, Declined
  <2>4. IF new.about.witness = execution /\ new.about.diagnosis = execution
        THEN slips' = slips
        ELSE slips' = slips \cup {<<execution, "debugger">>}
    BY <1>6 DEF Diagnose, Slip
  <2>5. QED
    BY <2>2, <2>3, <2>4 DEF Explains, Slipped
<1>7. QED
  BY <1>4, <1>5, <1>6 DEF DebugScript
\* The steps of the debug stage.
LEMMA StageDebugged ==
    ASSUME Types, ScriptTypes, Packaged, Debugged,
           CaptureFailure \/ PackageDebug \/ JudgeDebug
    PROVE  Debugged' /\ ScriptTypes' /\ SlipsStay
<1>1. /\ UNCHANGED <<action, execution, pc, exitCode, detailed, vars>>
      /\ Documents' = Documents /\ Executions' = Executions /\ Reports' = Reports
  BY DEF CaptureFailure, PackageDebug, JudgeDebug, vars, inputs, Documents,
         Executions, Reports
<1>2. CASE CaptureFailure
  <2>1. /\ stage.at = "none" /\ pc = "upload" /\ action = "mncs-test"
        /\ outputs.verdict = "FAIL"
        /\ DebugScript(debugCheck, debugCheck')
        /\ stage' = [stage EXCEPT !.at = "captured"]
        /\ UNCHANGED accepted
    BY <1>2 DEF CaptureFailure, DebugDue, TestFailed
  <2>2. exitCode # "unset"
    <3>1. NoOutputs.verdict = ""
      BY DEF NoOutputs
    <3>2. QED
      BY <2>1, <3>1 DEF Packaged, Stages
  <2>3. /\ detailed = NoFile \/ detailed.by = execution
                             \/ Slipped(execution, "report")
        /\ debugCheck.kind # "document" \/ debugCheck.by < execution
        /\ debugCheck \in Documents
    BY <2>1, <2>2 DEF Debugged, Reported, ScriptTypes
  <2>4. debugCheck'.kind = "document" => Explains(debugCheck, execution)'
    BY <1>1, <2>1, <2>3, ScriptExplains DEF Explains
  <2>5. slips \subseteq slips'
    BY <2>1 DEF DebugScript, Decline, CaptureNothing, WriteUnknown, Slip,
                Reject, Diagnose
  <2>6. ScriptTypes'
    BY <1>1, <2>1, <2>3, DebugScriptTypes DEF ScriptTypes
  <2>7. StageTypes' /\ stage'.at = "captured" /\ stage'.outcome = stage.outcome
    BY <2>1 DEF Debugged, StageTypes
  <2>8. DebugIsOfThisFailure' /\ Reported'
    BY <1>1, <2>1, <2>5 DEF Debugged, DebugIsOfThisFailure, Reported, Slipped
  <2>9. QED
    BY <1>1, <2>1, <2>4, <2>5, <2>6, <2>7, <2>8 DEF Debugged, SlipsStay
<1>3. CASE PackageDebug
  <2>1. /\ stage.at = "captured"
        /\ UNCHANGED <<debugCheck, accepted, slips, witness, diagnosis>>
        /\ stage'.at = "packaged" /\ StageTypes'
        /\ stage'.outcome = "success" => /\ debugCheck.kind = "document"
                                         /\ stage'.verdict = debugCheck.verdict
    <3>1. debugCheck.kind = "document" => debugCheck.verdict \in Verdicts
      BY DocumentKinds DEF ScriptTypes
    <3>2. CASE /\ debugCheck.kind = "document"
               /\ stage' = [at |-> "packaged", outcome |-> "success",
                            verdict |-> debugCheck.verdict]
      BY <1>3, <3>1, <3>2 DEF PackageDebug, StageTypes
    <3>3. CASE stage' = [NoStage EXCEPT !.at = "packaged", !.outcome = "failure"]
      <4>1. stage' = [at |-> "packaged", outcome |-> "failure", verdict |-> ""]
        BY <3>3 DEF NoStage
      <4>2. QED
        BY <1>3, <4>1 DEF PackageDebug, StageTypes
    <3>4. QED
      BY <1>3, <3>2, <3>3 DEF PackageDebug
  <2>2. QED
    BY <1>1, <2>1 DEF Debugged, Reported, Explains, Slipped,
       DebugIsOfThisFailure, ScriptTypes, SlipsStay
<1>4. CASE JudgeDebug
  <2>1. /\ stage.at = "packaged"
        /\ UNCHANGED <<debugCheck, slips, witness, diagnosis>>
        /\ stage' = [stage EXCEPT !.at = "judged"]
        /\ accepted' = IF stage.outcome = "success" /\ stage.verdict = "PASS"
                       THEN accepted \cup {[execution |-> execution,
                                            check |-> debugCheck]}
                       ELSE accepted
    BY <1>4 DEF JudgeDebug, JudgeDue
  <2>2. /\ StageTypes' /\ stage'.at = "judged"
        /\ stage'.outcome = stage.outcome /\ stage'.verdict = stage.verdict
    BY <2>1 DEF Debugged, StageTypes
  <2>3. stage.outcome = "success" /\ stage.verdict = "PASS" =>
           debugCheck.verdict = "PASS" /\ Explains(debugCheck, execution)
    BY <2>1 DEF Debugged
  <2>4. DebugIsOfThisFailure'
    <3>1. CASE accepted' = accepted
      BY <2>1, <3>1 DEF Debugged, DebugIsOfThisFailure, Slipped
    <3>2. CASE /\ stage.outcome = "success" /\ stage.verdict = "PASS"
               /\ accepted' = accepted \cup {[execution |-> execution,
                                              check |-> debugCheck]}
      <4>1. ASSUME NEW a \in accepted'
            PROVE  a.check.verdict = "PASS" /\ Explains(a.check, a.execution)
        BY <2>3, <3>2 DEF Debugged, DebugIsOfThisFailure, Explains
      <4>2. QED
        BY <2>1, <4>1 DEF DebugIsOfThisFailure, Explains, Slipped
    <3>3. QED
      BY <2>1, <3>1, <3>2
  <2>5. Reported' /\ ScriptTypes' /\ SlipsStay
    BY <1>1, <2>1 DEF Debugged, Reported, Slipped, ScriptTypes, SlipsStay
  <2>6. QED
    BY <1>1, <2>1, <2>2, <2>4, <2>5 DEF Debugged
<1>5. QED
  BY <1>2, <1>3, <1>4
-----------------------------------------------------------------------------
(* The invariant of a job.                                                 *)

JobInv == /\ Types /\ ScriptTypes
          /\ Packaged /\ Fresh /\ Uploads /\ Gates
          /\ Debugged

\* Steps of the debug stage leave the packaging's variables and their types.
LEMMA TypesStay ==
    ASSUME Types, UNCHANGED vars
    PROVE  Types'
<1>1. /\ UNCHANGED <<action, failOnFail, failOnUnknown, execution, pc, result>>
      /\ UNCHANGED <<exitCode, dir, outcome, outputs, uploaded, green, died>>
      /\ Documents' = Documents /\ Executions' = Executions
  BY DEF vars, inputs, Documents, Executions
<1>2. TypeOK'
  BY <1>1 DEF Types, TypeOK
<1>3. Established(result)' <=> Established(result)
  BY <1>1 DEF Established
<1>4. QED
  BY <1>1, <1>2, <1>3 DEF Types

\* A job starts with nothing written.
LEMMA InitJob ==
    JobInit => JobInv
<1> SUFFICES ASSUME JobInit PROVE JobInv
  OBVIOUS
<1>1. /\ action \in Actions /\ failOnFail \in BOOLEAN /\ failOnUnknown \in BOOLEAN
      /\ execution = 1 /\ pc = "provider" /\ result = NoFile
      /\ exitCode = "unset" /\ dir = EmptyDir /\ outcome = "none"
      /\ outputs = NoOutputs /\ uploaded = << >> /\ green = {} /\ died = {}
  BY DEF JobInit, Init
<1>2. NoFile.kind = "none" /\ NoFile \in Documents /\ NoFile \in AllDocuments
      /\ NoFile \in Receipts /\ NoFile \in Manifests
  BY DEF NoFile, Documents, AllDocuments, Receipts, Manifests
<1>3. /\ dir.check = NoFile /\ dir.observed = NoFile
      /\ dir.receipt = NoFile /\ dir.manifest = NoFile
      /\ dir \in Directories
  BY <1>1, <1>2 DEF EmptyDir, Directories
<1>4. execution \in 1 .. MaxExecutions
  <2>1. MaxExecutions \in Nat \ {0}
    BY PackagingAssumption
  <2>2. QED
    BY <1>1, <2>1
<1>5. TypeOK
  BY <1>1, <1>2, <1>3, <1>4 DEF TypeOK
<1>6. Types
  <2>1. NoOutputs.verdict = ""
    BY DEF NoOutputs
  <2>2. uploaded \in Seq(Directories) /\ Len(uploaded) = 0
    BY <1>1
  <2>3. Len(uploaded) = IF pc \in {"gate", "done"} THEN execution
                        ELSE execution - 1
    BY <1>1, <2>2
  <2>4. outputs.verdict \in Verdicts \cup {"", "INVALID"}
    BY <1>1, <2>1
  <2>5. pc \in Positions /\ pc \notin {"copy", "receipt", "manifest", "outputs"}
    BY <1>1 DEF Positions
  <2>6. QED
    BY <1>3, <1>5, <2>2, <2>3, <2>4, <2>5 DEF Types
<1>7. ScriptTypes
  <2>1. \A v \in Verdicts : Report(v) \in Reports
    BY <1>1 DEF Report, Reports, Executions
  <2>2. detailed \in Reports
    BY <2>1 DEF JobInit, ScriptsInit, Reports
  <2>3. QED
    BY <1>2, <2>2 DEF JobInit, ScriptsInit, ScriptTypes
<1>8. Packaged
  BY <1>1, <1>2, <1>3 DEF Packaged, Stages, Sound, Kept
<1>9. Fresh /\ Uploads /\ Gates
  BY <1>1 DEF Fresh, Uploads, Gates, GreenIsPackaged, GreenIsFresh
<1>10. Debugged
  <2>1. stage = NoStage /\ debugCheck = NoFile /\ accepted = {}
    BY DEF JobInit, ScriptsInit
  <2>2. StageTypes /\ stage.at = "none" /\ stage.outcome = "none"
    BY <2>1 DEF StageTypes, NoStage
  <2>3. QED
    BY <1>1, <1>2, <2>1, <2>2 DEF Debugged, Reported, DebugIsOfThisFailure
<1>11. QED
  BY <1>6, <1>7, <1>8, <1>9, <1>10 DEF JobInv

\* The invariant, step by step.
LEMMA ProviderJob ==
    ASSUME JobInv, AnyProvider
    PROVE  JobInv'
<1>1. ProviderEnds /\ ScriptTypes' /\ Fresh' /\ SlipsStay /\ Debugged'
  BY ProvidersEnd, ProviderFresh, ProviderDebugged DEF JobInv
<1>2. Types' /\ Packaged'
  BY <1>1, ProviderTypes, ProviderPackaged DEF JobInv
<1>3. Uploads' /\ Gates'
  BY <1>1, ArtifactsStay DEF JobInv, ProviderEnds, SlipsStay, Uploads
<1>4. QED
  BY <1>1, <1>2, <1>3 DEF JobInv

\* Steps of the packaging, the upload and the gate.
LEMMA PackagingJob ==
    ASSUME JobInv, PackagingSteps, UNCHANGED scriptVars
    PROVE  JobInv'
<1>1. Types' /\ Packaged' /\ Uploads' /\ Gates'
  BY PackagingTypes, PackagingPackaged, PackagingUploads DEF JobInv
<1>2. /\ UNCHANGED <<action, execution, result, exitCode>>
      /\ pc # "provider" /\ pc' # "provider"
      /\ pc \in {"upload", "gate", "done"} => pc' \in {"upload", "gate", "done"}
  BY DEF PackagingSteps, RefuseToPackage, Validate, CopyResult, WriteReceipt,
         WriteManifest, WriteOutputs, Observe, WriteNegativeReceipt,
         PackagingDies, Written, Gate, Upload, inputs
<1>3. Documents' = Documents /\ Executions' = Executions /\ Reports' = Reports
  BY <1>2 DEF Documents, Executions, Reports
<1>4. ScriptTypes' /\ Fresh'
  BY <1>2, <1>3 DEF JobInv, ScriptTypes, scriptVars, Fresh, FreshOf, Scripted,
                    Slipped
<1>5. Debugged'
  BY <1>2 DEF JobInv, Debugged, StageTypes, Reported, Explains, Slipped,
              DebugIsOfThisFailure, scriptVars
<1>6. QED
  BY <1>1, <1>4, <1>5 DEF JobInv

\* Steps of the debug stage.
LEMMA StageJob ==
    ASSUME JobInv, CaptureFailure \/ PackageDebug \/ JudgeDebug
    PROVE  JobInv'
<1>1. UNCHANGED vars
  BY DEF CaptureFailure, PackageDebug, JudgeDebug
<1>2. Debugged' /\ ScriptTypes' /\ slips \subseteq slips'
  BY StageDebugged DEF JobInv, SlipsStay
<1>3. Types'
  BY <1>1, TypesStay DEF JobInv
<1>4. Packaged'
  BY <1>1, PackagedStays DEF JobInv
<1>5. Fresh'
  BY <1>1, <1>2 DEF JobInv, Fresh, FreshOf, Scripted, Slipped, vars, inputs
<1>6. Uploads' /\ Gates'
  BY <1>1, <1>2, ArtifactsStay DEF JobInv, vars, Uploads
<1>7. QED
  BY <1>2, <1>3, <1>4, <1>5, <1>6 DEF JobInv

\* The action is used again: what was there is of an earlier execution.
LEMMA NextJob ==
    ASSUME JobInv, NextUse
    PROVE  JobInv'
<1>1. /\ NextExecution /\ pc = "done" /\ pc' = "provider"
      /\ execution' = execution + 1 /\ execution < MaxExecutions
      /\ UNCHANGED <<inputs, action, result, dir, uploaded, green, died>>
      /\ UNCHANGED <<witness, diagnosis, debugCheck, accepted, slips>>
      /\ stage' = NoStage
  BY DEF NextUse, NextExecution, inputs
<1>2. execution \in Nat \ {0} /\ MaxExecutions \in Nat
  BY ExecutionIs, PackagingAssumption DEF JobInv
<1>3. /\ Documents \subseteq Documents'
      /\ Executions \subseteq Executions' /\ execution' \in Executions'
      /\ Reports \subseteq Reports'
  BY <1>1, <1>2, DocumentsGrow DEF Executions, Reports
<1>4. Types'
  <2>1. /\ exitCode' = "unset" /\ outcome' = "none" /\ outputs' = NoOutputs
        /\ UNCHANGED <<failOnFail, failOnUnknown>>
    BY <1>1 DEF NextExecution, inputs
  <2>2. NoOutputs.verdict = ""
    BY DEF NoOutputs
  <2>3. execution' \in 1 .. MaxExecutions
    BY <1>1, <1>2
  <2>4. Len(uploaded) = execution /\ uploaded \in Seq(Directories)
    BY <1>1 DEF JobInv, Types
  <2>5. Len(uploaded') = execution' - 1
    BY <1>1, <1>2, <2>4
  <2>6. TypeOK'
    BY <1>1, <1>3, <2>1, <2>3, <2>5 DEF JobInv, Types, TypeOK
  <2>7. QED
    BY <1>1, <2>1, <2>2, <2>4, <2>5, <2>6 DEF JobInv, Types, Positions
<1>5. ScriptTypes'
  <2>1. \A v \in Verdicts : [Report(v) EXCEPT !.by = execution'] \in Reports'
    BY <1>3 DEF Report, Reports
  <2>2. detailed' \in Reports'
    BY <1>3, <2>1 DEF JobInv, ScriptTypes, NextUse
  <2>3. QED
    BY <1>1, <1>3, <2>2 DEF JobInv, ScriptTypes
<1>6. Packaged'
  BY <1>1, NextPackaged DEF JobInv
<1>7. Fresh' /\ Uploads' /\ Gates'
  BY <1>1, ArtifactsStay DEF JobInv, Fresh, Uploads
<1>8. Debugged'
  <2>1. StageTypes' /\ stage'.at = "none" /\ stage'.outcome = "none"
    BY <1>1 DEF StageTypes, NoStage
  <2>2. debugCheck.kind = "document" => debugCheck.by < execution'
    <3>1. debugCheck \in Documents
      BY DEF JobInv, ScriptTypes
    <3>2. debugCheck.kind = "document" => debugCheck.by \in 1 .. execution
      BY <3>1 DEF Documents, Executions, NoFile, Torn
    <3>3. QED
      BY <1>1, <1>2, <3>2
  <2>3. QED
    BY <1>1, <2>1, <2>2 DEF JobInv, Debugged, Reported, DebugIsOfThisFailure,
                            Slipped
<1>9. QED
  BY <1>4, <1>5, <1>6, <1>7, <1>8 DEF JobInv

-----------------------------------------------------------------------------
(* The theorems.                                                           *)

\* The invariant holds of every job, whatever its programs do.
THEOREM JobIsKept == JobSpec => []JobInv
<1>1. JobInit => JobInv
  BY InitJob
<1>2. JobInv /\ [JobNext]_jobVars => JobInv'
  <2> SUFFICES ASSUME JobInv, [JobNext]_jobVars PROVE JobInv'
    OBVIOUS
  <2>1. CASE UNCHANGED jobVars
    <3>1. UNCHANGED vars /\ UNCHANGED scriptVars
      BY <2>1 DEF jobVars
    <3>2. Types' /\ ScriptTypes'
      BY <3>1, TypesStay DEF JobInv, ScriptTypes, vars, scriptVars, Documents,
                             Executions, Reports
    <3>3. Packaged'
      BY <3>1, PackagedStays DEF JobInv
    <3>4. Fresh' /\ Uploads' /\ Gates'
      BY <3>1, ArtifactsStay
         DEF JobInv, Fresh, FreshOf, Scripted, Slipped, vars, inputs,
             scriptVars, Uploads
    <3>5. Debugged'
      BY <3>1 DEF JobInv, Debugged, StageTypes, Reported, Explains, Slipped,
                  DebugIsOfThisFailure, vars, inputs, scriptVars
    <3>6. QED
      BY <3>2, <3>3, <3>4, <3>5 DEF JobInv
  <2>2. CASE AnyProvider
    BY <2>2, ProviderJob
  <2>3. CASE PackagingSteps /\ UNCHANGED scriptVars
    BY <2>3, PackagingJob
  <2>4. CASE CaptureFailure \/ PackageDebug \/ JudgeDebug
    BY <2>4, StageJob
  <2>5. CASE NextUse
    BY <2>5, NextJob
  <2>6. QED
    BY <2>1, <2>2, <2>3, <2>4, <2>5
       DEF JobNext, Packaging, AnyProvider, PackagingSteps
<1>3. QED
  BY <1>1, <1>2, PTL DEF JobSpec
\* Every variable has its type in every job; only good results are copied as
\* the check.
THEOREM TypeCorrect == JobSpec => []TypeOK
<1>1. JobInv => TypeOK
  BY DEF JobInv, Types
<1>2. QED
  BY <1>1, JobIsKept, PTL

\* Whatever dies and is left over, an artifact that validate accepts carries
\* the manifest and the receipt of one execution (cmd_validate over the files
\* of run_check.sh and verify.sh).
THEOREM AcceptedIsOne == JobSpec => []AcceptedIsOneExecution
<1>1. Uploads => AcceptedIsOneExecution
  <2> SUFFICES ASSUME Uploads, NEW k \in DOMAIN uploaded, Accepts(uploaded[k])
               PROVE  LET a == uploaded[k] IN
                      /\ a.receipt.claim = "ESTABLISHED"
                      /\ a.receipt.by = a.manifest.by
                      /\ a.receipt.verdict = a.manifest.verdict
                      /\ a.receipt.produced = {a.manifest.check}
    BY DEF AcceptedIsOneExecution
  <2> DEFINE a == uploaded[k]
  <2>1. Sound(a.manifest)
    BY DEF Uploads
  <2>2. a.manifest.kind = "manifest" /\ a.manifest.receipt \in {NoFile, a.receipt}
    BY DEF Accepts
  <2>3. NoFile.kind = "none"
    BY DEF NoFile
  <2>4. a.manifest.receipt = a.receipt
    BY <2>1, <2>2, <2>3 DEF Sound
  <2>5. QED
    BY <2>1, <2>2, <2>4 DEF Sound
<1>2. QED
  BY <1>1, JobIsKept, PTL DEF JobInv

\* The check next to an accepted manifest is the one it was made for, unless
\* a packaging step died after it had replaced the check.
THEOREM AcceptedCheckIsIts == JobSpec => []AcceptedCheckIsTheManifests
<1>1. Uploads => AcceptedCheckIsTheManifests
  <2> SUFFICES ASSUME Uploads, NEW k \in DOMAIN uploaded, Accepts(uploaded[k])
               PROVE  \/ uploaded[k].check = uploaded[k].manifest.check
                      \/ "receipt" \in died
                      \/ action = "verify" /\ "copy" \in died
    BY DEF AcceptedCheckIsTheManifests
  <2> DEFINE a == uploaded[k]
  <2>1. Sound(a.manifest) /\ Kept(a)
    BY DEF Uploads
  <2>2. /\ a.manifest.kind = "manifest"
        /\ a.manifest.receipt \in {NoFile, a.receipt}
        /\ action # "verify" /\ a.check # NoFile => a.check.kind = "document"
    BY DEF Accepts, StagedCheck
  <2>3. NoFile.kind = "none" /\ Torn.kind = "torn"
    BY DEF NoFile, Torn
  <2>4. a.manifest.receipt = a.receipt
    BY <2>1, <2>2, <2>3 DEF Sound
  <2>5. QED
    BY <2>1, <2>2, <2>3, <2>4 DEF Kept
<1>2. QED
  BY <1>1, JobIsKept, PTL DEF JobInv

\* A gate lets an execution pass only on its own complete packaging and an
\* admitted verdict (the gate steps of the four actions).
THEOREM GatesArePackaged == JobSpec => []GreenIsPackaged
<1>1. JobInv => GreenIsPackaged
  BY DEF JobInv, Gates
<1>2. QED
  BY <1>1, JobIsKept, PTL

\* No script of the repository lets an earlier use's check pass for this
\* one's (test.sh of mncs-test and mncs-debug, emit_obligation_check.py).
THEOREM GatesAreFresh == JobSpec => []GreenIsFresh
<1>1. JobInv => GreenIsFresh
  BY DEF JobInv, Gates
<1>2. QED
  BY <1>1, JobIsKept, PTL

\* Debug evidence a required gate accepted explains the failure at hand
\* (the debug stage of mncs-test).
THEOREM DebugEvidenceExplains == JobSpec => []DebugIsOfThisFailure
<1>1. JobInv => DebugIsOfThisFailure
  BY DEF JobInv, Debugged
<1>2. QED
  BY <1>1, JobIsKept, PTL

=============================================================================
