-------------------------- MODULE EvidencePackaging --------------------------
(***************************************************************************)
(* The evidence of one job: a composite action (verify, run-check,         *)
(* mncs-test or mncs-debug) is used several times on the same result file  *)
(* and the same evidence directory, as the default inputs make it.  Each   *)
(* use runs a provider, validates and packages what it left (verify.sh,    *)
(* run_check.sh), uploads the directory whatever happened, and applies a   *)
(* gate.  The files are written one after the other, and the packaging     *)
(* step may die between any two writes; nothing is ever cleaned up.        *)
(*                                                                         *)
(* The providers of verify and run-check are any commands.  Those that the *)
(* repository scripts itself, and the steps they add to an action, are in  *)
(* ProviderScripts, which composes the steps of a job.                     *)
(*                                                                         *)
(* A SHA-256 digest is represented by the content it is the digest of.     *)
(***************************************************************************)
EXTENDS Integers, Sequences, FiniteSets

CONSTANTS
    Actions,        \* the composite actions a job may use; "obligation" is
                    \* run-check with emit_obligation_check.py as command
    MaxExecutions   \* bound: uses of the action in the job

ASSUME PackagingAssumption ==
    /\ Actions \subseteq {"verify", "run-check", "obligation",
                          "mncs-test", "mncs-debug"}
    /\ MaxExecutions \in Nat \ {0}

VARIABLES
    action,        \* the composite action of the job
    failOnFail,    \* input fail-on-fail
    failOnUnknown, \* input fail-on-unknown
    execution,     \* number of the current use of the action
    pc,            \* the step it is at
    result,        \* the result file the provider writes
    exitCode,      \* output exit-code of the provider step
    dir,           \* the evidence directory
    outcome,       \* outcome of the packaging step
    outputs,       \* outputs of the packaging step
    uploaded,      \* uploaded[k]: the artifact of execution k
    green,         \* the executions whose gate succeeded
    died           \* history: where a packaging step died

inputs == <<action, failOnFail, failOnUnknown>>
vars == <<inputs, execution, pc, result, exitCode, dir, outcome, outputs,
          uploaded, green, died>>

-----------------------------------------------------------------------------
(* The documents.                                                          *)

NoFile == [kind |-> "none"]

\* A file whose writing was cut short.
Torn == [kind |-> "torn"]

\* What debug evidence is about, as the executions its parts are from.
Unrelated == [test |-> 0, witness |-> 0, diagnosis |-> 0]

\* What a provider writes.  One with the wrong id is well-formed, but not
\* the check that was expected.
Document(by, quality, verdict) ==
    [kind |-> "document", by |-> by, quality |-> quality, verdict |-> verdict,
     about |-> Unrelated]

\* build_execution_receipt
Receipt(claim, verdict, files) ==
    [kind |-> "receipt", by |-> execution, claim |-> claim,
     verdict |-> verdict, exit |-> exitCode, produced |-> files]

\* A bug to tell apart: the manifest does not refer to the receipt.
ManifestAlone(verdict, check, receipt) ==
    [kind |-> "manifest", by |-> execution, verdict |-> verdict,
     exit |-> exitCode, check |-> check, receipt |-> NoFile]

\* build_evidence_manifest: its claim_status is always ESTABLISHED.
Manifest(verdict, check, receipt) ==
    [kind |-> "manifest", by |-> execution, verdict |-> verdict,
     exit |-> exitCode, check |-> check, receipt |-> receipt]

EmptyDir == [check |-> NoFile, observed |-> NoFile,
             receipt |-> NoFile, manifest |-> NoFile]

NoOutputs == [verdict |-> "", claim |-> ""]

-----------------------------------------------------------------------------
Init ==
    /\ action \in Actions
    /\ failOnFail \in BOOLEAN /\ failOnUnknown \in BOOLEAN
    /\ execution = 1
    /\ pc = "provider"
    /\ result = NoFile
    /\ exitCode = "unset"
    /\ dir = EmptyDir
    /\ outcome = "none"
    /\ outputs = NoOutputs
    /\ uploaded = << >>
    /\ green = {}
    /\ died = {}

\* verify.sh expects no particular id.
Qualities == IF action = "verify" THEN {"good", "malformed"}
             ELSE {"good", "wrong_id", "malformed"}

\* The provider writes a result of its own, removes the file or leaves what
\* it finds.  A command that ends the step's shell leaves no exit-code.
RunProvider ==
    /\ pc = "provider" /\ action \in {"verify", "run-check"}
    /\ \/ \E q \in Qualities, v \in {"PASS", "FAIL", "UNKNOWN"} :
             result' = Document(execution, q, v)
       \/ result' \in {result, NoFile}
    /\ exitCode' \in {"ok", "error", "unset"}
    /\ pc' = "package"
    /\ UNCHANGED <<inputs, execution, dir, outcome, outputs, uploaded,
                   green, died>>

\* Without an exit code nothing is packaged.
RefuseToPackage ==
    /\ pc = "package" /\ exitCode = "unset"
    /\ outcome' = "failure"
    /\ pc' = "upload"
    /\ UNCHANGED <<inputs, execution, result, exitCode, dir, outputs,
                   uploaded, green, died>>

\* A bug to tell apart: the result is copied before it is validated.
CopyThenValidate ==
    /\ pc = "package" /\ exitCode # "unset"
    /\ dir' = [dir EXCEPT !.check = result]
    /\ pc' = IF result.kind = "document" /\ result.quality = "good"
             THEN "copy" ELSE "observe"
    /\ UNCHANGED <<inputs, execution, result, exitCode, outcome, outputs,
                   uploaded, green, died>>

\* load_result_file and the validators decide which way to go.
Validate ==
    /\ pc = "package" /\ exitCode # "unset"
    /\ pc' = IF result.kind = "document" /\ result.quality = "good"
             THEN "copy" ELSE "observe"
    /\ UNCHANGED <<inputs, execution, result, exitCode, dir, outcome,
                   outputs, uploaded, green, died>>

\* An established claim: copy, receipt, manifest, outputs, in this order.
CopyResult ==
    /\ pc = "copy"
    /\ dir' = [dir EXCEPT !.check = result]
    /\ pc' = "receipt"
    /\ UNCHANGED <<inputs, execution, result, exitCode, outcome, outputs,
                   uploaded, green, died>>

WriteReceipt ==
    /\ pc = "receipt"
    /\ dir' = [dir EXCEPT !.receipt =
                  Receipt("ESTABLISHED", result.verdict, {dir.check})]
    /\ pc' = "manifest"
    /\ UNCHANGED <<inputs, execution, result, exitCode, outcome, outputs,
                   uploaded, green, died>>

WriteManifest ==
    /\ pc = "manifest"
    /\ dir' = [dir EXCEPT !.manifest =
                  Manifest(result.verdict, dir.check, dir.receipt)]
    /\ pc' = "outputs"
    /\ UNCHANGED <<inputs, execution, result, exitCode, outcome, outputs,
                   uploaded, green, died>>

WriteOutputs ==
    /\ pc = "outputs"
    /\ outputs' = [verdict |-> result.verdict, claim |-> "ESTABLISHED"]
    /\ outcome' = "success"
    /\ pc' = "upload"
    /\ UNCHANGED <<inputs, execution, result, exitCode, dir, uploaded,
                   green, died>>

\* A claim that is not established: the observed bytes are preserved, if
\* there are any and the copy succeeds (an OSError is only a warning) ...
Observe ==
    /\ pc = "observe"
    /\ \/ dir' = [dir EXCEPT !.observed =
                     IF result = NoFile THEN @ ELSE result]
       \/ /\ result # NoFile
          /\ dir' = [dir EXCEPT !.observed = Torn]
    /\ pc' = "negative"
    /\ UNCHANGED <<inputs, execution, result, exitCode, outcome, outputs,
                   uploaded, green, died>>

\* ... and a receipt that claims nothing is written, without a manifest.
WriteNegativeReceipt ==
    /\ pc = "negative"
    /\ dir' = [dir EXCEPT !.receipt =
                  Receipt("NOT_ESTABLISHED", "NONE",
                          ({result} \cap {dir.observed}) \ {NoFile})]
    /\ outputs' = [verdict |-> "INVALID", claim |-> "NOT_ESTABLISHED"]
    /\ outcome' = "failure"
    /\ pc' = "upload"
    /\ UNCHANGED <<inputs, execution, result, exitCode, uploaded, green,
                   died>>

\* The file a packaging step is writing at each of its positions.
Written == [copy |-> "check", receipt |-> "receipt",
            manifest |-> "manifest", negative |-> "receipt"]

\* The packaging step dies (a full disk, a step timeout): before a write,
\* or in the middle of it.
PackagingDies ==
    /\ pc \in DOMAIN Written
    /\ dir' \in {dir, [dir EXCEPT ![Written[pc]] = Torn]}
    /\ outcome' = "failure"
    /\ died' = died \cup {pc}
    /\ pc' = "upload"
    /\ UNCHANGED <<inputs, execution, result, exitCode, outputs, uploaded,
                   green>>

\* if: always() - the directory is uploaded as it is.
Upload ==
    /\ pc = "upload"
    /\ uploaded' = Append(uploaded, dir)
    /\ pc' = "gate"
    /\ UNCHANGED <<inputs, execution, result, exitCode, dir, outcome,
                   outputs, green, died>>

\* The actions that let a FAIL through with a warning when they are told to.
Deferring == {"run-check", "obligation", "mncs-test"}

\* A bug to tell apart: no gate looks at the exit code.
GateIgnoresExit ==
    /\ outcome = "success" /\ outputs.claim = "ESTABLISHED"
    /\ \/ outputs.verdict = "PASS"
       \/ outputs.verdict = "UNKNOWN" /\ ~failOnUnknown
       \/ /\ outputs.verdict = "FAIL" /\ ~failOnFail
          /\ action \in Deferring

\* What the gates accept.  verify always rejects FAIL, mncs-debug knows none
\* and does not look at the exit code.
GateAccepts ==
    /\ outcome = "success" /\ outputs.claim = "ESTABLISHED"
    /\ action # "mncs-debug" => exitCode = "ok"
    /\ \/ outputs.verdict = "PASS"
       \/ outputs.verdict = "UNKNOWN" /\ ~failOnUnknown
       \/ /\ outputs.verdict = "FAIL" /\ ~failOnFail
          /\ action \in Deferring

\* if: always() - the gate decides; the job may use the action again.
Gate ==
    /\ pc = "gate"
    /\ green' = IF GateAccepts THEN green \cup {execution} ELSE green
    /\ pc' = "done"
    /\ UNCHANGED <<inputs, execution, result, exitCode, dir, outcome,
                   outputs, uploaded, died>>

NextExecution ==
    /\ pc = "done" /\ execution < MaxExecutions
    /\ execution' = execution + 1
    /\ pc' = "provider"
    /\ exitCode' = "unset"
    /\ outcome' = "none"
    /\ outputs' = NoOutputs
    /\ UNCHANGED <<inputs, result, dir, uploaded, green, died>>

-----------------------------------------------------------------------------
(* The reader of an artifact: bin/mncs-actions-remote validate.            *)

\* The file it expects the check in; verify packages under another name.
StagedCheck(a) == IF action = "verify" THEN NoFile ELSE a.check

\* cmd_validate: both documents are there and well-formed, the manifest's
\* reference, if it has one, is the digest of the receipt, and the check, if
\* there is one, is well-formed.
Accepts(a) ==
    /\ a.receipt.kind = "receipt"
    /\ a.manifest.kind = "manifest"
    /\ a.manifest.receipt \in {NoFile, a.receipt}
    /\ StagedCheck(a) # NoFile =>
          /\ StagedCheck(a).kind = "document"
          /\ StagedCheck(a).quality # "malformed"

-----------------------------------------------------------------------------
(* Properties                                                              *)

Executions == 1 .. execution

Documents == {NoFile, Torn} \cup
    [kind : {"document"}, by : Executions,
     quality : {"good", "wrong_id", "malformed"},
     verdict : {"PASS", "FAIL", "UNKNOWN"},
     about : [test : 0 .. execution, witness : 0 .. execution,
              diagnosis : 0 .. execution]]

\* Every variable has its type; only good results are copied as the check.
TypeOK ==
    /\ action \in Actions
    /\ execution \in 1 .. MaxExecutions
    /\ result \in Documents
    /\ {dir.check, dir.observed} \subseteq Documents
    /\ dir.check.kind = "document" => dir.check.quality = "good"
    /\ dir.receipt.kind \in {"none", "torn", "receipt"}
    /\ dir.manifest.kind \in {"none", "torn", "manifest"}
    /\ outcome \in {"none", "success", "failure"}
    /\ exitCode \in {"ok", "error", "unset"}
    /\ Len(uploaded) \in {execution - 1, execution}
    /\ green \subseteq Executions

\* An artifact that validate accepts carries the manifest and the receipt of
\* ONE execution, whose claim was established, with one verdict: a manifest
\* left over by an earlier execution is never accepted next to the receipt of
\* a later one, established or not, wherever the later one stopped.
AcceptedIsOneExecution ==
    \A k \in DOMAIN uploaded :
        LET a == uploaded[k] IN
        Accepts(a) =>
            /\ a.receipt.claim = "ESTABLISHED"
            /\ a.receipt.by = a.manifest.by
            /\ a.receipt.verdict = a.manifest.verdict
            /\ a.receipt.produced = {a.manifest.check}

\* The check validate projects next to the manifest's verdict is the one the
\* manifest was made for, unless a packaging step died right after it had
\* replaced the check (or, of verify, whose result validate does not open,
\* while it did): validate does not compare the two.
AcceptedCheckIsTheManifests ==
    \A k \in DOMAIN uploaded :
        Accepts(uploaded[k]) =>
            \/ uploaded[k].check = uploaded[k].manifest.check
            \/ "receipt" \in died
            \/ action = "verify" /\ "copy" \in died

\* A gate lets an execution pass only if its own packaging is complete in its
\* artifact, the provider was seen to exit (with success, except for
\* mncs-debug), and the verdict is one the inputs tolerate: neither leftovers
\* nor a half-written directory turn a gate green.
GreenIsPackaged ==
    \A k \in green :
        LET a == uploaded[k] IN
        /\ Accepts(a) /\ a.receipt.by = k
        /\ a.check = a.manifest.check
        /\ a.receipt.exit = "ok"
        /\ a.manifest.verdict = "FAIL" =>
              action \in Deferring /\ ~failOnFail
        /\ a.manifest.verdict = "UNKNOWN" => ~failOnUnknown
=============================================================================
