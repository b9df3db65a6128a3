--------------------------- MODULE ProviderScripts ---------------------------
(***************************************************************************)
(* The scripts this repository puts between an action and its provider:    *)
(* mncs-test/test.sh around the test runner, mncs-debug/test.sh around the *)
(* debugger, and emit_obligation_check.py around a host command.  They own *)
(* the paths on which the provider did not answer.  Runner, debugger and   *)
(* host command are any programs; their files, like those of the           *)
(* packaging, stay from one use of the action to the next.                 *)
(*                                                                         *)
(* A FAIL of mncs-test is followed by the debug stage: the debugger is run *)
(* on the test result, its check is packaged, and a gate of its own may    *)
(* require it.  The module composes these steps with EvidencePackaging.    *)
(***************************************************************************)
EXTENDS EvidencePackaging

VARIABLES
    debugging,  \* inputs debug-on-failure, debug-required: "off", "on" or
                \* "required"
    capture,    \* input capture-policy: "disabled" (or what the script
                \* refuses), "failure-only" or "bounded"
    detailed,   \* the detailed test result
    witness,    \* the debugger's witness: the execution it was captured in
    diagnosis,  \* the debugger's diagnosis of it
    debugCheck, \* the check file of the debug stage
    stage,      \* where the debug stage is, and how its packaging ended
    accepted,   \* the debug checks that required debug gates accepted
    slips       \* history: which provider kept silent in which execution

scriptVars == <<debugging, capture, detailed, witness, diagnosis, debugCheck,
                stage, accepted, slips>>
jobVars == <<vars, scriptVars>>

\* What a provider step leaves alone.
packagingVars == <<inputs, execution, dir, outcome, outputs, uploaded, green,
                   died, debugging, capture, debugCheck, stage, accepted>>

Verdicts == {"PASS", "FAIL", "UNKNOWN"}

Unknown == Document(execution, "good", "UNKNOWN")

\* A detailed test result.
Report(verdict) == [kind |-> "report", by |-> execution, verdict |-> verdict]

Slip(which) == slips' = slips \cup {<<execution, which>>}

NoStage == [at |-> "none", outcome |-> "none", verdict |-> ""]

-----------------------------------------------------------------------------
(* mncs-test/test.sh                                                       *)

\* write_start_failure writes the detailed result and then the check; it may
\* fail to write either, and the script goes on.
StartFailure(check, report) ==
    \/ result' = Unknown /\ detailed' = Report("UNKNOWN")
    \/ result' = check /\ detailed' \in {Report("UNKNOWN"), report}

\* The inputs contradict each other or the toolchain does not build: the
\* script writes UNKNOWN in the runner's place and exits with an error.
RefuseToTest ==
    /\ pc = "provider" /\ action = "mncs-test"
    /\ StartFailure(result, detailed)
    /\ IF detailed' = Report("UNKNOWN") THEN UNCHANGED slips ELSE Slip("report")
    /\ exitCode' = "error"
    /\ pc' = "package"
    /\ UNCHANGED <<packagingVars, witness, diagnosis>>

\* The runner writes its check, its detailed result, both or neither, and
\* exits as it likes.  The script looks only for a detailed result, whichever
\* execution it is of, and writes UNKNOWN over the check when there is none.
RunTests ==
    /\ pc = "provider" /\ action = "mncs-test"
    /\ \E q \in {"good", "malformed"}, v \in Verdicts,
          wrote \in SUBSET {"check", "report"}, exit \in {"ok", "error"} :
          LET check  == IF "check" \in wrote THEN Document(execution, q, v)
                        ELSE result
              report == IF "report" \in wrote THEN Report(v) ELSE detailed
          IN  /\ IF report = NoFile THEN StartFailure(check, report)
                 ELSE result' = check /\ detailed' = report
              /\ exitCode' = exit
              /\ slips' = slips \cup
                    {<<execution, w>> : w \in
                        (IF "check" \notin wrote /\ exit = "ok"
                         THEN {"check"} ELSE {})
                        \cup ({"report"} \ wrote)}
    /\ pc' = "package"
    /\ UNCHANGED <<packagingVars, witness, diagnosis>>

-----------------------------------------------------------------------------
(* mncs-debug/test.sh: what it makes of the check file "old".              *)

DebugDocument(verdict, w, d) ==
    [Document(execution, "good", verdict) EXCEPT !.about =
        [test |-> detailed.by, witness |-> w.by,
         diagnosis |-> IF d = NoFile THEN 0 ELSE d.by]]

\* write_unknown: the script exits with 0 whether or not it could write.
WriteUnknown(old, new) ==
    \/ new = Unknown /\ UNCHANGED slips
    \/ new = old /\ Slip("unknown")

\* There is nothing to capture: the policy is disabled or invalid, there is
\* no test result, or the result is not a FAIL.
Declined == \/ capture = "disabled"
            \/ detailed = NoFile
            \/ /\ capture = "failure-only" /\ detailed # NoFile
               /\ detailed.verdict # "FAIL"

Decline(old, new) ==
    /\ Declined
    /\ WriteUnknown(old, new)
    /\ UNCHANGED <<witness, diagnosis>>

\* The debugger leaves no witness.
CaptureNothing(old, new) ==
    /\ ~Declined /\ witness = NoFile
    /\ WriteUnknown(old, new)
    /\ UNCHANGED <<witness, diagnosis>>

\* The witness that is there after the debugger ran: its own, or one that an
\* earlier execution left when it wrote none; and likewise the diagnosis.
\* No exit code of the debugger is looked at.
Witnesses == {[by |-> execution]} \cup ({witness} \ {NoFile})
Diagnoses == {diagnosis} \cup [by : {execution}, sufficient : BOOLEAN]

\* A bug to tell apart: the check is left alone when the witness is invalid.
RejectQuietly(old, new) ==
    /\ ~Declined
    /\ witness' \in Witnesses /\ diagnosis' \in Diagnoses
    /\ new = old
    /\ UNCHANGED slips

\* The witness does not validate, or the check about it cannot be composed:
\* the check file is removed, so that no claim is established.
Reject(old, new) ==
    /\ ~Declined
    /\ witness' \in Witnesses /\ diagnosis' \in Diagnoses
    /\ new = NoFile
    /\ UNCHANGED slips

\* The check about a witness is PASS if its diagnosis calls it sufficient.
Diagnose(old, new) ==
    /\ ~Declined
    /\ witness' \in Witnesses /\ diagnosis' \in Diagnoses
    /\ new = DebugDocument(
                IF diagnosis' # NoFile /\ diagnosis'.sufficient THEN "PASS"
                ELSE "UNKNOWN", witness', diagnosis')
    /\ IF new.about.witness = execution /\ new.about.diagnosis = execution
       THEN UNCHANGED slips ELSE Slip("debugger")

DebugScript(old, new) ==
    \/ Decline(old, new) \/ CaptureNothing(old, new)
    \/ Reject(old, new) \/ Diagnose(old, new)

\* The script as the provider of actions/mncs-debug.
RunDebugger ==
    /\ pc = "provider" /\ action = "mncs-debug"
    /\ DebugScript(result, result')
    /\ exitCode' = "ok"
    /\ pc' = "package"
    /\ UNCHANGED <<packagingVars, detailed>>

-----------------------------------------------------------------------------
(* emit_obligation_check.py, as the command of actions/run-check           *)

\* The host command ended, or it is missing or ran into its timeout.
EmitCheck ==
    /\ pc = "provider" /\ action = "obligation"
    /\ \E v \in Verdicts : result' = Document(execution, "good", v)
    /\ exitCode' = "ok"
    /\ pc' = "package"
    /\ UNCHANGED <<packagingVars, detailed, witness, diagnosis, slips>>

\* A command that wrote something before its timeout, or that may not be
\* started, ends the program with a traceback, and so does a full disk.
EmitterDies ==
    /\ pc = "provider" /\ action = "obligation"
    /\ result' \in {result, Torn}
    /\ exitCode' = "error"
    /\ pc' = "package"
    /\ UNCHANGED <<packagingVars, detailed, witness, diagnosis, slips>>

\* The step of a script is killed, which leaves no exit code.
ScriptKilled ==
    /\ pc = "provider" /\ action \in {"mncs-test", "mncs-debug", "obligation"}
    /\ exitCode' = "unset"
    /\ pc' = "package"
    /\ UNCHANGED <<packagingVars, result, detailed, witness, diagnosis, slips>>
-----------------------------------------------------------------------------
(* The debug stage of actions/mncs-test, between packaging and upload      *)

TestFailed == action = "mncs-test" /\ outputs.verdict = "FAIL"

DebugDue == /\ pc = "upload" /\ debugging # "off" /\ TestFailed
            /\ stage.at # "packaged"

CaptureFailure ==
    /\ DebugDue /\ stage.at = "none"
    /\ DebugScript(debugCheck, debugCheck')
    /\ stage' = [stage EXCEPT !.at = "captured"]
    /\ UNCHANGED <<vars, debugging, capture, detailed, accepted>>

\* run_check.sh establishes a check of the debugger, or fails.
PackageDebug ==
    /\ DebugDue /\ stage.at = "captured"
    /\ \/ /\ debugCheck.kind = "document"
          /\ stage' = [at |-> "packaged", outcome |-> "success",
                       verdict |-> debugCheck.verdict]
       \/ stage' = [NoStage EXCEPT !.at = "packaged", !.outcome = "failure"]
    /\ UNCHANGED <<vars, debugging, capture, detailed, witness, diagnosis,
                   debugCheck, accepted, slips>>

\* The gate of required debug evidence, which runs after the test's own.
JudgeDue == /\ pc = "done" /\ debugging = "required" /\ TestFailed
            /\ stage.at = "packaged"

JudgeDebug ==
    /\ JudgeDue
    /\ accepted' = IF stage.outcome = "success" /\ stage.verdict = "PASS"
                   THEN accepted \cup {[execution |-> execution,
                                        check |-> debugCheck]}
                   ELSE accepted
    /\ stage' = [stage EXCEPT !.at = "judged"]
    /\ UNCHANGED <<vars, debugging, capture, detailed, witness, diagnosis,
                   debugCheck, slips>>

-----------------------------------------------------------------------------
(* A job                                                                   *)

\* The caller of mncs-debug supplies a test result, or none; that of mncs-test
\* may ask for the debug stage.
ScriptsInit ==
    /\ capture \in IF action \in {"mncs-test", "mncs-debug"}
                   THEN {"disabled", "failure-only", "bounded"}
                   ELSE {"disabled"}
    /\ debugging \in IF action = "mncs-test" THEN {"off", "on", "required"}
                     ELSE {"off"}
    /\ detailed \in {NoFile} \cup
          (IF action = "mncs-debug" THEN {Report(v) : v \in Verdicts} ELSE {})
    /\ witness = NoFile /\ diagnosis = NoFile /\ debugCheck = NoFile
    /\ stage = NoStage
    /\ accepted = {} /\ slips = {}

JobInit == Init /\ ScriptsInit

\* The action is used again; before mncs-debug other tests may have run.
NextUse ==
    /\ ~JudgeDue
    /\ NextExecution
    /\ stage' = NoStage
    /\ detailed' \in {detailed} \cup
          (IF action = "mncs-debug"
           THEN {[Report(v) EXCEPT !.by = execution'] : v \in Verdicts} ELSE {})
    /\ UNCHANGED <<debugging, capture, witness, diagnosis, debugCheck,
                   accepted, slips>>

\* The steps of EvidencePackaging, the upload after the debug stage.
Packaging ==
    \/ RunProvider
    \/ RefuseToPackage \/ Validate
    \/ CopyResult \/ WriteReceipt \/ WriteManifest \/ WriteOutputs
    \/ Observe \/ WriteNegativeReceipt
    \/ PackagingDies
    \/ Gate
    \/ ~DebugDue /\ Upload

JobNext ==
    \/ RefuseToTest \/ RunTests
    \/ RunDebugger
    \/ EmitCheck \/ EmitterDies
    \/ ScriptKilled
    \/ CaptureFailure \/ PackageDebug \/ JudgeDebug
    \/ Packaging /\ UNCHANGED scriptVars
    \/ NextUse

JobSpec == JobInit /\ [][JobNext]_jobVars

-----------------------------------------------------------------------------
(* Properties                                                              *)

Slipped(k, which) == <<k, which>> \in slips

\* No script lets an earlier use's check pass for this one's: the check a
\* green gate accepted was written in the same execution, whatever runner,
\* debugger or host command did, except that a runner exited with 0 and wrote
\* no check, or mncs-debug's script, which always exits with 0, could not
\* write UNKNOWN over the earlier one.
GreenIsFresh ==
    action \in {"mncs-test", "mncs-debug", "obligation"} =>
        \A k \in green :
            \/ uploaded[k].check.by = k
            \/ action = "mncs-test" /\ Slipped(k, "check")
            \/ action = "mncs-debug" /\ Slipped(k, "unknown")

\* Debug evidence that a required debug gate accepted explains the failure it
\* was captured for: it is a PASS of this execution (unless the script could
\* not write UNKNOWN over an earlier one), about a test result of this
\* execution unless the runner left an earlier one, and about a witness and a
\* diagnosis of this execution unless the debugger did.
DebugIsOfThisFailure ==
    \A a \in accepted :
        LET k == a.execution
            c == a.check
        IN  /\ c.verdict = "PASS"
            /\ c.by = k \/ Slipped(k, "unknown")
            /\ c.by = k =>
                  /\ c.about.test = k \/ Slipped(k, "report")
                  /\ (c.about.witness = k /\ c.about.diagnosis = k)
                        \/ Slipped(k, "debugger")
=============================================================================
