------------------------------ MODULE Aggregation ------------------------------
(***************************************************************************)
(* How check results are composed into the verdict of a boundary:          *)
(* aggregate_verdict of lib/mncs_actions.py and the checks aggregate.sh    *)
(* makes on its inputs before it calls it.                                 *)
(*                                                                         *)
(* A check file is NoFile, Malformed or a check result, identified by its  *)
(* id and verdict; its digest is its content.  "verdicts" is a function    *)
(* from the ids of the loaded checks to their verdicts.                    *)
(***************************************************************************)
EXTENDS Integers, Sequences, FiniteSets

Verdicts == {"PASS", "FAIL", "UNKNOWN"}

NoFile == [kind |-> "none"]
Malformed == [kind |-> "malformed"]
CheckResult(id, verdict) == [kind |-> "check", id |-> id, verdict |-> verdict]

-----------------------------------------------------------------------------
(* aggregate_verdict                                                       *)

Has(verdicts, id, v) == id \in DOMAIN verdicts /\ verdicts[id] = v
Missing(verdicts, id) == id \notin DOMAIN verdicts

\* A bug to tell apart: missing required coverage is overlooked.
MissingIsPass(verdicts, required) ==
    IF \E id \in required : Has(verdicts, id, "FAIL") THEN "FAIL"
    ELSE IF \E id \in required : Has(verdicts, id, "UNKNOWN") THEN "UNKNOWN"
    ELSE "PASS"

AggregateVerdict(verdicts, required) ==
    IF \E id \in required : Has(verdicts, id, "FAIL") THEN "FAIL"
    ELSE IF \E id \in required : \/ Missing(verdicts, id)
                                 \/ Has(verdicts, id, "UNKNOWN") THEN "UNKNOWN"
    ELSE "PASS"

\* A bug to tell apart: what is optional is not reported.
RequiredUnresolved(verdicts, required, optional) ==
    {id \in required : Missing(verdicts, id) \/ Has(verdicts, id, "UNKNOWN")}

\* The checks reported as unresolved, whatever they do to the verdict.
Unresolved(verdicts, required, optional) ==
    {id \in required : Missing(verdicts, id) \/ Has(verdicts, id, "UNKNOWN")}
    \cup {id \in optional : Has(verdicts, id, "UNKNOWN") \/ Has(verdicts, id, "FAIL")}

-----------------------------------------------------------------------------
(* aggregate.sh: "listed" maps the files named in the input "checks" to    *)
(* their content and the way their path is written: "safe" (relative and   *)
(* without dots), "unsafe" (inside the working directory, but absolute or  *)
(* with dots) or "escaping".                                               *)

Loaded(listed) == {listed[f].content : f \in DOMAIN listed}

LoadedVerdicts(listed) ==
    [id \in {d.id : d \in Loaded(listed)} |->
        (CHOOSE d \in Loaded(listed) : d.id = id).verdict]

\* A listed file must be inside the working directory, there and valid, and
\* no two may have one id.
FileErrors(listed) ==
    \/ \E f \in DOMAIN listed : \/ listed[f].path = "escaping"
                                \/ listed[f].content.kind # "check"
    \/ \E f, g \in DOMAIN listed :
          /\ f # g
          /\ listed[f].content.kind = "check" /\ listed[g].content.kind = "check"
          /\ listed[f].content.id = listed[g].content.id

\* validate_aggregate_declarations, and membership under strict-membership.
DeclarationErrors(listed, required, optional) ==
    \/ required \cap optional # {}
    \/ \E d \in Loaded(listed) :
          d.kind = "check" /\ d.id \notin required \cup optional

AggregateErrors(listed, required, optional) ==
    FileErrors(listed) \/ DeclarationErrors(listed, required, optional)

\* validate_aggregate_result refuses the document the action itself built
\* when a loaded file was named by a path that is not a safe relative one.
UnsafeBinding(listed) == \E f \in DOMAIN listed : listed[f].path = "unsafe"
=============================================================================
