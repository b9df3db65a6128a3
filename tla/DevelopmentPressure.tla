------------------------ MODULE DevelopmentPressure ------------------------
(***************************************************************************)
(* What becomes of a check nobody could decide                             *)
(* (scripts/development_pressure.py, scripts/pressure_to_obligations.py    *)
(* and scripts/project_obligations.py).                                    *)
(*                                                                         *)
(* An observation of the family turns every limitation of an UNKNOWN check *)
(* into pressure.  It may be given the bundle of an earlier observation to *)
(* say which pressure is NEW, which is REPRODUCED and which was not seen   *)
(* again.  A bundle is projected into open obligation records for one      *)
(* exact subject; owners settle the records in their file or write records *)
(* of their own; the records are projected into the check mncds-obligations.*)
(* Each projection is a process of its own that writes one file or, when   *)
(* it refuses, leaves the file of an earlier call where it is.             *)
(*                                                                         *)
(* A key, the digest of what identifies a limitation, is the limitation;   *)
(* a pressure id is its key with the number of the observation, whose      *)
(* documents and revisions go into the digest.                             *)
(***************************************************************************)
EXTENDS Integers, Sequences, FiniteSets

CONSTANTS
    Checks,          \* the checks of the family
    Details,         \* the limitations a check may name
    Default,         \* the limitation of an UNKNOWN check that names none
    Outcomes,        \* the outcomes of a check: a verdict, limitations
    Subjects,        \* the exact subjects obligations may be bound to
    Own,             \* the records owners may write themselves
    MaxObservations, \* bound on the observations
    MaxSettled,      \* bound on what owners settle or write
    None             \* a document that is not given, or not there

Limitations == Details \cup {Default}
Keys == Checks \X Limitations
Statuses == {"open", "resolved", "rejected"}

ASSUME PressureAssumption ==
    /\ \A o \in Outcomes : /\ o.verdict \in {"PASS", "FAIL", "UNKNOWN"}
                           /\ o.unresolved \in Seq(Details)
    /\ Default \notin Details
    /\ Own \subseteq [key : Keys, status : Statuses, required : BOOLEAN,
                      subject : Subjects, resolution : BOOLEAN]
    /\ MaxObservations \in Nat /\ MaxSettled \in Nat
    /\ None \notin Nat

VARIABLES
    bundles,    \* the bundles of pressure, in the order of the observations
    projected,  \* the file of records projected from a bundle
    authored,   \* the record an owner wrote itself
    check,      \* the check-result mncds-obligations
    settled     \* history: what owners settled, and for which subject

vars == <<bundles, projected, authored, check, settled>>

-----------------------------------------------------------------------------
(* One observation.                                                        *)

\* The limitations of a check; an UNKNOWN check has at least one.
Unresolved(o) ==
    IF o.verdict # "UNKNOWN" THEN {}
    ELSE IF o.unresolved = << >> THEN {Default}
    ELSE {o.unresolved[i] : i \in DOMAIN o.unresolved}

\* A limitation named twice is listed twice.
Repeated(o) ==
    {d \in Unresolved(o) :
        \E i, j \in DOMAIN o.unresolved :
            i # j /\ o.unresolved[i] = d /\ o.unresolved[j] = d}

Current(outcome) == {k \in Keys : k[2] \in Unresolved(outcome[k[1]])}

Twice(outcome) == {k \in Keys : k[2] \in Repeated(outcome[k[1]])}

\* _previous_index: no bundle, or a document that is none, has no pressure.
PreviousKeys(previous) ==
    IF previous \in DOMAIN bundles THEN bundles[previous].keys ELSE {}

\* A bug to tell apart: what was seen before is not reported again.
BundleOfNew(outcome, previous) ==
    LET before == PreviousKeys(previous)
    IN  [outcome |-> outcome, previous |-> previous,
         keys |-> Current(outcome) \ before, twice |-> Twice(outcome),
         prior |-> [k \in Current(outcome) |->
                        IF k \in before THEN <<k, previous>> ELSE None],
         notReproduced |-> before \ Current(outcome)]

\* A bug to tell apart: the pressure of the last bundle is the prior one.
BundleOnLast(outcome, previous) ==
    LET before == PreviousKeys(previous)
    IN  [outcome |-> outcome, previous |-> previous,
         keys |-> Current(outcome), twice |-> Twice(outcome),
         prior |-> [k \in Current(outcome) |->
                        IF k \in before THEN <<k, Len(bundles)>> ELSE None],
         notReproduced |-> before \ Current(outcome)]

\* build_pressure_bundle: pressure with a prior is REPRODUCED, else NEW.
Bundle(outcome, previous) ==
    LET before == PreviousKeys(previous)
    IN  [outcome |-> outcome, previous |-> previous,
         keys |-> Current(outcome), twice |-> Twice(outcome),
         prior |-> [k \in Current(outcome) |->
                        IF k \in before THEN <<k, previous>> ELSE None],
         notReproduced |-> before \ Current(outcome)]

-----------------------------------------------------------------------------
(* Records, and the check they amount to.                                  *)

Record(k, status, required, subject, resolution) ==
    [key |-> k, status |-> status, required |-> required,
     subject |-> subject, resolution |-> resolution]

\* pressure_to_obligations: every pressure is an open, required obligation.
Opened(b, subject) ==
    {Record(k, "open", TRUE, subject, FALSE) : k \in b.keys}

\* A record project_obligations takes.
Admissible(r, subject) ==
    /\ r.subject = subject
    /\ r.status \in {"resolved", "rejected"} => r.resolution

\* A bug to tell apart: an open record is no obstacle next to a settled one.
VerdictOfSettled(records) ==
    IF \E r \in records : r.status = "rejected" THEN "FAIL"
    ELSE IF records # {} /\ \A r \in records : r.status = "open" /\ r.required
    THEN "UNKNOWN" ELSE "PASS"

\* What the records amount to, whether there are any or not.
Verdict(records) ==
    IF \E r \in records : r.status = "rejected" THEN "FAIL"
    ELSE IF \E r \in records : r.status = "open" /\ r.required
    THEN "UNKNOWN" ELSE "PASS"

\* No key in two records: not in two files, not twice in one.
Contradictory(R, S) == \E r \in R, s \in S : r.key = s.key

-----------------------------------------------------------------------------
Init ==
    /\ bundles = << >>
    /\ projected = None /\ authored = None /\ check = None
    /\ settled = {}

\* assemble_family_evidence: the workflows give no earlier bundle, a local
\* run may give any document.
Observe ==
    /\ Len(bundles) < MaxObservations
    /\ \E outcome \in [Checks -> Outcomes],
          previous \in DOMAIN bundles \cup {None} :
         bundles' = Append(bundles, Bundle(outcome, previous))
    /\ UNCHANGED <<projected, authored, check, settled>>

\* pressure_to_obligations of a bundle; a key listed twice is refused, and
\* the records of an earlier call stay.
ProjectPressure(i, subject) ==
    /\ i \in DOMAIN bundles
    /\ projected' = IF bundles[i].twice # {} THEN projected
                    ELSE [from |-> i, records |-> Opened(bundles[i], subject)]
    /\ UNCHANGED <<bundles, authored, check, settled>>

Settlement(r) == [key |-> r.key, subject |-> r.subject, status |-> r.status]

\* An owner settles a projected record in its file, with the resolution
\* block the check asks for or without.
Settle(r, status, resolution) ==
    /\ Cardinality(settled) < MaxSettled
    /\ r.status = "open"
    /\ LET s == Record(r.key, status, TRUE, r.subject, resolution)
       IN  /\ projected' = [projected EXCEPT !.records = (@ \ {r}) \cup {s}]
           /\ settled' = settled \cup {Settlement(s)}
    /\ UNCHANGED <<bundles, authored, check>>

\* An owner writes a record of its own, of whatever status.
Author(r) ==
    /\ authored = None /\ Cardinality(settled) < MaxSettled
    /\ authored' = r
    /\ settled' = IF r.status = "open" THEN settled
                  ELSE settled \cup {Settlement(r)}
    /\ UNCHANGED <<bundles, projected, check>>

\* project_obligations over the files it is given.  It reads every record
\* before it writes, and refuses all when it refuses one.
ProjectObligations(withProjected, withAuthored, subject) ==
    LET file == IF withProjected THEN projected.records ELSE {}
        own == IF withAuthored THEN {authored} ELSE {}
    IN  /\ withProjected => projected # None
        /\ withAuthored => authored # None
        /\ check' =
             IF /\ \A r \in file \cup own : Admissible(r, subject)
                /\ ~ Contradictory(file, own)
             THEN [verdict |-> Verdict(file \cup own), subject |-> subject,
                   from |-> IF withProjected THEN projected.from ELSE None]
             ELSE check
        /\ UNCHANGED <<bundles, projected, authored, settled>>

Next ==
    \/ Observe
    \/ \E i \in DOMAIN bundles, s \in Subjects : ProjectPressure(i, s)
    \/ /\ projected # None
       /\ \E r \in projected.records, status \in {"resolved", "rejected"},
             resolution \in BOOLEAN : Settle(r, status, resolution)
    \/ \E r \in Own : Author(r)
    \/ \E withProjected, withAuthored \in BOOLEAN, s \in Subjects :
          ProjectObligations(withProjected, withAuthored, s)

Spec == Init /\ [][Next]_vars

-----------------------------------------------------------------------------
(* Properties.                                                             *)

\* The bundles an observation is descended from, itself included, by the
\* bundles they were given; Lineage[n][m]: n descends from m.
Lineage ==
    LET above[n \in 0 .. Len(bundles)] ==
          IF n = 0 THEN {}
          ELSE {n} \cup (IF bundles[n].previous = None THEN {}
                         ELSE above[bundles[n].previous])
    IN  above

\* Pressure leaves a line of observations only where one says that it was
\* not reproduced: every limitation an ancestor reported is in the bundle, or
\* a bundle in between, or this one, lists it as not reproduced.
NothingVanishes ==
    \A n \in DOMAIN bundles : \A m \in Lineage[n] : \A k \in bundles[m].keys :
        \/ k \in bundles[n].keys
        \/ \E l \in Lineage[n] : l > m /\ k \in bundles[l].notReproduced

\* What a bundle says of the past was observed: REPRODUCED pressure names
\* pressure of the bundle that was given, of a check that was UNKNOWN then
\* and is now; what was not reproduced was UNKNOWN then and is not now.
HistoryIsObserved ==
    \A n \in DOMAIN bundles :
        LET b == bundles[n] IN
        /\ \A k \in DOMAIN b.prior : b.prior[k] # None =>
              /\ b.prior[k] = <<k, b.previous>> /\ b.previous < n
              /\ k[2] \in Unresolved(bundles[b.previous].outcome[k[1]])
        /\ \A k \in b.notReproduced :
              /\ k[2] \in Unresolved(bundles[b.previous].outcome[k[1]])
              /\ k[2] \notin Unresolved(b.outcome[k[1]])

\* A PASS or a FAIL is an owner's word for this very subject: a PASS over
\* projected records proves that every limitation of every UNKNOWN check of
\* the observation those records came from was resolved, a FAIL that an
\* obligation was rejected.  That pressure was not seen again, records of
\* another subject and duplicates never decide.  Which observation the records
\* came from is not promised: after a refused projection the file still holds
\* an earlier one's, and the check is about that one.
DecidedByOwners ==
    check # None =>
        /\ check.verdict = "PASS" /\ check.from # None =>
              \A k \in Keys :
                  k[2] \in Unresolved(bundles[check.from].outcome[k[1]]) =>
                      [key |-> k, subject |-> check.subject,
                       status |-> "resolved"] \in settled
        /\ check.verdict = "FAIL" =>
              \E s \in settled : s.subject = check.subject /\ s.status = "rejected"
=============================================================================
