------------------------ MODULE MC_FamilyAcceptance ------------------------
(***************************************************************************)
(* A small instance of FamilyAcceptance for TLC: the standard, whose tree  *)
(* holds the evaluator, and one more member.                               *)
(***************************************************************************)
EXTENDS FamilyAcceptance

\* The standard and another member, which records its candidates: its tree
\* can only name an earlier revision of itself.
TwoMembers == {"standard", "member"}
LastRevisions == [m \in TwoMembers |-> IF m = "standard" THEN 1 ELSE 2]
FirstHeads == [m \in TwoMembers |-> IF m = "standard" THEN 0 ELSE 1]
RecordedIn == [m \in TwoMembers |-> [r \in 0..2 |->
                    IF m = "standard" \/ r = 0 THEN -1 ELSE r - 1]]

\* Both members pass, or all but one.
MostlyPassing == {[m \in TwoMembers |-> IF m = n THEN "UNKNOWN" ELSE "PASS"] :
                        n \in TwoMembers \cup {"none"}}

\* The first template requires the standard, the second both members.
RequiredBy == <<{"standard"}, TwoMembers>>
ToleratedBy == <<{"member"}, {}>>

\* The standard is of use from its revision 1 on, whose tree pins the first
\* revision of the member.
Floors == [m \in TwoMembers |-> IF m = "standard" THEN 1 ELSE 0]
OnePin == {<<"standard", "member">>}
PinnedBy == [p \in OnePin |-> [r \in 0..2 |-> IF r = 0 THEN {0, 1} ELSE {0}]]
UnclassifiedDelta == {<<"member", 0, 2>>}
=============================================================================
