------------------------- MODULE MC_FamilyEvidence -------------------------
(***************************************************************************)
(* A small instance of FamilyEvidence for TLC: two producers, one of which *)
(* declares two checks, as mncs-language declares several.                 *)
(***************************************************************************)
EXTENDS FamilyEvidence

TwoProducers == {1, 2}
ThreeChecks == {"rights", "language", "boundary"}
Owners == [c \in ThreeChecks |-> IF c = "rights" THEN 1 ELSE 2]
TwoRequired == {"rights", "language"}
AllWorkflows == {"canary", "drift", "advance", "local"}
=============================================================================
