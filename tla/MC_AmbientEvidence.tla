------------------------ MODULE MC_AmbientEvidence ------------------------
(***************************************************************************)
(* Small instances of AmbientEvidence for TLC: one host or two sessions    *)
(* passing at once, one obligation bound to one workflow.                  *)
(***************************************************************************)
EXTENDS AmbientEvidence

CONSTANTS h1, h2, o1, ci

OneHost == {h1}
TwoHosts == {h1, h2}
OneObligation == {o1}
OneWorkflow == {ci}
SharedBinding == [o \in Obligations |-> ci]

HostSymmetry == Permutations(Hosts)
=============================================================================
