------------------------- MODULE MC_DispatchLedger -------------------------
(***************************************************************************)
(* Small instances of DispatchLedger for TLC.                              *)
(***************************************************************************)
EXTENDS DispatchLedger, TLC

CONSTANTS s1, s2

TwoSessions == {s1, s2}

\* Sessions run the same code and no property names one of them.
SessionSymmetry == Permutations(Sessions)

\* At UTC, and with every run at the measured commit: east of it, or at
\* another commit, a run is only passed over by _resolve_run, which the lagging
\* listing lets happen to any run.
UTC == {0}
MeasuredOnly == {"measured"}
=============================================================================
