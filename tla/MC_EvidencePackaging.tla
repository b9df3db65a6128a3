------------------------ MODULE MC_EvidencePackaging ------------------------
(***************************************************************************)
(* A small instance of ProviderScripts, and with it EvidencePackaging, for *)
(* TLC: every composite action, used twice in one job.                     *)
(***************************************************************************)
EXTENDS ProviderScripts

AllActions == {"verify", "run-check", "obligation", "mncs-test", "mncs-debug"}
=============================================================================
