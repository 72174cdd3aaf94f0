------------------------- MODULE MCShareLifecycle -------------------------
(***************************************************************************)
(* Small instances of ShareLifecycle.                                      *)
(***************************************************************************)
EXTENDS ShareLifecycle, TLC

Symmetry == Permutations(Tasks) \cup Permutations(CeremonyIds)
=============================================================================
