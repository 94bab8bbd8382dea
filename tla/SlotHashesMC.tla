---------------------------- MODULE SlotHashesMC ----------------------------
(***************************************************************************)
(* SlotHashes on a window of a few entries, for TLC.                       *)
(***************************************************************************)
EXTENDS SlotHashes, TLC

\* Forks are only compared for equality.
ForkSymmetry == Permutations(Forks)
=============================================================================
