---------------------------- MODULE RandomnessMC ----------------------------
(***************************************************************************)
(* Randomness over a window of a few entries, for TLC.                     *)
(***************************************************************************)
EXTENDS Randomness, TLC

\* Forks are only compared for equality.
ForkSymmetry == Permutations(Forks)
=============================================================================
