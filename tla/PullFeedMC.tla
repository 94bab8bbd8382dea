----------------------------- MODULE PullFeedMC -----------------------------
(***************************************************************************)
(* PullFeed for TLC: four places, two of them liars', who may submit       *)
(* negative values and values that no Decimal holds.  An i128 has 12 bits  *)
(* here, so that a shift by four places wraps the power of ten.            *)
(***************************************************************************)
EXTENDS PullFeed

MCValues == {-129, 101, 115, 199}
=============================================================================
