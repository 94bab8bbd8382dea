--------------------------- MODULE QuoteAccountMC ---------------------------
(***************************************************************************)
(* QuoteAccount with the real sizes of quotes and accounts; only the bytes *)
(* of the trailer are scaled, to one bit each.                             *)
(***************************************************************************)
EXTENDS QuoteAccount

CONSTANTS
    Shapes,   \* pairs <<signatures, feeds>>
    Versions

\* The quotes of the given shapes, for every slot.
MCSources ==
    [len : {QuoteLen(s[1], s[2]) : s \in Shapes}, slot : Slots, version : Versions]

\* One feed, signed once or twice; an account that two signatures fill.
OneFeed == {<<1, 1>>, <<2, 1>>}
TwoSigsCap == QuoteLen(2, 1) + 2

\* Seven feeds, signed once: 501 bytes, which with their length end nine bytes
\* before the end of a buffer of 512.
SevenFeeds == {<<1, 7>>}
=============================================================================
