--------------------------- MODULE QuoteVerifierMC ---------------------------
(***************************************************************************)
(* QuoteVerifier for TLC: two keys, two places in the queue, quotes of one *)
(* or two signatures.                                                      *)
(***************************************************************************)
EXTENDS QuoteVerifier, TLC

CONSTANTS k1, k2

MCQueue == 0 :> k1 @@ 1 :> k2
MCAllKeys == Keys \cup {NoKey}

\* One key and message, with one index each that refers to instruction 1.
MCForeign ==
    [key : {k2}, msg : [hash : {BlockHash(1, Own)}, feed : Feeds],
     sigIx : {0, 1}, keyIx : {0, 1}, msgIx : {0, 1}]
    \cap {e \in Ed!Entries : e.sigIx + e.keyIx + e.msgIx = 1}

\* An account that two signatures fill; one signature leaves 111 bytes.
MCCap == QuoteLen(2, FeedCount) + 2
=============================================================================
