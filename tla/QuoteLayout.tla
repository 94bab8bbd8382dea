---------------------------- MODULE QuoteLayout ----------------------------
(***************************************************************************)
(* The layout of the data of an Ed25519 instruction that carries a quote.  *)
(***************************************************************************)
EXTENDS Integers

\* recent_slot, version and marker end it: 8, 1 and 4 bytes.
SlotLen == 8
TrailerLen == 13

\* With n signatures over f feeds: two bytes of header; offsets, key and
\* signature (14 + 32 + 64) for each signature; a message of 32 + 49 f; an
\* oracle index for each signature; and the trailer.
QuoteLen(n, f) == 2 + 110 * n + (32 + 49 * f) + n + TrailerLen
=============================================================================
