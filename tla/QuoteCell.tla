----------------------------- MODULE QuoteCell -----------------------------
(***************************************************************************)
(* What the documentation of OracleQuote::write promises of an oracle      *)
(* account (oracle_quote.rs, "Validation"): it holds the last quote        *)
(* written, a quote is written only when its slot is in the past, and the  *)
(* slot of the quote held never goes back.                                 *)
(***************************************************************************)
EXTENDS Integers

CONSTANTS
    Sources,  \* the quotes that can be written
    NoQuote,  \* what an account holds before the first one
    MaxSlot   \* bound: the last slot

VARIABLES
    clock,  \* the present slot
    quote   \* the quote held

cellVars == <<clock, quote>>

CellInit == clock = 0 /\ quote = NoQuote

Tick == clock' \in clock + 1 .. MaxSlot /\ UNCHANGED quote

Put(q) ==
    /\ q.slot < clock
    /\ quote # NoQuote => q.slot >= quote.slot
    /\ quote' = q
    /\ UNCHANGED clock

CellNext == Tick \/ \E q \in Sources : Put(q)

CellSpec == CellInit /\ [][CellNext]_cellVars
=============================================================================
