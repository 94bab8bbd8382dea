---------------------------- MODULE QuoteAccount ----------------------------
(***************************************************************************)
(* OracleQuote::write and the oracle account it writes to.                 *)
(*                                                                         *)
(* The account, after its discriminator, is a buffer of Cap bytes.  A      *)
(* quote is the data of an Ed25519 instruction, and is stored at the FRONT *)
(* of the buffer behind a two-byte length.  The slot that a new quote must *)
(* not precede is read at a fixed distance from the END of the buffer.     *)
(* The two places meet only if the quote fills the buffer, so the module   *)
(* keeps both: the quote at the front and the last TrailerLen bytes.       *)
(*                                                                         *)
(* Those bytes are a little-endian number in base Base: eight digits of    *)
(* slot, one of version, four of the "SBOD" marker.                        *)
(***************************************************************************)
EXTENDS Integers, QuoteLayout

CONSTANTS
    Cap,      \* bytes of the buffer behind the discriminator
    Sources,  \* quotes a transaction may carry: records with len, slot, version
    NoQuote,  \* the account before its first quote: no discriminator
    Base,     \* values of a byte: 256 in the source
    Marker,   \* the four bytes "SBOD" as a number
    MaxSlot   \* bound: the last slot

VARIABLES
    clock,   \* Clock.slot
    stored,  \* the quote at the front of the buffer
    tail,    \* the last TrailerLen bytes of the buffer, as a number
    full     \* history: the last quote written that filled the buffer

accountVars == <<clock, stored, tail, full>>

Slots == 0 .. MaxSlot

\* The bytes that end a quote: recent_slot, version, marker.
Trailer(q) == q.slot + Base ^ SlotLen * (q.version + Base * Marker)

ASSUME AccountAssumption ==
    /\ Cap \in Nat /\ MaxSlot \in Nat
    /\ NoQuote \notin Sources
    /\ \A q \in Sources : q.len \in Nat /\ q.slot \in Slots /\ q.version \in Nat
    /\ Base \in Nat /\ Marker \in Nat

\* The digits are large enough for what they hold.
ASSUME DigitsAssumption ==
    /\ Base ^ 0 = 1
    /\ Base ^ SlotLen \in Nat /\ MaxSlot < Base ^ SlotLen
    /\ Base ^ TrailerLen \in Nat \ {0}
    /\ \A q \in Sources : Trailer(q) < Base ^ TrailerLen

-----------------------------------------------------------------------------
\* What validate_slot_progression takes for the slot of the stored quote.
ExistingSlot == tail % Base ^ SlotLen

\* Mutant: the slot of the stored quote is not looked at.
SlotProgresses_NoRegressionCheck(q) ==
    /\ q.len >= TrailerLen
    /\ q.slot < clock

\* Mutant: a quote for the slot already stored is refused.
SlotProgresses_Strict(q) ==
    /\ q.len >= TrailerLen
    /\ q.slot < clock
    /\ q.slot > ExistingSlot

\* Mutant: a slot that has not come yet is accepted.
SlotProgresses_NoStaleCheck(q) ==
    /\ q.len >= TrailerLen
    /\ q.slot >= ExistingSlot

\* The assertions of validate_slot_progression.
SlotProgresses(q) ==
    /\ q.len >= TrailerLen
    /\ q.slot < clock
    /\ q.slot >= ExistingSlot

\* Those of write and store_delimited: there is room for the discriminator, the
\* length and a trailer, and for this quote.
Fits(q) == Cap + 8 >= 23 /\ q.len + 2 <= Cap

\* Bytes behind q once it is stored.
Gap(q) == Cap - (q.len + 2)

\* Mutant: the copy into the buffer starts where the length prefix does.
TailAfter_NoPrefix(q) ==
    LET gap == Gap(q) + 2
    IN  IF gap >= TrailerLen THEN tail
        ELSE Trailer(q) \div Base ^ gap + (tail - (tail % Base ^ (TrailerLen - gap)))

\* What the end of the buffer holds once q has been copied to its front: the
\* copy reaches only the lowest TrailerLen - Gap digits, and puts the top
\* digits of q's own trailer there.
TailAfter(q) ==
    IF Gap(q) >= TrailerLen THEN tail
    ELSE Trailer(q) \div Base ^ Gap(q)
            + (tail - (tail % Base ^ (TrailerLen - Gap(q))))

\* write; a failed assertion aborts the transaction and leaves no trace.
Write(q) ==
    /\ SlotProgresses(q)
    /\ Fits(q)
    /\ stored' = q
    /\ tail' = TailAfter(q)
    /\ full' = IF Gap(q) = 0 THEN q ELSE full
    /\ UNCHANGED clock

Tick == clock' \in clock + 1 .. MaxSlot /\ UNCHANGED <<stored, tail, full>>

AccountInit == clock = 0 /\ stored = NoQuote /\ tail = 0 /\ full = NoQuote

AccountNext == Tick \/ \E q \in Sources : Write(q)

AccountSpec == AccountInit /\ [][AccountNext]_accountVars

-----------------------------------------------------------------------------
(***************************************************************************)
(* Properties.                                                             *)
(***************************************************************************)

TypeOK ==
    /\ clock \in Slots
    /\ {stored, full} \subseteq Sources \cup {NoQuote}
    /\ tail \in 0 .. Base ^ TrailerLen - 1

\* No quote ends inside the last TrailerLen bytes: it fills the buffer, stops
\* short of them or does not fit.
NoOverlap == \A q \in Sources : Gap(q) <= 0 \/ Gap(q) >= TrailerLen

\* The account was allocated for the quotes it holds: each fills it exactly.
ExactFit == \A q \in Sources : Gap(q) = 0

\* Without overlap, the bytes at the end of the buffer are the trailer of the
\* last quote that filled it, and no quote stored since is older than that one.
WindowHoldsFull ==
    /\ IF full = NoQuote THEN tail = 0
       ELSE /\ tail = Trailer(full)
            /\ stored # NoQuote /\ full.slot <= stored.slot /\ full.slot < clock
    /\ stored # NoQuote /\ Gap(stored) = 0 => full = stored

AccountInv == TypeOK /\ WindowHoldsFull

\* As far as the quotes that fill it go, the account implements the cell that
\* the documentation of write describes.
Cell == INSTANCE QuoteCell WITH quote <- full
ImplementsCell == Cell!CellSpec

\* A quote that fits, whose slot has passed and that is as new as the one stored
\* and the last that filled the account, is not refused: the documentation of
\* store_delimited gives only "New slot >= clock slot", "Slot regression
\* detected" and "Destination buffer too small" as reasons.
NeverRefusesNewer ==
    \A q \in Sources :
        /\ Fits(q) /\ q.len >= TrailerLen
        /\ q.slot < clock
        /\ \A p \in {stored, full} \ {NoQuote} : q.slot >= p.slot
        => SlotProgresses(q)

\* The code keeps that promise on one condition: no quote ends inside the last
\* TrailerLen bytes of the buffer.  One that does leaves the upper bytes of its
\* own trailer where the next slot is compared.
NewerQuoteAccepted == NoOverlap => NeverRefusesNewer

\* A quote that fills the account is never followed by an older one, whether
\* that one fills it or not.
FilledQuoteNeverRegresses ==
    [][stored # NoQuote /\ Gap(stored) = 0 => stored'.slot >= stored.slot]_stored

\* "Progression: new slot >= existing slot in account (prevents replay attacks)":
\* the slot of the stored quote never goes back.
StoredSlotNeverRegresses ==
    [][stored # NoQuote => stored'.slot >= stored.slot]_stored
=============================================================================
