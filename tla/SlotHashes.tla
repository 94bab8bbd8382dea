----------------------------- MODULE SlotHashes -----------------------------
(***************************************************************************)
(* The clock and the SlotHashes sysvar as the SDK reads them, and the two  *)
(* searches the SDK makes in it: QuoteVerifier::find_slothash_in_sysvar,   *)
(* an estimate followed by a backward scan, and SlotHashes::get_slothash,  *)
(* a binary search.                                                        *)
(*                                                                         *)
(* The two variables belong to the runtime and are modelled from how the   *)
(* SDK uses them: a bank at slot s sees Clock.slot = s, and the newest     *)
(* entry of its SlotHashes is its parent, so a slot that produced no block *)
(* leaves a hole.  The account has room for WindowLen entries (512) and is *)
(* zero-filled behind the last one.                                        *)
(***************************************************************************)
EXTENDS Integers

CONSTANTS
    WindowLen,  \* entries in the sysvar: SYSVAR_SLOT_LEN, 512 in the source
    U64,        \* modulus of the u64 subtraction, 2^64 in the source
    LowMod,     \* modulus of the abbreviated slot, 2^16 in the source
    Forks,      \* names that tell apart the blocks competing for one slot
    NoFork,     \* the "fork" of the all-zero hash that pads the account
    MaxSlot     \* bound: the last slot the model reaches

ASSUME SlotHashesAssumption ==
    /\ WindowLen \in Nat \ {0}
    /\ MaxSlot \in Nat
    /\ U64 \in Nat /\ MaxSlot < U64 /\ U64 % WindowLen = 0
    /\ LowMod \in Nat \ {0}
    /\ NoFork \notin Forks

VARIABLES
    clock,  \* Clock.slot of the bank being executed
    sysvar  \* the entries of SlotHashes, the newest at index 0

slotVars == <<clock, sysvar>>

Slots == 0 .. MaxSlot
Index == 0 .. WindowLen - 1

\* A hash names one block: hashes of different blocks differ.
Hashes == [slot : Slots, fork : Forks \cup {NoFork}]
Entries == [slot : Slots, hash : Hashes]
BlockHash(s, f) == [slot |-> s, fork |-> f]
Padding == [slot |-> 0, hash |-> BlockHash(0, NoFork)]

SlotTypeOK ==
    /\ clock \in Slots
    /\ sysvar \in [Index -> Entries]

SlotInit ==
    /\ clock = 0
    /\ sysvar = [i \in Index |-> Padding]

\* Mutant: two banks at one slot.
NewBank_Twice(s, f) ==
    /\ clock <= s
    /\ clock' = s
    /\ sysvar' = [i \in Index |->
                    IF i = 0 THEN [slot |-> clock, hash |-> BlockHash(clock, f)]
                             ELSE sysvar[i - 1]]

\* The runtime: the bank at slot s, whose parent is the present bank, pushes
\* its parent's hash in front and drops the entry at the far end.
NewBank(s, f) ==
    /\ clock < s
    /\ clock' = s
    /\ sysvar' = [i \in Index |->
                    IF i = 0 THEN [slot |-> clock, hash |-> BlockHash(clock, f)]
                             ELSE sysvar[i - 1]]

SlotNext == \E s \in Slots, f \in Forks : NewBank(s, f)

SlotSpec == SlotInit /\ [][SlotNext]_slotVars

-----------------------------------------------------------------------------
(***************************************************************************)
(* The searches.  A Result<[u8; 32]> is the set of the hashes it can hold: *)
(* empty for an error, and for a panic, which fails the transaction too.   *)
(***************************************************************************)
Newest == sysvar[0].slot
Oldest == sysvar[WindowLen - 1].slot
At(s) == {i \in Index : sysvar[i].slot = s}

\* Mutant: index 0 taken for the slot before the newest entry.
EstimatedIdx_OffByOne(target) == ((Newest - target - 1) % U64) % WindowLen

\* slot_data[0].slot - target_slot, in u64.  Where the build checks overflow
\* a target above the newest entry panics; where it wraps, the scan starts
\* somewhere and, no entry being that new, finds nothing either.
EstimatedIdx(target) == ((Newest - target) % U64) % WindowLen

\* The scan from the estimated index back to index 0 stops at the first match.
ScanHits(target) == {i \in At(target) : i <= EstimatedIdx(target)}
FindSlothash(target) ==
    {sysvar[i].hash : i \in {j \in ScanHits(target) :
                                \A k \in ScanHits(target) : k <= j}}

\* binary_search_by promises, of a sorted slice, some index that matches.
FindIdx(s) == At(s)

GetSlothash(s) ==
    IF s > Newest THEN {} ELSE {sysvar[i].hash : i \in FindIdx(s)}

\* (slot & 0xFFFFFFFFFFFF0000) | low
WithLowBits(s, low) == (s - (s % LowMod)) + low

\* Mutant: the oldest entry's high bits are never tried.
FromLowerByte_UpperOnly(low) ==
    {[slot |-> WithLowBits(Newest, low), hash |-> h] :
        h \in GetSlothash(WithLowBits(Newest, low))}

\* The slot and hash that an abbreviated slot stands for: the high bits of the
\* newest entry are tried first, then those of the oldest.
FromLowerByte(low) ==
    LET Resolve(s) == {[slot |-> s, hash |-> h] : h \in GetSlothash(s)}
        upper == Resolve(WithLowBits(Newest, low))
    IN  IF upper # {} THEN upper ELSE Resolve(WithLowBits(Oldest, low))

-----------------------------------------------------------------------------
(***************************************************************************)
(* Properties.  Slot 0 is left out: padding carries that number too.       *)
(***************************************************************************)

\* Entries are at least as many slots apart as they are places apart, so the
\* distance in slots never underestimates a place in the account.  This is
\* what lets the estimate of quote_verifier.rs start a backward scan.
GapInv ==
    \A i, j \in Index :
        i < j /\ sysvar[j].slot > 0 => sysvar[i].slot - sysvar[j].slot >= j - i

\* No bank sees its own hash: every recorded slot is below the clock.
PastInv == \A i \in Index : sysvar[i].slot < clock \/ (clock = 0 /\ sysvar[i].slot = 0)

\* An entry's hash is that of a block of its slot.
HashInv == \A i \in Index : sysvar[i].hash.slot = sysvar[i].slot

\* The invariant the searches rest on.
SlotInv == SlotTypeOK /\ GapInv /\ PastInv /\ HashInv

\* The scan and the binary search give the same answer for every slot less
\* than WindowLen below the newest entry, whether it was recorded, skipped or
\* has not come yet; at any distance the scan gives no answer but that one.
SearchesAgree ==
    \A t \in Slots \ {0} :
        /\ Newest - t < WindowLen => FindSlothash(t) = GetSlothash(t)
        /\ FindSlothash(t) \subseteq GetSlothash(t)

\* get_slothash_from_lower_byte undoes the truncation of a recorded slot to
\* its low bits while the account spans fewer than LowMod slots, on either
\* side of the point where the low bits wrap.
LowBitsResolve ==
    Newest - Oldest < LowMod =>
        \A i \in Index : sysvar[i].slot > 0 =>
            FromLowerByte(sysvar[i].slot % LowMod) = {sysvar[i]}

\* What the doc of find_slothash_in_sysvar says: it "searches through the slot
\* hash sysvar to find the hash corresponding to the target slot", and its only
\* error is "Slot not found in the sysvar".
FindsEveryRecordedSlot ==
    \A i \in Index : sysvar[i].slot > 0 => FindSlothash(sysvar[i].slot) # {}
=============================================================================
