------------------------- MODULE QuoteAccountProofs -------------------------
(***************************************************************************)
(* For every buffer, byte base, marker and set of quotes: an account whose *)
(* quotes do not end inside its last bytes keeps the promise of QuoteCell  *)
(* for the quotes that fill it; one that every quote fills keeps it for    *)
(* all; and in one with TrailerLen bytes to spare the slot that a new      *)
(* quote is compared with is always zero.                                  *)
(***************************************************************************)
EXTENDS QuoteAccount, TLAPS

-----------------------------------------------------------------------------
(***************************************************************************)
(* The trailer as a number.                                                *)
(***************************************************************************)

\* A low digit below the modulus is what the modulus leaves.
LEMMA LowDigit ==
  ASSUME NEW m \in Nat \ {0}, NEW s \in Nat, NEW k \in Nat, s < m
  PROVE  (s + m * k) % m = s
<1> DEFINE x == s + m * k
           q == x \div m
           r == x % m
<1>0. x \in Nat
  OBVIOUS
<1>1. x = m * q + r /\ q \in Int /\ r \in Int /\ 0 <= r /\ r < m
  BY <1>0
<1> HIDE DEF q, r
<1>2. m * (k - q) = r - s
  BY <1>1
<1>3. m * (k - q) < m /\ m * (k - q) > -m /\ k - q \in Int
  BY <1>1, <1>2
<1>4. k - q < 1 /\ k - q > -1
  BY <1>3
<1>5. k = q
  BY <1>1, <1>4
<1> QED
  BY <1>1, <1>5 DEF r

\* A trailer is a number of TrailerLen digits whose low digits are the slot.
LEMMA TrailerDigits ==
  ASSUME NEW q \in Sources
  PROVE  /\ Trailer(q) \in 0 .. Base ^ TrailerLen - 1
         /\ Trailer(q) % Base ^ SlotLen = q.slot
<1> DEFINE m == Base ^ SlotLen
           k == q.version + Base * Marker
<1>1. m \in Nat \ {0} /\ q.slot \in Nat /\ q.slot < m
  BY AccountAssumption, DigitsAssumption DEF Slots
<1>2. k \in Nat
  BY AccountAssumption
<1> HIDE DEF m, k
<1>3. Trailer(q) = q.slot + m * k
  BY DEF Trailer, m, k
<1>4. Trailer(q) \in Nat
  BY <1>1, <1>2, <1>3
<1>5. Trailer(q) % m = q.slot
  BY <1>1, <1>2, <1>3, LowDigit
<1> QED
  BY <1>4, <1>5, DigitsAssumption DEF m

\* A quote that fills the buffer leaves its trailer at the end of it.
LEMMA FullWrite ==
  ASSUME NEW q \in Sources, Gap(q) = 0, TypeOK
  PROVE  TailAfter(q) = Trailer(q)
<1> DEFINE b == Base ^ TrailerLen
<1>1. Trailer(q) \in Nat /\ tail \in Nat /\ tail < b /\ b \in Nat
  BY TrailerDigits, DigitsAssumption DEF TypeOK
<1> HIDE DEF b
<1>2. tail % b = tail /\ Trailer(q) \div 1 = Trailer(q)
  BY <1>1
<1>3. TailAfter(q) = Trailer(q) \div 1 + (tail - (tail % b))
  BY DigitsAssumption DEF TailAfter, TrailerLen, b
<1> QED
  BY <1>1, <1>2, <1>3

-----------------------------------------------------------------------------
(***************************************************************************)
(* An account whose quotes do not end inside its last bytes.               *)
(***************************************************************************)

\* What validate_slot_progression reads is the slot of the last quote that
\* filled the buffer, and 0 before there is one.
LEMMA ExistingSlotIsFull ==
  ASSUME AccountInv
  PROVE  ExistingSlot = IF full = NoQuote THEN 0 ELSE full.slot
<1>1. CASE full = NoQuote
  <2> DEFINE m == Base ^ SlotLen
  <2>1. m \in Nat /\ m > 0
    BY AccountAssumption, DigitsAssumption
  <2> HIDE DEF m
  <2>2. 0 % m = 0
    BY <2>1
  <2> QED
    BY <1>1, <2>2 DEF AccountInv, WindowHoldsFull, ExistingSlot, m
<1>2. CASE full # NoQuote
  BY <1>2, TrailerDigits DEF AccountInv, TypeOK, WindowHoldsFull, ExistingSlot
<1> QED
  BY <1>1, <1>2

LEMMA AccountInitInv == AccountInit => AccountInv
<1> SUFFICES ASSUME AccountInit PROVE AccountInv
  OBVIOUS
<1>1. 0 \in 0 .. Base ^ TrailerLen - 1
  BY DigitsAssumption
<1> QED
  BY <1>1, AccountAssumption
     DEF AccountInit, AccountInv, TypeOK, WindowHoldsFull, Slots

\* What a write does: it is newer than the last quote that filled the buffer,
\* and fills the buffer itself or leaves its end alone.
LEMMA WriteEffect ==
  ASSUME NoOverlap, AccountInv, NEW q \in Sources, Write(q)
  PROVE  /\ q # NoQuote /\ q.slot \in Nat /\ q.slot < clock
         /\ full # NoQuote => full.slot <= q.slot
         /\ stored' = q /\ clock' = clock
         /\ \/ Gap(q) = 0 /\ full' = q /\ tail' = Trailer(q)
            \/ Gap(q) # 0 /\ full' = full /\ tail' = tail
<1>1. q # NoQuote /\ q.slot \in Nat /\ q.len \in Nat /\ Cap \in Nat
  BY AccountAssumption DEF Slots
<1>2. q.slot < clock /\ stored' = q /\ clock' = clock
  BY DEF Write, SlotProgresses
<1>3. ASSUME full # NoQuote PROVE full.slot <= q.slot
  <2>1. full.slot \in Int /\ ExistingSlot = full.slot /\ q.slot >= ExistingSlot
    BY <1>3, ExistingSlotIsFull, AccountAssumption
       DEF AccountInv, TypeOK, Slots, Write, SlotProgresses
  <2> QED
    BY <1>1, <2>1
<1>4. ASSUME Gap(q) = 0 PROVE full' = q /\ tail' = Trailer(q)
  BY <1>4, FullWrite DEF AccountInv, Write
<1>5. ASSUME Gap(q) # 0 PROVE full' = full /\ tail' = tail
  <2>1. Gap(q) >= TrailerLen
    BY <1>1, <1>5 DEF NoOverlap, Write, Fits, Gap
  <2> QED
    BY <1>5, <2>1 DEF Write, TailAfter
<1> QED
  BY <1>1, <1>2, <1>3, <1>4, <1>5

LEMMA AccountNextInv ==
  ASSUME NoOverlap, AccountInv, [AccountNext]_accountVars
  PROVE  AccountInv'
<1>1. CASE Tick
  <2>1. /\ clock' \in Slots /\ clock < clock' /\ clock \in Int /\ clock' \in Int
        /\ stored' = stored /\ tail' = tail /\ full' = full
    BY <1>1, AccountAssumption DEF Tick, AccountInv, TypeOK, Slots
  <2>2. TypeOK'
    BY <2>1 DEF AccountInv, TypeOK
  <2>3. ASSUME full # NoQuote PROVE full.slot < clock'
    <3>1. full.slot \in Int
      BY <2>3, AccountAssumption DEF AccountInv, TypeOK, Slots
    <3> QED
      BY <2>1, <2>3, <3>1 DEF AccountInv, WindowHoldsFull
  <2>4. WindowHoldsFull'
    BY <2>1, <2>3 DEF AccountInv, WindowHoldsFull, Trailer, Gap
  <2> QED
    BY <2>2, <2>4 DEF AccountInv
<1>2. ASSUME NEW q \in Sources, Write(q) PROVE AccountInv'
  <2>1. TypeOK'
    BY <1>2, WriteEffect, TrailerDigits DEF AccountInv, TypeOK
  <2>2. WindowHoldsFull'
    BY <1>2, WriteEffect DEF AccountInv, WindowHoldsFull, Trailer, Gap
  <2> QED
    BY <2>1, <2>2 DEF AccountInv
<1>3. CASE UNCHANGED accountVars
  BY <1>3 DEF accountVars, AccountInv, TypeOK, WindowHoldsFull, Trailer, Gap
<1> QED
  BY <1>1, <1>2, <1>3 DEF AccountNext

\* While no quote ends inside the last bytes of the buffer, those bytes are the
\* trailer of the last quote that filled it, and nothing older is stored.
THEOREM AccountInvariance == NoOverlap => (AccountSpec => []AccountInv)
<1> SUFFICES ASSUME NoOverlap PROVE AccountSpec => []AccountInv
  OBVIOUS
<1>1. AccountInv /\ [AccountNext]_accountVars => AccountInv'
  BY AccountNextInv
<1> QED
  BY <1>1, AccountInitInv, PTL DEF AccountSpec

\* Such an account keeps, for the quotes that fill it, the promise that the
\* documentation of write makes for all.
THEOREM AccountIsCell == NoOverlap => (AccountSpec => ImplementsCell)
<1> SUFFICES ASSUME NoOverlap PROVE AccountSpec => ImplementsCell
  OBVIOUS
<1>1. AccountInit => Cell!CellInit
  BY DEF AccountInit, Cell!CellInit
<1>2. ASSUME AccountInv, [AccountNext]_accountVars
      PROVE  [Cell!CellNext]_(Cell!cellVars)
  <2>1. CASE Tick
    BY <2>1 DEF Tick, Cell!CellNext, Cell!Tick
  <2>2. ASSUME NEW q \in Sources, Write(q) PROVE [Cell!CellNext]_(Cell!cellVars)
    <3>1. CASE Gap(q) = 0
      <4>1. Cell!Put(q)
        <5>1. /\ q.slot < clock /\ full' = q /\ clock' = clock
              /\ full # NoQuote => full.slot <= q.slot
          BY <1>2, <2>2, <3>1, WriteEffect
        <5>2. full # NoQuote => q.slot >= full.slot
          BY <5>1
        <5> QED
          BY <5>1, <5>2 DEF Cell!Put
      <4> QED
        BY <4>1 DEF Cell!CellNext
    <3>2. CASE Gap(q) # 0
      BY <1>2, <2>2, <3>2, WriteEffect DEF Cell!cellVars
    <3> QED
      BY <3>1, <3>2
  <2>3. CASE UNCHANGED accountVars
    BY <2>3 DEF accountVars, Cell!cellVars
  <2> QED
    BY <1>2, <2>1, <2>2, <2>3 DEF AccountNext
<1>3. AccountSpec => []AccountInv
  BY AccountInvariance
<1> QED
  BY <1>1, <1>2, <1>3, PTL DEF AccountSpec, ImplementsCell, Cell!CellSpec

\* Nor does such an account refuse a quote as new as what it holds.
THEOREM NewerAccepted == AccountSpec => []NewerQuoteAccepted
<1>1. ASSUME NoOverlap PROVE AccountSpec => []NewerQuoteAccepted
  <2>1. ASSUME AccountInv PROVE NewerQuoteAccepted
    <3> SUFFICES ASSUME NEW q \in Sources, q.len >= TrailerLen, q.slot < clock,
                        \A p \in {stored, full} \ {NoQuote} : q.slot >= p.slot
                 PROVE  q.slot >= ExistingSlot
      BY DEF NewerQuoteAccepted, NeverRefusesNewer, SlotProgresses
    <3>1. CASE full = NoQuote
      BY <1>1, <2>1, <3>1, ExistingSlotIsFull, AccountAssumption DEF Slots
    <3>2. CASE full # NoQuote
      BY <1>1, <2>1, <3>2, ExistingSlotIsFull
    <3> QED
      BY <3>1, <3>2
  <2> QED
    BY <1>1, <2>1, AccountInvariance, PTL
<1>2. ASSUME ~ NoOverlap PROVE AccountSpec => []NewerQuoteAccepted
  <2>1. NewerQuoteAccepted
    BY <1>2 DEF NewerQuoteAccepted
  <2> QED
    BY <2>1, PTL
<1> QED
  BY <1>1, <1>2

\* A quote that fills such an account is the one that the next quote is compared
\* with, so that no older one replaces it.
THEOREM FilledNeverRegresses == NoOverlap => (AccountSpec => FilledQuoteNeverRegresses)
<1> SUFFICES ASSUME NoOverlap PROVE AccountSpec => FilledQuoteNeverRegresses
  OBVIOUS
<1>1. ASSUME AccountInv, [AccountNext]_accountVars
      PROVE  [stored # NoQuote /\ Gap(stored) = 0 => stored'.slot >= stored.slot]_stored
  <2> SUFFICES ASSUME stored # NoQuote, Gap(stored) = 0, stored' # stored
               PROVE  stored'.slot >= stored.slot
    OBVIOUS
  <2>1. PICK q \in Sources : Write(q)
    BY <1>1 DEF AccountNext, Tick, accountVars
  <2>2. full = stored
    BY <1>1 DEF AccountInv, WindowHoldsFull
  <2>3. stored' = q /\ full.slot <= q.slot
    BY <1>1, <2>1, <2>2, WriteEffect
  <2> QED
    BY <2>2, <2>3
<1> QED
  BY <1>1, AccountInvariance, PTL DEF AccountSpec, FilledQuoteNeverRegresses

-----------------------------------------------------------------------------
(***************************************************************************)
(* An account that every quote fills.                                      *)
(***************************************************************************)

\* When every quote fills the buffer, the documented progression holds of the
\* quotes that are stored.
THEOREM FilledAccountNeverRegresses ==
  ExactFit => (AccountSpec => StoredSlotNeverRegresses)
<1> SUFFICES ASSUME ExactFit PROVE AccountSpec => StoredSlotNeverRegresses
  OBVIOUS
<1>1. NoOverlap
  BY AccountAssumption DEF ExactFit, NoOverlap, Gap
<1>2. AccountSpec => []AccountInv /\ FilledQuoteNeverRegresses
  BY <1>1, AccountInvariance, FilledNeverRegresses
<1>3. ASSUME AccountInv,
             [stored # NoQuote /\ Gap(stored) = 0 => stored'.slot >= stored.slot]_stored
      PROVE  [stored # NoQuote => stored'.slot >= stored.slot]_stored
  BY <1>3 DEF AccountInv, TypeOK, ExactFit
<1> QED
  BY <1>2, <1>3, PTL DEF FilledQuoteNeverRegresses, StoredSlotNeverRegresses

-----------------------------------------------------------------------------
(***************************************************************************)
(* An account with room to spare.                                          *)
(***************************************************************************)

\* The last TrailerLen bytes of the buffer are as allocated; no quote reaches
\* them.
WindowUnwritten == tail = 0
Roomy == \A q \in Sources : q.len + 2 + TrailerLen <= Cap

\* The bytes that validate_slot_progression reads are then never written: every
\* quote is compared with slot 0, whatever the account holds.
THEOREM RoomyAccountComparesWithZero == Roomy => (AccountSpec => []WindowUnwritten)
<1> SUFFICES ASSUME Roomy PROVE AccountSpec => []WindowUnwritten
  OBVIOUS
<1>1. AccountInit => WindowUnwritten
  BY DEF AccountInit, WindowUnwritten
<1>2. WindowUnwritten /\ [AccountNext]_accountVars => WindowUnwritten'
  <2>1. ASSUME NEW q \in Sources PROVE TailAfter(q) = tail
    BY <2>1, AccountAssumption DEF Roomy, TailAfter, Gap, TrailerLen
  <2> QED
    BY <2>1 DEF WindowUnwritten, AccountNext, Tick, Write, accountVars
<1> QED
  BY <1>1, <1>2, PTL DEF AccountSpec
=============================================================================
