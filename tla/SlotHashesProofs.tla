-------------------------- MODULE SlotHashesProofs --------------------------
(***************************************************************************)
(* For every window length, every modulus and every chain of banks: the    *)
(* entries of the sysvar are ordered and spaced, and therefore the scan of *)
(* quote_verifier.rs and the binary search of slothash_sysvar.rs agree.    *)
(***************************************************************************)
EXTENDS SlotHashes, TLAPS

-----------------------------------------------------------------------------
(***************************************************************************)
(* The invariant.                                                          *)
(***************************************************************************)

\* The empty sysvar of the first bank satisfies the invariant.
LEMMA SlotInitInv == SlotInit => SlotInv
<1> SUFFICES ASSUME SlotInit PROVE SlotInv
  OBVIOUS
<1> USE SlotHashesAssumption DEF SlotInit, Padding, Index, Slots
<1>1. SlotTypeOK
  BY DEF SlotTypeOK, Entries, Hashes, BlockHash
<1>2. GapInv
  BY DEF GapInv
<1>3. PastInv
  BY DEF PastInv
<1>4. HashInv
  BY DEF HashInv, BlockHash
<1> QED
  BY <1>1, <1>2, <1>3, <1>4 DEF SlotInv

\* A new bank preserves it: the entry it pushes is its parent's, which is
\* later than all the others, and the others move one place down together.
LEMMA NewBankInv ==
  ASSUME SlotInv, NEW s \in Slots, NEW f \in Forks, NewBank(s, f)
  PROVE  SlotInv'
<1> USE SlotHashesAssumption DEF SlotInv
<1>1. /\ WindowLen \in Nat \ {0} /\ MaxSlot \in Nat
      /\ clock \in Nat /\ s \in Nat /\ clock < s
      /\ \A i \in Index : sysvar[i] \in Entries /\ sysvar[i].slot \in Nat
  BY DEF SlotTypeOK, NewBank, Slots, Entries
<1>2. \A i \in Index : i # 0 => i - 1 \in Index
  BY <1>1 DEF Index
<1>3. SlotTypeOK'
  <2>1. clock' \in Slots
    BY DEF NewBank
  <2>2. [slot |-> clock, hash |-> BlockHash(clock, f)] \in Entries
    BY DEF SlotTypeOK, Entries, Hashes, BlockHash
  <2>3. sysvar' \in [Index -> Entries]
    BY <1>1, <1>2, <2>2 DEF NewBank
  <2> QED
    BY <2>1, <2>3 DEF SlotTypeOK
<1>4. \A i \in Index : sysvar'[i].slot = IF i = 0 THEN clock ELSE sysvar[i - 1].slot
  BY DEF NewBank
<1>5. GapInv'
  <2> SUFFICES ASSUME NEW i \in Index, NEW j \in Index, i < j, sysvar'[j].slot > 0
               PROVE  sysvar'[i].slot - sysvar'[j].slot >= j - i
    BY DEF GapInv
  <2>1. j # 0 /\ j - 1 \in Index /\ i \in Int /\ j \in Int /\ 0 <= i
    BY <1>1 DEF Index
  <2>2. sysvar'[j].slot = sysvar[j - 1].slot /\ sysvar[j - 1].slot > 0
    BY <1>4, <2>1
  <2>3. CASE i = 0
    <3>1. sysvar'[i].slot = clock
      BY <1>4, <2>3
    <3>2. 0 \in Index /\ sysvar[0].slot < clock
      BY <1>1, <2>1, <2>2 DEF PastInv, Index
    <3>3. sysvar[0].slot - sysvar[j - 1].slot >= j - 1
      <4>1. CASE j = 1
        BY <4>1, <1>1, <2>1, <3>2
      <4>2. CASE j # 1
        BY <4>2, <1>1, <2>1, <2>2, <3>2 DEF GapInv
      <4> QED
        BY <4>1, <4>2
    <3> QED
      BY <1>1, <2>1, <2>2, <2>3, <3>1, <3>2, <3>3
  <2>4. CASE i # 0
    <3>1. i - 1 \in Index /\ i - 1 < j - 1 /\ sysvar'[i].slot = sysvar[i - 1].slot
      BY <1>2, <1>4, <2>1, <2>4
    <3>2. sysvar[i - 1].slot - sysvar[j - 1].slot >= (j - 1) - (i - 1)
      BY <2>1, <2>2, <3>1 DEF GapInv
    <3> QED
      BY <2>1, <2>2, <3>1, <3>2
  <2> QED
    BY <2>3, <2>4
<1>6. PastInv'
  <2> SUFFICES ASSUME NEW i \in Index
               PROVE  sysvar'[i].slot < clock'
    BY DEF PastInv
  <2>1. clock' = s
    BY DEF NewBank
  <2>2. CASE i = 0
    BY <1>1, <1>4, <2>1, <2>2
  <2>3. CASE i # 0
    BY <1>1, <1>2, <1>4, <2>1, <2>3 DEF PastInv
  <2> QED
    BY <2>2, <2>3
<1>7. HashInv'
  BY <1>2 DEF HashInv, NewBank, BlockHash
<1> QED
  BY <1>3, <1>5, <1>6, <1>7

\* SlotHashes stays ordered and spaced for ever: every recorded slot is in the
\* past and at least as many slots below an earlier entry as it is places below.
THEOREM SlotInvariance == SlotSpec => []SlotInv
<1>1. SlotInv /\ [SlotNext]_slotVars => SlotInv'
  <2> SUFFICES ASSUME SlotInv, [SlotNext]_slotVars PROVE SlotInv'
    OBVIOUS
  <2>1. CASE SlotNext
    BY <2>1, NewBankInv DEF SlotNext
  <2>2. CASE UNCHANGED slotVars
    BY <2>2 DEF slotVars, SlotInv, SlotTypeOK, GapInv, PastInv, HashInv
  <2> QED
    BY <2>1, <2>2
<1> QED
  BY <1>1, SlotInitInv, PTL DEF SlotSpec

-----------------------------------------------------------------------------
(***************************************************************************)
(* The searches.                                                           *)
(***************************************************************************)

\* While the target is less than WindowLen below the newest entry, the
\* estimate is the distance in slots: neither modulus takes anything away.
LEMMA EstimateIsDistance ==
  ASSUME SlotInv, NEW t \in Slots, t <= Newest, Newest - t < WindowLen
  PROVE  EstimatedIdx(t) = Newest - t
<1>1. /\ 0 \in Index /\ Newest \in 0 .. MaxSlot /\ t \in 0 .. MaxSlot
      /\ WindowLen \in Nat \ {0} /\ U64 \in Nat /\ MaxSlot \in Nat /\ MaxSlot < U64
  BY SlotHashesAssumption DEF SlotInv, SlotTypeOK, Entries, Slots, Index, Newest
<1> DEFINE d == Newest - t
<1>2. d \in Nat /\ d < U64 /\ d < WindowLen
  BY <1>1
<1> HIDE DEF d
<1>3. d % U64 = d /\ d % WindowLen = d
  BY <1>1, <1>2
<1> QED
  BY <1>3 DEF EstimatedIdx, d

\* A slot other than 0 has at most one entry.
LEMMA EntriesAreUnique ==
  ASSUME SlotInv, NEW t \in Slots \ {0}, NEW i \in At(t), NEW j \in At(t)
  PROVE  i = j
<1>1. i \in Int /\ j \in Int /\ i \in Index /\ j \in Index
  BY SlotHashesAssumption DEF At, Index
<1>2. sysvar[i].slot = t /\ sysvar[j].slot = t /\ t > 0 /\ t \in Int
  BY SlotHashesAssumption DEF At, Slots
<1>3. ~ (i < j) /\ ~ (j < i)
  BY <1>1, <1>2 DEF SlotInv, GapInv
<1> QED
  BY <1>1, <1>3

\* No entry is above the newest one.
LEMMA NewestIsLargest ==
  ASSUME SlotInv, NEW t \in Slots \ {0}, NEW i \in At(t)
  PROVE  t <= Newest /\ i <= Newest - t
<1>1. /\ i \in Index /\ 0 \in Index /\ i \in Int /\ 0 <= i
      /\ sysvar[i].slot = t /\ t \in Int /\ t > 0 /\ sysvar[0].slot \in Int
  BY SlotHashesAssumption DEF At, Index, SlotInv, SlotTypeOK, Entries, Slots
<1>2. CASE i = 0
  BY <1>1, <1>2 DEF Newest
<1>3. CASE i # 0
  BY <1>1, <1>3 DEF Newest, SlotInv, GapInv
<1> QED
  BY <1>2, <1>3

\* Whatever the estimate, a hit of the scan is the entry the search finds; and
\* within WindowLen of the newest entry the scan starts at or behind it.
LEMMA ScanIsSearch == SlotInv => SearchesAgree
<1>1. ASSUME SlotInv PROVE SearchesAgree
  <2> SUFFICES ASSUME NEW t \in Slots \ {0}
               PROVE  /\ Newest - t < WindowLen => FindSlothash(t) = GetSlothash(t)
                      /\ FindSlothash(t) \subseteq GetSlothash(t)
    BY DEF SearchesAgree
  <2>0. Newest \in Int /\ t \in Int
    BY <1>1, SlotHashesAssumption DEF Newest, SlotInv, SlotTypeOK, Entries, Slots, Index
  <2>1. FindSlothash(t) \subseteq GetSlothash(t)
    <3> SUFFICES ASSUME NEW i \in ScanHits(t) PROVE sysvar[i].hash \in GetSlothash(t)
      BY DEF FindSlothash
    <3>1. i \in At(t)
      BY DEF ScanHits
    <3>2. t <= Newest
      BY <1>1, <3>1, NewestIsLargest
    <3> QED
      BY <2>0, <3>1, <3>2 DEF GetSlothash, FindIdx
  <2>2. ASSUME Newest - t < WindowLen PROVE GetSlothash(t) \subseteq FindSlothash(t)
    <3> SUFFICES ASSUME NEW i \in At(t) PROVE sysvar[i].hash \in FindSlothash(t)
      BY DEF GetSlothash, FindIdx
    <3>1. t <= Newest /\ i <= Newest - t
      BY <1>1, NewestIsLargest
    <3>2. EstimatedIdx(t) = Newest - t
      BY <1>1, <2>2, <3>1, EstimateIsDistance
    <3>3. i \in ScanHits(t)
      BY <3>1, <3>2 DEF ScanHits
    <3>4. \A k \in ScanHits(t) : k <= i
      BY <1>1, <3>1, EntriesAreUnique, SlotHashesAssumption DEF ScanHits, At, Index
    <3> QED
      BY <3>3, <3>4 DEF FindSlothash
  <2> QED
    BY <2>1, <2>2
<1> QED
  BY <1>1

\* The scan and the binary search agree on every slot within WindowLen of the
\* newest entry, and the scan never returns anything else at any distance: the
\* quote verifier accepts a slot hash only if it is the hash of that slot.
THEOREM SearchAgreement == SlotSpec => []SearchesAgree
  BY ScanIsSearch, SlotInvariance, PTL

-----------------------------------------------------------------------------
(***************************************************************************)
(* The abbreviated slot.                                                   *)
(***************************************************************************)

\* Two numbers less than m apart have the same multiple of m below them, or
\* the larger one has the next multiple.
LEMMA NeighbouringMultiples ==
  ASSUME NEW m \in Nat \ {0}, NEW a \in Nat, NEW b \in Nat, a <= b, b - a < m
  PROVE  \/ b - (b % m) = a - (a % m)
         \/ b - (b % m) = (a - (a % m)) + m
<1> DEFINE p == a \div m
           q == b \div m
<1>1. /\ a = m * p + (a % m) /\ 0 <= a % m /\ a % m < m /\ p \in Int /\ a % m \in Int
      /\ b = m * q + (b % m) /\ 0 <= b % m /\ b % m < m /\ q \in Int /\ b % m \in Int
  OBVIOUS
<1> HIDE DEF p, q
<1>2. m * (q - p) = m * q - m * p /\ m * p \in Int /\ m * q \in Int
  BY <1>1
<1>3. m * (q - p) < 2 * m /\ m * (q - p) > -m
  BY <1>1, <1>2
<1>4. q - p < 2 /\ q - p > -1
  BY <1>1, <1>3
<1>5. q - p = 0 \/ q - p = 1
  BY <1>1, <1>4
<1> QED
  BY <1>1, <1>2, <1>5

\* A truncated slot is resolved to the recorded slot it came from while the
\* account spans fewer slots than the truncation can tell apart, even when the
\* low bits wrap between the oldest entry and the newest.
THEOREM LowBitsResolution == SlotSpec => []LowBitsResolve
<1>1. ASSUME SlotInv PROVE LowBitsResolve
  <2> SUFFICES ASSUME Newest - Oldest < LowMod,
                      NEW i \in Index, sysvar[i].slot > 0
               PROVE  FromLowerByte(sysvar[i].slot % LowMod) = {sysvar[i]}
    BY DEF LowBitsResolve
  <2> DEFINE s == sysvar[i].slot
             low == s % LowMod
             Resolve(u) == {[slot |-> u, hash |-> h] : h \in GetSlothash(u)}
  <2>1. /\ s \in Slots \ {0} /\ i \in At(s) /\ sysvar[i] = [slot |-> s, hash |-> sysvar[i].hash]
        /\ Oldest \in Slots /\ Newest \in Slots
    BY <1>1, SlotHashesAssumption
       DEF SlotInv, SlotTypeOK, Entries, Slots, Index, At, Oldest, Newest
  <2>2. s \in Nat /\ s > 0 /\ Oldest \in Nat /\ Newest \in Nat /\ LowMod \in Nat \ {0}
    BY <2>1, SlotHashesAssumption DEF Slots
  <2>3. s <= Newest
    BY <1>1, <2>1, NewestIsLargest
  <2>4. Oldest <= s
    <3>1. CASE Oldest = 0
      BY <3>1, <2>2
    <3>2. CASE Oldest # 0 /\ i = WindowLen - 1
      BY <3>2, <2>2 DEF Oldest
    <3>3. CASE Oldest # 0 /\ i # WindowLen - 1
      <4>1. /\ i \in Int /\ WindowLen - 1 \in Index /\ i < WindowLen - 1
            /\ WindowLen - 1 \in Int
        BY <3>3, SlotHashesAssumption DEF Index
      <4>2. s - Oldest >= (WindowLen - 1) - i
        BY <1>1, <2>2, <3>3, <4>1 DEF SlotInv, GapInv, Oldest
      <4> QED
        BY <2>2, <4>1, <4>2
    <3> QED
      BY <3>1, <3>2, <3>3
  <2>5. \A u \in Slots \ {0} : u = s => Resolve(u) = {sysvar[i]}
    <3>1. GetSlothash(s) = {sysvar[i].hash}
      <4>1. At(s) = {i}
        BY <1>1, <2>1, EntriesAreUnique
      <4> QED
        BY <2>2, <2>3, <4>1 DEF GetSlothash, FindIdx
    <3> QED
      BY <2>1, <3>1
  <2>6. \A u \in Nat : u > Newest => Resolve(u) = {}
    BY <2>2 DEF GetSlothash
  <2> HIDE DEF s, Resolve
  <2>7. FromLowerByte(low) = IF Resolve(WithLowBits(Newest, low)) # {}
                                THEN Resolve(WithLowBits(Newest, low))
                                ELSE Resolve(WithLowBits(Oldest, low))
    BY DEF FromLowerByte, Resolve
  <2>8. low \in Nat /\ low < LowMod /\ s - low \in Int
    BY <2>2
  <2>9. \/ Newest - (Newest % LowMod) = s - low
        \/ Newest - (Newest % LowMod) = (s - low) + LowMod
    <3>1. Newest - s < LowMod
      BY <2>2, <2>3, <2>4
    <3> QED
      BY <2>2, <2>3, <3>1, NeighbouringMultiples, Zenon
  <2>10. CASE Newest - (Newest % LowMod) = s - low
    <3>1. WithLowBits(Newest, low) = s
      BY <2>2, <2>8, <2>10 DEF WithLowBits
    <3> QED
      BY <2>1, <2>5, <2>7, <3>1 DEF s
  <2>11. CASE Newest - (Newest % LowMod) = (s - low) + LowMod
    <3>1. WithLowBits(Newest, low) = s + LowMod
      BY <2>2, <2>8, <2>11 DEF WithLowBits
    <3>2. s + LowMod > Newest /\ s + LowMod \in Nat
      BY <2>2, <2>3, <2>4
    <3>3. Resolve(WithLowBits(Newest, low)) = {}
      BY <2>6, <3>1, <3>2
    <3>4. WithLowBits(Oldest, low) = s
      <4>1. \/ Newest - (Newest % LowMod) = Oldest - (Oldest % LowMod)
            \/ Newest - (Newest % LowMod) = (Oldest - (Oldest % LowMod)) + LowMod
        <5>1. Oldest <= Newest
          BY <2>2, <2>3, <2>4
        <5> QED
          BY <2>2, <5>1, NeighbouringMultiples, Zenon
      <4>2. Oldest % LowMod \in Nat /\ Oldest % LowMod < LowMod
        BY <2>2
      <4>3. Newest - (Newest % LowMod) # Oldest - (Oldest % LowMod)
        BY <2>2, <2>4, <2>8, <2>11, <4>2
      <4> QED
        BY <2>2, <2>8, <2>11, <4>1, <4>2, <4>3 DEF WithLowBits
    <3> QED
      BY <2>1, <2>5, <2>7, <3>3, <3>4 DEF s
  <2> QED
    BY <2>9, <2>10, <2>11 DEF s
<1> QED
  BY <1>1, SlotInvariance, PTL
=============================================================================
