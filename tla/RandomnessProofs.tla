--------------------------- MODULE RandomnessProofs ---------------------------
(***************************************************************************)
(* For every window, every chain of banks and every order of commitments   *)
(* and reveals: no slot begins with a readable value, and what becomes     *)
(* readable in its course was drawn from the seed of that moment, a block  *)
(* older than the slot.                                                    *)
(***************************************************************************)
EXTENDS Randomness, SlotHashesProofs

RandomnessTypeOK ==
    /\ seed_slot \in Slots /\ seed_slothash \in Hashes \cup {NoHash}
    /\ reveal_slot \in Slots /\ value \in Hashes \cup {NoHash}

\* The seed is the hash of a block that was complete before the commitment,
\* and no reveal is dated ahead of the clock.
SeedOfPastBlock ==
    /\ seed_slothash # NoHash => seed_slothash.slot = seed_slot /\ seed_slot < clock
    /\ reveal_slot <= clock

RandomnessInv == RandomnessTypeOK /\ SeedOfPastBlock

\* The account by itself says too little: that a seed is older than the clock
\* rests on what the sysvar holds.
Inv == SlotInv /\ RandomnessInv

-----------------------------------------------------------------------------
(***************************************************************************)
(* The invariant.                                                          *)
(***************************************************************************)

\* Before the first commitment there is nothing to be dated wrongly.
LEMMA InitRandomness == Init => Inv
<1> SUFFICES ASSUME Init PROVE Inv
  OBVIOUS
<1>1. SlotInv
  BY SlotInitInv DEF Init
<1>2. RandomnessInv
  BY SlotHashesAssumption
     DEF Init, SlotInit, RandomnessInv, RandomnessTypeOK, SeedOfPastBlock, Slots
<1> QED
  BY <1>1, <1>2 DEF Inv

\* The newest entry, once there is one, is a hash of its own slot, and that
\* slot is over.
LEMMA NewestIsPast ==
  ASSUME SlotInv, clock > 0
  PROVE  /\ Newest \in Slots /\ Newest < clock
         /\ sysvar[0].hash \in Hashes /\ sysvar[0].hash.slot = Newest
<1>1. 0 \in Index
  BY SlotHashesAssumption DEF Index
<1>2. sysvar[0] \in Entries
  BY <1>1 DEF SlotInv, SlotTypeOK
<1>3. Newest < clock
  BY <1>1 DEF SlotInv, PastInv, Newest
<1>4. sysvar[0].hash.slot = Newest
  BY <1>1 DEF SlotInv, HashInv, Newest
<1> QED
  BY <1>2, <1>3, <1>4 DEF Newest, Entries

\* A new bank moves the clock on and leaves the account alone.
LEMMA BankRandomness == ASSUME Inv, Bank PROVE Inv'
<1>1. PICK s \in Slots, f \in Forks : NewBank(s, f)
  BY DEF Bank, SlotNext
<1>2. SlotInv'
  BY <1>1, NewBankInv DEF Inv
<1>3. clock \in Int /\ clock' \in Int /\ clock < clock'
  BY <1>1, SlotHashesAssumption DEF NewBank, Inv, SlotInv, SlotTypeOK, Slots
<1>4. RandomnessTypeOK'
  BY DEF Inv, RandomnessInv, RandomnessTypeOK, Bank, account
<1>5. SeedOfPastBlock'
  <2>1. seed_slot \in Int /\ reveal_slot \in Int
    BY SlotHashesAssumption DEF Inv, RandomnessInv, RandomnessTypeOK, Slots
  <2>2. UNCHANGED <<seed_slot, seed_slothash, reveal_slot>>
    BY DEF Bank, account
  <2> QED
    BY <1>3, <2>1, <2>2 DEF Inv, RandomnessInv, SeedOfPastBlock
<1> QED
  BY <1>2, <1>4, <1>5 DEF Inv, RandomnessInv

\* A commitment takes a seed that is older than the clock, and at most wipes
\* the value.
LEMMA CommitRandomness == ASSUME Inv, NEW k, Commit(k) PROVE Inv'
<1>1. clock > 0 /\ UNCHANGED slotVars /\ seed_slot' = Newest /\ seed_slothash' = sysvar[0].hash
  BY DEF Commit
<1>2. SlotInv'
  BY <1>1 DEF slotVars, Inv, SlotInv, SlotTypeOK, GapInv, PastInv, HashInv
<1>3. /\ Newest \in Slots /\ Newest < clock
      /\ sysvar[0].hash \in Hashes /\ sysvar[0].hash.slot = Newest
  BY <1>1, NewestIsPast DEF Inv
<1>4. \/ UNCHANGED <<reveal_slot, value>>
      \/ reveal_slot' = 0 /\ value' = NoHash
  BY DEF Commit
<1>5. RandomnessTypeOK'
  BY <1>1, <1>3, <1>4, SlotHashesAssumption DEF Inv, RandomnessInv, RandomnessTypeOK, Slots
<1>6. SeedOfPastBlock'
  <2>1. clock' = clock /\ clock \in Nat
    BY <1>1, SlotHashesAssumption DEF slotVars, Inv, SlotInv, SlotTypeOK, Slots
  <2>2. seed_slothash'.slot = seed_slot' /\ seed_slot' < clock'
    BY <1>1, <1>3, <2>1
  <2>3. reveal_slot' <= clock'
    BY <1>1, <1>4, <2>1 DEF Inv, RandomnessInv, SeedOfPastBlock
  <2> QED
    BY <2>2, <2>3 DEF SeedOfPastBlock
<1> QED
  BY <1>2, <1>5, <1>6 DEF Inv, RandomnessInv

\* A reveal is dated with the clock and leaves the seed alone.
LEMMA RevealRandomness == ASSUME Inv, Reveal PROVE Inv'
<1>1. UNCHANGED <<clock, sysvar, seed_slot, seed_slothash>>
  BY DEF Reveal, slotVars
<1>2. value' = seed_slothash /\ reveal_slot' = clock
  BY DEF Reveal, Drawn
<1>3. SlotInv'
  BY <1>1 DEF Inv, SlotInv, SlotTypeOK, GapInv, PastInv, HashInv
<1>4. clock \in Slots
  BY DEF Inv, SlotInv, SlotTypeOK
<1>5. RandomnessTypeOK'
  BY <1>1, <1>2, <1>4 DEF Inv, RandomnessInv, RandomnessTypeOK
<1>6. SeedOfPastBlock'
  <2>1. reveal_slot' <= clock'
    BY <1>1, <1>2, <1>4, SlotHashesAssumption DEF Slots
  <2> QED
    BY <1>1, <2>1 DEF Inv, RandomnessInv, SeedOfPastBlock
<1> QED
  BY <1>3, <1>5, <1>6 DEF Inv, RandomnessInv

\* Every step preserves the invariant.
LEMMA NextRandomness == Inv /\ [Next]_vars => Inv'
<1> SUFFICES ASSUME Inv, [Next]_vars PROVE Inv'
  OBVIOUS
<1>1. CASE Bank
  BY <1>1, BankRandomness
<1>2. CASE \E k \in {Wallet} \cup Strangers : Commit(k)
  BY <1>2, CommitRandomness
<1>3. CASE Reveal
  BY <1>3, RevealRandomness
<1>4. CASE UNCHANGED vars
  BY <1>4 DEF vars, account, slotVars, Inv, SlotInv, SlotTypeOK, GapInv, PastInv, HashInv,
              RandomnessInv, RandomnessTypeOK, SeedOfPastBlock
<1> QED
  BY <1>1, <1>2, <1>3, <1>4 DEF Next

-----------------------------------------------------------------------------
(***************************************************************************)
(* The theorem.                                                            *)
(***************************************************************************)

\* The clock runs past every reveal, so nothing is readable when a slot begins;
\* and only a reveal makes something readable, from the seed it finds.
LEMMA StepReveals ==
  ASSUME Inv, [Next]_vars
  PROVE  \/ /\ clock' # clock => get_value(clock)' = {}
            /\ ~ (get_value(clock)' \subseteq get_value(clock)) =>
                 /\ get_value(clock)' = {Drawn(seed_slothash)}
                 /\ is_revealable(clock)
                 /\ seed_slothash.slot < clock'
         \/ UNCHANGED vars
<1>1. clock \in Int /\ reveal_slot \in Int /\ reveal_slot <= clock
  BY SlotHashesAssumption
     DEF Inv, SlotInv, SlotTypeOK, RandomnessInv, RandomnessTypeOK, SeedOfPastBlock, Slots
<1>2. CASE Bank
  <2>1. clock' \in Int /\ clock < clock' /\ reveal_slot' = reveal_slot
    BY <1>2, SlotHashesAssumption DEF Bank, SlotNext, NewBank, Slots, account
  <2>2. get_value(clock)' = {}
    BY <1>1, <2>1 DEF get_value
  <2> QED
    BY <2>2
<1>3. CASE \E k \in {Wallet} \cup Strangers : Commit(k)
  <2>1. PICK k \in {Wallet} \cup Strangers : Commit(k)
    BY <1>3
  <2>2. clock' = clock /\ clock > 0
    BY <2>1 DEF Commit, slotVars
  <2>3. CASE UNCHANGED <<reveal_slot, value>>
    BY <2>2, <2>3 DEF get_value
  <2>4. CASE reveal_slot' = 0 /\ value' = NoHash
    <3>1. get_value(clock)' = {}
      BY <1>1, <2>2, <2>4 DEF get_value
    <3> QED
      BY <2>2, <3>1
  <2> QED
    BY <2>1, <2>3, <2>4 DEF Commit
<1>4. CASE Reveal
  <2>1. /\ clock' = clock /\ reveal_slot' = clock
        /\ value' = Drawn(seed_slothash) /\ is_revealable(clock)
    BY <1>4 DEF Reveal, slotVars
  <2>2. get_value(clock)' = {Drawn(seed_slothash)}
    BY <2>1 DEF get_value
  <2>3. seed_slothash.slot < clock'
    BY <1>4, <2>1 DEF Reveal, Inv, RandomnessInv, SeedOfPastBlock
  <2> QED
    BY <2>1, <2>2, <2>3
<1> QED
  BY <1>2, <1>3, <1>4 DEF Next

\* No slot begins with a readable value, and what becomes readable in its course
\* was drawn from the seed committed at that moment, the hash of a block that
\* was complete before the slot.
THEOREM NothingReadableAtFirst == Spec => ReadableWhenRevealed
<1>1. Inv /\ [Next]_vars =>
        [/\ clock' # clock => get_value(clock)' = {}
         /\ ~ (get_value(clock)' \subseteq get_value(clock)) =>
              /\ get_value(clock)' = {Drawn(seed_slothash)}
              /\ is_revealable(clock)
              /\ seed_slothash.slot < clock']_vars
  BY StepReveals
<1> QED
  BY <1>1, InitRandomness, NextRandomness, PTL DEF Spec, ReadableWhenRevealed
=============================================================================
