----------------------------- MODULE Randomness -----------------------------
(***************************************************************************)
(* A randomness account: the program that reads its value with get_value,  *)
(* and the commitments and reveals that race with the read.                *)
(*                                                                         *)
(* Commit and Reveal are the Switchboard program's, modelled from the      *)
(* fields of the account and from the accounts that RandomnessCommit       *)
(* hands over: a commitment takes the newest entry of the SlotHashes       *)
(* sysvar for its seed, a reveal stores the value the oracle drew from the *)
(* seed and the slot it did so in.  A value is told apart by its seed.     *)
(* Whether a commitment wipes the value revealed before is not the SDK's   *)
(* to say, so both are possible.                                           *)
(***************************************************************************)
EXTENDS SlotHashes

CONSTANTS
    NoHash,    \* the all-zero hash and value of an account without commitment
    Wallet,    \* the account's authority
    Strangers  \* other keys that may stand behind the authority account

ASSUME RandomnessAssumption == NoHash \notin Hashes

VARIABLES
    seed_slot,      \* slot and
    seed_slothash,  \* hash that the last commitment took for its seed
    reveal_slot,    \* slot of the last reveal
    value           \* seed that the revealed value was drawn from

account == <<seed_slot, seed_slothash, reveal_slot, value>>
vars == <<slotVars, account>>

Init ==
    /\ SlotInit
    /\ seed_slot = 0 /\ seed_slothash = NoHash
    /\ reveal_slot = 0 /\ value = NoHash

Drawn(seed) == seed

\* Mutant: a value stays readable after its slot.
get_value_NotBefore(clock_slot) == IF clock_slot < reveal_slot THEN {} ELSE {value}

\* SwitchboardRandomnessTooOld in every slot but that of the reveal.
get_value(clock_slot) == IF clock_slot # reveal_slot THEN {} ELSE {value}

is_revealable(clock_slot) == seed_slot < clock_slot

\* The program takes the commitment of an instruction that names the sysvar
\* and that the authority signed.
RandomnessCommitMetas(authority) ==
    [signers |-> {authority}, readonly |-> {"queue", "SlotHashes", authority},
     writable |-> {"randomness", "oracle"}]

Commit(authority) ==
    LET metas == RandomnessCommitMetas(authority)
    IN  /\ Wallet \in metas.signers /\ "SlotHashes" \in metas.readonly
        /\ "randomness" \in metas.writable
        /\ clock > 0
        /\ seed_slot' = Newest /\ seed_slothash' = sysvar[0].hash
        /\ \/ UNCHANGED <<reveal_slot, value>>
           \/ reveal_slot' = 0 /\ value' = NoHash
        /\ UNCHANGED slotVars

Reveal ==
    /\ is_revealable(clock)
    /\ seed_slothash # NoHash
    /\ value' = Drawn(seed_slothash) /\ reveal_slot' = clock
    /\ UNCHANGED <<slotVars, seed_slot, seed_slothash>>

Bank == SlotNext /\ UNCHANGED account

Next ==
    \/ Bank
    \/ \E k \in {Wallet} \cup Strangers : Commit(k)
    \/ Reveal

Spec == Init /\ [][Next]_vars

-----------------------------------------------------------------------------
\* Nothing is readable when a slot begins: the value of an earlier reveal is not,
\* unless it is revealed anew.  What becomes readable in the course of a slot is
\* one value, drawn from the seed committed at that moment, and the block of
\* that seed was complete before the slot.  A seed may be revealed again in a
\* later slot, and its value, known by then, is readable there once more; and a
\* commitment in the slot of a reveal may leave the value of the seed before it
\* readable: a program that cares has to look at seed_slot itself.
ReadableWhenRevealed ==
    [][/\ clock' # clock => get_value(clock)' = {}
       /\ ~ (get_value(clock)' \subseteq get_value(clock)) =>
            /\ get_value(clock)' = {Drawn(seed_slothash)}
            /\ is_revealable(clock)
            /\ seed_slothash.slot < clock']_vars
=============================================================================
