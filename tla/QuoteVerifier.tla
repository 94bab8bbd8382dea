---------------------------- MODULE QuoteVerifier ----------------------------
(***************************************************************************)
(* An oracle quote from signature to consumer: oracles sign a recent slot  *)
(* hash with their feeds, a crank stores the Ed25519 instruction in an     *)
(* oracle account (OracleQuote::write_from_ix), and any number of slots    *)
(* later a consumer verifies what is stored (QuoteVerifier::verify_account)*)
(* against the clock, the SlotHashes and the queue of that moment.         *)
(*                                                                         *)
(* Verification changes nothing, so it is an operator: in every state the  *)
(* properties say what would come of verifying the account there and then. *)
(* The oracles and the queue program are outside this repository.          *)
(***************************************************************************)
EXTENDS SlotHashes, QuoteLayout, Sequences, FiniteSets

CONSTANTS
    Keys,         \* oracle signing keys
    NoKey,        \* the zero key of an empty place in the queue
    QueueLen,     \* places in the queue: 30 in the source
    QueueInit,    \* the keys the queue starts with
    Own,          \* the fork that names this chain's block in every slot
    Feeds,        \* feed values an oracle can sign
    FeedCount,    \* number of feeds of a quote
    OracleIdxs,   \* oracle indexes a quote can carry: any byte in the source
    AllKeys, TxIndexes, MaxSigs, MaxFeeds,  \* see Ed25519Instruction
    Foreign,      \* entries that refer to other instructions, of those possible
    ProgramIx,    \* the instruction index the crank's program passes
    MaxAge,       \* max_age of the consumer's verifier
    Cap, NoQuote, Base, Marker, Version,        \* see QuoteAccount
    MaxSigned,    \* bound: signatures made
    MaxRotations, \* bound: changes to the queue
    MaxWrites     \* bound: quotes stored

VARIABLES
    signed,     \* pairs <<key, message>> for which a signature exists
    queueKeys,  \* ed25519_oracle_signing_keys of the queue account
    rotations,  \* changes to the queue so far
    writes,     \* quotes stored so far
    stored,     \* the quote in the oracle account
    tail, full  \* the end of its buffer, and the quote that last filled it

vars == <<clock, sysvar, signed, queueKeys, rotations, writes, stored, tail, full>>

\* The message an oracle signs: PackedQuoteHeader and the feed infos.
Messages == [hash : Hashes, feed : Feeds]

Ed == INSTANCE Ed25519Instruction

ASSUME VerifierAssumption ==
    /\ NoKey \notin Keys /\ AllKeys = Keys \cup {NoKey}
    /\ Foreign \subseteq Ed!Entries
    /\ Own \in Forks
    /\ QueueLen \in Nat \ {0}
    /\ QueueInit \in [0 .. QueueLen - 1 -> Keys \cup {NoKey}]
    /\ OracleIdxs \subseteq Nat
    /\ MaxSigs \in Nat \ {0}
    /\ ProgramIx \in TxIndexes
    /\ MaxAge \in Nat /\ MaxRotations \in Nat /\ MaxWrites \in Nat
    /\ FeedCount \in Nat /\ FeedCount <= MaxFeeds

\* The data of an Ed25519 instruction; only the messages are signed, not the
\* oracle indexes nor the slot that follow them.
Quote(entries, idxs, slot) ==
    [entries |-> entries, idxs |-> idxs, slot |-> slot,
     version |-> Version,
     len |-> QuoteLen(Len(entries), FeedCount)]
Quotes ==
    [entries : Seq(Ed!Entries), idxs : Seq(OracleIdxs), slot : Slots,
     version : {Version}, len : Nat]

Account == INSTANCE QuoteAccount WITH Sources <- Quotes

-----------------------------------------------------------------------------
Init ==
    /\ SlotInit
    /\ signed = {}
    /\ queueKeys = QueueInit
    /\ rotations = 0
    /\ writes = 0
    /\ Account!AccountInit

\* An oracle signs the newest slot hash of the fork it follows: this chain or
\* another.  Slot 0, whose number the padding of SlotHashes carries too, is
\* where the model's chain starts; nobody signs it.
Sign(k, f, v) ==
    /\ Newest > 0
    /\ Cardinality(signed) < MaxSigned
    /\ signed' = signed \cup {<<k, [hash |-> BlockHash(Newest, f), feed |-> v]>>}
    /\ UNCHANGED <<clock, sysvar, queueKeys, rotations, writes, stored, tail, full>>

\* The queue program replaces a signing key, or removes it.
RotateKey(i, k) ==
    /\ rotations < MaxRotations
    /\ rotations' = rotations + 1
    /\ queueKeys' = [queueKeys EXCEPT ![i] = k]
    /\ UNCHANGED <<clock, sysvar, signed, writes, stored, tail, full>>

\* write_from_ix: a transaction whose Ed25519 instruction the precompile has
\* accepted stores it, with whatever indexes and slot follow the messages.
\* Nothing is compared with the queue or with SlotHashes here.
WriteFromIx(entries, idxs, slot) ==
    /\ writes < MaxWrites
    /\ writes' = writes + 1
    /\ Ed!PrecompileAccepts(entries, ProgramIx, signed)
    /\ Ed!ExtractIxData(entries, ProgramIx)
    /\ Account!Write(Quote(entries, idxs, slot))
    /\ UNCHANGED <<sysvar, signed, queueKeys, rotations>>

\* Which fork wins a slot is only a matter of names: the winner is Own.
Bank ==
    /\ \E s \in Slots : NewBank(s, Own)
    /\ UNCHANGED <<signed, queueKeys, rotations, writes, stored, tail, full>>

\* What a transaction can carry: entries that refer to the instruction itself,
\* which need a signature, and those of Foreign, which do not.
LocalEntries ==
    {[key |-> p[1], msg |-> p[2],
      sigIx |-> ProgramIx, keyIx |-> ProgramIx, msgIx |-> ProgramIx] : p \in signed}
EntryLists == UNION {[1 .. n -> LocalEntries \cup Foreign] : n \in 1 .. MaxSigs}

Crank ==
    \E entries \in EntryLists :
        \E idxs \in [DOMAIN entries -> OracleIdxs], slot \in Slots :
            WriteFromIx(entries, idxs, slot)

Next ==
    \/ Bank
    \/ \E k \in Keys, f \in Forks, v \in Feeds : Sign(k, f, v)
    \/ \E i \in 0 .. QueueLen - 1, k \in Keys \cup {NoKey} : RotateKey(i, k)
    \/ Crank

Spec == Init /\ [][Next]_vars

-----------------------------------------------------------------------------
(***************************************************************************)
(* Verification.                                                           *)
(***************************************************************************)

\* Mutant: the comparison with max_age the wrong way round.
FreshEnough_Swapped(q) == clock >= q.slot /\ clock - q.slot >= MaxAge

FreshEnough(q) == clock >= q.slot /\ clock - q.slot <= MaxAge

\* Mutant: the slot hash is looked up and not compared.
SlothashMatches_FoundOnly(q) == FindSlothash(q.slot) # {}

\* The signed slot hash is the one SlotHashes has for the quote's slot.
SlothashMatches(q) == FindSlothash(q.slot) = {Ed!Message(q.entries).hash}

\* Mutant: only the first key is compared with the queue.
KeysMatch_FirstOnly(q) == queueKeys[q.idxs[1] % QueueLen] = q.entries[1].key

\* Every key is the one the queue has at the index that the quote gives for it.
KeysMatch(q) ==
    \A i \in DOMAIN q.entries :
        queueKeys[q.idxs[i] % QueueLen] = q.entries[i].key

\* verify
Verify(q) ==
    /\ Ed!ParseInstruction(q.entries, FeedCount)
    /\ FreshEnough(q)
    /\ SlothashMatches(q)
    /\ KeysMatch(q)

\* verify_account on the account as it stands.
VerifyAccount == stored # NoQuote /\ Verify(stored)

-----------------------------------------------------------------------------
(***************************************************************************)
(* Properties.                                                             *)
(***************************************************************************)

\* Signatures are over messages by keys, and the queue keeps its places.
TypeOK ==
    /\ SlotTypeOK
    /\ signed \subseteq Keys \X Messages
    /\ queueKeys \in [0 .. QueueLen - 1 -> Keys \cup {NoKey}]
    /\ rotations \in 0 .. MaxRotations /\ writes \in 0 .. MaxWrites

\* What the precompile and extract_ix_data established when a quote was written
\* still holds of it, however long ago that was: signatures are never unmade.
StoredInv ==
    stored # NoQuote =>
        /\ DOMAIN stored.entries = 1 .. Len(stored.entries)
        /\ Len(stored.entries) \in 1 .. MaxSigs
        /\ DOMAIN stored.idxs = DOMAIN stored.entries
        /\ \A i \in DOMAIN stored.idxs : stored.idxs[i] \in Nat
        /\ Ed!PrecompileAccepts(stored.entries, ProgramIx, signed)
        /\ Ed!ExtractIxData(stored.entries, ProgramIx)
        /\ stored.slot \in Slots /\ stored.slot < clock

\* Every signed hash is that of a block after slot 0.
SignedInv == \A p \in signed : p[2].hash.slot \in Slots \ {0}

\* The invariant that the theorems rest on.
VerifierInv == TypeOK /\ SlotInv /\ StoredInv /\ SignedInv

\* Each of the oracle_count signatures of a verified quote was made, by a key
\* that is in the queue at the time of verification, over the very message
\* whose feeds the consumer reads - however the queue has changed since the
\* quote was stored, and whatever the instruction indexes of its entries said.
AcceptedQuotesAreSigned ==
    VerifyAccount =>
        \A i \in DOMAIN stored.entries :
            /\ <<stored.entries[i].key, Ed!Message(stored.entries)>> \in signed
            /\ \E j \in DOMAIN queueKeys : queueKeys[j] = stored.entries[i].key

\* The slot of a verified quote, which nobody signed, is nonetheless the slot
\* of the block whose hash was signed; that block is on this chain; and it is
\* at most max_age slots old.
AcceptedSlotIsSigned ==
    VerifyAccount =>
        LET hash == Ed!Message(stored.entries).hash
        IN  /\ hash.slot = stored.slot
            /\ \E i \in Index : sysvar[i] = [slot |-> stored.slot, hash |-> hash]
            /\ clock - hash.slot <= MaxAge

\* The quote an honest crank stores: every entry in its own instruction and
\* over one message, signed by the key listed at its index, with the slot of
\* the block whose hash is in the message, and that block on this chain.
Honest(q) ==
    LET message == Ed!Message(q.entries)
    IN  /\ \A i \in DOMAIN q.entries :
              /\ q.entries[i].msg = message
              /\ Ed!RefersTo(q.entries[i], ProgramIx)
              /\ <<q.entries[i].key, message>> \in signed
              /\ queueKeys[q.idxs[i] % QueueLen] = q.entries[i].key
        /\ \E j \in Index : sysvar[j] = [slot |-> q.slot, hash |-> message.hash]

\* No honest quote is refused while its age is at most max_age, if max_age does
\* not exceed the length of SlotHashes.
HonestQuoteAccepted ==
    MaxAge <= WindowLen /\ stored # NoQuote /\ Honest(stored)
        /\ clock - stored.slot <= MaxAge
    => VerifyAccount

\* What a consumer sees of the account.
View ==
    IF VerifyAccount
    THEN [signers |-> {stored.entries[i].key : i \in DOMAIN stored.entries},
          message |-> Ed!Message(stored.entries)]
    ELSE NoQuote

\* Read through verify_account, account, queue and SlotHashes together are what
\* the documentation of QuoteVerifier lets a consumer take them for: a window on
\* recent attestations of trusted oracles, in which the passing of time lets
\* nothing appear.  A consumer that saw a quote refused need not fear that another
\* one sees it accepted, as long as nobody writes.  max_age must be below the length
\* of SlotHashes, for the estimate of the scan falls back to 0 beyond it.
Attested == INSTANCE AttestedQuote WITH
    Nothing <- NoQuote,
    chain <- {sysvar[i].hash : i \in Index},
    attested <- signed,
    trusted <- {queueKeys[i] : i \in DOMAIN queueKeys},
    view <- View
ImplementsAttested == Attested!AttestedSpec
=============================================================================
