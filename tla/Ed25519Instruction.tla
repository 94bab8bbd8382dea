------------------------- MODULE Ed25519Instruction -------------------------
(***************************************************************************)
(* The data of an Ed25519 instruction: what the precompile checked when    *)
(* the transaction ran, what Instructions::extract_ix_data checks when a   *)
(* program takes the data from the transaction, and what                   *)
(* Ed25519Sysvar::parse_instruction checks when a quote is read from it.   *)
(*                                                                         *)
(* A signature entry names, by instruction index, the instruction of the   *)
(* transaction in which its signature, its key and its message are found.  *)
(* The precompile looks there; the SDK always looks in the instruction at  *)
(* hand.  Only the two checks together make the bytes the SDK reads the    *)
(* bytes that were verified.                                               *)
(***************************************************************************)
EXTENDS Integers, Sequences

CONSTANTS
    AllKeys,    \* public keys
    Messages,   \* what oracles sign: a slot hash and feed values
    TxIndexes,  \* indexes of the instructions of a transaction
    MaxSigs,    \* signatures in one instruction: 8 in the source
    MaxFeeds    \* feeds in one message: 8 in the source

\* One signature entry: the key at its key offset, the message at its message
\* offset, and the three instruction indexes.  Places of the instruction data
\* that hold different messages are told apart by the message.
Entries == [key : AllKeys, msg : Messages,
            sigIx : TxIndexes, keyIx : TxIndexes, msgIx : TxIndexes]

\* The entries of one instruction.
EntrySeqs == UNION {[1 .. n -> Entries] : n \in 1 .. MaxSigs}

\* All three indexes of an entry are x.
RefersTo(e, x) == e.sigIx = x /\ e.keyIx = x /\ e.msgIx = x

\* The precompile, run on the instruction at index x, when sigs is the set of
\* pairs <<key, message>> for which a signature exists.  What an entry that
\* looks into another instruction finds there is left open.
PrecompileAccepts(entries, x, sigs) ==
    \A i \in DOMAIN entries :
        RefersTo(entries[i], x) => <<entries[i].key, entries[i].msg>> \in sigs

\* Mutant: only the message of the first entry is tied to the instruction.
ExtractIxData_MessageOnly(entries, x) == entries[1].msgIx = x

\* extract_ix_data at index x: the first entry refers to this instruction.
ExtractIxData(entries, x) == RefersTo(entries[1], x)

\* Mutant: the offset and size of a later message are not compared.
SameMessage_IndexOnly(e, first) == RefersTo(e, first.msgIx)

\* A later entry has the first one's message offset and size, and refers to its
\* instruction.
SameMessage(e, first) == e.msg = first.msg /\ RefersTo(e, first.msgIx)

\* parse_instruction succeeds.
ParseInstruction(entries, feeds) ==
    /\ Len(entries) \in 1 .. MaxSigs
    /\ feeds <= MaxFeeds
    /\ \A i \in 2 .. Len(entries) : SameMessage(entries[i], entries[1])

\* The message of a parsed quote is the first entry's.
Message(entries) == entries[1].msg
=============================================================================
