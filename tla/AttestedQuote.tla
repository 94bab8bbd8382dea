---------------------------- MODULE AttestedQuote ----------------------------
(***************************************************************************)
(* What QuoteVerifier promises to whoever reads an oracle account through  *)
(* verify_account (quote_verifier.rs, "Verifies an oracle account"): there *)
(* is nothing to be seen, or a message that oracles the queue trusts have  *)
(* attested, over a block of this chain of the last MaxAge slots.  Only a  *)
(* publication and a change of the queue can bring a message into sight;   *)
(* time alone can only take it away.                                       *)
(*                                                                         *)
(* How quotes are laid out, where their slots and indexes come from, and   *)
(* which checks are made when, is not part of the promise.                 *)
(***************************************************************************)
EXTENDS Integers

CONSTANTS
    Keys,      \* oracle signing keys
    NoKey,     \* the key of an empty place in the queue
    Messages,  \* records with the field hash, which has the field slot
    Nothing,   \* what is seen while verification fails
    MaxAge,    \* slots after which a message is too old
    MaxSlot    \* bound: the last slot

VARIABLES
    clock,     \* the present slot
    chain,     \* the blocks of this chain that are on record
    attested,  \* pairs of a key and a message
    trusted,   \* the keys of the queue
    view       \* what verification shows: a message and who has signed it

attestedVars == <<clock, chain, attested, trusted, view>>

\* A message may be seen as signed by keys that are trusted and have attested it,
\* and only if its block is on record and recent.
Vouched(v) ==
    /\ v.signers # {} /\ v.signers \subseteq trusted
    /\ v.signers \X {v.message} \subseteq attested
    /\ v.message.hash \in chain
    /\ v.message.hash.slot < clock /\ clock - v.message.hash.slot <= MaxAge

Presentable == {v \in [signers : SUBSET Keys, message : Messages] : Vouched(v)}

AttestedInit ==
    /\ clock = 0 /\ attested = {} /\ view = Nothing
    /\ trusted \subseteq Keys \cup {NoKey}

\* An oracle attests a message about a block that is past.
Attest(k, m) ==
    /\ m.hash.slot < clock
    /\ attested' = attested \cup {<<k, m>>}
    /\ UNCHANGED <<clock, chain, trusted, view>>

\* The queue changes, and with it perhaps what its keys vouch for.
Entrust ==
    /\ trusted' \subseteq Keys \cup {NoKey}
    /\ view' \in Presentable' \cup {Nothing}
    /\ UNCHANGED <<clock, chain, attested>>

\* A crank brings in another message.
Publish ==
    /\ view' \in Presentable' \cup {Nothing}
    /\ UNCHANGED <<clock, chain, attested, trusted>>

\* Slots go by and the present block goes on record; what is seen stays, as long
\* as it may, or disappears.
Elapse ==
    /\ clock' \in clock + 1 .. MaxSlot
    /\ \A hash \in chain' \ chain : hash.slot = clock
    /\ view' \in {view, Nothing}
    /\ view' \in Presentable' \cup {Nothing}
    /\ UNCHANGED <<attested, trusted>>

AttestedNext ==
    \/ \E k \in Keys, m \in Messages : Attest(k, m)
    \/ Entrust \/ Publish \/ Elapse

AttestedSpec == AttestedInit /\ [][AttestedNext]_attestedVars
==============================================================================
