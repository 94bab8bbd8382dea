------------------------- MODULE TransactionBuilder -------------------------
(***************************************************************************)
(* TransactionBuilder: what any sequence of builder calls leads to, and    *)
(* what each of the ways to turn the builder into a transaction makes of   *)
(* it.  Those take &self and change nothing, so they are operators on the  *)
(* state, and give an error or a transaction.                              *)
(*                                                                         *)
(* A signer is told apart by its key, an instruction by its program and    *)
(* the keys that must sign it.  min_context_slot is set and never read.    *)
(***************************************************************************)
EXTENDS Integers, SequencesExt

CONSTANTS
    Keys,             \* public keys
    Instructions,     \* instructions a caller adds: records with field signers
    Units,            \* values for set_compute_units
    Fees,             \* values for set_priority_fees
    Hashes,           \* blockhashes
    DefaultHash,      \* Hash::default()
    Unset,            \* Option::None
    Tables,           \* lookup tables
    MaxInstructions,  \* 10 in the source
    MaxIxs,           \* bound: instructions added
    MaxTables         \* bound: lookup tables added

ASSUME BuilderAssumption ==
    /\ \A x \in Instructions : x.signers \in Seq(Keys)
    /\ Units \subseteq Nat /\ Fees \subseteq Nat
    /\ Unset \notin Units \cup Fees \cup Hashes
    /\ MaxInstructions \in Nat /\ MaxIxs \in Nat /\ MaxTables \in Nat

VARIABLES
    payer,             \* whose key is the fee payer's
    ixs,               \* instructions added
    compute_units,
    priority_fees,
    recent_blockhash,
    luts,              \* address_lookup_tables
    signers            \* stored signers

settings == <<compute_units, priority_fees, recent_blockhash>>
vars == <<payer, ixs, settings, luts, signers>>

\* new, new_with_payer, new_with_ixs and new_with_payer_and_ixs.
Init ==
    /\ payer \in Keys
    /\ ixs \in {<<>>} \cup {<<x>> : x \in Instructions}
    /\ compute_units = Unset /\ priority_fees = Unset /\ recent_blockhash = Unset
    /\ luts = <<>>
    /\ signers \in {<<>>, <<payer>>}

-----------------------------------------------------------------------------
(***************************************************************************)
(* Builder calls.                                                          *)
(***************************************************************************)
set_compute_units ==
    /\ compute_units' \in Units
    /\ UNCHANGED <<payer, ixs, priority_fees, recent_blockhash, luts, signers>>

set_priority_fees ==
    /\ priority_fees' \in Fees
    /\ UNCHANGED <<payer, ixs, compute_units, recent_blockhash, luts, signers>>

set_recent_blockhash ==
    /\ recent_blockhash' \in Hashes
    /\ UNCHANGED <<payer, ixs, compute_units, priority_fees, luts, signers>>

add_ix(x) ==
    /\ Len(ixs) < MaxIxs
    /\ ixs' = Append(ixs, x)
    /\ UNCHANGED <<payer, settings, luts, signers>>

has_signer(k) == k \in ToSet(signers)
has_payer == has_signer(payer)

\* Mutant: the signer is stored again.
add_signer_Again(k) ==
    /\ Len(signers) < Cardinality(Keys)
    /\ signers' = Append(signers, k)
    /\ UNCHANGED <<payer, ixs, settings, luts>>

\* add_signer, and a round of the loop of add_signers: a signer whose key is
\* stored already is dropped.
add_signer(k) ==
    /\ ~ has_signer(k)
    /\ signers' = Append(signers, k)
    /\ UNCHANGED <<payer, ixs, settings, luts>>

\* add_address_lookup_account, and add_address_lookup_accounts.
add_address_lookup_accounts(ts) ==
    /\ Len(luts) + Len(ts) <= MaxTables
    /\ luts' = luts \o ts
    /\ UNCHANGED <<payer, ixs, settings, signers>>

Err(e) == [error |-> e, value |-> <<>>]
Ok(v) == [error |-> "none", value |-> v]
Succeeds(r) == r.error = "none"

\* readable: the tables that a request brings; it may fail, the account may be
\* missing, or hold no lookup table.
fetch_address_lookup_account(t, readable) ==
    IF t \in readable THEN Ok(t) ELSE Err("unfetched")

\* Mutant: what cannot be read is filtered out, as fetch_oracles does it.
fetch_multiple_address_lookup_accounts_Filtered(ts, readable) ==
    Ok(SelectSeq(ts, LAMBDA t : t \in readable))

\* One account that is missing or unreadable fails all.
fetch_multiple_address_lookup_accounts(ts, readable) ==
    IF ToSet(ts) \subseteq readable THEN Ok(ts) ELSE Err("unfetched")

\* An error leaves the builder as it was, and is not passed on.
add_address_lookup_table(t) ==
    /\ Len(luts) < MaxTables
    /\ \E readable \in SUBSET {t} :
          LET table == fetch_address_lookup_account(t, readable)
          IN  luts' = IF Succeeds(table) THEN Append(luts, table.value) ELSE luts
    /\ UNCHANGED <<payer, ixs, settings, signers>>

\* If one of several cannot be had, none is added.
add_address_lookup_tables(ts) ==
    /\ Len(luts) + Len(ts) <= MaxTables
    /\ \E readable \in SUBSET ToSet(ts) :
          LET tables == fetch_multiple_address_lookup_accounts(ts, readable)
          IN  luts' = IF Succeeds(tables) THEN luts \o tables.value ELSE luts
    /\ UNCHANGED <<payer, ixs, settings, signers>>

TableSeqs == UNION {[1 .. n -> Tables] : n \in 0 .. MaxTables}

Next ==
    \/ set_compute_units \/ set_priority_fees \/ set_recent_blockhash
    \/ \E x \in Instructions : add_ix(x)
    \/ \E k \in Keys : add_signer(k)
    \/ \E t \in Tables : add_address_lookup_table(t)
    \/ \E ts \in TableSeqs : add_address_lookup_accounts(ts) \/ add_address_lookup_tables(ts)

Spec == Init /\ [][Next]_vars

-----------------------------------------------------------------------------
(***************************************************************************)
(* From the builder to a transaction.  A step that fails has an error; ?   *)
(* passes it on.                                                           *)
(***************************************************************************)
OrElse(option, default) == IF option = Unset THEN default ELSE option

\* Mutant: a key that two instructions ask for is listed twice.
required_signers_Twice(xs) == FlattenSeq([i \in DOMAIN xs |-> xs[i].signers])

\* The keys that the instructions ask for, each once: what is listed of the
\* first n that are asked for.
required_signers(xs) ==
    LET asked == FlattenSeq([i \in DOMAIN xs |-> xs[i].signers])
        listed[n \in 0 .. Len(asked)] ==
            IF n = 0 THEN <<>>
            ELSE LET keys == listed[n - 1]
                 IN  IF Contains(keys, asked[n]) THEN keys ELSE Append(keys, asked[n])
    IN  listed[Len(asked)]

\* Mutant: all the signers are handed over, needed or not.
stored_signers_All ==
    IF ToSet(required_signers(ixs)) \subseteq ToSet(signers)
    THEN Ok(signers)
    ELSE Err("SolanaMissingSigner")

\* signers()
stored_signers ==
    IF ToSet(required_signers(ixs)) \subseteq ToSet(signers)
    THEN Ok(required_signers(ixs))
    ELSE Err("SolanaMissingSigner")

\* Mutant: the payer is looked up among the stored signers.
signers_with_payer_Stored(p) ==
    IF p # payer THEN Err("SolanaPayerMismatch")
    ELSE IF \A i \in DOMAIN required_signers(ixs) : has_signer(required_signers(ixs)[i])
    THEN Ok(required_signers(ixs))
    ELSE Err("SolanaMissingSigner")

\* The payer's signer is the one given.
signers_with_payer(p) ==
    IF p # payer THEN Err("SolanaPayerMismatch")
    ELSE IF \A i \in DOMAIN required_signers(ixs) :
              required_signers(ixs)[i] # payer => has_signer(required_signers(ixs)[i])
    THEN Ok(required_signers(ixs))
    ELSE Err("SolanaMissingSigner")

AtMost(a, b) == IF a < b THEN a ELSE b
AtLeast(a, b) == IF a > b THEN a ELSE b
Limit(u) == [program |-> "set_compute_unit_limit", value |-> u, signers |-> <<>>]
Price(f) == [program |-> "set_compute_unit_price", value |-> f, signers |-> <<>>]

pre_ixs ==
    (IF compute_units = Unset THEN <<>>
     ELSE <<Limit(AtLeast(AtMost(compute_units, 1400000), 200000))>>)
    \o (IF priority_fees = Unset THEN <<>> ELSE <<Price(AtMost(10000, priority_fees))>>)

\* ixs()
final_ixs ==
    IF ixs = <<>> THEN Err("SolanaInstructionsEmpty")
    ELSE IF Len(pre_ixs \o ixs) > MaxInstructions THEN Err("SolanaInstructionOverflow")
    ELSE Ok(pre_ixs \o ixs)

\* The keys whose signatures a message over xs with fee payer p has room for.
MessageSigners(p, xs) == {p} \cup UNION {ToSet(xs[i].signers) : i \in DOMAIN xs}

\* Transaction::try_sign: every key belongs to the message, and none is missing.
TrySign(p, xs, keys) == ToSet(keys) = MessageSigners(p, xs)

\* VersionedTransaction::try_new: one signer for each signature.
TryNew(p, xs, keys) ==
    /\ Len(keys) = Cardinality(MessageSigners(p, xs))
    /\ MessageSigners(p, xs) \subseteq ToSet(keys)

Tx(p, xs, keys, hash, tables) ==
    [payer |-> p, ixs |-> xs, signedBy |-> ToSet(keys), hash |-> hash, luts |-> tables]

build_legacy_tx(xs, keys, hash) ==
    IF ~ Succeeds(xs) THEN xs
    ELSE IF ~ Succeeds(keys) THEN keys
    ELSE IF TrySign(payer, xs.value, keys.value) THEN Ok(Tx(payer, xs.value, keys.value, hash, <<>>))
    ELSE Err("SolanaSignError")

\* Where the signers do not fit the message, unwrap panics.
build_v0_tx(xs, keys, tables, hash) ==
    IF ~ Succeeds(xs) THEN xs
    ELSE IF ~ Succeeds(keys) THEN keys
    ELSE IF TryNew(payer, xs.value, keys.value) THEN Ok(Tx(payer, xs.value, keys.value, hash, tables))
    ELSE Err("panic")

to_legacy_tx ==
    IF ~ has_payer THEN Err("SolanaPayerSignerMissing")
    ELSE build_legacy_tx(final_ixs, stored_signers, OrElse(recent_blockhash, DefaultHash))

\* Mutant: the builder's own blockhash is not consulted.
to_legacy_tx_with_payer_and_blockhash_Fresh(p, hash) ==
    IF p # payer THEN Err("SolanaPayerMismatch")
    ELSE build_legacy_tx(final_ixs, signers_with_payer(p), OrElse(hash, DefaultHash))

\* The blockhash given comes first.
to_legacy_tx_with_payer_and_blockhash(p, hash) ==
    IF p # payer THEN Err("SolanaPayerMismatch")
    ELSE build_legacy_tx(final_ixs, signers_with_payer(p),
                         OrElse(hash, OrElse(recent_blockhash, DefaultHash)))

to_legacy_tx_with_payer(p) ==
    IF p # payer THEN Err("SolanaPayerMismatch")
    ELSE build_legacy_tx(final_ixs, signers_with_payer(p), OrElse(recent_blockhash, DefaultHash))

\* The builder's blockhash comes first.
to_legacy_tx_with_blockhash(hash) ==
    build_legacy_tx(final_ixs, stored_signers,
                    OrElse(recent_blockhash, OrElse(hash, DefaultHash)))

to_v0_tx ==
    build_v0_tx(final_ixs, stored_signers, luts, OrElse(recent_blockhash, DefaultHash))

to_v0_tx_with_payer(p) ==
    IF p # payer THEN Err("SolanaPayerMismatch")
    ELSE build_v0_tx(final_ixs, signers_with_payer(p), luts, OrElse(recent_blockhash, DefaultHash))

-----------------------------------------------------------------------------
(***************************************************************************)
(* Properties.                                                             *)
(***************************************************************************)

\* No signer is stored twice, however often it is added.
SignersDistinct == \A i, j \in DOMAIN signers : signers[i] = signers[j] => i = j

TypeOK ==
    /\ payer \in Keys
    /\ ixs \in Seq(Instructions)
    /\ compute_units \in Units \cup {Unset} /\ priority_fees \in Fees \cup {Unset}
    /\ recent_blockhash \in Hashes \cup {Unset}
    /\ luts \in Seq(Tables)
    /\ signers \in Seq(Keys)

BuilderInv == TypeOK /\ SignersDistinct

\* Whether the payer's signer was stored or is given when the transaction is
\* made, the result is the same, transaction, error or panic, with one
\* exception: if the builder and the argument of the two functions that take a
\* blockhash both name one, the given payer's transaction has the argument's
\* and the stored payer's the builder's.  They then differ in nothing else.
PayerVariantsAgree ==
    has_payer =>
        /\ to_legacy_tx_with_payer(payer) = to_legacy_tx
        /\ to_v0_tx_with_payer(payer) = to_v0_tx
        /\ \A h \in Hashes \cup {Unset} :
              LET given == to_legacy_tx_with_payer_and_blockhash(payer, h)
                  stored == to_legacy_tx_with_blockhash(h)
              IN  /\ given.error = stored.error
                  /\ recent_blockhash = Unset \/ h = Unset => given = stored
                  /\ recent_blockhash # Unset /\ h # Unset /\ Succeeds(given) =>
                        /\ given.value.hash = h
                        /\ stored.value = [given.value EXCEPT !.hash = recent_blockhash]

\* The two formats agree on which builders can be signed: where a legacy
\* transaction is made, the v0 functions do not panic and sign with the same
\* keys over the same instructions, and the other way round.
FormatsAgree ==
    /\ has_payer =>
         /\ Succeeds(to_legacy_tx) <=> Succeeds(to_v0_tx)
         /\ Succeeds(to_legacy_tx) => to_v0_tx.value = [to_legacy_tx.value EXCEPT !.luts = luts]
    /\ Succeeds(to_legacy_tx_with_payer(payer)) <=> Succeeds(to_v0_tx_with_payer(payer))
    /\ Succeeds(to_v0_tx) => has_payer

\* "removing any un-needed signers": what could be built can still be built, and
\* is the same, when more signers are stored.
ExtraSignersHarmless ==
    [][signers' # signers =>
         /\ Succeeds(to_legacy_tx) => to_legacy_tx' = to_legacy_tx
         /\ Succeeds(to_v0_tx) => to_v0_tx' = to_v0_tx
         /\ Succeeds(to_legacy_tx_with_payer(payer)) =>
              to_legacy_tx_with_payer(payer)' = to_legacy_tx_with_payer(payer)]_vars

\* A payer given with the call need not be stored, and storing it as well
\* changes nothing: a payer's key can be kept out of the builder.
StoredPayerIrrelevant ==
    [][signers' = Append(signers, payer) =>
         /\ to_legacy_tx_with_payer(payer)' = to_legacy_tx_with_payer(payer)
         /\ to_v0_tx_with_payer(payer)' = to_v0_tx_with_payer(payer)]_vars

\* A lookup table that cannot be fetched is left out without an error, which is
\* harmless as long as it takes none of the tables added before with it, the
\* tables of one request are added all together or not at all, and no table,
\* fetched or not, makes another transaction of the builder.
TablesNeverLost ==
    [][luts' # luts =>
         /\ Len(luts) <= Len(luts') /\ SubSeq(luts', 1, Len(luts)) = luts
         /\ \A ts \in TableSeqs : add_address_lookup_tables(ts) => luts' = luts \o ts
         /\ to_legacy_tx' = to_legacy_tx
         /\ to_v0_tx'.error = to_v0_tx.error
         /\ Succeeds(to_v0_tx) => to_v0_tx'.value = [to_v0_tx.value EXCEPT !.luts = luts']]_vars

\* "Return a vec of all of the required signers for the transaction": a builder
\* that has them, and the payer's, stored is not refused for its signers.
RequiredSignersSuffice ==
    has_payer /\ ToSet(required_signers(ixs)) \subseteq ToSet(signers)
        => to_legacy_tx.error \notin {"SolanaMissingSigner", "SolanaSignError"}
=============================================================================
