---------------------- MODULE TransactionBuilderProofs ----------------------
(***************************************************************************)
(* For any keys, instructions, tables and limits: no signer is stored      *)
(* twice, a payer that is given makes the same transaction as one that is  *)
(* stored but for the choice between two blockhashes, further signers      *)
(* leave what can be built as it is, the two formats can be signed alike,  *)
(* lookup tables are added together and never lost, a one-shot function    *)
(* makes what the builder makes, and the compute unit limit it puts in     *)
(* suffices unless the simulation came upon an error.                      *)
(***************************************************************************)
EXTENDS ClientTransactions, SetInduction, SequenceTheorems, FiniteSetTheorems, TLAPS

-----------------------------------------------------------------------------
(***************************************************************************)
(* Storing signers.                                                        *)
(***************************************************************************)

\* What is appended joins the elements that were there.
LEMMA AppendedElements ==
  ASSUME NEW S, NEW s \in Seq(S), NEW k \in S
  PROVE  Append(s, k) \in Seq(S) /\ ToSet(Append(s, k)) = ToSet(s) \cup {k}
<1>1. /\ Len(Append(s, k)) = Len(s) + 1 /\ Len(s) \in Nat
      /\ DOMAIN s = 1 .. Len(s) /\ DOMAIN Append(s, k) = 1 .. Len(s) + 1
      /\ \A i \in 1 .. Len(s) : Append(s, k)[i] = s[i]
      /\ Append(s, k)[Len(s) + 1] = k
  OBVIOUS
<1> QED
  BY <1>1 DEF ToSet

\* Sequences of no element and of one.
LEMMA ShortSequences ==
  ASSUME NEW S, NEW x \in S
  PROVE  <<>> \in Seq(S) /\ <<x>> \in Seq(S)
  OBVIOUS

\* The tables of one call are a sequence of tables.
LEMMA TablesInSequence ==
  ASSUME NEW ts \in TableSeqs
  PROVE  ts \in Seq(Tables)
<1>1. PICK n \in 0 .. MaxTables : ts \in [1 .. n -> Tables]
  BY DEF TableSeqs
<1> QED
  BY <1>1, BuilderAssumption

LEMMA BuilderInitInv == Init => BuilderInv
<1> SUFFICES ASSUME Init PROVE BuilderInv
  OBVIOUS
<1>1. signers \in Seq(Keys) /\ ixs \in Seq(Instructions) /\ luts \in Seq(Tables)
  <2>1. payer \in Keys /\ signers \in {<<>>, <<payer>>} /\ luts = <<>>
        /\ (ixs = <<>> \/ \E x \in Instructions : ixs = <<x>>)
    BY DEF Init
  <2>2. signers \in Seq(Keys)
    BY <2>1, ShortSequences
  <2>3. luts \in Seq(Tables) /\ <<>> \in Seq(Instructions)
    BY <2>1
  <2> QED
    BY <2>1, <2>2, <2>3, ShortSequences
<1>2. SignersDistinct
  BY DEF Init, SignersDistinct
<1> QED
  BY <1>1, <1>2 DEF Init, BuilderInv, TypeOK

LEMMA BuilderNextInv == BuilderInv /\ [Next]_vars => BuilderInv'
<1> SUFFICES ASSUME BuilderInv, [Next]_vars PROVE BuilderInv'
  OBVIOUS
<1>0. TypeOK /\ SignersDistinct
  BY DEF BuilderInv
<1>1. CASE set_compute_units
  BY <1>0, <1>1 DEF set_compute_units, BuilderInv, TypeOK, SignersDistinct
<1>2. CASE set_priority_fees
  BY <1>0, <1>2 DEF set_priority_fees, BuilderInv, TypeOK, SignersDistinct
<1>3. CASE set_recent_blockhash
  BY <1>0, <1>3 DEF set_recent_blockhash, BuilderInv, TypeOK, SignersDistinct
<1>4. ASSUME NEW x \in Instructions, add_ix(x) PROVE BuilderInv'
  <2>1. ixs' \in Seq(Instructions)
    BY <1>0, <1>4 DEF add_ix, TypeOK
  <2> QED
    BY <1>0, <1>4, <2>1 DEF add_ix, settings, BuilderInv, TypeOK, SignersDistinct
<1>5. ASSUME NEW k \in Keys, add_signer(k) PROVE BuilderInv'
  <2>1. signers \in Seq(Keys) /\ signers' = Append(signers, k) /\ k \notin ToSet(signers)
    BY <1>0, <1>5 DEF TypeOK, add_signer, has_signer
  <2>2. signers' \in Seq(Keys)
    BY <2>1
  <2>3. SignersDistinct'
    <3>1. /\ Len(signers) \in Nat /\ DOMAIN signers = 1 .. Len(signers)
          /\ DOMAIN signers' = 1 .. Len(signers) + 1
          /\ \A i \in 1 .. Len(signers) : signers'[i] = signers[i]
          /\ signers'[Len(signers) + 1] = k
      BY <2>1
    <3>2. \A i \in 1 .. Len(signers) : signers[i] # k
      BY <2>1, <3>1 DEF ToSet
    <3> QED
      BY <1>0, <3>1, <3>2 DEF SignersDistinct
  <2> QED
    BY <1>0, <1>5, <2>2, <2>3 DEF add_signer, settings, BuilderInv, TypeOK
<1>6. ASSUME NEW t \in Tables, add_address_lookup_table(t) PROVE BuilderInv'
  <2>1. luts' \in Seq(Tables)
    BY <1>0, <1>6 DEF add_address_lookup_table, fetch_address_lookup_account, Ok, Err, Succeeds,
                      TypeOK
  <2> QED
    BY <1>0, <1>6, <2>1
       DEF add_address_lookup_table, settings, BuilderInv, TypeOK, SignersDistinct
<1>7. ASSUME NEW ts \in TableSeqs, add_address_lookup_accounts(ts) PROVE BuilderInv'
  <2>1. luts \o ts \in Seq(Tables)
    BY <1>0, TablesInSequence DEF TypeOK
  <2> QED
    BY <1>0, <1>7, <2>1
       DEF add_address_lookup_accounts, settings, BuilderInv, TypeOK, SignersDistinct
<1>8. ASSUME NEW ts \in TableSeqs, add_address_lookup_tables(ts) PROVE BuilderInv'
  <2>1. luts \o ts \in Seq(Tables)
    BY <1>0, TablesInSequence DEF TypeOK
  <2>2. luts' \in Seq(Tables)
    BY <1>0, <1>8, <2>1 DEF add_address_lookup_tables, fetch_multiple_address_lookup_accounts,
                           Ok, Err, Succeeds, TypeOK
  <2> QED
    BY <1>0, <1>8, <2>2
       DEF add_address_lookup_tables, settings, BuilderInv, TypeOK, SignersDistinct
<1>9. CASE UNCHANGED vars
  BY <1>0, <1>9 DEF vars, settings, BuilderInv, TypeOK, SignersDistinct
<1> QED
  BY <1>1, <1>2, <1>3, <1>4, <1>5, <1>6, <1>7, <1>8, <1>9 DEF Next

\* However often signers are added, none is stored twice.
THEOREM BuilderInvariance == Spec => []BuilderInv
  BY BuilderInitInv, BuilderNextInv, PTL DEF Spec

-----------------------------------------------------------------------------
(***************************************************************************)
(* The payer, stored or given.                                             *)
(***************************************************************************)

\* With its signer stored, looking up the payer or being given it is the same.
LEMMA SignersWithStoredPayer ==
  ASSUME has_payer
  PROVE  signers_with_payer(payer) = stored_signers
<1>1. payer \in ToSet(signers)
  BY DEF has_payer, has_signer
<1> DEFINE R == required_signers(ixs)
<1>2. ToSet(R) \subseteq ToSet(signers)
        <=> \A i \in DOMAIN R : R[i] # payer => R[i] \in ToSet(signers)
  <2> HIDE DEF R
  <2> QED
    BY <1>1 DEF ToSet
<1> QED
  BY <1>2 DEF signers_with_payer, stored_signers, has_signer

\* Two blockhashes make transactions that differ in nothing else, or the same
\* error.
LEMMA OnlyHashDiffers ==
  ASSUME NEW xs, NEW keys, NEW g, NEW s
  PROVE  LET given == build_legacy_tx(xs, keys, g)
             stored == build_legacy_tx(xs, keys, s)
         IN  /\ given.error = stored.error
             /\ Succeeds(given) => /\ given.value.hash = g
                                  /\ stored.value = [given.value EXCEPT !.hash = s]
<1> DEFINE given == build_legacy_tx(xs, keys, g)
           stored == build_legacy_tx(xs, keys, s)
<1>1. CASE Succeeds(xs) /\ Succeeds(keys) /\ TrySign(payer, xs.value, keys.value)
  <2>1. /\ given = Ok(Tx(payer, xs.value, keys.value, g, <<>>))
        /\ stored = Ok(Tx(payer, xs.value, keys.value, s, <<>>))
    BY <1>1 DEF build_legacy_tx
  <2> HIDE DEF given, stored
  <2>2. Tx(payer, xs.value, keys.value, s, <<>>)
          = [Tx(payer, xs.value, keys.value, g, <<>>) EXCEPT !.hash = s]
    BY DEF Tx
  <2>3. Tx(payer, xs.value, keys.value, g, <<>>).hash = g
    BY DEF Tx
  <2>4. \A v : Ok(v).error = "none" /\ Ok(v).value = v
    BY DEF Ok
  <2>5. /\ given.error = stored.error /\ given.value.hash = g
        /\ stored.value = [given.value EXCEPT !.hash = s]
    BY <2>1, <2>2, <2>3, <2>4
  <2> QED
    BY <2>5 DEF given, stored
<1>2. CASE ~ (Succeeds(xs) /\ Succeeds(keys) /\ TrySign(payer, xs.value, keys.value))
  <2>1. given = stored /\ ~ Succeeds(given)
    BY <1>2 DEF build_legacy_tx, Succeeds, Err
  <2> QED
    BY <2>1
<1> QED
  BY <1>1, <1>2

\* The results do not depend on whether the payer's signer was stored or given,
\* but for the blockhash where the builder and the argument both name one.
THEOREM VariantsAgree == Spec => []PayerVariantsAgree
<1>1. PayerVariantsAgree
  <2> SUFFICES ASSUME has_payer PROVE PayerVariantsAgree
    BY DEF PayerVariantsAgree
  <2>1. signers_with_payer(payer) = stored_signers
    BY SignersWithStoredPayer
  <2>2. to_legacy_tx_with_payer(payer) = to_legacy_tx
    BY <2>1 DEF to_legacy_tx_with_payer, to_legacy_tx
  <2>3. to_v0_tx_with_payer(payer) = to_v0_tx
    BY <2>1 DEF to_v0_tx_with_payer, to_v0_tx
  <2>4. ASSUME NEW h \in Hashes \cup {Unset}
        PROVE  LET given == to_legacy_tx_with_payer_and_blockhash(payer, h)
                   stored == to_legacy_tx_with_blockhash(h)
               IN  /\ given.error = stored.error
                   /\ recent_blockhash = Unset \/ h = Unset => given = stored
                   /\ recent_blockhash # Unset /\ h # Unset /\ Succeeds(given) =>
                         /\ given.value.hash = h
                         /\ stored.value = [given.value EXCEPT !.hash = recent_blockhash]
    <3> DEFINE g == OrElse(h, OrElse(recent_blockhash, DefaultHash))
               s == OrElse(recent_blockhash, OrElse(h, DefaultHash))
    <3>1. /\ to_legacy_tx_with_payer_and_blockhash(payer, h)
               = build_legacy_tx(final_ixs, stored_signers, g)
          /\ to_legacy_tx_with_blockhash(h) = build_legacy_tx(final_ixs, stored_signers, s)
      BY <2>1 DEF to_legacy_tx_with_payer_and_blockhash, to_legacy_tx_with_blockhash
    <3>2. /\ recent_blockhash = Unset \/ h = Unset => g = s
          /\ recent_blockhash # Unset /\ h # Unset => g = h /\ s = recent_blockhash
      BY DEF OrElse
    <3> HIDE DEF g, s
    <3> QED
      BY <3>1, <3>2, OnlyHashDiffers
  <2> QED
    BY <2>2, <2>3, <2>4 DEF PayerVariantsAgree
<1> QED
  BY <1>1, PTL

-----------------------------------------------------------------------------
(***************************************************************************)
(* More signers.                                                           *)
(***************************************************************************)

\* Only add_signer changes the stored signers, and it changes nothing else.
LEMMA SignersGrow ==
  ASSUME BuilderInv, [Next]_vars, signers' # signers
  PROVE  /\ payer' = payer /\ ixs' = ixs /\ luts' = luts
         /\ compute_units' = compute_units /\ priority_fees' = priority_fees
         /\ recent_blockhash' = recent_blockhash
         /\ \E k \in Keys : signers' = Append(signers, k) /\ ToSet(signers') = ToSet(signers) \cup {k}
<1>1. PICK k \in Keys : add_signer(k)
  BY DEF Next, vars, set_compute_units, set_priority_fees, set_recent_blockhash, add_ix,
         add_address_lookup_table, add_address_lookup_accounts, add_address_lookup_tables
<1>2. ToSet(signers') = ToSet(signers) \cup {k}
  BY <1>1, AppendedElements DEF BuilderInv, TypeOK, add_signer
<1> QED
  BY <1>1, <1>2 DEF add_signer, settings

\* The instructions do not depend on the signers.
LEMMA SameInstructions ==
  ASSUME ixs' = ixs, compute_units' = compute_units, priority_fees' = priority_fees
  PROVE  final_ixs' = final_ixs
  BY DEF final_ixs, pre_ixs

\* What stored signers sufficed for, more of them suffice for.
LEMMA MoreSignersSuffice ==
  ASSUME ixs' = ixs, ToSet(signers) \subseteq ToSet(signers'), Succeeds(stored_signers)
  PROVE  stored_signers' = stored_signers
<1>1. ToSet(required_signers(ixs)) \subseteq ToSet(signers)
  BY DEF stored_signers, Succeeds, Err
<1> QED
  BY <1>1 DEF stored_signers

LEMMA MoreSignersWithPayer ==
  ASSUME payer' = payer, ixs' = ixs, ToSet(signers) \subseteq ToSet(signers'),
         Succeeds(signers_with_payer(payer))
  PROVE  signers_with_payer(payer)' = signers_with_payer(payer)
<1> DEFINE R == required_signers(ixs)
<1>1. R' = R
  OBVIOUS
<1>2. \A i \in DOMAIN R : R[i] # payer => has_signer(R[i])
  BY DEF signers_with_payer, Succeeds, Err
<1> HIDE DEF R
<1>3. \A i \in DOMAIN R' : R'[i] # payer' => has_signer(R[i])'
  BY <1>1, <1>2 DEF has_signer
<1> QED
  BY <1>1, <1>2, <1>3 DEF signers_with_payer, R

\* What can be built can still be built, and is the same, with more signers
\* stored.
THEOREM ExtraSigners == Spec => ExtraSignersHarmless
<1>1. ASSUME BuilderInv, [Next]_vars
      PROVE  [signers' # signers =>
                /\ Succeeds(to_legacy_tx) => to_legacy_tx' = to_legacy_tx
                /\ Succeeds(to_v0_tx) => to_v0_tx' = to_v0_tx
                /\ Succeeds(to_legacy_tx_with_payer(payer)) =>
                     to_legacy_tx_with_payer(payer)' = to_legacy_tx_with_payer(payer)]_vars
  <2> SUFFICES ASSUME signers' # signers
               PROVE  /\ Succeeds(to_legacy_tx) => to_legacy_tx' = to_legacy_tx
                      /\ Succeeds(to_v0_tx) => to_v0_tx' = to_v0_tx
                      /\ Succeeds(to_legacy_tx_with_payer(payer)) =>
                           to_legacy_tx_with_payer(payer)' = to_legacy_tx_with_payer(payer)
    OBVIOUS
  <2>1. /\ payer' = payer /\ ixs' = ixs /\ luts' = luts /\ recent_blockhash' = recent_blockhash
        /\ ToSet(signers) \subseteq ToSet(signers') /\ final_ixs' = final_ixs
    BY <1>1, SignersGrow, SameInstructions
  <2>2. ASSUME Succeeds(to_legacy_tx) PROVE to_legacy_tx' = to_legacy_tx
    <3>1. has_payer /\ Succeeds(stored_signers)
      BY <2>2 DEF to_legacy_tx, build_legacy_tx, Succeeds, Err
    <3>2. has_payer' /\ stored_signers' = stored_signers
      BY <2>1, <3>1, MoreSignersSuffice DEF has_payer, has_signer
    <3> QED
      BY <2>1, <3>1, <3>2 DEF to_legacy_tx, build_legacy_tx
  <2>3. ASSUME Succeeds(to_v0_tx) PROVE to_v0_tx' = to_v0_tx
    <3>1. Succeeds(stored_signers)
      BY <2>3 DEF to_v0_tx, build_v0_tx, Succeeds, Err
    <3>2. stored_signers' = stored_signers
      BY <2>1, <3>1, MoreSignersSuffice
    <3> QED
      BY <2>1, <3>2 DEF to_v0_tx, build_v0_tx
  <2>4. ASSUME Succeeds(to_legacy_tx_with_payer(payer))
        PROVE  to_legacy_tx_with_payer(payer)' = to_legacy_tx_with_payer(payer)
    <3>1. Succeeds(signers_with_payer(payer))
      BY <2>4 DEF to_legacy_tx_with_payer, build_legacy_tx, Succeeds, Err
    <3>2. signers_with_payer(payer)' = signers_with_payer(payer)
      BY <2>1, <3>1, MoreSignersWithPayer
    <3> QED
      BY <2>1, <3>2 DEF to_legacy_tx_with_payer, build_legacy_tx
  <2> QED
    BY <2>2, <2>3, <2>4
<1> QED
  BY <1>1, BuilderInvariance, PTL DEF Spec, ExtraSignersHarmless

\* A payer that is given with the call need not be stored, and storing it too
\* changes nothing.
THEOREM StoredPayer == Spec => StoredPayerIrrelevant
<1>1. ASSUME BuilderInv, [Next]_vars
      PROVE  [signers' = Append(signers, payer) =>
                /\ to_legacy_tx_with_payer(payer)' = to_legacy_tx_with_payer(payer)
                /\ to_v0_tx_with_payer(payer)' = to_v0_tx_with_payer(payer)]_vars
  <2> SUFFICES ASSUME signers' = Append(signers, payer)
               PROVE  /\ to_legacy_tx_with_payer(payer)' = to_legacy_tx_with_payer(payer)
                      /\ to_v0_tx_with_payer(payer)' = to_v0_tx_with_payer(payer)
    OBVIOUS
  <2>1. signers \in Seq(Keys) /\ payer \in Keys
    BY <1>1 DEF BuilderInv, TypeOK
  <2>2. signers' # signers /\ ToSet(signers') = ToSet(signers) \cup {payer}
    <3>1. Len(signers') = Len(signers) + 1 /\ Len(signers) \in Nat
      BY <2>1
    <3> QED
      BY <2>1, <3>1, AppendedElements
  <2>3. /\ payer' = payer /\ ixs' = ixs /\ luts' = luts /\ recent_blockhash' = recent_blockhash
        /\ final_ixs' = final_ixs
    BY <1>1, <2>2, SignersGrow, SameInstructions
  <2>4. signers_with_payer(payer)' = signers_with_payer(payer)
    <3> DEFINE R == required_signers(ixs)
    <3>1. R' = R
      BY <2>3
    <3> HIDE DEF R
    <3>2. (\A i \in DOMAIN R : R[i] # payer => R[i] \in ToSet(signers'))
            <=> (\A i \in DOMAIN R : R[i] # payer => R[i] \in ToSet(signers))
      BY <2>2
    <3> QED
      BY <2>3, <3>1, <3>2 DEF signers_with_payer, R, has_signer
  <2> QED
    BY <2>3, <2>4 DEF to_legacy_tx_with_payer, to_v0_tx_with_payer, build_legacy_tx, build_v0_tx
<1> QED
  BY <1>1, BuilderInvariance, PTL DEF Spec, StoredPayerIrrelevant

-----------------------------------------------------------------------------
(***************************************************************************)
(* The two formats.                                                        *)
(***************************************************************************)

\* A concatenation has the elements of both.
LEMMA JoinedElements ==
  ASSUME NEW S, NEW s \in Seq(S), NEW t \in Seq(S)
  PROVE  s \o t \in Seq(S) /\ ToSet(s \o t) = ToSet(s) \cup ToSet(t)
<1>1. /\ Len(s) \in Nat /\ Len(t) \in Nat /\ DOMAIN s = 1 .. Len(s) /\ DOMAIN t = 1 .. Len(t)
      /\ DOMAIN (s \o t) = 1 .. Len(s) + Len(t)
      /\ \A i \in 1 .. Len(s) + Len(t) : (s \o t)[i] = IF i <= Len(s) THEN s[i] ELSE t[i - Len(s)]
  OBVIOUS
<1>2. \A i \in 1 .. Len(t) : Len(s) + i \in 1 .. Len(s) + Len(t) /\ (s \o t)[Len(s) + i] = t[i]
  BY <1>1
<1>3. \A i \in 1 .. Len(s) : i \in 1 .. Len(s) + Len(t) /\ (s \o t)[i] = s[i]
  BY <1>1
<1>4. \A i \in 1 .. Len(s) + Len(t) : i \in 1 .. Len(s) \/ i - Len(s) \in 1 .. Len(t)
  BY <1>1
<1>5. ToSet(s) \cup ToSet(t) \subseteq ToSet(s \o t)
  <2>1. ToSet(s \o t) = {(s \o t)[i] : i \in 1 .. Len(s) + Len(t)}
    BY <1>1 DEF ToSet
  <2>2. ASSUME NEW i \in 1 .. Len(s) PROVE s[i] \in ToSet(s \o t)
    BY <1>3, <2>1
  <2>3. ASSUME NEW i \in 1 .. Len(t) PROVE t[i] \in ToSet(s \o t)
    BY <1>2, <2>1
  <2> QED
    BY <1>1, <2>2, <2>3 DEF ToSet
<1>6. ToSet(s \o t) \subseteq ToSet(s) \cup ToSet(t)
  BY <1>1, <1>4 DEF ToSet
<1> QED
  BY <1>5, <1>6

\* FlattenSeq has the elements of its sequences.
LEMMA FlattenedElements ==
  ASSUME NEW S, NEW ss \in Seq(Seq(S))
  PROVE  /\ FlattenSeq(ss) \in Seq(S)
         /\ ToSet(FlattenSeq(ss)) = UNION {ToSet(ss[i]) : i \in DOMAIN ss}
<1> DEFINE N == Len(ss)
           Def(f) == f = [i \in 1 .. N |-> IF i = 1 THEN ss[i] ELSE f[i - 1] \o ss[i]]
           flatten == CHOOSE f : Def(f)
           step == [n \in 1 .. N |-> [s \in Seq(S) |-> s \o ss[n]]]
<1>1. FlattenSeq(ss) = IF N = 0 THEN ss ELSE flatten[N]
  BY DEF FlattenSeq
<1>2. N \in Nat /\ DOMAIN ss = 1 .. N /\ \A i \in 1 .. N : ss[i] \in Seq(S)
  OBVIOUS
<1> HIDE DEF N
<1>3. step \in [1 .. N -> [Seq(S) -> Seq(S)]]
  BY <1>2
<1>4. PICK g : IsRecursionUpTo(N, g, Seq(S), <<>>, step)
  <2>1. <<>> \in Seq(S)
    OBVIOUS
  <2> HIDE DEF step, flatten
  <2> QED
    BY <1>2, <1>3, <2>1, RecursionUpTo
<1>5. /\ g \in [0 .. N -> Seq(S)] /\ g[0] = <<>>
      /\ \A n \in 1 .. N : g[n] = g[n - 1] \o ss[n] /\ g[n - 1] \in Seq(S)
  <2>1. /\ g \in [0 .. N -> Seq(S)] /\ g[0] = <<>>
        /\ \A n \in 1 .. N : g[n] = step[n][g[n - 1]]
    BY <1>4 DEF IsRecursionUpTo
  <2>2. ASSUME NEW n \in 1 .. N PROVE g[n] = g[n - 1] \o ss[n] /\ g[n - 1] \in Seq(S)
    <3>1. n - 1 \in 0 .. N
      BY <1>2
    <3>2. g[n - 1] \in Seq(S)
      BY <2>1, <3>1
    <3> QED
      BY <2>1, <3>2
  <2> QED
    BY <2>1, <2>2
<1> HIDE DEF step
<1>6. Def(flatten)
  <2> DEFINE f == [i \in 1 .. N |-> g[i]]
  <2>1. ASSUME NEW i \in 1 .. N
        PROVE  f[i] = IF i = 1 THEN ss[i] ELSE f[i - 1] \o ss[i]
    <3>1. f[i] = g[i - 1] \o ss[i]
      BY <1>5
    <3>2. CASE i = 1
      <4>1. g[i - 1] = <<>> /\ ss[i] \in Seq(S)
        BY <1>2, <1>5, <3>2
      <4>2. <<>> \o ss[i] = ss[i]
        BY <4>1
      <4> QED
        BY <3>1, <3>2, <4>1, <4>2
    <3>3. CASE i # 1
      BY <1>2, <3>1, <3>3, i - 1 \in 1 .. N
    <3> QED
      BY <3>2, <3>3
  <2>2. Def(f)
    BY <2>1
  <2> HIDE DEF f, Def
  <2> QED
    BY <2>2
<1>7. N # 0 => flatten[1] = ss[1]
  <2>1. N # 0 => 1 \in 1 .. N
    BY <1>2
  <2> HIDE DEF flatten
  <2> QED
    BY <1>6, <2>1
<1>8. \A i \in 1 .. N : i # 1 => flatten[i] = flatten[i - 1] \o ss[i]
  <2> HIDE DEF flatten
  <2> QED
    BY <1>6
<1> HIDE DEF Def, flatten
<1> DEFINE Gathered(n) == UNION {ToSet(ss[i]) : i \in 1 .. n}
           Good == {n \in 0 .. N : /\ n # 0 => flatten[n] = g[n]
                                   /\ g[n] \in Seq(S) /\ ToSet(g[n]) = Gathered(n)}
<1>9. 0 \in Good
  <2>1. ToSet(<<>>) = {} /\ Gathered(0) = {}
    BY DEF ToSet
  <2> QED
    BY <1>2, <1>5, <2>1
<1>10. ASSUME NEW n \in 0 .. N - 1, n \in Good PROVE n + 1 \in Good
  <2>1. n + 1 \in 1 .. N /\ (n + 1) - 1 = n /\ n \in Nat
    BY <1>2
  <2>2. g[n + 1] = g[n] \o ss[n + 1] /\ g[n] \in Seq(S) /\ ss[n + 1] \in Seq(S)
    BY <1>2, <1>5, <2>1
  <2>3. ToSet(g[n + 1]) = Gathered(n) \cup ToSet(ss[n + 1]) /\ g[n + 1] \in Seq(S)
    BY <1>10, <2>2, JoinedElements
  <2>4. 1 .. n + 1 = (1 .. n) \cup {n + 1}
    BY <2>1
  <2>5. Gathered(n + 1) = Gathered(n) \cup ToSet(ss[n + 1])
    BY <2>4
  <2>6. flatten[n + 1] = g[n + 1]
    <3>1. CASE n = 0
      <4>1. g[n] = <<>> /\ flatten[n + 1] = ss[n + 1]
        BY <1>5, <1>7, <2>1, <3>1
      <4>2. <<>> \o ss[n + 1] = ss[n + 1]
        BY <2>2
      <4> QED
        BY <2>2, <4>1, <4>2
    <3>2. CASE n # 0
      <4>1. flatten[n + 1] = flatten[n] \o ss[n + 1]
        <5>1. n + 1 # 1
          BY <2>1, <3>2
        <5>2. flatten[n + 1] = flatten[(n + 1) - 1] \o ss[n + 1]
          BY <1>8, <2>1, <5>1
        <5> QED
          BY <2>1, <5>2
      <4>2. flatten[n] = g[n]
        BY <1>10, <3>2
      <4> QED
        BY <2>2, <4>1, <4>2
    <3> QED
      BY <3>1, <3>2
  <2>7. n + 1 \in 0 .. N
    BY <2>1
  <2> HIDE DEF Gathered
  <2> QED
    BY <2>3, <2>5, <2>6, <2>7
<1>11. N \in Good
  <2> HIDE DEF Good
  <2>1. \A n \in 0 .. N : n \in Good
    BY <1>2, <1>9, <1>10, InductionUpTo
  <2> QED
    BY <1>2, <2>1
<1>12. FlattenSeq(ss) \in Seq(S) /\ ToSet(FlattenSeq(ss)) = Gathered(N)
  <2>1. CASE N = 0
    <3>1. ss = <<>> /\ g[N] = <<>>
      BY <1>2, <1>5, <2>1 DEF N
    <3> QED
      BY <1>1, <1>11, <2>1, <3>1
  <2>2. CASE N # 0
    BY <1>1, <1>11, <2>2
  <2> QED
    BY <2>1, <2>2
<1> QED
  BY <1>2, <1>12

\* What a round of required_signers lists is distinct keys, those asked for so far.
IsListing(keys, asked, n) ==
    /\ keys \in Seq(Keys) /\ ToSet(keys) = {asked[i] : i \in 1 .. n}
    /\ \A i, j \in DOMAIN keys : keys[i] = keys[j] => i = j

\* A key that is listed already is not listed again, another one is appended.
LEMMA ListingGrows ==
  ASSUME NEW asked \in Seq(Keys), NEW n \in 0 .. Len(asked) - 1, NEW keys,
         IsListing(keys, asked, n)
  PROVE  IsListing(IF Contains(keys, asked[n + 1]) THEN keys ELSE Append(keys, asked[n + 1]),
                   asked, n + 1)
<1>1. keys \in Seq(Keys) /\ \A i, j \in DOMAIN keys : keys[i] = keys[j] => i = j
  BY DEF IsListing
<1>2. n \in Nat /\ n + 1 \in 1 .. Len(asked) /\ asked[n + 1] \in Keys
  OBVIOUS
<1>3. 1 .. n + 1 = (1 .. n) \cup {n + 1}
  BY <1>2
<1>4. {asked[i] : i \in 1 .. n + 1} = ToSet(keys) \cup {asked[n + 1]}
  BY <1>3 DEF IsListing
<1>5. Len(keys) \in Nat /\ DOMAIN keys = 1 .. Len(keys)
  BY <1>1
<1>6. Contains(keys, asked[n + 1]) <=> asked[n + 1] \in ToSet(keys)
  BY <1>5 DEF Contains, ToSet
<1>7. CASE Contains(keys, asked[n + 1])
  BY <1>1, <1>4, <1>6, <1>7 DEF IsListing
<1>8. CASE ~ Contains(keys, asked[n + 1])
  <2> DEFINE k == asked[n + 1]
             more == Append(keys, k)
  <2>1. more \in Seq(Keys) /\ ToSet(more) = ToSet(keys) \cup {k}
    BY <1>1, <1>2, AppendedElements
  <2>2. /\ DOMAIN more = 1 .. Len(keys) + 1 /\ more[Len(keys) + 1] = k
        /\ \A i \in 1 .. Len(keys) : more[i] = keys[i]
    BY <1>1, <1>2
  <2>3. \A i \in 1 .. Len(keys) : keys[i] # k
    BY <1>5, <1>8 DEF Contains
  <2> HIDE DEF k, more
  <2>4. \A i, j \in DOMAIN more : more[i] = more[j] => i = j
    BY <1>1, <1>5, <2>2, <2>3
  <2>5. IsListing(more, asked, n + 1)
    BY <1>4, <2>1, <2>4 DEF IsListing, k
  <2> QED
    BY <1>8, <2>5 DEF k, more
<1> QED
  BY <1>7, <1>8

\* The keys that the instructions ask for.
AskedFor(xs) == UNION {ToSet(xs[i].signers) : i \in DOMAIN xs}

\* The required signers are those, each once.
LEMMA RequiredSigners ==
  ASSUME NEW xs \in Seq(Instructions)
  PROVE  /\ required_signers(xs) \in Seq(Keys) /\ ToSet(required_signers(xs)) = AskedFor(xs)
         /\ \A i, j \in DOMAIN required_signers(xs) :
               required_signers(xs)[i] = required_signers(xs)[j] => i = j
<1> DEFINE ss == [i \in DOMAIN xs |-> xs[i].signers]
           asked == FlattenSeq(ss)
           N == Len(asked)
           Listed(keys, n) == IF Contains(keys, asked[n]) THEN keys ELSE Append(keys, asked[n])
           Def(f) == f = [n \in 0 .. N |-> IF n = 0 THEN <<>> ELSE Listed(f[n - 1], n)]
           listed == CHOOSE f : Def(f)
           step == [n \in 1 .. N |-> [keys \in Seq(Keys) |-> Listed(keys, n)]]
<1>1. required_signers(xs) = listed[N]
  BY DEF required_signers
<1>2. ss \in Seq(Seq(Keys)) /\ DOMAIN ss = DOMAIN xs
  <2>1. \A i \in DOMAIN xs : xs[i].signers \in Seq(Keys)
    BY BuilderAssumption
  <2>2. Len(xs) \in Nat /\ DOMAIN xs = 1 .. Len(xs)
    OBVIOUS
  <2> QED
    BY <2>1, <2>2
<1>3. asked \in Seq(Keys) /\ ToSet(asked) = AskedFor(xs)
  <2>1. asked \in Seq(Keys) /\ ToSet(asked) = UNION {ToSet(ss[i]) : i \in DOMAIN ss}
    <3> HIDE DEF ss
    <3> QED
      BY <1>2, FlattenedElements
  <2> QED
    BY <1>2, <2>1 DEF AskedFor
<1>4. N \in Nat /\ DOMAIN asked = 1 .. N /\ \A n \in 1 .. N : asked[n] \in Keys
  <2> HIDE DEF asked
  <2> QED
    BY <1>3
<1> HIDE DEF ss, asked, N
<1>5. step \in [1 .. N -> [Seq(Keys) -> Seq(Keys)]]
  BY <1>4, AppendedElements
<1>6. PICK g : IsRecursionUpTo(N, g, Seq(Keys), <<>>, step)
  <2>1. <<>> \in Seq(Keys)
    OBVIOUS
  <2> HIDE DEF step, listed
  <2> QED
    BY <1>4, <1>5, <2>1, RecursionUpTo
<1>7. /\ g \in [0 .. N -> Seq(Keys)] /\ g[0] = <<>>
      /\ \A n \in 1 .. N : g[n] = step[n][g[n - 1]]
  BY <1>6 DEF IsRecursionUpTo
<1>8. \A n \in 1 .. N : n - 1 \in 0 .. N /\ g[n] = Listed(g[n - 1], n)
  <2> SUFFICES ASSUME NEW n \in 1 .. N PROVE n - 1 \in 0 .. N /\ g[n] = Listed(g[n - 1], n)
    OBVIOUS
  <2>1. n - 1 \in 0 .. N
    BY <1>4
  <2>2. g[n - 1] \in Seq(Keys)
    BY <1>7, <2>1
  <2>3. step[n][g[n - 1]] = Listed(g[n - 1], n)
    <3> HIDE DEF Listed
    <3> QED
      BY <2>2
  <2> QED
    BY <1>7, <2>1, <2>3
<1> HIDE DEF step, Listed
<1>9. Def(listed)
  <2>1. \A n \in 0 .. N : g[n] = IF n = 0 THEN <<>> ELSE Listed(g[n - 1], n)
    <3> SUFFICES ASSUME NEW n \in 0 .. N PROVE g[n] = IF n = 0 THEN <<>> ELSE Listed(g[n - 1], n)
      OBVIOUS
    <3>1. n = 0 \/ n \in 1 .. N
      BY <1>4
    <3> QED
      BY <1>7, <1>8, <3>1
  <2>2. Def(g)
    BY <1>7, <2>1
  <2> HIDE DEF Def
  <2> QED
    BY <2>2
<1>10. listed[0] = <<>> /\ \A n \in 1 .. N : n # 0 /\ listed[n] = Listed(listed[n - 1], n)
  <2> HIDE DEF listed
  <2>1. 0 \in 0 .. N /\ \A n \in 1 .. N : n # 0 /\ n \in 0 .. N
    BY <1>4
  <2> QED
    BY <1>9, <2>1
<1> HIDE DEF Def, listed
<1> DEFINE Good == {n \in 0 .. N : IsListing(listed[n], asked, n)}
<1>11. 0 \in Good
  <2>1. <<>> \in Seq(Keys) /\ ToSet(<<>>) = {} /\ {asked[i] : i \in 1 .. 0} = {}
    BY DEF ToSet
  <2>2. IsListing(<<>>, asked, 0)
    BY <2>1 DEF IsListing
  <2> QED
    BY <1>4, <1>10, <2>2
<1>12. ASSUME NEW n \in 0 .. N - 1, n \in Good PROVE n + 1 \in Good
  <2>1. n + 1 \in 1 .. N /\ n + 1 \in 0 .. N /\ (n + 1) - 1 = n
    BY <1>4
  <2>2. listed[n + 1] = Listed(listed[n], n + 1)
    <3>1. listed[n + 1] = Listed(listed[(n + 1) - 1], n + 1)
      BY <1>10, <2>1
    <3> QED
      BY <2>1, <3>1
  <2>3. IsListing(Listed(listed[n], n + 1), asked, n + 1)
    BY <1>3, <1>12, ListingGrows DEF Listed, N
  <2> QED
    BY <2>1, <2>2, <2>3
<1>13. IsListing(listed[N], asked, N)
  <2> HIDE DEF Good
  <2>1. \A n \in 0 .. N : n \in Good
    BY <1>4, <1>11, <1>12, InductionUpTo
  <2> QED
    BY <1>4, <2>1 DEF Good
<1>14. {asked[i] : i \in 1 .. N} = ToSet(asked)
  BY <1>4 DEF ToSet
<1> QED
  BY <1>1, <1>3, <1>13, <1>14 DEF IsListing

\* A sequence without a repetition is as long as it has elements.
LEMMA LengthOfDistinct ==
  ASSUME NEW S, NEW s \in Seq(S), \A i, j \in DOMAIN s : s[i] = s[j] => i = j
  PROVE  IsFiniteSet(ToSet(s)) /\ Cardinality(ToSet(s)) = Len(s)
<1>1. Len(s) \in Nat /\ DOMAIN s = 1 .. Len(s) /\ s \in [1 .. Len(s) -> ToSet(s)]
  BY DEF ToSet
<1>2. s \in Surjection(1 .. Len(s), ToSet(s))
  BY <1>1 DEF Surjection, ToSet
<1>3. s \in Injection(1 .. Len(s), ToSet(s))
  BY <1>1 DEF Injection, IsInjective
<1>4. IsFiniteSet(1 .. Len(s)) /\ Cardinality(1 .. Len(s)) = Len(s)
  <2>1. IsFiniteSet(1 .. Len(s))
     /\ Cardinality(1 .. Len(s)) = IF 1 > Len(s) THEN 0 ELSE Len(s) - 1 + 1
    BY <1>1, FS_Interval
  <2> QED
    BY <1>1, <2>1
<1> QED
  BY <1>2, <1>3, <1>4, FS_Surjection

\* The budget instructions that are put in front ask for no signer.
LEMMA FinalAsksForTheSame ==
  ASSUME ixs \in Seq(Instructions), Succeeds(final_ixs)
  PROVE  MessageSigners(payer, final_ixs.value) = {payer} \cup AskedFor(ixs)
<1> DEFINE limit == Limit(AtLeast(AtMost(compute_units, 1400000), 200000))
           price == Price(AtMost(10000, priority_fees))
           first == IF compute_units = Unset THEN <<>> ELSE <<limit>>
           second == IF priority_fees = Unset THEN <<>> ELSE <<price>>
           S == Instructions \cup {limit, price}
           xs == pre_ixs \o ixs
<1>1. final_ixs.value = xs
  BY DEF final_ixs, Succeeds, Err, Ok
<1>2. pre_ixs = first \o second
  BY DEF pre_ixs
<1>3. limit.signers = <<>> /\ price.signers = <<>>
  BY DEF Limit, Price
<1> HIDE DEF limit, price
<1>4. /\ ToSet(<<>>) = {} /\ \A T : <<>> \in Seq(T)
      /\ \A x, T : x \in T => <<x>> \in Seq(T) /\ ToSet(<<x>>) = {x}
  <2>1. ToSet(<<>>) = {} /\ \A T : <<>> \in Seq(T)
    BY DEF ToSet
  <2>2. ASSUME NEW T, NEW x \in T PROVE <<x>> \in Seq(T) /\ ToSet(<<x>>) = {x}
    <3>1. <<x>> \in Seq(T) /\ DOMAIN <<x>> = {1} /\ <<x>>[1] = x
      OBVIOUS
    <3> QED
      BY <3>1 DEF ToSet
  <2> QED
    BY <2>1, <2>2
<1>5. /\ first \in Seq(S) /\ ToSet(first) \subseteq {limit}
      /\ second \in Seq(S) /\ ToSet(second) \subseteq {price} /\ ixs \in Seq(S)
  <2>1. limit \in S /\ price \in S /\ ixs \in Seq(S)
    OBVIOUS
  <2> HIDE DEF S
  <2>2. first \in Seq(S) /\ ToSet(first) \subseteq {limit}
    BY <1>4, <2>1
  <2>3. second \in Seq(S) /\ ToSet(second) \subseteq {price}
    BY <1>4, <2>1
  <2> QED
    BY <2>1, <2>2, <2>3
<1> HIDE DEF first, second, S
<1>6. pre_ixs \in Seq(S) /\ ToSet(pre_ixs) \subseteq {limit, price}
  BY <1>2, <1>5, JoinedElements
<1>7. ToSet(xs) = ToSet(pre_ixs) \cup ToSet(ixs)
  BY <1>5, <1>6, JoinedElements
<1>8. \A ys : AskedFor(ys) = UNION {ToSet(x.signers) : x \in ToSet(ys)}
  BY DEF AskedFor, ToSet
<1>9. \A x \in ToSet(pre_ixs) : ToSet(x.signers) = {}
  BY <1>3, <1>4, <1>6
<1>10. AskedFor(xs) = AskedFor(ixs)
  <2> HIDE DEF xs
  <2> QED
    BY <1>7, <1>8, <1>9
<1> QED
  BY <1>1, <1>10 DEF MessageSigners, AskedFor

\* Given the required signers, both ways to sign need the same of the message:
\* that an instruction asks for the payer.
LEMMA BothNeedThePayer ==
  ASSUME BuilderInv, Succeeds(final_ixs)
  PROVE  /\ TrySign(payer, final_ixs.value, required_signers(ixs)) <=> payer \in AskedFor(ixs)
         /\ TryNew(payer, final_ixs.value, required_signers(ixs)) <=> payer \in AskedFor(ixs)
<1> DEFINE R == required_signers(ixs)
           M == MessageSigners(payer, final_ixs.value)
<1>1. ixs \in Seq(Instructions)
  BY DEF BuilderInv, TypeOK
<1>2. M = {payer} \cup AskedFor(ixs)
  BY <1>1, FinalAsksForTheSame
<1>3. ToSet(R) = AskedFor(ixs)
  BY <1>1, RequiredSigners
<1>4. Len(R) = Cardinality(AskedFor(ixs))
  <2>1. R \in Seq(Keys) /\ \A i, j \in DOMAIN R : R[i] = R[j] => i = j
    BY <1>1, RequiredSigners
  <2> HIDE DEF R
  <2> QED
    BY <1>3, <2>1, LengthOfDistinct
<1> HIDE DEF R, M
<1>5. TrySign(payer, final_ixs.value, R) <=> payer \in AskedFor(ixs)
  BY <1>2, <1>3 DEF TrySign, M
<1>6. TryNew(payer, final_ixs.value, R) <=> Len(R) = Cardinality(M) /\ M \subseteq ToSet(R)
  BY DEF TryNew, M
<1>7. TryNew(payer, final_ixs.value, R) <=> payer \in AskedFor(ixs)
  <2>1. payer \in AskedFor(ixs) => M = AskedFor(ixs)
    BY <1>2
  <2>2. M \subseteq AskedFor(ixs) => payer \in AskedFor(ixs)
    BY <1>2
  <2> QED
    BY <1>3, <1>4, <1>6, <2>1, <2>2
<1> QED
  BY <1>5, <1>7 DEF R

\* Whatever supplies the signers, a legacy transaction is made exactly where a v0
\* transaction is, and the two differ in their lookup tables.
LEMMA FormatsBuildTheSame ==
  ASSUME BuilderInv, NEW keys, Succeeds(keys) => keys.value = required_signers(ixs),
         NEW hash
  PROVE  LET legacy == build_legacy_tx(final_ixs, keys, hash)
             v0 == build_v0_tx(final_ixs, keys, luts, hash)
         IN  /\ Succeeds(legacy) <=> Succeeds(v0)
             /\ Succeeds(legacy) => v0.value = [legacy.value EXCEPT !.luts = luts]
             /\ Succeeds(v0) => Succeeds(keys) /\ payer \in AskedFor(ixs)
<1> DEFINE legacy == build_legacy_tx(final_ixs, keys, hash)
           v0 == build_v0_tx(final_ixs, keys, luts, hash)
           xs == final_ixs.value
<1>1. CASE ~ Succeeds(final_ixs) \/ ~ Succeeds(keys)
  BY <1>1 DEF build_legacy_tx, build_v0_tx
<1>2. CASE Succeeds(final_ixs) /\ Succeeds(keys)
  <2>1. /\ TrySign(payer, xs, keys.value) <=> payer \in AskedFor(ixs)
        /\ TryNew(payer, xs, keys.value) <=> payer \in AskedFor(ixs)
    BY <1>2, BothNeedThePayer
  <2>2. /\ legacy = IF payer \in AskedFor(ixs) THEN Ok(Tx(payer, xs, keys.value, hash, <<>>))
                    ELSE Err("SolanaSignError")
        /\ v0 = IF payer \in AskedFor(ixs) THEN Ok(Tx(payer, xs, keys.value, hash, luts))
                ELSE Err("panic")
    BY <1>2, <2>1 DEF build_legacy_tx, build_v0_tx
  <2>3. ~ Succeeds(Err("panic")) /\ ~ Succeeds(Err("SolanaSignError"))
        /\ \A v : Succeeds(Ok(v)) /\ Ok(v).value = v
    BY DEF Succeeds, Err, Ok
  <2>4. Tx(payer, xs, keys.value, hash, luts)
          = [Tx(payer, xs, keys.value, hash, <<>>) EXCEPT !.luts = luts]
    BY DEF Tx
  <2> HIDE DEF legacy, v0, xs
  <2>5. CASE payer \in AskedFor(ixs)
    BY <1>2, <2>2, <2>3, <2>4, <2>5 DEF legacy, v0
  <2>6. CASE payer \notin AskedFor(ixs)
    BY <2>2, <2>3, <2>6 DEF legacy, v0
  <2> QED
    BY <2>5, <2>6
<1> QED
  BY <1>1, <1>2

\* For every instruction and signer the two formats agree on which builders can
\* be signed, and by whom.
THEOREM FormatsSignAlike == Spec => []FormatsAgree
<1>1. ASSUME BuilderInv PROVE FormatsAgree
  <2> DEFINE hash == OrElse(recent_blockhash, DefaultHash)
  <2>1. /\ Succeeds(stored_signers) => stored_signers.value = required_signers(ixs)
        /\ Succeeds(stored_signers) => ToSet(required_signers(ixs)) \subseteq ToSet(signers)
        /\ Succeeds(signers_with_payer(payer))
             => signers_with_payer(payer).value = required_signers(ixs)
    BY DEF stored_signers, signers_with_payer, Succeeds, Err, Ok
  <2>2. to_v0_tx = build_v0_tx(final_ixs, stored_signers, luts, hash)
    BY DEF to_v0_tx
  <2>3. has_payer => to_legacy_tx = build_legacy_tx(final_ixs, stored_signers, hash)
    BY DEF to_legacy_tx
  <2>4. /\ to_legacy_tx_with_payer(payer)
             = build_legacy_tx(final_ixs, signers_with_payer(payer), hash)
        /\ to_v0_tx_with_payer(payer)
             = build_v0_tx(final_ixs, signers_with_payer(payer), luts, hash)
    BY DEF to_legacy_tx_with_payer, to_v0_tx_with_payer
  <2> HIDE DEF hash
  <2>5. has_payer => /\ Succeeds(to_legacy_tx) <=> Succeeds(to_v0_tx)
                     /\ Succeeds(to_legacy_tx) =>
                          to_v0_tx.value = [to_legacy_tx.value EXCEPT !.luts = luts]
    BY <1>1, <2>1, <2>2, <2>3, FormatsBuildTheSame
  <2>6. Succeeds(to_legacy_tx_with_payer(payer)) <=> Succeeds(to_v0_tx_with_payer(payer))
    <3>1. Succeeds(build_legacy_tx(final_ixs, signers_with_payer(payer), hash))
            <=> Succeeds(build_v0_tx(final_ixs, signers_with_payer(payer), luts, hash))
      BY <1>1, <2>1, FormatsBuildTheSame
    <3> QED
      BY <2>4, <3>1
  <2>7. ASSUME Succeeds(to_v0_tx) PROVE has_payer
    <3>1. Succeeds(stored_signers) /\ payer \in AskedFor(ixs)
      BY <1>1, <2>1, <2>2, <2>7, FormatsBuildTheSame
    <3>2. ToSet(required_signers(ixs)) = AskedFor(ixs)
      BY <1>1, RequiredSigners DEF BuilderInv, TypeOK
    <3> QED
      BY <2>1, <3>1, <3>2 DEF has_payer, has_signer
  <2> QED
    BY <2>5, <2>6, <2>7 DEF FormatsAgree
<1> QED
  BY <1>1, BuilderInvariance, PTL

-----------------------------------------------------------------------------
(***************************************************************************)
(* Lookup tables, and transactions made without a builder.                 *)
(***************************************************************************)

\* Whatever cannot be fetched, the tables added before stay in front, those of one
\* request are added all or none, and tables make no difference to what can be
\* built and signed.
THEOREM TablesKept == Spec => TablesNeverLost
<1>1. ASSUME BuilderInv, [Next]_vars
      PROVE  [luts' # luts =>
                /\ Len(luts) <= Len(luts') /\ SubSeq(luts', 1, Len(luts)) = luts
                /\ \A ts \in TableSeqs : add_address_lookup_tables(ts) => luts' = luts \o ts
                /\ to_legacy_tx' = to_legacy_tx
                /\ to_v0_tx'.error = to_v0_tx.error
                /\ Succeeds(to_v0_tx) =>
                     to_v0_tx'.value = [to_v0_tx.value EXCEPT !.luts = luts']]_vars
  <2> SUFFICES ASSUME luts' # luts
               PROVE  /\ Len(luts) <= Len(luts') /\ SubSeq(luts', 1, Len(luts)) = luts
                      /\ \A ts \in TableSeqs : add_address_lookup_tables(ts) => luts' = luts \o ts
                      /\ to_legacy_tx' = to_legacy_tx
                      /\ to_v0_tx'.error = to_v0_tx.error
                      /\ Succeeds(to_v0_tx) =>
                           to_v0_tx'.value = [to_v0_tx.value EXCEPT !.luts = luts']
    OBVIOUS
  <2>0. luts \in Seq(Tables)
    BY <1>1 DEF BuilderInv, TypeOK
  <2>1. \/ \E t \in Tables : add_address_lookup_table(t)
        \/ \E ts \in TableSeqs : add_address_lookup_accounts(ts) \/ add_address_lookup_tables(ts)
    BY <1>1 DEF Next, vars, set_compute_units, set_priority_fees, set_recent_blockhash, add_ix,
                add_signer
  <2>2. \E ts \in Seq(Tables) : luts' = luts \o ts
    <3>1. ASSUME NEW t \in Tables, add_address_lookup_table(t)
          PROVE  luts' = luts \o <<t>> /\ <<t>> \in Seq(Tables)
      BY <2>0, <3>1 DEF add_address_lookup_table, fetch_address_lookup_account, Ok, Err, Succeeds
    <3>2. ASSUME NEW ts \in TableSeqs,
                 add_address_lookup_accounts(ts) \/ add_address_lookup_tables(ts)
          PROVE  luts' = luts \o ts /\ ts \in Seq(Tables)
      BY <3>2, TablesInSequence DEF add_address_lookup_accounts, add_address_lookup_tables,
         fetch_multiple_address_lookup_accounts, Ok, Err, Succeeds
    <3> QED
      BY <2>1, <3>1, <3>2
  <2>3. Len(luts) <= Len(luts') /\ SubSeq(luts', 1, Len(luts)) = luts
    BY <2>0, <2>2
  <2>9. ASSUME NEW ts \in TableSeqs, add_address_lookup_tables(ts) PROVE luts' = luts \o ts
    BY <2>9 DEF add_address_lookup_tables, fetch_multiple_address_lookup_accounts,
                Ok, Err, Succeeds
  <2>4. /\ payer' = payer /\ ixs' = ixs /\ signers' = signers
        /\ recent_blockhash' = recent_blockhash
        /\ compute_units' = compute_units /\ priority_fees' = priority_fees
    BY <2>1 DEF add_address_lookup_table, add_address_lookup_accounts, add_address_lookup_tables,
                settings
  <2>5. /\ final_ixs' = final_ixs /\ stored_signers' = stored_signers
        /\ has_payer' = has_payer
    BY <2>4, SameInstructions DEF stored_signers, has_payer, has_signer
  <2>6. to_legacy_tx' = to_legacy_tx
    BY <2>4, <2>5 DEF to_legacy_tx, build_legacy_tx
  <2>7. to_v0_tx'.error = to_v0_tx.error
    BY <2>4, <2>5 DEF to_v0_tx, build_v0_tx, Ok, Err, Succeeds
  <2>8. ASSUME Succeeds(to_v0_tx)
        PROVE  to_v0_tx'.value = [to_v0_tx.value EXCEPT !.luts = luts']
    <3> DEFINE hash == OrElse(recent_blockhash, DefaultHash)
    <3>1. /\ to_v0_tx = Ok(Tx(payer, final_ixs.value, stored_signers.value, hash, luts))
          /\ to_v0_tx' = Ok(Tx(payer, final_ixs.value, stored_signers.value, hash, luts'))
      BY <2>4, <2>5, <2>8 DEF to_v0_tx, build_v0_tx, Err, Succeeds
    <3> QED
      BY <3>1 DEF Ok, Tx
  <2> QED
    BY <2>3, <2>6, <2>7, <2>8, <2>9
<1> QED
  BY <1>1, BuilderInvariance, PTL DEF Spec, TablesNeverLost

\* ix_to_tx, given the builder's instructions and blockhash and, behind the
\* payer's, the signers they ask for, never fails and makes what the builder
\* makes; the builder, with all of these stored, fails only with SolanaSignError
\* and only where no instruction asks for the payer.
THEOREM OneShotAgrees == Spec => [](\A keys \in Seq(Keys) : OneShotAgreesOn(keys))
<1>1. ASSUME BuilderInv, NEW keys \in Seq(Keys) PROVE OneShotAgreesOn(keys)
  <2> DEFINE hash == OrElse(recent_blockhash, DefaultHash)
             xs == final_ixs.value
             tx == ix_to_tx(xs, keys, hash)
             R == required_signers(ixs)
  <2> SUFFICES ASSUME Succeeds(final_ixs), keys # <<>>, keys[1] = payer,
                      ToSet(keys) = {payer} \cup ToSet(R)
               PROVE  /\ Succeeds(tx)
                      /\ Succeeds(to_legacy_tx) => to_legacy_tx = tx
                      /\ ~ Succeeds(to_legacy_tx) /\ has_payer /\ Succeeds(stored_signers) =>
                            /\ to_legacy_tx = Err("SolanaSignError")
                            /\ payer \notin ToSet(R)
    BY DEF OneShotAgreesOn
  <2>1. /\ ixs \in Seq(Instructions)
        /\ ToSet(R) = AskedFor(ixs)
        /\ MessageSigners(payer, xs) = {payer} \cup AskedFor(ixs)
    BY <1>1, RequiredSigners, FinalAsksForTheSame DEF BuilderInv, TypeOK
  <2>2. TrySign(payer, xs, R) <=> payer \in ToSet(R)
    BY <1>1, <2>1, BothNeedThePayer
  <2>3. Succeeds(stored_signers) => stored_signers.value = R
    BY DEF stored_signers, Succeeds, Err, Ok
  <2> HIDE DEF xs, R
  <2>4. tx = Ok(Tx(payer, xs, keys, hash, <<>>))
    BY <2>1 DEF ix_to_tx, TrySign
  <2>5. ASSUME has_payer, Succeeds(stored_signers)
        PROVE  to_legacy_tx = IF payer \in ToSet(R) THEN Ok(Tx(payer, xs, R, hash, <<>>))
                              ELSE Err("SolanaSignError")
    BY <2>2, <2>3, <2>5 DEF to_legacy_tx, build_legacy_tx, xs
  <2>6. Succeeds(to_legacy_tx) => has_payer /\ Succeeds(stored_signers)
    BY DEF to_legacy_tx, build_legacy_tx, Succeeds, Err
  <2>7. payer \in ToSet(R) => Tx(payer, xs, R, hash, <<>>) = Tx(payer, xs, keys, hash, <<>>)
    BY DEF Tx
  <2>8. (\A v : Succeeds(Ok(v))) /\ ~ Succeeds(Err("SolanaSignError"))
    BY DEF Succeeds, Ok, Err
  <2> HIDE DEF tx, hash
  <2> QED
    BY <2>4, <2>5, <2>6, <2>7, <2>8
<1>2. ASSUME BuilderInv PROVE \A keys \in Seq(Keys) : OneShotAgreesOn(keys)
  BY <1>1, <1>2
<1> QED
  BY <1>2, BuilderInvariance, PTL

\* A compute budget instruction is not one of the caller's.
LEMMA BudgetIsNotCallers == \A n : Limit(n) \notin Instructions /\ Price(n) \notin Instructions
<1> SUFFICES ASSUME NEW n PROVE Limit(n) \notin Instructions /\ Price(n) \notin Instructions
  OBVIOUS
<1>1. /\ Limit(n).program = "set_compute_unit_limit"
      /\ Price(n).program = "set_compute_unit_price"
  BY DEF Limit, Price
<1> QED
  BY <1>1, CostAssumption

\* What a transaction consumes, with one and with two budget instructions in
\* front of the caller's.
LEMMA Consumption ==
  ASSUME NEW xs \in Seq(Instructions), NEW cost \in Nat, NEW a, NEW b
  PROVE  /\ Consumes(<<Limit(a)>> \o xs, cost) = cost + BudgetCost
         /\ Consumes(<<Limit(a), Price(b)>> \o xs, cost) = cost + 2 * BudgetCost
<1> DEFINE one == <<Limit(a)>> \o xs
           two == <<Limit(a), Price(b)>> \o xs
<1>0. BudgetCost \in Nat
  BY CostAssumption
<1>1. \A i \in 1 .. Len(xs) : xs[i] \in Instructions
  OBVIOUS
<1>2. {i \in DOMAIN one : one[i] \notin Instructions} = {1}
  <2>1. /\ DOMAIN one = 1 .. Len(xs) + 1 /\ Len(xs) \in Nat
        /\ one[1] = Limit(a)
        /\ \A i \in 2 .. Len(xs) + 1 : one[i] = xs[i - 1]
    OBVIOUS
  <2> HIDE DEF one
  <2> QED
    BY <1>1, <2>1, BudgetIsNotCallers
<1>3. {i \in DOMAIN two : two[i] \notin Instructions} = {1, 2}
  <2>1. /\ DOMAIN two = 1 .. Len(xs) + 2 /\ Len(xs) \in Nat
        /\ two[1] = Limit(a) /\ two[2] = Price(b)
        /\ \A i \in 3 .. Len(xs) + 2 : two[i] = xs[i - 2]
    OBVIOUS
  <2> HIDE DEF two
  <2> QED
    BY <1>1, <2>1, BudgetIsNotCallers
<1>4. Cardinality({1}) = 1 /\ Cardinality({1, 2}) = 2
  <2>1. IsFiniteSet({1}) /\ Cardinality({1}) = 1
    BY FS_Singleton
  <2>2. {1, 2} = {1} \cup {2} /\ 2 \notin {1}
    OBVIOUS
  <2>3. Cardinality({1} \cup {2}) = Cardinality({1}) + 1
    BY <2>1, <2>2, FS_AddElement, Zenon
  <2>4. Cardinality({1, 2}) = Cardinality({1} \cup {2})
    BY <2>2, Zenon
  <2>5. \A c : c = 1 + 1 => c = 2
    OBVIOUS
  <2>6. Cardinality({1, 2}) = 1 + 1
    BY <2>1, <2>3, <2>4, Zenon
  <2> QED
    BY <2>1, <2>5, <2>6, Zenon
<1> HIDE DEF one, two
<1>5. Consumes(one, cost) = cost + BudgetCost * 1
  BY <1>2, <1>4 DEF Consumes
<1>6. Consumes(two, cost) = cost + BudgetCost * 2
  BY <1>3, <1>4 DEF Consumes
<1> QED
  BY <1>0, <1>5, <1>6 DEF one, two

\* The limit covers the transaction, for every cost of a budget instruction,
\* unless the simulation came upon an error.
THEOREM LimitSuffices == Spec => []ComputeLimitSuffices
<1>1. ASSUME BuilderInv PROVE ComputeLimitSuffices
  <2>1. ixs \in Seq(Instructions) /\ BudgetCost \in Nat /\ Costs \subseteq Nat
    BY <1>1, CostAssumption DEF BuilderInv, TypeOK
  <2> SUFFICES ASSUME NEW cost \in Costs, NEW sim \in Simulations(ixs, cost),
                      Succeeds(OneShotV0(sim)), ~ sim.err,
                      2 * cost >= 3 * BudgetCost, cost + 2 * BudgetCost <= MaxUnits
               PROVE  LET tx == OneShotV0(sim)
                      IN  Consumes(tx.value.ixs, cost) <= tx.value.ixs[1].value
    BY DEF ComputeLimitSuffices
  <2> DEFINE tx == OneShotV0(sim)
             estimate == estimate_compute_units(ixs, signers, sim)
             units == IF Succeeds(estimate) THEN estimate.value ELSE MaxUnits
             final == <<Limit(UnitsFor(units)), Price(10000)>> \o ixs
  <2>2. tx.value.ixs = final
    BY DEF OneShotV0, ix_to_tx_v0, Succeeds, Err, Ok, Tx
  <2>3. final[1].value = UnitsFor(units)
    <3>1. final[1] = Limit(UnitsFor(units))
      BY <2>1
    <3> QED
      BY <3>1 DEF Limit
  <2>4. Consumes(final, cost) = cost + 2 * BudgetCost
    <3> HIDE DEF units
    <3>1. cost \in Nat
      BY <2>1
    <3>2. \A a, b : Consumes(<<Limit(a), Price(b)>> \o ixs, cost) = cost + 2 * BudgetCost
      BY <2>1, <3>1, Consumption
    <3> QED
      BY <3>2
  <2>5. units = MaxUnits \/ units = cost + BudgetCost
    <3>1. Succeeds(estimate) => sim.units_consumed # Unset /\ estimate.value = sim.units_consumed
      BY DEF estimate_compute_units, Succeeds, Err, Ok
    <3>2. sim.units_consumed \in {Unset, Consumes(Simulated(ixs), cost)}
      BY DEF Simulations
    <3>3. Consumes(Simulated(ixs), cost) = cost + BudgetCost
      BY <2>1, Consumption DEF Simulated
    <3> QED
      BY <3>1, <3>2, <3>3
  <2>6. cost + 2 * BudgetCost <= UnitsFor(units)
    <3> HIDE DEF units
    <3>1. cost \in Nat
      BY <2>1
    <3>2. CASE units = MaxUnits
      BY <2>1, <3>1, <3>2 DEF UnitsFor, AtMost, MaxUnits
    <3>3. CASE units = cost + BudgetCost
      <4>1. (units * 14) \div 10 >= cost + 2 * BudgetCost
        BY <2>1, <3>1, <3>3
      <4> QED
        BY <2>1, <3>1, <3>3, <4>1 DEF UnitsFor, AtMost, MaxUnits
    <3> QED
      BY <2>5, <3>2, <3>3
  <2> QED
    BY <2>2, <2>3, <2>4, <2>6
<1> QED
  BY <1>1, BuilderInvariance, PTL
=============================================================================
