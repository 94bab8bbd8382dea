------------------------- MODULE QuoteVerifierProofs -------------------------
(***************************************************************************)
(* For every queue, window, account size and max_age, and for instructions *)
(* with any number of signatures: what verification accepts was signed,    *)
(* by keys of the queue, over a block of this chain that is recent; what   *)
(* an honest crank stores is accepted while it is recent; a max_age that   *)
(* was never set accepts nothing; and what verify_account shows implements *)
(* AttestedQuote.                                                          *)
(***************************************************************************)
EXTENDS QuoteVerifier, SlotHashesProofs

-----------------------------------------------------------------------------
(***************************************************************************)
(* The Ed25519 instruction.                                                *)
(***************************************************************************)

\* The check made on the first entry when the data is taken from the
\* transaction, and those made on the others when the quote is parsed, leave
\* only entries that the precompile has verified, all over one message.
LEMMA ParsedEntriesAreSigned ==
  ASSUME NEW entries, NEW x, NEW sigs,
         DOMAIN entries = 1 .. Len(entries), Len(entries) \in Nat,
         Ed!PrecompileAccepts(entries, x, sigs),
         Ed!ExtractIxData(entries, x),
         Ed!ParseInstruction(entries, FeedCount)
  PROVE  \A i \in DOMAIN entries :
            <<entries[i].key, Ed!Message(entries)>> \in sigs
<1> SUFFICES ASSUME NEW i \in DOMAIN entries
             PROVE  <<entries[i].key, Ed!Message(entries)>> \in sigs
  OBVIOUS
<1>1. Ed!RefersTo(entries[1], x)
  BY DEF Ed!ExtractIxData
<1>2. CASE i = 1
  BY <1>1, <1>2 DEF Ed!PrecompileAccepts, Ed!Message
<1>3. CASE i # 1
  <2>1. i \in 2 .. Len(entries)
    BY <1>3
  <2>2. entries[i].msg = entries[1].msg /\ Ed!RefersTo(entries[i], entries[1].msgIx)
    BY <2>1 DEF Ed!ParseInstruction, Ed!SameMessage
  <2>3. Ed!RefersTo(entries[i], x)
    BY <1>1, <2>2 DEF Ed!RefersTo
  <2> QED
    BY <2>2, <2>3 DEF Ed!PrecompileAccepts, Ed!Message
<1> QED
  BY <1>2, <1>3

-----------------------------------------------------------------------------
(***************************************************************************)
(* The invariant.                                                          *)
(***************************************************************************)

\* The first bank, before anything was signed or stored.
LEMMA InitInv == Init => VerifierInv
<1> SUFFICES ASSUME Init PROVE VerifierInv
  OBVIOUS
<1>1. SlotInv
  BY SlotInitInv DEF Init
<1>2. StoredInv /\ SignedInv
  BY DEF Init, Account!AccountInit, StoredInv, SignedInv
<1>3. TypeOK
  BY <1>1, VerifierAssumption DEF Init, TypeOK, SlotInv
<1> QED
  BY <1>1, <1>2, <1>3 DEF VerifierInv

\* A signature more takes nothing away from what was established.
LEMMA SignInv ==
  ASSUME VerifierInv, NEW k \in Keys, NEW f \in Forks, NEW v \in Feeds, Sign(k, f, v)
  PROVE  VerifierInv'
<1> DEFINE p == <<k, [hash |-> BlockHash(Newest, f), feed |-> v]>>
<1>1. /\ UNCHANGED <<clock, sysvar, queueKeys, rotations, writes, stored>>
      /\ signed' = signed \cup {p}
  BY DEF Sign
<1>2. SlotInv'
  BY <1>1 DEF VerifierInv, SlotInv, SlotTypeOK, GapInv, PastInv, HashInv
<1>5. Newest \in Slots \ {0}
  BY SlotHashesAssumption
     DEF Sign, Newest, VerifierInv, SlotInv, SlotTypeOK, Entries, Index, Slots
<1>6. p \in Keys \X Messages
  BY <1>5 DEF Messages, Hashes, BlockHash
<1>7. TypeOK'
  BY <1>1, <1>6 DEF VerifierInv, TypeOK, SlotTypeOK
<1>3. StoredInv'
  BY <1>1 DEF VerifierInv, StoredInv, Ed!PrecompileAccepts
<1>4. SignedInv'
  <2>1. p[2].hash.slot = Newest
    BY DEF BlockHash
  <2> QED
    BY <1>1, <1>5, <2>1 DEF VerifierInv, SignedInv
<1> QED
  BY <1>2, <1>3, <1>4, <1>7 DEF VerifierInv

LEMMA RotateKeyInv ==
  ASSUME VerifierInv, NEW i \in 0 .. QueueLen - 1, NEW k \in Keys \cup {NoKey},
         RotateKey(i, k)
  PROVE  VerifierInv'
<1>1. UNCHANGED <<clock, sysvar, signed, stored>>
  BY DEF RotateKey
<1>2. SlotInv' /\ StoredInv' /\ SignedInv'
  BY <1>1 DEF VerifierInv, SlotInv, SlotTypeOK, GapInv, PastInv, HashInv, StoredInv, SignedInv,
              Ed!PrecompileAccepts
<1>3. TypeOK'
  BY <1>1, VerifierAssumption DEF VerifierInv, TypeOK, SlotTypeOK, RotateKey
<1> QED
  BY <1>2, <1>3 DEF VerifierInv

LEMMA BankInv ==
  ASSUME VerifierInv, Bank
  PROVE  VerifierInv'
<1>1. PICK s \in Slots : NewBank(s, Own)
  BY DEF Bank
<1>2. SlotInv'
  BY <1>1, NewBankInv, VerifierAssumption DEF VerifierInv
<1>3. /\ UNCHANGED <<signed, stored, queueKeys, rotations, writes>>
      /\ clock < clock' /\ clock \in Int /\ clock' \in Int
  BY <1>1, SlotHashesAssumption
     DEF Bank, NewBank, VerifierInv, SlotInv, SlotTypeOK, Slots
<1>4. StoredInv'
  BY <1>3, SlotHashesAssumption DEF VerifierInv, StoredInv, Ed!PrecompileAccepts, Slots
<1>5. SignedInv' /\ TypeOK'
  BY <1>2, <1>3 DEF VerifierInv, SignedInv, TypeOK, SlotInv
<1> QED
  BY <1>2, <1>4, <1>5 DEF VerifierInv

LEMMA WriteFromIxInv ==
  ASSUME VerifierInv, NEW entries \in EntryLists,
         NEW idxs \in [DOMAIN entries -> OracleIdxs], NEW slot \in Slots,
         WriteFromIx(entries, idxs, slot)
  PROVE  VerifierInv'
<1>1. UNCHANGED <<clock, sysvar, signed, queueKeys, rotations>>
  BY DEF WriteFromIx, Account!Write
<1>2. SlotInv' /\ SignedInv'
  BY <1>1 DEF VerifierInv, SlotInv, SlotTypeOK, GapInv, PastInv, HashInv, SignedInv
<1>8. TypeOK'
  BY <1>1, VerifierAssumption DEF VerifierInv, TypeOK, SlotTypeOK, WriteFromIx
<1>3. PICK n \in 1 .. MaxSigs : entries \in [1 .. n -> LocalEntries \cup Foreign]
  BY DEF EntryLists
<1>4. Len(entries) = n /\ DOMAIN entries = 1 .. n
  BY <1>3, VerifierAssumption
<1>5. /\ stored' = Quote(entries, idxs, slot) /\ slot < clock
      /\ Ed!PrecompileAccepts(entries, ProgramIx, signed)
      /\ Ed!ExtractIxData(entries, ProgramIx)
  BY DEF WriteFromIx, Account!Write, Account!SlotProgresses, Quote
<1>6. stored'.entries = entries /\ stored'.idxs = idxs /\ stored'.slot = slot
  BY <1>5 DEF Quote
<1>7. StoredInv'
  BY <1>1, <1>3, <1>4, <1>5, <1>6, VerifierAssumption DEF StoredInv, Ed!PrecompileAccepts
<1> QED
  BY <1>2, <1>7, <1>8 DEF VerifierInv

\* The invariant of the whole: ordered slot hashes, and a stored quote whose
\* first entry was verified by the precompile of its transaction.
THEOREM VerifierInvariance == Spec => []VerifierInv
<1>1. VerifierInv /\ [Next]_vars => VerifierInv'
  <2> SUFFICES ASSUME VerifierInv, [Next]_vars PROVE VerifierInv'
    OBVIOUS
  <2>1. CASE Bank
    BY <2>1, BankInv
  <2>2. ASSUME NEW k \in Keys, NEW f \in Forks, NEW v \in Feeds, Sign(k, f, v)
        PROVE  VerifierInv'
    BY <2>2, SignInv
  <2>3. ASSUME NEW i \in 0 .. QueueLen - 1, NEW k \in Keys \cup {NoKey}, RotateKey(i, k)
        PROVE  VerifierInv'
    BY <2>3, RotateKeyInv
  <2>4. CASE Crank
    BY <2>4, WriteFromIxInv DEF Crank
  <2>5. CASE UNCHANGED vars
    BY <2>5 DEF vars, VerifierInv, SlotInv, SlotTypeOK, GapInv, PastInv, HashInv, TypeOK,
                StoredInv, SignedInv, Ed!PrecompileAccepts
  <2> QED
    BY <2>1, <2>2, <2>3, <2>4, <2>5 DEF Next
<1> QED
  BY <1>1, InitInv, PTL DEF Spec

-----------------------------------------------------------------------------
(***************************************************************************)
(* What is accepted.                                                       *)
(***************************************************************************)

\* The signatures of a quote that is accepted, in any state of the invariant.
LEMMA AcceptedSignatures == VerifierInv => AcceptedQuotesAreSigned
<1>1. ASSUME VerifierInv PROVE AcceptedQuotesAreSigned
  <2> SUFFICES ASSUME VerifyAccount, NEW i \in DOMAIN stored.entries
               PROVE
                 /\ <<stored.entries[i].key, Ed!Message(stored.entries)>> \in signed
                 /\ \E j \in DOMAIN queueKeys : queueKeys[j] = stored.entries[i].key
    BY DEF AcceptedQuotesAreSigned
  <2>1. stored # NoQuote /\ Verify(stored)
    BY DEF VerifyAccount
  <2>2. <<stored.entries[i].key, Ed!Message(stored.entries)>> \in signed
    <3>1. /\ DOMAIN stored.entries = 1 .. Len(stored.entries) /\ Len(stored.entries) \in Nat
          /\ Ed!PrecompileAccepts(stored.entries, ProgramIx, signed)
          /\ Ed!ExtractIxData(stored.entries, ProgramIx)
          /\ Ed!ParseInstruction(stored.entries, FeedCount)
      BY <1>1, <2>1 DEF VerifierInv, StoredInv, Verify
    <3> QED
      BY <3>1, ParsedEntriesAreSigned
  <2>3. stored.idxs[i] % QueueLen \in DOMAIN queueKeys
    BY <1>1, <2>1, VerifierAssumption DEF VerifierInv, StoredInv, TypeOK
  <2>4. queueKeys[stored.idxs[i] % QueueLen] = stored.entries[i].key
    BY <2>1 DEF Verify, KeysMatch
  <2> QED
    BY <2>2, <2>3, <2>4
<1> QED
  BY <1>1

\* Whatever the indexes of a quote's entries said, and however the queue has
\* changed since it was stored: each signature of an accepted quote is over the
\* message the consumer reads, by a key now in the queue.
THEOREM AcceptedAreSigned == Spec => []AcceptedQuotesAreSigned
  BY AcceptedSignatures, VerifierInvariance, PTL

\* The slot of a quote that is accepted, in any state of the invariant.
LEMMA AcceptedSlot == VerifierInv => AcceptedSlotIsSigned
<1>1. ASSUME VerifierInv PROVE AcceptedSlotIsSigned
  <2> DEFINE hash == Ed!Message(stored.entries).hash
  <2> SUFFICES ASSUME VerifyAccount
               PROVE  /\ hash.slot = stored.slot
                      /\ \E i \in Index : sysvar[i] = [slot |-> stored.slot, hash |-> hash]
                      /\ clock - hash.slot <= MaxAge
    BY DEF AcceptedSlotIsSigned
  <2>1. FindSlothash(stored.slot) = {hash} /\ clock - stored.slot <= MaxAge
    BY DEF VerifyAccount, Verify, SlothashMatches, FreshEnough
  <2> HIDE DEF hash
  <2>2. PICK i \in At(stored.slot) : sysvar[i].hash = hash
    BY <2>1 DEF FindSlothash, ScanHits
  <2>3. i \in Index /\ sysvar[i].slot = stored.slot
    BY DEF At
  <2>4. sysvar[i] = [slot |-> stored.slot, hash |-> hash] /\ hash.slot = stored.slot
    BY <1>1, <2>2, <2>3 DEF VerifierInv, SlotInv, SlotTypeOK, HashInv, Entries
  <2> QED
    BY <2>1, <2>3, <2>4
<1> QED
  BY <1>1

\* The unsigned slot of an accepted quote is the slot of the signed hash, which
\* is in SlotHashes and at most max_age slots old.
THEOREM AcceptedSlotsAreSigned == Spec => []AcceptedSlotIsSigned
  BY AcceptedSlot, VerifierInvariance, PTL

\* A verifier whose max_age was left at 0 accepts nothing, ever: a quote is
\* stored only once its slot is below the clock.
THEOREM DefaultMaxAgeAcceptsNothing == MaxAge = 0 => (Spec => []~VerifyAccount)
<1> SUFFICES ASSUME MaxAge = 0 PROVE Spec => []~VerifyAccount
  OBVIOUS
<1>1. VerifierInv => ~VerifyAccount
  <2> SUFFICES ASSUME VerifierInv, VerifyAccount PROVE FALSE
    OBVIOUS
  <2>1. /\ stored.slot \in Int /\ clock \in Int /\ stored.slot < clock
        /\ clock - stored.slot <= 0
    BY SlotHashesAssumption
       DEF VerifierInv, SlotInv, SlotTypeOK, StoredInv, VerifyAccount, Verify, FreshEnough, Slots
  <2> QED
    BY <2>1
<1> QED
  BY <1>1, VerifierInvariance, PTL

-----------------------------------------------------------------------------
(***************************************************************************)
(* What is refused.                                                        *)
(***************************************************************************)

\* Where the scan and the search agree, looking up the slot of an entry finds
\* that entry's hash and no other.
LEMMA RecordedIsFound ==
  ASSUME SlotInv, NEW i \in Index, sysvar[i].slot > 0,
         Newest - sysvar[i].slot < WindowLen
  PROVE  FindSlothash(sysvar[i].slot) = {sysvar[i].hash}
<1> DEFINE t == sysvar[i].slot
<1>1. t \in Slots \ {0} /\ i \in At(t) /\ t \in Int /\ Newest \in Int
  BY SlotHashesAssumption DEF SlotInv, SlotTypeOK, Entries, Slots, At, Newest, Index
<1> HIDE DEF t
<1>2. t <= Newest
  BY <1>1, NewestIsLargest
<1>3. At(t) = {i}
  BY <1>1, EntriesAreUnique
<1>4. GetSlothash(t) = {sysvar[i].hash}
  BY <1>1, <1>2, <1>3 DEF GetSlothash, FindIdx
<1>5. FindSlothash(t) = GetSlothash(t)
  BY <1>1, ScanIsSearch DEF SearchesAgree, t
<1> QED
  BY <1>4, <1>5 DEF t

\* An honest quote is refused for its age only, if max_age is no more than the
\* length of SlotHashes: the newest entry is below the clock, so the distance
\* that the scan starts from stays below that length.
THEOREM HonestAccepted == Spec => []HonestQuoteAccepted
<1>1. ASSUME VerifierInv PROVE HonestQuoteAccepted
  <2> SUFFICES ASSUME MaxAge <= WindowLen, stored # NoQuote, Honest(stored),
                      clock - stored.slot <= MaxAge
               PROVE  VerifyAccount
    BY DEF HonestQuoteAccepted
  <2> DEFINE message == Ed!Message(stored.entries)
  <2>1. PICK j \in Index : sysvar[j] = [slot |-> stored.slot, hash |-> message.hash]
    BY DEF Honest
  <2>2. /\ DOMAIN stored.entries = 1 .. Len(stored.entries)
        /\ Len(stored.entries) \in 1 .. MaxSigs
        /\ stored.slot \in Slots /\ stored.slot < clock
    BY <1>1 DEF VerifierInv, StoredInv
  <2>3. /\ \A i \in DOMAIN stored.entries :
              stored.entries[i].msg = message /\ Ed!RefersTo(stored.entries[i], ProgramIx)
        /\ KeysMatch(stored)
    BY Zenon DEF Honest, KeysMatch
  <2>10. 1 \in DOMAIN stored.entries
    BY <2>2, VerifierAssumption
  <2>4. Ed!ParseInstruction(stored.entries, FeedCount)
    BY <2>2, <2>3, VerifierAssumption DEF Ed!ParseInstruction, Ed!SameMessage, Ed!RefersTo
  <2>5. stored.slot > 0
    <3>1. <<stored.entries[1].key, message>> \in signed
      BY <2>10 DEF Honest
    <3>2. message.hash.slot \in Slots \ {0}
      BY <1>1, <3>1 DEF VerifierInv, SignedInv
    <3>3. message.hash.slot = stored.slot
      BY <1>1, <2>1 DEF VerifierInv, SlotInv, HashInv
    <3> QED
      BY <3>2, <3>3, SlotHashesAssumption DEF Slots
  <2>6. Newest < clock
    BY <1>1, <2>2, SlotHashesAssumption
       DEF VerifierInv, SlotInv, SlotTypeOK, PastInv, Newest, Index, Entries, Slots
  <2>7. /\ Newest \in Int /\ clock \in Int /\ stored.slot \in Int
        /\ WindowLen \in Int /\ MaxAge \in Int
    BY <1>1, <2>2, SlotHashesAssumption, VerifierAssumption
       DEF VerifierInv, SlotInv, SlotTypeOK, Newest, Index, Entries, Slots
  <2>8. FreshEnough(stored)
    BY <2>2, <2>7 DEF FreshEnough
  <2>9. SlothashMatches(stored)
    <3>1. sysvar[j].slot > 0 /\ Newest - sysvar[j].slot < WindowLen
      BY <2>1, <2>5, <2>6, <2>7
    <3> QED
      BY <1>1, <2>1, <3>1, RecordedIsFound DEF VerifierInv, SlothashMatches
  <2> QED
    BY <2>3, <2>4, <2>8, <2>9 DEF VerifyAccount, Verify
<1> QED
  BY <1>1, VerifierInvariance, PTL

\* The slot and the signed hash of the stored quote are an entry of SlotHashes.
Recorded ==
    /\ stored.slot \in Slots \ {0}
    /\ \E i \in Index : /\ sysvar[i].slot = stored.slot
                        /\ sysvar[i].hash = Ed!Message(stored.entries).hash

\* A verified quote is for a slot after slot 0, for its hash was signed.
LEMMA AcceptedIsRecorded == VerifierInv /\ VerifyAccount => Recorded
<1> SUFFICES ASSUME VerifierInv, VerifyAccount PROVE Recorded
  OBVIOUS
<1> DEFINE hash == Ed!Message(stored.entries).hash
<1>1. FindSlothash(stored.slot) = {hash}
  BY DEF VerifyAccount, Verify, SlothashMatches
<1>2. PICK i \in Index : sysvar[i].slot = stored.slot /\ sysvar[i].hash = hash
  BY <1>1 DEF FindSlothash, ScanHits, At
<1>3. <<stored.entries[1].key, Ed!Message(stored.entries)>> \in signed
  <2>1. 1 \in DOMAIN stored.entries
    BY VerifierAssumption DEF VerifierInv, StoredInv, VerifyAccount
  <2>2. Ed!RefersTo(stored.entries[1], ProgramIx)
    BY DEF VerifierInv, StoredInv, VerifyAccount, Ed!ExtractIxData
  <2> QED
    BY <2>1, <2>2 DEF VerifierInv, StoredInv, VerifyAccount, Ed!PrecompileAccepts, Ed!Message
<1>4. hash.slot \in Slots \ {0}
  BY <1>3 DEF VerifierInv, SignedInv
<1>5. hash.slot = stored.slot
  BY <1>2 DEF VerifierInv, SlotInv, HashInv
<1> QED
  BY <1>2, <1>4, <1>5 DEF Recorded

\* A step that leaves the account and the queue alone makes nothing acceptable if
\* max_age is below the length of SlotHashes: ageing makes no quote fresh, and no
\* block of a slot that has passed enters SlotHashes later.
LEMMA AcceptedWasAccepted ==
  ASSUME VerifierInv, VerifierInv', [Next]_vars,
         MaxAge < WindowLen, stored # NoQuote, stored' = stored,
         queueKeys' = queueKeys, VerifyAccount'
  PROVE  VerifyAccount
<1>1. VerifyAccount
  <2>1. CASE UNCHANGED <<clock, sysvar>>
    BY <2>1 DEF VerifyAccount, Verify, FreshEnough, SlothashMatches, KeysMatch,
                      FindSlothash, ScanHits, At, EstimatedIdx, Newest
  <2>2. CASE Bank
    <3>1. PICK s \in Slots : NewBank(s, Own)
      BY <2>2 DEF Bank
    <3>2. /\ clock < clock' /\ clock \in Int /\ clock' \in Int /\ stored.slot \in Int
          /\ stored.slot < clock /\ Newest <= clock /\ Newest \in Int
          /\ MaxAge \in Int /\ WindowLen \in Int
      BY <3>1, SlotHashesAssumption, VerifierAssumption
         DEF NewBank, VerifierInv, SlotInv, SlotTypeOK, StoredInv, PastInv, Newest,
             Slots, Index, Entries
    <3>3. FreshEnough(stored)
      BY <3>2 DEF VerifyAccount, Verify, FreshEnough
    <3>4. /\ stored.slot > 0
          /\ \E i \in Index : /\ sysvar'[i].slot = stored.slot
                              /\ sysvar'[i].hash = Ed!Message(stored.entries).hash
      <4>1. VerifierInv' /\ VerifyAccount' => Recorded'
        BY AcceptedIsRecorded, PTL
      <4> QED
        BY <4>1, SlotHashesAssumption DEF Slots, Recorded
    <3>5. PICK i \in Index : /\ sysvar'[i].slot = stored.slot
                             /\ sysvar'[i].hash = Ed!Message(stored.entries).hash
      BY <3>4
    <3>6. i # 0
      BY <3>1, <3>2, <3>5 DEF NewBank
    <3>7. i - 1 \in Index /\ sysvar'[i] = sysvar[i - 1]
      BY <3>1, <3>6, SlotHashesAssumption DEF NewBank, Index
    <3>8. Newest - stored.slot < WindowLen
      BY <3>2, <3>3 DEF FreshEnough
    <3>9. SlothashMatches(stored)
      BY <3>4, <3>5, <3>7, <3>8, RecordedIsFound DEF VerifierInv, SlothashMatches
    <3> QED
      BY <3>3, <3>9 DEF VerifyAccount, Verify, KeysMatch
  <2> QED
    BY <2>1, <2>2 DEF Next, Sign, RotateKey, Crank, WriteFromIx, Account!Write, vars
<1> QED
  BY <1>1

\* A stored quote that is refused does not become acceptable later, unless the
\* account or the queue changes.
RefusedStaysRefused ==
    [][ stored # NoQuote /\ ~ VerifyAccount
          /\ MaxAge < WindowLen
          /\ stored' = stored /\ queueKeys' = queueKeys
        => ~ VerifyAccount' ]_vars

\* While the account and the queue stay as they are, a refusal is final if
\* max_age is below the length of SlotHashes.
THEOREM RefusalIsFinal == Spec => RefusedStaysRefused
<1>1. VerifierInv /\ VerifierInv' /\ [Next]_vars =>
        [ stored # NoQuote /\ ~ VerifyAccount
          /\ MaxAge < WindowLen
          /\ stored' = stored /\ queueKeys' = queueKeys
        => ~ VerifyAccount' ]_vars
  BY AcceptedWasAccepted
<1> QED
  BY <1>1, VerifierInvariance, PTL DEF Spec, RefusedStaysRefused

-----------------------------------------------------------------------------
(***************************************************************************)
(* What a consumer sees.                                                   *)
(***************************************************************************)

\* What is seen is nothing, or vouched for.
LEMMA ViewIsPresentable == VerifierInv => View \in Attested!Presentable \cup {NoQuote}
<1> SUFFICES ASSUME VerifierInv, VerifyAccount PROVE View \in Attested!Presentable
  BY DEF View
<1> DEFINE keys == {stored.entries[i].key : i \in DOMAIN stored.entries}
           message == Ed!Message(stored.entries)
<1>1. View = [signers |-> keys, message |-> message]
  BY DEF View
<1>2. /\ DOMAIN stored.entries = 1 .. Len(stored.entries) /\ Len(stored.entries) \in Nat \ {0}
      /\ stored.slot < clock
  BY VerifierAssumption DEF VerifierInv, StoredInv, VerifyAccount
<1>3. \A i \in DOMAIN stored.entries :
         /\ <<stored.entries[i].key, message>> \in signed
         /\ \E j \in DOMAIN queueKeys : queueKeys[j] = stored.entries[i].key
  BY AcceptedSignatures DEF AcceptedQuotesAreSigned
<1>4. /\ message.hash.slot = stored.slot /\ clock - message.hash.slot <= MaxAge
      /\ \E i \in Index : sysvar[i] = [slot |-> stored.slot, hash |-> message.hash]
  BY AcceptedSlot DEF AcceptedSlotIsSigned
<1>5. message.hash \in {sysvar[i].hash : i \in Index}
  BY <1>4
<1>6. signed \subseteq Keys \X Messages
  BY DEF VerifierInv, TypeOK
<1> HIDE DEF message
<1>7. 1 \in DOMAIN stored.entries
  BY <1>2
<1>8. \A i \in DOMAIN stored.entries : stored.entries[i].key \in Keys /\ message \in Messages
  BY <1>3, <1>6
<1>9. \A k \in keys : \E i \in DOMAIN stored.entries : k = stored.entries[i].key
  OBVIOUS
<1>10. keys # {}
  BY <1>7
<1> HIDE DEF keys
<1>11. keys \subseteq Keys /\ message \in Messages
  BY <1>7, <1>8, <1>9
<1>12. keys \subseteq {queueKeys[i] : i \in DOMAIN queueKeys}
  BY <1>3, <1>9
<1>13. keys \X {message} \subseteq signed
  BY <1>3, <1>9
<1> DEFINE v == [signers |-> keys, message |-> message]
<1>14. v.signers = keys /\ v.message = message /\ v \in [signers : SUBSET Keys, message : Messages]
  BY <1>11
<1> HIDE DEF v
<1>15. Attested!Vouched(v)
  BY <1>2, <1>4, <1>5, <1>10, <1>11, <1>12, <1>13, <1>14 DEF Attested!Vouched
<1> QED
  BY <1>1, <1>14, <1>15 DEF Attested!Presentable, v

\* What is seen depends on the account, the queue and the sysvars alone.
LEMMA SameView ==
  ASSUME UNCHANGED <<clock, sysvar, stored, queueKeys>>
  PROVE  View' = View
<1>1. VerifyAccount' <=> VerifyAccount
  BY DEF VerifyAccount, Verify, FreshEnough, SlothashMatches, KeysMatch,
         FindSlothash, ScanHits, At, EstimatedIdx, Newest
<1> QED
  BY <1>1 DEF View

\* The new entry of SlotHashes is that of the present slot.
LEMMA ChainGrows ==
  ASSUME VerifierInv, NEW s \in Slots, NewBank(s, Own)
  PROVE  \A hash \in {sysvar'[i].hash : i \in Index} \ {sysvar[i].hash : i \in Index} :
            hash.slot = clock
<1> SUFFICES ASSUME NEW i \in Index,
                    sysvar'[i].hash \notin {sysvar[j].hash : j \in Index}
             PROVE  sysvar'[i].hash.slot = clock
  OBVIOUS
<1>1. i = 0
  <2> SUFFICES ASSUME i # 0 PROVE FALSE
    OBVIOUS
  <2>1. i - 1 \in Index /\ sysvar'[i] = sysvar[i - 1]
    BY SlotHashesAssumption DEF NewBank, Index
  <2> QED
    BY <2>1
<1>2. sysvar'[0] = [slot |-> clock, hash |-> BlockHash(clock, Own)]
  BY <1>1 DEF NewBank
<1> QED
  BY <1>1, <1>2 DEF BlockHash

\* For every queue, window and max_age below its length: account, queue and
\* SlotHashes together, read through verify_account, implement the abstract
\* window on recent attestations of trusted oracles.
THEOREM VerifierImplementsAttested == MaxAge < WindowLen => (Spec => ImplementsAttested)
<1> SUFFICES ASSUME MaxAge < WindowLen PROVE Spec => ImplementsAttested
  OBVIOUS
<1>1. Init => Attested!AttestedInit
  <2> SUFFICES ASSUME Init PROVE Attested!AttestedInit
    OBVIOUS
  <2>1. View = NoQuote
    BY DEF Init, Account!AccountInit, View, VerifyAccount
  <2>2. {queueKeys[i] : i \in DOMAIN queueKeys} \subseteq Keys \cup {NoKey}
    BY VerifierAssumption DEF Init
  <2> QED
    BY <2>1, <2>2 DEF Init, SlotInit, Attested!AttestedInit
<1>2. ASSUME VerifierInv, VerifierInv', [Next]_vars
      PROVE  [Attested!AttestedNext]_(Attested!attestedVars)
  <2>1. View' \in Attested!Presentable' \cup {NoQuote}
    <3>1. VerifierInv' => (View \in Attested!Presentable \cup {NoQuote})'
      BY ViewIsPresentable, PTL
    <3> QED
      BY <1>2, <3>1
  <2>2. {queueKeys'[i] : i \in DOMAIN queueKeys'} \subseteq Keys \cup {NoKey}
    BY <1>2 DEF VerifierInv, TypeOK
  <2>3. CASE Bank
    <3>1. PICK s \in Slots : NewBank(s, Own)
      BY <2>3 DEF Bank
    <3>2. UNCHANGED <<signed, queueKeys, stored>>
      BY <2>3 DEF Bank
    <3>3. clock' \in clock + 1 .. MaxSlot
      BY <1>2, <3>1, SlotHashesAssumption DEF NewBank, VerifierInv, SlotInv, SlotTypeOK, Slots
    <3>4. View' \in {View, NoQuote}
      <4>1. VerifyAccount' => VerifyAccount
        BY <1>2, <3>2, AcceptedWasAccepted DEF VerifyAccount
      <4> QED
        BY <3>2, <4>1 DEF View
    <3>5. Attested!Elapse
      BY <1>2, <2>1, <3>1, <3>2, <3>3, <3>4, ChainGrows DEF Attested!Elapse
    <3> QED
      BY <3>5 DEF Attested!AttestedNext
  <2>4. ASSUME NEW k \in Keys, NEW f \in Forks, NEW v \in Feeds, Sign(k, f, v)
        PROVE  Attested!AttestedNext
    <3> DEFINE m == [hash |-> BlockHash(Newest, f), feed |-> v]
    <3>1. /\ UNCHANGED <<clock, sysvar, queueKeys, stored>>
          /\ signed' = signed \cup {<<k, m>>}
      BY <2>4 DEF Sign
    <3>2. Newest \in Slots /\ Newest < clock
      BY <1>2, <2>4, SlotHashesAssumption
         DEF Sign, Newest, VerifierInv, SlotInv, SlotTypeOK, PastInv, Entries, Index, Slots
    <3>3. m \in Messages /\ m.hash.slot < clock
      BY <3>2 DEF Messages, Hashes, BlockHash
    <3> HIDE DEF m
    <3>4. Attested!Attest(k, m)
      BY <3>1, <3>3, SameView DEF Attested!Attest
    <3> QED
      BY <3>3, <3>4 DEF Attested!AttestedNext
  <2>5. ASSUME NEW i \in 0 .. QueueLen - 1, NEW k \in Keys \cup {NoKey}, RotateKey(i, k)
        PROVE  Attested!AttestedNext
    <3>1. UNCHANGED <<clock, sysvar, signed>>
      BY <2>5 DEF RotateKey
    <3>2. Attested!Entrust
      BY <2>1, <2>2, <3>1 DEF Attested!Entrust
    <3> QED
      BY <3>2 DEF Attested!AttestedNext
  <2>6. CASE Crank
    <3>1. UNCHANGED <<clock, sysvar, signed, queueKeys>>
      BY <2>6 DEF Crank, WriteFromIx, Account!Write
    <3>2. Attested!Publish
      BY <2>1, <3>1 DEF Attested!Publish
    <3> QED
      BY <3>2 DEF Attested!AttestedNext
  <2>7. CASE UNCHANGED vars
    BY <2>7, SameView DEF vars, Attested!attestedVars
  <2> QED
    BY <1>2, <2>3, <2>4, <2>5, <2>6, <2>7 DEF Next
<1> QED
  BY <1>1, <1>2, VerifierInvariance, PTL DEF Spec, ImplementsAttested, Attested!AttestedSpec
=============================================================================
