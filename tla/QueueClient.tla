----------------------------- MODULE QueueClient -----------------------------
(***************************************************************************)
(* The client's reads of a queue and its oracles, and what they add up to  *)
(* when the accounts change between one request and the next.  Every call  *)
(* of the SDK that makes requests is modelled:                             *)
(*                                                                         *)
(*   "oracles"      QueueAccountData::fetch_oracles                        *)
(*   "many"         OracleAccountData::fetch_many, of oracle_keys()        *)
(*   "verified"     OracleAccountData::fetch_async, then is_verified       *)
(*   "subsidy"      QueuePaySubsidy::build_ix                              *)
(*   "luts"         QueuePaySubsidy::fetch_luts                            *)
(*   "rewards"      QueuePayReward::build_ix                               *)
(*   "rewardLuts"   QueuePayReward::fetch_luts                             *)
(*   "queueLut"     QueueResetLut::fetch_luts                              *)
(*   "sync"         OracleSyncLut::build_ix                                *)
(*   "resetLut"     OracleResetLut::build_ix                               *)
(*   "heartbeat"    OracleHeartbeat::build_ix                              *)
(*   "heartbeatV2"  OracleHeartbeatV2::build_ix                            *)
(*   "collect"      idx_of_oracle, then QueueGarbageCollect::build_ix      *)
(*   "fetch"        fetch_zerocopy_account of an oracle                    *)
(*   "fetchSync"    fetch_zerocopy_account_sync of an oracle               *)
(*   "borsh"        fetch_borsh_account of an oracle                       *)
(*   "queueReset"   QueueResetLutAccounts                                  *)
(*   "verifyQuote"  GuardianQuoteVerify::build_ix                          *)
(*   "setConfigs"   OracleSetConfigs::build_ix                             *)
(*   "permission"   AttestationPermissionSet::build_ix                     *)
(*                                                                         *)
(* A request is answered at one instant, or fails.  A behaviour is one     *)
(* call, made under retry! or blocking_retry!: calls share nothing but the *)
(* chain they read.                                                        *)
(***************************************************************************)
EXTENDS Integers, Sequences, FiniteSets, AccountReaders, InstructionMetas

CONSTANTS
    Oracles,      \* oracle accounts
    Target,       \* the oracle a call is about: args.oracle
    QueueId,      \* the queue a call is about: args.queue
    OtherQueue,   \* another queue that an oracle may belong to
    Operators,    \* operators an oracle account can name
    NoOperator,   \* Pubkey::default() in its place
    Authorities,  \* authorities of oracles
    OracleData,   \* contents of oracle accounts
    NoTable,      \* a lookup table that was not fetched
    MaxKeys,      \* bound: oracles in the queue
    MaxLutSlot,   \* bound: the last lut_slot
    MaxChanges,   \* bound: changes to the accounts during the call
    Attempts,     \* numbers of attempts that retry! may be told to make
    MaxTime       \* bound: the clock

Queues == {QueueId, OtherQueue}

\* status and until: verification_status and valid_until of the enclave.
ASSUME ClientAssumption ==
    /\ NoOperator \notin Operators
    /\ OracleData \subseteq [len : Nat, discriminator : BOOLEAN, queue : Queues,
                             authority : Authorities, operator : Operators \cup {NoOperator},
                             status : 0 .. 255, until : Nat]
    /\ OracleSize \in Nat
    /\ NoAccount \notin OracleData
    /\ Target \in Oracles /\ Queues \cap Oracles = {}
    /\ MaxKeys \in Nat /\ MaxLutSlot \in Nat /\ MaxChanges \in Nat
    /\ Attempts \subseteq Nat /\ MaxTime \in Nat
    /\ NoTable \notin 0 .. MaxLutSlot

VARIABLES
    keys,      \* chain: oracle_keys[.. oracle_keys_len] of the queue
    oracle,    \* chain: what each oracle account holds
    lutSlot,   \* chain: the lut_slot of the queues and of each oracle
    tables,    \* chain: the lookup tables that exist, as <<owner, slot>>
    now,       \* chain: unix_timestamp of the clock
    changes,   \* chain: changes so far
    call,      \* client: which call this is
    attempts,  \* client: attempts left to retry!, this one included
    pc,        \* client: what it does next
    snap,      \* client: the queue and the oracle as they were read
    got,       \* client: what the requests for the oracles have brought
    out,       \* client: the result
    seen,      \* history: the values of keys and oracle in this attempt
    touched,   \* history: owners whose account or tables changed in it
    lost,      \* history: owners that a future or table was not had of, as
               \* a request has failed in it
    faults,    \* history: attempts that the failure of a request has ended
    allowed    \* history: the attempts retry! was told to make

chain == <<keys, oracle, lutSlot, tables, now>>
client == <<call, attempts, pc, snap, got, out>>
history == <<seen, touched, lost, faults, allowed>>
vars == <<chain, changes, client, history>>

Owners == Oracles \cup Queues
LutSlots == 0 .. MaxLutSlot
Accounts == OracleData \cup {NoAccount}

\* get_multiple_accounts answers None for a missing account, and the caller
\* drops that as it drops what new_from_bytes refuses.
IsOracle(a) == a # NoAccount /\ new_from_bytes(a)
Readable(k) == IsOracle(oracle[k])

\* OracleAccountData::fetch_async
Exact(k) == fetch_zerocopy_account_async(oracle[k])

\* The oracles of a queue are in some order and never twice in it.
KeySeqs ==
    UNION {{s \in [1 .. n -> Oracles] : \A i, j \in 1 .. n : s[i] = s[j] => i = j}
            : n \in 0 .. MaxKeys}

\* The first request of a call.
FirstStage ==
    [oracles |-> "queue", many |-> "queue", verified |-> "oracle", subsidy |-> "state",
     luts |-> "queue", rewards |-> "state", rewardLuts |-> "queue", queueLut |-> "queue",
     sync |-> "oracle", resetLut |-> "oracle", heartbeat |-> "state", heartbeatV2 |-> "oracle",
     collect |-> "queue", fetch |-> "oracle", fetchSync |-> "oracle", borsh |-> "oracle",
     queueReset |-> "build", verifyQuote |-> "build", setConfigs |-> "build",
     permission |-> "build"]

Calls == DOMAIN FirstStage

\* The owners of what a call may ask for.
AsksFor ==
    CASE call \in {"oracles", "many", "subsidy", "luts"} -> Oracles \cup {QueueId}
      [] call \in {"verified", "rewards", "resetLut", "heartbeatV2", "fetch", "fetchSync",
                   "borsh"} -> {Target}
      [] call = "rewardLuts" -> {Target, QueueId}
      [] call \in {"queueLut", "collect"} -> {QueueId}
      [] call = "sync" -> {Target} \cup Queues
      [] call \in {"heartbeat", "queueReset", "verifyQuote", "setConfigs", "permission"} -> {}

NothingRead == [keys |-> <<>>, lut |-> 0, oracle |-> NoAccount, oracleLut |-> 0]

\* What the call does not ask for is not there.
Init ==
    /\ call \in Calls
    /\ keys \in KeySeqs /\ (QueueId \notin AsksFor => keys = <<>>)
    /\ oracle \in [Oracles -> Accounts]
    /\ \A k \in Oracles \ AsksFor : oracle[k] = NoAccount
    /\ lutSlot = [o \in Owners |-> 0]
    /\ tables = {<<o, 0>> : o \in Owners}
    /\ now = 0
    /\ changes = 0
    /\ allowed \in Attempts /\ attempts = allowed
    /\ pc = FirstStage[call]
    /\ snap = NothingRead
    /\ got = <<>>
    /\ out = <<>>
    /\ seen = [keys |-> {keys}, oracle |-> [k \in Oracles |-> {oracle[k]}]]
    /\ touched = {}
    /\ lost = {}
    /\ faults = 0

-----------------------------------------------------------------------------
(***************************************************************************)
(* The chain: what the Switchboard program and the owners of the accounts  *)
(* may do between two requests.  What they do to accounts the call does    *)
(* not ask for, or after it has ended, is left out: it changes no answer.  *)
(***************************************************************************)

\* Mutant: the last attempt is not made.
MayRetry_OneLess == attempts > 2

\* Err(_) if attempts > 1; any other error is returned.
MayRetry == attempts > 1

GivenUp == pc = "failed" /\ ~ MayRetry

AsksForTables == call \in {"luts", "rewardLuts", "queueLut", "sync"}

Change(owner) ==
    /\ owner \in AsksFor /\ changes < MaxChanges /\ pc # "done" /\ ~ GivenUp
    /\ changes' = changes + 1
    /\ touched' = touched \cup {owner}
    /\ UNCHANGED <<now, client, lost, faults, allowed>>

RotateQueue ==
    /\ keys' \in KeySeqs \ {keys}
    /\ seen' = [seen EXCEPT !.keys = @ \cup {keys'}]
    /\ Change(QueueId)
    /\ UNCHANGED <<oracle, lutSlot, tables>>

\* An oracle is created, closed, verified anew, grown by a later version of the
\* program, or given another queue, authority or operator.
ChangeOracle(k) ==
    /\ \E a \in Accounts \ {oracle[k]} :
         /\ oracle' = [oracle EXCEPT ![k] = a]
         /\ seen' = [seen EXCEPT !.oracle[k] = @ \cup {a}]
    /\ Change(k)
    /\ UNCHANGED <<keys, lutSlot, tables>>

\* queue_reset_lut, oracle_reset_lut: a new table at a later slot.
ResetLut(o) ==
    /\ AsksForTables /\ lutSlot[o] < MaxLutSlot
    /\ lutSlot' = [lutSlot EXCEPT ![o] = @ + 1]
    /\ tables' = tables \cup {<<o, lutSlot[o] + 1>>}
    /\ Change(o)
    /\ UNCHANGED <<keys, oracle, seen>>

\* A table that was replaced is closed.
CloseLut(o) ==
    /\ \E s \in LutSlots :
         /\ s < lutSlot[o] /\ <<o, s>> \in tables
         /\ tables' = tables \ {<<o, s>>}
    /\ Change(o)
    /\ UNCHANGED <<keys, oracle, lutSlot, seen>>

\* Time passes; only the holder of an oracle account looks at the clock.
Tick ==
    /\ call = "verified" /\ now < MaxTime
    /\ now' = now + 1
    /\ UNCHANGED <<keys, oracle, lutSlot, tables, changes, client, history>>

ChainNext ==
    \/ RotateQueue \/ Tick
    \/ \E k \in Oracles : ChangeOracle(k)
    \/ \E o \in Owners : ResetLut(o) \/ CloseLut(o)

-----------------------------------------------------------------------------
(***************************************************************************)
(* The client.  Every action but BuildIx, Join and Retry is a request and  *)
(* its answer.                                                             *)
(***************************************************************************)
UnchangedChain ==
    UNCHANGED <<chain, changes, seen, touched, call, attempts, faults, allowed>>

\* State::fetch_async
ReadState ==
    /\ pc = "state"
    /\ pc' = CASE call = "heartbeat" -> "build"
               [] call = "rewards" -> "oracle"
               [] call = "subsidy" -> "queue"
    /\ UnchangedChain
    /\ UNCHANGED <<snap, got, out, lost>>

\* What comes after the queue.
AfterQueue ==
    CASE call = "oracles" -> "oracles"
      [] call = "many" -> "oracles"
      [] call = "subsidy" -> "each"
      [] call \in {"luts", "rewardLuts", "queueLut"} -> "queueLut"
      [] call \in {"sync", "collect"} -> "build"

\* Mutant: the sync reads the queue it was made for, not the oracle's.
QueueRead_Args == QueueId

\* oracle_data.queue, or args.queue.
QueueRead == IF call = "sync" THEN snap.oracle.queue ELSE QueueId

\* Mutant: the slice of the keys ends one short.
ReadQueue_ShortSlice ==
    /\ pc = "queue"
    /\ snap' = [snap EXCEPT !.keys = SubSeq(keys, 1, Len(keys) - 1), !.lut = lutSlot[QueueRead]]
    /\ pc' = AfterQueue
    /\ UnchangedChain
    /\ UNCHANGED <<got, out, lost>>

\* QueueAccountData::fetch_async
ReadQueue ==
    /\ pc = "queue"
    /\ snap' = [snap EXCEPT !.keys = keys, !.lut = lutSlot[QueueRead]]
    /\ pc' = AfterQueue
    /\ UnchangedChain
    /\ UNCHANGED <<got, out, lost>>

\* The elements at the places that are kept, in their order: filter_map.
Kept(s, places) ==
    LET Before(i) == {j \in places : j < i}
    IN  [n \in 1 .. Cardinality(places) |->
            s[CHOOSE i \in places : Cardinality(Before(i)) = n - 1]]

\* The first n keys and the n data, one by one: Iterator::zip.
Zip(ks, datas) == [i \in 1 .. Len(datas) |-> [key |-> ks[i], data |-> datas[i]]]

\* Mutant: the keys are read again for the result.
ReadOracles_KeysReread ==
    /\ pc = "oracles"
    /\ out' = [i \in 1 .. Len(keys) |-> [key |-> keys[i], data |-> keys[i]]]
    /\ pc' = "done"
    /\ UnchangedChain
    /\ UNCHANGED <<snap, got, lost>>

\* fetch_oracles: the accounts that are there and readable, in the order of the
\* keys, zipped with all of the keys; fetch_many: those accounts alone.  The data
\* of an account is told apart by the key it was read from.
ReadOracles ==
    /\ pc = "oracles"
    /\ LET datas == Kept(snap.keys, {i \in DOMAIN snap.keys : Readable(snap.keys[i])})
       IN  out' = IF call = "oracles" THEN Zip(snap.keys, datas) ELSE datas
    /\ pc' = "done"
    /\ UnchangedChain
    /\ UNCHANGED <<snap, got, lost>>

\* Mutant: the queue is read anew for every oracle.
ReadOracle_QueueReread ==
    LET i == Len(got) + 1 IN
    /\ pc = "each" /\ i \in DOMAIN keys
    /\ IF Exact(keys[i])
       THEN /\ got' = Append(got, [oracle |-> keys[i], operator |-> oracle[keys[i]].operator])
            /\ UNCHANGED pc
       ELSE pc' = "failed" /\ UNCHANGED got
    /\ UnchangedChain
    /\ UNCHANGED <<snap, out, lost>>

\* Mutant: an oracle without an operator is tried for ever.
ReadOracle_WaitsForOperator ==
    LET i == Len(got) + 1 IN
    /\ pc = "each" /\ i \in DOMAIN snap.keys
    /\ Exact(snap.keys[i]) => oracle[snap.keys[i]].operator # NoOperator
    /\ IF Exact(snap.keys[i])
       THEN /\ got' = Append(got, [oracle |-> snap.keys[i],
                                   operator |-> oracle[snap.keys[i]].operator])
            /\ UNCHANGED pc
       ELSE pc' = "failed" /\ UNCHANGED got
    /\ UnchangedChain
    /\ UNCHANGED <<snap, out, lost>>

\* One round of the loop of QueuePaySubsidy::build_ix: the oracle and its stats
\* account are listed, then its operator and the operator's wallet unless it has
\* none.  The four are a group here, told apart by oracle and operator.
ReadOracle ==
    LET i == Len(got) + 1 IN
    /\ pc = "each" /\ i \in DOMAIN snap.keys
    /\ IF Exact(snap.keys[i])
       THEN /\ got' = Append(got, [oracle |-> snap.keys[i],
                                   operator |-> oracle[snap.keys[i]].operator])
            /\ UNCHANGED pc
       ELSE pc' = "failed" /\ UNCHANGED got
    /\ UnchangedChain
    /\ UNCHANGED <<snap, out, lost>>

TargetFetched ==
    CASE call = "fetch" -> fetch_zerocopy_account(oracle[Target])
      [] call = "fetchSync" -> fetch_zerocopy_account_sync(oracle[Target])
      [] call = "borsh" -> fetch_borsh_account(oracle[Target])
      [] OTHER -> Exact(Target)

\* The account of the one oracle the call is about: OracleAccountData::fetch_async,
\* unless the call is another function to fetch it with.
ReadTarget ==
    /\ pc = "oracle"
    /\ IF TargetFetched
       THEN /\ snap' = [snap EXCEPT !.oracle = oracle[Target], !.oracleLut = lutSlot[Target]]
            /\ pc' = CASE call \in {"verified", "fetch", "fetchSync", "borsh"} -> "done"
                       [] call = "sync" -> "queue"
                       [] call = "rewardLuts" -> "oracleLut"
                       [] call \in {"rewards", "resetLut", "heartbeatV2"} -> "build"
       ELSE pc' = "failed" /\ UNCHANGED snap
    /\ UnchangedChain
    /\ UNCHANGED <<got, out, lost>>

\* Mutant: the last position is counted from one.
idx_of_oracle_FromOne(ks, k) == CHOOSE i \in 1 .. Len(ks) : ks[i] = k

\* The position of an oracle that is in the list, counted from zero.
idx_of_oracle(ks, k) == CHOOSE i \in 0 .. Len(ks) - 1 : ks[i + 1] = k

\* Mutant: the fields of an oracle come from its account as it is by now.
OracleOfIx_Reread == IF Exact(Target) THEN [oracle[Target] EXCEPT !.queue = snap.oracle.queue]
                                      ELSE snap.oracle

\* oracle_data, from which an instruction takes the fields it is not given.
OracleOfIx == snap.oracle

\* Mutant: the payer of the arguments.
ResetLutPayer_Args == Arg("payer")

\* OracleResetLut::build_ix: args.payer is not read.
ResetLutPayer == OracleOfIx.authority

\* build_ix of each instruction: its account fields, as far as args do not give
\* them alone.
SyncLutIx ==
    [oracle |-> Target, queue |-> OracleOfIx.queue, authority |-> OracleOfIx.authority,
     payer |-> OracleOfIx.authority, operator |-> OracleOfIx.operator,
     lut |-> Lut(OracleOfIx.queue, snap.lut)]

ResetLutIx ==
    [oracle |-> Target, authority |-> OracleOfIx.authority, payer |-> ResetLutPayer,
     lut |-> Lut(Target, Arg("recent_slot"))]

HeartbeatIx ==
    [oracle |-> Target, queue |-> QueueId, oracle_signer |-> Arg("oracle_signer"),
     gc_node |-> Arg("gc_node"), payer |-> Arg("payer")]

HeartbeatV2Ix ==
    [oracle |-> Target, queue |-> OracleOfIx.queue, oracle_signer |-> Arg("oracle_signer"),
     gc_node |-> Arg("gc_node")]

PayRewardIx ==
    [oracle |-> Target, queue |-> QueueId, operator |-> OracleOfIx.operator,
     payer |-> Arg("payer")]

GarbageCollectIx ==
    [oracle |-> Target, queue |-> QueueId, idx |-> idx_of_oracle(snap.keys, Target)]

\* Those that take everything from args.  OracleSetConfigs::build_ix makes the
\* authority that signs the new authority as well.
QueueResetIx ==
    [queue |-> QueueId, authority |-> Arg("authority"), payer |-> Arg("payer"),
     recent_slot |-> Arg("recent_slot")]

VerifyQuoteIx ==
    [guardian |-> Arg("guardian"), oracle |-> Target, authority |-> Arg("authority"),
     guardian_queue |-> QueueId]

SetConfigsIx ==
    [oracle |-> Target, authority |-> Arg("authority"), new_authority |-> Arg("authority")]

PermissionIx ==
    [authority |-> Arg("authority"), granter |-> Arg("granter"), grantee |-> Arg("grantee")]

Instruction ==
    CASE call = "sync" -> SyncLutIx
      [] call = "resetLut" -> ResetLutIx
      [] call = "heartbeat" -> HeartbeatIx
      [] call = "heartbeatV2" -> HeartbeatV2Ix
      [] call = "rewards" -> PayRewardIx
      [] call = "collect" -> GarbageCollectIx
      [] call = "queueReset" -> QueueResetIx
      [] call = "verifyQuote" -> VerifyQuoteIx
      [] call = "setConfigs" -> SetConfigsIx
      [] call = "permission" -> PermissionIx

\* The instruction with all the accounts.  Without an index there is none to
\* collect with.
BuildIx ==
    /\ \/ /\ pc = "each" /\ Len(got) = Len(snap.keys)
          /\ out' = got
          /\ pc' = "done"
       \/ /\ pc = "build"
          /\ IF call = "collect" /\ \A i \in DOMAIN snap.keys : snap.keys[i] # Target
             THEN pc' = "failed" /\ UNCHANGED out
             ELSE pc' = "done" /\ out' = Instruction
    /\ UnchangedChain
    /\ UNCHANGED <<snap, got, lost>>

QueueTable == [owner |-> QueueId, slot |-> snap.lut]

\* The queue's own table, at the slot that was read; without it the call fails.
\* "luts" then makes one future per oracle.
ReadQueueLut ==
    /\ pc = "queueLut"
    /\ IF <<QueueId, snap.lut>> \notin tables
       THEN pc' = "failed" /\ UNCHANGED <<got, out>>
       ELSE CASE call = "luts" ->
                   /\ pc' = "join"
                   /\ got' = [i \in DOMAIN snap.keys |-> [at |-> "account", lut |-> NoTable]]
                   /\ UNCHANGED out
              [] call = "rewardLuts" -> pc' = "oracle" /\ UNCHANGED <<got, out>>
              [] call = "queueLut" -> pc' = "done" /\ out' = <<QueueTable>> /\ UNCHANGED got
    /\ UnchangedChain
    /\ UNCHANGED <<snap, lost>>

\* Mutant: the slot of the queue's table is used for the oracle's.
ReadOracleLut_QueueSlot ==
    /\ pc = "oracleLut"
    /\ out' = IF <<Target, snap.lut>> \in tables
              THEN <<QueueTable, [owner |-> Target, slot |-> snap.lut]>>
              ELSE <<QueueTable>>
    /\ pc' = "done"
    /\ UnchangedChain
    /\ UNCHANGED <<snap, got, lost>>

\* QueuePayReward::fetch_luts: the oracle's table behind the queue's, if it can
\* be had.
ReadOracleLut ==
    /\ pc = "oracleLut"
    /\ out' = IF <<Target, snap.oracleLut>> \in tables
              THEN <<QueueTable, [owner |-> Target, slot |-> snap.oracleLut]>>
              ELSE <<QueueTable>>
    /\ pc' = "done"
    /\ UnchangedChain
    /\ UNCHANGED <<snap, got, lost>>

\* The first await of the i-th future: the oracle's account.
ReadOracleOf(i) ==
    /\ pc = "join" /\ got[i].at = "account"
    /\ got' = [got EXCEPT ![i] = IF Exact(snap.keys[i])
                                 THEN [at |-> "table", lut |-> lutSlot[snap.keys[i]]]
                                 ELSE [at |-> "done", lut |-> NoTable]]
    /\ UnchangedChain
    /\ UNCHANGED <<pc, snap, out, lost>>

\* Mutant: the slot of the queue's table is used for the oracle's.
ReadLutOf_QueueSlot(i) ==
    /\ pc = "join" /\ got[i].at = "table"
    /\ got' = [got EXCEPT ![i] =
                 [at |-> "done",
                  lut |-> IF <<snap.keys[i], snap.lut>> \in tables THEN snap.lut ELSE NoTable]]
    /\ UnchangedChain
    /\ UNCHANGED <<pc, snap, out, lost>>

\* The second await: the table at the slot the account had then.
ReadLutOf(i) ==
    /\ pc = "join" /\ got[i].at = "table"
    /\ got' = [got EXCEPT ![i] =
                 [at |-> "done",
                  lut |-> IF <<snap.keys[i], got[i].lut>> \in tables THEN got[i].lut ELSE NoTable]]
    /\ UnchangedChain
    /\ UNCHANGED <<pc, snap, out, lost>>

\* join_all: the tables in the order of the oracles, those that failed left out,
\* and the queue's own behind them.
Join ==
    /\ pc = "join" /\ \A i \in DOMAIN got : got[i].at = "done"
    /\ LET luts == [i \in DOMAIN got |-> [owner |-> snap.keys[i], slot |-> got[i].lut]]
       IN  out' = Append(Kept(luts, {i \in DOMAIN got : got[i].lut # NoTable}), QueueTable)
    /\ pc' = "done"
    /\ UnchangedChain
    /\ UNCHANGED <<snap, got, lost>>

\* A request fails: that ends the attempt, except in a future, which it ends,
\* and for the oracle's table that QueuePayReward::fetch_luts can do without.
RequestFails ==
    /\ \/ /\ \/ pc \in {"state", "queue", "oracles", "queueLut", "oracle"}
             \/ pc = "each" /\ Len(got) < Len(snap.keys)
          /\ pc' = "failed" /\ faults' = faults + 1
          /\ UNCHANGED <<got, out, lost>>
       \/ /\ pc = "oracleLut"
          /\ pc' = "done" /\ out' = <<QueueTable>> /\ lost' = lost \cup {Target}
          /\ UNCHANGED <<got, faults>>
       \/ /\ pc = "join"
          /\ \E i \in DOMAIN got :
               /\ got[i].at # "done"
               /\ got' = [got EXCEPT ![i] = [at |-> "done", lut |-> NoTable]]
               /\ lost' = lost \cup {snap.keys[i]}
          /\ UNCHANGED <<pc, out, faults>>
    /\ UNCHANGED <<chain, changes, seen, touched, call, attempts, allowed, snap>>

\* What an attempt starts from: the present.
Restart ==
    /\ pc' = FirstStage[call]
    /\ snap' = NothingRead
    /\ seen' = [keys |-> {keys}, oracle |-> [k \in Oracles |-> {oracle[k]}]]
    /\ touched' = {}
    /\ lost' = {}
    /\ UNCHANGED <<chain, changes, call, out, faults, allowed>>

\* After the delay the expression is evaluated anew.
Retry ==
    /\ pc = "failed" /\ MayRetry
    /\ attempts' = attempts - 1
    /\ got' = <<>>
    /\ Restart

Proceed ==
    \/ ReadState \/ ReadQueue \/ ReadOracles \/ ReadOracle \/ ReadTarget \/ BuildIx
    \/ ReadQueueLut \/ ReadOracleLut \/ Join \/ Retry
    \/ \E i \in DOMAIN got : ReadOracleOf(i) \/ ReadLutOf(i)

ClientNext == Proceed \/ RequestFails

Next == ChainNext \/ ClientNext

Spec == Init /\ [][Next]_vars

\* A call that can proceed does not wait for ever: RpcClient answers a request
\* or gives up on it when its timeout runs out, the executor polls a future whose
\* request has been answered, and the delay between two attempts runs out.  No
\* request is assumed to fail.
FairSpec == Spec /\ WF_vars(Proceed)

-----------------------------------------------------------------------------
(***************************************************************************)
(* Properties.                                                             *)
(***************************************************************************)

Stages == {"state", "queue", "oracles", "each", "oracle", "build", "queueLut", "oracleLut", "join",
           "done", "failed"}

TypeOK ==
    /\ keys \in KeySeqs /\ snap.keys \in KeySeqs
    /\ oracle \in [Oracles -> Accounts]
    /\ lutSlot \in [Owners -> LutSlots]
    /\ tables \subseteq Owners \X LutSlots
    /\ pc \in Stages
    /\ attempts \in 0 .. allowed
    /\ Len(got) <= Len(snap.keys)

\* What was read is something the chain held at an instant of the attempt, the
\* instruction of a call about one oracle has that oracle's account to build
\* from, and the current table of every owner exists.
ReadsWereTrue ==
    /\ pc \in {"oracles", "each", "queueLut", "join", "oracleLut"} => snap.keys \in seen.keys
    /\ snap.oracle # NoAccount =>
          snap.oracle \in seen.oracle[Target] /\ fetch_zerocopy_account_async(snap.oracle)
    /\ pc = "build" /\ call \in {"sync", "resetLut", "heartbeatV2", "rewards"}
          => snap.oracle # NoAccount
    /\ \A o \in Owners : <<o, lutSlot[o]>> \in tables
    /\ keys \in seen.keys /\ \A k \in Oracles : oracle[k] \in seen.oracle[k]

ClientInv == TypeOK /\ ReadsWereTrue

\* "Fetches all oracle accounts associated with this queue" as pairs of a key
\* and an account: every account is paired with the key it was read from.
PairsBelongTogether ==
    call = "oracles" /\ pc = "done" => \A i \in DOMAIN out : out[i].data = out[i].key

\* While every oracle of the queue that was read stays readable, fetch_oracles
\* returns each of them, paired with its own key, in the queue's order - also
\* if the queue has changed in between - and fetch_many the same without keys.
PairsOfReadableOracles ==
    pc = "done" /\ (\A i \in DOMAIN snap.keys : \A a \in seen.oracle[snap.keys[i]] : IsOracle(a)) =>
        /\ call = "oracles" =>
             out = [i \in DOMAIN snap.keys |-> [key |-> snap.keys[i], data |-> snap.keys[i]]]
        /\ call = "many" => out = snap.keys

\* However the accounts change between the requests of build_ix, the oracles it
\* lists are those of the queue at one instant, in its order and without gaps,
\* and with each goes an operator that oracle had at an instant of the same
\* attempt: nothing of an attempt that failed is left in the instruction.
SubsidyListsOneQueue ==
    call = "subsidy" /\ pc = "done" =>
        /\ [i \in DOMAIN out |-> out[i].oracle] \in seen.keys
        /\ \A i \in DOMAIN out :
              \E a \in seen.oracle[out[i].oracle] :
                  fetch_zerocopy_account_async(a) /\ out[i].operator = a.operator

\* fetch_luts returns the queue's table last, and before it at most one table
\* for each oracle, in the queue's order, whatever order the futures end in;
\* and the table of an oracle that nothing has touched, and for which neither
\* request failed, is among them, no matter what has become of the others.
LutsOfUntouchedOracles ==
    call = "luts" /\ pc = "done" =>
        /\ out[Len(out)] = QueueTable
        /\ \A i, j \in 1 .. Len(out) - 1 :
              i < j => \E m, n \in DOMAIN snap.keys :
                          m < n /\ snap.keys[m] = out[i].owner /\ snap.keys[n] = out[j].owner
        /\ \A m \in DOMAIN snap.keys :
              snap.keys[m] \notin touched \cup lost /\ Exact(snap.keys[m]) =>
                  \E i \in DOMAIN out :
                      out[i] = [owner |-> snap.keys[m], slot |-> lutSlot[snap.keys[m]]]

\* An instruction about one oracle takes its queue, authority and operator from
\* one and the same version of the oracle's account; an index into the queue is
\* that of the oracle in one version of the queue.
InstructionOfOneRead ==
    pc = "done" =>
        /\ call \in {"sync", "resetLut", "heartbeatV2", "rewards"} =>
             \E a \in seen.oracle[Target] :
                /\ fetch_zerocopy_account_async(a)
                /\ "authority" \in DOMAIN out => out.authority = a.authority
                /\ "operator" \in DOMAIN out => out.operator = a.operator
                /\ call # "rewards" /\ "queue" \in DOMAIN out => out.queue = a.queue
        /\ call = "collect" =>
             \E ks \in seen.keys : out.idx + 1 \in DOMAIN ks /\ ks[out.idx + 1] = out.oracle

\* The lookup table OracleSyncLut names is one the oracle's queue has or has had,
\* whichever queue that is, and its current one unless the queue was touched
\* after it was read.
SyncNamesQueueTable ==
    call = "sync" /\ pc = "done" =>
        \E s \in 0 .. lutSlot[out.queue] :
            /\ out.lut = Lut(out.queue, s)
            /\ out.queue \notin touched => s = lutSlot[out.queue]

\* The tables that one queue and one oracle are fetched with: the queue's, and
\* behind it the oracle's, which is left out only if the oracle was touched - its
\* table reset or closed, or its account changed - or a request failed.
RewardLutsComplete ==
    call \in {"rewardLuts", "queueLut"} /\ pc = "done" =>
        /\ out[1] = QueueTable
        /\ call = "rewardLuts" /\ Target \notin touched \cup lost =>
             out = <<QueueTable, [owner |-> Target, slot |-> lutSlot[Target]]>>

MetasOfOut ==
    CASE call = "sync" -> OracleSyncLutMetas(out)
      [] call = "resetLut" -> OracleResetLutMetas(out)
      [] call = "heartbeat" -> OracleHeartbeatMetas(out)
      [] call = "heartbeatV2" -> OracleHeartbeatV2Metas(out)
      [] call = "rewards" -> QueuePayRewardMetas(out, NoOperator)
      [] call = "subsidy" -> QueuePaySubsidyMetas(QueueId, Arg("payer"), out, NoOperator)
      [] call = "collect" -> QueueGarbageCollectMetas(out)
      [] call = "queueReset" -> QueueResetLutMetas(out)
      [] call = "verifyQuote" -> GuardianQuoteVerifyMetas(out)
      [] call = "setConfigs" -> OracleSetConfigsMetas(out)
      [] call = "permission" -> AttestationPermissionSetMetas(out)

Payer == IF call = "subsidy" THEN Arg("payer") ELSE out.payer

\* The payer of every instruction that has one signs it and is writable, although
\* OracleResetLutAccounts lists it as no signer; and of an oracle's accounts only
\* its authority and the keys in the arguments ever have to sign.
PayerSignsAndPays ==
    pc = "done" /\ (FirstStage[call] = "build" \/ call \in {"sync", "resetLut", "heartbeat",
                    "heartbeatV2", "rewards", "subsidy", "collect"}) =>
        LET metas == MetasOfOut IN
        /\ call \in {"sync", "resetLut", "heartbeat", "rewards", "subsidy", "queueReset"}
             => Payer \in metas.signers \cap metas.writable
        /\ metas.signers \subseteq {Arg("payer"), Arg("oracle_signer"), Arg("authority")}
              \cup {a.authority : a \in seen.oracle[Target] \ {NoAccount}}

\* While nothing on the chain changes and what a call reads is there, retry! gives
\* up only after failed requests have ended as many attempts as it was told to make.
SurvivesFaults ==
    GivenUp /\ changes = 0
       /\ (call = "subsidy" => \A i \in DOMAIN keys : Exact(keys[i]))
       /\ (call = "collect" => \E i \in DOMAIN keys : keys[i] = Target)
       /\ (call \in {"verified", "rewards", "rewardLuts", "sync", "resetLut", "heartbeatV2", "fetch",
                     "fetchSync", "borsh"} => Exact(Target))
    => faults >= 1 /\ faults >= allowed

\* Mutant: the comparison is turned round.
is_verified_Swapped(a, time) == a.status = 8 \/ (a.status = 4 /\ a.until < time)

\* VerificationOverride, or VerificationSuccess that has not run out.
is_verified(a, time) == a.status = 8 \/ (a.status = 4 /\ a.until > time)

\* Who holds on to an oracle account that was read never sees it become verified
\* by waiting; an override is there to stay.
HeldAccountOnlyExpires ==
    [][call = "verified" /\ pc = "done" =>
         /\ is_verified(snap.oracle, now') => is_verified(snap.oracle, now)
         /\ snap.oracle.status = 8 => is_verified(snap.oracle, now')]_vars

\* Every call ends, however often it is retried: with a result, or with an error.
CallEnds == <>(pc = "done" \/ GivenUp)
=============================================================================
