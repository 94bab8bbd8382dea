--------------------------- MODULE QueueClientProofs ---------------------------
(***************************************************************************)
(* For any queue, oracles and contents of their accounts, any number of    *)
(* changes between the requests and of attempts: what the calls of the     *)
(* client put together, when retry! gives up, who signs, and what is left  *)
(* and in which order where accounts are filtered.                         *)
(***************************************************************************)
EXTENDS QueueClient, SetInduction, SequenceTheorems

Snapshots == [keys : KeySeqs, lut : LutSlots, oracle : Accounts, oracleLut : LutSlots]
Histories == [keys : SUBSET KeySeqs, oracle : [Oracles -> SUBSET Accounts]]
Groups == [oracle : Oracles, operator : Operators \cup {NoOperator}]
Futures == [at : {"account", "table", "done"}, lut : LutSlots \cup {NoTable}]

\* The values the history and the client's variables take.
DataInv ==
    /\ call \in Calls /\ allowed \in Nat
    /\ changes \in Nat /\ faults \in Nat /\ now \in Nat
    /\ snap \in Snapshots /\ seen \in Histories

\* Which calls make the request of a stage.
StageInv ==
    /\ pc = "state" => call \in {"subsidy", "rewards", "heartbeat"}
    /\ pc = "queue" => call \in {"oracles", "many", "subsidy", "luts", "rewardLuts", "queueLut",
                                 "sync", "collect"}
    /\ pc = "oracles" => call \in {"oracles", "many"}
    /\ pc = "each" => call = "subsidy"
    /\ pc = "oracle" => call \in {"verified", "sync", "rewardLuts", "rewards", "resetLut",
                                  "heartbeatV2", "fetch", "fetchSync", "borsh"}
    /\ pc = "build" => call \in {"sync", "rewards", "resetLut", "heartbeat", "heartbeatV2",
                                 "collect", "queueReset", "verifyQuote", "setConfigs",
                                 "permission"}
    /\ pc = "queueLut" => call \in {"luts", "rewardLuts", "queueLut"}
    /\ pc = "oracleLut" => call = "rewardLuts"
    /\ pc = "join" => call = "luts"

\* What has been read by the time it is needed, as ReadsWereTrue says of the
\* other stages.
HeldInv ==
    /\ call = "sync" /\ pc = "queue" => snap.oracle # NoAccount
    /\ call = "verified" /\ pc = "done" => snap.oracle # NoAccount
    /\ call = "collect" /\ pc = "build" => snap.keys \in seen.keys
    /\ call = "rewardLuts" /\ pc = "oracle" => snap.keys \in seen.keys

\* What the requests for the oracles have brought: so far, each oracle of the
\* queue in its place, with an operator it had at some instant.
GotInv ==
    /\ pc \notin {"each", "join", "done", "failed"} => got = <<>>
    /\ pc = "join" => got \in [DOMAIN snap.keys -> Futures]
    /\ pc = "each" =>
         /\ got \in Seq(Groups)
         /\ \A i \in DOMAIN got :
              /\ got[i].oracle = snap.keys[i]
              /\ \E a \in seen.oracle[snap.keys[i]] :
                    fetch_zerocopy_account_async(a) /\ got[i].operator = a.operator

\* The slot of a table that was read is the owner's current one while nothing
\* has touched the owner.
TableInv ==
    /\ call = "sync" /\ pc = "build" =>
         /\ snap.lut <= lutSlot[snap.oracle.queue]
         /\ snap.oracle.queue \notin touched => snap.lut = lutSlot[snap.oracle.queue]
    /\ pc = "oracleLut" /\ Target \notin touched => snap.oracleLut = lutSlot[Target]

\* What the results look like.
OutInv == SubsidyListsOneQueue /\ InstructionOfOneRead /\ SyncNamesQueueTable /\ RewardLutsComplete

IInv == ClientInv /\ DataInv /\ StageInv /\ HeldInv /\ GotInv /\ TableInv /\ OutInv

-----------------------------------------------------------------------------
(***************************************************************************)
(* Before the first request.                                               *)
(***************************************************************************)

\* The keys of a queue are a sequence, and may be none.
LEMMA KeySequences ==
  /\ \A s \in KeySeqs : s \in Seq(Oracles) /\ Len(s) \in Nat /\ DOMAIN s = 1 .. Len(s)
  /\ <<>> \in KeySeqs
<1>1. ASSUME NEW s \in KeySeqs
      PROVE  s \in Seq(Oracles) /\ Len(s) \in Nat /\ DOMAIN s = 1 .. Len(s)
  <2>1. PICK n \in 0 .. MaxKeys : s \in [1 .. n -> Oracles]
    BY DEF KeySeqs
  <2>2. n \in Nat
    BY ClientAssumption
  <2> QED
    BY <2>1, <2>2, IsASeq, LenProperties
<1>2. <<>> \in KeySeqs
  <2>1. 0 \in 0 .. MaxKeys
    BY ClientAssumption
  <2>2. <<>> \in [1 .. 0 -> Oracles] /\ \A i, j \in 1 .. 0 : <<>>[i] = <<>>[j] => i = j
    BY EmptySeq
  <2> QED
    BY <2>1, <2>2 DEF KeySeqs
<1> QED
  BY <1>1, <1>2

\* Each call begins with a request of its own, or with none.
LEMMA FirstStages ==
  ASSUME NEW c \in Calls
  PROVE  /\ FirstStage[c] \in {"state", "queue", "oracle", "build"}
         /\ FirstStage[c] = "state" => c \in {"subsidy", "rewards", "heartbeat"}
         /\ FirstStage[c] = "queue" => c \in {"oracles", "many", "luts", "rewardLuts", "queueLut",
                                               "collect"}
         /\ FirstStage[c] = "oracle" => c \in {"verified", "sync", "resetLut", "heartbeatV2",
                                                "fetch", "fetchSync", "borsh"}
         /\ FirstStage[c] = "build" => c \in {"queueReset", "verifyQuote", "setConfigs",
                                               "permission"}
BY DEF Calls, FirstStage

Fresh == pc = FirstStage[call] /\ snap = NothingRead /\ got = <<>>

FreshInv ==
    /\ pc \in Stages /\ snap.keys \in KeySeqs /\ Len(got) <= Len(snap.keys)
    /\ pc \notin {"oracles", "each", "queueLut", "join", "oracleLut"} /\ snap.oracle = NoAccount
    /\ StageInv /\ HeldInv /\ GotInv /\ TableInv /\ OutInv
    /\ ~ (pc = "build" /\ call \in {"sync", "resetLut", "heartbeatV2", "rewards"})

\* At the start of an attempt nothing has been read that could be untrue.
LEMMA FreshAttempt == DataInv /\ Fresh => FreshInv
<1> SUFFICES ASSUME DataInv, Fresh PROVE FreshInv
  OBVIOUS
<1> USE DEF Fresh
<1>1. call \in Calls
  BY DEF DataInv
<1>2. pc \in {"state", "queue", "oracle", "build"}
  BY <1>1, FirstStages
<1>3. StageInv
  BY <1>1, FirstStages DEF StageInv
<1>4. call = "sync" => pc = "oracle"
  BY DEF FirstStage
<1>5. call \in {"collect", "rewardLuts"} => pc = "queue"
  BY DEF FirstStage
<1>6. call = "rewards" => pc = "state"
  BY DEF FirstStage
<1>7. call \in {"resetLut", "heartbeatV2"} => pc = "oracle"
  BY DEF FirstStage
<1>8. HeldInv /\ TableInv /\ OutInv
  BY <1>2, <1>4, <1>5 DEF HeldInv, TableInv, OutInv, SubsidyListsOneQueue, InstructionOfOneRead,
       SyncNamesQueueTable, RewardLutsComplete
<1>9. GotInv
  BY <1>2 DEF GotInv
<1> QED
  BY <1>2, <1>3, <1>4, <1>6, <1>7, <1>8, <1>9, KeySequences, EmptySeq DEF Stages, NothingRead, FreshInv

\* So is it at the start of the next one.
LEMMA NextAttempt == DataInv' /\ Fresh' => FreshInv'
BY FreshAttempt, PTL

\* The first attempt starts so, on a chain whose tables all exist.
LEMMA InitIInv == Init => IInv
<1> SUFFICES ASSUME Init PROVE IInv
  OBVIOUS
<1>1. 0 \in LutSlots
  BY ClientAssumption DEF LutSlots
<1>2. snap \in Snapshots
  BY <1>1, KeySequences DEF Init, NothingRead, Snapshots, Accounts
<1>3. oracle \in [Oracles -> Accounts] /\ keys \in KeySeqs
  BY DEF Init
<1>4. /\ seen \in Histories /\ keys \in seen.keys
      /\ \A k \in Oracles : oracle[k] \in seen.oracle[k]
  BY <1>3 DEF Init, Histories
<1>5. DataInv
  BY <1>2, <1>4, ClientAssumption DEF Init, DataInv
<1>6. FreshInv
  BY <1>5, FreshAttempt DEF Init, Fresh
<1>7. /\ lutSlot \in [Owners -> LutSlots] /\ tables \subseteq Owners \X LutSlots
      /\ \A o \in Owners : <<o, lutSlot[o]>> \in tables
  BY <1>1 DEF Init
<1>8. attempts \in 0 .. allowed
  BY ClientAssumption DEF Init
<1>9. TypeOK
  BY <1>3, <1>6, <1>7, <1>8 DEF TypeOK, FreshInv
<1>10. ReadsWereTrue
  BY <1>4, <1>6, <1>7 DEF ReadsWereTrue, FreshInv
<1> QED
  BY <1>5, <1>6, <1>9, <1>10 DEF IInv, ClientInv, FreshInv

-----------------------------------------------------------------------------
(***************************************************************************)
(* The chain.                                                              *)
(***************************************************************************)

\* What a change of the chain does to what the client knows of it: the history
\* only grows, the slots of the tables only rise, and those of an owner that is
\* not touched stay.
Evolves ==
    /\ UNCHANGED <<client, lost, faults, allowed>>
    /\ changes' \in Nat /\ now' \in Nat
    /\ keys' \in KeySeqs /\ oracle' \in [Oracles -> Accounts]
    /\ seen' \in Histories /\ seen.keys \subseteq seen'.keys /\ keys' \in seen'.keys
    /\ \A k \in Oracles : seen.oracle[k] \subseteq seen'.oracle[k] /\ oracle'[k] \in seen'.oracle[k]
    /\ \A k \in Oracles : k \notin touched' => oracle'[k] = oracle[k]
    /\ lutSlot' \in [Owners -> LutSlots] /\ tables' \subseteq Owners \X LutSlots
    /\ \A o \in Owners : <<o, lutSlot'[o]>> \in tables'
    /\ \A o \in Owners :
          /\ lutSlot[o] <= lutSlot'[o]
          /\ o \notin touched' => o \notin touched /\ lutSlot'[o] = lutSlot[o]
    /\ pc = "done" \/ changes' = 0 =>
         UNCHANGED <<keys, oracle, lutSlot, tables, changes, seen, touched>>

LEMMA ChainEvolves == ASSUME ClientInv, DataInv, ChainNext PROVE Evolves
<1> USE DEF ClientInv, DataInv, TypeOK, ReadsWereTrue
<1>1. /\ MaxLutSlot \in Nat /\ LutSlots = 0 .. MaxLutSlot
      /\ \A o \in Owners : lutSlot[o] \in LutSlots
  BY ClientAssumption DEF LutSlots
<1>2. CASE Tick
  <2>1. now' \in Nat
    BY <1>2 DEF Tick
  <2> QED
    BY <1>1, <1>2, <2>1 DEF Tick, Evolves, client, history
<1>3. CASE RotateQueue
  <2>1. /\ UNCHANGED <<client, lost, faults, allowed, now, oracle, lutSlot, tables>>
        /\ changes' = changes + 1 /\ touched' = touched \cup {QueueId} /\ pc # "done"
        /\ keys' \in KeySeqs /\ seen' = [seen EXCEPT !.keys = @ \cup {keys'}]
    BY <1>3 DEF RotateQueue, Change
  <2>2. /\ seen' \in Histories /\ seen'.keys = seen.keys \cup {keys'}
        /\ seen'.oracle = seen.oracle
    BY <2>1 DEF Histories
  <2> QED
    BY <1>1, <2>1, <2>2 DEF Evolves
<1>4. CASE \E k \in Oracles : ChangeOracle(k)
  <2>1. PICK k \in Oracles : ChangeOracle(k)
    BY <1>4
  <2>2. PICK a \in Accounts : /\ oracle' = [oracle EXCEPT ![k] = a]
                              /\ seen' = [seen EXCEPT !.oracle[k] = @ \cup {a}]
    BY <2>1 DEF ChangeOracle
  <2>3. /\ UNCHANGED <<client, lost, faults, allowed, now, keys, lutSlot, tables>>
        /\ changes' = changes + 1 /\ touched' = touched \cup {k} /\ pc # "done"
    BY <2>1 DEF ChangeOracle, Change
  <2>4. /\ seen.oracle \in [Oracles -> SUBSET Accounts] /\ seen.keys \in SUBSET KeySeqs
        /\ seen'.keys = seen.keys
        /\ seen'.oracle = [seen.oracle EXCEPT ![k] = @ \cup {a}]
        /\ seen' = [keys |-> seen'.keys, oracle |-> seen'.oracle]
    BY <2>2 DEF Histories
  <2>5. /\ seen' \in Histories
        /\ \A q \in Oracles : seen.oracle[q] \subseteq seen'.oracle[q] /\ oracle'[q] \in seen'.oracle[q]
    BY <2>2, <2>4 DEF Histories
  <2> QED
    BY <1>1, <2>2, <2>3, <2>4, <2>5 DEF Evolves
<1>5. CASE \E o \in Owners : ResetLut(o)
  <2>1. PICK o \in Owners : ResetLut(o)
    BY <1>5
  <2>2. /\ UNCHANGED <<client, lost, faults, allowed, now, keys, oracle, seen>>
        /\ changes' = changes + 1 /\ touched' = touched \cup {o} /\ pc # "done"
        /\ lutSlot[o] < MaxLutSlot /\ lutSlot' = [lutSlot EXCEPT ![o] = @ + 1]
        /\ tables' = tables \cup {<<o, lutSlot[o] + 1>>}
    BY <2>1 DEF ResetLut, Change
  <2>3. lutSlot[o] + 1 \in LutSlots
    BY <1>1, <2>2
  <2>4. lutSlot' \in [Owners -> LutSlots] /\ tables' \subseteq Owners \X LutSlots
    BY <2>2, <2>3
  <2>5. \A q \in Owners : /\ <<q, lutSlot'[q]>> \in tables'
                          /\ lutSlot[q] <= lutSlot'[q]
                          /\ q # o => lutSlot'[q] = lutSlot[q]
    BY <1>1, <2>2, <2>3
  <2> QED
    BY <1>1, <2>2, <2>4, <2>5 DEF Evolves
<1>6. CASE \E o \in Owners : CloseLut(o)
  <2>1. PICK o \in Owners : CloseLut(o)
    BY <1>6
  <2>2. /\ UNCHANGED <<client, lost, faults, allowed, now, keys, oracle, lutSlot, seen>>
        /\ changes' = changes + 1 /\ touched' = touched \cup {o} /\ pc # "done"
    BY <2>1 DEF CloseLut, Change
  <2>3. PICK t \in LutSlots : t < lutSlot[o] /\ tables' = tables \ {<<o, t>>}
    BY <2>1 DEF CloseLut
  <2>4. \A q \in Owners : <<q, lutSlot[q]>> \in tables'
    BY <1>1, <2>3
  <2> QED
    BY <1>1, <2>2, <2>3, <2>4 DEF Evolves
<1> QED
  BY <1>2, <1>3, <1>4, <1>5, <1>6 DEF ChainNext

\* What has been read stays what the chain held at an instant of the attempt.
LEMMA ChainIInv == ASSUME IInv, ChainNext PROVE IInv'
<1>1. Evolves
  BY ChainEvolves DEF IInv
<1>2. UNCHANGED <<call, attempts, pc, snap, got, out, lost, faults, allowed>>
  BY <1>1 DEF Evolves, client
<1>3. DataInv' /\ TypeOK' /\ StageInv'
  BY <1>1, <1>2 DEF Evolves, IInv, ClientInv, DataInv, TypeOK, StageInv
<1>4. seen.keys \subseteq seen'.keys /\ \A k \in Oracles : seen.oracle[k] \subseteq seen'.oracle[k]
  BY <1>1 DEF Evolves
<1>5. Target \in Oracles
  BY ClientAssumption
<1>6. ReadsWereTrue' /\ HeldInv'
  BY <1>1, <1>2, <1>4, <1>5 DEF Evolves, IInv, ClientInv, ReadsWereTrue, HeldInv
<1>7. GotInv'
  <2>1. CASE pc = "each"
    <3> SUFFICES ASSUME NEW i \in DOMAIN got
                 PROVE  /\ got[i].oracle = snap.keys[i]
                        /\ \E a \in seen'.oracle[snap.keys[i]] :
                              fetch_zerocopy_account_async(a) /\ got[i].operator = a.operator
      BY <1>2, <2>1 DEF IInv, GotInv
    <3>1. /\ got \in Seq(Groups) /\ got[i].oracle = snap.keys[i]
          /\ \E a \in seen.oracle[snap.keys[i]] :
                fetch_zerocopy_account_async(a) /\ got[i].operator = a.operator
      BY <2>1 DEF IInv, GotInv
    <3>2. got[i] \in Groups
      BY <3>1, ElementOfSeq, LenProperties
    <3>3. snap.keys[i] \in Oracles
      BY <3>1, <3>2 DEF Groups
    <3> QED
      BY <1>4, <3>1, <3>3
  <2>2. CASE pc # "each"
    BY <1>2, <2>2 DEF IInv, GotInv
  <2> QED
    BY <2>1, <2>2
<1>8. TableInv'
  <2>1. CASE call = "sync" /\ pc = "build"
    <3>1. snap.oracle \in Accounts /\ snap.oracle # NoAccount /\ snap.lut \in LutSlots
      BY <2>1 DEF IInv, ClientInv, ReadsWereTrue, DataInv, Snapshots
    <3>2. snap.oracle.queue \in Owners
      BY <3>1, ClientAssumption DEF Accounts, Owners
    <3> DEFINE o == snap.oracle.queue
    <3>3. /\ snap.lut <= lutSlot[o]
          /\ o \notin touched => snap.lut = lutSlot[o]
      BY <2>1 DEF IInv, TableInv
    <3>4. /\ lutSlot[o] <= lutSlot'[o]
          /\ o \notin touched' => o \notin touched /\ lutSlot'[o] = lutSlot[o]
      BY <1>1, <3>2 DEF Evolves
    <3>5. snap.lut \in Int /\ lutSlot[o] \in Int /\ lutSlot'[o] \in Int
      BY <1>1, <3>1, <3>2, ClientAssumption DEF Evolves, IInv, ClientInv, TypeOK, LutSlots
    <3> HIDE DEF o
    <3>6. snap.lut <= lutSlot'[o] /\ (o \notin touched' => snap.lut = lutSlot'[o])
      BY <3>3, <3>4, <3>5
    <3> QED
      BY <1>2, <2>1, <3>6 DEF TableInv, o
  <2>2. CASE pc = "oracleLut"
    <3>1. Target \in Owners
      BY <1>5 DEF Owners
    <3> QED
      BY <1>1, <1>2, <2>2, <3>1 DEF Evolves, IInv, TableInv
  <2>3. CASE pc # "oracleLut" /\ ~ (call = "sync" /\ pc = "build")
    BY <1>2, <2>3 DEF TableInv
  <2> QED
    BY <2>1, <2>2, <2>3
<1>9. OutInv'
  <2>1. CASE pc = "done"
    <3>1. UNCHANGED <<keys, oracle, lutSlot, tables, seen, touched>>
      BY <1>1, <2>1 DEF Evolves
    <3> QED
      BY <1>2, <2>1, <3>1 DEF IInv, OutInv, SubsidyListsOneQueue, InstructionOfOneRead,
           SyncNamesQueueTable, RewardLutsComplete, QueueTable
  <2>2. CASE pc # "done"
    BY <1>2, <2>2 DEF OutInv, SubsidyListsOneQueue, InstructionOfOneRead, SyncNamesQueueTable,
         RewardLutsComplete
  <2> QED
    BY <2>1, <2>2
<1> QED
  BY <1>3, <1>6, <1>7, <1>8, <1>9 DEF IInv, ClientInv

-----------------------------------------------------------------------------
(***************************************************************************)
(* The client.                                                             *)
(***************************************************************************)

\* A step of the client on an unchanged chain leaves the types as they are, if
\* what it assigns has them.
LEMMA ClientTypes ==
  ASSUME IInv, UnchangedChain, pc' \in Stages, snap' \in Snapshots, Len(got') <= Len(snap'.keys)
  PROVE  TypeOK' /\ DataInv'
<1>1. UNCHANGED <<keys, oracle, lutSlot, tables, now, changes, seen, touched, call, attempts,
                  faults, allowed>>
  BY DEF UnchangedChain, chain
<1>2. snap'.keys \in KeySeqs
  BY DEF Snapshots
<1> QED
  BY <1>1, <1>2 DEF IInv, ClientInv, TypeOK, DataInv

\* Only a call that has ended has a result.
LEMMA NoResultYet == ASSUME pc' # "done" PROVE OutInv'
BY DEF OutInv, SubsidyListsOneQueue, InstructionOfOneRead, SyncNamesQueueTable, RewardLutsComplete

\* An oracle account that can be read has a queue, an authority and an operator.
LEMMA ReadableAccounts ==
  ASSUME NEW a \in Accounts, fetch_zerocopy_account_async(a)
  PROVE  /\ a \in OracleData /\ a # NoAccount
         /\ a.queue \in Owners /\ a.operator \in Operators \cup {NoOperator} /\ a.until \in Nat
<1>1. a \in OracleData /\ a # NoAccount
  BY DEF Accounts, fetch_zerocopy_account_async
<1> QED
  BY <1>1, ClientAssumption DEF Owners

\* An attempt that fails, for whatever reason, leaves nothing to be wrong.
LEMMA FailedIInv ==
  ASSUME IInv, pc' = "failed", faults' \in Nat,
         UNCHANGED <<chain, changes, seen, touched, call, attempts, allowed, snap, got>>
  PROVE  IInv'
<1>1. UNCHANGED <<keys, oracle, lutSlot, tables, now>>
  BY DEF chain
<1>2. DataInv' /\ TypeOK'
  BY <1>1 DEF IInv, ClientInv, DataInv, TypeOK, Stages
<1>3. ReadsWereTrue'
  BY <1>1 DEF IInv, ClientInv, ReadsWereTrue
<1>4. StageInv' /\ HeldInv' /\ GotInv' /\ TableInv'
  BY DEF StageInv, HeldInv, GotInv, TableInv
<1> QED
  BY <1>2, <1>3, <1>4, NoResultYet DEF IInv, ClientInv

\* The state account only has to be there: nothing is kept of it.
LEMMA StateIInv == ASSUME IInv, ReadState PROVE IInv'
<1>1. /\ pc = "state" /\ UnchangedChain /\ UNCHANGED <<snap, got, out, lost>>
      /\ call \in {"subsidy", "rewards", "heartbeat"} /\ got = <<>>
  BY DEF ReadState, IInv, StageInv, GotInv
<1>2. /\ UNCHANGED <<keys, oracle, lutSlot, tables, seen, touched, call>>
  BY <1>1 DEF UnchangedChain, chain
<1>3. /\ call = "heartbeat" => pc' = "build"
      /\ call = "rewards" => pc' = "oracle"
      /\ call = "subsidy" => pc' = "queue"
  BY DEF ReadState
<1>4. TypeOK' /\ DataInv'
  <2>1. Len(got') <= Len(snap'.keys) /\ snap' \in Snapshots
    BY <1>1 DEF IInv, ClientInv, TypeOK, DataInv
  <2>2. pc' \in Stages
    BY <1>1, <1>3 DEF Stages
  <2> QED
    BY <1>1, <2>1, <2>2, ClientTypes
<1>5. StageInv' /\ HeldInv' /\ GotInv' /\ TableInv'
  BY <1>1, <1>2, <1>3 DEF StageInv, HeldInv, GotInv, TableInv
<1>6. ReadsWereTrue'
  BY <1>1, <1>2, <1>3 DEF IInv, ClientInv, ReadsWereTrue
<1>7. OutInv'
  BY <1>1, <1>3, NoResultYet
<1> QED
  BY <1>4, <1>5, <1>6, <1>7 DEF IInv, ClientInv

\* The queue is read as it is, and with it the current slot of its table.
LEMMA QueueIInv == ASSUME IInv, ReadQueue PROVE IInv'
<1>1. /\ pc = "queue" /\ UnchangedChain /\ UNCHANGED <<got, out, lost>> /\ got = <<>>
      /\ call \in {"oracles", "many", "subsidy", "luts", "rewardLuts", "queueLut", "sync", "collect"}
      /\ call = "sync" => snap.oracle # NoAccount
  BY DEF ReadQueue, IInv, StageInv, GotInv, HeldInv
<1>2. UNCHANGED <<keys, oracle, lutSlot, tables, seen, touched, call>>
  BY <1>1 DEF UnchangedChain, chain
<1>3. /\ call \in {"oracles", "many"} => pc' = "oracles"
      /\ call = "subsidy" => pc' = "each"
      /\ call \in {"luts", "rewardLuts", "queueLut"} => pc' = "queueLut"
      /\ call \in {"sync", "collect"} => pc' = "build"
  BY DEF ReadQueue, AfterQueue
<1>4. snap \in Snapshots /\ keys \in KeySeqs /\ lutSlot \in [Owners -> LutSlots] /\ keys \in seen.keys
  BY DEF IInv, ClientInv, TypeOK, ReadsWereTrue, DataInv
<1>5. QueueRead \in Owners
  <2>1. CASE call = "sync"
    <3>1. fetch_zerocopy_account_async(snap.oracle) /\ snap.oracle \in Accounts
      BY <1>1, <1>4, <2>1 DEF IInv, ClientInv, ReadsWereTrue, Snapshots
    <3> QED
      BY <2>1, <3>1, ReadableAccounts DEF QueueRead
  <2>2. CASE call # "sync"
    BY <2>2 DEF QueueRead, Owners, Queues
  <2> QED
    BY <2>1, <2>2
<1>6. /\ snap' \in Snapshots /\ snap'.keys = keys /\ snap'.lut = lutSlot[QueueRead]
      /\ snap'.oracle = snap.oracle
  <2>1. snap' = [snap EXCEPT !.keys = keys, !.lut = lutSlot[QueueRead]]
    BY DEF ReadQueue
  <2> QED
    BY <1>4, <1>5, <2>1 DEF Snapshots
<1>7. TypeOK' /\ DataInv'
  <2>1. Len(got') <= Len(snap'.keys)
    BY <1>1, <1>4, <1>6, KeySequences, EmptySeq
  <2>2. pc' \in Stages
    BY <1>1, <1>3 DEF Stages
  <2> QED
    BY <1>1, <1>6, <2>1, <2>2, ClientTypes
<1>8. StageInv' /\ HeldInv'
  BY <1>1, <1>2, <1>3, <1>4, <1>6 DEF StageInv, HeldInv
<1>9. GotInv'
  <2>1. got' = <<>> /\ pc' # "join"
    BY <1>1, <1>3
  <2>2. got' \in Seq(Groups) /\ DOMAIN got' = {}
    BY <2>1
  <2> QED
    BY <2>1, <2>2 DEF GotInv
<1>10. TableInv'
  <2>1. CASE call = "sync"
    <3>1. QueueRead = snap.oracle.queue /\ lutSlot[QueueRead] \in Int
      BY <1>4, <1>5, <2>1, ClientAssumption DEF QueueRead, LutSlots
    <3> QED
      BY <1>2, <1>3, <1>6, <2>1, <3>1 DEF TableInv
  <2>2. CASE call # "sync"
    BY <1>1, <1>2, <1>3, <2>2 DEF TableInv
  <2> QED
    BY <2>1, <2>2
<1>11. ReadsWereTrue'
  BY <1>1, <1>2, <1>3, <1>4, <1>6 DEF IInv, ClientInv, ReadsWereTrue
<1>12. OutInv'
  BY <1>1, <1>3, NoResultYet
<1> QED
  BY <1>7, <1>8, <1>9, <1>10, <1>11, <1>12 DEF IInv, ClientInv

\* The pairs and the list of accounts are results without conditions here.
LEMMA OraclesIInv == ASSUME IInv, ReadOracles PROVE IInv'
<1>1. /\ pc = "oracles" /\ pc' = "done" /\ UnchangedChain /\ UNCHANGED <<snap, got, lost>>
      /\ call \in {"oracles", "many"}
  BY DEF ReadOracles, IInv, StageInv
<1>2. UNCHANGED <<keys, oracle, lutSlot, tables, seen, touched, call>>
  BY <1>1 DEF UnchangedChain, chain
<1>3. TypeOK' /\ DataInv'
  <2>1. Len(got') <= Len(snap'.keys) /\ snap' \in Snapshots
    BY <1>1 DEF IInv, ClientInv, TypeOK, DataInv
  <2>2. pc' \in Stages
    BY <1>1 DEF Stages
  <2> QED
    BY <1>1, <2>1, <2>2, ClientTypes
<1>4. StageInv' /\ HeldInv' /\ GotInv' /\ TableInv'
  BY <1>1, <1>2 DEF StageInv, HeldInv, GotInv, TableInv
<1>5. ReadsWereTrue'
  BY <1>1, <1>2 DEF IInv, ClientInv, ReadsWereTrue
<1>6. OutInv'
  BY <1>1, <1>2 DEF OutInv, SubsidyListsOneQueue, InstructionOfOneRead, SyncNamesQueueTable,
       RewardLutsComplete
<1> QED
  BY <1>3, <1>4, <1>5, <1>6 DEF IInv, ClientInv

\* An oracle that can be read is listed in its place, with the operator it has.
LEMMA OracleIInv == ASSUME IInv, ReadOracle PROVE IInv'
<1> DEFINE i == Len(got) + 1
           k == snap.keys[i]
           group == [oracle |-> k, operator |-> oracle[k].operator]
<1>1. /\ pc = "each" /\ UnchangedChain /\ UNCHANGED <<snap, out, lost>> /\ call = "subsidy"
      /\ i \in DOMAIN snap.keys
      /\ \/ Exact(k) /\ got' = Append(got, group) /\ UNCHANGED pc
         \/ pc' = "failed" /\ UNCHANGED got
  BY DEF ReadOracle, IInv, StageInv
<1>2. UNCHANGED <<keys, oracle, lutSlot, tables, seen, touched, call>>
  BY <1>1 DEF UnchangedChain, chain
<1>3. /\ snap \in Snapshots /\ snap.keys \in Seq(Oracles) /\ DOMAIN snap.keys = 1 .. Len(snap.keys)
      /\ got \in Seq(Groups) /\ Len(got) \in Nat /\ Len(got) <= Len(snap.keys)
      /\ DOMAIN got = 1 .. Len(got) /\ Len(snap.keys) \in Nat
  BY <1>1, KeySequences, LenProperties DEF IInv, ClientInv, TypeOK, DataInv, GotInv
<1>4. k \in Oracles
  BY <1>1, <1>3, ElementOfSeq
<1> HIDE DEF k
<1>5. ASSUME Exact(k)
      PROVE  /\ oracle[k] \in seen.oracle[k] /\ fetch_zerocopy_account_async(oracle[k])
             /\ group \in Groups
  <2>1. oracle[k] \in seen.oracle[k] /\ oracle[k] \in Accounts
    BY <1>4 DEF IInv, ClientInv, TypeOK, ReadsWereTrue
  <2>2. fetch_zerocopy_account_async(oracle[k])
    BY <1>5 DEF Exact
  <2>3. oracle[k].operator \in Operators \cup {NoOperator}
    BY <2>1, <2>2, ReadableAccounts
  <2> QED
    BY <1>4, <2>1, <2>2, <2>3 DEF Groups
<1> HIDE DEF group
<1>6. CASE Exact(k) /\ got' = Append(got, group) /\ UNCHANGED pc
  <2>1. /\ got' \in Seq(Groups) /\ Len(got') = i /\ DOMAIN got' = 1 .. i
        /\ got'[i] = group /\ \A j \in 1 .. Len(got) : got'[j] = got[j]
    BY <1>3, <1>5, <1>6, AppendProperties, LenProperties
  <2>2. TypeOK' /\ DataInv'
    <3>1. Len(got') <= Len(snap'.keys) /\ snap' \in Snapshots
      BY <1>1, <1>3, <2>1
    <3>2. pc' \in Stages
      BY <1>1, <1>6 DEF Stages
    <3> QED
      BY <1>1, <3>1, <3>2, ClientTypes
  <2>3. StageInv' /\ HeldInv' /\ TableInv'
    BY <1>1, <1>2, <1>6 DEF StageInv, HeldInv, TableInv
  <2>4. GotInv'
    <3> SUFFICES ASSUME NEW j \in 1 .. i
                 PROVE  /\ got'[j].oracle = snap.keys[j]
                        /\ \E a \in seen.oracle[snap.keys[j]] :
                              fetch_zerocopy_account_async(a) /\ got'[j].operator = a.operator
      BY <1>1, <1>2, <1>6, <2>1 DEF GotInv
    <3>1. CASE j = i
      BY <1>5, <1>6, <2>1, <3>1 DEF group, k
    <3>2. CASE j # i
      <4>1. j \in DOMAIN got /\ got'[j] = got[j]
        BY <1>3, <2>1, <3>2
      <4> QED
        BY <1>1, <4>1 DEF IInv, GotInv
    <3> QED
      BY <3>1, <3>2
  <2>5. ReadsWereTrue'
    BY <1>1, <1>2, <1>6 DEF IInv, ClientInv, ReadsWereTrue
  <2>6. OutInv'
    BY <1>1, <1>6, NoResultYet
  <2> QED
    BY <2>2, <2>3, <2>4, <2>5, <2>6 DEF IInv, ClientInv
<1>7. CASE pc' = "failed" /\ UNCHANGED got
  BY <1>1, <1>7, FailedIInv DEF UnchangedChain, IInv, DataInv
<1> QED
  BY <1>1, <1>6, <1>7

\* Every function that fetches the one oracle returns what its account holds.
LEMMA TargetIInv == ASSUME IInv, ReadTarget PROVE IInv'
<1>1. /\ pc = "oracle" /\ UnchangedChain /\ UNCHANGED <<got, out, lost>> /\ got = <<>>
      /\ call \in {"verified", "sync", "rewardLuts", "rewards", "resetLut", "heartbeatV2", "fetch",
                   "fetchSync", "borsh"}
      /\ call = "rewardLuts" => snap.keys \in seen.keys
  BY DEF ReadTarget, IInv, StageInv, GotInv, HeldInv
<1>2. UNCHANGED <<keys, oracle, lutSlot, tables, seen, touched, call>>
  BY <1>1 DEF UnchangedChain, chain
<1>3. /\ snap \in Snapshots /\ oracle[Target] \in Accounts /\ oracle[Target] \in seen.oracle[Target]
      /\ lutSlot[Target] \in LutSlots /\ Len(got) <= Len(snap.keys)
  BY ClientAssumption DEF IInv, ClientInv, TypeOK, ReadsWereTrue, DataInv, Owners
<1>4. CASE TargetFetched
  <2>1. /\ snap' = [snap EXCEPT !.oracle = oracle[Target], !.oracleLut = lutSlot[Target]]
        /\ call \in {"verified", "fetch", "fetchSync", "borsh"} => pc' = "done"
        /\ call = "sync" => pc' = "queue"
        /\ call = "rewardLuts" => pc' = "oracleLut"
        /\ call \in {"rewards", "resetLut", "heartbeatV2"} => pc' = "build"
    BY <1>4 DEF ReadTarget
  <2>2. /\ snap' \in Snapshots /\ snap'.oracle = oracle[Target] /\ snap'.oracleLut = lutSlot[Target]
        /\ snap'.keys = snap.keys
    BY <1>3, <2>1 DEF Snapshots
  <2>3. fetch_zerocopy_account_async(oracle[Target])
    BY <1>4 DEF TargetFetched, Exact, fetch_zerocopy_account, fetch_zerocopy_account_async,
         fetch_zerocopy_account_sync, fetch_borsh_account, try_deserialize, try_deserialize_unchecked
  <2>4. oracle[Target] # NoAccount
    BY <1>3, <2>3, ReadableAccounts
  <2>5. TypeOK' /\ DataInv'
    <3>1. Len(got') <= Len(snap'.keys)
      BY <1>1, <1>3, <2>2
    <3>2. pc' \in Stages
      BY <1>1, <2>1 DEF Stages
    <3> QED
      BY <1>1, <2>2, <3>1, <3>2, ClientTypes
  <2>6. StageInv' /\ HeldInv'
    BY <1>1, <1>2, <2>1, <2>2, <2>4 DEF StageInv, HeldInv
  <2>7. GotInv' /\ TableInv'
    BY <1>1, <1>2, <2>1, <2>2 DEF GotInv, TableInv
  <2>8. ReadsWereTrue'
    BY <1>1, <1>2, <1>3, <2>1, <2>2, <2>3, <2>4 DEF IInv, ClientInv, ReadsWereTrue
  <2>9. OutInv'
    <3>1. call' \in {"verified", "fetch", "fetchSync", "borsh"} \/ pc' # "done"
      BY <1>1, <1>2, <2>1
    <3> QED
      BY <3>1 DEF OutInv, SubsidyListsOneQueue, InstructionOfOneRead, SyncNamesQueueTable,
           RewardLutsComplete
  <2> QED
    BY <2>5, <2>6, <2>7, <2>8, <2>9 DEF IInv, ClientInv
<1>5. CASE ~ TargetFetched
  <2>1. pc' = "failed" /\ UNCHANGED snap
    BY <1>5 DEF ReadTarget
  <2> QED
    BY <1>1, <2>1, FailedIInv DEF UnchangedChain, IInv, DataInv
<1> QED
  BY <1>4, <1>5

\* An instruction about the oracle takes what it needs from the one account
\* that was read.
LEMMA BuiltOfOneRead ==
  ASSUME IInv, pc = "build", out' = Instruction, UnchangedChain, UNCHANGED snap,
         call = "collect" => \E i \in DOMAIN snap.keys : snap.keys[i] = Target
  PROVE  InstructionOfOneRead' /\ SyncNamesQueueTable'
<1>1. UNCHANGED <<keys, oracle, lutSlot, tables, seen, touched, call>>
  BY DEF UnchangedChain, chain
<1>2. ASSUME call \in {"sync", "resetLut", "heartbeatV2", "rewards"}
      PROVE  /\ snap.oracle \in seen.oracle[Target] /\ fetch_zerocopy_account_async(snap.oracle)
             /\ snap.oracle \in Accounts
  BY <1>2 DEF IInv, ClientInv, ReadsWereTrue, DataInv, Snapshots
<1>3. CASE call = "sync"
  <2> DEFINE q == snap.oracle.queue
  <2>1. out' = [oracle |-> Target, queue |-> q, authority |-> snap.oracle.authority,
                payer |-> snap.oracle.authority, operator |-> snap.oracle.operator,
                lut |-> Lut(q, snap.lut)]
    BY <1>3 DEF Instruction, SyncLutIx, OracleOfIx
  <2>2. InstructionOfOneRead'
    BY <1>1, <1>2, <1>3, <2>1 DEF InstructionOfOneRead
  <2>3. /\ snap.lut <= lutSlot[q] /\ (q \notin touched => snap.lut = lutSlot[q])
        /\ snap.lut \in Nat
    BY <1>3, ClientAssumption DEF IInv, TableInv, DataInv, Snapshots, LutSlots
  <2>4. q \in Owners
    BY <1>2, <1>3, ReadableAccounts
  <2>5. lutSlot[q] \in Nat
    BY <2>4, ClientAssumption DEF IInv, ClientInv, TypeOK, LutSlots
  <2> HIDE DEF q
  <2>6. snap.lut \in 0 .. lutSlot[q]
    BY <2>3, <2>5
  <2>7. out'.queue = q /\ out'.lut = Lut(q, snap.lut)
    BY <2>1
  <2>8. SyncNamesQueueTable'
    BY <1>1, <2>3, <2>6, <2>7 DEF SyncNamesQueueTable
  <2> QED
    BY <2>2, <2>8
<1>4. CASE call = "resetLut"
  <2>1. out' = [oracle |-> Target, authority |-> snap.oracle.authority,
                payer |-> snap.oracle.authority, lut |-> Lut(Target, Arg("recent_slot"))]
    BY <1>4 DEF Instruction, ResetLutIx, ResetLutPayer, OracleOfIx
  <2> QED
    BY <1>1, <1>2, <1>4, <2>1 DEF InstructionOfOneRead, SyncNamesQueueTable
<1>5. CASE call = "heartbeatV2"
  <2>1. out' = [oracle |-> Target, queue |-> snap.oracle.queue,
                oracle_signer |-> Arg("oracle_signer"), gc_node |-> Arg("gc_node")]
    BY <1>5 DEF Instruction, HeartbeatV2Ix, OracleOfIx
  <2> QED
    BY <1>1, <1>2, <1>5, <2>1 DEF InstructionOfOneRead, SyncNamesQueueTable
<1>6. CASE call = "rewards"
  <2>1. out' = [oracle |-> Target, queue |-> QueueId, operator |-> snap.oracle.operator,
                payer |-> Arg("payer")]
    BY <1>6 DEF Instruction, PayRewardIx, OracleOfIx
  <2> QED
    BY <1>1, <1>2, <1>6, <2>1 DEF InstructionOfOneRead, SyncNamesQueueTable
<1>7. CASE call = "collect"
  <2>1. out' = [oracle |-> Target, queue |-> QueueId, idx |-> idx_of_oracle(snap.keys, Target)]
    BY <1>7 DEF Instruction, GarbageCollectIx
  <2>2. snap.keys \in seen.keys /\ snap.keys \in KeySeqs
    BY <1>7 DEF IInv, HeldInv, DataInv, Snapshots
  <2>3. Len(snap.keys) \in Nat /\ DOMAIN snap.keys = 1 .. Len(snap.keys)
    BY <2>2, KeySequences
  <2>4. PICK i \in 1 .. Len(snap.keys) : snap.keys[i] = Target
    BY <1>7, <2>3
  <2>5. i - 1 \in 0 .. Len(snap.keys) - 1 /\ (i - 1) + 1 = i
    BY <2>3, <2>4
  <2>6. \E j \in 0 .. Len(snap.keys) - 1 : snap.keys[j + 1] = Target
    BY <2>4, <2>5
  <2> DEFINE idx == idx_of_oracle(snap.keys, Target)
  <2>7. idx \in 0 .. Len(snap.keys) - 1 /\ snap.keys[idx + 1] = Target
    BY <2>6 DEF idx_of_oracle
  <2> HIDE DEF idx
  <2>8. idx + 1 \in DOMAIN snap.keys
    BY <2>3, <2>7
  <2>9. out'.idx = idx /\ out'.oracle = Target
    BY <2>1 DEF idx
  <2> QED
    BY <1>1, <1>7, <2>2, <2>7, <2>8, <2>9 DEF InstructionOfOneRead, SyncNamesQueueTable
<1>8. CASE call \notin {"sync", "resetLut", "heartbeatV2", "rewards", "collect"}
  BY <1>1, <1>8 DEF InstructionOfOneRead, SyncNamesQueueTable
<1> QED
  BY <1>3, <1>4, <1>5, <1>6, <1>7, <1>8

\* Once every oracle has been read, the groups are those of the queue as it was
\* read, one for each and in its order.
LEMMA SubsidyOfOneQueue ==
  ASSUME IInv, pc = "each", Len(got) = Len(snap.keys), out' = got, UnchangedChain, UNCHANGED snap
  PROVE  SubsidyListsOneQueue'
<1>1. UNCHANGED <<seen, call>>
  BY DEF UnchangedChain
<1>2. /\ snap.keys \in seen.keys /\ got \in Seq(Groups) /\ snap.keys \in KeySeqs
      /\ \A i \in DOMAIN got :
           /\ got[i].oracle = snap.keys[i]
           /\ \E a \in seen.oracle[snap.keys[i]] :
                 fetch_zerocopy_account_async(a) /\ got[i].operator = a.operator
  BY DEF IInv, ClientInv, ReadsWereTrue, GotInv, DataInv, Snapshots
<1>3. DOMAIN got = DOMAIN snap.keys /\ snap.keys \in Seq(Oracles)
  BY <1>2, KeySequences, LenProperties
<1>4. [i \in DOMAIN got |-> got[i].oracle] = snap.keys
  BY <1>2, <1>3
<1> QED
  BY <1>1, <1>2, <1>4 DEF SubsidyListsOneQueue

\* The instruction is built of what has been read, or the call fails.
LEMMA BuildIInv == ASSUME IInv, BuildIx PROVE IInv'
<1>1. UnchangedChain /\ UNCHANGED <<snap, got, lost>>
  BY DEF BuildIx
<1>2. UNCHANGED <<keys, oracle, lutSlot, tables, seen, touched, call>>
  BY <1>1 DEF UnchangedChain, chain
<1>3. CASE pc' = "failed"
  BY <1>1, <1>3, FailedIInv DEF UnchangedChain, IInv, DataInv
<1>4. CASE pc' = "done"
  <2>1. \/ pc = "each" /\ Len(got) = Len(snap.keys) /\ out' = got /\ call = "subsidy"
        \/ /\ pc = "build" /\ out' = Instruction
           /\ call = "collect" => \E i \in DOMAIN snap.keys : snap.keys[i] = Target
           /\ call \notin {"subsidy", "rewardLuts", "queueLut", "verified"}
    BY <1>4 DEF BuildIx, IInv, StageInv
  <2>2. TypeOK' /\ DataInv'
    <3>1. Len(got') <= Len(snap'.keys) /\ snap' \in Snapshots
      BY <1>1 DEF IInv, ClientInv, TypeOK, DataInv
    <3>2. pc' \in Stages
      BY <1>4 DEF Stages
    <3> QED
      BY <1>1, <3>1, <3>2, ClientTypes
  <2>3. StageInv' /\ HeldInv' /\ GotInv' /\ TableInv'
    BY <1>2, <1>4, <2>1 DEF StageInv, HeldInv, GotInv, TableInv
  <2>4. ReadsWereTrue'
    BY <1>1, <1>2, <1>4 DEF IInv, ClientInv, ReadsWereTrue
  <2>5. OutInv'
    <3>1. CASE pc = "each"
      <4>1. call' = "subsidy" /\ SubsidyListsOneQueue'
        BY <1>1, <1>2, <2>1, <3>1, SubsidyOfOneQueue
      <4> QED
        BY <4>1 DEF OutInv, InstructionOfOneRead, SyncNamesQueueTable, RewardLutsComplete
    <3>2. CASE pc = "build"
      <4>1. InstructionOfOneRead' /\ SyncNamesQueueTable'
        BY <1>1, <2>1, <3>2, BuiltOfOneRead
      <4>2. call' \notin {"subsidy", "rewardLuts", "queueLut"}
        BY <1>2, <2>1, <3>2
      <4> QED
        BY <4>1, <4>2 DEF OutInv, SubsidyListsOneQueue, RewardLutsComplete
    <3> QED
      BY <2>1, <3>1, <3>2
  <2> QED
    BY <2>2, <2>3, <2>4, <2>5 DEF IInv, ClientInv
<1> QED
  BY <1>3, <1>4 DEF BuildIx

\* The queue's table is there, or the call fails; "luts" then has a future for
\* every oracle, and none has been polled.
LEMMA QueueLutIInv == ASSUME IInv, ReadQueueLut PROVE IInv'
<1>1. /\ pc = "queueLut" /\ UnchangedChain /\ UNCHANGED <<snap, lost>> /\ got = <<>>
      /\ call \in {"luts", "rewardLuts", "queueLut"} /\ snap.keys \in seen.keys
  BY DEF ReadQueueLut, IInv, StageInv, GotInv, ClientInv, ReadsWereTrue
<1>2. UNCHANGED <<keys, oracle, lutSlot, tables, seen, touched, call>>
  BY <1>1 DEF UnchangedChain, chain
<1>3. /\ snap \in Snapshots /\ snap.keys \in KeySeqs /\ Len(snap.keys) \in Nat
      /\ DOMAIN snap.keys = 1 .. Len(snap.keys) /\ Len(got) <= Len(snap.keys)
  BY KeySequences DEF IInv, ClientInv, TypeOK, DataInv
<1>4. CASE pc' = "failed" /\ UNCHANGED got
  BY <1>1, <1>4, FailedIInv DEF UnchangedChain, IInv, DataInv
<1>5. CASE call = "luts" /\ pc' = "join"
           /\ got' = [i \in DOMAIN snap.keys |-> [at |-> "account", lut |-> NoTable]]
  <2>1. got' \in [DOMAIN snap.keys -> Futures]
    BY <1>5 DEF Futures
  <2>2. Len(got') = Len(snap.keys)
    BY <1>3, <2>1, LenProperties, IsASeq
  <2>3. TypeOK' /\ DataInv'
    BY <1>1, <1>3, <1>5, <2>2, ClientTypes DEF Stages
  <2>4. StageInv' /\ HeldInv' /\ GotInv' /\ TableInv'
    BY <1>1, <1>2, <1>5, <2>1 DEF StageInv, HeldInv, GotInv, TableInv
  <2>5. ReadsWereTrue'
    BY <1>1, <1>2, <1>5 DEF IInv, ClientInv, ReadsWereTrue
  <2>6. OutInv'
    BY <1>5, NoResultYet
  <2> QED
    BY <2>3, <2>4, <2>5, <2>6 DEF IInv, ClientInv
<1>6. CASE call = "rewardLuts" /\ pc' = "oracle" /\ UNCHANGED got
  <2>1. TypeOK' /\ DataInv'
    BY <1>1, <1>3, <1>6, ClientTypes DEF Stages
  <2>2. StageInv' /\ HeldInv' /\ GotInv' /\ TableInv'
    BY <1>1, <1>2, <1>6 DEF StageInv, HeldInv, GotInv, TableInv
  <2>3. ReadsWereTrue'
    BY <1>1, <1>2, <1>6 DEF IInv, ClientInv, ReadsWereTrue
  <2>4. OutInv'
    BY <1>6, NoResultYet
  <2> QED
    BY <2>1, <2>2, <2>3, <2>4 DEF IInv, ClientInv
<1>7. CASE call = "queueLut" /\ pc' = "done" /\ out' = <<QueueTable>> /\ UNCHANGED got
  <2>1. TypeOK' /\ DataInv'
    BY <1>1, <1>3, <1>7, ClientTypes DEF Stages
  <2>2. StageInv' /\ HeldInv' /\ GotInv' /\ TableInv'
    BY <1>1, <1>2, <1>7 DEF StageInv, HeldInv, GotInv, TableInv
  <2>3. ReadsWereTrue'
    BY <1>1, <1>2, <1>7 DEF IInv, ClientInv, ReadsWereTrue
  <2>4. OutInv'
    BY <1>1, <1>2, <1>7 DEF OutInv, SubsidyListsOneQueue, InstructionOfOneRead,
         SyncNamesQueueTable, RewardLutsComplete, QueueTable
  <2> QED
    BY <2>1, <2>2, <2>3, <2>4 DEF IInv, ClientInv
<1> QED
  BY <1>1, <1>4, <1>5, <1>6, <1>7 DEF ReadQueueLut

\* The oracle's table is behind the queue's, or was closed under the read.
LEMMA OracleLutIInv == ASSUME IInv, ReadOracleLut PROVE IInv'
<1>1. /\ pc = "oracleLut" /\ pc' = "done" /\ UnchangedChain /\ UNCHANGED <<snap, got, lost>>
      /\ call = "rewardLuts" /\ got = <<>>
      /\ Target \notin touched => snap.oracleLut = lutSlot[Target]
  BY DEF ReadOracleLut, IInv, StageInv, GotInv, TableInv
<1>2. UNCHANGED <<keys, oracle, lutSlot, tables, seen, touched, call>>
  BY <1>1 DEF UnchangedChain, chain
<1>3. TypeOK' /\ DataInv'
  <2>1. Len(got') <= Len(snap'.keys) /\ snap' \in Snapshots
    BY <1>1 DEF IInv, ClientInv, TypeOK, DataInv
  <2> QED
    BY <1>1, <2>1, ClientTypes DEF Stages
<1>4. StageInv' /\ HeldInv' /\ GotInv' /\ TableInv'
  BY <1>1, <1>2 DEF StageInv, HeldInv, GotInv, TableInv
<1>5. ReadsWereTrue'
  BY <1>1, <1>2 DEF IInv, ClientInv, ReadsWereTrue
<1>6. RewardLutsComplete'
  <2>1. <<Target, lutSlot[Target]>> \in tables
    BY ClientAssumption DEF IInv, ClientInv, ReadsWereTrue, Owners
  <2>2. out' = IF <<Target, snap.oracleLut>> \in tables
               THEN <<QueueTable, [owner |-> Target, slot |-> snap.oracleLut]>>
               ELSE <<QueueTable>>
    BY DEF ReadOracleLut
  <2>3. out'[1] = QueueTable /\ QueueTable' = QueueTable
    BY <1>1, <2>2 DEF QueueTable
  <2>4. Target \notin touched =>
          out' = <<QueueTable, [owner |-> Target, slot |-> lutSlot[Target]]>>
    BY <1>1, <2>1, <2>2
  <2> QED
    BY <1>2, <2>3, <2>4 DEF RewardLutsComplete
<1>7. OutInv'
  BY <1>1, <1>2, <1>6 DEF OutInv, SubsidyListsOneQueue, InstructionOfOneRead, SyncNamesQueueTable
<1> QED
  BY <1>3, <1>4, <1>5, <1>7 DEF IInv, ClientInv

\* A future of "luts" that moves on, or ends.
LEMMA FutureIInv ==
  ASSUME IInv, pc = "join", UNCHANGED <<pc, snap, out>>, NEW i \in DOMAIN got, NEW f \in Futures,
         got' = [got EXCEPT ![i] = f], UNCHANGED <<chain, changes, seen, touched, call, attempts,
                                                   faults, allowed>>
  PROVE  IInv'
<1>1. UNCHANGED <<keys, oracle, lutSlot, tables, now>>
  BY DEF chain
<1>2. got \in [DOMAIN snap.keys -> Futures] /\ call = "luts"
  BY DEF IInv, GotInv, StageInv
<1>3. /\ snap \in Snapshots /\ Len(snap.keys) \in Nat /\ DOMAIN snap.keys = 1 .. Len(snap.keys)
  BY KeySequences DEF IInv, ClientInv, TypeOK, DataInv
<1>4. got' \in [DOMAIN snap.keys -> Futures]
  BY <1>2
<1>5. Len(got') = Len(snap.keys)
  BY <1>3, <1>4, LenProperties, IsASeq
<1>6. TypeOK' /\ DataInv'
  BY <1>1, <1>3, <1>5 DEF IInv, ClientInv, TypeOK, DataInv
<1>7. StageInv' /\ HeldInv' /\ GotInv' /\ TableInv'
  BY <1>1, <1>2, <1>4 DEF StageInv, HeldInv, GotInv, TableInv
<1>8. ReadsWereTrue'
  BY <1>1 DEF IInv, ClientInv, ReadsWereTrue
<1>9. OutInv'
  BY NoResultYet
<1> QED
  BY <1>6, <1>7, <1>8, <1>9 DEF IInv, ClientInv

\* The two awaits of a future.
LEMMA AwaitIInv ==
  ASSUME IInv, NEW i \in DOMAIN got, ReadOracleOf(i) \/ ReadLutOf(i)
  PROVE  IInv'
<1>1. /\ pc = "join" /\ UnchangedChain /\ UNCHANGED <<pc, snap, out, lost>>
      /\ got \in [DOMAIN snap.keys -> Futures] /\ i \in DOMAIN snap.keys
  BY DEF ReadOracleOf, ReadLutOf, IInv, GotInv
<1>2. snap.keys[i] \in Owners
  BY <1>1, KeySequences, ElementOfSeq DEF IInv, DataInv, Snapshots, Owners
<1>3. lutSlot[snap.keys[i]] \in LutSlots
  BY <1>2 DEF IInv, ClientInv, TypeOK
<1>4. got[i].lut \in LutSlots \cup {NoTable}
  BY <1>1 DEF Futures
<1>5. PICK f \in Futures : got' = [got EXCEPT ![i] = f]
  <2>1. CASE ReadOracleOf(i)
    <3> DEFINE f == IF Exact(snap.keys[i]) THEN [at |-> "table", lut |-> lutSlot[snap.keys[i]]]
                    ELSE [at |-> "done", lut |-> NoTable]
    <3>1. f \in Futures
      BY <1>3 DEF Futures
    <3>2. got' = [got EXCEPT ![i] = f]
      BY <2>1 DEF ReadOracleOf
    <3> QED
      BY <3>1, <3>2
  <2>2. CASE ReadLutOf(i)
    <3> DEFINE f == [at |-> "done",
                     lut |-> IF <<snap.keys[i], got[i].lut>> \in tables THEN got[i].lut ELSE NoTable]
    <3>1. f \in Futures
      BY <1>4 DEF Futures
    <3>2. got' = [got EXCEPT ![i] = f]
      BY <2>2 DEF ReadLutOf
    <3> QED
      BY <3>1, <3>2
  <2> QED
    BY <2>1, <2>2
<1> QED
  BY <1>1, <1>5, FutureIInv DEF UnchangedChain

\* The tables that the futures have brought.
LEMMA JoinIInv == ASSUME IInv, Join PROVE IInv'
<1>1. /\ pc = "join" /\ pc' = "done" /\ UnchangedChain /\ UNCHANGED <<snap, got, lost>>
      /\ call = "luts"
  BY DEF Join, IInv, StageInv
<1>2. UNCHANGED <<keys, oracle, lutSlot, tables, seen, touched, call>>
  BY <1>1 DEF UnchangedChain, chain
<1>3. TypeOK' /\ DataInv'
  <2>1. Len(got') <= Len(snap'.keys) /\ snap' \in Snapshots
    BY <1>1 DEF IInv, ClientInv, TypeOK, DataInv
  <2> QED
    BY <1>1, <2>1, ClientTypes DEF Stages
<1>4. StageInv' /\ HeldInv' /\ GotInv' /\ TableInv'
  BY <1>1, <1>2 DEF StageInv, HeldInv, GotInv, TableInv
<1>5. ReadsWereTrue'
  BY <1>1, <1>2 DEF IInv, ClientInv, ReadsWereTrue
<1>6. OutInv'
  BY <1>1, <1>2 DEF OutInv, SubsidyListsOneQueue, InstructionOfOneRead, SyncNamesQueueTable,
       RewardLutsComplete
<1> QED
  BY <1>3, <1>4, <1>5, <1>6 DEF IInv, ClientInv

\* A failed request ends the attempt, a future, or the call without the
\* oracle's table.
LEMMA FaultIInv == ASSUME IInv, RequestFails PROVE IInv'
<1>1. UNCHANGED <<chain, changes, seen, touched, call, attempts, allowed, snap>>
  BY DEF RequestFails
<1>2. UNCHANGED <<keys, oracle, lutSlot, tables, now>>
  BY <1>1 DEF chain
<1>3. CASE pc' = "failed" /\ faults' = faults + 1 /\ UNCHANGED got
  <2>1. faults' \in Nat
    BY <1>3 DEF IInv, DataInv
  <2> QED
    BY <1>1, <1>3, <2>1, FailedIInv
<1>4. CASE /\ pc = "oracleLut" /\ pc' = "done" /\ out' = <<QueueTable>>
           /\ lost' = lost \cup {Target} /\ UNCHANGED <<got, faults>>
  <2>1. call = "rewardLuts"
    BY <1>4 DEF IInv, StageInv
  <2>2. TypeOK' /\ DataInv'
    BY <1>1, <1>2, <1>4 DEF IInv, ClientInv, TypeOK, DataInv, Stages
  <2>3. StageInv' /\ HeldInv' /\ GotInv' /\ TableInv'
    BY <1>1, <1>4, <2>1 DEF StageInv, HeldInv, GotInv, TableInv
  <2>4. ReadsWereTrue'
    BY <1>1, <1>2, <1>4 DEF IInv, ClientInv, ReadsWereTrue
  <2>5. OutInv'
    BY <1>1, <1>4, <2>1 DEF OutInv, SubsidyListsOneQueue, InstructionOfOneRead,
         SyncNamesQueueTable, RewardLutsComplete, QueueTable
  <2> QED
    BY <2>2, <2>3, <2>4, <2>5 DEF IInv, ClientInv
<1>5. CASE pc = "join" /\ UNCHANGED <<pc, out, faults>>
           /\ \E i \in DOMAIN got : got' = [got EXCEPT ![i] = [at |-> "done", lut |-> NoTable]]
  <2>1. PICK i \in DOMAIN got : got' = [got EXCEPT ![i] = [at |-> "done", lut |-> NoTable]]
    BY <1>5
  <2>2. [at |-> "done", lut |-> NoTable] \in Futures
    BY DEF Futures
  <2> QED
    BY <1>1, <1>5, <2>1, <2>2, FutureIInv
<1> QED
  BY <1>3, <1>4, <1>5 DEF RequestFails

\* Another attempt starts from the present, with nothing of the last one.
LEMMA RetryIInv == ASSUME IInv, Retry PROVE IInv'
<1>1. /\ pc' = FirstStage[call'] /\ snap' = NothingRead /\ got' = <<>> /\ call' = call
      /\ attempts > 1 /\ attempts' = attempts - 1
      /\ seen' = [keys |-> {keys}, oracle |-> [k \in Oracles |-> {oracle[k]}]]
      /\ UNCHANGED <<keys, oracle, lutSlot, tables, now, changes, faults, allowed>>
  BY DEF Retry, Restart, MayRetry, chain
<1>2. oracle \in [Oracles -> Accounts] /\ keys \in KeySeqs
  BY DEF IInv, ClientInv, TypeOK
<1>3. /\ seen' \in Histories /\ keys' \in seen'.keys
      /\ \A k \in Oracles : oracle'[k] \in seen'.oracle[k]
  BY <1>1, <1>2 DEF Histories
<1>4. snap' \in Snapshots
  <2>1. 0 \in LutSlots
    BY ClientAssumption DEF LutSlots
  <2> QED
    BY <1>1, <2>1, KeySequences DEF NothingRead, Snapshots, Accounts
<1>5. DataInv'
  BY <1>1, <1>3, <1>4 DEF IInv, DataInv
<1>6. FreshInv'
  BY <1>1, <1>5, NextAttempt DEF Fresh, NothingRead
<1>7. TypeOK'
  <2>1. attempts' \in 0 .. allowed'
    BY <1>1 DEF IInv, ClientInv, TypeOK, DataInv
  <2> QED
    BY <1>1, <1>6, <2>1 DEF IInv, ClientInv, TypeOK, FreshInv
<1>8. ReadsWereTrue'
  BY <1>1, <1>3, <1>6 DEF IInv, ClientInv, ReadsWereTrue, FreshInv
<1> QED
  BY <1>5, <1>6, <1>7, <1>8 DEF IInv, ClientInv, FreshInv

\* Every step preserves the invariant.
LEMMA NextIInv == IInv /\ [Next]_vars => IInv'
<1> SUFFICES ASSUME IInv, [Next]_vars PROVE IInv'
  OBVIOUS
<1>1. CASE ChainNext
  BY <1>1, ChainIInv
<1>2. CASE Proceed
  BY <1>2, StateIInv, QueueIInv, OraclesIInv, OracleIInv, TargetIInv, BuildIInv, QueueLutIInv,
     OracleLutIInv, AwaitIInv, JoinIInv, RetryIInv DEF Proceed
<1>3. CASE RequestFails
  BY <1>3, FaultIInv
<1>4. CASE UNCHANGED vars
  <2>1. UNCHANGED <<keys, oracle, lutSlot, tables, now, changes, call, attempts, pc, snap, got, out,
                    seen, touched, lost, faults, allowed>>
    BY <1>4 DEF vars, chain, client, history
  <2>2. DataInv' /\ TypeOK' /\ ReadsWereTrue'
    BY <2>1 DEF IInv, ClientInv, DataInv, TypeOK, ReadsWereTrue
  <2>3. StageInv' /\ HeldInv' /\ GotInv' /\ TableInv'
    BY <2>1 DEF IInv, StageInv, HeldInv, GotInv, TableInv
  <2>4. OutInv'
    BY <2>1 DEF IInv, OutInv, SubsidyListsOneQueue, InstructionOfOneRead, SyncNamesQueueTable,
         RewardLutsComplete, QueueTable
  <2> QED
    BY <2>2, <2>3, <2>4 DEF IInv, ClientInv
<1> QED
  BY <1>1, <1>2, <1>3, <1>4 DEF Next, ClientNext

-----------------------------------------------------------------------------
(***************************************************************************)
(* The theorems.                                                           *)
(***************************************************************************)

\* What a call has read is something the chain held at an instant of its attempt,
\* an instruction always has the account it needs, and the current table of
\* every owner exists.
THEOREM ClientInvariance == Spec => []ClientInv
<1>1. IInv => ClientInv
  BY DEF IInv
<1> QED
  BY <1>1, InitIInv, NextIInv, PTL DEF Spec

\* However the queue and its oracles change between the requests of
\* QueuePaySubsidy::build_ix, the oracles it lists are those of the queue at one
\* instant, and each goes with an operator it had.
THEOREM SubsidyOfOneInstant == Spec => []SubsidyListsOneQueue
<1>1. IInv => SubsidyListsOneQueue
  BY DEF IInv, OutInv
<1> QED
  BY <1>1, InitIInv, NextIInv, PTL DEF Spec

\* An instruction about one oracle takes all it needs from one version of the
\* oracle's account, and an index is that of the oracle in one version of the queue.
THEOREM OneReadPerInstruction == Spec => []InstructionOfOneRead
<1>1. IInv => InstructionOfOneRead
  BY DEF IInv, OutInv
<1> QED
  BY <1>1, InitIInv, NextIInv, PTL DEF Spec

\* OracleSyncLut names a table of the oracle's queue, its current one unless the
\* queue was touched after it was read.
THEOREM SyncTable == Spec => []SyncNamesQueueTable
<1>1. IInv => SyncNamesQueueTable
  BY DEF IInv, OutInv
<1> QED
  BY <1>1, InitIInv, NextIInv, PTL DEF Spec

\* QueuePayReward::fetch_luts leaves the oracle's table out only if it was closed
\* under the read or a request failed.
THEOREM RewardTables == Spec => []RewardLutsComplete
<1>1. IInv => RewardLutsComplete
  BY DEF IInv, OutInv
<1> QED
  BY <1>1, InitIInv, NextIInv, PTL DEF Spec

\* Time only passes.
LEMMA ClockAdvances ==
  ASSUME IInv, [Next]_vars
  PROVE  now \in Nat /\ now' \in Nat /\ now <= now'
<1>1. now \in Nat
  BY DEF IInv, DataInv
<1>2. CASE Tick
  BY <1>1, <1>2 DEF Tick
<1>3. CASE RotateQueue \/ (\E k \in Oracles : ChangeOracle(k))
           \/ (\E o \in Owners : ResetLut(o) \/ CloseLut(o))
  BY <1>1, <1>3 DEF RotateQueue, ChangeOracle, ResetLut, CloseLut, Change
<1>4. CASE ClientNext \/ UNCHANGED vars
  <2>1. UNCHANGED chain
    BY <1>4 DEF ClientNext, Proceed, ReadState, ReadQueue, ReadOracles, ReadOracle, ReadTarget,
         BuildIx, ReadQueueLut, ReadOracleLut, ReadOracleOf, ReadLutOf, Join, Retry, Restart,
         RequestFails, UnchangedChain, vars
  <2> QED
    BY <1>1, <2>1 DEF chain
<1> QED
  BY <1>2, <1>3, <1>4 DEF Next, ChainNext

\* An oracle account that was read becomes verified by no lapse of time.
THEOREM HeldAccountExpires == Spec => HeldAccountOnlyExpires
<1> DEFINE A == call = "verified" /\ pc = "done" =>
                  /\ is_verified(snap.oracle, now') => is_verified(snap.oracle, now)
                  /\ snap.oracle.status = 8 => is_verified(snap.oracle, now')
<1>1. IInv /\ [Next]_vars => [A]_vars
  <2> SUFFICES ASSUME IInv, [Next]_vars, call = "verified", pc = "done"
               PROVE  /\ is_verified(snap.oracle, now') => is_verified(snap.oracle, now)
                      /\ snap.oracle.status = 8 => is_verified(snap.oracle, now')
    OBVIOUS
  <2>1. now \in Nat /\ now' \in Nat /\ now <= now'
    BY ClockAdvances
  <2>2. snap.oracle \in Accounts /\ fetch_zerocopy_account_async(snap.oracle)
    BY DEF IInv, HeldInv, ClientInv, ReadsWereTrue, DataInv, Snapshots
  <2>3. snap.oracle.until \in Nat
    BY <2>2, ReadableAccounts
  <2> QED
    BY <2>1, <2>3 DEF is_verified
<1> QED
  BY <1>1, InitIInv, NextIInv, PTL DEF Spec, HeldAccountOnlyExpires

-----------------------------------------------------------------------------
(***************************************************************************)
(* Failed requests and attempts.                                           *)
(***************************************************************************)

\* What a call reads is there.
AccountsThere ==
    /\ call = "subsidy" => \A i \in DOMAIN keys : Exact(keys[i])
    /\ call = "collect" => \E i \in DOMAIN keys : keys[i] = Target
    /\ call \in {"verified", "rewards", "rewardLuts", "sync", "resetLut", "heartbeatV2", "fetch",
                 "fetchSync", "borsh"} => Exact(Target)

\* While nothing changes the tables are the first ones and the keys that were
\* read are the queue's; and then every attempt that has ended, the present one
\* included, was ended by a failed request.
RetryInv ==
    changes = 0 =>
        /\ lutSlot = [o \in Owners |-> 0] /\ tables = {<<o, 0>> : o \in Owners} /\ snap.lut = 0
        /\ call = "subsidy" /\ pc = "each" => snap.keys = keys
        /\ call = "collect" /\ pc = "build" => snap.keys = keys
        /\ AccountsThere => faults = allowed - attempts + (IF pc = "failed" THEN 1 ELSE 0)

\* Nothing has failed before the first request.
LEMMA InitRetry == Init => RetryInv
<1> SUFFICES ASSUME Init PROVE RetryInv
  OBVIOUS
<1>1. pc \in {"state", "queue", "oracle", "build"} /\ (call = "collect" => pc = "queue")
  BY FirstStages DEF Init, FirstStage
<1>2. allowed \in Nat
  BY ClientAssumption DEF Init
<1>3. snap.lut = 0
  BY DEF Init, NothingRead
<1> QED
  BY <1>1, <1>2, <1>3 DEF Init, RetryInv

\* A step of the client that ends no attempt and begins none.
LEMMA GoesOn ==
  ASSUME RetryInv, UNCHANGED <<chain, changes, call, attempts, faults, allowed>>,
         pc # "failed", pc' # "failed", changes = 0 => snap'.lut = 0,
         call = "subsidy" /\ pc' = "each" => snap'.keys = keys \/ (pc = "each" /\ UNCHANGED snap),
         call = "collect" /\ pc' = "build" => snap'.keys = keys \/ (pc = "build" /\ UNCHANGED snap)
  PROVE  RetryInv'
<1>1. UNCHANGED <<keys, oracle, lutSlot, tables, now>>
  BY DEF chain
<1>2. AccountsThere' <=> AccountsThere
  BY <1>1 DEF AccountsThere, Exact
<1> QED
  BY <1>1, <1>2 DEF RetryInv

\* An attempt that a failed request ends.
LEMMA AttemptLost ==
  ASSUME IInv, RetryInv, UNCHANGED <<chain, changes, call, attempts, allowed, snap>>,
         pc # "failed", pc' = "failed", faults' = faults + 1
  PROVE  RetryInv'
<1>1. UNCHANGED <<keys, oracle, lutSlot, tables, now>>
  BY DEF chain
<1>2. AccountsThere' <=> AccountsThere
  BY <1>1 DEF AccountsThere, Exact
<1>3. faults \in Nat /\ attempts \in Nat /\ allowed \in Nat
  BY DEF IInv, ClientInv, TypeOK, DataInv
<1> QED
  BY <1>1, <1>2, <1>3 DEF RetryInv

\* While nothing changes, a request that is answered ends no attempt of a call
\* whose accounts are there.
LEMMA NoOtherFailure ==
  ASSUME RetryInv, UnchangedChain, UNCHANGED snap, pc' = "failed",
         changes = 0 => ~ AccountsThere
  PROVE  RetryInv'
<1>1. UNCHANGED <<keys, oracle, lutSlot, tables, now, changes, call>>
  BY DEF UnchangedChain, chain
<1>2. AccountsThere' <=> AccountsThere
  BY <1>1 DEF AccountsThere, Exact
<1> QED
  BY <1>1, <1>2 DEF RetryInv

\* Every step of the client preserves the count of the attempts.
LEMMA ClientRetry == ASSUME IInv, RetryInv, ClientNext PROVE RetryInv'
<1> USE DEF UnchangedChain
<1>1. CASE ReadState
  <2>1. pc = "state" /\ pc' \in {"build", "oracle", "queue"} /\ (pc' = "build" => call = "heartbeat")
    BY <1>1 DEF ReadState, IInv, StageInv
  <2> QED
    BY <1>1, <2>1, GoesOn DEF ReadState, RetryInv
<1>2. CASE ReadQueue
  <2>1. snap' = [snap EXCEPT !.keys = keys, !.lut = lutSlot[QueueRead]] /\ pc = "queue"
    BY <1>2 DEF ReadQueue
  <2>2. snap \in Snapshots
    BY DEF IInv, DataInv
  <2>3. QueueRead \in Owners
    <3>1. call = "sync" => fetch_zerocopy_account_async(snap.oracle) /\ snap.oracle \in Accounts
      BY <2>1, <2>2 DEF IInv, HeldInv, ClientInv, ReadsWereTrue, Snapshots
    <3> QED
      BY <3>1, ReadableAccounts DEF QueueRead, Owners, Queues
  <2>4. snap'.keys = keys /\ (changes = 0 => snap'.lut = 0)
    BY <2>1, <2>2, <2>3 DEF Snapshots, RetryInv
  <2>5. pc' \in {"oracles", "each", "queueLut", "build"}
    BY <1>2, <2>1 DEF ReadQueue, AfterQueue, IInv, StageInv
  <2> QED
    BY <1>2, <2>1, <2>4, <2>5, GoesOn DEF ReadQueue
<1>3. CASE ReadOracles
  BY <1>3, GoesOn DEF ReadOracles, RetryInv
<1>4. CASE ReadOracle
  <2> DEFINE i == Len(got) + 1
  <2>1. /\ pc = "each" /\ i \in DOMAIN snap.keys /\ call = "subsidy" /\ UnchangedChain
        /\ UNCHANGED snap
        /\ \/ Exact(snap.keys[i]) /\ UNCHANGED pc
           \/ ~ Exact(snap.keys[i]) /\ pc' = "failed"
    BY <1>4 DEF ReadOracle, IInv, StageInv
  <2> HIDE DEF i
  <2>2. CASE UNCHANGED pc
    BY <2>1, <2>2, GoesOn DEF RetryInv
  <2>3. CASE ~ Exact(snap.keys[i]) /\ pc' = "failed"
    <3>1. changes = 0 => ~ AccountsThere
      BY <2>1, <2>3 DEF RetryInv, AccountsThere
    <3> QED
      BY <2>1, <2>3, <3>1, NoOtherFailure
  <2> QED
    BY <2>1, <2>2, <2>3
<1>5. CASE ReadTarget
  <2>1. /\ pc = "oracle" /\ UnchangedChain
        /\ call \in {"verified", "sync", "rewardLuts", "rewards", "resetLut", "heartbeatV2",
                     "fetch", "fetchSync", "borsh"}
    BY <1>5 DEF ReadTarget, IInv, StageInv
  <2>2. CASE TargetFetched
    <3>1. snap' = [snap EXCEPT !.oracle = oracle[Target], !.oracleLut = lutSlot[Target]]
      BY <1>5, <2>2 DEF ReadTarget
    <3>2. snap'.lut = snap.lut
      BY <3>1 DEF IInv, DataInv, Snapshots
    <3>3. pc' \in {"done", "queue", "oracleLut", "build"}
      BY <1>5, <2>1, <2>2 DEF ReadTarget
    <3> QED
      BY <2>1, <3>2, <3>3, GoesOn DEF RetryInv
  <2>3. CASE ~ TargetFetched
    <3>1. ~ Exact(Target)
      BY <2>3 DEF TargetFetched, Exact, fetch_zerocopy_account, fetch_zerocopy_account_async,
         fetch_zerocopy_account_sync, fetch_borsh_account, try_deserialize, try_deserialize_unchecked
    <3>2. ~ AccountsThere
      BY <2>1, <3>1 DEF AccountsThere
    <3> QED
      BY <1>5, <2>1, <2>3, <3>2, NoOtherFailure DEF ReadTarget
  <2> QED
    BY <2>2, <2>3
<1>6. CASE BuildIx
  <2>1. UnchangedChain /\ UNCHANGED snap /\ pc \in {"each", "build"}
    BY <1>6 DEF BuildIx
  <2>2. CASE pc' = "done"
    BY <2>1, <2>2, GoesOn DEF RetryInv
  <2>3. CASE pc' = "failed"
    <3>1. pc = "build" /\ call = "collect" /\ \A i \in DOMAIN snap.keys : snap.keys[i] # Target
      BY <1>6, <2>3 DEF BuildIx
    <3>2. changes = 0 => ~ AccountsThere
      BY <3>1 DEF RetryInv, AccountsThere
    <3> QED
      BY <2>1, <2>3, <3>2, NoOtherFailure
  <2> QED
    BY <1>6, <2>2, <2>3 DEF BuildIx
<1>7. CASE ReadQueueLut
  <2>1. UnchangedChain /\ UNCHANGED snap /\ pc = "queueLut"
        /\ call \in {"luts", "rewardLuts", "queueLut"}
    BY <1>7 DEF ReadQueueLut, IInv, StageInv
  <2>2. CASE <<QueueId, snap.lut>> \notin tables
    <3>1. changes # 0
      BY <2>2 DEF RetryInv, Owners, Queues
    <3>2. pc' = "failed"
      BY <1>7, <2>2 DEF ReadQueueLut
    <3> QED
      BY <2>1, <3>1, <3>2, NoOtherFailure
  <2>3. CASE <<QueueId, snap.lut>> \in tables
    <3>1. pc' \in {"join", "oracle", "done"}
      BY <1>7, <2>1, <2>3 DEF ReadQueueLut
    <3> QED
      BY <2>1, <3>1, GoesOn DEF RetryInv
  <2> QED
    BY <2>2, <2>3
<1>8. CASE ReadOracleLut \/ Join
  BY <1>8, GoesOn DEF ReadOracleLut, Join, RetryInv
<1>9. CASE \E i \in DOMAIN got : ReadOracleOf(i) \/ ReadLutOf(i)
  BY <1>9, GoesOn DEF ReadOracleOf, ReadLutOf, RetryInv
<1>10. CASE RequestFails
  <2>1. UNCHANGED <<chain, changes, call, attempts, allowed, snap>> /\ pc # "failed"
    BY <1>10 DEF RequestFails
  <2>2. \/ pc' = "failed" /\ faults' = faults + 1
        \/ pc' \in {"done", "join"} /\ UNCHANGED faults
    BY <1>10 DEF RequestFails
  <2> QED
    BY <2>1, <2>2, AttemptLost, GoesOn DEF RetryInv
<1>11. CASE Retry
  <2>1. /\ UNCHANGED <<keys, oracle, lutSlot, tables, now, changes, call, faults, allowed>>
        /\ pc = "failed" /\ attempts' = attempts - 1 /\ pc' = FirstStage[call]
        /\ snap' = NothingRead
    BY <1>11 DEF Retry, Restart, chain
  <2>2. call \in Calls /\ attempts \in Nat /\ allowed \in Nat /\ faults \in Nat
    BY DEF IInv, ClientInv, TypeOK, DataInv
  <2>3. pc' \in {"state", "queue", "oracle", "build"} /\ (call = "collect" => pc' = "queue")
    BY <2>1, <2>2, FirstStages DEF FirstStage
  <2>4. snap'.lut = 0
    BY <2>1 DEF NothingRead
  <2>5. AccountsThere' <=> AccountsThere
    BY <2>1 DEF AccountsThere, Exact
  <2> QED
    BY <2>1, <2>2, <2>3, <2>4, <2>5 DEF RetryInv
<1> QED
  BY <1>1, <1>2, <1>3, <1>4, <1>5, <1>6, <1>7, <1>8, <1>9, <1>10, <1>11 DEF ClientNext, Proceed

\* A change of the chain is counted, and the count is all it needs.
LEMMA NextRetry == IInv /\ RetryInv /\ [Next]_vars => RetryInv'
<1> SUFFICES ASSUME IInv, RetryInv, [Next]_vars PROVE RetryInv'
  OBVIOUS
<1>1. CASE ChainNext
  <2>1. Evolves
    BY <1>1, ChainEvolves DEF IInv
  <2>2. UNCHANGED <<call, attempts, pc, snap, faults, allowed>>
    BY <2>1 DEF Evolves, client
  <2>3. changes' = 0 => UNCHANGED <<keys, oracle, lutSlot, tables, changes>>
    BY <2>1 DEF Evolves
  <2> QED
    BY <2>2, <2>3 DEF RetryInv, AccountsThere, Exact
<1>2. CASE ClientNext
  BY <1>2, ClientRetry
<1>3. CASE UNCHANGED vars
  BY <1>3 DEF vars, chain, client, history, RetryInv, AccountsThere, Exact
<1> QED
  BY <1>1, <1>2, <1>3 DEF Next

\* While nothing on the chain changes and what a call reads is there, retry! gives
\* up only after failed requests have ended as many attempts as it was told to
\* make, and at least one.
THEOREM RetrySurvives == Spec => []SurvivesFaults
<1>1. IInv /\ RetryInv => SurvivesFaults
  <2> SUFFICES ASSUME IInv, RetryInv, GivenUp, changes = 0, AccountsThere
               PROVE  faults >= 1 /\ faults >= allowed
    BY DEF SurvivesFaults, AccountsThere
  <2>1. attempts \in 0 .. allowed /\ allowed \in Nat /\ attempts <= 1
    BY DEF IInv, ClientInv, TypeOK, DataInv, GivenUp, MayRetry
  <2>2. faults = allowed - attempts + 1
    BY DEF RetryInv, GivenUp
  <2> QED
    BY <2>1, <2>2
<1>2. Init => IInv /\ RetryInv
  BY InitIInv, InitRetry
<1>3. IInv /\ RetryInv /\ [Next]_vars => (IInv /\ RetryInv)'
  BY NextIInv, NextRetry
<1> QED
  BY <1>1, <1>2, <1>3, PTL DEF Spec
-----------------------------------------------------------------------------
(***************************************************************************)
(* Signers.                                                                *)
(***************************************************************************)

\* The instruction that build_ix makes of one oracle, of a queue, or of its
\* arguments alone asks for the signatures the property lists.
LEMMA BuiltSigners ==
  ASSUME IInv, pc = "build", out' = Instruction, UnchangedChain
  PROVE  PayerSignsAndPays'
<1>1. UNCHANGED <<seen, call>> /\ call \notin {"subsidy"}
  BY DEF UnchangedChain, IInv, StageInv
<1>2. ASSUME call \in {"sync", "resetLut"}
      PROVE  snap.oracle \in seen.oracle[Target] \ {NoAccount}
  BY <1>2 DEF IInv, ClientInv, ReadsWereTrue
<1>3. CASE call = "sync"
  <2>1. out' = SyncLutIx
    BY <1>3 DEF Instruction
  <2> QED
    BY <1>1, <1>2, <1>3, <2>1
       DEF PayerSignsAndPays, MetasOfOut, OracleSyncLutMetas, Metas, Payer, SyncLutIx, OracleOfIx
<1>4. CASE call = "resetLut"
  <2>1. out' = ResetLutIx
    BY <1>4 DEF Instruction
  <2> QED
    BY <1>1, <1>2, <1>4, <2>1
       DEF PayerSignsAndPays, MetasOfOut, OracleResetLutMetas, Metas, Payer, ResetLutIx,
           ResetLutPayer, OracleOfIx
<1>5. CASE call = "heartbeat"
  <2>1. out' = HeartbeatIx
    BY <1>5 DEF Instruction
  <2> QED
    BY <1>1, <1>5, <2>1
       DEF PayerSignsAndPays, MetasOfOut, OracleHeartbeatMetas, Metas, Payer, HeartbeatIx
<1>6. CASE call = "heartbeatV2"
  <2>1. out' = HeartbeatV2Ix
    BY <1>6 DEF Instruction
  <2> QED
    BY <1>1, <1>6, <2>1
       DEF PayerSignsAndPays, MetasOfOut, OracleHeartbeatV2Metas, Metas, Payer, HeartbeatV2Ix
<1>7. CASE call = "rewards"
  <2>1. out' = PayRewardIx
    BY <1>7 DEF Instruction
  <2> QED
    BY <1>1, <1>7, <2>1
       DEF PayerSignsAndPays, MetasOfOut, QueuePayRewardMetas, Metas, Payer, PayRewardIx
<1>8. CASE call = "collect"
  <2>1. out' = GarbageCollectIx
    BY <1>8 DEF Instruction
  <2> QED
    BY <1>1, <1>8, <2>1
       DEF PayerSignsAndPays, MetasOfOut, QueueGarbageCollectMetas, Metas, GarbageCollectIx
<1>9. CASE call = "queueReset"
  <2>1. out' = QueueResetIx
    BY <1>9 DEF Instruction
  <2> QED
    BY <1>1, <1>9, <2>1
       DEF PayerSignsAndPays, MetasOfOut, QueueResetLutMetas, Metas, Payer, QueueResetIx
<1>10. CASE call = "verifyQuote"
  <2>1. out' = VerifyQuoteIx
    BY <1>10 DEF Instruction
  <2> QED
    BY <1>1, <1>10, <2>1
       DEF PayerSignsAndPays, MetasOfOut, GuardianQuoteVerifyMetas, Metas, VerifyQuoteIx
<1>11. CASE call = "setConfigs"
  <2>1. out' = SetConfigsIx
    BY <1>11 DEF Instruction
  <2> QED
    BY <1>1, <1>11, <2>1
       DEF PayerSignsAndPays, MetasOfOut, OracleSetConfigsMetas, Metas, SetConfigsIx
<1>12. CASE call = "permission"
  <2>1. out' = PermissionIx
    BY <1>12 DEF Instruction
  <2> QED
    BY <1>1, <1>12, <2>1
       DEF PayerSignsAndPays, MetasOfOut, AttestationPermissionSetMetas, Metas, PermissionIx
<1> QED
  BY <1>3, <1>4, <1>5, <1>6, <1>7, <1>8, <1>9, <1>10, <1>11, <1>12 DEF IInv, StageInv

\* The instruction for all the oracles of a queue is signed by the payer alone.
LEMMA SubsidySigners ==
  ASSUME call' = "subsidy"
  PROVE  PayerSignsAndPays'
BY DEF PayerSignsAndPays, MetasOfOut, QueuePaySubsidyMetas, Metas, Payer

\* Only BuildIx makes an instruction.
LEMMA NextSigners == IInv /\ PayerSignsAndPays /\ [Next]_vars => PayerSignsAndPays'
<1> SUFFICES ASSUME IInv, PayerSignsAndPays, [Next]_vars PROVE PayerSignsAndPays'
  OBVIOUS
<1>1. ASSUME pc' # "done" PROVE PayerSignsAndPays'
  BY <1>1 DEF PayerSignsAndPays
<1>2. ASSUME pc = "done", UNCHANGED <<pc, call, out, seen>> PROVE PayerSignsAndPays'
  BY <1>2 DEF PayerSignsAndPays, MetasOfOut, Payer
<1>3. ASSUME call' \in {"oracles", "many", "verified", "fetch", "fetchSync", "borsh", "queueLut",
                       "rewardLuts", "luts"}
      PROVE  PayerSignsAndPays'
  BY <1>3 DEF PayerSignsAndPays, FirstStage
<1>4. CASE ChainNext
  <2>1. Evolves
    BY <1>4, ChainEvolves DEF IInv
  <2> QED
    BY <1>1, <1>2, <2>1 DEF Evolves, client
<1>5. CASE BuildIx
  <2>1. UnchangedChain /\ call' = call
    BY <1>5 DEF BuildIx, UnchangedChain
  <2>2. CASE pc = "each"
    BY <2>1, <2>2, SubsidySigners DEF IInv, StageInv
  <2>3. CASE pc = "build" /\ out' = Instruction
    BY <2>1, <2>3, BuiltSigners
  <2> QED
    BY <1>1, <1>5, <2>2, <2>3 DEF BuildIx
<1>6. CASE ReadState \/ ReadQueue \/ ReadOracle
  BY <1>1, <1>6 DEF ReadState, ReadQueue, AfterQueue, ReadOracle, IInv, StageInv
<1>7. CASE ReadOracles \/ ReadQueueLut \/ ReadOracleLut \/ Join
  <2>1. call' \in {"oracles", "many", "queueLut", "rewardLuts", "luts"}
    BY <1>7 DEF ReadOracles, ReadQueueLut, ReadOracleLut, Join, UnchangedChain, IInv, StageInv
  <2> QED
    BY <1>3, <2>1
<1>8. CASE ReadTarget
  <2>1. \/ pc' # "done"
        \/ call' \in {"verified", "fetch", "fetchSync", "borsh"}
    BY <1>8 DEF ReadTarget, UnchangedChain, IInv, StageInv
  <2> QED
    BY <1>1, <1>3, <2>1
<1>9. CASE \E i \in DOMAIN got : ReadOracleOf(i) \/ ReadLutOf(i)
  BY <1>1, <1>9 DEF ReadOracleOf, ReadLutOf
<1>10. CASE RequestFails
  <2>1. pc' # "done" \/ (pc = "oracleLut" /\ call' = call)
    BY <1>10 DEF RequestFails
  <2> QED
    BY <1>1, <1>3, <2>1 DEF IInv, StageInv
<1>11. CASE Retry
  <2>1. call \in Calls /\ pc' = FirstStage[call]
    BY <1>11 DEF Retry, Restart, IInv, DataInv
  <2> QED
    BY <1>1, <2>1, FirstStages
<1>12. CASE UNCHANGED vars
  BY <1>1, <1>2, <1>12 DEF vars, client, history
<1> QED
  BY <1>4, <1>5, <1>6, <1>7, <1>8, <1>9, <1>10, <1>11, <1>12 DEF Next, ClientNext, Proceed

\* The payer of every instruction signs it and is writable, and of an oracle's
\* accounts only its authority and the keys in the arguments ever have to sign.
THEOREM PayerSigns == Spec => []PayerSignsAndPays
<1>1. Init => PayerSignsAndPays
  BY FirstStages DEF Init, PayerSignsAndPays
<1> QED
  BY <1>1, InitIInv, NextIInv, NextSigners, PTL DEF Spec

-----------------------------------------------------------------------------
(***************************************************************************)
(* What is kept of a sequence.                                             *)
(***************************************************************************)

\* The place in s of each element that is kept: in order, and none left out.
IsPlacement(place, s, places) ==
    LET n == Cardinality(places) IN
    /\ n \in Nat /\ place \in [1 .. n -> places]
    /\ \A i \in places : \E k \in 1 .. n : place[k] = i
    /\ \A k, l \in 1 .. n : k < l => place[k] < place[l]
    /\ Kept(s, places) = [k \in 1 .. n |-> s[place[k]]]

\* Keeping finitely many elements keeps them in order, each of them.
LEMMA KeptInOrder ==
  ASSUME NEW s, NEW places, places \subseteq Nat, IsFiniteSet(places)
  PROVE  \E place : IsPlacement(place, s, places)
<1> DEFINE Order == {p \in places \X places : p[1] < p[2]}
           rank == Rank(Order, places)
           n == Cardinality(places)
           Before(i) == {j \in places : j < i}
           place == [k \in 1 .. n |-> CHOOSE i \in places : Cardinality(Before(i)) = k - 1]
<1>1. IsStrictOrder(Order, places)
  BY DEF IsStrictOrder
<1>2. \A i, j \in places : <<i, j>> \in Order <=> i < j
  OBVIOUS
<1>3. \A i \in places : rank[i] = Cardinality(Before(i))
  <2> HIDE DEF Order
  <2> SUFFICES ASSUME NEW i \in places PROVE rank[i] = Cardinality(Before(i))
    OBVIOUS
  <2>1. {j \in places : <<j, i>> \in Order} = Before(i)
    BY <1>2
  <2>2. rank[i] = Cardinality({j \in places : <<j, i>> \in Order})
    BY DEF Rank
  <2> QED
    BY <2>1, <2>2
<1> HIDE DEF Order
<1>4. /\ n \in Nat /\ rank \in [places -> 0 .. n - 1]
      /\ \A k \in 0 .. n - 1 : \E i \in places : rank[i] = k
      /\ \A i, j \in places : <<i, j>> \in Order <=> rank[i] < rank[j]
  BY <1>1, RankIsPlace
<1> HIDE DEF n, rank
<1>5. Kept(s, places) = [k \in 1 .. n |-> s[place[k]]]
  BY DEF Kept, n
<1>6. ASSUME NEW k \in 1 .. n PROVE place[k] \in places /\ rank[place[k]] = k - 1
  <2> HIDE DEF Before
  <2>1. k - 1 \in 0 .. n - 1
    BY <1>4
  <2>2. \E i \in places : Cardinality(Before(i)) = k - 1
    BY <1>3, <1>4, <2>1
  <2>3. place[k] = CHOOSE i \in places : Cardinality(Before(i)) = k - 1
    OBVIOUS
  <2>4. place[k] \in places /\ Cardinality(Before(place[k])) = k - 1
    BY <2>2, <2>3
  <2> QED
    BY <1>3, <2>4
<1>7. place \in [1 .. n -> places]
  BY <1>6
<1> HIDE DEF place
<1>8. ASSUME NEW k \in 1 .. n, NEW l \in 1 .. n, k < l PROVE place[k] < place[l]
  <2>1. rank[place[k]] < rank[place[l]] /\ place[k] \in places /\ place[l] \in places
    BY <1>4, <1>6, <1>8
  <2> QED
    BY <1>2, <1>4, <2>1
<1>9. ASSUME NEW i \in places PROVE \E k \in 1 .. n : place[k] = i
  <2>1. rank[i] + 1 \in 1 .. n /\ (rank[i] + 1) - 1 = rank[i] /\ rank[i] \in 0 .. n - 1
    BY <1>4
  <2> DEFINE k == rank[i] + 1
  <2>2. k \in 1 .. n /\ place[k] \in places /\ rank[place[k]] = rank[i]
    BY <1>6, <2>1
  <2>3. ~ (rank[place[k]] < rank[i]) /\ ~ (rank[i] < rank[place[k]])
    BY <2>1, <2>2
  <2>4. ~ (place[k] < i) /\ ~ (i < place[k])
    BY <1>2, <1>4, <2>2, <2>3
  <2>5. place[k] = i
    <3>1. place[k] \in Nat /\ i \in Nat
      BY <2>2
    <3> QED
      BY <2>4, <3>1
  <2> QED
    BY <2>2, <2>5
<1>10. IsPlacement(place, s, places)
  BY <1>4, <1>5, <1>7, <1>8, <1>9 DEF IsPlacement, n
<1> QED
  BY <1>10

\* Keeping all of them changes nothing.
LEMMA KeptWhole ==
  ASSUME NEW s, NEW n \in Nat
  PROVE  Kept(s, 1 .. n) = [k \in 1 .. n |-> s[k]]
<1> DEFINE Before(i) == {j \in 1 .. n : j < i}
<1>1. Cardinality(1 .. n) = n
  <2>1. CASE n = 0
    BY <2>1, FS_EmptySet, 1 .. 0 = {}
  <2>2. CASE n # 0
    BY <2>2, FS_Interval, 1 \in Int, n \in Int, ~ (1 > n), n - 1 + 1 = n
  <2> QED
    BY <2>1, <2>2
<1>2. \A i \in 1 .. n : Cardinality(Before(i)) = i - 1
  <2> SUFFICES ASSUME NEW i \in 1 .. n PROVE Cardinality(Before(i)) = i - 1
    OBVIOUS
  <2>1. Before(i) = 1 .. i - 1
    OBVIOUS
  <2>2. CASE i = 1
    BY <2>1, <2>2, FS_EmptySet, 1 .. 0 = {}
  <2>3. CASE i # 1
    <3>1. 1 \in Int /\ i - 1 \in Int /\ ~ (1 > i - 1) /\ (i - 1) - 1 + 1 = i - 1
      BY <2>3
    <3>2. Cardinality(1 .. i - 1) = i - 1
      BY <3>1, FS_Interval
    <3> QED
      BY <2>1, <3>2
  <2> QED
    BY <2>2, <2>3
<1> HIDE DEF Before
<1>3. \A k \in 1 .. n : (CHOOSE i \in 1 .. n : Cardinality(Before(i)) = k - 1) = k
  <2> SUFFICES ASSUME NEW k \in 1 .. n
               PROVE  (CHOOSE i \in 1 .. n : Cardinality(Before(i)) = k - 1) = k
    OBVIOUS
  <2>1. \A i \in 1 .. n : Cardinality(Before(i)) = k - 1 <=> i = k
    BY <1>2
  <2> QED
    BY <2>1
<1>4. Kept(s, 1 .. n) = [k \in 1 .. n |-> s[CHOOSE i \in 1 .. n : Cardinality(Before(i)) = k - 1]]
  BY <1>1 DEF Kept, Before
<1> QED
  BY <1>3, <1>4

-----------------------------------------------------------------------------
(***************************************************************************)
(* Oracles that are readable all along.                                    *)
(***************************************************************************)

\* The answer of get_multiple_accounts, taken at one instant, has every oracle
\* that was readable at all instants.
LEMMA NextPairs == IInv /\ PairsOfReadableOracles /\ [Next]_vars => PairsOfReadableOracles'
<1> SUFFICES ASSUME IInv, PairsOfReadableOracles, [Next]_vars PROVE PairsOfReadableOracles'
  OBVIOUS
<1>1. ASSUME pc' # "done" PROVE PairsOfReadableOracles'
  BY <1>1 DEF PairsOfReadableOracles
<1>2. ASSUME pc = "done", UNCHANGED <<pc, call, out, seen, snap>> PROVE PairsOfReadableOracles'
  BY <1>2 DEF PairsOfReadableOracles
<1>3. ASSUME call' \notin {"oracles", "many"} PROVE PairsOfReadableOracles'
  BY <1>3 DEF PairsOfReadableOracles
<1>4. CASE ChainNext
  <2>1. Evolves
    BY <1>4, ChainEvolves DEF IInv
  <2> QED
    BY <1>1, <1>2, <2>1 DEF Evolves, client
<1>5. CASE ReadOracles
  <2>1. UNCHANGED <<snap, seen, call, keys, oracle>> /\ call \in {"oracles", "many"}
    BY <1>5 DEF ReadOracles, UnchangedChain, chain, IInv, StageInv
  <2>2. /\ snap.keys \in KeySeqs /\ Len(snap.keys) \in Nat
        /\ DOMAIN snap.keys = 1 .. Len(snap.keys)
        /\ snap.keys = [i \in DOMAIN snap.keys |-> snap.keys[i]]
    BY KeySequences DEF IInv, DataInv, Snapshots, KeySeqs
  <2> DEFINE ks == snap.keys
             n == Len(snap.keys)
  <2>3. SUFFICES ASSUME \A i \in DOMAIN ks : \A a \in seen.oracle[ks[i]] : IsOracle(a)
                 PROVE  /\ call = "oracles" =>
                             out' = [i \in DOMAIN ks |-> [key |-> ks[i], data |-> ks[i]]]
                        /\ call = "many" => out' = ks
    BY <2>1 DEF PairsOfReadableOracles
  <2>4. \A i \in DOMAIN ks : Readable(ks[i])
    <3> SUFFICES ASSUME NEW i \in DOMAIN ks PROVE Readable(ks[i])
      OBVIOUS
    <3>1. ks[i] \in Oracles
      BY <2>2, KeySequences, ElementOfSeq
    <3>2. oracle[ks[i]] \in seen.oracle[ks[i]]
      BY <3>1 DEF IInv, ClientInv, ReadsWereTrue
    <3> QED
      BY <2>3, <3>2 DEF Readable
  <2> DEFINE datas == Kept(ks, {i \in DOMAIN ks : Readable(ks[i])})
  <2>5. out' = IF call = "oracles" THEN Zip(ks, datas) ELSE datas
    BY <1>5 DEF ReadOracles
  <2>6. {i \in DOMAIN ks : Readable(ks[i])} = 1 .. n
    BY <2>2, <2>4
  <2>7. datas = [i \in 1 .. n |-> ks[i]]
    <3>1. datas = Kept(ks, 1 .. n) /\ n \in Nat
      BY <2>2, <2>6
    <3> HIDE DEF datas, ks, n
    <3> QED
      BY <3>1, KeptWhole
  <2> HIDE DEF datas, ks, n
  <2>8. datas = ks
    BY <2>2, <2>7 DEF ks, n
  <2>9. Zip(ks, datas) = [i \in DOMAIN ks |-> [key |-> ks[i], data |-> ks[i]]]
    BY <2>2, <2>8 DEF Zip, ks, n
  <2> QED
    BY <2>5, <2>8, <2>9
<1>6. CASE ReadState \/ ReadQueue \/ ReadOracle
  BY <1>1, <1>6 DEF ReadState, ReadQueue, AfterQueue, ReadOracle, IInv, StageInv
<1>7. CASE BuildIx \/ ReadQueueLut \/ ReadOracleLut \/ Join \/ ReadTarget
  <2>1. call' \notin {"oracles", "many"}
    BY <1>7 DEF BuildIx, ReadQueueLut, ReadOracleLut, Join, ReadTarget, UnchangedChain,
       IInv, StageInv
  <2> QED
    BY <1>3, <2>1
<1>8. CASE \E i \in DOMAIN got : ReadOracleOf(i) \/ ReadLutOf(i)
  BY <1>1, <1>8 DEF ReadOracleOf, ReadLutOf
<1>9. CASE RequestFails
  <2>1. pc' # "done" \/ (pc = "oracleLut" /\ call' = call)
    BY <1>9 DEF RequestFails
  <2> QED
    BY <1>1, <1>3, <2>1 DEF IInv, StageInv
<1>10. CASE Retry
  <2>1. call \in Calls /\ pc' = FirstStage[call]
    BY <1>10 DEF Retry, Restart, IInv, DataInv
  <2>2. call' \in {"oracles", "many"} => pc' # "done"
    BY <1>10, <2>1 DEF Retry, Restart, FirstStage
  <2> QED
    BY <1>1, <1>3, <2>2
<1>11. CASE UNCHANGED vars
  BY <1>1, <1>2, <1>11 DEF vars, client, history
<1> QED
  BY <1>4, <1>5, <1>6, <1>7, <1>8, <1>9, <1>10, <1>11 DEF Next, ClientNext, Proceed

\* While every oracle of the queue that was read stays readable, fetch_oracles
\* pairs each with its own key, in the queue's order, for a queue of any length.
THEOREM ReadablePairs == Spec => []PairsOfReadableOracles
<1>1. Init => PairsOfReadableOracles
  BY FirstStages DEF Init, PairsOfReadableOracles
<1> QED
  BY <1>1, InitIInv, NextIInv, NextPairs, PTL DEF Spec

-----------------------------------------------------------------------------
(***************************************************************************)
(* Lookup tables of oracles that nothing touches.                          *)
(***************************************************************************)

\* A future that has read the slot of such an oracle has read the current one,
\* and has fetched the table, unless the oracle could not be read or a request
\* for it has failed.
FutureInv ==
    pc = "join" =>
        \A m \in DOMAIN snap.keys :
            snap.keys[m] \notin touched =>
                /\ got[m].at = "table" => got[m].lut = lutSlot[snap.keys[m]]
                /\ got[m].at = "done" /\ snap.keys[m] \notin lost /\ Exact(snap.keys[m]) =>
                      got[m].lut = lutSlot[snap.keys[m]]

LEMMA NextFutures == IInv /\ FutureInv /\ [Next]_vars => FutureInv'
<1> SUFFICES ASSUME IInv, FutureInv, [Next]_vars, pc' = "join" PROVE FutureInv'
  BY DEF FutureInv
<1>1. /\ snap \in Snapshots /\ \A m \in DOMAIN snap.keys : snap.keys[m] \in Oracles
      /\ \A m \in DOMAIN snap.keys : snap.keys[m] \in Owners
  BY KeySequences, ElementOfSeq DEF IInv, DataInv, Snapshots, Owners
<1>2. CASE ChainNext
  <2>1. Evolves /\ UNCHANGED <<pc, snap, got, lost>>
    BY <1>2, ChainEvolves DEF IInv, Evolves, client
  <2> SUFFICES ASSUME NEW m \in DOMAIN snap.keys, snap.keys[m] \notin touched'
               PROVE  /\ got[m].at = "table" => got[m].lut = lutSlot'[snap.keys[m]]
                      /\ got[m].at = "done" /\ snap.keys[m] \notin lost /\ Exact(snap.keys[m])' =>
                            got[m].lut = lutSlot'[snap.keys[m]]
    BY <2>1 DEF FutureInv, Exact
  <2>2. /\ snap.keys[m] \notin touched /\ lutSlot'[snap.keys[m]] = lutSlot[snap.keys[m]]
        /\ oracle'[snap.keys[m]] = oracle[snap.keys[m]]
    BY <1>1, <2>1 DEF Evolves
  <2>3. Exact(snap.keys[m])' <=> Exact(snap.keys[m])
    BY <2>1, <2>2 DEF Exact
  <2> QED
    BY <2>1, <2>2, <2>3 DEF FutureInv
<1>3. CASE ReadQueueLut
  <2>1. UNCHANGED snap /\ got' = [i \in DOMAIN snap.keys |-> [at |-> "account", lut |-> NoTable]]
    <3>1. call \in {"luts", "rewardLuts", "queueLut"}
      BY <1>3 DEF ReadQueueLut, IInv, StageInv
    <3> QED
      BY <1>3, <3>1 DEF ReadQueueLut
  <2> QED
    BY <2>1 DEF FutureInv
<1>4. ASSUME NEW i \in DOMAIN got, ReadOracleOf(i) PROVE FutureInv'
  <2>1. /\ pc = "join" /\ UNCHANGED <<snap, lost, touched, lutSlot, oracle>>
        /\ got \in [DOMAIN snap.keys -> Futures]
        /\ got' = [got EXCEPT ![i] = IF Exact(snap.keys[i])
                                     THEN [at |-> "table", lut |-> lutSlot[snap.keys[i]]]
                                     ELSE [at |-> "done", lut |-> NoTable]]
    BY <1>4 DEF ReadOracleOf, UnchangedChain, chain, IInv, GotInv
  <2>2. \A k : Exact(k)' <=> Exact(k)
    BY <2>1 DEF Exact
  <2> QED
    BY <2>1, <2>2 DEF FutureInv
<1>5. ASSUME NEW i \in DOMAIN got, ReadLutOf(i) PROVE FutureInv'
  <2>1. /\ pc = "join" /\ UNCHANGED <<snap, lost, touched, lutSlot, oracle>>
        /\ got \in [DOMAIN snap.keys -> Futures] /\ got[i].at = "table"
        /\ got' = [got EXCEPT ![i] =
                     [at |-> "done",
                      lut |-> IF <<snap.keys[i], got[i].lut>> \in tables THEN got[i].lut
                              ELSE NoTable]]
    BY <1>5 DEF ReadLutOf, UnchangedChain, chain, IInv, GotInv
  <2>2. \A k : Exact(k)' <=> Exact(k)
    BY <2>1 DEF Exact
  <2>3. \A m \in DOMAIN snap.keys : <<snap.keys[m], lutSlot[snap.keys[m]]>> \in tables
    BY <1>1 DEF IInv, ClientInv, ReadsWereTrue
  <2> QED
    BY <2>1, <2>2, <2>3 DEF FutureInv
<1>6. CASE RequestFails
  <2>1. /\ pc = "join" /\ UNCHANGED <<snap, touched, lutSlot, oracle>>
        /\ got \in [DOMAIN snap.keys -> Futures]
        /\ \E i \in DOMAIN got : /\ got' = [got EXCEPT ![i] = [at |-> "done", lut |-> NoTable]]
                                 /\ lost' = lost \cup {snap.keys[i]}
    BY <1>6 DEF RequestFails, chain, IInv, GotInv
  <2>2. \A k : Exact(k)' <=> Exact(k)
    BY <2>1 DEF Exact
  <2> QED
    BY <2>1, <2>2 DEF FutureInv
<1>7. CASE UNCHANGED vars
  BY <1>7 DEF vars, chain, client, history, FutureInv, Exact
<1>8. ASSUME ReadState \/ ReadQueue \/ ReadOracles \/ ReadOracle \/ ReadTarget \/ BuildIx
             \/ ReadOracleLut \/ Join \/ Retry
      PROVE  FALSE
  <2>1. CASE Retry
    <3>1. call \in Calls /\ pc' = FirstStage[call]
      BY <2>1 DEF Retry, Restart, IInv, DataInv
    <3> QED
      BY <3>1, FirstStages
  <2>2. CASE ReadState \/ ReadQueue \/ ReadOracle \/ ReadTarget
    BY <2>2 DEF ReadState, ReadQueue, AfterQueue, ReadOracle, ReadTarget, IInv, StageInv
  <2>3. CASE ReadOracles \/ BuildIx \/ ReadOracleLut \/ Join
    BY <2>3 DEF ReadOracles, BuildIx, ReadOracleLut, Join
  <2> QED
    BY <1>8, <2>1, <2>2, <2>3
<1> QED
  BY <1>2, <1>3, <1>4, <1>5, <1>6, <1>7, <1>8 DEF Next, ClientNext, Proceed

\* What join_all has brought: the tables in the order of the keys, those of
\* untouched oracles among them, and the queue's own last.
LEMMA JoinedLuts ==
  ASSUME IInv, FutureInv, Join
  PROVE  LutsOfUntouchedOracles'
<1> DEFINE ks == snap.keys
           n == Len(snap.keys)
           luts == [i \in DOMAIN got |-> [owner |-> ks[i], slot |-> got[i].lut]]
           places == {i \in DOMAIN got : got[i].lut # NoTable}
           kept == Kept(luts, places)
           c == Cardinality(places)
<1>1. /\ pc = "join" /\ UNCHANGED <<snap, lost, touched, lutSlot, oracle, call>>
      /\ \A i \in DOMAIN got : got[i].at = "done"
      /\ got \in [DOMAIN ks -> Futures]
  BY DEF Join, UnchangedChain, chain, IInv, GotInv
<1>2. out' = Append(kept, QueueTable) /\ QueueTable' = QueueTable
  BY <1>1 DEF Join, QueueTable
<1>3. n \in Nat /\ DOMAIN ks = 1 .. n /\ \A i \in DOMAIN ks : ks[i] \in Oracles
  BY KeySequences, ElementOfSeq DEF IInv, DataInv, Snapshots
<1>4. DOMAIN got = 1 .. n
  BY <1>1, <1>3
<1>5. places \in SUBSET (1 .. n) /\ places \subseteq Nat
  BY <1>4
<1>6. IsFiniteSet(places)
  <2>1. IsFiniteSet(1 .. n)
    BY <1>3, FS_Interval, 1 \in Int, n \in Int
  <2> HIDE DEF places
  <2> QED
    BY <1>5, <2>1, FS_Subset
<1>7. \A i \in places : luts[i] = [owner |-> ks[i], slot |-> got[i].lut]
  OBVIOUS
<1> HIDE DEF luts, places
<1>8. PICK place : IsPlacement(place, luts, places)
  BY <1>5, <1>6, KeptInOrder
<1>9. /\ c \in Nat /\ \A k \in 1 .. c : place[k] \in places
      /\ \A i \in places : \E k \in 1 .. c : place[k] = i
      /\ \A k, l \in 1 .. c : k < l => place[k] < place[l]
      /\ kept = [k \in 1 .. c |-> luts[place[k]]]
  BY <1>8 DEF IsPlacement
<1> HIDE DEF kept, c
<1>10. /\ DOMAIN out' = 1 .. c + 1 /\ Len(out') = c + 1 /\ out'[c + 1] = QueueTable
       /\ \A k \in 1 .. c : out'[k] = kept[k]
  <2> DEFINE Any == {kept[k] : k \in 1 .. c}
  <2>1. kept \in [1 .. c -> Any]
    BY <1>9
  <2>2. kept \in Seq(Any \cup {QueueTable}) /\ Len(kept) = c
    <3> DEFINE All == Any \cup {QueueTable}
    <3>1. kept \in [1 .. c -> All]
      BY <2>1
    <3> HIDE DEF All
    <3>2. kept \in Seq(All)
      BY <1>9, <3>1, IsASeq
    <3>3. Len(kept) = c
      BY <1>9, <3>1, <3>2, LenProperties
    <3> QED
      BY <3>2, <3>3 DEF All
  <2> HIDE DEF Any
  <2> QED
    BY <1>2, <1>9, <2>2, AppendProperties
<1>11. \A k \in 1 .. c : out'[k] = [owner |-> ks[place[k]], slot |-> got[place[k]].lut]
  BY <1>7, <1>9, <1>10
<1>12. ASSUME NEW i \in 1 .. c, NEW j \in 1 .. c, i < j
       PROVE  \E k, l \in DOMAIN ks : k < l /\ ks[k] = out'[i].owner /\ ks[l] = out'[j].owner
  <2>1. place[i] < place[j] /\ place[i] \in DOMAIN ks /\ place[j] \in DOMAIN ks
    BY <1>3, <1>5, <1>9, <1>12
  <2>2. ks[place[i]] = out'[i].owner /\ ks[place[j]] = out'[j].owner
    <3> HIDE DEF ks
    <3>1. out'[i] = [owner |-> ks[place[i]], slot |-> got[place[i]].lut]
      BY <1>11
    <3>2. out'[j] = [owner |-> ks[place[j]], slot |-> got[place[j]].lut]
      BY <1>11
    <3> QED
      BY <3>1, <3>2
  <2> QED
    BY <2>1, <2>2
<1>13. ASSUME NEW k \in DOMAIN ks, ks[k] \notin touched \cup lost, Exact(ks[k])
       PROVE  \E i \in DOMAIN out' : out'[i] = [owner |-> ks[k], slot |-> lutSlot[ks[k]]]
  <2>1. got[k].lut = lutSlot[ks[k]]
    BY <1>1, <1>3, <1>4, <1>13 DEF FutureInv
  <2>2. lutSlot[ks[k]] \in LutSlots
    BY <1>3, <1>13 DEF IInv, ClientInv, TypeOK, Owners
  <2>3. k \in places
    BY <1>3, <1>4, <2>1, <2>2, ClientAssumption DEF places, LutSlots
  <2>4. PICK i \in 1 .. c : place[i] = k
    BY <1>9, <2>3
  <2>5. out'[i] = [owner |-> ks[k], slot |-> lutSlot[ks[k]]] /\ i \in DOMAIN out'
    BY <1>9, <1>10, <1>11, <2>1, <2>4
  <2> QED
    BY <2>5
<1>14. \A k : Exact(k)' <=> Exact(k)
  BY <1>1 DEF Exact
<1>15. (c + 1) - 1 = c
  BY <1>9
<1>16. SUFFICES /\ out'[Len(out')] = QueueTable'
                /\ \A i, j \in 1 .. Len(out') - 1 :
                     i < j => \E k, l \in DOMAIN ks :
                                k < l /\ ks[k] = out'[i].owner /\ ks[l] = out'[j].owner
                /\ \A k \in DOMAIN ks : ks[k] \notin touched \cup lost /\ Exact(ks[k]) =>
                      \E i \in DOMAIN out' : out'[i] = [owner |-> ks[k], slot |-> lutSlot[ks[k]]]
  BY <1>1, <1>14 DEF LutsOfUntouchedOracles
<1> HIDE DEF ks
<1> QED
  BY <1>2, <1>10, <1>12, <1>13, <1>15

LEMMA NextLuts == IInv /\ FutureInv /\ LutsOfUntouchedOracles /\ [Next]_vars => LutsOfUntouchedOracles'
<1> SUFFICES ASSUME IInv, FutureInv, LutsOfUntouchedOracles, [Next]_vars
             PROVE  LutsOfUntouchedOracles'
  OBVIOUS
<1>1. ASSUME pc' # "done" PROVE LutsOfUntouchedOracles'
  BY <1>1 DEF LutsOfUntouchedOracles
<1>2. ASSUME pc = "done", UNCHANGED <<pc, call, out, snap, lost, touched, oracle, lutSlot>>
      PROVE  LutsOfUntouchedOracles'
  BY <1>2 DEF LutsOfUntouchedOracles, QueueTable, Exact
<1>3. ASSUME call' # "luts" PROVE LutsOfUntouchedOracles'
  BY <1>3 DEF LutsOfUntouchedOracles
<1>4. CASE ChainNext
  <2>1. Evolves
    BY <1>4, ChainEvolves DEF IInv
  <2> QED
    BY <1>1, <1>2, <2>1 DEF Evolves, client
<1>5. CASE Join
  BY <1>5, JoinedLuts
<1>6. CASE ReadState \/ ReadQueue \/ ReadOracle
  BY <1>1, <1>6 DEF ReadState, ReadQueue, AfterQueue, ReadOracle, IInv, StageInv
<1>7. CASE BuildIx \/ ReadOracleLut \/ ReadOracles \/ ReadTarget
  <2>1. call' # "luts"
    BY <1>7 DEF BuildIx, ReadOracleLut, ReadOracles, ReadTarget, UnchangedChain, IInv, StageInv
  <2> QED
    BY <1>3, <2>1
<1>8. CASE ReadQueueLut
  BY <1>1, <1>3, <1>8 DEF ReadQueueLut, UnchangedChain, IInv, StageInv
<1>9. CASE \E i \in DOMAIN got : ReadOracleOf(i) \/ ReadLutOf(i)
  BY <1>1, <1>9 DEF ReadOracleOf, ReadLutOf
<1>10. CASE RequestFails
  <2>1. pc' # "done" \/ (pc = "oracleLut" /\ call' = call)
    BY <1>10 DEF RequestFails
  <2> QED
    BY <1>1, <1>3, <2>1 DEF IInv, StageInv
<1>11. CASE Retry
  <2>1. call \in Calls /\ pc' = FirstStage[call]
    BY <1>11 DEF Retry, Restart, IInv, DataInv
  <2> QED
    BY <1>1, <2>1, FirstStages
<1>12. CASE UNCHANGED vars
  BY <1>1, <1>2, <1>12 DEF vars, chain, client, history
<1> QED
  BY <1>4, <1>5, <1>6, <1>7, <1>8, <1>9, <1>10, <1>11, <1>12 DEF Next, ClientNext, Proceed

\* fetch_luts returns the queue's table last, and before it the tables of oracles
\* in the queue's order, with that of each oracle that nothing has touched, however
\* many futures there are and in whatever order they end.
THEOREM LutsInOrder == Spec => []LutsOfUntouchedOracles
<1>1. Init => FutureInv /\ LutsOfUntouchedOracles
  BY FirstStages DEF Init, FutureInv, LutsOfUntouchedOracles
<1>2. IInv /\ (FutureInv /\ LutsOfUntouchedOracles) /\ [Next]_vars
      => (FutureInv /\ LutsOfUntouchedOracles)'
  BY NextFutures, NextLuts
<1> QED
  BY <1>1, <1>2, InitIInv, NextIInv, PTL DEF Spec
=============================================================================
