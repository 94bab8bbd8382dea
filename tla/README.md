# A formal model of the Switchboard Solana SDK

TLA+ modules for the parts of this crate whose correctness depends on what
happens between two calls: an oracle quote that is signed in one slot, stored
in another and verified in a third; a client that reads a queue and then its
oracles while both change; a builder that is filled in any order and turned
into a transaction in seven ways. The modules are model-checked with TLC on
small instances, and the central results are proved with TLAPS for every value
of the constants.

Source paths below are relative to `src/src/`. `PROJECT.json` gives, for every
definition that models code, the lines it stands for.

## The system

The crate is a library. Its on-chain half is linked into programs that consume
Switchboard data, and runs inside one instruction at a time; its client half
runs in a process that talks to an RPC node.

```
 oracles ──sign──> Ed25519 instruction ──precompile──> transaction
                                                          │ OracleQuote::write_from_ix
                                                          v
 SlotHashes, Clock, queue account ──────────────>  oracle account (quote)
              │                                           │
              └────────── QuoteVerifier::verify_account <─┘   (consumer)

 oracles ──submit──> pull feed account ──> PullFeedAccountData::get_value  (consumer)

 client: queue / oracle / lookup-table accounts ──RPC──> instruction builders
                                                             │
                                     TransactionBuilder <────┘──> RPC send
```

### Inventory

| component | state | operations | what is hard | what makes it correct |
|---|---|---|---|---|
| quote verifier (`on_demand/oracle_quote/quote_verifier.rs`) | none of its own; reads Clock, SlotHashes, queue, quote | `verify`, `verify_account`, `verify_delimited`, `verify_instruction_at` | runs any number of slots after signing and storing; only part of a quote is signed; the queue rotates in between | what it accepts was signed, by keys of the queue, about this chain and recently; it accepts what honest oracles produce |
| oracle quote account (`oracle_quote.rs`, `quote_account.rs`) | bytes of an account | `write`, `store_delimited`, `write_from_ix`, `validate_slot_progression` | the slot compared with is not where the quote was put; cranks race | the slot of the stored quote never goes back; new quotes get in |
| Ed25519 instruction (`sysvar/ed25519_sysvar.rs`, `ix_sysvar.rs`) | instruction data | precompile (external), `extract_ix_data`, `parse_instruction` | half of the index checks happen at write, half at verification | the bytes read are the bytes that were verified |
| SlotHashes and Clock (`sysvar/slothash_sysvar.rs`, `clock.rs`) | ring of 512 entries | `find_slothash_in_sysvar`, `get_slothash`, `get_slothash_from_lower_byte` | skipped slots; wrap of abbreviated slots | the searches agree and find what is recorded |
| packed quote layout (`oracle_quote/feed_info.rs`) | none | sizes and offsets | whether a quote fills its account | lengths agree between writer and reader |
| pull feed (`accounts/pull_feed.rs`, `types.rs`) | submissions | `get_value`, `lower_bound_median`, getters | liars, ageing, underflow, conversion to `Decimal` | an honest majority decides the value |
| queue and oracle discovery (`accounts/queue.rs`) | account data on chain | `fetch_async`, `fetch_oracles`, `fetch_lut`, `idx_of_oracle` | accounts change between requests | what is returned belongs together |
| oracle accounts (`accounts/oracle.rs`, `oracle_stats.rs`) | account data on chain | `new_from_bytes`, `fetch_async`, `fetch_lut`, `fetch_many`, `is_verified` | as above; expiry while an account is held | an account that was read does not become verified by waiting |
| queue subsidy instruction (`instructions/queue_pay_subsidy.rs`) | progress of a call | `build_ix`, `fetch_luts` | one await per oracle; a join of futures that may fail | one queue in one instruction; one failure does not take others along; it ends |
| transaction builder (`client/transaction_builder.rs`) | payer, instructions, signers, budgets, blockhash, tables | builder calls, seven conversions | any order of calls; payer stored, given or both; precedence of blockhashes | variants agree; what the instructions require suffices |
| client utilities (`client/utils.rs`) | none | `ix_to_tx`, `ix_to_tx_v0` with `estimate_compute_units`, the account fetchers, keys from files and environment | the simulated transaction is not the one that is sent | the limit covers what the transaction consumes; the fetchers refuse what is no account of the type |
| retry macros (`macros.rs`) | attempts | `retry!`, `blocking_retry!` | counting; state left by a failed attempt | as many attempts as allowed, each from the present |
| randomness (`accounts/randomness.rs`, `instructions/randomness_commit.rs`) | seed slot, reveal slot, value | commit, reveal (external), `get_value`, `is_revealable` | exact slot of a reading; reveals and commitments in that slot | no slot begins with a readable value; what becomes readable was drawn from the seed committed at that moment |
| other instruction builders (`instructions/*.rs`) | none | one `build_ix` each, some `fetch_luts` | those that read accounts before they derive addresses | addresses and fields fit one version of the state they come from; the right keys sign |
| decimal (`decimal.rs`) | none | `scale_to`, conversions | overflow, rounding | the value survives the change of scale |
| program state and table PDAs (`accounts/state.rs`, `sysvar/address_lookup_table.rs`, `utils.rs`) | none | address derivation | nothing changes | pure functions of hashes |
| errors, ids, traits, re-exports | none | none | none | none |

`PROJECT.json` lists these components with their status, and under `hazards`
every place where the code can go wrong in a way a unit test would hardly
reach, with the properties that watch it.

## Modules

| module | models |
|---|---|
| `SlotHashes` | Clock, SlotHashes and the three searches |
| `Randomness` | commitments, reveals and readers of a randomness account, composed with `SlotHashes` |
| `QuoteLayout` | the length of a quote's data |
| `QuoteAccount` | the account buffer and `OracleQuote::write` |
| `QuoteCell` | the abstract promise of `write`'s documentation, which `QuoteAccount` implements for filling quotes |
| `Ed25519Instruction` | precompile, `extract_ix_data`, `parse_instruction` as operators on signature entries |
| `QuoteVerifier` | composes clock, account and instruction with oracles, queue and crank; `verify` as an operator |
| `AttestedQuote` | the abstract promise of `verify_account`, which `QuoteVerifier` implements |
| `SwitchboardDecimal` | `scale_to`, the conversions and the order of `SwitchboardDecimal`, as operators |
| `PullFeed` | submissions, `get_value`, the getters of the stored result, and values that a program holds on to |
| `AccountReaders` | which contents of an account each reader accepts |
| `InstructionMetas` | the account lists of the instructions, as sets of signers, writable and named keys |
| `QueueClient` | twenty client calls over a chain that changes under them, with retries |
| `TransactionBuilder` | the builder and its conversions |
| `ClientTransactions` | `ix_to_tx`, `ix_to_tx_v0` and the estimate, over the builder |
| `*MC` | constants for TLC |
| `*Proofs` | theorems and proofs of the module they extend |
| `SetInduction` | lemmas on induction, recursion and ranks that the proofs share; models nothing |

### SlotHashes

`clock` and `sysvar` are the runtime's. `NewBank(s, f)` skips to any later slot
and pushes the parent's hash, so every pattern of skipped slots occurs. A hash
is the block it names (slot and fork); the zero hash that pads a young account
is told apart by `NoFork`. `FindSlothash` is the estimate
`(newest - target) % 512` followed by the backward scan, `GetSlothash` the
binary search (any matching index), `FromLowerByte` the abbreviated lookup. A
lookup yields a set of hashes, empty for an error. Slot 0 is left out of the
properties because padding carries that number too.

### Randomness

The account belongs to the Switchboard program, which is not in this
repository: `Commit` and `Reveal` are external, and modelled from the fields of
the account and from the accounts that `RandomnessCommit` hands over. A
commitment takes the newest entry of SlotHashes for its seed; a reveal stores
what the oracle drew from the seed, and the slot. Whether a commitment wipes the
last value is not the SDK's to say, so both happen. `get_value` and
`is_revealable` are the SDK's. A value is told apart by its seed.

### QuoteAccount and QuoteCell

`store_delimited` copies the quote to the *front* of the buffer, and
`validate_slot_progression` reads the old slot 13 bytes from its *end*. The
model keeps the quote at the front (`stored`) and the last 13 bytes as a number
(`tail`); `TailAfter` says what the copy leaves there, partial overlap included.
Sizes are the real ones; only the base of a byte is a constant. An assertion
that fails aborts the transaction, so it is a guard. `full`, the last quote that
filled the buffer, is a history variable.

### Ed25519Instruction, QuoteVerifier and AttestedQuote

An entry carries the key and message its offsets lead to and its three
instruction indexes. The precompile follows the indexes, the SDK reads its own
instruction; an entry that refers elsewhere therefore needs no signature over
the bytes the SDK reads. `WriteFromIx` is the crank's transaction: precompile,
`extract_ix_data`, `write`. Slot and oracle indexes behind the message are
unsigned and chosen freely. `Sign`, `RotateKey` and `Bank` are the environment.
The blocks of this chain are called `Own`: the name of a fork is arbitrary, and
oracles may sign blocks of another. Two messages at different places are told
apart by their content, and signatures are counted, as in the code, not the
distinct oracles behind them. Verification changes nothing, so `Verify` and
`VerifyAccount` are operators: every reachable state says what verification
would come to there.

`View` is what a consumer gets from `verify_account`: the message of the quote
and the keys behind it, or nothing. `AttestedQuote` says what that may be without
mention of quotes, indexes or checks: a message that trusted keys have attested,
over a recent block of this chain. A write or a change of the queue may show
another such message; a new slot may leave what is seen or take it away, never
show something. `ImplementsAttested` is the refinement, with `view <- View`,
`trusted` the keys of the queue and `chain` the hashes in SlotHashes.

### PullFeed and SwitchboardDecimal

`Land(p)` puts an oracle's submission in its place, with a slot no older than
its last one, and computes the stored result anew, as the comments of
`CurrentResult` describe it; `Liars` submit any value, also one that `Decimal`
cannot hold. A place stands for an oracle, which is no loss since the median does
not depend on the order of the array. The program that does so is external;
`get_value`, `value`, `valid_samples`, `current_result_samples`,
`current_result_ts_range` and the other getters are the SDK's and are operators,
so that every reachable state says what they would answer there. `checked` is the
build's choice between a panic and wrapping in `clock_slot - max_staleness` and in
the arithmetic of `scale_to`; it is fixed for a behaviour. `lower_bound_median`
names the element `numbers[len / 2]` of the sorted array by what puts it there:
`len / 2` others are smaller, or equal and before it, as the sort is stable.

A program may instead hold a value that it read before and change its scale any
number of times (`Rescale`, which is `new_with_scale`). `I128Max` is scaled down
with the rest, so that `10_i128.pow` overflows within the bound; `wild` remembers
that it has. `TenTo` is the power itself.

### QueueClient, AccountReaders and InstructionMetas

A behaviour is one of twenty client calls, listed in the module's head: the
fetchers, `build_ix` of every instruction and every `fetch_luts`. Each request is
one step and sees the chain of that moment; `ChainNext` changes queue, oracles and
tables between requests; `RequestFails` loses any of them. The futures of
`QueuePaySubsidy::fetch_luts` are interleaved in every order (`ReadOracleOf(i)`,
`ReadLutOf(i)`), and `Join` collects what they brought. `Kept` is a `filter_map`. A call that fails is made
again from the beginning while `retry!` has attempts left (`Retry`); the history
(`seen`, `touched`, `lost`) is that of the present attempt, and `faults` counts
the attempts that a failed request has ended. `AsksFor` says which accounts a call
may ask for: `Init` leaves out the others and `ChainNext` does not change them.

The content of an oracle account is a record of its length, its discriminator and
the fields an instruction takes from it, so that the readers of `AccountReaders`
tell accounts apart: `new_from_bytes` cuts off what follows, the others refuse it.
The result of a `build_ix` is a record of its account fields; `InstructionMetas`
turns that into the signers and the writable keys of the instruction.

### TransactionBuilder

One action per builder call, in any order; one operator per conversion, with
its error or its panic (`build_v0_tx` unwraps). `required_signers`
goes through the instructions' signers as the code's loops do and lists each key
the first time it is met. `TrySign` and `TryNew` are the
two ways the Solana SDK matches signers with a message. `min_context_slot` is
set and never read, and is left out. A lookup table is requested in one step: it
is added or, if it cannot be had, not, without an error. `ClientTransactions`
adds the functions that make a transaction without a builder; the units that
instructions consume are the runtime's, and a parameter of its operators.

## Runs

| run | shows | bounds, and why they are enough |
|---|---|---|
| `slothashes` | ordering and gap invariant; scan and binary search agree within a window; low bits resolve on both sides of their wrap; no slot begins with a readable randomness value, and what becomes readable in it was drawn from the seed committed then, over a block complete before the slot | 4 entries over 10 slots, low bits modulo 5: spans below, at and above the window and the modulus all occur; commitments and reveals in every order |
| `slothashes_skips` | **violation**: a recorded slot 512 or more below the newest is not found | as above |
| `account` | with quotes that fill the account and quotes that do not: `tail` is the trailer of the last filling quote, newer quotes are accepted where no quote ends in the buffer's last 13 bytes, filling quotes implement `QuoteCell`, and a filling quote is never followed by an older one | real sizes, one and two signatures, 7 slots, two versions; the account fits two signatures |
| `account_sdk` | **violation**: in the 1024-byte account an older quote replaces a newer one | the sizes of the SDK's own account |
| `account_stuck` | **violation**: newer quotes are refused for good behind one that ends in the buffer's last 13 bytes | the real 501 bytes of seven feeds signed once, in 512; bytes of base 2, so that the marker is 15 instead of 1146045011, ahead of all slots in either case |
| `verifier` | accepted quotes are signed by present keys; the unsigned slot is that of the signed block, on this chain, in time; honest quotes are accepted; what a consumer sees implements `AttestedQuote`, so that a refusal is final | two keys, two places, two signatures, one rotation, one stored quote, 5 slots over a window of 3: hashes age out, keys leave between write and verification, entries refer elsewhere. One write is enough because the account keeps only the last quote; the theorems cover any number |
| `client_calls` | pairs of readable oracles match; subsidy accounts are those of one queue; an instruction takes all it needs from one version of an account, and a table's address is that of a table of the right queue; tables of untouched accounts arrive; the right keys sign; retries make good as many failures as they should; a held account only expires; every call ends | two oracles, two changes, two attempts: a rotation and an account change can both fall between any two requests, and a change can follow a failure; 1.1 million states |
| `client_pairs` | **violation**: keys and accounts are mispaired behind an unreadable oracle | as above |
| `builder` | stored and given payer agree but for the blockhash where two are named; legacy and v0 agree on what can be signed; extra signers are harmless; storing a given payer changes nothing; lookup tables are added all or none and none is lost; the compute unit limit suffices if the simulation had no error | two keys, two blockhashes, so that builder and argument can name different ones, instructions asking for none, one and two signatures, up to two instructions with the limit of ten scaled to three, so overflow through budget instructions occurs; two tables; the real 150 units of a budget instruction, and costs on both sides of the margin and of the cap |
| `builder_signers` | **violation**: the required signers do not suffice | as above |
| `feed` | an honest majority decides the value; rank of the median; the stored result has a valid submission behind it and the samples that go with it; rescaling truncates and keeps the sign; what is stale stays so until something lands | four places, two liars, 4 slots beyond slot 0 with `max_staleness` 2, so a result can age out; ages 0 to 2: majorities, ties and minorities, even and odd counts; scales 0 to 5 around a precision of 2, with a word that powers of ten outgrow |
| `feed_median` | **violation**: the upper middle value is returned | as above |

`CHECK_DEADLOCK FALSE` is set throughout: behaviours end where the bound on
slots or changes is reached or when a call has returned.

### What the violations say

1. `find_slothash_in_sysvar` starts its scan at `(newest - target) % 512`. When
   slots were skipped the account spans more than 512 slots, and a recorded slot
   512 or more below the newest is missed. Consumers with `max_age` at most 512
   are not affected (`HonestAccepted`).
2. The slot compared in `write` is at the end of the buffer, so an account with
   room to spare, such as the 1024-byte `SwitchboardQuote` with the small quotes
   of the run, compares each quote with slot 0 (`RoomyAccountComparesWithZero`).
   An account that every quote fills exactly keeps the promise
   (`FilledAccountNeverRegresses`).
3. `fetch_oracles` filters the accounts and zips the rest with all the keys.
4. `required_signers` leaves out the payer; a builder that has its payer's signer
   stored but no instruction that names the payer fails with `SolanaSignError`
   in the legacy format and panics in the v0 format.
5. `lower_bound_median` takes `numbers[len / 2]`, the upper of the two in the
   middle.
6. A quote that ends 1 to 12 bytes before the end of the buffer leaves a part of
   its trailer where the next slot is compared. With seven feeds and one signature
   in 512 bytes that part is the marker `SBOD`, a number ahead of all slots, and
   the account takes no quote any more. `NeverRefusesNewer` is the promise without
   a condition, and `NewerQuoteAccepted` the same under `NoOverlap`, which is the
   condition and is proved enough (`NewerAccepted`).

### Differences noticed without a run

- `QuoteVerifier::new` leaves `max_age` at 0, and the newest recorded slot is always
  below the clock: no quote can pass, also not in the example of the type's
  documentation, which sets no `max_age`. This is proved
  (`DefaultMaxAgeAcceptsNothing`).
- A simulation that ended in an error still carries the units consumed up to there,
  and `estimate_compute_units` takes them for an estimate, where the comment at its
  call says "Default to 1.4M units if estimate fails". The model has such
  simulations (`Simulations`), and `ComputeLimitSuffices` leaves them out by a
  condition.
- `get_value` subtracts `max_staleness` from the clock without a check. While the
  clock is the smaller it panics, in a build with overflow checks, or wraps, so that
  nothing counts as recent and enough submissions are answered with
  `NotEnoughSamples`. Both builds are in the model; `HonestMajorityServed` and
  `StaleStaysStale` are about ages up to the clock.
- `transaction_builder.rs:408` comments "want this first so we unshift last",
  and the code pushes the price instruction behind the limit.
- The documentation example that calls `new(payer)` and then `to_legacy_tx`
  always ends in `SolanaPayerSignerMissing`.
- `is_result_vaild` (sic) accepts an empty result at a clock equal to `max_staleness`;
  `current_result_samples` can underflow on a feed without submissions, or where
  the last landing is younger than `max_staleness` slots; and after a landing with
  too few fresh samples its samples are not those of the stored result
  (`SamplesBehindResult` asks for enough of them).
- `OracleSyncLut::build_ix` and `OracleResetLut::build_ix` do not read
  `args.payer`; the accounts of `OracleResetLut` list the payer as no signer, which
  is harmless because the authority, who is the payer, signs (`PayerSignsAndPays`).
- `OracleSetConfigs::build_ix` sets `new_authority` to the authority that signs, so
  it cannot hand an oracle over.
- `find_lut_of` derives the table from the key it is given, and not, as the
  instructions do, from that key's `LutSigner`.
- `QueuePayReward::fetch_luts` puts the queue's table first,
  `QueuePaySubsidy::fetch_luts` puts it last.
- `new_from_bytes` cuts off what follows the type's bytes, while the fetchers and
  `try_deserialize` refuse a longer account: a later version of the program that
  grows its accounts is read by some functions and not by others.
- `ix_to_tx_v0` simulates with one budget instruction and sends two. The margin of
  1.4 makes up for that unless all the instructions together consume less than 225
  units: with a bare transfer of 150 the limit is 420 and the transaction consumes
  450. `ComputeLimitSuffices` states the condition.
- Where builder and argument both name a blockhash,
  `to_legacy_tx_with_payer_and_blockhash` takes the argument's and
  `to_legacy_tx_with_blockhash` the builder's. `PayerVariantsAgree` states this
  exception and that the transactions differ in nothing else.
- `SwitchboardDecimal` compares by value and tests for equality by field, so that
  two may be neither smaller nor larger and yet not equal. `10_i128.pow` wraps in a
  release build.
- A seed may be revealed again in a later slot, and its value, known by then, is
  readable there once more. `is_revealable` holds of an account that was never
  committed. After a commitment
  in the slot of a reveal, the value of the reveal stays readable for the rest of
  that slot unless the program wipes it.
- The `build_ix` of `QueueResetLut` is commented out.

## Fairness

`QueueClient` alone has a liveness property. `FairSpec` adds `WF_vars(Proceed)`:
a client step that can be taken is taken, because `RpcClient` answers or times
out, the executor polls a future whose request was answered, and the delay
between two attempts of `retry!` runs out. No request is assumed to fail, and
nothing is assumed of the chain. `CallEnds` then says that no call waits for an
account that has no operator or no table, and that retrying stops. The on-chain
handlers are single instructions and the builder is synchronous: they have no
progress to speak of.

## Proofs

| theorem | says |
|---|---|
| `SlotInvariance`, `SearchAgreement`, `LowBitsResolution` | the runs' invariants for every window, modulus and schedule |
| `AccountInvariance`, `AccountIsCell`, `NewerAccepted`, `FilledNeverRegresses` | under `NoOverlap`: no quote ends inside the last 13 bytes |
| `FilledAccountNeverRegresses` | under `ExactFit`: the documented progression |
| `RoomyAccountComparesWithZero` | under `Roomy`: the opposite |
| `VerifierInvariance`, `AcceptedAreSigned`, `AcceptedSlotsAreSigned`, `HonestAccepted`, `RefusalIsFinal`, `DefaultMaxAgeAcceptsNothing` | the verifier, for every queue, schedule and number of writes |
| `VerifierImplementsAttested` | under `MaxAge < WindowLen`: the verifier implements `AttestedQuote` |
| `NothingReadableAtFirst` | a randomness account, for every window, chain of banks and order of commitments and reveals |
| `ClientInvariance`, `SubsidyOfOneInstant`, `OneReadPerInstruction`, `SyncTable`, `RewardTables`, `HeldAccountExpires` | the calls of the client, for every queue and oracles, any number of changes between the requests and of attempts |
| `ReadablePairs`, `LutsInOrder` | what `fetch_oracles` and `QueuePaySubsidy::fetch_luts` return, for any number of oracles and any order of the futures |
| `RetrySurvives`, `PayerSigns` | when `retry!` gives up, and who signs |
| `BuilderInvariance`, `VariantsAgree`, `ExtraSigners`, `StoredPayer`, `TablesKept` | the builder, for every set of keys, instructions and tables and every limit |
| `FormatsSignAlike` | legacy and v0 transactions can be signed in the same cases, by the same keys, for every list of instructions |
| `OneShotAgrees`, `LimitSuffices` | `ix_to_tx` against the builder, its refusals included, and the limit of `ix_to_tx_v0` unless the simulation had an error, for every list of instructions and every cost |
| `FeedInvariance`, `FeedInvHolds`, `HonestMajorityDecides`, `ValueIsMedian` | the feed and its value, for any number of places, liars and recent submissions |
| `ValueBackedBySample`, `SamplesAreTheResults`, `WaitingDoesNotRefresh` | the getters of the stored result |
| `RescalingTruncates`, `RescalingStaysDecimal` | a value under any number of changes of scale, for every width of the integers |

- **SlotHashes.** The invariant is `GapInv`: entries `n` places apart are at
  least `n` slots apart. Order alone would not do: the scan's start is a
  distance in slots used as a place. From it, `EstimateIsDistance` (inside a
  window the modulus does nothing) and `NewestIsLargest` give `ScanIsSearch`.
- **QuoteAccount.** `WindowHoldsFull` ties `tail` to the last filling quote. Its
  induction needs `NoOverlap`, since a quote that ends inside the last 13 bytes
  leaves part of its trailer there; `TrailerDigits` and `FullWrite` are the
  arithmetic of the copy. The refinement mapping is `quote <- full`.
- **QuoteVerifier.** `StoredInv` remembers what the precompile and
  `extract_ix_data` established. It is needed because signature checks are never
  repeated: `ParsedEntriesAreSigned` combines the first entry's indexes, checked
  at write, with the later entries' agreement, checked at verification.
  `RefusalIsFinal` goes backwards: an accepted quote's hash is in SlotHashes now,
  so it was before, and was young enough (`AcceptedWasAccepted`). The refinement
  rests on the same three facts: `ViewIsPresentable` puts `AcceptedSignatures` and
  `AcceptedSlot` together, and says that whatever is seen is vouched for;
  `SameView` says that signing a message shows nothing; and `AcceptedWasAccepted`
  is what a new slot may do. It needs `MaxAge < WindowLen`, since an older quote
  may have been missed by the search in one slot and be found in the next.
- **Randomness.** `SlotInv` is carried along: that a seed is older than the clock
  rests on what SlotHashes holds. `RandomnessInv` is an invariant for the proof
  only: no reveal is dated ahead of the clock, so a new slot finds nothing readable.
- **QueueClient.** `IInv` adds to `ClientInv` which calls make the request of a
  stage (`StageInv`), what has been read by the time it is needed (`HeldInv`), what
  the requests for the oracles have brought so far (`GotInv`), that a table's slot
  that was read is the current one while its owner is untouched (`TableInv`), and
  the properties of the results themselves. `Evolves` says once what any change of
  the chain does to what the client knows - the history only grows, slots of tables
  only rise - and every part of the invariant is shown to survive that; then there
  is one lemma for each action of the client. `RetryInv` counts attempts against
  failed requests while nothing changes. What a `filter_map` returns is found by
  rank: the k-th element kept is that with k - 1 kept before it (`KeptInOrder`), and
  nothing moves if all are kept (`KeptWhole`). `FutureInv` says of each future of
  `fetch_luts` that the slot it has read is the current one while nothing touches
  its oracle, and that it ends with it unless a request for
  that very oracle failed (`lost`).
- **TransactionBuilder.** `SignersDistinct` is the invariant. `RequiredSigners` shows that
  `required_signers` lists what the instructions ask for, each key once. The
  two ways of signing, by sets and by counts, therefore both come down to whether
  an instruction asks for the payer (`BothNeedThePayer`), and `FormatsBuildTheSame`
  follows for each source of signers.
  `LimitSuffices` rests on `Consumption`, which counts the budget instructions in
  front of the caller's, and on the arithmetic of the margin.
- **PullFeed.** `IInv` is `FeedInv` with three parts. `ResultInv` says that, when
  enough submissions are recent, the stored result is their median and its index
  that of a submission with the value; and that in any case the submission at its
  place is no older than it. `HonestInv` says that oracles that are no liars submit honest
  values, and none after the last landing. `HeldInv` says that a held value is the
  original cut off at the coarsest scale it has had (`CutOff`) as long as no power
  of ten has overflowed. `MedianRank` counts what lies below and above the element
  that `lower_bound_median` takes; that there is one is `RankIsPlace`, and a
  majority on either side is `MajorityBoundsMedian`. Rescaling is the arithmetic of
  `NestedDivision` and `TenToSum`.
- **SetInduction.** The library's induction theorems take an operator as a
  parameter, which the provers cannot instantiate. The lemmas here take a *set*
  that is closed under successor, and reduce it to a least element of the
  complement, so that they can be cited with a set of the numbers for which
  something holds. In the same way a recursive function is shown to exist and to
  satisfy its equation (`RecursionExists`, `RecursionUpTo`) with the step as a
  function, and the elements of a finite ordered set to take the places
  0 to n - 1, once each (`RankIsPlace`).

Assumptions on the constants are named (`SlotHashesAssumption`,
`RandomnessAssumption`, `AccountAssumption`, `DigitsAssumption`,
`VerifierAssumption`, `ClientAssumption`, `BuilderAssumption`, `CostAssumption`,
`DecimalAssumption`, `FeedAssumption`), and TLC evaluates them in the runs.

`FeedAssumption` asks, among the rest, that the constants that stand for no
submission and for no held value are neither a submission nor a value.

Every invariant and every safety property of the passing runs is stated by a
theorem. Checked by TLC only is liveness (`CallEnds`): it rests on fairness and
on when a step is possible, and TLAPS reasons about neither. The violations are
TLC's too: each is a behaviour of a small instance.

## Bounds and abstractions

`MaxSlot`, `MaxSigned`, `MaxRotations`, `MaxWrites`, `MaxIxs`, `MaxTables`,
`MaxKeys`, `MaxLutSlot`, `MaxChanges`, `MaxTime`, `Scales`, `Attempts` and `Costs`
bound the runs and are not in the code. `WindowLen` (512), `U64`, `LowMod` (2^16),
`Word`, `I128Max`, `DecimalMax`, `DecimalScale`, `Precision`, `MaxSubmissions` (32),
`MaxInstructions` (10), `OracleSize` and `Base` (256) are in the code and scaled
down; `BudgetCost` (150) is the network's.

Parsing is abstracted to a length and a discriminator; an account shorter than its
type is refused by every reader, as a missing one is, and the runs have the missing
one. Hashes and signatures are what they are of, a derived address is the tuple of
what it is derived from, and errors are told apart only where a property looks at
them. A list of `AccountMeta`s is a set of signers, one of writable keys and one of
all keys, without order or number. Logging and formatting are left out.

## Not modelled

- Keys from environment variables, files and seeds (`client/utils.rs`), and the
  choice of cluster and program id by environment or feature: I/O and constants.
- `generate_checksum` and `generate_checksum_v2` of a feed, which only hash, and
  `SwitchboardDecimal::from_f64`, a conversion of the decimal library.
- The sizes of transactions. A queue of many oracles makes an instruction that no
  transaction holds; the limit is the runtime's and `build_ix` does not look at it.
- Sending: the crate builds transactions and leaves sending, and the expiry of the
  blockhash, to its caller.
- The alignment of account buffers, and the serialisation of the parameters of
  instructions.
- Error types, ids, traits and re-exports, which hold no state.

What could be added: a model of feeds that are evaluated from several quotes, once
the crate has one.
