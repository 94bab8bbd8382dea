--------------------------- MODULE InstructionMetas ---------------------------
(***************************************************************************)
(* The account lists of the instructions QueueClient builds.  Of a list of *)
(* AccountMetas a transaction keeps, for every key, whether any entry      *)
(* signs and whether any entry is writable; the order and the number of    *)
(* the entries are left out.  A derived address is the tuple of what it is *)
(* derived from.                                                           *)
(***************************************************************************)

\* signs: AccountMeta::new or new_readonly (key, true); writes: AccountMeta::new.
Metas(signs, writes, reads) ==
    [signers |-> signs, writable |-> writes, keys |-> signs \cup writes \cup reads]

Arg(name) == <<"argument", name>>
State == <<"STATE">>
Ncn(queue) == <<"ncn", queue>>
SwitchMint == <<"switch_mint">>
WsolMint == <<"native_mint">>
SystemProgram == <<"system_program">>
TokenProgram == <<"spl_token">>
AssociatedTokenProgram == <<"spl_associated_token_account">>
LutProgram == <<"address_lookup_table_program">>
StakeProgram == <<"stake_program">>

\* stats_key, find_lut_signer and the table derived from it, an associated
\* token account, and the accounts of the staking programs.
StatsKey(oracle) == <<"OracleStats", oracle>>
LutSigner(k) == <<"LutSigner", k>>
Lut(k, slot) == <<"lookup table", LutSigner(k), slot>>
Wallet(owner, mint) == <<"wallet", owner, mint>>
DelegationPool(oracle) == <<"Delegation", State, StatsKey(oracle)>>
DelegationGroup(queue) == <<"Group", State, queue>>
RewardPool(oracle, mint) == <<"RewardPool", DelegationPool(oracle), mint>>

OracleSyncLutMetas(a) ==
    Metas({a.authority, a.payer},
          {a.oracle, a.lut, a.payer},
          {a.queue, Ncn(a.queue), Arg("vault"), State, a.operator,
           <<"ncn_operator_state", Ncn(a.queue), a.operator>>,
           <<"operator_vault_ticket", a.operator, Arg("vault")>>,
           <<"vault_operator_delegation", Arg("vault"), a.operator>>,
           LutSigner(a.queue), LutProgram, SystemProgram})

OracleResetLutMetas(a) ==
    Metas({a.authority},
          {a.oracle, a.payer, a.lut},
          {SystemProgram, State, LutSigner(a.oracle), LutProgram})

OracleHeartbeatMetas(a) ==
    Metas({a.oracle_signer, a.payer},
          {a.oracle, StatsKey(a.oracle), a.queue, a.gc_node, State, a.payer,
           Wallet(a.queue, WsolMint), DelegationPool(a.oracle), DelegationGroup(a.queue),
           Wallet(State, SwitchMint), RewardPool(a.oracle, WsolMint),
           RewardPool(a.oracle, SwitchMint), Arg("escrows")},
          {SystemProgram, TokenProgram, WsolMint, StakeProgram, Arg("pending_paid_accounts")})

OracleHeartbeatV2Metas(a) ==
    Metas({a.oracle_signer},
          {a.oracle, StatsKey(a.oracle), a.queue, a.gc_node, State},
          {})

\* The operator and its wallet, unless the oracle has none.
QueuePayRewardMetas(a, NoOperator) ==
    LET paid == a.operator # NoOperator IN
    Metas({a.payer},
          {a.queue, StatsKey(a.oracle), a.payer}
             \cup (IF paid THEN {Wallet(a.operator, SwitchMint)} ELSE {}),
          {State, SystemProgram, a.oracle, TokenProgram, AssociatedTokenProgram, WsolMint,
           SwitchMint} \cup (IF paid THEN {a.operator} ELSE {}))

\* groups: for every oracle of the queue, the oracle and its operator.
QueuePaySubsidyMetas(queue, payer, groups, NoOperator) ==
    LET listed == {groups[i].oracle : i \in DOMAIN groups}
        paid == {groups[i].operator : i \in DOMAIN groups} \ {NoOperator}
    IN  Metas({payer},
              {queue, Wallet(Arg("vault"), SwitchMint), Wallet(State, SwitchMint), payer}
                 \cup {Wallet(op, SwitchMint) : op \in paid},
              {State, SystemProgram, Arg("vault"), TokenProgram, AssociatedTokenProgram,
               WsolMint, SwitchMint, <<"config">>}
                 \cup listed \cup {StatsKey(o) : o \in listed} \cup paid)

QueueResetLutMetas(a) ==
    Metas({a.authority, a.payer},
          {a.queue, a.payer, Lut(a.queue, a.recent_slot)},
          {SystemProgram, State, LutSigner(a.queue), LutProgram})

GuardianQuoteVerifyMetas(a) ==
    Metas({a.authority}, {a.guardian, a.oracle, a.guardian_queue}, {State, <<"SlotHashes">>})

OracleSetConfigsMetas(a) == Metas({a.authority}, {a.oracle}, {})

AttestationPermissionSetMetas(a) == Metas({a.authority}, {a.grantee}, {a.granter})

QueueGarbageCollectMetas(a) == Metas({}, {a.queue, a.oracle}, {})
===============================================================================
