------------------------- MODULE ClientTransactions -------------------------
(***************************************************************************)
(* The functions of client/utils.rs that make a transaction of a list of   *)
(* instructions without a builder: ix_to_tx, and ix_to_tx_v0, which puts a *)
(* compute unit limit in front that it estimates by a simulation.          *)
(*                                                                         *)
(* What units the instructions consume, that each instruction of the       *)
(* compute budget consumes BudgetCost, and what a node answers when it is  *)
(* asked to simulate them, is the runtime's.                               *)
(***************************************************************************)
EXTENDS TransactionBuilder

CONSTANTS
    BudgetCost,  \* units of one compute budget instruction, 150 on the network
    Costs        \* units that the caller's instructions may consume together

\* The caller leaves the compute budget to the functions that set one: a second
\* instruction of a kind makes the runtime refuse the transaction.
ASSUME CostAssumption ==
    /\ BudgetCost \in Nat /\ Costs \subseteq Nat
    /\ \A x \in Instructions :
          x.program \notin {"set_compute_unit_limit", "set_compute_unit_price"}

MaxUnits == 1400000

\* signers[0] pays, and panics where there is none.
ix_to_tx(xs, keys, hash) ==
    IF keys = <<>> THEN Err("panic")
    ELSE IF TrySign(keys[1], xs, keys) THEN Ok(Tx(keys[1], xs, keys, hash, <<>>))
    ELSE Err("SolanaSignError")

\* What a transaction of xs consumes, of which the caller's own make up cost.
Consumes(xs, cost) == cost + BudgetCost * Cardinality({i \in DOMAIN xs : xs[i] \notin Instructions})

\* What is simulated: the caller's instructions with all the units there are.
Simulated(xs) == <<Limit(MaxUnits)>> \o xs

\* The outcomes of a simulation of xs, which landing would consume cost: no
\* answer; an answer without a count; a run to the end; and an error, with the
\* units consumed up to there, none if the run did not begin.
Simulations(xs, cost) ==
    LET Answer(err, units) == [answered |-> TRUE, err |-> err, units_consumed |-> units]
    IN  {[answered |-> FALSE, err |-> FALSE, units_consumed |-> Unset]}
        \cup {Answer(err, Unset) : err \in BOOLEAN}
        \cup {Answer(FALSE, Consumes(Simulated(xs), cost))}
        \cup {Answer(TRUE, 0)}
        \cup {Answer(TRUE, Consumes(Simulated(xs), part)) : part \in {c \in Costs : c <= cost}}

\* The answer's units_consumed; its err is not looked at.
estimate_compute_units(xs, keys, sim) ==
    IF ~ TryNew(keys[1], Simulated(xs), keys) THEN Err("SolanaSignError")
    ELSE IF ~ sim.answered THEN Err("Failed to simulate transaction")
    ELSE IF sim.units_consumed = Unset THEN Err("Failed to estimate compute units")
    ELSE Ok(sim.units_consumed)

\* Mutant: no margin is put on the estimate.
UnitsFor_NoMargin(units) == AtMost(units, MaxUnits)

\* 1.4 times the estimate, in f64 in the source, up to all there are.
UnitsFor(units) == AtMost((units * 14) \div 10, MaxUnits)

\* Without an estimate all the units there are.
ix_to_tx_v0(xs, keys, tables, hash, sim) ==
    IF keys = <<>> THEN Err("panic")
    ELSE LET estimate == estimate_compute_units(xs, keys, sim)
             units == IF Succeeds(estimate) THEN estimate.value ELSE MaxUnits
             final == <<Limit(UnitsFor(units)), Price(10000)>> \o xs
         IN  IF TryNew(keys[1], final, keys) THEN Ok(Tx(keys[1], final, keys, hash, tables))
             ELSE Err("SolanaSignError")

-----------------------------------------------------------------------------
(***************************************************************************)
(* Properties.                                                             *)
(***************************************************************************)

\* ix_to_tx, given the builder's instructions and blockhash and, behind the
\* payer's, the signers that the instructions ask for, never fails.  It makes the
\* transaction the builder makes, wherever the builder makes one.  A builder that
\* has the payer's and all these signers stored makes none only if no instruction
\* asks for the payer: then it fails with SolanaSignError.
OneShotAgreesOn(keys) ==
    Succeeds(final_ixs) /\ keys # <<>> /\ keys[1] = payer
       /\ ToSet(keys) = {payer} \cup ToSet(required_signers(ixs))
    => LET tx == ix_to_tx(final_ixs.value, keys, OrElse(recent_blockhash, DefaultHash))
       IN  /\ Succeeds(tx)
           /\ Succeeds(to_legacy_tx) => to_legacy_tx = tx
           /\ ~ Succeeds(to_legacy_tx) /\ has_payer /\ Succeeds(stored_signers) =>
                 /\ to_legacy_tx = Err("SolanaSignError")
                 /\ payer \notin ToSet(required_signers(ixs))

\* What ix_to_tx_v0 makes of the builder's instructions, signers and tables.
OneShotV0(sim) == ix_to_tx_v0(ixs, signers, luts, DefaultHash, sim)

\* The limit that ix_to_tx_v0 sets covers what the transaction consumes, its own
\* two budget instructions included, although the simulation has only one and
\* may remain without an answer or a count.  This is for instructions that
\* consume the same when they land, half as much again as a budget instruction
\* at least and not more than a transaction may, and for a simulation without an
\* error: of one with an error the units up to there are taken for the whole,
\* although a comment promises the maximum "if estimate fails".
ComputeLimitSuffices ==
    \A cost \in Costs : \A sim \in Simulations(ixs, cost) :
        LET tx == OneShotV0(sim) IN
        /\ Succeeds(tx) /\ ~ sim.err
        /\ 2 * cost >= 3 * BudgetCost /\ cost + 2 * BudgetCost <= MaxUnits
        => Consumes(tx.value.ixs, cost) <= tx.value.ixs[1].value
==============================================================================
