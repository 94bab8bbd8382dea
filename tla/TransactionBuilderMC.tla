------------------------ MODULE TransactionBuilderMC ------------------------
(***************************************************************************)
(* TransactionBuilder for TLC: instructions that ask for no signer, for    *)
(* one and for two, with the limit of ten instructions scaled to three.    *)
(***************************************************************************)
EXTENDS ClientTransactions

CONSTANTS k1, k2

MCKeys == {k1, k2}
MCInstructions ==
    [program : {"caller"}, value : {0}, signers : {<<>>, <<k1>>, <<k2, k1>>}]

\* Below what a compute budget may be, and above what a fee may be.
MCUnits == {100000}
MCFees == {20000}

\* As little as counts, just above, and as much as a transaction may consume.
MCCosts == {225, 226, 1000, 1000000, 1399700}
=============================================================================
