\* The same builders, against what required_signers says of its result.
CONSTANTS
    k1 = k1
    k2 = k2
    Keys <- MCKeys
    Instructions <- MCInstructions
    Units <- MCUnits
    Fees <- MCFees
    Hashes = {h1}
    DefaultHash = DefaultHash
    Unset = Unset
    Tables = {t1, t2}
    BudgetCost = 150
    Costs <- MCCosts
    MaxInstructions = 3
    MaxIxs = 2
    MaxTables = 2
SPECIFICATION Spec
INVARIANT RequiredSignersSuffice
CHECK_DEADLOCK FALSE
