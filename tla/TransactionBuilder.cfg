\* Every builder of up to two instructions, and every way to build it.
CONSTANTS
    k1 = k1
    k2 = k2
    Keys <- MCKeys
    Instructions <- MCInstructions
    Units <- MCUnits
    Fees <- MCFees
    Hashes = {h1, h2}
    DefaultHash = DefaultHash
    Unset = Unset
    Tables = {t1, t2}
    BudgetCost = 150
    Costs <- MCCosts
    MaxInstructions = 3
    MaxIxs = 2
    MaxTables = 2
SPECIFICATION Spec
INVARIANTS BuilderInv PayerVariantsAgree FormatsAgree ComputeLimitSuffices
PROPERTIES ExtraSignersHarmless StoredPayerIrrelevant TablesNeverLost
CHECK_DEADLOCK FALSE
