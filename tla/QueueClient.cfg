\* The calls against accounts that change between their requests.
CONSTANTS
    Oracles = {o1, o2}
    Target = o1
    QueueId = QueueId
    OtherQueue = OtherQueue
    op = op
    Operators = {op}
    NoOperator = NoOperator
    auth1 = auth1
    auth2 = auth2
    Authorities = {auth1, auth2}
    OracleData <- MCOracleData
    NoAccount = NoAccount
    OracleSize = 2
    NoTable = NoTable
    MaxKeys = 2
    MaxLutSlot = 1
    MaxChanges = 2
    Attempts = {0, 2}
    MaxTime = 2
SPECIFICATION FairSpec
INVARIANTS ClientInv PairsOfReadableOracles SubsidyListsOneQueue LutsOfUntouchedOracles
    InstructionOfOneRead SyncNamesQueueTable RewardLutsComplete PayerSignsAndPays SurvivesFaults
PROPERTIES HeldAccountOnlyExpires CallEnds
CHECK_DEADLOCK FALSE
