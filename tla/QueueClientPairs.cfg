\* The same calls, against what fetch_oracles says of its result.
CONSTANTS
    Oracles = {o1, o2}
    Target = o1
    QueueId = QueueId
    OtherQueue = OtherQueue
    op = op
    Operators = {op}
    NoOperator = NoOperator
    auth1 = auth1
    auth2 = auth2
    Authorities = {auth1, auth2}
    OracleData <- MCOracleData
    NoAccount = NoAccount
    OracleSize = 2
    NoTable = NoTable
    MaxKeys = 2
    MaxLutSlot = 1
    MaxChanges = 2
    Attempts = {0, 2}
    MaxTime = 2
SPECIFICATION Spec
INVARIANT PairsBelongTogether
CHECK_DEADLOCK FALSE
