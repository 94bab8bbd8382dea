\* Two oracles and a queue of two places, two signatures, one stored quote, a
\* key rotation, five slots over a window of three: hashes of this chain and
\* of another, entries that refer to other instructions, an account that two
\* signatures fill.
CONSTANTS
    WindowLen = 3
    U64 = 12
    LowMod = 16
    Forks = {a, b}
    NoFork = none
    MaxSlot = 4
    k1 = k1
    k2 = k2
    Keys = {k1, k2}
    NoKey = nokey
    AllKeys <- MCAllKeys
    Foreign <- MCForeign
    Own = a
    QueueLen = 2
    QueueInit <- MCQueue
    Feeds = {feed}
    FeedCount = 1
    OracleIdxs = {0, 3}
    TxIndexes = {0, 1}
    MaxSigs = 2
    MaxFeeds = 8
    ProgramIx = 0
    MaxAge = 2
    Cap <- MCCap
    NoQuote = noquote
    Base = 2
    Marker = 15
    Version = 0
    MaxSigned = 2
    MaxRotations = 1
    MaxWrites = 1
SPECIFICATION Spec
INVARIANTS VerifierInv AcceptedQuotesAreSigned AcceptedSlotIsSigned HonestQuoteAccepted
PROPERTY ImplementsAttested
CHECK_DEADLOCK FALSE
