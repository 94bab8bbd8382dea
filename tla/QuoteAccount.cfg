\* An account that two-signature quotes fill, and one-signature quotes do not.
CONSTANTS
    Cap <- TwoSigsCap
    Shapes <- OneFeed
    Versions = {0, 1}
    Sources <- MCSources
    NoQuote = NoQuote
    Base = 2
    Marker = 15
    MaxSlot = 6
SPECIFICATION AccountSpec
INVARIANTS AccountInv NewerQuoteAccepted
PROPERTIES ImplementsCell FilledQuoteNeverRegresses
CHECK_DEADLOCK FALSE
