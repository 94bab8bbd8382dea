\* A buffer of 512 bytes, with quotes that nearly fill it.
CONSTANTS
    Cap = 512
    Shapes <- SevenFeeds
    Versions = {0}
    Sources <- MCSources
    NoQuote = NoQuote
    Base = 2
    Marker = 15
    MaxSlot = 6
SPECIFICATION AccountSpec
INVARIANT NeverRefusesNewer
CHECK_DEADLOCK FALSE
