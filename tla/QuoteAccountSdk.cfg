\* The account that SwitchboardQuote allocates: 8 bytes of discriminator and
\* 1024 more, which no quote of this instance fills.
CONSTANTS
    Cap = 1024
    Shapes <- OneFeed
    Versions = {0}
    Sources <- MCSources
    NoQuote = NoQuote
    Base = 2
    Marker = 15
    MaxSlot = 6
SPECIFICATION AccountSpec
PROPERTY StoredSlotNeverRegresses
CHECK_DEADLOCK FALSE
