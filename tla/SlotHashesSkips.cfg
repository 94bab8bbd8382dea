\* The same window, against the claim that the scan finds what is recorded:
\* four entries spread over more than four slots are enough to refute it.
CONSTANTS
    WindowLen = 4
    U64 = 16
    LowMod = 5
    Forks = {a, b}
    NoFork = none
    MaxSlot = 9
SPECIFICATION SlotSpec
SYMMETRY ForkSymmetry
INVARIANT FindsEveryRecordedSlot
CHECK_DEADLOCK FALSE
