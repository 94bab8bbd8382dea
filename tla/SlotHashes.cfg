\* A window of 4 entries over 10 slots: every pattern of skipped slots, with
\* the low bits wrapping inside the window, and a randomness account.
CONSTANTS
    WindowLen = 4
    U64 = 16
    LowMod = 5
    Forks = {a, b}
    NoFork = none
    MaxSlot = 9
    NoHash = NoHash
    Wallet = wallet
    Strangers = {stranger}
SPECIFICATION Spec
SYMMETRY ForkSymmetry
INVARIANTS SlotInv SearchesAgree LowBitsResolve
PROPERTY ReadableWhenRevealed
CHECK_DEADLOCK FALSE
