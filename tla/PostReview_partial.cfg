SPECIFICATION Spec
CONSTANTS
    Keys <- SmallKeys
    InputLists <- Straddling
    Caps = {2}
    CONFIRM_TRIES = 3
    MaxLate = 0
INVARIANTS ExitZeroMeansPosted
