SPECIFICATION Spec
CONSTANTS
    Keys <- SmallKeys
    InputLists <- OneFile
    Caps = {2, 3}
    CONFIRM_TRIES = 3
    MaxLate = 1
INVARIANTS ExitZeroMeansPosted
