SPECIFICATION FairSpec
CONSTANTS
    Keys <- SmallKeys
    InputLists <- SmallLists
    Caps = {2, 3}
    CONFIRM_TRIES = 2
    MaxLate = 2
INVARIANTS TypeOK DuplicateOnlyAfterLateWrite PlanIsComplete ExitZeroIfDistinct
PROPERTIES ResumeCompletes Publishes
