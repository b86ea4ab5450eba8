SPECIFICATION FairSpec
CONSTANTS
    Runs = {r1, r2}
    Revs = {v1, v2}
    Outs = {o1}
    MaxRevs = 1
    None = None
INVARIANTS IndInv NoHalfCheckout OwnBinary MutationRemoved
PROPERTIES EveryRunEnds MarkedStays
