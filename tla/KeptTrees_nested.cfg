SPECIFICATION Spec
CONSTANTS
    Names = {p, q}
    Texts = {x, y}
    Sigs = {0, 1, 2}
    MaxTrees = 3
    MaxSessions = 2
    MaxDepth = 3
    MaxPlans = 1
    None = None
SYMMETRY KeptSymmetry
INVARIANTS TypeOK OwnedOnce OneEntryPerName OutdatedOnlyIfExecuting
PROPERTIES ServesCurrent
