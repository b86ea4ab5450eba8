SPECIFICATION Spec
CONSTANTS
    Runs = {r1, r2, r3}
    Heads = {h1, h2}
    MaxBatches = 2
    Serial = TRUE
    None = None
SYMMETRY PipelineSymmetry
INVARIANTS TypeOK AutoIsOwn LackingOnlyAfterCut LeftoverOnlyAfterKill OwnBatchesServed
