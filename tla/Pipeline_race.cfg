SPECIFICATION Spec
CONSTANTS
    Runs = {r1, r2}
    Heads = {h1, h2}
    MaxBatches = 2
    Serial = TRUE
    None = None
INVARIANTS DiffIsOfHead
