SPECIFICATION Spec
CONSTANTS
    Runs = {r1, r2}
    Revs = {v1}
    Outs = {o1}
    MaxRevs = 1
    None = None
PROPERTIES RebuiltAfterDeath
