SPECIFICATION Spec
CONSTANTS
    Containers = {c1}
    Requests = {r1, r2}
    Spellings = {"lower"}
    AsStored = "lower"
    Ttl = 1
    Lag = 0
    Horizon = 4
SYMMETRY Symmetry
INVARIANTS TypeOK StalenessBounded InvalidationReaches
PROPERTIES UpdateUndoesOnlyRecent
