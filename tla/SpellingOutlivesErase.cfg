SPECIFICATION Spec
CONSTANTS
    Containers = {c1}
    Requests = {r1}
    Spellings = {"lower", "typed"}
    AsStored = "lower"
    Ttl = 1
    Lag = 0
    Horizon = 4
SYMMETRY Symmetry
INVARIANTS ErasedIsForgotten
