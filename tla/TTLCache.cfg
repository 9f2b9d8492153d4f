\* A cap of one and three keys: every store meets the cap, and overlapping
\* stores can take the map two entries above it.
CONSTANTS
    Callers = {c1, c2}
    Keys = {k1, k2, k3}
    Values = {v}
    NoValue = NoValue
    NoKey = NoKey
    Ttl = 0
    MaxEntries = 1
    MaxProbe = 2
    MaxTime = 1
    MaxOverlaps = 2
SYMMETRY Symmetry
SPECIFICATION Spec
INVARIANTS
    TypeOK
    CapSlack
PROPERTY ServesLatest
