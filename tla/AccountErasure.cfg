SPECIFICATION Spec
CONSTANTS
    Requests = {r1, r2}
    Tags <- MCOneTag
    MaxTags = 1
    Window = 0
    NoRow = NoRow
    MaxClock = 2
    MaxVersion = 1
SYMMETRY Symmetry
INVARIANT PendingHasClock
PROPERTIES RestoreWithinWindow OnlyDefaultsLoseWrites
