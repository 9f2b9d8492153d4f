SPECIFICATION Spec
CONSTANTS
    Requests = {r1, r2}
    Tags <- MCTags
    MaxTags = 2
    Window = 0
    NoRow = NoRow
    MaxClock = 0
    MaxVersion = 2
SYMMETRY Symmetry
PROPERTY CrossServiceWritesKept
