SPECIFICATION OpenSpec
CONSTANTS
    Requests = {r1}
    Tags <- MCTags
    MaxTags = 1
    Window = 0
    NoRow = NoRow
    MaxClock = 0
    MaxVersion = 2
INVARIANT TagLimit
