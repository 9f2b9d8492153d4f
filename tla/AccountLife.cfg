SPECIFICATION OpenSpec
CONSTANTS
    Requests = {r1, r2}
    Tags <- MCTags
    MaxTags = 1
    Window = 0
    NoRow = NoRow
    MaxClock = 1
    MaxVersion = 2
SYMMETRY Symmetry
INVARIANTS TypeOK PendingHasClock
PROPERTIES LimitPassedOnlyByLag CrossServiceWritesKept DeletionNotCancelled RestoreWithinWindow AccountIsAtomic
