SPECIFICATION Spec
CONSTANTS
    Requests = {r1, r2}
    Credentials = {c1, c2}
    MaxCount = 2
INVARIANTS TypeOK AnswersAreExplained
PROPERTY SignCountMonotone
