SPECIFICATION Spec
CONSTANTS
    Requests = {r1, r2}
    Tokens = {t1, t2}
    Digits = 2
    Base = 2
    Lifetime = 0
    ReadMode = "eventual"
    MaxClock = 5
INVARIANTS TypeOK AnsweredIsRecorded LatestIsOfNewestSecond
PROPERTIES AppendOnly RepeatsHaveACause
