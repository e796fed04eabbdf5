\* One user supports two cities at once around midnight.
CONSTANTS
    alice = alice
    bora = bora
    istanbul = istanbul
    izmir = izmir
    Users = {alice}
    Cities = {istanbul, izmir}
    Requests = {r1, r2}
    GrantKeys = {g1}
    NoTribe = NoTribe
    NoRequest = NoRequest
    Keys <- MCKeys
    Tribes <- MCTribes
    InitialTribe <- MCInitialTribe
    Asks <- MidnightAsks
    Movable = {}
    Moderated = {}
    Grants = {6}
    Gaps = {1}
    DayLength = 2
SPECIFICATION Spec
INVARIANT ConsecutiveDaysMakeAStreak
