\* Four requests of two users: every interleaving of their lock steps with
\* grants, a tribe switch and moderation.
CONSTANTS
    alice = alice
    bora = bora
    istanbul = istanbul
    izmir = izmir
    Users = {alice, bora}
    Cities = {istanbul, izmir}
    Requests = {r1, r2, r3, r4}
    GrantKeys = {g1, g2}
    NoTribe = NoTribe
    NoRequest = NoRequest
    Keys <- MCKeys
    Tribes <- MCTribes
    InitialTribe <- MCInitialTribe
    Asks <- MCAsks
    Movable = {bora}
    Moderated = {bora}
    Grants = {6}
    Gaps = {1}
    DayLength = 2
SPECIFICATION Spec
SYMMETRY RequestSymmetry
INVARIANTS
    TypeOK
    BalanceMatchesLedger
    KeysMoveCreditsOnce
    SpendIsAllOrNothing
    ScoresMatchSupports
    LogExplainsLeader
    SupportsCountForFirstCapture
    CapturesHaveTheirCause
    StreakIsEarned
    LocksNeverDeadlock
PROPERTY ImplementsContest
