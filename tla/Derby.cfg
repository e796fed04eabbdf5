\* One derby, two instances, one administrator, a support for either side.
SPECIFICATION FairSpec
CONSTANTS
    kadikoy = kadikoy
    d1 = d1
    d2 = d2
    besiktas = besiktas
    fener = fener
    galata = galata
    s1 = s1
    s2 = s2
    Derbies = {d1}
    Cities = {kadikoy}
    Tribes = {besiktas, fener, galata}
    City <- MCCity
    Host <- MCHost
    Guest <- MCGuest
    StartsAt <- MCStartsAt
    EndsAt <- MCEndsAt
    Instances = {i1, i2}
    Admins = {a1}
    Supports = {s1, s2}
    SupportCity <- MCSupportCity
    SupportTribe <- MCSupportTribe
    NoDerby = NoDerby
    Idle = Idle
    RedisMayFail = TRUE
    MaxTime = 1
    MaxStops = 1
INVARIANTS
    TypeOK
    DerbyPointsAreEarned
PROPERTIES
    ResolvedIsFinal
    DerbiesEnd
CHECK_DEADLOCK FALSE
