\* One derby and one support whose cache entry meets the resolution; Redis never fails.
SPECIFICATION Spec
CONSTANTS
    kadikoy = kadikoy
    d1 = d1
    d2 = d2
    besiktas = besiktas
    fener = fener
    galata = galata
    s1 = s1
    s2 = s2
    Derbies = {d1}
    Cities = {kadikoy}
    Tribes = {besiktas, fener, galata}
    City <- MCCity
    Host <- MCHost
    Guest <- MCGuest
    StartsAt <- MCStartsAt
    EndsAt <- MCEndsAt
    Instances = {i1, i2}
    Admins = {a1}
    Supports = {s1}
    SupportCity <- MCSupportCity
    SupportTribe <- MCSupportTribe
    NoDerby = NoDerby
    Idle = Idle
    RedisMayFail = FALSE
    MaxTime = 1
    MaxStops = 0
INVARIANT CacheShowsActiveDerby
CHECK_DEADLOCK FALSE
