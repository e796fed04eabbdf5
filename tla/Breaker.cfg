\* Three concurrent writes, two failures to trip, two ticks to cool down.
CONSTANTS
    Writes = {w1, w2, w3}
    Threshold = 2
    Cooldown = 2
    MaxTime = 6
SPECIFICATION Spec
INVARIANTS
    TypeOK
    RefusesOnlyAfterFailures
PROPERTY SingleTrial
