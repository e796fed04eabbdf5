\* The trial write of a half-open breaker may end in a business error.
CONSTANTS
    Writes = {w1, w2, w3}
    Threshold = 2
    Cooldown = 2
    MaxTime = 6
SPECIFICATION Spec
INVARIANT HalfOpenHasItsTrial
