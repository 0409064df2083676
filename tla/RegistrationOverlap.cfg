SPECIFICATION Spec
CONSTANTS
    Attempts = {a1, a2}
    Mobiles = {m1}
    Devices = {d1, d2}
    Handlers = {h1, h2}
    NoAttempt = NoAttempt
    NoUser = NoUser
    NoDevice = NoDevice
    Null = Null
    Overlap = TRUE
    MaxFaults = 0
    MaxCrashes = 0
CHECK_DEADLOCK FALSE
INVARIANTS EffectsPrecedeSteps OwnRecords
SYMMETRY Interchangeable
