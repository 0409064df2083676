SPECIFICATION FairSpec
CONSTANTS
    Attempts = {a1, a2}
    Mobiles = {m1, m2}
    Devices = {d1, d2}
    Handlers = {h1}
    NoAttempt = NoAttempt
    NoUser = NoUser
    NoDevice = NoDevice
    Null = Null
    Overlap = FALSE
    MaxFaults = 1
    MaxCrashes = 1
CHECK_DEADLOCK FALSE
INVARIANTS StepHasRecords
PROPERTIES ForwardOnly MpinKept CredentialsSettle
