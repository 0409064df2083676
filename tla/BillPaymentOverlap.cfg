SPECIFICATION Spec
CONSTANTS
    Requests = {r1, r2, r3}
    Keys = {k1}
    Bills = {b1}
    MockBills = {b1}
    DemoBills = {b1}
    SeededBills = {b1}
    Amounts = {a1, a2}
    Actors = {u1}
    NoPayment = NoPayment
    NoAmount = NoAmount
    NoRef = NoRef
    Retries = TRUE
    Overlap = TRUE
    Rolling = FALSE
    MaxBoots = 1
    MaxFaults = 1
CHECK_DEADLOCK FALSE
INVARIANTS PaidOnlyByCharge SuccessOnlyByCharge RecordedKeyNeverRedispatched OneOutcomePerKey
PROPERTIES PaidFinal IdentityStable
SYMMETRY RequestSymmetry
