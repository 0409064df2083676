SPECIFICATION Spec
CONSTANTS
    Requests = {r1, r2}
    Keys = {k1}
    Bills = {b1}
    MockBills = {b1}
    DemoBills = {b1}
    SeededBills = {}
    Amounts = {a1}
    Actors = {u1}
    NoPayment = NoPayment
    NoAmount = NoAmount
    NoRef = NoRef
    Retries = FALSE
    Overlap = TRUE
    Rolling = FALSE
    MaxBoots = 0
    MaxFaults = 0
CHECK_DEADLOCK FALSE
INVARIANT DispatchOncePerKey
