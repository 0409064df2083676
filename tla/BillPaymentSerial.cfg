SPECIFICATION FairSpec
CONSTANTS
    Requests = {r1, r2, r3}
    Keys = {k1}
    Bills = {b1, b2}
    MockBills = {b1}
    DemoBills = {b1, b2}
    SeededBills = {b1}
    Amounts = {a1}
    Actors = {u1, u2}
    NoPayment = NoPayment
    NoAmount = NoAmount
    NoRef = NoRef
    Retries = TRUE
    Overlap = FALSE
    Rolling = FALSE
    MaxBoots = 0
    MaxFaults = 1
CHECK_DEADLOCK FALSE
INVARIANTS RepeatsOnlyUnanswered AnsweredChargeSettled ReferenceOfCharge ReplayRecognised
PROPERTIES SuccessFinal ChargeSettles ImplementsLedger
