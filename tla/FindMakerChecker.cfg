SPECIFICATION Spec
CONSTANTS
    Requests = {r1, r2, r3}
    Usernames = {u1}
    Roles = {"BANK_ADMIN", "BANK_CHECKER", "BANK_MAKER"}
    Delegated = {"BANK_ADMIN", "BANK_CHECKER", "BANK_MAKER"}
    NoAccount = NoAccount
    Null = Null
    MaxFailures = 0
CHECK_DEADLOCK FALSE
INVARIANTS DutiesSegregated
SYMMETRY Interchangeable
