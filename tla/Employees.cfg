SPECIFICATION Spec
CONSTANTS
    Requests = {r1, r2, r3}
    Usernames = {u1}
    Roles = {"BANK_ADMIN", "BANK_CHECKER", "CORPORATE_MAKER"}
    Delegated = {"BANK_ADMIN", "BANK_CHECKER", "CORPORATE_MAKER"}
    NoAccount = NoAccount
    Null = Null
    MaxFailures = 1
CHECK_DEADLOCK FALSE
INVARIANTS OwnAccounts ReadModelFollows PortalRolesMirrored RolesAsked 
SYMMETRY Interchangeable
