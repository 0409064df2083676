SPECIFICATION Spec
CONSTANTS
    Ids = {n1}
    Handlers = {h1, h2}
    NoRow = NoRow
    Null = Null
    Descriptions = {d1, Empty}
    Empty = Empty
    NoText = NoText
    Admins = {a1}
    Permissions = {p1}
    NoRole = NoRole
CHECK_DEADLOCK FALSE
INVARIANTS TypeOK RealmMatchesRows RolesAsTold
SYMMETRY Interchangeable
