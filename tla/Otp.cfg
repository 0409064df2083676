SPECIFICATION Spec
CONSTANTS
    Ids = {c1}
    Handlers = {h1, h2}
    NoRow = NoRow
    Null = Null
    MaxAttempts = 2
    LockTime = 1
    Ttl = 3
    MaxTime = 5
    MaxGuesses = 4
CHECK_DEADLOCK FALSE
INVARIANTS LockIsEarned OneShot GuessesBounded
SYMMETRY Interchangeable
