SPECIFICATION SchedulesSpec
CONSTANTS
    Ids = {s1}
    Handlers = {h1, h2, h3}
    NoRow = NoRow
    Null = Null
    Owners = {o1, o2}
CHECK_DEADLOCK FALSE
INVARIANTS LastAnswerStands
PROPERTIES LifecycleKept
SYMMETRY Interchangeable
