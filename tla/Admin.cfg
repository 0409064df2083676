SPECIFICATION AdminSpec
CONSTANTS
    Ids = {q1}
    Handlers = {h1, h2}
    NoRow = NoRow
    Null = Null
    Names = {n1}
    Thresholds = {t1, t2}
    MaxVersion = 3
    MaxHistory = 4
    Tables <- MCTables
    Queries <- MCQueries
    NotGiven = NotGiven
    FirstRow = 92
    LineHeight = 11
    PageEnd = 565
    Lines <- MCLines
    MaxColumns = 750
CHECK_DEADLOCK FALSE
INVARIANTS HistoryTellsRule VersionsDistinct ReportsAgree PagesHoldRows LettersNumberColumns
SYMMETRY Interchangeable
