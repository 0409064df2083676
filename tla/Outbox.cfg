SPECIFICATION FairSpec
CONSTANTS
    Events = {e1}
    Ticks = {t1, t2, t3}
    NoRow = NoRow
    Null = Null
    MaxAttempts = 2
    Retries = 1
    Configured = TRUE
    MaxFailures = 1
CHECK_DEADLOCK FALSE
INVARIANTS OutcomeIsEarned
PROPERTIES OutcomeIsFinal RowsSettle
