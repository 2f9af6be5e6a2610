CONSTANTS
    c1 = c1
    Calls = {c1}
    BusCap = 2
    Attempts = 2
    Polls = 2
    MaxMessages = 4
    MaxCalls = 1
SPECIFICATION Spec
INVARIANTS TypeOK TimeoutOnlyIfUnnoted DoneOnlyIfDone
PROPERTIES SurvivesPanics EventuallyAnswered EventuallyProcessed
CHECK_DEADLOCK FALSE
