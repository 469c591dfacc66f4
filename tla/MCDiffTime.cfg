SPECIFICATION WaitSpec
CONSTANTS
    StartTimes <- MCStartTimes
    Steps <- MCSteps
    SetSeconds <- MCSetSeconds
    MaxTime = 2600000
    LongLimit = 1200
    Timeout_ms = 700
    inactivityTimeout = 1
INVARIANTS
    WithinASecond
    SetBackEndsWait
CHECK_DEADLOCK FALSE
