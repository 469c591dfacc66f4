SPECIFICATION Spec
CONSTANTS
    Threads <- MCThreads
    WriteDates <- MCDates
    BusyDates <- MCBusy
    LastYear = 98
    MaxWrites = 2
INVARIANTS RightDay ReadsBack SystemAgrees AnswerIsToday
CHECK_DEADLOCK FALSE
