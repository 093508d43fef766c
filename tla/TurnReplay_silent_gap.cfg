SPECIFICATION ReplaySpec
CONSTANTS
    Turns = {t1, t2}
    Subscribers = {s1}
    Sizes = {1, 2}
    PerTurnEvents = 2
    PerTurnBytes = 3
    GlobalBytes = 4
    QueueSize = 2
    MaxEvents = 4
    NoCursor = NoCursor
    Notice = Notice
    End = End
    Error = Error
INVARIANT TruncationIsTold
CHECK_DEADLOCK FALSE
