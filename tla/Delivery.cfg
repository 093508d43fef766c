SPECIFICATION DeliverySpec
CONSTANTS
    c1 = c1
    c2 = c2
    s1 = s1
    s2 = s2
    None = None
    Commands = {c1, c2}
    Chats = {s1, s2}
    ChatOf <- MCChatOf
    PageLimit = 1
    MaxCrashes = 2
    MaxFaults = 2
    MaxExpiries = 1
    PluginCount = 2
    Installed = {2}
    Endpoints = {1, 2}
    turn1 = turn1
    job1 = job1
    Holders = {turn1, job1}
    Forks = {job1}
    MaxSnapshots = 3
    MaxMishaps = 1
    Publisher = Publisher
    Turns = {t1, t2}
    Subscribers = {reader}
    Sizes = {1, 2}
    PerTurnEvents = 2
    PerTurnBytes = 3
    GlobalBytes = 3
    QueueSize = 2
    MaxEvents = 4
    NoCursor = NoCursor
    Notice = Notice
    End = End
    Error = Error
INVARIANTS
    OwnersAreExact OnceAndNeverLost NothingInUseIsDisposed AdmissionIsExact ReportsAreTrue
    ReplaysAreHonest
PROPERTIES RowsAreAnswered UnusedAreDrained WaitersMove StreamsEnd
