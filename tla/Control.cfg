\* Every call, reply and job is made at most once, and a restart and a shutdown are
\* final, so each part may come to rest.
SPECIFICATION ControlSpec
CONSTANTS
    Chats = {c}
    Turns = {t}
    Queued = {q}
    Direct = {d1, d2}
    Pushes = {n1, n2}
    Objects = {o1, o2}
    None = None
    ChatOf <- MCChatOf
    Tasks = {t1, t2}
    Deployments = {d1}
    CommitMayFail = TRUE
    Threads = {a, b}
    NoTurn = NoTurn
    NoThread = NoThread
    Sizes = {1, 2}
    MaxTurns = 2
    MaxBytes = 3
    MaxObjects = 2
    StoreMayFail = FALSE
    Messages = {m1, m2}
    Awaited = {m1}
    Nothing = Nothing
    MaxFailures = 2
INVARIANTS OneSender CountsMatch GateIsOrderly RepliesAreAccounted
PROPERTIES PushesYield PushesInOrder WaitersMove GateIsLeft AcceptedTurnsResolve SendersAreAnswered
CHECK_DEADLOCK FALSE
