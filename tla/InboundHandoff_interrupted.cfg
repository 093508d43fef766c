SPECIFICATION HandoffSpec
CONSTANTS
    c1 = c1
    c2 = c2
    s1 = s1
    s2 = s2
    None = None
    Commands = {c1, c2}
    Chats = {s1, s2}
    ChatOf <- MCChatOf
    PageLimit = 1
    MaxCrashes = 2
    MaxFaults = 2
    MaxExpiries = 1
INVARIANTS InterruptedNeverRan
CHECK_DEADLOCK FALSE
