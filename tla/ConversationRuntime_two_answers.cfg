SPECIFICATION Spec
CONSTANTS
    Threads = {a}
    Turns = {t1, t2}
    NoTurn = NoTurn
    NoThread = NoThread
    Sizes = {1, 2}
    MaxTurns = 2
    MaxBytes = 3
    MaxObjects = 2
    StoreMayFail = FALSE
INVARIANT UniqueTerminalAssistant
