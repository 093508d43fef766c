SPECIFICATION RuntimeSpec
CONSTANTS
    Threads = {a, b}
    Turns = {t1, t2, t3}
    NoTurn = NoTurn
    NoThread = NoThread
    Sizes = {1, 2}
    MaxTurns = 2
    MaxBytes = 3
    MaxObjects = 2
    StoreMayFail = TRUE
    MaxUnits = 2
    MaxGenerations = 3
    MaxUpsets = 2
    MaxEvents = 3
    MaxSeq = 5
    MaxQueue = 2
    MaxEventFaults = 2
SYMMETRY Symmetry
INVARIANTS OneLiveTurnPerThread ResultAgrees AdmissionExact PredecessorsOpen LedgerStands EventsReachDevices
PROPERTIES InterruptBeforeSeal KeepsPromise
