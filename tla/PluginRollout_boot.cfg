\* No operator, and the process dies once.
SPECIFICATION RolloutSpec
CONSTANTS
  Owners = {t1, t2}
  Operators = {}
  MaxRev = 2
  MaxTx = 2
  MaxDeaths = 1
INVARIANTS BootAlwaysRecovers
CHECK_DEADLOCK FALSE
