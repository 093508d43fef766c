\* A turn of the control server adds a job before run() has loaded the file.
SPECIFICATION SchedSpec
CONSTANTS
  JobIds = {j1, j2}
  Interval = 2
  Grace = 1
  Capacity = 2
  MaxLead = 2
  MaxTime = 3
  MaxStops = 1
  EarlyAdds = TRUE
INVARIANTS OnlyCancelRemoves
CHECK_DEADLOCK FALSE
