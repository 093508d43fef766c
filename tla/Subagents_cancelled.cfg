\* A cancellation meets the clean-up of an agent that failed.
SPECIFICATION SubagentSpec
CONSTANTS
  Background = {b1, b2}
  Synchronous = {r1}
  MaxActive = 2
  MaxCancels = 1
INVARIANT CancelledIsFinal
CHECK_DEADLOCK FALSE
