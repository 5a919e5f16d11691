\* Three tries a call, as in the code; two outputs.
CONSTANTS
  MaxTries = 3
  Files <- TwoFiles
SPECIFICATION DispatchSpec
INVARIANTS
  BilledIsCharged
  WrittenOfOneReply
CHECK_DEADLOCK FALSE
