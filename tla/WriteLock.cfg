\* Three writes of two processes, two rounds of waiting.  Calls end for ever.
CONSTANTS
  ledger = ledger
  audit = audit
  snapshot = snapshot
  engine = engine
  tool = tool
  None = None
  Calls <- MCCalls
  Procs <- MCProcs
  ProcOf <- MCProcOf
  KindOf <- MCKindOf
  Polls = 2
SPECIFICATION FairSpec
INVARIANT
  Exclusive
PROPERTIES
  LostOnlyToOverwrite
  EveryCallEnds
CHECK_DEADLOCK FALSE
