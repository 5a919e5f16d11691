\* Five writers, one kill or abort.
CONSTANTS
  Keys = {"k", "l"}
  Owners = {"a", "b"}
  FirstOwner = "a"
  Batches <- SomeBatches
  MaxStamp = 5
  MaxKills = 1
SPECIFICATION Spec
INVARIANTS
  RowsLand
  RejectedStaysOut
  FactsOnce
  RefusalIsClean
CHECK_DEADLOCK FALSE
