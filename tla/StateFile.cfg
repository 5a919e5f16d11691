\* Three command slots and three updates.  Commands may end for ever.
CONSTANTS
  next = next
  review = review
  status = status
  Slots <- Commands
  MaxUpdates = 3
SPECIFICATION FileSpec
INVARIANTS
  NoSelfWait
  WorksOnLatest
PROPERTY
  LostOnlyAtExit
SYMMETRY Interchangeable
