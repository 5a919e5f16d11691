\* Three steps, two structures of a file, three answers.  Genesis may be left.
CONSTANTS
  frame = frame
  volumes = volumes
  Files <- MCFiles
  WritesOf <- MCWritesOf
  N = 3
  Optional = {2}
  Independent = {3}
  Shapes = 2
  MaxAttempts = 3
  MaxReviews = 3
SPECIFICATION FairSpec
INVARIANTS
  CompletionEarned
  DriftTold
PROPERTIES
  FreezeStands
  ReviewedCommandsStop
CHECK_DEADLOCK FALSE
