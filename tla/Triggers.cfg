\* Arcs of two chapters and a stratum of four, two failures and one kill.
CONSTANTS
  TotalChapters = 4
  VolumeEnds <- Volumes
  Horizon = 7
  StyleInterval = 2
  StratumInterval = 4
  ProfileFloor = 3
  MaxFailures = 2
  MaxKills = 1
SPECIFICATION Spec
INVARIANTS
  RunsOnce
  ConfigGoverned
  VolumeAnswered
CHECK_DEADLOCK FALSE
