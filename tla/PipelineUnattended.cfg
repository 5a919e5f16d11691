\* Every review off, one volume, any command killed anywhere.
CONSTANTS
  TotalChapters = 3
  VolumeEnds <- OneVolume
  Horizon = 5
  MemoReview = FALSE
  SettleReview = FALSE
  ChapterReview = FALSE
  Crashes <- KilledAtAll
  Unplanned = {2}
  ReDispatchCap = 2
  ClosureLen = 2
  MaxBacklog = 2
SPECIFICATION Spec
INVARIANT
  ClosureIsLate
