\* Every review on, two volumes, a command killed anywhere but in a review.
CONSTANTS
  TotalChapters = 3
  VolumeEnds <- TwoVolumes
  Horizon = 5
  MemoReview = TRUE
  SettleReview = TRUE
  ChapterReview = TRUE
  Crashes <- Killed
  Unplanned = {}
  ReDispatchCap = 2
  ClosureLen = 2
  MaxBacklog = 2
SPECIFICATION Spec
INVARIANTS
  NoGhostChapter
  DraftsBehindCursor
  PlannedBeforeDrafted
  PendingProduct
PROPERTIES
  OwnSettlementOnly
  KeepsPromise
