\* One permit, for which two reviews compete, one retry, one kill.  The model
\* stops when the wave is over.
CONSTANTS
  factual = factual
  craft = craft
  resonance = resonance
  romance = romance
  Circles = 2
  Parallel <- Reviews
  Serial <- Writers
  ScoreReview = resonance
  Verdicts <- Finds
  Cascadable = {romance}
  CascadeStreak = 2
  ReverifyGap = 2
  Histories <- Streaks
  MaxConcurrentReviews = 1
  MaxRetries = 1
  MaxKills = 1
SPECIFICATION Spec
INVARIANTS
  SharedWritersAlone
  BlockingSeen
PROPERTY
  WaveEnds
CHECK_DEADLOCK FALSE
