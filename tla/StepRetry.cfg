\* Two attempts of a budget of two, a history of two families, two answers and
\* one kill.
CONSTANTS
  MaxAttempts = 2
  MaxBudget = 2
  MaxFamilies = 2
  MaxAnswers = 2
  MaxKills = 1
SPECIFICATION FairSpec
INVARIANTS
  BudgetHolds
  ExhaustionEarned
  ReviewerHeard
  NothingSkipped
PROPERTY
  CommandReturns
CHECK_DEADLOCK FALSE
