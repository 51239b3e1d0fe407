\* Three decisions of up to two calls, one search, two models; a long thought is as much as the budget.
SPECIFICATION FairSpec
CONSTANTS
  MaxSteps = 3
  MaxRounds = 1
  LoopBudget = 3
  Models = 2
  Tools = {tool}
  MaxCalls = 2
  Strict = TRUE
  Thoughts = {0, 3}
  SystemSize = 1
  History <- MCHistory
  QuestionSize = 1
INVARIANTS
  LastResultIsShown
  EndsWithAnswer
PROPERTY
  Terminates
CHECK_DEADLOCK FALSE
