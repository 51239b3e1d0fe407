\* Liveness: the API process may die, the runner lives and polls.
SPECIFICATION FairSpec
CONSTANTS
  Tasks = {t1, t2}
  Api = api
  Runners = {r1}
  Unreliable = {api}
  Plans <- MCLivePlans
  Limits = {1}
  BatchSize = 1
  MaxTime = 0
  Backend = "sqlite"
  NoTask = NoTask
  NoProc = NoProc
PROPERTIES
  EventuallyPicked
  EventuallySettled
