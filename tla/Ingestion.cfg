\* Two tasks, the API process and one runner on the shared SQLite table; both may die.
SPECIFICATION Spec
CONSTANTS
  Tasks = {t1, t2}
  Api = api
  Runners = {r1}
  Unreliable = {api, r1}
  Plans <- MCPlans
  Limits <- MCLimits
  BatchSize = 2
  MaxTime = 1
  Backend = "sqlite"
  NoTask = NoTask
  NoProc = NoProc
INVARIANTS
  SingleOwner
  CorpusIsComplete
  PointsHaveChunks
  ReportIsTrue
PROPERTIES
  TerminalIsFinal
  ImplementsQueue
