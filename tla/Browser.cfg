SPECIFICATION Spec
CONSTANTS
  Conversations = {c1, c2}
  First = c1
  Lanes = {"python", "local"}
  MaxSends = 2
  MaxMoves = 3
  MaxProgress = 1
  Tasks = {t1, t2}
  Foreign = {t2}
  MaxLists <- ListsDef
  MaxFetches = 2
  MaxFailures = 1
  x = x
  y = y
  z = z
  q1 = q1
  q2 = q2
  Products = {x, y, z}
  Briefs = {q1, q2}
  FirstBrief = q1
  Ranking <- RankingDef
  Catalogue <- CatalogueDef
  SelectionLimit = 2
  Benches = {"preview", "v2", "v3"}
  MaxSearches = 2
  MaxCompares = 2
  MaxQuestions = 2
INVARIANTS
  SendsAreHonest
  RestingViewIsTrue
  MirrorIsTrue
  WorkbenchIsTrue
PROPERTIES
  BrowserSettles
CHECK_DEADLOCK FALSE
