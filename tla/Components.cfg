SPECIFICATION Spec
CONSTANTS
  p1 = p1
  p2 = p2
  c1 = c1
  c2 = c2
  c3 = c3
  Servers = {p1, p2}
  Changes = {m1, m2, m3}
  Backends = {"json", "sqlite"}
  Scopes = {s1, s2}
  Own = s1
  Ids = {i1, i2}
  Pages = {"users", "settings", "mappings", "questions", "intents", "knowledge", "intent tree", "dashboard", "traces", "trace", "documents"}
  MaxWrites <- AdminWrites
  MaxRequests = 2
  Tabs = {b1, b2}
  Accounts = {u1, u2}
  MaxLogins = 2
  MaxUpsets = 1
  People = {"e1", "e2"}
  Environments <- ServersRun
  Directories <- DirectoriesKept
  Bearers <- BearersSeen
  MaxSwaps = 1
  Chunks = {k1, k2, k3}
  Terms = {"q1"}
  Candidates = 2
  MaxScore = 2
  TopK = 3
  CommonUnit = 238266
  Processes = {p1, p2}
  Callers = {c1, c2, c3}
  Home <- HomeOf
  MaxDeletes = 1
  MaxDowns = 1
  TenantIds = {"te1", "te2"}
  OrgIds = {"o1"}
  Records = {"r1"}
  BuiltIn = {"r1"}
  MaxPlan = 2
  Defaults <- DefaultModules
  Plugins = {"plugin"}
  Offerable <- Contributions
  MaxClears = 1
  ReadModelKinds = {"traces", "documents"}
  Runs = {"run1", "run2"}
  Recorded = {"succeeded", "running", "failed"}
  Documents = {"d1", "d2"}
  Times = {1, 2}
  MaxRecords = 3
  Patterns <- IntentPatterns
  Providers = {"auto", "mock", "openai_compatible"}
  Chains <- FallbackChains
  MaxFound = 2
  MaxPieces = 2
  Catalog <- ProductsFile
  QueryWords = {"pro", "oled"}
  FilterBrands = {"Apple"}
  FilterCategories = {"laptop", "phone"}
  FilterBands <- PriceBands
  FilterRams = {12}
  FilterYears = {2024}
  SearchLimits = {2, 12}
  UnknownIds = {99}
  CompareColumns = 4
  MaxCompared = 5
  Message <- QuestionAsked
  Texts <- TextsSearched
  Pasts <- TurnsBefore
  FollowUpWords = {"it"}
  QueryMappings <- TermMappings
  BaseKeywords <- KeywordsOfBases
  GeneralWords = {"wiki"}
  ToolWords = {"weather"}
  LocalKnowledge <- OwnKnowledge
  VisibleBases = {{"ops"}}
  Intents <- IntentsOfScope
  ServiceAnswers <- AnswersOfService
  EnabledSettings = {"true", "unset"}
  ManyChunks = 2
  FewChunks = 1
  MaxSearchRounds = 2
  MaxToolUses = 1
INVARIANTS
  ComponentTypesOK
  AcknowledgedStays
  RestingPageIsFresh
  TreeIsComplete
  AccessIsTrue
  SearchIsSound
  CollectionFailureHasCause
  EachCallEndsOnce
  BootstrappedAreWhole
  ReadModelsAreTrue
  AnswersAreWhole
  ShoppingIsTrue
  GroundingIsTrue
CHECK_DEADLOCK FALSE
