\* Each part of the page by itself, chosen at the start.
SPECIFICATION FrontendSpec
CONSTANTS
  Files = {a, b}
  NoFile = nofile
  MaxMade = 2
  Tabs = {t1, t2}
  Inputs = {0, 1}
  Results = {0, 1}
  Huge = {2}
  HeavyDeclared = TRUE
  NoWrite = nowrite
  NoWriter = nowriter
  GroupOrder <- MCGroupOrder
  GroupFacts <- MCGroupFacts
  PageSize = 1
  OfferedRoles = {"electronic", "shield"}
  OfferedKinds = {"user_excluded"}
  OfferedTexts = {"none", "ok", "bad"}
  OfferedFilters = {"pending", "all"}
  NoResolution = NoResolution
  LegacyResolution = LegacyResolution
  ConflictOrder <- MCConflictOrder
  MaxVariants <- MCMaxVariants
  Recommendable = {3}
  NewCodes = {"n1", "n2"}
  Limit = 2
  MaxReruns = 1
  BomFiles = {"b"}
  DatFiles = {"net", "prt"}
  NeededDat = "net"
  Histories = {"h"}
  NoPath = "nopath"
  ItemOrder <- MCItemOrder
  FocusItems = {"n2"}
  MaxRuns = 2
  Callers = {"c1", "c2"}
  MaxStarts = 2
  MaxAsked = 4
  MaxJobs = 2
  MaxPolls = 3
  MaxSlow = 2
  Plugins = {"p", "u"}
  UserPlugins = {"u"}
  Unverified = {"u"}
  Runs = {"r1"}
  MaxClicks = 2
  Sources = {"s1", "s2"}
  Refs = {"R1"}
  Materials = {"m1", "m2"}
  Messages = {"x", "y"}
  MaxFindings = 2
  MaxRows = 3
  Span = 2
  CellSize = 2
  MaxPoints = 2
CHECK_DEADLOCK FALSE
INVARIANTS FrontendTypeOK ResultOfSource ReportOfResult DecisionsOfSource NoDeadEnd
  ResetSticks QuietTabIsStored CompleteIsAccepted ReloadKeepsDecisions
  SentCoversAsked LowConfidenceIsManual AnswersInOrder ExecutedOnce RefusedTwiceByAnother
  StartedIsFollowed EndIsShownUntilAcknowledged OfflineAfterTwoFailures ListsAreCurrent KernelsMatch
PROPERTIES StorageKeepsDrafts DecidedStays ConfirmsWhatIsShown OnlineAgain
