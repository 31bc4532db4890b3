SPECIFICATION Spec
CONSTANTS
  Parts = {"rendition"}
  Verifiers = {t1}
  Keys = {k1}
  Modes = {"entra"}
  Claims = {"good"}
  RefreshAfter = 2
  MaximumStale = 3
  RetryInterval = 1
  MaxTime = 0
  MaxFetchFaults = 0
  PageSize = 2
  MaxAttempts = 2
  MaxFaults = 3
  Styles = {s1}
  Instances = {1}
  MaxParagraphs = 0
  Elements = {}
  MaxDepth = 1
  MaxTokens = 0
  Callers = {c1}
  Tabs = {b1}
  Urls = {u1, u2}
  MaxBrowserRedirects = 1
  MaxPending = 1
  MaxPauses = 2
  MaxGets = 2
  Natives = {n1, n2, n3}
  BatchSize = 2
  FlushSize = 1
  MaxDocuments = 3
  MaxIngests = 2
  MaxIngestFaults = 1
  MaxWorkspaceVersions = 1
  MaxBuildRuns = 3
  MaxBuildFaults = 1
  MaxKills = 2
  Limits = {2, 3}
  Around = {0, 1}
  MaxRequested = 2
  MaxQuestions = 1
  MaxSwitches = 2
  Scores = {1, 2}
  BlockSize = 2
  MaxRows = 4
  MaxLimit = 2
  Requested = {1, 2}
  MaxPerDocument = 2
  MaxK = 3
  Widening = 2
  MinCandidates = 3
  RankConstant = 60
  Sites = {"tasmania"}
  Judgments = {3, 4, 5, 6, 7}
  Unusable = {5}
  RowsPerPage = 2
  FederalShare = 50
  Attempts = 1
  MaxPublished = 0
  MaxWithdrawn = 0
  Adapters = {"tasmania"}
  MaxBlocks = 3
  EmbedMaxTokens = 8
  PrefixTokens = 2
  None = None
  Absent = Absent
  NoUrl = NoUrl
  Missing = Missing
  Order <- LargestFirst
  Contents <- TheContents
  Seeds <- TheSeeds
  Renditions <- TheRenditions
INVARIANT FailuresFailTheRecord
CHECK_DEADLOCK FALSE
