SPECIFICATION Spec
CONSTANTS
  Parts = {"keys", "browser", "rendition", "numbering", "markup", "ingest", "build",
           "pages", "vectors", "ranking", "courts", "adapters", "document", "chunker"}
  Verifiers = {t1, t2}
  Keys = {k1, k2}
  Modes = {"api-key", "entra+api-key"}
  Claims = {"good"}
  RefreshAfter = 2
  MaximumStale = 3
  RetryInterval = 1
  MaxTime = 4
  MaxFetchFaults = 1
  PageSize = 2
  MaxAttempts = 2
  MaxFaults = 3
  Styles = {s1, s2}
  Instances = {1}
  MaxParagraphs = 4
  Elements = {"block", "inline", "dropped", "unwrapped", "break"}
  MaxDepth = 3
  MaxTokens = 6
  Callers = {c1}
  Tabs = {b1}
  Urls = {u1, u2}
  MaxBrowserRedirects = 1
  MaxPending = 1
  MaxPauses = 2
  MaxGets = 2
  Natives = {n1, n2, n3}
  BatchSize = 2
  FlushSize = 1
  MaxDocuments = 3
  MaxIngests = 2
  MaxIngestFaults = 1
  MaxWorkspaceVersions = 1
  MaxBuildRuns = 3
  MaxBuildFaults = 1
  MaxKills = 2
  Limits = {2, 3}
  Around = {0, 1}
  MaxRequested = 2
  MaxQuestions = 1
  MaxSwitches = 2
  Scores = {1, 2}
  BlockSize = 2
  MaxRows = 4
  MaxLimit = 2
  Requested = {1, 2}
  MaxPerDocument = 2
  MaxK = 3
  Widening = 2
  MinCandidates = 3
  RankConstant = 60
  Sites = {"high-court", "federal-court", "nsw-caselaw", "tasmania"}
  Judgments = {1, 2, 3, 4, 5, 6, 7, 8}
  Unusable = {5}
  RowsPerPage = 2
  FederalShare = 50
  Attempts = 2
  MaxPublished = 2
  MaxWithdrawn = 1
  Adapters = {"high-court", "federal-court", "nsw-caselaw", "south-australia",
              "western-australia", "queensland", "nsw", "tasmania"}
  MaxBlocks = 3
  EmbedMaxTokens = 8
  PrefixTokens = 2
  None = None
  Absent = Absent
  NoUrl = NoUrl
  Missing = Missing
  Order <- LargestFirst
  Contents <- TheContents
  Seeds <- TheSeeds
  Renditions <- TheRenditions
INVARIANTS OwnDocument BestListed TextChosen IngestSound BuildResumes TextKept ListsComplete
PROPERTIES WithdrawnKeyEnds KeysFetched
\* Each part comes to an end of its bounds.
CHECK_DEADLOCK FALSE
