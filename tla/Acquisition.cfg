SPECIFICATION Spec
CONSTANTS
  Adapters = {"official", "frl", "ato"}
  Docs = {d1, d2}
  Procs = {p1}
  Assets = {i1}
  AssetsOf <- SharedImages
  Modes = {"incremental"}
  Retention = 50
  KillAt = {"prepare", "write", "else"}
  MaxVersion = 2
  MaxWithdrawals = 1
  MaxRuns = 2
  MaxFaults = 1
  MaxBuilds = 1
  None = None
  Titles = {1, 2}
  PageSize = 2
  Overlap = 1
  Lag = 1
  MaxDays = 2
  MaxVersions = 3
  MaxRepeals = 1
  MaxScans = 2
  MaxStops = 1
  Workspaces = {"superseded", "established", "awaiting"}
  Absent = Absent
  Ids = {n1, n2}
  Folders <- FolderPerId
  Workers = {w1, w2}
  AtoModes = {"incremental", "full"}
  MaxPayloads = 2
  MaxAtoRuns = 2
  MaxAtoFaults = 1
  Nowhere = Nowhere
SYMMETRY Symmetry
INVARIANTS EntriesSound TextsAsNamed NothingMissed PlansReconcile
PROPERTIES CommitsWholePlan BuildSnapshot IndexKept
\* Runs and faults are bounded.
CHECK_DEADLOCK FALSE
