SPECIFICATION FairTasks
CONSTANTS
  Tasks = {"sync", "update"}
  Modes = {"incremental", "full"}
  None = None
  Sources = {a, f}
  Catalogues = {{}, {a}}
  StartVersions = {0, 1}
  MaxVersion = 2
  MaxRuns = 2
  MaxFaults = 2
  KillAt = {"started", "submit", "acquiring", "acquired", "build", "compiling", "published",
            "built", "activate", "installed", "verified", "promote", "retain", "finish"}
  Procs = {p1, p2}
  Docs = {x, y}
  Assets = {crest}
  Retention = 50
  Versions = 2
  MaxWithdrawals = 0
  UpdateRuns = 1
  UpdateFaults = 1
  MaxBuilds = 0
  UpdateKillAt = {"prepare", "write", "else"}
INVARIANTS SyncedTogether FullRefreshIsAtomic PriorSetKept
PROPERTY CommandsCompleteOrStrand
\* Runs are bounded.
CHECK_DEADLOCK FALSE
