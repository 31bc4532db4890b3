CONSTANTS
  Sources = {a, f}
  Catalogues = {{a}}
  Modes = {"full"}
  StartVersions = {1}
  MaxVersion = 1
  MaxRuns = 1
  MaxFaults = 0
  KillAt = {}
  None = None
SPECIFICATION FairSpec
PROPERTY PendingCompletes
\* Runs are bounded.
CHECK_DEADLOCK FALSE
