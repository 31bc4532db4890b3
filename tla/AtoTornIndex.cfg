SPECIFICATION AtoFairSpec
CONSTANTS
  Ids = {d1}
  Folders = {{d1}}
  Workers = {w1}
  AtoModes = {"incremental"}
  MaxPayloads = 2
  MaxAtoRuns = 1
  MaxAtoFaults = 1
  Nowhere = Nowhere
PROPERTY TornIndexResumes
CHECK_DEADLOCK FALSE
