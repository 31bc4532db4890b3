SPECIFICATION FairSpec
CONSTANTS
  Sides = {"service", "backend", "caches"}
  Requests = {r1, r2, r3, r4, p1}
  Probes = {p1}
  Workers = {w1, w2}
  PerWorker = 1
  MaxPanics = 2
  MayFail = TRUE
  Shims = {s1, s2}
  Ports = {q1, q2, q3, q4}
  Faults = {"crash", "saturate", "stop", "kill"}  
  MaxFaults = 2
  MaxPosts = 1
  None = None
  NoRequest = NoRequest
  Threads = {t1, t2}
  Sources = {"frl"}
  Filters = {"f", "g", "h"}
  CacheCapacity = 2
  MaxSearches = 3
  MaxReplacements = 1
  MaxPassing = 1
INVARIANTS OneBackend CachesSound
PROPERTIES CleanShutdown ServiceGoesOn ShimsSettle
\* The service stops; shims, requests, ports and searches are bounded.
CHECK_DEADLOCK FALSE
