CONSTANTS
  Threads = {t1, t2, t3}
  WorkerCeiling = 2
  Delays = {1}
  MaxSuccesses = 9
  HttpAttempts = 2
  RateAttempts = 2
  MaxRedirects = 1
  Interval = 2
  Answers = {"ok", "redirect", "unusable", "broken", "challenge"}
  Gets = 1
  Prompt = FALSE
  NoThread = NoThread
SPECIFICATION FairClientSpec
INVARIANTS NoStoredCredit NoLostWakeup
PROPERTIES NoEarlyRequest ControllerSpec GetsReturn
\* The gets are bounded.
CHECK_DEADLOCK FALSE
