SPECIFICATION ServerSpec
CONSTANTS
  Keys = {k1, k2}
  Paths = {p1}
  Admins = {a1}
  Servers = {s1}
  Threads = {t1}
  Owner <- Owners
  Descriptors <- LockDescriptors
  MaxCommands = 3
  OrderedJournal = TRUE
  Absent = Absent
  Damaged = Damaged
  NoGeneration = NoGeneration
  Nobody = Nobody
SYMMETRY Interchangeable
INVARIANTS AnswersCoherent HostedInstructionsMatch ModelCoherent NoAnswerAfterInterruption CallsProceed
