SPECIFICATION FairSpec
CONSTANTS
  Keys = {k1, k2}
  Paths = {p1}
  Admins = {a1, a2}
  Servers = {}
  Descriptors = {d1}
  MaxCommands = 3
  OrderedJournal = TRUE
  Absent = Absent
  Damaged = Damaged
  NoGeneration = NoGeneration
  Nobody = Nobody
INVARIANTS ActiveServable ContentNamed
PROPERTIES SwitchIsDurable ImplementsPromise CommandsReturn
