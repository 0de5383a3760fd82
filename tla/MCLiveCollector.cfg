CONSTANTS
  Clients = {c1, c2}
  Threads = {t1, t2}
  NoThread = NoThread
  Window = 2
  LastDay = 3
  MaxCopies = 2
SPECIFICATION FairSpec
INVARIANTS
  CollectorFollowsClients
PROPERTIES
  CyclesGoOn
  DuplicatesHeal
  OutageReported
