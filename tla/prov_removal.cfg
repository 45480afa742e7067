SPECIFICATION FairSpec
CONSTANTS
  i1 = i1
  i2 = i2
  r1 = r1
  r2 = r2
  m1 = m1
  m2 = m2
  m3 = m3
  h1 = h1
  h2 = h2
  Ids = {i1}
  RMs = {r1}
  Machines = {m1}
  Home <- HomeOneRM
  HostOrder <- OneHost
  Demands <- EachAllHosts
  CanServe <- ServeAll
  TTL = 1
  Grace = 1
  Slow = {"pass", "release", "fulfil"}
  Faults = {"lost", "cut_release", "abandon"}
  Clients = {"release", "retry"}
  MaxCrashes = 1
  NoRec = NoRec
  NoRM = NoRM
  NoUpd = NoUpd
  NoId = NoId
  Free = Free
PROPERTIES EveryRecordRemoved
CHECK_DEADLOCK FALSE
