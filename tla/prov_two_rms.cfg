SPECIFICATION Spec
CONSTANTS
  i1 = i1
  i2 = i2
  r1 = r1
  r2 = r2
  m1 = m1
  m2 = m2
  m3 = m3
  h1 = h1
  h2 = h2
  Ids = {i1}
  RMs = {r1, r2}
  Machines = {m1, m2}
  Home <- Home2
  HostOrder <- TwoHosts
  Demands <- EachAllHosts
  CanServe <- ServeOneEach
  TTL = 2
  Grace = 1
  Slow = {}
  Faults = {}
  Clients = {}
  MaxCrashes = 1
  NoRec = NoRec
  NoRM = NoRM
  NoUpd = NoUpd
  NoId = NoId
  Free = Free
PROPERTY ReplyCoversDemands
CHECK_DEADLOCK FALSE
