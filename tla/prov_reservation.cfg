SPECIFICATION Spec
CONSTANTS
  i1 = i1
  i2 = i2
  r1 = r1
  r2 = r2
  m1 = m1
  m2 = m2
  m3 = m3
  h1 = h1
  h2 = h2
  Ids = {i1, i2}
  RMs = {r1}
  Machines = {m1}
  Home <- HomeOneRM
  HostOrder <- OneHost
  Demands <- EachOneHost
  CanServe <- ServeAll
  TTL = 2
  Grace = 1
  Slow = {"fulfil"}
  Faults = {"lost", "crash"}
  Clients = {"heartbeat", "release"}
  MaxCrashes = 1
  NoRec = NoRec
  NoRM = NoRM
  NoUpd = NoUpd
  NoId = NoId
  Free = Free
INVARIANTS TypeOK LiveReservationHeld
PROPERTIES RemovedWhenFreed LiveUndisturbed
SYMMETRY IdSymmetry
CHECK_DEADLOCK FALSE
