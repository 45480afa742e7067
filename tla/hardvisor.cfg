SPECIFICATION FairSpec
CONSTANTS
  i1 = i1
  i2 = i2
  m1 = m1
  m2 = m2
  h1 = h1
  h2 = h2
  Ids = {i1, i2}
  Machines = {m1, m2}
  Hosts = {h1, h2}
  Demands <- MCDemands
  Fits <- MCFits
  Broken = {}
  HasCert = TRUE
  MaxCrashes = 1
  Free = Free
  Api = Api
  Cleaner = Cleaner
INVARIANTS TypeOK PickedIsFree AllOrNothing
PROPERTIES PoolSpec DanglingFreed
