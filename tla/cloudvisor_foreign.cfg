SPECIFICATION Spec
CONSTANTS
  p1 = p1
  p2 = p2
  v1 = v1
  v2 = v2
  a1 = a1
  a2 = a2
  f1 = f1
  f2 = f2
  h1 = h1
  h2 = h2
  h3 = h3
  Provs = {p1, p2}
  Visors = {v1, v2}
  ProvOf <- MCProvOf
  Main = {}
  Allocs = {a1}
  Fulfils = {f1}
  VisorOf <- MCVisorOf
  AllocOf <- MCAllocOf
  Hosts = {h1}
  FulfilOf <- MCFulfilOf
  Types <- MCTypes
  LongLasting = {}
  Old = 2
  Faults = {}
  MaxCrashes = 0
  NoHost = NoHost
INVARIANT SparesForeign
CHECK_DEADLOCK FALSE
