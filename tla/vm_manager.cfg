SPECIFICATION FairSpec
CONSTANTS
  m1 = m1
  m2 = m2
  n1 = n1
  i1 = i1
  i2 = i2
  VMs = {1, 2, 3, 4}
  Macs = {m1, m2}
  MacOf <- MCMacOf
  Parts <- MCParts
  Bridged = {3}
  Devices = {n1}
  Addrs = {i1, i2}
  Faults <- MCFaults
  NoDevice = NoDevice
  NoAddr = NoAddr
INVARIANTS TypeOK DeviceOfOne AddressesUnique UpIsWhole OnlyLateFilesStay OnlyLateEntriesStay
PROPERTIES LifecycleSpec CreationEnds
CHECK_DEADLOCK FALSE
