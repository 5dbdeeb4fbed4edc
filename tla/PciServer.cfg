\* Two drivers, one of which wants any device; four machines; requests that come
\* in up to two parts; one reply of the scheduler's that cannot be sent.
SPECIFICATION FairSpec
CONSTANTS
  Contexts = {pci, d1, d2}
  Pci = pci
  None = None
  Any = Any
  net = net
  disk = disk
  Kinds = {net, disk}
  DependsOn <- MCDependsOn
  Wants <- MCWants
  Machines <- MCMachines
  MaxFaults = 1
  MaxDevices = 3
  MaxBusses = 2
  MaxCards = 2
  FirstIO = 8
  Word = 64
  Half = 32
  Parts = 2
INVARIANTS
  DriversFindServer
  KeptIsOwned
  IoWindowsApart
PROPERTIES
  SoleIsServed
  ReportIsHeeded
CHECK_DEADLOCK FALSE
