\* Two clients, one of which exchanges data; numbers that wrap; one fault.
SPECIFICATION Spec
CONSTANTS
  Clients = {c1, c2}
  Writers = {c1}
  QueueSize = 2
  FireLen = 2
  SegmentLen = 1
  SeqSpace = 16
  FixedISN = 14
  WireLen = 2
  ClientBytes = 1
  ServerBytes = 1
  OneWay = FALSE
  MaxFaults = 1
  Nobody = Nobody
INVARIANTS
  KeptUntilReceived
  WaitingIsThere
PROPERTY
  PassiveCloseIsComplete
CHECK_DEADLOCK FALSE
