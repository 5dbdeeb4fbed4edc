\* One client; one end, either of them, writes more than a queue holds and more
\* than a fire sends.
SPECIFICATION FairSpec
CONSTANTS
  Clients = {c1}
  Writers = {c1}
  QueueSize = 2
  FireLen = 2
  SegmentLen = 2
  SeqSpace = 16
  FixedISN = 14
  WireLen = 2
  ClientBytes = 3
  ServerBytes = 3
  OneWay = TRUE
  MaxFaults = 1
  Nobody = Nobody
PROPERTIES
  ImplementsStream
  DataMoves
CHECK_DEADLOCK FALSE
