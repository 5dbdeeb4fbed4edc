\* Two sockets, two ports, three packets; every queue can be full.
SPECIFICATION FairSpec
CONSTANTS
  Packets = {p1, p2, p3}
  Sockets = {s1, s2}
  Ports = {n1, n2}
  QueueLen = 2
  IfaceLen = 1
  MailboxLen = 2
  NoPort = NoPort
  NoSocket = NoSocket
INVARIANTS
  OnePlace
  QueuesAreOwn
PROPERTIES
  LostOnlyWhenFull
  ImplementsPortQueues
  ReceiveReturns
CHECK_DEADLOCK FALSE
