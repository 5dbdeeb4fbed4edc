\* Four timers of two processes; every failure.
SPECIFICATION TimersSpec
CONSTANTS
  Contexts = {a, b}
  Times <- TimesUpToThree
  Failures = {"OutOfMemory", "PacketQueueFull", "AddressUnreachable"}
  MaxRequests = 4
  MaxAge = 3
INVARIANTS
  NeverEarly
  ExactIfUndisturbed
  ShortestIsNotOvertaken
SYMMETRY Symmetry
