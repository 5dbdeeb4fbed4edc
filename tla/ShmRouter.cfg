\* A queue of two, three packets each way, the outside restarted once.
SPECIFICATION FairSpec
CONSTANTS
  QueueSize = 2
  MaxOut = 3
  MaxIn = 3
  MaxCrashes = 1
  Torn = Torn
INVARIANTS
  ReceivedAsPassed
  QuietMeansDrained
PROPERTY
  QueueDrains
CHECK_DEADLOCK FALSE
