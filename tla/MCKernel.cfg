\* The scheduler, the idle context, one user context and a driver.
SPECIFICATION Spec
CONSTANTS
  Contexts = {scheduler, idle, user, driver}
  Scheduler = scheduler
  Idle = idle
  Packets = {p1, p2, p3}
  Interrupts = {clock}
  QueueLen = 2
  Nobody = Nobody
INVARIANTS
  OnePlace
  NoLostWakeup
PROPERTIES
  ImplementsProcessor
  FinishedLeavesAll
SYMMETRY Symmetry
CHECK_DEADLOCK FALSE
