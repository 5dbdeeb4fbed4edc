\* Interrupts of the clock and of a device at any time, stray packets.
SPECIFICATION Spec
CONSTANTS
  Contexts = {scheduler, idle, u1, u2}
  Scheduler = scheduler
  Idle = idle
  u1 = u1
  u2 = u2
  u3 = u3
  Interrupts = {clock, device}
  Clock = clock
  Nobody = Nobody
  Order <- OrderAB
  Daemons = {idle, u2}
  DependsOn <- NoDependency
  TimerClients = {u1}
  Protocols = {"udp", "unbound", "other"}
  Yields = {TRUE, FALSE}
  QueueLen = 2
  IfaceLen = 1
  InterruptsInScheduler = TRUE
INVARIANTS
  EachQueuedOnce
  AliveIsCounted
  BlockingMeansWaiting
  ChosenCanRun
  TickBringsSchedulerBack
CHECK_DEADLOCK FALSE
