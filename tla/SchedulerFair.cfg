\* Round robin and preemption; interrupts hit the contexts, not the scheduler.
SPECIFICATION FairSpec
CONSTANTS
  Contexts = {scheduler, idle, u1, u2, u3}
  Scheduler = scheduler
  Idle = idle
  u1 = u1
  u2 = u2
  u3 = u3
  Interrupts = {clock}
  Clock = clock
  Nobody = Nobody
  Order <- OrderABC
  Daemons = {idle, u3}
  DependsOn <- BAfterA
  TimerClients = {u1, u2}
  Protocols = {"udp", "unbound"}
  Yields = {TRUE}
  QueueLen = 2
  IfaceLen = 1
  InterruptsInScheduler = FALSE
PROPERTY
  NoStarvation
CHECK_DEADLOCK FALSE
