\* One user, and a tick may hit the code of the scheduler.
SPECIFICATION FairSpec
CONSTANTS
  Contexts = {scheduler, idle, u1}
  Scheduler = scheduler
  Idle = idle
  u1 = u1
  u2 = u2
  u3 = u3
  Interrupts = {clock}
  Clock = clock
  Nobody = Nobody
  Order <- OrderA
  Daemons = {idle}
  DependsOn <- NoDependency
  TimerClients = {u1}
  Protocols = {"udp"}
  Yields = {TRUE}
  QueueLen = 2
  IfaceLen = 1
  InterruptsInScheduler = TRUE
PROPERTY
  MessageBringsSchedulerBack
CHECK_DEADLOCK FALSE
