------------------------------ MODULE Scheduler ------------------------------
(***************************************************************************)
(* The basic round-robin scheduler (libs/scheduler/basic.c) on the kernel  *)
(* (module Processor), with the part of the IP library it receives through *)
(* (udp.c, ip.c, iface-native.c).                                          *)
(*                                                                         *)
(* The scheduler is a context like the others, and its loop runs with      *)
(* interrupts enabled.  Each pass offers the processor to the context at   *)
(* the head of its queue with PackosPacketReceiveOrYieldTo: the kernel     *)
(* comes back to the scheduler when a packet arrives for it, a clock tick  *)
(* above all, or when that context yields.  Whatever happened, the context *)
(* then goes to the back of the queue.                                     *)
(*                                                                         *)
(* The user contexts are any programs that make no call that would leave   *)
(* their interrupts disabled.                                              *)
(***************************************************************************)
EXTENDS Integers, Sequences, FiniteSets

CONSTANTS Contexts, Scheduler, Idle, Interrupts, QueueLen, Nobody,
          Clock,          \* the interrupt the scheduler registered for
          Order,          \* the users as SchedulerCallbackCreateProcesses left them
          Daemons,        \* contexts whose metadata says isDaemon
          DependsOn,      \* metadata->dependsOn, Nobody if NULL
          TimerClients,   \* contexts that the timer server may notify
          Protocols,      \* what users send to the scheduler: "udp", for a port
                          \* it listens on or not ("unbound"), or "other"
          Yields,         \* what users pass as yieldToRecipient
          IfaceLen,       \* capacity of the interface's packet queue
          InterruptsInScheduler \* interrupts may hit the scheduler's own code

Users == Contexts \ {Scheduler, Idle}

ASSUME SchedulerAssumption ==
  /\ Scheduler \in Contexts
  /\ Idle \in Contexts \ {Scheduler}
  /\ Nobody \notin Contexts
  /\ {"tick", "udp", "other"} \cap Contexts = {}
  /\ QueueLen \in Nat \ {0} /\ IfaceLen \in Nat \ {0}
  /\ Clock \in Interrupts
  /\ Order \in Seq(Users)
  /\ \A c \in Users : \E k \in 1 .. Len(Order) : Order[k] = c
  /\ \A j, k \in 1 .. Len(Order) : Order[j] = Order[k] => j = k
  /\ Idle \in Daemons /\ Daemons \subseteq Contexts \ {Scheduler}
  /\ DependsOn \in [Users -> Users \cup {Nobody}]
  /\ TimerClients \subseteq Users
  /\ Protocols \subseteq {"udp", "unbound", "other"}
  /\ Yields \subseteq BOOLEAN
  /\ InterruptsInScheduler \in BOOLEAN

VARIABLES current, blocking, finished, pending, pc, handler, enabled, halted,
          at,         \* where the scheduler's loop is
          ready,      \* its queue of contexts
          alive,      \* numNonDaemons
          started,    \* contexts whose metadata says isRunning
          mail,       \* what the packets in the scheduler's mailbox are; for a
                      \* UDP packet to a port nobody is bound to, its sender
          answerTo,   \* the sender of such a packet, until it is answered
          strays      \* packets of other protocols queued on the interface

K == INSTANCE Processor

kernel == <<current, blocking, finished, pending, pc, handler, enabled, halted>>
queues == <<ready, alive, started>>
loop == <<at, queues, strays, answerTo>>
vars == <<kernel, loop, mail>>

\* The scheduler registered for the clock, created the processes and the idle
\* context, and starts its loop.
Init ==
  /\ current = Scheduler
  /\ blocking = {}
  /\ finished = {}
  /\ pending = [c \in Contexts |-> 0]
  /\ pc = [c \in Contexts |-> "run"]
  /\ handler = [i \in Interrupts |-> IF i = Clock THEN Scheduler ELSE Nobody]
  /\ enabled = [c \in Contexts |-> TRUE]
  /\ halted = FALSE
  /\ at = "test"
  /\ ready = Order \o <<Idle>>
  /\ alive = Cardinality(Users \ Daemons)
  /\ started = {Idle} \cup {c \in Users : DependsOn[c] = Nobody}
  /\ mail = << >>
  /\ strays = 0
  /\ answerTo = Nobody

Cur == Head(ready)

\* A step of the scheduler's own code, between two calls of the kernel.
SchedulerRuns(here) ==
  /\ K!Running(Scheduler)
  /\ at = here

-----------------------------------------------------------------------------
(* The loop (basic.c) *)

LoopTest ==
  /\ SchedulerRuns("test")
  /\ at' = IF Len(ready) > 1 /\ alive > 0 THEN "skip" ELSE "return"
  /\ UNCHANGED <<kernel, mail, queues, strays, answerTo>>

\* SchedulerBasic returns, and its context exits.
Return ==
  /\ at = "return"
  /\ K!Exit(Scheduler)
  /\ UNCHANGED <<loop, mail>>

\* Variant for the runs to reject: a context that waits is offered a slice.
SkippableNotStarted(c) == c \notin started

Skippable(c) == c \notin started \/ c \in blocking

\* PackosContextQueueRemove and PackosContextQueueAppend of the same context.
Rotated(queue) == Tail(queue) \o <<Head(queue)>>

\* (The idle context is never skippable, so the search for another one ends.)
Skip ==
  /\ SchedulerRuns("skip")
  /\ Skippable(Cur)
  /\ ready' = Rotated(ready)
  /\ UNCHANGED <<kernel, mail, at, alive, started, strays, answerTo>>

\* The head leaves the queue for good.
Drop ==
  /\ ready' = Tail(ready)
  /\ alive' = IF Cur \in Daemons THEN alive ELSE alive - 1

Remove ==
  /\ SchedulerRuns("skip")
  /\ ~Skippable(Cur)
  /\ Cur \in finished
  /\ Drop
  /\ at' = "test"
  /\ UNCHANGED <<kernel, mail, started, strays, answerTo>>

Choose ==
  /\ SchedulerRuns("skip")
  /\ ~Skippable(Cur)
  /\ Cur \notin finished
  /\ at' = "receive"
  /\ UNCHANGED <<kernel, mail, queues, strays, answerTo>>

\* Variant for the runs to reject: appended before it is removed, and the
\* removal skipped.
RotateWithoutRemove ==
  /\ SchedulerRuns("rotate")
  /\ IF Cur \in finished
     THEN Drop
     ELSE Len(ready) <= Cardinality(Contexts) /\ ready' = ready \o <<Cur>> /\ UNCHANGED alive
  /\ at' = "test"
  /\ UNCHANGED <<kernel, mail, started, strays, answerTo>>

\* Variant to reject: every context that exits is counted.
RotateCountingDaemons ==
  /\ SchedulerRuns("rotate")
  /\ IF Cur \in finished
     THEN ready' = Tail(ready) /\ alive' = alive - 1
     ELSE ready' = Tail(ready) \o <<Cur>> /\ UNCHANGED alive
  /\ at' = "test"
  /\ UNCHANGED <<kernel, mail, started, strays, answerTo>>

\* Variant to reject: who just ran stays at the head.
RotateNot ==
  /\ SchedulerRuns("rotate")
  /\ IF Cur \in finished THEN Drop ELSE UNCHANGED <<ready, alive>>
  /\ at' = "test"
  /\ UNCHANGED <<kernel, mail, started, strays, answerTo>>

Rotate ==
  /\ SchedulerRuns("rotate")
  /\ IF Cur \in finished
     THEN Drop
     ELSE ready' = Rotated(ready) /\ UNCHANGED alive
  /\ at' = "test"
  /\ UNCHANGED <<kernel, mail, started, strays, answerTo>>

-----------------------------------------------------------------------------
(* UdpSocketReceive(tickSocket, 0, true, ...)                              *)

\* The oldest packet of the mailbox goes up through the stack.  A tick comes
\* out at the tick socket; another UDP packet is left on its own socket and
\* ends the call, or is answered first if no socket has its port; a packet of
\* another protocol (a TCP segment, say) is queued on the interface, before
\* any filter sees it, and the interface receives again, naming no context
\* this time.  When the interface's queue is full the error ends the scheduler.
Classify ==
  /\ mail' = Tail(mail)
  /\ \/ Head(mail) = "tick" /\ at' = "tick" /\ UNCHANGED <<strays, answerTo>>
     \/ Head(mail) = "udp" /\ at' = "rotate" /\ UNCHANGED <<strays, answerTo>>
     \/ /\ Head(mail) \in Users
        /\ at' = "answer"
        /\ answerTo' = Head(mail)
        /\ UNCHANGED strays
     \/ /\ Head(mail) = "other" /\ strays < IfaceLen
        /\ strays' = strays + 1
        /\ at' = "receiveAgain"
        /\ UNCHANGED answerTo
     \/ /\ Head(mail) = "other" /\ strays = IfaceLen
        /\ at' = "return"
        /\ UNCHANGED <<strays, answerTo>>

\* IcmpSendDestinationUnreachable.  When the sender has exited meanwhile, or
\* its mailbox is full, the error becomes that of UdpSocketReceive.
Answer ==
  /\ SchedulerRuns("answer")
  /\ \/ K!Send(Scheduler, answerTo, FALSE) /\ at' = "rotate"
     \/ ~K!CanReceive(answerTo) /\ at' = "return" /\ UNCHANGED kernel
  /\ answerTo' = Nobody
  /\ UNCHANGED <<mail, queues, strays>>

ReceiveQueued ==
  /\ SchedulerRuns("receive") \/ SchedulerRuns("receiveAgain")
  /\ K!ReceiveQueued(Scheduler)
  /\ Classify
  /\ UNCHANGED queues

\* (ContextFinished and YieldedToBlocked do not happen: see ChosenCanRun.)
Give ==
  /\ SchedulerRuns("receive")
  /\ K!ReceiveWait(Scheduler, Cur)
  /\ at' = "given"
  /\ UNCHANGED <<mail, queues, strays, answerTo>>

GiveAgain ==
  /\ SchedulerRuns("receiveAgain")
  /\ K!ReceiveWait(Scheduler, Nobody)
  /\ at' = "givenAgain"
  /\ UNCHANGED <<mail, queues, strays, answerTo>>

\* With no packet the first receive returns ContextYieldedBack, which counts
\* as the end of the slice, and the second NoPacketAvail, which does not.
Back ==
  /\ K!Resume(Scheduler)
  /\ IF mail # << >>
     THEN Classify
     ELSE /\ at' = IF at = "given" THEN "rotate" ELSE "return"
          /\ UNCHANGED <<mail, strays, answerTo>>
  /\ UNCHANGED queues

-----------------------------------------------------------------------------
(* A tick: TimerServerTick and SchedulerControlServerPoll.  The control     *)
(* server's TCP connections are external: any request may come, or fail.    *)
(* (A timer of the scheduler itself stays inside of the UDP library.)      *)

Notify(d) ==
  /\ SchedulerRuns("tick")
  /\ K!Send(Scheduler, d, FALSE)
  /\ UNCHANGED <<loop, mail>>

\* The recipient has exited or its mailbox is full: the packet is freed twice,
\* and the second call returns with interrupts disabled.
NotifyFails(d) ==
  /\ SchedulerRuns("tick")
  /\ ~K!CanReceive(d)
  /\ K!LeaveDisabled(Scheduler)
  /\ UNCHANGED <<loop, mail>>

\* Context c reported that it is initialised.
Activate(c) ==
  /\ SchedulerRuns("tick")
  /\ started' = started \cup {d \in Users : DependsOn[d] = c}
  /\ UNCHANGED <<kernel, mail, at, ready, alive, strays, answerTo>>

\* A connection from a context that is not in the queue, or one that cannot
\* be closed: SchedulerBasic gives up.
PollFailed ==
  /\ SchedulerRuns("tick")
  /\ at' = "return"
  /\ UNCHANGED <<kernel, mail, queues, strays, answerTo>>

EndTick ==
  /\ SchedulerRuns("tick")
  /\ at' = "rotate"
  /\ UNCHANGED <<kernel, mail, queues, strays, answerTo>>

SchedulerNext ==
  \/ LoopTest \/ Return \/ Skip \/ Remove \/ Choose \/ Rotate
  \/ ReceiveQueued \/ Give \/ GiveAgain \/ Back \/ Answer
  \/ \E d \in TimerClients : Notify(d) \/ NotifyFails(d)
  \/ \E c \in Users : Activate(c)
  \/ PollFailed \/ EndTick

-----------------------------------------------------------------------------
(* The rest of the machine *)

UserNext(c) ==
  /\ \/ K!Yield(c) \/ K!Exit(c)
     \/ K!ReceiveQueued(c) \/ K!ReceiveWait(c, Nobody) \/ K!Resume(c)
     \/ \E d \in Users, y \in Yields : K!Send(c, d, y)
     \/ \E i \in Interrupts : K!RegisterFor(c, i) \/ K!UnregisterFor(c, i)
  /\ UNCHANGED <<loop, mail>>

Ask(c, protocol) ==
  /\ \E y \in Yields : K!Send(c, Scheduler, y)
  /\ mail' = Append(mail, IF protocol = "unbound" THEN c ELSE protocol)
  /\ UNCHANGED loop

Tick ==
  /\ current = Scheduler => InterruptsInScheduler
  /\ K!Irq(Clock)
  /\ mail' = IF K!CanReceive(Scheduler) THEN Append(mail, "tick") ELSE mail
  /\ UNCHANGED loop

DeviceInterrupt(i) ==
  /\ current = Scheduler => InterruptsInScheduler
  /\ i # Clock
  /\ K!Irq(i)
  /\ UNCHANGED <<loop, mail>>

Next ==
  \/ SchedulerNext
  \/ \E c \in Users : UserNext(c) \/ \E protocol \in Protocols : Ask(c, protocol)
  \/ Tick
  \/ \E i \in Interrupts : DeviceInterrupt(i)

\* The processor executes what is next, and the clock keeps ticking.  Nothing
\* is assumed of the users, which may compute forever: only the second half of
\* a receive, kernel code with interrupts disabled, is sure to finish.
Fairness ==
  /\ WF_vars(SchedulerNext)
  /\ WF_vars(Tick)
  /\ \A c \in Users : WF_vars(K!Resume(c) /\ UNCHANGED <<loop, mail>>)

Spec == Init /\ [][Next]_vars
FairSpec == Spec /\ Fairness

-----------------------------------------------------------------------------
(* Properties *)

InReady(c) == \E k \in 1 .. Len(ready) : ready[k] = c

\* The queue has every context that has not exited exactly once: neither a
\* preemption in the middle of the rotation nor an exit loses a context or
\* schedules it twice.
EachQueuedOnce ==
  /\ \A c \in Contexts \ {Scheduler} : c \notin finished => InReady(c)
  /\ \A j, k \in 1 .. Len(ready) : ready[j] = ready[k] => j = k

\* numNonDaemons counts the contexts in the queue that keep the system alive.
AliveIsCounted == alive = Cardinality({c \in Users \ Daemons : InReady(c)})

\* "blocking (waiting for a packet on the KAN)" (project.tex) is true of every
\* context but the scheduler: the flag the scheduler skips a context for
\* belongs to a context that is suspended in a receive with nothing to read.
BlockingMeansWaiting ==
  \A c \in blocking \ {Scheduler} :
    pc[c] = "recv" /\ current # c /\ pending[c] = 0

\* What the search found still holds when the processor is given away: no tick,
\* device or driver that runs between the two can make the head of the queue
\* wait or exit, although each may switch to other contexts.
ChosenCanRun == at = "receive" => Cur \notin finished \cup blocking

\* While the scheduler waits and another context has the processor, the next
\* tick brings it back: its flag is up, unless a user sent it a packet without
\* yielding, which stays the oldest in its mailbox.  A tick never does.
TickBringsSchedulerBack ==
  pc[Scheduler] = "recv" /\ current # Scheduler =>
    IF mail = << >> THEN Scheduler \in blocking ELSE Head(mail) # "tick"

\* A context that is ready gets the processor again and again, whatever the
\* others do: none can keep it by computing.
NoStarvation ==
  \A c \in Users :
    []<>(\/ current = c
         \/ c \in blocking \cup finished
         \/ c \notin started
         \/ Scheduler \in finished)

\* "Let so-and-so run until you have a message for me" (packet.h): when there
\* is a message for the scheduler, it runs.
MessageBringsSchedulerBack == mail # << >> ~> current = Scheduler
=============================================================================
