------------------------------- MODULE Kernel -------------------------------
(***************************************************************************)
(* Contexts, their mailboxes and the interrupts of the kernel              *)
(* (kernel/contextK.c, packetK.c, interruptsK.c).                          *)
(*                                                                         *)
(* One processor runs one context at a time.  A context keeps it until it  *)
(* yields, waits for a packet or exits, or until an interrupt comes in     *)
(* while its interrupt flag is set: the kernel turns the interrupt into a  *)
(* packet for the context that registered for it, and switches to that     *)
(* context if its `blocking' flag is up.  Every call runs with interrupts  *)
(* disabled, so it is one step; a call that gives the processor away in    *)
(* its middle (PackosPacketReceiveOrYieldTo) is two.  PackosKernelContext- *)
(* Exit disables them only when it yields: it is four steps, and an        *)
(* interrupt between two of them may take the processor from the context   *)
(* for good, with its address still registered.                            *)
(*                                                                         *)
(* Calls that fail without changing anything (no packet left, queue full,  *)
(* address unreachable, interrupt taken) are not listed as actions.        *)
(* Contexts use the packets they hold, as the declarations of packet.h ask *)
(* them to: nobody sends or frees a packet after passing it on.            *)
(***************************************************************************)
EXTENDS Integers, Sequences

CONSTANTS Contexts,     \* the contexts that were created before the loop
          Scheduler,    \* the one PackosKernelLoop starts
          Idle,         \* the one PackosSetIdleContext installed
          Packets,      \* the entries of the packet pool
          Interrupts,   \* interrupt ids, the clock's among them
          QueueLen,     \* PACKOS_PACKET_QUEUE_LEN
          Nobody

ASSUME KernelAssumption ==
  /\ Scheduler \in Contexts
  /\ Idle \in Contexts \ {Scheduler}
  /\ Nobody \notin Contexts
  /\ QueueLen \in Nat \ {0}

VARIABLES current,      \* currentContext
          blocking,     \* contexts whose os.blocking is set
          finished,     \* contexts whose os.finished is set
          queue,        \* os.queue, oldest packet first
          pc,           \* "recv": gave the processor away inside of
                        \* PackosPacketReceiveOrYieldTo; "finished",
                        \* "unflagged", "gone": how far it is with its exit
                        \* ("gone": the address is unregistered); "run": in
                        \* its own code
          held,         \* the packets a context has a pointer to
          free,         \* the packets in the pool
          lost,         \* packets that nobody has a pointer to any more
          handler,      \* registeredById[i]: who gets interrupt i
          enabled,      \* the interrupt flag in the context's EFLAGS
          halted        \* the processor executed cli; hlt

packetVars == <<queue, held, free, lost>>
vars == <<current, blocking, finished, packetVars, pc, handler, enabled, halted>>

\* PackosKernelLoop has just loaded the scheduler.
Init ==
  /\ current = Scheduler
  /\ blocking = {}
  /\ finished = {}
  /\ queue = [c \in Contexts |-> << >>]
  /\ pc = [c \in Contexts |-> "run"]
  /\ held = [c \in Contexts |-> {}]
  /\ free = Packets
  /\ lost = {}
  /\ handler = [i \in Interrupts |-> Nobody]
  /\ enabled = [c \in Contexts |-> TRUE]
  /\ halted = FALSE

\* c executes its own code, outside of the kernel.
Running(c) == current = c /\ pc[c] = "run" /\ ~halted

\* The contexts that call the kernel: the idle context is an empty loop.
Callers == Contexts \ {Idle}

-----------------------------------------------------------------------------
(* PackosKernelContextYieldTo, called by `from'.                            *)

\* Variant for the runs to reject: the scheduler's own turn is not passed on.
SwitchToSelf(from, to) ==
  IF Scheduler \in finished \/ to \notin Contexts \ finished
  THEN halted' = TRUE /\ UNCHANGED current
  ELSE current' = to /\ UNCHANGED halted

\* Variant to reject: whether `to' has finished is not asked.
SwitchToFinished(from, to) ==
  IF Scheduler \in finished \/ to \notin Contexts
  THEN halted' = TRUE /\ UNCHANGED current
  ELSE /\ current' = IF to # from THEN to
                     ELSE IF from = Scheduler THEN Idle ELSE from
       /\ UNCHANGED halted

Switch(from, to) ==
  IF Scheduler \in finished \/ to \notin Contexts \ finished
  THEN halted' = TRUE /\ UNCHANGED current
  ELSE /\ current' = IF to # from THEN to
                     ELSE IF from = Scheduler THEN Idle ELSE from
       /\ UNCHANGED halted

Yield(c) ==
  /\ Running(c)
  /\ Switch(c, Scheduler)
  /\ UNCHANGED <<blocking, finished, packetVars, pc, handler, enabled>>

\* PackosContextYieldTo: "Only for the scheduler" (context.h).
YieldTo(to) ==
  /\ Running(Scheduler)
  /\ Switch(Scheduler, to)
  /\ UNCHANGED <<blocking, finished, packetVars, pc, handler, enabled>>

\* PackosKernelContextExit, one assignment or call after the other.  The
\* packets c holds or has in its queue stay where they are, and so does its
\* registration for interrupts.
Exiting(c, here) == current = c /\ pc[c] = here /\ ~halted

Finish(c) ==
  /\ Running(c)
  /\ finished' = finished \cup {c}
  /\ pc' = [pc EXCEPT ![c] = "finished"]
  /\ UNCHANGED <<current, blocking, packetVars, handler, enabled, halted>>

Unflag(c) ==
  /\ Exiting(c, "finished")
  /\ blocking' = blocking \ {c}
  /\ pc' = [pc EXCEPT ![c] = "unflagged"]
  /\ UNCHANGED <<current, finished, packetVars, handler, enabled, halted>>

Unregister(c) ==
  /\ Exiting(c, "unflagged")
  /\ pc' = [pc EXCEPT ![c] = "gone"]
  /\ UNCHANGED <<current, blocking, finished, packetVars, handler, enabled, halted>>

Leave(c) ==
  /\ Exiting(c, "gone")
  /\ Switch(c, Scheduler)
  /\ UNCHANGED <<blocking, finished, packetVars, pc, handler, enabled>>

Exit(c) == Finish(c) \/ Unflag(c) \/ Unregister(c) \/ Leave(c)

-----------------------------------------------------------------------------
(* Packets *)

Alloc(c) ==
  /\ Running(c)
  /\ \E p \in free : /\ free' = free \ {p}
                     /\ held' = [held EXCEPT ![c] = @ \cup {p}]
  /\ UNCHANGED <<current, blocking, finished, queue, lost, pc, handler, enabled, halted>>

Free(c) ==
  /\ Running(c)
  /\ \E p \in held[c] : /\ free' = free \cup {p}
                        /\ held' = [held EXCEPT ![c] = @ \ {p}]
  /\ UNCHANGED <<current, blocking, finished, queue, lost, pc, handler, enabled, halted>>

\* Freeing what is free already returns without restoring the flag.
FreeAgain(c) ==
  /\ Running(c)
  /\ free # {}
  /\ enabled' = [enabled EXCEPT ![c] = FALSE]
  /\ UNCHANGED <<current, blocking, finished, packetVars, pc, handler, halted>>

\* Variant to reject: an address is never unregistered.
CanReceiveFinished(d) == Len(queue[d]) < QueueLen

\* The address of d is registered and its queue has room.  Nothing asks
\* whether d has finished.
CanReceive(d) == pc[d] # "gone" /\ Len(queue[d]) < QueueLen

\* Variant to reject: the flag is cleared only when the sender yields.
DeliverWithoutWaking(from, p, d, yieldToRecipient) ==
  /\ CanReceive(d)
  /\ queue' = [queue EXCEPT ![d] = Append(@, p)]
  /\ IF d \in blocking /\ yieldToRecipient
     THEN blocking' = blocking \ {d} /\ Switch(from, d)
     ELSE UNCHANGED <<blocking, current, halted>>

\* PackosPacketSendFromKernel, when it succeeds.
Deliver(from, p, d, yieldToRecipient) ==
  /\ CanReceive(d)
  /\ queue' = [queue EXCEPT ![d] = Append(@, p)]
  /\ blocking' = blocking \ {d}
  /\ IF d \in blocking /\ yieldToRecipient
     THEN Switch(from, d)
     ELSE UNCHANGED <<current, halted>>

Send(c, p, d, yieldToRecipient) ==
  /\ Running(c)
  /\ p \in held[c]
  /\ held' = [held EXCEPT ![c] = @ \ {p}]
  /\ Deliver(c, p, d, yieldToRecipient)
  /\ UNCHANGED <<finished, free, lost, pc, handler, enabled>>

\* Variant to reject: the ring's offset is not advanced.
TakeCopy(c) ==
  /\ held' = [held EXCEPT ![c] = @ \cup {Head(queue[c])}]
  /\ UNCHANGED queue

\* PackosKernelContextExtractPacket on a queue that is not empty.
Take(c) ==
  /\ held' = [held EXCEPT ![c] = @ \cup {Head(queue[c])}]
  /\ queue' = [queue EXCEPT ![c] = Tail(@)]

ReceiveQueued(c) ==
  /\ Running(c)
  /\ queue[c] # << >>
  /\ Take(c)
  /\ UNCHANGED <<current, blocking, finished, free, lost, pc, handler, enabled, halted>>

\* The first half of PackosPacketReceiveOrYieldTo with nothing queued;
\* PackosPacketReceive passes no context, and yields to the scheduler; only
\* the scheduler names one ("For use by the scheduler only", packet.h).
ReceiveWait(c, context) ==
  /\ Running(c)
  /\ queue[c] = << >>
  /\ context \notin finished \cup blocking
  /\ blocking' = blocking \cup {c}
  /\ pc' = [pc EXCEPT ![c] = "recv"]
  /\ Switch(c, IF context = Nobody THEN Scheduler ELSE context)
  /\ UNCHANGED <<finished, packetVars, handler, enabled>>

\* The second half: c has the processor again.  It takes a packet, or returns
\* ContextYieldedBack (NoPacketAvail), and then leaves its flag as it is.
Resume(c) ==
  /\ current = c /\ pc[c] = "recv" /\ ~halted
  /\ pc' = [pc EXCEPT ![c] = "run"]
  /\ IF queue[c] # << >> THEN Take(c) ELSE UNCHANGED <<queue, held>>
  /\ UNCHANGED <<current, blocking, finished, free, lost, handler, enabled, halted>>

-----------------------------------------------------------------------------
(* Interrupts *)

RegisterFor(c, i) ==
  /\ Running(c)
  /\ handler[i] = Nobody
  /\ handler' = [handler EXCEPT ![i] = c]
  /\ UNCHANGED <<current, blocking, finished, packetVars, pc, enabled, halted>>

UnregisterFor(c, i) ==
  /\ Running(c)
  /\ handler[i] = c
  /\ handler' = [handler EXCEPT ![i] = Nobody]
  /\ UNCHANGED <<current, blocking, finished, packetVars, pc, enabled, halted>>

\* PackosKernelSetIdleContext refuses other callers than the scheduler, and
\* returns without restoring the interrupt flag.
SetIdleDenied(c) ==
  /\ Running(c)
  /\ c # Scheduler
  /\ enabled' = [enabled EXCEPT ![c] = FALSE]
  /\ UNCHANGED <<current, blocking, finished, packetVars, pc, handler, halted>>

\* An interrupt comes in while a context runs its own code or exits, and a
\* packet can be allocated for it; if none can the interrupt is dropped.
Interrupted(p) ==
  /\ pc[current] # "recv" /\ ~halted
  /\ enabled[current]
  /\ p \in free

\* Nobody registered: the packet is not freed.
IrqUnhandled(i) ==
  \E p \in Packets :
    /\ Interrupted(p)
    /\ handler[i] = Nobody
    /\ free' = free \ {p}
    /\ lost' = lost \cup {p}
    /\ UNCHANGED <<current, blocking, finished, queue, held, pc, handler, enabled, halted>>

IrqDelivered(i) ==
  \E p \in Packets :
    /\ Interrupted(p)
    /\ handler[i] # Nobody
    /\ Deliver(current, p, handler[i], TRUE)
    /\ free' = free \ {p}
    /\ UNCHANGED <<finished, held, lost, pc, handler, enabled>>

\* The handler is gone or its queue is full: the packet is freed and the
\* processor stops.
IrqUndeliverable(i) ==
  \E p \in Packets :
    /\ Interrupted(p)
    /\ handler[i] # Nobody
    /\ ~CanReceive(handler[i])
    /\ halted' = TRUE
    /\ UNCHANGED <<current, blocking, finished, packetVars, pc, handler, enabled>>

\* sendTickPacket and PackosKernelIRQHandler do the same.
Irq(i) == IrqUnhandled(i) \/ IrqDelivered(i) \/ IrqUndeliverable(i)

-----------------------------------------------------------------------------
PacketCall(c) ==
  \/ Alloc(c) \/ Free(c) \/ FreeAgain(c)
  \/ \E p \in Packets, d \in Contexts, y \in BOOLEAN : Send(c, p, d, y)
  \/ ReceiveQueued(c)
  \/ ReceiveWait(c, Nobody)
  \/ Resume(c)

ContextCall(c) == Yield(c) \/ Exit(c) \/ SetIdleDenied(c)

InterruptCall(c) == \E i \in Interrupts : RegisterFor(c, i) \/ UnregisterFor(c, i)

Next ==
  \/ \E c \in Callers : PacketCall(c) \/ ContextCall(c) \/ InterruptCall(c)
  \/ \E to \in Contexts : YieldTo(to) \/ ReceiveWait(Scheduler, to)
  \/ YieldTo(Nobody)
  \/ \E i \in Interrupts : Irq(i)

Spec == Init /\ [][Next]_vars

-----------------------------------------------------------------------------
(* Properties *)

TypeOK ==
  /\ current \in Contexts
  /\ blocking \subseteq Contexts
  /\ finished \subseteq Contexts
  /\ queue \in [Contexts -> Seq(Packets)]
  /\ \A c \in Contexts : Len(queue[c]) <= QueueLen
  /\ pc \in [Contexts -> {"run", "recv", "finished", "unflagged", "gone"}]
  /\ held \in [Contexts -> SUBSET Packets]
  /\ free \subseteq Packets
  /\ lost \subseteq Packets
  /\ handler \in [Interrupts -> Contexts \cup {Nobody}]
  /\ enabled \in [Contexts -> BOOLEAN]
  /\ halted \in BOOLEAN

InQueue(p, c) == \E k \in 1 .. Len(queue[c]) : queue[c][k] = p

\* Every packet of the pool is in exactly one place: free, in one position of
\* one mailbox, in the hands of one context, or lost to an interrupt nobody
\* registered for.  Sending, taking and every failure path of an interrupt
\* neither duplicate a packet nor drop one.
OnePlace ==
  /\ \A p \in Packets :
       \/ p \in free \/ p \in lost
       \/ \E c \in Contexts : p \in held[c] \/ InQueue(p, c)
  /\ free \cap lost = {}
  /\ \A c \in Contexts :
       /\ held[c] \cap (free \cup lost) = {}
       /\ \A j, k \in 1 .. Len(queue[c]) : queue[c][j] = queue[c][k] => j = k
       /\ \A p \in free \cup lost : ~InQueue(p, c)
       /\ \A d \in Contexts :
            /\ \A p \in held[d] : ~InQueue(p, c)
            /\ c # d => /\ held[c] \cap held[d] = {}
                        /\ \A p \in Packets : ~(InQueue(p, c) /\ InQueue(p, d))

\* No lost wakeup: a context whose flag says that it waits for a packet has
\* none, whoever sent it one, an interrupt included, and whether or not the
\* sender yielded.
NoLostWakeup == \A c \in blocking : queue[c] = << >>

\* A context that gave the processor away inside of a receive is either still
\* flagged, so that the next packet for it wakes it, or has its packet.
SleepersAreKnown ==
  \A c \in Contexts :
    pc[c] = "recv" /\ current # c => c \in blocking \/ queue[c] # << >>

\* A context has finished exactly when it is in its exit, which is after any
\* receive, and its flag is up at most until the second step.
FinishedIsExiting ==
  \A c \in Contexts :
    /\ c \in finished <=> pc[c] \in {"finished", "unflagged", "gone"}
    /\ c \in finished \cap blocking => pc[c] = "finished"

\* Seen from a scheduler, without the packets, every step is one of Processor.
Seen == INSTANCE Processor WITH pending <- [c \in Contexts |-> Len(queue[c])]
ImplementsProcessor == Seen!Spec

\* What a context that finished leaves behind stays as it is.  One that an
\* interrupt took the processor from in the middle of its exit never has it
\* again, so that it never unregisters its address; nobody reads its mailbox
\* or uses the packets it holds; and its mailbox grows at most until the
\* address is unregistered.
FinishedLeavesAll ==
  [][\A c \in finished :
       /\ current # c => current' # c /\ pc'[c] = pc[c]
       /\ held'[c] = held[c]
       /\ \/ queue'[c] = queue[c]
          \/ pc[c] # "gone" /\ \E p \in Packets : queue'[c] = Append(queue[c], p)]_vars
=============================================================================
