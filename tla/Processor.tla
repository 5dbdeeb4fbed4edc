------------------------------ MODULE Processor ------------------------------
(***************************************************************************)
(* Who has the processor: what the kernel (module Kernel) promises to a    *)
(* scheduler, without the packets.  A mailbox is the number of packets in  *)
(* it, and a caller is never short of a packet to send.                    *)
(***************************************************************************)
EXTENDS Integers

CONSTANTS Contexts, Scheduler, Idle, Interrupts, QueueLen, Nobody

VARIABLES current,      \* currentContext
          blocking,     \* contexts whose os.blocking is set
          finished,     \* contexts whose os.finished is set
          pending,      \* os.queue.numPackets
          pc,           \* "recv": suspended inside of a receive; "finished",
                        \* "unflagged", "gone": the steps of an exit
          handler,      \* the context that gets an interrupt
          enabled,      \* the interrupt flag of a context
          halted

vars == <<current, blocking, finished, pending, pc, handler, enabled, halted>>

Init ==
  /\ current = Scheduler
  /\ blocking = {}
  /\ finished = {}
  /\ pending = [c \in Contexts |-> 0]
  /\ pc = [c \in Contexts |-> "run"]
  /\ handler = [i \in Interrupts |-> Nobody]
  /\ enabled = [c \in Contexts |-> TRUE]
  /\ halted = FALSE

Running(c) == current = c /\ pc[c] = "run" /\ ~halted

\* `from' gives the processor to `to'.  The scheduler's own turn goes to the
\* idle context, and where there is nobody to turn to the machine stops.
Switch(from, to) ==
  IF Scheduler \in finished \/ to \notin Contexts \ finished
  THEN halted' = TRUE /\ UNCHANGED current
  ELSE /\ current' = IF to # from THEN to
                     ELSE IF from = Scheduler THEN Idle ELSE from
       /\ UNCHANGED halted

Yield(c) ==
  /\ Running(c)
  /\ Switch(c, Scheduler)
  /\ UNCHANGED <<blocking, finished, pending, pc, handler, enabled>>

YieldTo(to) ==
  /\ Running(Scheduler)
  /\ Switch(Scheduler, to)
  /\ UNCHANGED <<blocking, finished, pending, pc, handler, enabled>>

\* An exit: the context finishes, lowers its flag, gives up its address and
\* leaves, and interrupts come in between.
Exiting(c, here) == current = c /\ pc[c] = here /\ ~halted

Finish(c) ==
  /\ Running(c)
  /\ finished' = finished \cup {c}
  /\ pc' = [pc EXCEPT ![c] = "finished"]
  /\ UNCHANGED <<current, blocking, pending, handler, enabled, halted>>

Unflag(c) ==
  /\ Exiting(c, "finished")
  /\ blocking' = blocking \ {c}
  /\ pc' = [pc EXCEPT ![c] = "unflagged"]
  /\ UNCHANGED <<current, finished, pending, handler, enabled, halted>>

Unregister(c) ==
  /\ Exiting(c, "unflagged")
  /\ pc' = [pc EXCEPT ![c] = "gone"]
  /\ UNCHANGED <<current, blocking, finished, pending, handler, enabled, halted>>

Leave(c) ==
  /\ Exiting(c, "gone")
  /\ Switch(c, Scheduler)
  /\ UNCHANGED <<blocking, finished, pending, pc, handler, enabled>>

Exit(c) == Finish(c) \/ Unflag(c) \/ Unregister(c) \/ Leave(c)

CanReceive(d) == pc[d] # "gone" /\ pending[d] < QueueLen

\* Variant for the runs to reject: the flag is cleared only by a switch.
DeliverWithoutWaking(from, d, yieldToRecipient) ==
  /\ CanReceive(d)
  /\ pending' = [pending EXCEPT ![d] = @ + 1]
  /\ IF d \in blocking /\ yieldToRecipient
     THEN blocking' = blocking \ {d} /\ Switch(from, d)
     ELSE UNCHANGED <<blocking, current, halted>>

\* A packet arrives for d, and wakes it if it is flagged.
Deliver(from, d, yieldToRecipient) ==
  /\ CanReceive(d)
  /\ pending' = [pending EXCEPT ![d] = @ + 1]
  /\ blocking' = blocking \ {d}
  /\ IF d \in blocking /\ yieldToRecipient
     THEN Switch(from, d)
     ELSE UNCHANGED <<current, halted>>

Send(c, d, yieldToRecipient) ==
  /\ Running(c)
  /\ Deliver(c, d, yieldToRecipient)
  /\ UNCHANGED <<finished, pc, handler, enabled>>

ReceiveQueued(c) ==
  /\ Running(c)
  /\ pending[c] > 0
  /\ pending' = [pending EXCEPT ![c] = @ - 1]
  /\ UNCHANGED <<current, blocking, finished, pc, handler, enabled, halted>>

\* With `context' = Nobody, a plain receive; otherwise "let so-and-so run".
ReceiveWait(c, context) ==
  /\ Running(c)
  /\ pending[c] = 0
  /\ context \notin finished \cup blocking
  /\ blocking' = blocking \cup {c}
  /\ pc' = [pc EXCEPT ![c] = "recv"]
  /\ Switch(c, IF context = Nobody THEN Scheduler ELSE context)
  /\ UNCHANGED <<finished, pending, handler, enabled>>

Resume(c) ==
  /\ current = c /\ pc[c] = "recv" /\ ~halted
  /\ pc' = [pc EXCEPT ![c] = "run"]
  /\ pending' = [pending EXCEPT ![c] = IF @ > 0 THEN @ - 1 ELSE 0]
  /\ UNCHANGED <<current, blocking, finished, handler, enabled, halted>>

RegisterFor(c, i) ==
  /\ Running(c)
  /\ handler[i] = Nobody
  /\ handler' = [handler EXCEPT ![i] = c]
  /\ UNCHANGED <<current, blocking, finished, pending, pc, enabled, halted>>

UnregisterFor(c, i) ==
  /\ Running(c)
  /\ handler[i] = c
  /\ handler' = [handler EXCEPT ![i] = Nobody]
  /\ UNCHANGED <<current, blocking, finished, pending, pc, enabled, halted>>

\* A refused call leaves the caller's interrupts disabled.
LeaveDisabled(c) ==
  /\ Running(c)
  /\ enabled' = [enabled EXCEPT ![c] = FALSE]
  /\ UNCHANGED <<current, blocking, finished, pending, pc, handler, halted>>

\* Variant to reject: an interrupt waits for its recipient's next turn.
IrqWithoutYield(i) ==
  /\ pc[current] # "recv" /\ ~halted
  /\ enabled[current]
  /\ handler[i] # Nobody
  /\ \/ Deliver(current, handler[i], FALSE)
     \/ /\ ~CanReceive(handler[i])
        /\ halted' = TRUE
        /\ UNCHANGED <<current, blocking, pending>>
  /\ UNCHANGED <<finished, pc, handler, enabled>>

\* An interrupt that finds a handler and a packet.  (The others are dropped.)
Irq(i) ==
  /\ pc[current] # "recv" /\ ~halted
  /\ enabled[current]
  /\ handler[i] # Nobody
  /\ \/ Deliver(current, handler[i], TRUE)
     \/ /\ ~CanReceive(handler[i])
        /\ halted' = TRUE
        /\ UNCHANGED <<current, blocking, pending>>
  /\ UNCHANGED <<finished, pc, handler, enabled>>

Call(c) ==
  \/ Yield(c) \/ Exit(c) \/ LeaveDisabled(c)
  \/ \E d \in Contexts, y \in BOOLEAN : Send(c, d, y)
  \/ ReceiveQueued(c) \/ ReceiveWait(c, Nobody) \/ Resume(c)
  \/ \E i \in Interrupts : RegisterFor(c, i) \/ UnregisterFor(c, i)

Next ==
  \/ \E c \in Contexts \ {Idle} : Call(c)
  \/ \E to \in Contexts \cup {Nobody} : YieldTo(to) \/ ReceiveWait(Scheduler, to)
  \/ \E i \in Interrupts : Irq(i)

Spec == Init /\ [][Next]_vars
=============================================================================
