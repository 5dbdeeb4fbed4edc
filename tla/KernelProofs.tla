----------------------------- MODULE KernelProofs -----------------------------
(***************************************************************************)
(* Invariants of the kernel's contexts and mailboxes for every number of   *)
(* contexts, packets and interrupts and every queue length, and the proof  *)
(* that the kernel implements module Processor.                            *)
(***************************************************************************)
EXTENDS Kernel, TLAPS

\* What the properties need besides: the idle context never exits.
IdleStays == Idle \notin finished

IInv == TypeOK /\ NoLostWakeup /\ SleepersAreKnown /\ FinishedIsExiting /\ IdleStays

-----------------------------------------------------------------------------
(* Lengths *)

LEMMA TailLength ==
  ASSUME NEW S, NEW s \in Seq(S), s # << >>
  PROVE  /\ Head(s) \in S
         /\ Tail(s) \in Seq(S)
         /\ Len(s) \in Nat /\ Len(s) > 0 /\ Len(Tail(s)) = Len(s) - 1
  OBVIOUS

LEMMA AppendLength ==
  ASSUME NEW S, NEW s \in Seq(S), NEW e \in S
  PROVE  /\ Append(s, e) \in Seq(S)
         /\ Append(s, e) # << >>
         /\ Len(s) \in Nat /\ Len(Append(s, e)) = Len(s) + 1
  OBVIOUS

LEMMA EmptyLength ==
  ASSUME NEW S, NEW s \in Seq(S)
  PROVE  s = << >> <=> Len(s) = 0
  OBVIOUS

-----------------------------------------------------------------------------
(* The invariants *)

LEMMA InitIInv == Init => IInv
<1> SUFFICES ASSUME Init PROVE IInv
  OBVIOUS
<1>1. TypeOK
  <2>1. queue \in [Contexts -> Seq(Packets)] /\ \A c \in Contexts : Len(queue[c]) = 0
    <3>1. << >> \in Seq(Packets) /\ Len(<< >>) = 0
      OBVIOUS
    <3> DEFINE nothing == << >>
    <3>2. queue = [c \in Contexts |-> nothing]
      BY DEF Init
    <3> HIDE DEF nothing
    <3>3. nothing \in Seq(Packets) /\ Len(nothing) = 0
      BY <3>1 DEF nothing
    <3>4. QED
      BY <3>2, <3>3
  <2>2. \A c \in Contexts : Len(queue[c]) <= QueueLen
    <3>1. 0 <= QueueLen
      BY KernelAssumption
    <3>2. QED
      BY <2>1, <3>1, Zenon
  <2>3. QED
    BY <2>1, <2>2, KernelAssumption DEF Init, TypeOK
<1>2. NoLostWakeup /\ SleepersAreKnown /\ FinishedIsExiting /\ IdleStays
  BY DEF Init, NoLostWakeup, SleepersAreKnown, FinishedIsExiting, IdleStays
<1>3. QED
  BY <1>1, <1>2 DEF IInv

\* A step that gives the processor away and touches nothing else.
LEMMA SwitchStep ==
  ASSUME IInv, NEW c \in Contexts, current = c, pc[c] # "recv", NEW to, Switch(c, to),
         UNCHANGED <<blocking, finished, packetVars, pc, handler, enabled>>
  PROVE  IInv'
<1>1. current' \in Contexts /\ halted' \in BOOLEAN
  BY KernelAssumption DEF Switch, IInv, TypeOK
<1>2. TypeOK'
  BY <1>1 DEF IInv, TypeOK, packetVars
<1>3. NoLostWakeup' /\ IdleStays'
  BY DEF IInv, NoLostWakeup, IdleStays, packetVars
<1>4. SleepersAreKnown'
  BY DEF IInv, SleepersAreKnown, packetVars
<1>5. FinishedIsExiting'
  BY DEF IInv, FinishedIsExiting
<1>6. QED
  BY <1>2, <1>3, <1>4, <1>5 DEF IInv

LEMMA ExitStep ==
  ASSUME IInv, NEW c \in Callers, Exit(c)
  PROVE  IInv'
<1>0. c \in Contexts /\ c # Idle
  BY DEF Callers
<1>1. CASE Leave(c)
  BY <1>0, <1>1, SwitchStep DEF Leave, Exiting
<1>2. CASE Finish(c) \/ Unflag(c) \/ Unregister(c)
  <2>1. TypeOK'
    BY <1>0, <1>2 DEF Finish, Unflag, Unregister, IInv, TypeOK, packetVars
  <2>2. NoLostWakeup' /\ IdleStays'
    BY <1>0, <1>2 DEF Finish, Unflag, Unregister, IInv, NoLostWakeup, IdleStays, packetVars
  <2>3. SleepersAreKnown'
    BY <1>0, <1>2 DEF Finish, Unflag, Unregister, IInv, TypeOK, SleepersAreKnown, packetVars
  <2>4. FinishedIsExiting'
    <3>1. CASE Finish(c)
      BY <1>0, <3>1 DEF Finish, IInv, TypeOK, FinishedIsExiting
    <3>2. CASE Unflag(c)
      BY <1>0, <3>2 DEF Unflag, Exiting, IInv, TypeOK, FinishedIsExiting
    <3>3. CASE Unregister(c)
      BY <1>0, <3>3 DEF Unregister, Exiting, IInv, TypeOK, FinishedIsExiting
    <3>4. QED
      BY <1>2, <3>1, <3>2, <3>3
  <2>5. QED
    BY <2>1, <2>2, <2>3, <2>4 DEF IInv
<1>3. QED
  BY <1>1, <1>2 DEF Exit

\* The processor stays where it is, and so do the flags and the mailboxes.
LEMMA QuietStep ==
  ASSUME IInv, UNCHANGED <<current, blocking, finished, queue, pc, halted>>,
         held' \in [Contexts -> SUBSET Packets], free' \subseteq Packets, lost' \subseteq Packets,
         handler' \in [Interrupts -> Contexts \cup {Nobody}],
         enabled' \in [Contexts -> BOOLEAN]
  PROVE  IInv'
<1>1. TypeOK'
  BY DEF IInv, TypeOK
<1>2. NoLostWakeup' /\ SleepersAreKnown' /\ FinishedIsExiting' /\ IdleStays'
  BY DEF IInv, NoLostWakeup, SleepersAreKnown, FinishedIsExiting, IdleStays
<1>3. QED
  BY <1>1, <1>2 DEF IInv

\* A delivery to d, made by the context that has the processor.
LEMMA DeliverStep ==
  ASSUME IInv, pc[current] # "recv", NEW p \in Packets, NEW d \in Contexts, NEW y \in BOOLEAN,
         Deliver(current, p, d, y),
         held' \in [Contexts -> SUBSET Packets], free' \subseteq Packets,
         UNCHANGED <<finished, lost, pc, handler, enabled>>
  PROVE  IInv'
<1>1. current' \in Contexts /\ halted' \in BOOLEAN
  BY KernelAssumption DEF Deliver, Switch, IInv, TypeOK
<1>2. /\ queue[d] \in Seq(Packets) /\ Len(queue[d]) < QueueLen
      /\ queue' = [queue EXCEPT ![d] = Append(queue[d], p)]
      /\ blocking' = blocking \ {d}
  BY DEF Deliver, CanReceive, IInv, TypeOK
<1>3. /\ Append(queue[d], p) \in Seq(Packets)
      /\ Append(queue[d], p) # << >>
      /\ Len(Append(queue[d], p)) <= QueueLen
  BY <1>2, AppendLength, KernelAssumption
<1> DEFINE longer == Append(queue[d], p)
<1>4. \A c \in Contexts : queue'[c] = IF c = d THEN longer ELSE queue[c]
  BY <1>2 DEF IInv, TypeOK
<1>5. queue' \in [Contexts -> Seq(Packets)]
  BY <1>2, <1>3 DEF IInv, TypeOK
<1> HIDE DEF longer
<1>6. TypeOK'
  <2>1. \A c \in Contexts : Len(queue'[c]) <= QueueLen
    BY <1>3, <1>4 DEF IInv, TypeOK, longer
  <2>2. QED
    BY <1>1, <1>2, <1>5, <2>1 DEF IInv, TypeOK
<1>7. NoLostWakeup'
  BY <1>2, <1>4 DEF IInv, TypeOK, NoLostWakeup
<1>8. SleepersAreKnown'
  BY <1>2, <1>3, <1>4 DEF IInv, SleepersAreKnown, longer
<1>9. FinishedIsExiting' /\ IdleStays'
  BY <1>2 DEF IInv, FinishedIsExiting, IdleStays
<1>10. QED
  BY <1>6, <1>7, <1>8, <1>9 DEF IInv

\* Context c takes the oldest packet of its mailbox.
LEMMA TakeStep ==
  ASSUME IInv, NEW c \in Contexts, queue[c] # << >>, Take(c), pc[c] \in {"run", "recv"},
         pc' = [pc EXCEPT ![c] = "run"],
         UNCHANGED <<current, blocking, finished, free, lost, handler, enabled, halted>>
  PROVE  IInv'
<1>1. queue' = [queue EXCEPT ![c] = Tail(queue[c])] /\ queue[c] \in Seq(Packets)
  BY DEF Take, IInv, TypeOK
<1> DEFINE shorter == Tail(queue[c])
<1>2. /\ shorter \in Seq(Packets) /\ Head(queue[c]) \in Packets
      /\ Len(shorter) <= QueueLen
  BY <1>1, TailLength, KernelAssumption DEF IInv, TypeOK
<1> HIDE DEF shorter
<1>3. \A d \in Contexts : queue'[d] = IF d = c THEN shorter ELSE queue[d]
  BY <1>1 DEF IInv, TypeOK, shorter
<1>4. queue' \in [Contexts -> Seq(Packets)]
  BY <1>1, <1>2 DEF IInv, TypeOK, shorter
<1>5. held' \in [Contexts -> SUBSET Packets]
  BY <1>2 DEF Take, IInv, TypeOK
<1>6. TypeOK'
  <2>1. \A d \in Contexts : Len(queue'[d]) <= QueueLen
    BY <1>2, <1>3 DEF IInv, TypeOK
  <2>2. QED
    BY <1>4, <1>5, <2>1 DEF IInv, TypeOK
<1>7. c \notin blocking /\ c \notin finished
  BY DEF IInv, NoLostWakeup, FinishedIsExiting
<1>8. NoLostWakeup'
  BY <1>3, <1>7 DEF IInv, TypeOK, NoLostWakeup
<1>9. SleepersAreKnown' /\ FinishedIsExiting' /\ IdleStays'
  BY <1>3, <1>7 DEF IInv, TypeOK, SleepersAreKnown, FinishedIsExiting, IdleStays
<1>10. QED
  BY <1>6, <1>8, <1>9 DEF IInv

LEMMA ReceiveWaitStep ==
  ASSUME IInv, NEW c \in Callers, NEW context \in Contexts \cup {Nobody},
         ReceiveWait(c, context)
  PROVE  IInv'
<1>0. c \in Contexts /\ c # Idle
  BY DEF Callers
<1>1. current' \in Contexts /\ halted' \in BOOLEAN
  BY KernelAssumption DEF ReceiveWait, Switch, IInv, TypeOK
<1>2. TypeOK'
  BY <1>0, <1>1 DEF ReceiveWait, IInv, TypeOK, packetVars
<1>3. NoLostWakeup' /\ IdleStays'
  BY DEF ReceiveWait, IInv, NoLostWakeup, IdleStays, packetVars
<1>4. SleepersAreKnown'
  BY <1>0 DEF ReceiveWait, IInv, TypeOK, SleepersAreKnown, packetVars, Running
<1>5. FinishedIsExiting'
  <2>1. c \notin finished
    BY <1>0 DEF ReceiveWait, Running, IInv, FinishedIsExiting
  <2>2. QED
    BY <1>0, <2>1 DEF ReceiveWait, IInv, TypeOK, FinishedIsExiting
<1>6. QED
  BY <1>2, <1>3, <1>4, <1>5 DEF IInv

LEMMA ResumeStep ==
  ASSUME IInv, NEW c \in Contexts, Resume(c)
  PROVE  IInv'
<1>1. CASE queue[c] # << >>
  BY <1>1, TakeStep DEF Resume
<1>2. CASE queue[c] = << >>
  <2>1. TypeOK'
    BY <1>2 DEF Resume, IInv, TypeOK
  <2>2. NoLostWakeup' /\ SleepersAreKnown' /\ FinishedIsExiting' /\ IdleStays'
    BY <1>2 DEF Resume, IInv, TypeOK, NoLostWakeup, SleepersAreKnown, FinishedIsExiting, IdleStays
  <2>3. QED
    BY <2>1, <2>2 DEF IInv
<1>3. QED
  BY <1>1, <1>2

LEMMA PacketCallStep ==
  ASSUME IInv, NEW c \in Callers, PacketCall(c)
  PROVE  IInv'
<1>0. c \in Contexts
  BY DEF Callers
<1>1. CASE Alloc(c)
  BY <1>0, <1>1, QuietStep DEF Alloc, IInv, TypeOK
<1>2. CASE Free(c)
  BY <1>0, <1>2, QuietStep DEF Free, IInv, TypeOK
<1>3. CASE FreeAgain(c)
  BY <1>0, <1>3, QuietStep DEF FreeAgain, IInv, TypeOK, packetVars
<1>4. ASSUME NEW p \in Packets, NEW d \in Contexts, NEW y \in BOOLEAN, Send(c, p, d, y)
      PROVE  IInv'
  <2>1. held' \in [Contexts -> SUBSET Packets] /\ current = c /\ pc[c] # "recv"
    BY <1>0, <1>4 DEF Send, IInv, TypeOK, Running
  <2>2. /\ Deliver(current, p, d, y) /\ free' \subseteq Packets
        /\ UNCHANGED <<finished, lost, pc, handler, enabled>>
    BY <1>4, <2>1 DEF Send, IInv, TypeOK
  <2>3. QED
    BY <2>1, <2>2, DeliverStep
<1>5. CASE ReceiveQueued(c)
  <2>1. pc' = [pc EXCEPT ![c] = "run"]
    BY <1>0, <1>5 DEF ReceiveQueued, Running, IInv, TypeOK
  <2>2. QED
    BY <1>0, <1>5, <2>1, TakeStep DEF ReceiveQueued, Running
<1>6. CASE ReceiveWait(c, Nobody)
  BY <1>6, ReceiveWaitStep
<1>7. CASE Resume(c)
  BY <1>0, <1>7, ResumeStep
<1>8. QED
  BY <1>1, <1>2, <1>3, <1>4, <1>5, <1>6, <1>7 DEF PacketCall

LEMMA ContextCallStep ==
  ASSUME IInv, NEW c \in Callers, ContextCall(c)
  PROVE  IInv'
<1>0. c \in Contexts
  BY DEF Callers
<1>1. CASE Yield(c)
  BY <1>0, <1>1, SwitchStep DEF Yield, Running
<1>2. CASE Exit(c)
  BY <1>2, ExitStep
<1>3. CASE SetIdleDenied(c)
  BY <1>0, <1>3, QuietStep DEF SetIdleDenied, IInv, TypeOK, packetVars
<1>4. QED
  BY <1>1, <1>2, <1>3 DEF ContextCall

LEMMA InterruptCallStep ==
  ASSUME IInv, NEW c \in Callers, InterruptCall(c)
  PROVE  IInv'
<1>1. PICK i \in Interrupts : RegisterFor(c, i) \/ UnregisterFor(c, i)
  BY DEF InterruptCall
<1>2. handler' \in [Interrupts -> Contexts \cup {Nobody}]
  BY <1>1 DEF RegisterFor, UnregisterFor, IInv, TypeOK, Callers
<1>3. QED
  BY <1>1, <1>2, QuietStep DEF RegisterFor, UnregisterFor, IInv, TypeOK, packetVars

LEMMA IrqStep ==
  ASSUME IInv, NEW i \in Interrupts, Irq(i)
  PROVE  IInv'
<1>1. CASE IrqUnhandled(i)
  BY <1>1, QuietStep DEF IrqUnhandled, Interrupted, IInv, TypeOK
<1>2. CASE IrqDelivered(i)
  <2>1. PICK p \in Packets :
          /\ Interrupted(p) /\ handler[i] # Nobody
          /\ Deliver(current, p, handler[i], TRUE)
          /\ free' = free \ {p}
          /\ UNCHANGED <<finished, held, lost, pc, handler, enabled>>
    BY <1>2 DEF IrqDelivered
  <2>2. handler[i] \in Contexts
    BY <2>1 DEF IInv, TypeOK
  <2>3. QED
    BY <2>1, <2>2, DeliverStep DEF Interrupted, IInv, TypeOK
<1>3. CASE IrqUndeliverable(i)
  <2>1. halted' = TRUE /\ UNCHANGED <<current, blocking, finished, packetVars, pc, handler, enabled>>
    BY <1>3 DEF IrqUndeliverable
  <2>2. TypeOK'
    BY <2>1 DEF IInv, TypeOK, packetVars
  <2>3. NoLostWakeup' /\ SleepersAreKnown' /\ FinishedIsExiting' /\ IdleStays'
    BY <2>1 DEF IInv, NoLostWakeup, SleepersAreKnown, FinishedIsExiting, IdleStays, packetVars
  <2>4. QED
    BY <2>2, <2>3 DEF IInv
<1>4. QED
  BY <1>1, <1>2, <1>3 DEF Irq

LEMMA NextIInv == IInv /\ [Next]_vars => IInv'
<1> SUFFICES ASSUME IInv, [Next]_vars PROVE IInv'
  OBVIOUS
<1>1. ASSUME NEW c \in Callers, PacketCall(c) \/ ContextCall(c) \/ InterruptCall(c)
      PROVE  IInv'
  BY <1>1, PacketCallStep, ContextCallStep, InterruptCallStep
<1>2. ASSUME NEW to \in Contexts \cup {Nobody}, YieldTo(to)
      PROVE  IInv'
  BY <1>2, SwitchStep, KernelAssumption DEF YieldTo, Running
<1>3. ASSUME NEW to \in Contexts, ReceiveWait(Scheduler, to)
      PROVE  IInv'
  BY <1>3, ReceiveWaitStep, KernelAssumption DEF Callers
<1>4. ASSUME NEW i \in Interrupts, Irq(i)
      PROVE  IInv'
  BY <1>4, IrqStep
<1>5. CASE UNCHANGED vars
  BY <1>5, QuietStep DEF vars, packetVars, IInv, TypeOK
<1>6. QED
  BY <1>1, <1>2, <1>3, <1>4, <1>5 DEF Next

\* The invariants of contexts and mailboxes hold in every state.
THEOREM Invariance == Spec => []IInv
<1>1. QED
  BY InitIInv, NextIInv, PTL DEF Spec

\* Every variable stays in its type, and no mailbox exceeds its capacity.
THEOREM TypeCorrect == Spec => []TypeOK
<1>1. IInv => TypeOK
  BY DEF IInv
<1>2. QED
  BY <1>1, Invariance, PTL

\* No interleaving of senders, receivers and interrupts leaves a context
\* flagged as waiting while a packet is queued for it.
THEOREM NoWakeupIsLost == Spec => []NoLostWakeup
<1>1. IInv => NoLostWakeup
  BY DEF IInv
<1>2. QED
  BY <1>1, Invariance, PTL

\* A context suspended in a receive can still be woken, or has its packet.
THEOREM SleepersStayKnown == Spec => []SleepersAreKnown
<1>1. IInv => SleepersAreKnown
  BY DEF IInv
<1>2. QED
  BY <1>1, Invariance, PTL

-----------------------------------------------------------------------------
(* What a context that finished leaves behind *)

\* What FinishedLeavesAll says of one of them.
LeavesAll(f) ==
  /\ current # f => current' # f /\ pc'[f] = pc[f]
  /\ held'[f] = held[f]
  /\ \/ queue'[f] = queue[f]
     \/ pc[f] # "gone" /\ \E p \in Packets : queue'[f] = Append(queue[f], p)

\* The processor is never given to a context that finished.
LEMMA SwitchedAlive ==
  ASSUME IInv, NEW f \in finished, NEW to, current # f, Switch(current, to)
  PROVE  current' # f
  BY DEF Switch, IInv, IdleStays

\* A delivery to d is all that happens to any mailbox.
LEMMA DeliveredLeaves ==
  ASSUME IInv, NEW f \in finished, NEW p \in Packets, NEW d \in Contexts, NEW y \in BOOLEAN,
         Deliver(current, p, d, y), pc' = pc, held'[f] = held[f]
  PROVE  LeavesAll(f)
<1>1. current # f => current' # f
  <2>1. CASE d \in blocking /\ y
    BY <2>1, SwitchedAlive DEF Deliver
  <2>2. CASE ~(d \in blocking /\ y)
    BY <2>2 DEF Deliver
  <2>3. QED
    BY <2>1, <2>2
<1>2. CASE d = f
  BY <1>1, <1>2 DEF Deliver, CanReceive, LeavesAll, IInv, TypeOK
<1>3. CASE d # f
  BY <1>1, <1>3 DEF Deliver, LeavesAll, IInv, TypeOK
<1>4. QED
  BY <1>2, <1>3

LEMMA FinishedStep ==
  ASSUME IInv, Next, NEW f \in finished
  PROVE  LeavesAll(f)
<1>0. f \in Contexts /\ pc[f] \notin {"run", "recv"}
  BY DEF IInv, TypeOK, FinishedIsExiting
<1>1. ASSUME NEW c \in Callers, PacketCall(c) PROVE LeavesAll(f)
  <2>0. c # f /\ current = c
    BY <1>0, <1>1 DEF PacketCall, Alloc, Free, FreeAgain, Send, ReceiveQueued, ReceiveWait,
                      Resume, Running
  <2>1. ASSUME NEW p \in Packets, NEW d \in Contexts, NEW y \in BOOLEAN, Send(c, p, d, y)
        PROVE  LeavesAll(f)
    <3>1. held'[f] = held[f] /\ pc' = pc
      BY <1>0, <2>0, <2>1 DEF Send, IInv, TypeOK
    <3>2. QED
      BY <2>0, <2>1, <3>1, DeliveredLeaves DEF Send
  <2>2. CASE ReceiveQueued(c) \/ Resume(c)
    BY <1>0, <2>0, <2>2 DEF ReceiveQueued, Resume, Take, LeavesAll, IInv, TypeOK
  <2>3. CASE Alloc(c) \/ Free(c) \/ FreeAgain(c)
    BY <1>0, <2>0, <2>3 DEF Alloc, Free, FreeAgain, packetVars, LeavesAll, IInv, TypeOK
  <2>4. CASE ReceiveWait(c, Nobody)
    <3>1. current' # f
      BY <2>0, <2>4, SwitchedAlive DEF ReceiveWait
    <3>2. QED
      BY <1>0, <2>0, <2>4, <3>1 DEF ReceiveWait, packetVars, LeavesAll, IInv, TypeOK
  <2>5. QED
    BY <1>1, <2>1, <2>2, <2>3, <2>4 DEF PacketCall
<1>2. ASSUME NEW c \in Callers, ContextCall(c) PROVE LeavesAll(f)
  <2>1. CASE Yield(c)
    <3>1. current # f => current' # f
      BY <2>1, SwitchedAlive DEF Yield, Running
    <3>2. QED
      BY <2>1, <3>1 DEF Yield, packetVars, LeavesAll
  <2>2. CASE Leave(c)
    <3>1. current # f => current' # f
      BY <2>2, SwitchedAlive DEF Leave, Exiting
    <3>2. QED
      BY <2>2, <3>1 DEF Leave, packetVars, LeavesAll
  <2>3. CASE Finish(c) \/ Unflag(c) \/ Unregister(c)
    BY <1>0, <2>3 DEF Finish, Unflag, Unregister, Running, Exiting, packetVars, LeavesAll,
                      IInv, TypeOK
  <2>4. CASE SetIdleDenied(c)
    BY <2>4 DEF SetIdleDenied, packetVars, LeavesAll
  <2>5. QED
    BY <1>2, <2>1, <2>2, <2>3, <2>4 DEF ContextCall, Exit
<1>3. ASSUME NEW c \in Callers, InterruptCall(c) PROVE LeavesAll(f)
  BY <1>3 DEF InterruptCall, RegisterFor, UnregisterFor, packetVars, LeavesAll
<1>4. ASSUME NEW to, YieldTo(to) \/ ReceiveWait(Scheduler, to) PROVE LeavesAll(f)
  <2>1. current = Scheduler /\ Scheduler # f
    BY <1>0, <1>4 DEF YieldTo, ReceiveWait, Running
  <2>2. current' # f
    BY <1>4, <2>1, SwitchedAlive DEF YieldTo, ReceiveWait
  <2>3. QED
    BY <1>0, <1>4, <2>1, <2>2, KernelAssumption
    DEF YieldTo, ReceiveWait, packetVars, LeavesAll, IInv, TypeOK
<1>5. ASSUME NEW i \in Interrupts, Irq(i) PROVE LeavesAll(f)
  <2>1. CASE IrqDelivered(i)
    <3>1. PICK p \in Packets : /\ handler[i] # Nobody
                               /\ Deliver(current, p, handler[i], TRUE)
                               /\ pc' = pc /\ held' = held
      BY <2>1 DEF IrqDelivered
    <3>2. handler[i] \in Contexts
      BY <3>1 DEF IInv, TypeOK
    <3>3. QED
      BY <3>1, <3>2, DeliveredLeaves
  <2>2. CASE IrqUnhandled(i) \/ IrqUndeliverable(i)
    BY <2>2 DEF IrqUnhandled, IrqUndeliverable, packetVars, LeavesAll
  <2>3. QED
    BY <1>5, <2>1, <2>2 DEF Irq
<1>6. QED
  BY <1>1, <1>2, <1>3, <1>4, <1>5 DEF Next

\* A context whose exit an interrupt cut short never runs again, nobody takes
\* what it left in its mailbox and its hands, and only an address that is
\* still registered has its mailbox grow.
THEOREM FinishedLeavesAllBehind == Spec => FinishedLeavesAll
<1>1. IInv /\ [Next]_vars =>
        [\A c \in finished :
           /\ current # c => current' # c /\ pc'[c] = pc[c]
           /\ held'[c] = held[c]
           /\ \/ queue'[c] = queue[c]
              \/ pc[c] # "gone" /\ \E p \in Packets : queue'[c] = Append(queue[c], p)]_vars
  BY FinishedStep DEF LeavesAll
<1>2. QED
  BY <1>1, Invariance, PTL DEF Spec, FinishedLeavesAll

-----------------------------------------------------------------------------
(* Every packet is in one place *)

NoDuplicates ==
  \A c \in Contexts : \A j, k \in 1 .. Len(queue[c]) : queue[c][j] = queue[c][k] => j = k

\* After a delivery the mailboxes hold what they held, and p.
LEMMA DeliverQueues ==
  ASSUME TypeOK, NoDuplicates, NEW p \in Packets, NEW d \in Contexts,
         queue' = [queue EXCEPT ![d] = Append(@, p)],
         ~InQueue(p, d)
  PROVE  /\ \A q \in Packets, c \in Contexts :
              InQueue(q, c)' <=> InQueue(q, c) \/ (q = p /\ c = d)
         /\ NoDuplicates'
<1> DEFINE n == Len(queue[d])
           longer == Append(queue[d], p)
<1>1. queue[d] \in Seq(Packets)
  BY DEF TypeOK
<1>2. \A c \in Contexts : queue'[c] = IF c = d THEN longer ELSE queue[c]
  BY DEF TypeOK
<1>3. /\ n \in Nat /\ Len(longer) = n + 1 /\ longer[n + 1] = p
      /\ \A k \in 1 .. n : longer[k] = queue[d][k]
  BY <1>1
<1>4. \A k \in 1 .. n : queue[d][k] # p
  BY DEF InQueue
<1> HIDE DEF n, longer
<1>5. ASSUME NEW q \in Packets, NEW c \in Contexts
      PROVE  InQueue(q, c)' <=> InQueue(q, c) \/ (q = p /\ c = d)
  <2>1. CASE c # d
    BY <1>2, <2>1 DEF InQueue
  <2>2. CASE c = d
    <3>1. InQueue(q, c)' <=> \E k \in 1 .. n + 1 : longer[k] = q
      BY <1>2, <1>3, <2>2 DEF InQueue
    <3>2. InQueue(q, c) <=> \E k \in 1 .. n : queue[d][k] = q
      BY <2>2 DEF InQueue, n
    <3>3. (\E k \in 1 .. n + 1 : longer[k] = q) <=> (\E k \in 1 .. n : queue[d][k] = q) \/ q = p
      BY <1>3
    <3>4. QED
      BY <2>2, <3>1, <3>2, <3>3
  <2>3. QED
    BY <2>1, <2>2
<1>6. ASSUME NEW c \in Contexts, NEW j \in 1 .. Len(queue'[c]), NEW k \in 1 .. Len(queue'[c]),
             queue'[c][j] = queue'[c][k]
      PROVE  j = k
  <2>1. CASE c # d
    BY <1>2, <1>6, <2>1 DEF NoDuplicates
  <2>2. CASE c = d
    <3>1. /\ j \in 1 .. n + 1 /\ k \in 1 .. n + 1
          /\ longer[j] = longer[k]
      BY <1>2, <1>3, <1>6, <2>2
    <3>2. \A a, b \in 1 .. n : queue[d][a] = queue[d][b] => a = b
      BY DEF NoDuplicates, n
    <3>3. QED
      BY <1>3, <1>4, <3>1, <3>2
  <2>3. QED
    BY <2>1, <2>2
<1>7. QED
  BY <1>5, <1>6 DEF NoDuplicates

\* After a receive they hold what they held, without the oldest packet of c.
LEMMA TakeQueues ==
  ASSUME TypeOK, NoDuplicates, NEW c \in Contexts, queue[c] # << >>,
         queue' = [queue EXCEPT ![c] = Tail(@)]
  PROVE  /\ Head(queue[c]) \in Packets /\ InQueue(Head(queue[c]), c)
         /\ \A q \in Packets, d \in Contexts :
              InQueue(q, d)' <=> InQueue(q, d) /\ ~(q = Head(queue[c]) /\ d = c)
         /\ NoDuplicates'
<1> DEFINE n == Len(queue[c])
           p == Head(queue[c])
           shorter == Tail(queue[c])
<1>1. queue[c] \in Seq(Packets)
  BY DEF TypeOK
<1>2. \A d \in Contexts : queue'[d] = IF d = c THEN shorter ELSE queue[d]
  BY DEF TypeOK
<1>3. /\ n \in Nat \ {0} /\ Len(shorter) = n - 1 /\ queue[c][1] = p /\ p \in Packets
      /\ \A k \in 1 .. n - 1 : shorter[k] = queue[c][k + 1]
  BY <1>1
<1>4. \A j, k \in 1 .. n : queue[c][j] = queue[c][k] => j = k
  BY DEF NoDuplicates
<1> HIDE DEF n, shorter, p
<1>5. ASSUME NEW q \in Packets, NEW d \in Contexts
      PROVE  InQueue(q, d)' <=> InQueue(q, d) /\ ~(q = p /\ d = c)
  <2>1. CASE d # c
    BY <1>2, <2>1 DEF InQueue
  <2>2. CASE d = c
    <3>1. InQueue(q, d)' <=> \E k \in 1 .. n - 1 : shorter[k] = q
      BY <1>2, <1>3, <2>2 DEF InQueue
    <3>2. InQueue(q, d) <=> \E k \in 1 .. n : queue[c][k] = q
      BY <2>2 DEF InQueue, n
    <3>3. ASSUME NEW k \in 1 .. n - 1, shorter[k] = q
          PROVE  q # p /\ \E m \in 1 .. n : queue[c][m] = q
      <4>1. k + 1 \in 1 .. n /\ k + 1 # 1 /\ 1 \in 1 .. n
        BY ONLY <1>3, <3>3
      <4>2. queue[c][k + 1] = q /\ queue[c][1] = p
        BY ONLY <1>3, <3>3
      <4>3. QED
        BY ONLY <1>4, <4>1, <4>2
    <3>4. ASSUME NEW m \in 1 .. n, queue[c][m] = q, q # p
          PROVE  \E k \in 1 .. n - 1 : shorter[k] = q
      <4>1. m # 1 /\ m - 1 \in 1 .. n - 1
        BY <1>3, <3>4
      <4>2. shorter[m - 1] = q
        <5>1. shorter[m - 1] = queue[c][(m - 1) + 1] /\ (m - 1) + 1 = m
          BY ONLY <1>3, <4>1, m \in 1 .. n
        <5>2. QED
          BY ONLY <5>1, <3>4
      <4>3. QED
        BY <4>1, <4>2
    <3>5. QED
      BY <2>2, <3>1, <3>2, <3>3, <3>4
  <2>3. QED
    BY <2>1, <2>2
<1>6. ASSUME NEW d \in Contexts, NEW j \in 1 .. Len(queue'[d]), NEW k \in 1 .. Len(queue'[d]),
             queue'[d][j] = queue'[d][k]
      PROVE  j = k
  <2>1. CASE d # c
    BY <1>2, <1>6, <2>1 DEF NoDuplicates
  <2>2. CASE d = c
    <3>1. /\ j \in 1 .. n - 1 /\ k \in 1 .. n - 1
          /\ queue[c][j + 1] = queue[c][k + 1]
      BY <1>2, <1>3, <1>6, <2>2
    <3>2. j + 1 = k + 1
      BY <1>3, <1>4, <3>1
    <3>3. QED
      BY <3>1, <3>2
  <2>3. QED
    BY <2>1, <2>2
<1>7. InQueue(p, c)
  BY <1>3 DEF InQueue, n
<1>8. QED
  BY <1>3, <1>5, <1>6, <1>7 DEF NoDuplicates, p

\* OnePlace, with the positions in the mailboxes hidden behind InQueue.
Place(p) ==
  /\ \/ p \in free \/ p \in lost
     \/ \E c \in Contexts : p \in held[c] \/ InQueue(p, c)
  /\ p \in free => p \notin lost
  /\ \A c \in Contexts :
       /\ p \in free \cup lost => p \notin held[c] /\ ~InQueue(p, c)
       /\ \A d \in Contexts :
            /\ ~(p \in held[d] /\ InQueue(p, c))
            /\ c # d => /\ ~(p \in held[c] /\ p \in held[d])
                        /\ ~(InQueue(p, c) /\ InQueue(p, d))

LEMMA PlaceIsOnePlace ==
  TypeOK => (OnePlace <=> NoDuplicates /\ \A p \in Packets : Place(p))
<1> SUFFICES ASSUME TypeOK
             PROVE  OnePlace <=> NoDuplicates /\ \A p \in Packets : Place(p)
  OBVIOUS
<1>1. /\ free \subseteq Packets /\ lost \subseteq Packets
      /\ \A c \in Contexts : held[c] \subseteq Packets
  BY DEF TypeOK
<1>2. ASSUME OnePlace PROVE NoDuplicates
  BY <1>2 DEF OnePlace, NoDuplicates
<1>3. ASSUME OnePlace, NEW p \in Packets PROVE Place(p)
  BY <1>3, Zenon DEF OnePlace, Place
<1>4. ASSUME NoDuplicates, \A p \in Packets : Place(p) PROVE OnePlace
  <2>1. \A c \in Contexts : held[c] \cap (free \cup lost) = {}
    BY <1>1, <1>4 DEF Place
  <2>2. \A c, d \in Contexts : c # d => held[c] \cap held[d] = {}
    BY <1>1, <1>4 DEF Place
  <2>3. free \cap lost = {}
    BY <1>1, <1>4 DEF Place
  <2>4. /\ \A p \in Packets : \/ p \in free \/ p \in lost
                              \/ \E c \in Contexts : p \in held[c] \/ InQueue(p, c)
        /\ \A c \in Contexts : \A p \in free \cup lost : ~InQueue(p, c)
        /\ \A c, d \in Contexts : \A p \in held[d] : ~InQueue(p, c)
        /\ \A c, d \in Contexts : c # d => \A p \in Packets : ~(InQueue(p, c) /\ InQueue(p, d))
    BY <1>1, <1>4 DEF Place
  <2>5. QED
    BY <1>4, <2>1, <2>2, <2>3, <2>4 DEF OnePlace, NoDuplicates
<1>5. QED
  BY <1>2, <1>3, <1>4

LEMMA PlaceIsOnePlaceNext ==
  TypeOK' => (OnePlace' <=> NoDuplicates' /\ \A p \in Packets : Place(p)')
<1>1. (TypeOK => (OnePlace <=> NoDuplicates /\ \A p \in Packets : Place(p)))'
  BY PlaceIsOnePlace, PTL
<1>2. QED
  BY <1>1

\* Steps that move no packet.
LEMMA PlaceUnchanged ==
  ASSUME TypeOK, TypeOK', OnePlace, UNCHANGED packetVars
  PROVE  OnePlace'
<1>1. NoDuplicates /\ \A q \in Packets : Place(q)
  BY PlaceIsOnePlace
<1>2. NoDuplicates' /\ \A q \in Packets : Place(q)'
  BY <1>1 DEF NoDuplicates, Place, InQueue, packetVars
<1>3. QED
  BY <1>2, PlaceIsOnePlaceNext

\* Steps that move a packet without touching a mailbox.
LEMMA PlaceMoved ==
  ASSUME TypeOK, TypeOK', OnePlace, UNCHANGED queue, NEW c \in Contexts, NEW p \in Packets,
         \/ /\ p \in free /\ free' = free \ {p} /\ lost' = lost
            /\ held' = [held EXCEPT ![c] = @ \cup {p}]
         \/ /\ p \in held[c] /\ free' = free \cup {p} /\ lost' = lost
            /\ held' = [held EXCEPT ![c] = @ \ {p}]
         \/ p \in free /\ free' = free \ {p} /\ lost' = lost \cup {p} /\ held' = held
  PROVE  OnePlace'
<1>1. NoDuplicates /\ \A q \in Packets : Place(q)
  BY PlaceIsOnePlace
<1>2. \A q \in Packets, d \in Contexts : InQueue(q, d)' <=> InQueue(q, d)
  BY DEF InQueue
<1>3. NoDuplicates'
  BY <1>1 DEF NoDuplicates
<1>4. ASSUME NEW q \in Packets PROVE Place(q)'
  <2>1. Place(p) /\ Place(q)
    BY <1>1
  <2>2. \A d \in Contexts : q \in held'[d] <=> \/ q \in held[d] /\ ~(q = p /\ d = c /\ p \in held[c])
                                               \/ q = p /\ d = c /\ p \in free /\ lost' = lost
    BY <2>1 DEF TypeOK, Place
  <2>3. CASE q # p
    BY <1>2, <2>1, <2>2, <2>3 DEF Place
  <2>4. CASE q = p
    BY <1>2, <2>1, <2>2, <2>4 DEF Place
  <2>5. QED
    BY <2>3, <2>4
<1>5. QED
  BY <1>3, <1>4, PlaceIsOnePlaceNext

LEMMA PlaceDelivered ==
  ASSUME TypeOK, TypeOK', OnePlace, NEW p \in Packets, NEW d \in Contexts, NEW c \in Contexts,
         queue' = [queue EXCEPT ![d] = Append(@, p)], lost' = lost,
         \/ p \in held[c] /\ held' = [held EXCEPT ![c] = @ \ {p}] /\ free' = free
         \/ p \in free /\ free' = free \ {p} /\ held' = held
  PROVE  OnePlace'
<1>1. NoDuplicates /\ \A q \in Packets : Place(q)
  BY PlaceIsOnePlace
<1>2. \A e \in Contexts : ~InQueue(p, e)
  BY <1>1 DEF Place
<1>3. /\ \A q \in Packets, e \in Contexts : InQueue(q, e)' <=> InQueue(q, e) \/ (q = p /\ e = d)
      /\ NoDuplicates'
  BY <1>1, <1>2, DeliverQueues
<1>4. ASSUME NEW q \in Packets PROVE Place(q)'
  <2>1. Place(p) /\ Place(q)
    BY <1>1
  <2>2. \A e \in Contexts : q \in held'[e] <=> q \in held[e] /\ q # p
    <3>1. CASE p \in free /\ held' = held
      BY <2>1, <3>1 DEF Place
    <3>2. CASE p \in held[c] /\ held' = [held EXCEPT ![c] = @ \ {p}]
      <4>1. \A e \in Contexts : held'[e] = IF e = c THEN held[c] \ {p} ELSE held[e]
        BY <3>2 DEF TypeOK
      <4>2. \A e \in Contexts : e # c => p \notin held[e]
        BY <2>1, <3>2 DEF Place
      <4>3. QED
        BY <4>1, <4>2
    <3>3. QED
      BY <3>1, <3>2
  <2>3. q \in free' <=> q \in free /\ q # p
    BY <2>1 DEF Place
  <2>4. CASE q # p
    BY <1>3, <2>1, <2>2, <2>3, <2>4 DEF Place
  <2>5. CASE q = p
    <3>1. q \notin lost
      BY <2>1, <2>5 DEF Place
    <3>2. QED
      BY <1>2, <1>3, <2>2, <2>3, <2>5, <3>1 DEF Place
  <2>6. QED
    BY <2>4, <2>5
<1>5. QED
  BY <1>3, <1>4, PlaceIsOnePlaceNext

LEMMA PlaceTaken ==
  ASSUME TypeOK, TypeOK', OnePlace, NEW c \in Contexts, queue[c] # << >>, Take(c),
         UNCHANGED <<free, lost>>
  PROVE  OnePlace'
<1> DEFINE p == Head(queue[c])
<1>1. NoDuplicates /\ \A q \in Packets : Place(q)
  BY PlaceIsOnePlace
<1>2. /\ p \in Packets /\ InQueue(p, c)
      /\ \A q \in Packets, d \in Contexts : InQueue(q, d)' <=> InQueue(q, d) /\ ~(q = p /\ d = c)
      /\ NoDuplicates'
  BY <1>1, TakeQueues DEF Take
<1>3. \A q \in Packets, d \in Contexts : q \in held'[d] <=> q \in held[d] \/ (q = p /\ d = c)
  BY <1>2 DEF Take, TypeOK
<1> HIDE DEF p
<1>4. ASSUME NEW q \in Packets PROVE Place(q)'
  <2>1. Place(p) /\ Place(q)
    BY <1>1, <1>2
  <2>2. CASE q # p
    BY <1>2, <1>3, <2>1, <2>2 DEF Place
  <2>3. CASE q = p
    BY <1>2, <1>3, <2>1, <2>3 DEF Place
  <2>4. QED
    BY <2>2, <2>3
<1>5. QED
  BY <1>2, <1>4, PlaceIsOnePlaceNext

LEMMA OnePlaceStep == IInv /\ OnePlace /\ [Next]_vars => OnePlace'
<1> SUFFICES ASSUME IInv, OnePlace, [Next]_vars PROVE OnePlace'
  OBVIOUS
<1>0. TypeOK /\ TypeOK'
  BY NextIInv DEF IInv
<1>1. ASSUME NEW c \in Callers, PacketCall(c) PROVE OnePlace'
  <2>0. c \in Contexts
    BY DEF Callers
  <2>1. CASE Alloc(c)
    BY <1>0, <2>0, <2>1, PlaceMoved DEF Alloc, TypeOK
  <2>2. CASE Free(c)
    BY <1>0, <2>0, <2>2, PlaceMoved DEF Free, TypeOK
  <2>3. ASSUME NEW p \in Packets, NEW d \in Contexts, NEW y \in BOOLEAN, Send(c, p, d, y)
        PROVE  OnePlace'
    BY <1>0, <2>0, <2>3, PlaceDelivered DEF Send, Deliver
  <2>4. CASE ReceiveQueued(c)
    BY <1>0, <2>0, <2>4, PlaceTaken DEF ReceiveQueued
  <2>5. CASE Resume(c)
    <3>1. CASE queue[c] # << >>
      BY <1>0, <2>0, <2>5, <3>1, PlaceTaken DEF Resume
    <3>2. CASE queue[c] = << >>
      BY <1>0, <2>5, <3>2, PlaceUnchanged DEF Resume, packetVars
    <3>3. QED
      BY <3>1, <3>2
  <2>6. CASE FreeAgain(c) \/ ReceiveWait(c, Nobody)
    BY <1>0, <2>6, PlaceUnchanged DEF FreeAgain, ReceiveWait
  <2>7. QED
    BY <1>1, <2>1, <2>2, <2>3, <2>4, <2>5, <2>6 DEF PacketCall
<1>2. ASSUME NEW c \in Callers, ContextCall(c) \/ InterruptCall(c) PROVE OnePlace'
  BY <1>0, <1>2, PlaceUnchanged
  DEF ContextCall, Yield, Exit, Finish, Unflag, Unregister, Leave, SetIdleDenied,
      InterruptCall, RegisterFor, UnregisterFor
<1>3. ASSUME NEW to, YieldTo(to) \/ ReceiveWait(Scheduler, to) PROVE OnePlace'
  BY <1>0, <1>3, PlaceUnchanged DEF YieldTo, ReceiveWait
<1>4. ASSUME NEW i \in Interrupts, Irq(i) PROVE OnePlace'
  <2>1. CASE IrqUnhandled(i)
    BY <1>0, <2>1, PlaceMoved DEF IrqUnhandled, Interrupted, TypeOK
  <2>2. CASE IrqDelivered(i)
    BY <1>0, <2>2, PlaceDelivered DEF IrqDelivered, Interrupted, Deliver, TypeOK
  <2>3. CASE IrqUndeliverable(i)
    BY <1>0, <2>3, PlaceUnchanged DEF IrqUndeliverable
  <2>4. QED
    BY <1>4, <2>1, <2>2, <2>3 DEF Irq
<1>5. CASE UNCHANGED vars
  BY <1>0, <1>5, PlaceUnchanged DEF vars
<1>6. QED
  BY <1>1, <1>2, <1>3, <1>4, <1>5 DEF Next

\* No call, interrupt or failure path duplicates a packet or drops one.
THEOREM PacketsStayInOnePlace == Spec => []OnePlace
<1>1. Init => OnePlace
  <2>1. ASSUME Init, NEW c \in Contexts PROVE Len(queue[c]) = 0
    BY <2>1 DEF Init
  <2>2. QED
    BY <2>1 DEF Init, OnePlace, InQueue
<1>2. QED
  BY <1>1, Invariance, OnePlaceStep, PTL DEF Spec

-----------------------------------------------------------------------------
(* Implementation of Processor *)

Lengths == [c \in Contexts |-> Len(queue[c])]

LEMMA DeliverLengths ==
  ASSUME IInv, NEW p \in Packets, NEW d \in Contexts,
         queue' = [queue EXCEPT ![d] = Append(@, p)]
  PROVE  Lengths' = [Lengths EXCEPT ![d] = @ + 1]
<1>1. \A c \in Contexts : queue[c] \in Seq(Packets)
  BY DEF IInv, TypeOK
<1>2. \A c \in Contexts : queue'[c] = IF c = d THEN Append(queue[d], p) ELSE queue[c]
  BY DEF IInv, TypeOK
<1>3. Len(Append(queue[d], p)) = Len(queue[d]) + 1
  BY <1>1, AppendLength
<1>4. \A c \in Contexts : Len(queue'[c]) = IF c = d THEN Len(queue[d]) + 1 ELSE Len(queue[c])
  <2> SUFFICES ASSUME NEW c \in Contexts
               PROVE  Len(queue'[c]) = IF c = d THEN Len(queue[d]) + 1 ELSE Len(queue[c])
    OBVIOUS
  <2>1. CASE c = d
    <3>1. queue'[c] = Append(queue[d], p)
      BY <1>2, <2>1
    <3>2. QED
      BY <1>3, <2>1, <3>1
  <2>2. CASE c # d
    BY <1>2, <2>2
  <2>3. QED
    BY <2>1, <2>2
<1>5. QED
  BY <1>4 DEF Lengths

LEMMA TakeLengths ==
  ASSUME IInv, NEW c \in Contexts, queue[c] # << >>, Take(c)
  PROVE  /\ Lengths[c] > 0
         /\ Lengths' = [Lengths EXCEPT ![c] = @ - 1]
<1>1. \A d \in Contexts : queue[d] \in Seq(Packets)
  BY DEF IInv, TypeOK
<1>2. \A d \in Contexts : queue'[d] = IF d = c THEN Tail(queue[c]) ELSE queue[d]
  BY DEF Take, IInv, TypeOK
<1>3. Len(queue[c]) > 0 /\ Len(Tail(queue[c])) = Len(queue[c]) - 1
  BY <1>1, TailLength
<1>4. QED
  BY <1>2, <1>3 DEF Lengths

LEMMA DeliverSeen ==
  ASSUME IInv, NEW from \in Contexts, NEW p \in Packets, NEW d \in Contexts, NEW y \in BOOLEAN,
         Deliver(from, p, d, y)
  PROVE  Seen!Deliver(from, d, y)
<1>1. Lengths' = [Lengths EXCEPT ![d] = @ + 1]
  BY DeliverLengths DEF Deliver
<1>2. QED
  BY <1>1 DEF Deliver, CanReceive, Switch, Seen!Deliver, Seen!CanReceive, Seen!Switch, Lengths

LEMMA SeenStep == IInv /\ [Next]_vars =>
                    [Seen!Next]_<<current, blocking, finished, Lengths, pc, handler, enabled, halted>>
<1> DEFINE seen == <<current, blocking, finished, Lengths, pc, handler, enabled, halted>>
<1> SUFFICES ASSUME IInv, [Next]_vars PROVE Seen!Next \/ UNCHANGED seen
  OBVIOUS
<1>1. ASSUME NEW c \in Callers, PacketCall(c) PROVE Seen!Next \/ UNCHANGED seen
  <2>0. c \in Contexts \ {Idle}
    BY DEF Callers
  <2>1. CASE Alloc(c) \/ Free(c)
    BY <2>1 DEF Alloc, Free, Lengths
  <2>2. CASE FreeAgain(c)
    <3>1. Seen!LeaveDisabled(c)
      BY <2>2 DEF FreeAgain, Seen!LeaveDisabled, Seen!Running, Running, packetVars
    <3>2. QED
      BY <2>0, <3>1 DEF Seen!Next, Seen!Call
  <2>3. CASE \E p \in Packets, d \in Contexts, y \in BOOLEAN : Send(c, p, d, y)
    <3>1. PICK p \in Packets, d \in Contexts, y \in BOOLEAN : Send(c, p, d, y)
      BY <2>3
    <3>2. Seen!Send(c, d, y)
      BY <2>0, <3>1, DeliverSeen DEF Send, Seen!Send, Seen!Running, Running
    <3>3. QED
      BY <2>0, <3>2 DEF Seen!Next, Seen!Call
  <2>4. CASE ReceiveQueued(c)
    <3>1. Lengths[c] > 0 /\ Lengths' = [Lengths EXCEPT ![c] = @ - 1]
      BY <2>0, <2>4, TakeLengths DEF ReceiveQueued
    <3>2. Seen!ReceiveQueued(c)
      BY <2>4, <3>1 DEF ReceiveQueued, Seen!ReceiveQueued, Seen!Running, Running, Lengths
    <3>3. QED
      BY <2>0, <3>2 DEF Seen!Next, Seen!Call
  <2>5. CASE Resume(c)
    <3>1. Lengths' = [Lengths EXCEPT ![c] = IF @ > 0 THEN @ - 1 ELSE 0]
      <4>1. CASE queue[c] # << >>
        BY <2>0, <2>5, <4>1, TakeLengths DEF Resume
      <4>2. CASE queue[c] = << >>
        <5>1. Lengths[c] = 0
          BY <2>0, <4>2, EmptyLength DEF Lengths, IInv, TypeOK
        <5>2. Lengths' = Lengths
          BY <2>5, <4>2 DEF Resume, Lengths
        <5>3. QED
          BY <2>0, <5>1, <5>2 DEF Lengths
      <4>3. QED
        BY <4>1, <4>2
    <3>2. Seen!Resume(c)
      BY <2>5, <3>1 DEF Resume, Seen!Resume, Lengths
    <3>3. QED
      BY <2>0, <3>2 DEF Seen!Next, Seen!Call
  <2>6. CASE ReceiveWait(c, Nobody)
    <3>1. Lengths[c] = 0 /\ Lengths' = Lengths
      BY <2>0, <2>6, EmptyLength DEF ReceiveWait, Lengths, packetVars, IInv, TypeOK
    <3>2. Seen!ReceiveWait(c, Nobody)
      BY <2>6, <3>1 DEF ReceiveWait, Switch, Seen!ReceiveWait, Seen!Switch, Seen!Running, Running,
                        Lengths
    <3>3. QED
      BY <2>0, <3>2 DEF Seen!Next, Seen!Call
  <2>7. QED
    BY <1>1, <2>1, <2>2, <2>3, <2>4, <2>5, <2>6 DEF PacketCall
<1>2. ASSUME NEW c \in Callers, ContextCall(c) PROVE Seen!Next \/ UNCHANGED seen
  <2>1. Lengths' = Lengths
    BY <1>2 DEF ContextCall, Yield, Exit, Finish, Unflag, Unregister, Leave, SetIdleDenied,
                packetVars, Lengths
  <2>2. CASE Yield(c) \/ SetIdleDenied(c)
    <3>1. Seen!Yield(c) \/ Seen!LeaveDisabled(c)
      BY <2>1, <2>2 DEF Yield, SetIdleDenied, Switch, Running, Lengths,
                        Seen!Yield, Seen!LeaveDisabled, Seen!Switch, Seen!Running
    <3>2. QED
      BY <3>1 DEF Seen!Next, Seen!Call, Callers
  <2>3. CASE Exit(c)
    <3>1. Seen!Exit(c)
      BY <2>1, <2>3 DEF Exit, Finish, Unflag, Unregister, Leave, Switch, Running, Exiting, Lengths,
                        Seen!Exit, Seen!Finish, Seen!Unflag, Seen!Unregister, Seen!Leave,
                        Seen!Switch, Seen!Running, Seen!Exiting
    <3>2. QED
      BY <3>1 DEF Seen!Next, Seen!Call, Callers
  <2>4. QED
    BY <1>2, <2>2, <2>3 DEF ContextCall
<1>3. ASSUME NEW c \in Callers, InterruptCall(c) PROVE Seen!Next \/ UNCHANGED seen
  <2>1. PICK i \in Interrupts : RegisterFor(c, i) \/ UnregisterFor(c, i)
    BY <1>3 DEF InterruptCall
  <2>2. Lengths' = Lengths
    BY <2>1 DEF RegisterFor, UnregisterFor, packetVars, Lengths
  <2>3. Seen!RegisterFor(c, i) \/ Seen!UnregisterFor(c, i)
    BY <2>1, <2>2 DEF RegisterFor, UnregisterFor, Running, Lengths,
                      Seen!RegisterFor, Seen!UnregisterFor, Seen!Running
  <2>4. QED
    BY <2>3 DEF Seen!Next, Seen!Call, Callers
<1>4. ASSUME NEW to \in Contexts \cup {Nobody}, YieldTo(to) PROVE Seen!Next
  <2>1. Seen!YieldTo(to)
    BY <1>4 DEF YieldTo, Switch, Running, packetVars, Seen!YieldTo, Seen!Switch, Seen!Running
  <2>2. QED
    BY <2>1 DEF Seen!Next
<1>5. ASSUME NEW to \in Contexts, ReceiveWait(Scheduler, to) PROVE Seen!Next
  <2>1. Lengths[Scheduler] = 0 /\ Lengths' = Lengths
    BY <1>5, EmptyLength, KernelAssumption DEF ReceiveWait, Lengths, packetVars, IInv, TypeOK
  <2>2. Seen!ReceiveWait(Scheduler, to)
    BY <1>5, <2>1 DEF ReceiveWait, Switch, Running, Lengths,
                      Seen!ReceiveWait, Seen!Switch, Seen!Running
  <2>3. QED
    BY <2>2 DEF Seen!Next
<1>6. ASSUME NEW i \in Interrupts, Irq(i) PROVE Seen!Next \/ UNCHANGED seen
  <2>1. CASE IrqUnhandled(i)
    BY <2>1 DEF IrqUnhandled, Lengths
  <2>2. CASE IrqDelivered(i)
    <3>1. PICK p \in Packets :
            /\ Interrupted(p) /\ handler[i] # Nobody
            /\ Deliver(current, p, handler[i], TRUE)
            /\ UNCHANGED <<finished, pc, handler, enabled>>
      BY <2>2 DEF IrqDelivered
    <3>2. current \in Contexts /\ handler[i] \in Contexts
      BY <3>1 DEF IInv, TypeOK
    <3>3. Seen!Deliver(current, handler[i], TRUE)
      BY <3>1, <3>2, DeliverSeen
    <3>4. Seen!Irq(i)
      BY <3>1, <3>3 DEF Interrupted, Running, Seen!Irq, Seen!Running
    <3>5. QED
      BY <3>4 DEF Seen!Next
  <2>3. CASE IrqUndeliverable(i)
    <3>1. handler[i] \in Contexts /\ Lengths' = Lengths
      BY <2>3 DEF IrqUndeliverable, IInv, TypeOK, Lengths, packetVars
    <3>2. Seen!Irq(i)
      BY <2>3, <3>1 DEF IrqUndeliverable, Interrupted, Running, CanReceive, Lengths,
                        Seen!Irq, Seen!Running, Seen!CanReceive
    <3>3. QED
      BY <3>2 DEF Seen!Next
  <2>4. QED
    BY <1>6, <2>1, <2>2, <2>3 DEF Irq
<1>7. CASE UNCHANGED vars
  BY <1>7 DEF vars, packetVars, Lengths
<1>8. QED
  BY <1>1, <1>2, <1>3, <1>4, <1>5, <1>6, <1>7 DEF Next

\* Whatever holds of Processor, and so what the scheduler's model assumes of
\* the kernel, holds of the kernel with its packets, queues and pool.
THEOREM KernelImplementsProcessor == Spec => ImplementsProcessor
<1>1. Init => Seen!Init
  BY DEF Init, Seen!Init
<1>2. IInv /\ [Next]_vars => [Seen!Next]_Seen!vars
  BY SeenStep DEF Lengths, Seen!vars
<1>3. QED
  BY <1>1, <1>2, Invariance, PTL DEF Spec, ImplementsProcessor, Seen!Spec
===============================================================================
