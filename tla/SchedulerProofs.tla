--------------------------- MODULE SchedulerProofs ---------------------------
(***************************************************************************)
(* The scheduler's queue and the flags it goes by, for every number of     *)
(* contexts and interrupts, every queue length, and whatever the users,    *)
(* the clock and the devices do between two steps of its loop.             *)
(*                                                                         *)
(* The invariant says where the processor can go while the scheduler is    *)
(* preempted: to contexts that waited, so never to the one it has chosen.  *)
(* The count of those that keep the system alive follows the queue, since  *)
(* nobody is in it twice and the one that leaves is the head.              *)
(***************************************************************************)
EXTENDS Scheduler, FiniteSetTheorems, TLAPS

Locations == {"test", "return", "skip", "receive", "receiveAgain", "given",
              "givenAgain", "answer", "tick", "rotate"}
Kinds == {"tick", "udp", "other"} \cup Users
ExitSteps == {"finished", "unflagged", "gone"}
Places == {"run", "recv"} \cup ExitSteps

TypeOK ==
  /\ current \in Contexts
  /\ blocking \subseteq Contexts /\ finished \subseteq Contexts
  /\ pending \in [Contexts -> Nat]
  /\ pc \in [Contexts -> Places]
  /\ handler \in [Interrupts -> Contexts \cup {Nobody}]
  /\ at \in Locations
  /\ ready \in Seq(Contexts \ {Scheduler})
  /\ mail \in Seq(Kinds)

\* The scheduler's mailbox, and who can put anything there.
MailIsPending ==
  /\ Len(mail) = pending[Scheduler]
  /\ at = "answer" => answerTo \in Users
  /\ \A i \in Interrupts : handler[i] = Scheduler <=> i = Clock

\* The loop is inside of a receive while its context waits, and at its end
\* when its context exits, which it does without giving the processor away;
\* the idle context never waits or exits.
Waits ==
  /\ pc[Scheduler] = "recv" <=> at \in {"given", "givenAgain"}
  /\ pc[Scheduler] \in ExitSteps => at = "return" /\ current = Scheduler
  /\ \A c \in Contexts : c \in finished <=> pc[c] \in ExitSteps
  /\ pc[Idle] = "run"

\* The context that was chosen does not run before it is given the processor.
ChosenWaits ==
  at = "receive" => Cur \notin finished \cup blocking /\ (current = Cur => Cur = Idle)

IInv == TypeOK /\ MailIsPending /\ Waits /\ BlockingMeansWaiting /\ ChosenWaits
          /\ EachQueuedOnce

-----------------------------------------------------------------------------
(* The queue *)

LEMMA HeadTail ==
  ASSUME NEW S, NEW s \in Seq(S), s # << >>
  PROVE  /\ Len(s) \in Nat /\ Len(s) > 0
         /\ Head(s) = s[1] /\ Head(s) \in S
         /\ Tail(s) \in Seq(S) /\ Len(Tail(s)) = Len(s) - 1
         /\ \A k \in 1 .. Len(s) - 1 : Tail(s)[k] = s[k + 1]
OBVIOUS

LEMMA AppendOne ==
  ASSUME NEW S, NEW s \in Seq(S), NEW e \in S
  PROVE  /\ Append(s, e) \in Seq(S)
         /\ Len(s) \in Nat /\ Len(Append(s, e)) = Len(s) + 1
OBVIOUS

LEMMA AddedLast ==
  ASSUME NEW S, NEW s \in Seq(S), NEW e \in S
  PROVE  /\ s \o <<e>> \in Seq(S) /\ Len(s \o <<e>>) = Len(s) + 1
         /\ \A k \in 1 .. Len(s) + 1 : (s \o <<e>>)[k] = IF k = Len(s) + 1 THEN e ELSE s[k]
OBVIOUS

LEMMA RotatedElements ==
  ASSUME NEW S, NEW s \in Seq(S), s # << >>
  PROVE  /\ Rotated(s) \in Seq(S) /\ Len(Rotated(s)) = Len(s)
         /\ \A k \in 1 .. Len(s) : Rotated(s)[k] = IF k = Len(s) THEN s[1] ELSE s[k + 1]
BY HeadTail DEF Rotated

\* The idle context is in the queue, so there is a head.
LEMMA QueueHasHead ==
  ASSUME IInv
  PROVE  ready # << >> /\ Cur \in Contexts \ {Scheduler}
<1>1. ready \in Seq(Contexts \ {Scheduler}) /\ Idle \notin finished
  BY SchedulerAssumption DEF IInv, TypeOK, Waits, ExitSteps
<1>2. InReady(Idle)
  BY <1>1, SchedulerAssumption DEF IInv, EachQueuedOnce
<1>3. ready # << >>
  BY <1>1, <1>2 DEF InReady
<1> QED
  BY <1>1, <1>3, HeadTail DEF Cur

LEMMA RotateKeeps ==
  ASSUME IInv, ready' = Rotated(ready), UNCHANGED finished
  PROVE  EachQueuedOnce' /\ ready' \in Seq(Contexts \ {Scheduler})
<1>1. ready # << >> /\ ready \in Seq(Contexts \ {Scheduler})
  BY QueueHasHead DEF IInv, TypeOK
<1>2. /\ ready' \in Seq(Contexts \ {Scheduler}) /\ Len(ready') = Len(ready) /\ Len(ready) \in Nat
      /\ \A k \in 1 .. Len(ready) : ready'[k] = IF k = Len(ready) THEN ready[1] ELSE ready[k + 1]
  BY <1>1, RotatedElements
<1>3. ASSUME NEW c, InReady(c) PROVE InReady(c)'
  <2>1. PICK k \in 1 .. Len(ready) : ready[k] = c
    BY <1>3 DEF InReady
  <2>2. CASE k = 1
    BY <1>2, <2>1, <2>2 DEF InReady
  <2>3. CASE k # 1
    <3>1. k - 1 \in 1 .. Len(ready) /\ ready'[k - 1] = c
      BY <1>2, <2>1, <2>3
    <3> QED
      BY <1>2, <3>1 DEF InReady
  <2> QED
    BY <2>2, <2>3
<1>4. \A j, k \in 1 .. Len(ready') : ready'[j] = ready'[k] => j = k
  <2> SUFFICES ASSUME NEW j \in 1 .. Len(ready), NEW k \in 1 .. Len(ready), ready'[j] = ready'[k]
               PROVE  j = k
    BY <1>2
  <2>1. \A i \in 1 .. Len(ready) :
          /\ (IF i = Len(ready) THEN 1 ELSE i + 1) \in 1 .. Len(ready)
          /\ ready'[i] = ready[IF i = Len(ready) THEN 1 ELSE i + 1]
    BY <1>2
  <2>2. (IF j = Len(ready) THEN 1 ELSE j + 1) = (IF k = Len(ready) THEN 1 ELSE k + 1)
    BY <2>1 DEF IInv, EachQueuedOnce
  <2> QED
    BY <1>2, <2>2
<1> QED
  BY <1>2, <1>3, <1>4 DEF IInv, EachQueuedOnce

LEMMA DropKeeps ==
  ASSUME IInv, ready' = Tail(ready), Cur \in finished, UNCHANGED finished
  PROVE  EachQueuedOnce' /\ ready' \in Seq(Contexts \ {Scheduler})
<1>1. ready # << >> /\ ready \in Seq(Contexts \ {Scheduler})
  BY QueueHasHead DEF IInv, TypeOK
<1>2. /\ ready' \in Seq(Contexts \ {Scheduler}) /\ Len(ready) \in Nat /\ Len(ready') = Len(ready) - 1
      /\ \A k \in 1 .. Len(ready) - 1 : ready'[k] = ready[k + 1]
      /\ Cur = ready[1]
  BY <1>1, HeadTail DEF Cur
<1>3. ASSUME NEW c, c \notin finished, InReady(c) PROVE InReady(c)'
  <2>1. PICK k \in 1 .. Len(ready) : ready[k] = c
    BY <1>3 DEF InReady
  <2>2. k # 1
    BY <1>2, <1>3, <2>1
  <2>3. k - 1 \in 1 .. Len(ready) - 1 /\ ready'[k - 1] = c
    BY <1>2, <2>1, <2>2
  <2> QED
    BY <1>2, <2>3 DEF InReady
<1>4. \A j, k \in 1 .. Len(ready') : ready'[j] = ready'[k] => j = k
  BY <1>2 DEF IInv, EachQueuedOnce
<1> QED
  BY <1>2, <1>3, <1>4 DEF IInv, EachQueuedOnce

\* Exits only make fewer contexts that have to be there.
LEMMA SameQueue ==
  ASSUME EachQueuedOnce, UNCHANGED ready, finished \subseteq finished'
  PROVE  EachQueuedOnce'
BY DEF EachQueuedOnce, InReady

LEMMA InitIInv == Init => IInv
<1> SUFFICES ASSUME Init PROVE IInv
  OBVIOUS
<1> USE SchedulerAssumption DEF Init
<1>1. Len(Order) \in Nat /\ Order \in Seq(Contexts \ {Scheduler}) /\ Order \in Seq(Users)
      /\ \A k \in 1 .. Len(Order) : Order[k] \in Users
  BY DEF Users
<1>2. /\ ready \in Seq(Contexts \ {Scheduler}) /\ Len(ready) = Len(Order) + 1
      /\ \A k \in 1 .. Len(Order) + 1 : ready[k] = IF k = Len(Order) + 1 THEN Idle ELSE Order[k]
  <2>1. Idle \in Contexts \ {Scheduler}
    OBVIOUS
  <2> QED
    BY <1>1, <2>1, AddedLast
<1>3. TypeOK
  BY <1>2 DEF TypeOK, Locations, Kinds, Places
<1>4. MailIsPending /\ Waits /\ BlockingMeansWaiting /\ ChosenWaits
  BY DEF MailIsPending, Waits, BlockingMeansWaiting, ChosenWaits, ExitSteps
<1>5. EachQueuedOnce
  <2>1. ASSUME NEW c \in Contexts \ {Scheduler} PROVE InReady(c)
    <3>1. CASE c = Idle
      <4>1. Len(Order) + 1 \in 1 .. Len(ready) /\ ready[Len(Order) + 1] = c
        BY <1>1, <1>2, <3>1
      <4> QED
        BY <4>1 DEF InReady
    <3>2. CASE c # Idle
      <4>1. PICK k \in 1 .. Len(Order) : Order[k] = c
        BY <3>2 DEF Users
      <4>2. k \in 1 .. Len(ready) /\ ready[k] = c
        BY <1>1, <1>2, <4>1
      <4> QED
        BY <4>2 DEF InReady
    <3> QED
      BY <3>1, <3>2
  <2>2. \A j, k \in 1 .. Len(ready) : ready[j] = ready[k] => j = k
    <3> SUFFICES ASSUME NEW j \in 1 .. Len(Order) + 1, NEW k \in 1 .. Len(Order) + 1,
                        ready[j] = ready[k]
                 PROVE  j = k
      BY <1>2
    <3>1. CASE j \in 1 .. Len(Order) /\ k \in 1 .. Len(Order)
      BY <1>1, <1>2, <3>1
    <3>2. CASE j = Len(Order) + 1 \/ k = Len(Order) + 1
      BY <1>1, <1>2, <3>2 DEF Users
    <3> QED
      BY <1>1, <3>1, <3>2
  <2> QED
    BY <2>1, <2>2 DEF EachQueuedOnce
<1> QED
  BY <1>3, <1>4, <1>5 DEF IInv

-----------------------------------------------------------------------------
(* The kernel *)

\* Where the processor is after a switch.
LEMMA SwitchTo ==
  ASSUME NEW from, NEW to, K!Switch(from, to)
  PROVE  \/ /\ halted' /\ current' = current
            /\ Scheduler \in finished \/ to \notin Contexts \/ to \in finished
         \/ /\ halted' = halted /\ to \in Contexts \ finished /\ Scheduler \notin finished
            /\ current' = IF to # from THEN to ELSE IF from = Scheduler THEN Idle ELSE from
BY DEF K!Switch

\* A step that moves the processor, and perhaps wakes or exits contexts, leaves
\* the scheduler's choice alone unless it gives the processor to it.
LEMMA KernelStep ==
  ASSUME IInv, UNCHANGED <<at, ready, answerTo>>,
         TypeOK', MailIsPending', Waits', BlockingMeansWaiting',
         finished \subseteq finished',
         at = "receive" => /\ Cur \notin finished' \cup blocking'
                           /\ current' = Cur => current = Cur \/ Cur = Idle
  PROVE  IInv'
<1>1. EachQueuedOnce'
  BY SameQueue DEF IInv
<1>2. ChosenWaits'
  <2>1. Cur' = Cur
    BY DEF Cur
  <2>2. at = "receive" => /\ Cur \notin finished' \cup blocking'
                          /\ current' = Cur => Cur = Idle
    BY DEF IInv, ChosenWaits
  <2>3. at' = at
    OBVIOUS
  <2>4. at' = "receive" => /\ Cur' \notin finished' \cup blocking'
                           /\ current' = Cur' => Cur' = Idle
    BY <2>1, <2>2, <2>3
  <2> QED
    BY <2>4 DEF ChosenWaits
<1> QED
  BY <1>1, <1>2 DEF IInv

\* A packet is delivered by whoever runs, and the recipient may get the
\* processor.  Only the scheduler's own packets are in mail.
LEMMA DeliverStep ==
  ASSUME IInv, NEW c \in Contexts, current = c, pc[c] # "recv", NEW d \in Contexts, NEW y,
         K!Deliver(c, d, y), UNCHANGED <<finished, pc, handler, at, ready, answerTo>>,
         mail' \in Seq(Kinds),
         Len(mail') = IF d = Scheduler THEN Len(mail) + 1 ELSE Len(mail)
  PROVE  IInv'
<1>1. /\ pending' = [pending EXCEPT ![d] = @ + 1]
      /\ blocking' = blocking \ {d}
      /\ \/ /\ d \in blocking /\ K!Switch(c, d)
         \/ UNCHANGED <<current, halted>>
  BY DEF K!Deliver
<1>2. /\ pending' \in [Contexts -> Nat] /\ pending'[d] = pending[d] + 1
      /\ \A e \in Contexts \ {d} : pending'[e] = pending[e]
  BY <1>1 DEF IInv, TypeOK
<1>3. /\ current' \in Contexts
      /\ \/ current' = current
         \/ /\ current' = Idle \/ (current' = d /\ d \in blocking)
            /\ Scheduler \notin finished
  <2>1. CASE K!Switch(c, d)
    BY <1>1, <2>1, SwitchTo, SchedulerAssumption DEF IInv, TypeOK
  <2>2. CASE UNCHANGED <<current, halted>>
    BY <2>2 DEF IInv, TypeOK
  <2> QED
    BY <1>1, <2>1, <2>2, SwitchTo, SchedulerAssumption
<1>4. TypeOK'
  BY <1>1, <1>2, <1>3 DEF IInv, TypeOK
<1>5. MailIsPending'
  BY <1>2, SchedulerAssumption DEF IInv, MailIsPending, TypeOK
<1>6. Waits'
  BY <1>3, SchedulerAssumption DEF IInv, Waits
<1>7. BlockingMeansWaiting'
  <2> SUFFICES ASSUME NEW e \in blocking' \ {Scheduler}
               PROVE  pc[e] = "recv" /\ current' # e /\ pending'[e] = 0
    BY DEF BlockingMeansWaiting
  <2>1. e \in blocking /\ e # d /\ e \in Contexts
    BY <1>1 DEF IInv, TypeOK
  <2>2. pc[e] = "recv" /\ current # e /\ pending[e] = 0
    BY <2>1 DEF IInv, BlockingMeansWaiting
  <2>3. e # Idle
    BY <2>2 DEF IInv, Waits
  <2> QED
    BY <1>2, <1>3, <2>1, <2>2, <2>3
<1>8. at = "receive" => /\ Cur \notin finished' \cup blocking'
                        /\ current' = Cur => current = Cur \/ Cur = Idle
  BY <1>1, <1>3 DEF IInv, ChosenWaits
<1> QED
  BY <1>4, <1>5, <1>6, <1>7, <1>8, KernelStep

-----------------------------------------------------------------------------
(* The loop *)

\* Steps between two calls of the kernel.
LEMMA LoopStep ==
  IInv /\ (LoopTest \/ Skip \/ Remove \/ Choose \/ Rotate \/ (\E c \in Users : Activate(c))
             \/ PollFailed \/ EndTick)
  => IInv'
<1> SUFFICES ASSUME IInv, LoopTest \/ Skip \/ Remove \/ Choose \/ Rotate
                            \/ (\E c \in Users : Activate(c)) \/ PollFailed \/ EndTick
             PROVE  IInv'
  OBVIOUS
<1> USE DEF LoopTest, Skip, Remove, Choose, Rotate, Activate, PollFailed, EndTick
<1>1. /\ UNCHANGED <<current, blocking, finished, pending, pc, handler, halted, mail>>
      /\ K!Running(Scheduler) /\ at' \in Locations \ {"given", "givenAgain", "answer"}
      /\ UNCHANGED ready \/ ready' = Rotated(ready) \/ (ready' = Tail(ready) /\ Cur \in finished)
  BY DEF SchedulerRuns, kernel, queues, Drop, Locations
<1>2. EachQueuedOnce' /\ ready' \in Seq(Contexts \ {Scheduler})
  BY <1>1, RotateKeeps, DropKeeps, SameQueue DEF IInv, TypeOK
<1>3. TypeOK'
  BY <1>1, <1>2 DEF IInv, TypeOK
<1>4. MailIsPending'
  BY <1>1 DEF IInv, MailIsPending
<1>5. Waits'
  BY <1>1 DEF IInv, Waits, K!Running, ExitSteps
<1>6. BlockingMeansWaiting'
  BY <1>1 DEF IInv, BlockingMeansWaiting
<1>7. ChosenWaits'
  <2>1. at' = "receive" => /\ UNCHANGED ready /\ Cur \notin finished \cup blocking
                           /\ current = Scheduler
    BY DEF SchedulerRuns, K!Running, Skippable, queues
  <2>2. Cur # Scheduler
    BY QueueHasHead
  <2>3. UNCHANGED ready => Cur' = Cur
    BY DEF Cur
  <2> QED
    BY <1>1, <2>1, <2>2, <2>3 DEF ChosenWaits
<1> QED
  BY <1>2, <1>3, <1>4, <1>5, <1>6, <1>7 DEF IInv

\* What Classify does to the loop.
LEMMA Classified ==
  ASSUME IInv, mail # << >>, Classify
  PROVE  /\ mail' \in Seq(Kinds) /\ Len(mail') = Len(mail) - 1 /\ Len(mail) \in Nat \ {0}
         /\ at' \in Locations \ {"given", "givenAgain", "receive"}
         /\ at' = "answer" => answerTo' \in Users
BY HeadTail DEF IInv, TypeOK, Classify, Locations

LEMMA MailEmpty ==
  ASSUME IInv
  PROVE  mail = << >> <=> pending[Scheduler] = 0
BY DEF IInv, TypeOK, MailIsPending

LEMMA ReceiveQueuedStep == IInv /\ ReceiveQueued => IInv'
<1> SUFFICES ASSUME IInv, ReceiveQueued PROVE IInv'
  OBVIOUS
<1>1. /\ UNCHANGED <<current, blocking, finished, pc, handler, halted, ready>>
      /\ K!Running(Scheduler) /\ pending[Scheduler] > 0
      /\ pending' = [pending EXCEPT ![Scheduler] = @ - 1] /\ Classify
  BY DEF ReceiveQueued, K!ReceiveQueued, SchedulerRuns, queues
<1>2. pending[Scheduler] \in Nat /\ Scheduler \in Contexts
  BY SchedulerAssumption DEF IInv, TypeOK
<1>3. /\ pending' \in [Contexts -> Nat] /\ pending'[Scheduler] = pending[Scheduler] - 1
      /\ \A c \in Contexts \ {Scheduler} : pending'[c] = pending[c]
  BY <1>1, <1>2 DEF IInv, TypeOK
<1>4. /\ mail' \in Seq(Kinds) /\ Len(mail') = Len(mail) - 1
      /\ at' \in Locations \ {"given", "givenAgain", "receive"}
      /\ at' = "answer" => answerTo' \in Users
  BY <1>1, <1>2, MailEmpty, Classified
<1>5. TypeOK'
  BY <1>1, <1>3, <1>4 DEF IInv, TypeOK
<1>6. MailIsPending'
  BY <1>1, <1>3, <1>4 DEF IInv, MailIsPending
<1>7. Waits'
  BY <1>1, <1>4 DEF IInv, Waits, K!Running, ExitSteps
<1>8. BlockingMeansWaiting'
  BY <1>1, <1>3 DEF IInv, TypeOK, BlockingMeansWaiting
<1>9. ChosenWaits' /\ EachQueuedOnce'
  BY <1>1, <1>4, SameQueue DEF IInv, ChosenWaits
<1> QED
  BY <1>5, <1>6, <1>7, <1>8, <1>9 DEF IInv

\* The scheduler waits, and the processor goes to its choice, or to the idle
\* context.
LEMMA GiveStep == IInv /\ (Give \/ GiveAgain) => IInv'
<1> SUFFICES ASSUME IInv, Give \/ GiveAgain PROVE IInv'
  OBVIOUS
<1>0. /\ Cur \in Contexts \ {Scheduler} /\ Scheduler \in Contexts /\ Idle \in Contexts \ {Scheduler}
      /\ Nobody \notin Contexts
  BY QueueHasHead, SchedulerAssumption
<1>1. /\ UNCHANGED <<finished, pending, handler, ready, mail, answerTo>>
      /\ K!Running(Scheduler) /\ at' \in {"given", "givenAgain"}
      /\ blocking' = blocking \cup {Scheduler} /\ pc' = [pc EXCEPT ![Scheduler] = "recv"]
      /\ \/ K!Switch(Scheduler, Cur) /\ Cur \notin finished \cup blocking
         \/ K!Switch(Scheduler, Scheduler)
  BY <1>0 DEF Give, GiveAgain, K!ReceiveWait, SchedulerRuns, queues
<1>2. /\ current' \in Contexts
      /\ current' \in {Scheduler, Idle} \/ (current' = Cur /\ Cur \notin blocking)
  BY <1>0, <1>1, SwitchTo DEF K!Running
<1>3. pc' \in [Contexts -> Places] /\ pc'[Scheduler] = "recv"
      /\ \A c \in Contexts \ {Scheduler} : pc'[c] = pc[c]
  BY <1>0, <1>1 DEF IInv, TypeOK, Places
<1>4. TypeOK'
  BY <1>0, <1>1, <1>2, <1>3 DEF IInv, TypeOK, Locations
<1>5. MailIsPending'
  BY <1>1 DEF IInv, MailIsPending
<1>6. Waits'
  BY <1>0, <1>1, <1>2, <1>3 DEF IInv, Waits, K!Running, ExitSteps
<1>7. BlockingMeansWaiting'
  <2> SUFFICES ASSUME NEW e \in blocking' \ {Scheduler}
               PROVE  pc'[e] = "recv" /\ current' # e /\ pending[e] = 0
    BY <1>1 DEF BlockingMeansWaiting
  <2>1. e \in blocking /\ e \in Contexts
    BY <1>1 DEF IInv, TypeOK
  <2>2. pc[e] = "recv" /\ pending[e] = 0
    BY <2>1 DEF IInv, BlockingMeansWaiting
  <2>3. e # Idle
    BY <2>2 DEF IInv, Waits
  <2> QED
    BY <1>2, <1>3, <2>1, <2>2, <2>3
<1>8. ChosenWaits' /\ EachQueuedOnce'
  BY <1>1, SameQueue DEF IInv, ChosenWaits
<1> QED
  BY <1>4, <1>5, <1>6, <1>7, <1>8 DEF IInv

LEMMA BackStep == IInv /\ Back => IInv'
<1> SUFFICES ASSUME IInv, Back PROVE IInv'
  OBVIOUS
<1>0. Scheduler \in Contexts /\ Idle # Scheduler
  BY SchedulerAssumption
<1>1. /\ UNCHANGED <<current, blocking, finished, handler, halted, ready>>
      /\ current = Scheduler /\ ~halted
      /\ pc' = [pc EXCEPT ![Scheduler] = "run"]
      /\ pending' = [pending EXCEPT ![Scheduler] = IF @ > 0 THEN @ - 1 ELSE 0]
  BY DEF Back, K!Resume, queues
<1>2. /\ pc' \in [Contexts -> Places] /\ pc'[Scheduler] = "run"
      /\ \A c \in Contexts \ {Scheduler} : pc'[c] = pc[c]
  BY <1>0, <1>1 DEF IInv, TypeOK, Places
<1>3. /\ pending' \in [Contexts -> Nat]
      /\ pending'[Scheduler] = IF pending[Scheduler] > 0 THEN pending[Scheduler] - 1 ELSE 0
      /\ \A c \in Contexts \ {Scheduler} : pending'[c] = pending[c]
  BY <1>0, <1>1 DEF IInv, TypeOK
<1>4. /\ mail' \in Seq(Kinds) /\ Len(mail') = pending'[Scheduler]
      /\ at' \in Locations \ {"given", "givenAgain", "receive"}
      /\ at' = "answer" => answerTo' \in Users
  <2>0. pending[Scheduler] \in Nat /\ Len(mail) = pending[Scheduler] /\ mail \in Seq(Kinds)
    BY <1>0 DEF IInv, TypeOK, MailIsPending
  <2>1. CASE mail # << >>
    <3>1. Classify
      BY <2>1 DEF Back
    <3>2. /\ mail' \in Seq(Kinds) /\ Len(mail') = Len(mail) - 1 /\ Len(mail) \in Nat \ {0}
          /\ at' \in Locations \ {"given", "givenAgain", "receive"}
          /\ at' = "answer" => answerTo' \in Users
      BY <2>1, <3>1, Classified
    <3> QED
      BY <1>3, <2>0, <3>2
  <2>2. CASE mail = << >>
    <3>1. at' \in {"rotate", "return"} /\ mail' = mail
      BY <2>2 DEF Back
    <3> QED
      BY <1>3, <2>0, <2>2, <3>1 DEF Locations
  <2> QED
    BY <2>1, <2>2
<1>5. TypeOK'
  BY <1>1, <1>2, <1>3, <1>4 DEF IInv, TypeOK
<1>6. MailIsPending'
  BY <1>1, <1>4 DEF IInv, MailIsPending
<1>7. Waits'
  <2>1. pc[Scheduler] = "recv"
    BY DEF Back, K!Resume
  <2> QED
    BY <1>0, <1>1, <1>2, <1>4, <2>1, SchedulerAssumption DEF IInv, Waits, ExitSteps
<1>8. BlockingMeansWaiting'
  BY <1>1, <1>2, <1>3 DEF IInv, TypeOK, BlockingMeansWaiting
<1>9. ChosenWaits' /\ EachQueuedOnce'
  BY <1>1, <1>4, SameQueue DEF IInv, ChosenWaits
<1> QED
  BY <1>5, <1>6, <1>7, <1>8, <1>9 DEF IInv

LEMMA ReturnStep == IInv /\ Return => IInv'
<1> SUFFICES ASSUME IInv, Return PROVE IInv'
  OBVIOUS
<1>0. Scheduler \in Contexts /\ Idle # Scheduler
  BY SchedulerAssumption
<1>1. /\ UNCHANGED <<current, pending, handler, at, ready, answerTo, mail>>
      /\ at = "return" /\ current = Scheduler
      /\ blocking' \in {blocking, blocking \ {Scheduler}}
      /\ \/ UNCHANGED <<finished, pc>>
         \/ \E step \in ExitSteps :
              /\ finished' = finished \cup {Scheduler}
              /\ pc' = [pc EXCEPT ![Scheduler] = step]
  <2>1. UNCHANGED <<at, ready, answerTo, mail>> /\ at = "return" /\ K!Exit(Scheduler)
    BY DEF Return, loop, queues
  <2>2. CASE K!Finish(Scheduler)
    BY <2>1, <2>2 DEF K!Finish, K!Running, ExitSteps
  <2>3. CASE K!Unflag(Scheduler) \/ K!Unregister(Scheduler)
    <3>1. Scheduler \in finished
      BY <1>0, <2>3 DEF K!Unflag, K!Unregister, K!Exiting, IInv, Waits, ExitSteps
    <3> QED
      BY <2>1, <2>3, <3>1 DEF K!Unflag, K!Unregister, K!Exiting, ExitSteps
  <2>4. CASE K!Leave(Scheduler)
    <3>1. Scheduler \in finished
      BY <1>0, <2>4 DEF K!Leave, K!Exiting, IInv, Waits, ExitSteps
    <3> QED
      BY <2>1, <2>4, <3>1 DEF K!Leave, K!Exiting, K!Switch
  <2> QED
    BY <2>1, <2>2, <2>3, <2>4 DEF K!Exit
<1>2. /\ pc' \in [Contexts -> Places]
      /\ \A c \in Contexts \ {Scheduler} : pc'[c] = pc[c]
      /\ UNCHANGED <<finished, pc>> \/ (pc'[Scheduler] \in ExitSteps /\ finished' = finished \cup {Scheduler})
  BY <1>0, <1>1 DEF IInv, TypeOK, Places
<1>3. TypeOK' /\ MailIsPending'
  BY <1>0, <1>1, <1>2 DEF IInv, TypeOK, MailIsPending
<1>6. Waits'
  BY <1>0, <1>1, <1>2, SchedulerAssumption DEF IInv, Waits, ExitSteps
<1>4. BlockingMeansWaiting'
  BY <1>0, <1>1, <1>2 DEF IInv, TypeOK, BlockingMeansWaiting
<1>5. Cur # Scheduler /\ finished \subseteq finished'
  BY <1>1, QueueHasHead
<1> QED
  BY <1>1, <1>3, <1>4, <1>5, <1>6, KernelStep DEF IInv, ChosenWaits

\* What the scheduler sends.
LEMMA SendStep == IInv /\ (Answer \/ (\E d \in TimerClients : Notify(d) \/ NotifyFails(d))) => IInv'
<1>1. ASSUME IInv, NEW d \in TimerClients, Notify(d) PROVE IInv'
  <2>1. /\ d \in Contexts \ {Scheduler} /\ Scheduler \in Contexts
        /\ current = Scheduler /\ pc[Scheduler] # "recv" /\ K!Deliver(Scheduler, d, FALSE)
        /\ UNCHANGED <<finished, pc, handler, at, ready, answerTo, mail>>
    BY <1>1, SchedulerAssumption DEF Notify, K!Send, K!Running, loop, queues, Users
  <2>2. mail \in Seq(Kinds)
    BY <1>1 DEF IInv, TypeOK
  <2> QED
    BY <1>1, <2>1, <2>2, DeliverStep
<1>2. ASSUME IInv, NEW d \in TimerClients, NotifyFails(d) PROVE IInv'
  <2>1. UNCHANGED <<current, blocking, finished, pending, pc, handler, halted, at, ready, answerTo, mail>>
    BY <1>2 DEF NotifyFails, K!LeaveDisabled, loop, queues
  <2>2. TypeOK' /\ MailIsPending' /\ Waits' /\ BlockingMeansWaiting'
    BY <1>2, <2>1 DEF IInv, TypeOK, MailIsPending, Waits, BlockingMeansWaiting
  <2>3. at = "receive" => Cur \notin finished \cup blocking
    BY <1>2 DEF IInv, ChosenWaits
  <2> QED
    BY <1>2, <2>1, <2>2, <2>3, KernelStep
<1>3. ASSUME IInv, Answer PROVE IInv'
  <2>1. /\ at = "answer" /\ answerTo \in Users /\ K!Running(Scheduler) /\ current = Scheduler
        /\ at' \in {"rotate", "return"} /\ UNCHANGED <<mail, ready>>
    BY <1>3 DEF IInv, MailIsPending, Answer, SchedulerRuns, K!Running, queues
  <2>2. /\ UNCHANGED <<finished, pc, handler, current, halted>>
        /\ \/ K!Deliver(Scheduler, answerTo, FALSE)
           \/ UNCHANGED <<pending, blocking>>
    BY <1>3 DEF Answer, K!Send, K!Deliver, kernel
  <2>3. /\ blocking' \subseteq blocking
        /\ pending' \in [Contexts -> Nat] /\ pending'[Scheduler] = pending[Scheduler]
        /\ \A c \in blocking' : pending'[c] = pending[c]
    <3>0. /\ pending \in [Contexts -> Nat] /\ blocking \subseteq Contexts
          /\ answerTo \in Contexts \ {Scheduler} /\ Scheduler \in Contexts
      BY <1>3, <2>1, SchedulerAssumption DEF IInv, TypeOK, Users
    <3>1. CASE K!Deliver(Scheduler, answerTo, FALSE)
      <4>1. pending' = [pending EXCEPT ![answerTo] = @ + 1] /\ blocking' = blocking \ {answerTo}
        BY <3>1 DEF K!Deliver
      <4> QED
        BY <3>0, <4>1
    <3>2. CASE UNCHANGED <<pending, blocking>>
      BY <3>0, <3>2
    <3> QED
      BY <2>2, <3>1, <3>2
  <2>4. TypeOK'
    BY <1>3, <2>1, <2>2, <2>3 DEF IInv, TypeOK, Locations
  <2>5. MailIsPending' /\ Waits' /\ BlockingMeansWaiting'
    BY <1>3, <2>1, <2>2, <2>3
    DEF IInv, MailIsPending, Waits, BlockingMeansWaiting, K!Running, ExitSteps
  <2>6. ChosenWaits' /\ EachQueuedOnce'
    BY <1>3, <2>1, <2>2, SameQueue DEF IInv, ChosenWaits
  <2> QED
    BY <2>4, <2>5, <2>6 DEF IInv
<1> QED
  BY <1>1, <1>2, <1>3

-----------------------------------------------------------------------------
(* The rest of the machine *)

\* Who runs while the scheduler is about to receive is the scheduler itself,
\* a context that was woken, or the idle context: no user was chosen.
LEMMA RunsUnchosen ==
  ASSUME IInv, NEW c \in Users, current = c
  PROVE  /\ c \in Contexts /\ c # Scheduler /\ c # Idle /\ c \notin blocking
         /\ at = "receive" => Cur # c
BY DEF Users, IInv, ChosenWaits, BlockingMeansWaiting

\* A user that gives the processor up, or takes a step of its exit.
LEMMA UserLeaves == IInv /\ (\E c \in Users : UserNext(c) /\ (K!Yield(c) \/ K!Exit(c))) => IInv'
<1> SUFFICES ASSUME IInv, NEW c \in Users, UserNext(c), K!Yield(c) \/ K!Exit(c) PROVE IInv'
  OBVIOUS
<1>0. c \in Contexts /\ c # Scheduler /\ Scheduler \in Contexts
  BY SchedulerAssumption DEF Users
<1>1. /\ UNCHANGED <<pending, handler, at, ready, answerTo, mail>>
      /\ current = c /\ current' \in {current, Scheduler}
      /\ blocking' \in {blocking, blocking \ {c}}
      /\ \/ UNCHANGED <<finished, pc>>
         \/ \E step \in ExitSteps : /\ finished' = finished \cup {c}
                                    /\ pc' = [pc EXCEPT ![c] = step]
  <2>1. UNCHANGED <<at, ready, answerTo, mail>>
    BY DEF UserNext, loop, queues
  <2>2. CASE K!Yield(c)
    BY <1>0, <2>1, <2>2 DEF K!Yield, K!Running, K!Switch
  <2>3. CASE K!Finish(c)
    BY <2>1, <2>3 DEF K!Finish, K!Running, ExitSteps
  <2>4. CASE K!Unflag(c) \/ K!Unregister(c)
    <3>1. c \in finished
      BY <1>0, <2>4 DEF K!Unflag, K!Unregister, K!Exiting, IInv, Waits, ExitSteps
    <3> QED
      BY <2>1, <2>4, <3>1 DEF K!Unflag, K!Unregister, K!Exiting, ExitSteps
  <2>5. CASE K!Leave(c)
    BY <1>0, <2>1, <2>5 DEF K!Leave, K!Exiting, K!Switch
  <2> QED
    BY <2>2, <2>3, <2>4, <2>5 DEF K!Exit
<1>2. /\ c \in Contexts /\ c # Scheduler /\ c # Idle /\ Scheduler \in Contexts /\ c \notin blocking
  BY <1>1, RunsUnchosen, SchedulerAssumption
<1>7. /\ pc' \in [Contexts -> Places]
      /\ \A d \in Contexts \ {c} : pc'[d] = pc[d]
      /\ UNCHANGED <<finished, pc>> \/ (pc'[c] \in ExitSteps /\ finished' = finished \cup {c})
  BY <1>1, <1>2 DEF IInv, TypeOK, Places
<1>4. TypeOK'
  BY <1>1, <1>2, <1>7 DEF IInv, TypeOK
<1>5. MailIsPending' /\ Waits'
  BY <1>1, <1>2, <1>7, SchedulerAssumption DEF IInv, MailIsPending, Waits
<1>6. BlockingMeansWaiting'
  BY <1>1, <1>2, <1>7 DEF IInv, TypeOK, BlockingMeansWaiting
<1>3. at = "receive" => /\ Cur \notin finished' \cup blocking'
                        /\ current' = Cur => current = Cur \/ Cur = Idle
  BY <1>1, <1>7, RunsUnchosen, QueueHasHead DEF IInv, ChosenWaits
<1> QED
  BY <1>1, <1>3, <1>4, <1>5, <1>6, KernelStep

\* A user that receives, and waits when there is nothing for it.
LEMMA UserReceives ==
  IInv /\ (\E c \in Users : UserNext(c) /\ (K!ReceiveQueued(c) \/ K!ReceiveWait(c, Nobody) \/ K!Resume(c)))
  => IInv'
<1> SUFFICES ASSUME IInv, NEW c \in Users, UserNext(c),
                    K!ReceiveQueued(c) \/ K!ReceiveWait(c, Nobody) \/ K!Resume(c)
             PROVE  IInv'
  OBVIOUS
<1>0. /\ UNCHANGED <<at, ready, answerTo, mail>>
      /\ UNCHANGED <<finished, handler>>
      /\ current = c /\ pc[c] \in {"run", "recv"}
  BY DEF UserNext, K!ReceiveQueued, K!ReceiveWait, K!Resume, K!Running, loop, queues
<1>1. /\ c \in Contexts /\ c # Scheduler /\ c # Idle /\ c \notin blocking
      /\ at = "receive" => Cur # c
  BY <1>0, RunsUnchosen
<1>2. /\ pending \in [Contexts -> Nat] /\ pc \in [Contexts -> Places]
      /\ pending[c] \in Nat
  BY <1>1 DEF IInv, TypeOK
<1>3. Scheduler \in Contexts /\ Scheduler \notin finished
  BY <1>0, <1>1, SchedulerAssumption DEF IInv, Waits
<1>4. /\ pending' \in [Contexts -> Nat] /\ pc' \in [Contexts -> Places]
      /\ pc'[c] \in {"run", "recv"}
      /\ \A e \in Contexts \ {c} : pending'[e] = pending[e] /\ pc'[e] = pc[e]
      /\ \/ UNCHANGED <<current, blocking, halted>>
         \/ /\ blocking' = blocking \cup {c} /\ current' = Scheduler
            /\ pc'[c] = "recv" /\ pending'[c] = 0
  <2>1. CASE K!ReceiveQueued(c)
    <3>1. /\ pending' = [pending EXCEPT ![c] = @ - 1] /\ pc' = pc /\ pending[c] > 0
          /\ UNCHANGED <<current, blocking, halted>>
      BY <2>1 DEF K!ReceiveQueued
    <3>2. pending[c] - 1 \in Nat
      BY <1>2, <3>1
    <3> QED
      BY <1>0, <1>1, <1>2, <3>1, <3>2
  <2>2. CASE K!Resume(c)
    <3>1. /\ pending' = [pending EXCEPT ![c] = IF @ > 0 THEN @ - 1 ELSE 0]
          /\ pc' = [pc EXCEPT ![c] = "run"]
          /\ UNCHANGED <<current, blocking, halted>>
      BY <2>2 DEF K!Resume
    <3>2. (IF pending[c] > 0 THEN pending[c] - 1 ELSE 0) \in Nat
      BY <1>2
    <3> QED
      BY <1>1, <1>2, <3>1, <3>2 DEF Places
  <2>3. CASE K!ReceiveWait(c, Nobody)
    <3>1. K!Switch(c, Scheduler)
      BY <2>3 DEF K!ReceiveWait
    <3>2. current' = Scheduler
      BY <1>1, <1>3, <3>1 DEF K!Switch
    <3> QED
      BY <1>1, <1>2, <2>3, <3>2 DEF K!ReceiveWait, Places
  <2> QED
    BY <2>1, <2>2, <2>3
<1>5. TypeOK'
  BY <1>0, <1>1, <1>3, <1>4 DEF IInv, TypeOK
<1>6. MailIsPending'
  BY <1>0, <1>1, <1>3, <1>4 DEF IInv, MailIsPending
<1>7. Waits'
  BY <1>0, <1>1, <1>3, <1>4, SchedulerAssumption DEF IInv, Waits, ExitSteps
<1>8. BlockingMeansWaiting'
  <2> SUFFICES ASSUME NEW e \in blocking' \ {Scheduler}
               PROVE  pc'[e] = "recv" /\ current' # e /\ pending'[e] = 0
    BY DEF BlockingMeansWaiting
  <2>1. CASE e = c
    BY <1>0, <1>1, <1>4, <2>1
  <2>2. CASE e # c
    <3>1. e \in blocking /\ e \in Contexts
      BY <1>4, <2>2 DEF IInv, TypeOK
    <3>2. pc[e] = "recv" /\ current # e /\ pending[e] = 0
      BY <3>1 DEF IInv, BlockingMeansWaiting
    <3> QED
      BY <1>4, <2>2, <3>1, <3>2
  <2> QED
    BY <2>1, <2>2
<1>9. at = "receive" => /\ Cur \notin finished' \cup blocking'
                        /\ current' = Cur => current = Cur \/ Cur = Idle
  BY <1>0, <1>1, <1>4, QueueHasHead DEF IInv, ChosenWaits
<1> QED
  BY <1>0, <1>5, <1>6, <1>7, <1>8, <1>9, KernelStep

\* A user that sends, or registers for an interrupt other than the clock's.
LEMMA UserStep == IInv /\ (\E c \in Users : UserNext(c)) => IInv'
<1> SUFFICES ASSUME IInv, NEW c \in Users, UserNext(c) PROVE IInv'
  OBVIOUS
<1>0. UNCHANGED <<at, ready, answerTo, mail>> /\ mail \in Seq(Kinds)
  BY DEF UserNext, loop, queues, IInv, TypeOK
<1>1. ASSUME NEW d \in Users, NEW y \in Yields, K!Send(c, d, y) PROVE IInv'
  <2>1. /\ c \in Contexts /\ d \in Contexts \ {Scheduler} /\ current = c /\ pc[c] # "recv"
        /\ K!Deliver(c, d, y) /\ UNCHANGED <<finished, pc, handler>>
    BY <1>1 DEF K!Send, K!Running, Users
  <2> QED
    BY <1>0, <2>1, DeliverStep
<1>2. ASSUME NEW i \in Interrupts, K!RegisterFor(c, i) \/ K!UnregisterFor(c, i) PROVE IInv'
  <2>1. /\ UNCHANGED <<current, blocking, finished, pending, pc, halted>>
        /\ current = c /\ handler[i] # Scheduler
        /\ \E to \in {c, Nobody} : handler' = [handler EXCEPT ![i] = to]
    BY <1>2, SchedulerAssumption DEF K!RegisterFor, K!UnregisterFor, K!Running, Users
  <2>2. c \in Contexts /\ c # Scheduler /\ Nobody # Scheduler
    BY SchedulerAssumption DEF Users
  <2>3. /\ handler' \in [Interrupts -> Contexts \cup {Nobody}] /\ handler'[i] # Scheduler
        /\ \A j \in Interrupts \ {i} : handler'[j] = handler[j]
    BY <2>1, <2>2 DEF IInv, TypeOK
  <2>4. TypeOK' /\ MailIsPending' /\ Waits' /\ BlockingMeansWaiting'
    BY <1>0, <2>1, <2>3 DEF IInv, TypeOK, MailIsPending, Waits, BlockingMeansWaiting
  <2>5. at = "receive" => Cur \notin finished \cup blocking
    BY DEF IInv, ChosenWaits
  <2> QED
    BY <1>0, <2>1, <2>4, <2>5, KernelStep
<1> QED
  BY <1>1, <1>2, UserLeaves, UserReceives DEF UserNext

\* A user asks the scheduler.
LEMMA AskStep == IInv /\ (\E c \in Users : \E protocol \in Protocols : Ask(c, protocol)) => IInv'
<1> SUFFICES ASSUME IInv, NEW c \in Users, NEW protocol \in Protocols, Ask(c, protocol) PROVE IInv'
  OBVIOUS
<1>1. /\ c \in Contexts /\ Scheduler \in Contexts /\ current = c /\ pc[c] # "recv"
      /\ \E y \in Yields : K!Deliver(c, Scheduler, y)
      /\ UNCHANGED <<finished, pc, handler, at, ready, answerTo>>
  BY SchedulerAssumption DEF Ask, K!Send, K!Running, Users, loop, queues
<1>2. PICK e \in Kinds : mail' = Append(mail, e)
  <2>1. (IF protocol = "unbound" THEN c ELSE protocol) \in Kinds
    BY SchedulerAssumption DEF Kinds
  <2> QED
    BY <2>1 DEF Ask
<1>3. mail' \in Seq(Kinds) /\ Len(mail') = Len(mail) + 1
  BY <1>2, AppendOne DEF IInv, TypeOK
<1> QED
  BY <1>1, <1>3, DeliverStep

\* An interrupt stops the machine when its packet has no room.
LEMMA HaltStep ==
  ASSUME IInv, halted',
         UNCHANGED <<current, blocking, finished, pending, pc, handler, at, ready, answerTo, mail>>
  PROVE  IInv'
<1>1. TypeOK' /\ MailIsPending' /\ Waits' /\ BlockingMeansWaiting'
  BY DEF IInv, TypeOK, MailIsPending, Waits, BlockingMeansWaiting
<1>2. at = "receive" => Cur \notin finished \cup blocking
  BY DEF IInv, ChosenWaits
<1> QED
  BY <1>1, <1>2, KernelStep

LEMMA TickStep == IInv /\ Tick => IInv'
<1> SUFFICES ASSUME IInv, Tick PROVE IInv'
  OBVIOUS
<1>1. /\ handler[Clock] = Scheduler /\ Scheduler \in Contexts /\ current \in Contexts
      /\ pc[current] # "recv" /\ UNCHANGED <<finished, pc, handler, at, ready, answerTo>>
      /\ mail \in Seq(Kinds) /\ "tick" \in Kinds
  BY SchedulerAssumption
     DEF Tick, K!Irq, IInv, TypeOK, MailIsPending, loop, queues, Kinds
<1>2. CASE K!CanReceive(Scheduler)
  <2>1. K!Deliver(current, Scheduler, TRUE) /\ mail' = Append(mail, "tick")
    BY <1>1, <1>2 DEF Tick, K!Irq
  <2>2. mail' \in Seq(Kinds) /\ Len(mail') = Len(mail) + 1
    BY <1>1, <2>1, AppendOne
  <2> QED
    BY <1>1, <2>1, <2>2, DeliverStep
<1>3. CASE ~K!CanReceive(Scheduler)
  <2>1. halted' /\ UNCHANGED <<current, blocking, pending, mail>>
    BY <1>1, <1>3 DEF Tick, K!Irq, K!Deliver
  <2> QED
    BY <1>1, <2>1, HaltStep
<1> QED
  BY <1>2, <1>3

LEMMA DeviceStep == IInv /\ (\E i \in Interrupts : DeviceInterrupt(i)) => IInv'
<1> SUFFICES ASSUME IInv, NEW i \in Interrupts, DeviceInterrupt(i) PROVE IInv'
  OBVIOUS
<1>1. /\ handler[i] \in Contexts \ {Scheduler} /\ current \in Contexts
      /\ pc[current] # "recv" /\ UNCHANGED <<finished, pc, handler, at, ready, answerTo, mail>>
      /\ mail \in Seq(Kinds)
  BY DEF DeviceInterrupt, K!Irq, IInv, TypeOK, MailIsPending, loop, queues
<1>2. CASE K!Deliver(current, handler[i], TRUE)
  BY <1>1, <1>2, DeliverStep
<1>3. CASE ~K!Deliver(current, handler[i], TRUE)
  <2>1. halted' /\ UNCHANGED <<current, blocking, pending>>
    BY <1>3 DEF DeviceInterrupt, K!Irq
  <2> QED
    BY <1>1, <2>1, HaltStep
<1> QED
  BY <1>2, <1>3

LEMMA NextIInv == IInv /\ [Next]_vars => IInv'
<1> SUFFICES ASSUME IInv, [Next]_vars PROVE IInv'
  OBVIOUS
<1>1. CASE SchedulerNext
  BY <1>1, LoopStep, ReceiveQueuedStep, GiveStep, BackStep, ReturnStep, SendStep DEF SchedulerNext
<1>2. CASE \E c \in Users : UserNext(c)
  BY <1>2, UserStep
<1>3. CASE \E c \in Users : \E protocol \in Protocols : Ask(c, protocol)
  BY <1>3, AskStep
<1>4. CASE Tick
  BY <1>4, TickStep
<1>5. CASE \E i \in Interrupts : DeviceInterrupt(i)
  BY <1>5, DeviceStep
<1>6. CASE UNCHANGED vars
  <2>1. UNCHANGED <<current, blocking, finished, pending, pc, handler, halted, at, ready, answerTo, mail>>
    BY <1>6 DEF vars, kernel, loop, queues
  <2>2. TypeOK' /\ MailIsPending' /\ Waits' /\ BlockingMeansWaiting'
    BY <2>1 DEF IInv, TypeOK, MailIsPending, Waits, BlockingMeansWaiting
  <2>3. at = "receive" => Cur \notin finished \cup blocking
    BY DEF IInv, ChosenWaits
  <2> QED
    BY <2>1, <2>2, <2>3, KernelStep
<1> QED
  BY <1>1, <1>2, <1>3, <1>4, <1>5, <1>6 DEF Next

-----------------------------------------------------------------------------
(* The theorems *)

\* The strengthened invariant holds in every state: the mailbox, the flags,
\* the queue and the place of the loop fit together (basic.c, and the kernel's
\* receive and dispatch).
THEOREM Invariance == Spec => []IInv
BY InitIInv, NextIInv, PTL DEF Spec

\* The rotation of basic.c keeps every context that has not exited in its
\* queue exactly once, however many contexts there are and wherever the ticks
\* and the devices preempt it.
THEOREM QueueStaysComplete == Spec => []EachQueuedOnce
<1>1. IInv => EachQueuedOnce
  BY DEF IInv
<1> QED
  BY <1>1, Invariance, PTL

\* The flag for which basic.c skips a context belongs to one that is suspended
\* in a receive with an empty mailbox: no context that could run is skipped.
THEOREM SkippedIsWaiting == Spec => []BlockingMeansWaiting
<1>1. IInv => BlockingMeansWaiting
  BY DEF IInv
<1> QED
  BY <1>1, Invariance, PTL

\* The context the search of basic.c ended with can still run when the receive
\* gives it the processor, so the call cannot fail with ContextFinished or
\* YieldedToBlocked.
THEOREM ChosenStaysRunnable == Spec => []ChosenCanRun
<1>1. IInv => ChosenCanRun
  BY DEF IInv, ChosenWaits, ChosenCanRun
<1> QED
  BY <1>1, Invariance, PTL

\* Those that numNonDaemons counts.
Counted == {c \in Users \ Daemons : InReady(c)}

\* The users are those that SchedulerCallbackCreateProcesses made.
LEMMA CountedIsFinite == IsFiniteSet(Counted)
<1> DEFINE made == [k \in 1 .. Len(Order) |-> Order[k]]
<1>1. Len(Order) \in Nat /\ \A k \in 1 .. Len(Order) : Order[k] \in Users
  BY SchedulerAssumption
<1>2. IsFiniteSet(1 .. Len(Order))
  BY <1>1, FS_Interval
<1>3. made \in Surjection(1 .. Len(Order), Users)
  BY <1>1, SchedulerAssumption DEF Surjection
<1>4. IsFiniteSet(Users)
  BY <1>2, <1>3, FS_Surjection
<1>5. Counted \in SUBSET Users
  BY DEF Counted
<1> QED
  BY <1>4, <1>5, FS_Subset

\* A context leaves the queue only as its head, and only for good.
LEMMA QueueLeaves ==
  ASSUME IInv
  PROVE  /\ ready' = Rotated(ready) => Counted' = Counted
         /\ ready' = Tail(ready) => Counted' = Counted \ {Cur}
         /\ Cur \in Counted <=> Cur \notin Daemons
<1>1. /\ ready \in Seq(Contexts \ {Scheduler}) /\ ready # << >> /\ Cur = ready[1]
      /\ Len(ready) \in Nat /\ Len(ready) > 0
  BY QueueHasHead, HeadTail DEF IInv, TypeOK, Cur
<1>2. ASSUME ready' = Rotated(ready), NEW c
      PROVE  InReady(c)' <=> InReady(c)
  <2>1. /\ Len(ready') = Len(ready)
        /\ \A k \in 1 .. Len(ready) : ready'[k] = IF k = Len(ready) THEN ready[1] ELSE ready[k + 1]
    BY <1>1, <1>2, RotatedElements
  <2>2. InReady(c) => InReady(c)'
    <3>1. ASSUME NEW k \in 1 .. Len(ready), ready[k] = c
          PROVE  InReady(c)'
      <4>1. CASE k = 1
        BY <1>1, <2>1, <3>1, <4>1 DEF InReady
      <4>2. CASE k # 1
        <5>1. k - 1 \in 1 .. Len(ready) /\ ready'[k - 1] = c
          BY <1>1, <2>1, <3>1, <4>2
        <5> QED
          BY <2>1, <5>1 DEF InReady
      <4> QED
        BY <4>1, <4>2
    <3> QED
      BY <3>1 DEF InReady
  <2>3. InReady(c)' => InReady(c)
    <3>1. \A k \in 1 .. Len(ready) : \E j \in 1 .. Len(ready) : ready'[k] = ready[j]
      BY <1>1, <2>1
    <3> QED
      BY <2>1, <3>1 DEF InReady
  <2> QED
    BY <2>2, <2>3
<1>3. ASSUME ready' = Tail(ready), NEW c
      PROVE  InReady(c)' <=> InReady(c) /\ c # Cur
  <2>1. /\ Len(ready') = Len(ready) - 1
        /\ \A k \in 1 .. Len(ready) - 1 : ready'[k] = ready[k + 1]
    BY <1>1, <1>3, HeadTail
  <2>2. ASSUME NEW k \in 1 .. Len(ready), ready[k] = c, c # Cur
        PROVE  InReady(c)'
    <3>1. k - 1 \in 1 .. Len(ready') /\ ready'[k - 1] = c
      BY <1>1, <2>1, <2>2
    <3> QED
      BY <3>1 DEF InReady
  <2>3. ASSUME NEW k \in 1 .. Len(ready'), ready'[k] = c
        PROVE  InReady(c) /\ c # Cur
    <3>1. k + 1 \in 1 .. Len(ready) /\ ready[k + 1] = c /\ 1 \in 1 .. Len(ready) /\ k + 1 # 1
      BY <1>1, <2>1, <2>3
    <3>2. c # Cur
      BY <1>1, <3>1 DEF IInv, EachQueuedOnce
    <3> QED
      BY <3>1, <3>2 DEF InReady
  <2> QED
    BY <2>2, <2>3 DEF InReady
<1>4. InReady(Cur) /\ Cur \in Contexts \ {Scheduler}
  BY <1>1 DEF InReady
<1>5. Cur \notin Daemons => Cur \in Users
  BY <1>4, SchedulerAssumption DEF Users
<1> QED
  BY <1>2, <1>3, <1>4, <1>5 DEF Counted

\* numNonDaemons goes down with the queue, and by nothing else.
LEMMA CountStep ==
  ASSUME IInv, AliveIsCounted, [Next]_vars
  PROVE  AliveIsCounted'
<1>1. alive = Cardinality(Counted)
  BY DEF AliveIsCounted, Counted
<1>2. \/ UNCHANGED <<ready, alive>>
      \/ ready' = Rotated(ready) /\ UNCHANGED alive
      \/ Drop
  <2>1. CASE SchedulerNext
    BY <2>1 DEF SchedulerNext, LoopTest, Return, Skip, Remove, Choose, Rotate, ReceiveQueued,
                Give, GiveAgain, Back, Answer, Notify, NotifyFails, Activate, PollFailed,
                EndTick, loop, queues
  <2>2. CASE UNCHANGED vars
    BY <2>2 DEF vars, loop, queues
  <2>3. CASE ~SchedulerNext /\ Next
    BY <2>3 DEF Next, UserNext, Ask, Tick, DeviceInterrupt, loop, queues
  <2> QED
    BY <2>1, <2>2, <2>3
<1>3. CASE UNCHANGED <<ready, alive>>
  BY <1>3 DEF AliveIsCounted, InReady
<1>4. CASE ready' = Rotated(ready) /\ UNCHANGED alive
  BY <1>1, <1>4, QueueLeaves DEF AliveIsCounted, Counted
<1>5. CASE Drop
  <2>1. /\ Counted' = Counted \ {Cur}
        /\ alive' = IF Cur \in Counted THEN alive - 1 ELSE alive
    BY <1>5, QueueLeaves DEF Drop
  <2>2. Cardinality(Counted \ {Cur})
          = IF Cur \in Counted THEN Cardinality(Counted) - 1 ELSE Cardinality(Counted)
    BY CountedIsFinite, FS_RemoveElement
  <2>3. alive' = Cardinality(Counted')
    BY <1>1, <2>1, <2>2
  <2> QED
    BY <2>3 DEF AliveIsCounted, Counted
<1> QED
  BY <1>2, <1>3, <1>4, <1>5

\* The count by which SchedulerBasic decides to go on is that of the contexts
\* in its queue that are no daemons, whoever exits, is preempted or is skipped
\* (basic.c).
THEOREM CountStaysRight == Spec => []AliveIsCounted
<1>1. Init => AliveIsCounted
  <2> SUFFICES ASSUME Init PROVE AliveIsCounted
    OBVIOUS
  <2>1. /\ Order \in Seq(Users) /\ Len(Order) \in Nat
        /\ \A c \in Users : \E k \in 1 .. Len(Order) : Order[k] = c
    BY SchedulerAssumption
  <2>2. ASSUME NEW c \in Users PROVE InReady(c)
    BY InitIInv, <2>2, SchedulerAssumption DEF IInv, EachQueuedOnce, Init, Users
  <2>3. {c \in Users \ Daemons : InReady(c)} = Users \ Daemons
    BY <2>2
  <2> QED
    BY <2>3 DEF Init, AliveIsCounted
<1>2. IInv /\ AliveIsCounted /\ [Next]_vars => AliveIsCounted'
  BY CountStep
<1> QED
  BY <1>1, <1>2, Invariance, PTL DEF Spec

LEMMA HeadStays ==
  ASSUME NEW S, NEW s \in Seq(S), NEW e \in S
  PROVE  /\ Append(s, e) # << >>
         /\ s # << >> => Head(Append(s, e)) = Head(s)
         /\ s = << >> => Head(Append(s, e)) = e
OBVIOUS

\* A step in which the scheduler does not give the processor away.
LEMMA StaysAway ==
  ASSUME TickBringsSchedulerBack, mail' = mail,
         current # Scheduler /\ pc[Scheduler] = "recv" /\ Scheduler \in blocking => Scheduler \in blocking',
         pc'[Scheduler] = "recv" => pc[Scheduler] = "recv",
         pc[Scheduler] = "recv" /\ current' # Scheduler => current # Scheduler
  PROVE  TickBringsSchedulerBack'
BY DEF TickBringsSchedulerBack

\* Whoever delivers to the scheduler while it is away either switches to it or
\* is no tick.
LEMMA DeliveredToScheduler ==
  ASSUME IInv, TickBringsSchedulerBack, pc[current] # "recv", pc' = pc, NEW y \in BOOLEAN,
         K!Deliver(current, Scheduler, y), NEW e \in Kinds, mail' = Append(mail, e),
         e = "tick" => y
  PROVE  TickBringsSchedulerBack'
<1> SUFFICES ASSUME pc[Scheduler] = "recv", current' # Scheduler
             PROVE  mail' # << >> /\ Head(mail') # "tick"
  BY DEF TickBringsSchedulerBack
<1>0. Scheduler \in Contexts /\ current # Scheduler /\ mail \in Seq(Kinds)
  BY SchedulerAssumption DEF IInv, TypeOK
<1>1. Scheduler \notin finished
  BY <1>0 DEF IInv, Waits, ExitSteps
<1>2. mail' # << >> /\ Head(mail') = IF mail = << >> THEN e ELSE Head(mail)
  BY <1>0, HeadStays
<1>3. CASE mail = << >>
  <2>1. Scheduler \in blocking
    BY <1>0, <1>3 DEF TickBringsSchedulerBack
  <2>2. ~y
    BY <1>0, <1>1, <2>1 DEF K!Deliver, K!Switch
  <2> QED
    BY <1>2, <1>3, <2>2
<1>4. CASE mail # << >>
  BY <1>0, <1>2, <1>4 DEF TickBringsSchedulerBack
<1> QED
  BY <1>3, <1>4

LEMMA NextBringsBack ==
  ASSUME IInv, TickBringsSchedulerBack, [Next]_vars
  PROVE  TickBringsSchedulerBack'
<1>0. Scheduler \in Contexts
  BY SchedulerAssumption
<1>1. CASE SchedulerNext
  <2>1. CASE Give \/ GiveAgain
    <3>1. pending[Scheduler] = 0 /\ blocking' = blocking \cup {Scheduler} /\ mail' = mail
      BY <2>1 DEF Give, GiveAgain, K!ReceiveWait
    <3> QED
      BY <3>1, MailEmpty DEF TickBringsSchedulerBack
  <2>2. CASE Back
    <3>1. pc' = [pc EXCEPT ![Scheduler] = "run"] /\ pc \in [Contexts -> Places]
      BY <2>2 DEF Back, K!Resume, IInv, TypeOK
    <3>2. pc'[Scheduler] # "recv"
      BY <1>0, <3>1
    <3> QED
      BY <3>2 DEF TickBringsSchedulerBack
  <2>3. CASE Return
    <3>1. pc'[Scheduler] # "recv"
      BY <1>0, <2>3 DEF Return, K!Exit, K!Finish, K!Unflag, K!Unregister, K!Leave, K!Running,
                        K!Exiting, IInv, TypeOK
    <3> QED
      BY <3>1 DEF TickBringsSchedulerBack
  <2>4. CASE ~(Give \/ GiveAgain \/ Back \/ Return)
    <3>1. pc[Scheduler] = "run" /\ pc' = pc
      BY <1>1, <2>4 DEF SchedulerNext, LoopTest, Skip, Remove, Choose, Rotate,
           ReceiveQueued, Answer, Notify, NotifyFails, Activate, PollFailed, EndTick,
           SchedulerRuns, kernel, K!Running, K!ReceiveQueued, K!Send, K!LeaveDisabled
    <3> QED
      BY <3>1 DEF TickBringsSchedulerBack
  <2> QED
    BY <2>1, <2>2, <2>3, <2>4
<1>2. ASSUME NEW c \in Users, UserNext(c) PROVE TickBringsSchedulerBack'
  <2>1. c # Scheduler /\ current = c /\ mail' = mail
    BY <1>2 DEF UserNext, Users, K!Yield, K!Exit, K!Finish, K!Unflag, K!Unregister, K!Leave,
         K!ReceiveQueued, K!ReceiveWait, K!Resume, K!Send, K!RegisterFor, K!UnregisterFor,
         K!Running, K!Exiting
  <2>2. pc'[Scheduler] = pc[Scheduler] /\ (Scheduler \in blocking => Scheduler \in blocking')
    BY <1>0, <1>2, <2>1 DEF UserNext, Users, K!Yield, K!Exit, K!Finish, K!Unflag, K!Unregister,
         K!Leave, K!ReceiveQueued, K!ReceiveWait, K!Resume, K!Send, K!Deliver, K!RegisterFor,
         K!UnregisterFor, IInv, TypeOK
  <2> QED
    BY <2>1, <2>2, StaysAway
<1>3. ASSUME NEW c \in Users, NEW protocol \in Protocols, Ask(c, protocol)
      PROVE  TickBringsSchedulerBack'
  <2>1. PICK y \in Yields : K!Send(c, Scheduler, y)
    BY <1>3 DEF Ask
  <2>2. y \in BOOLEAN
    BY SchedulerAssumption
  <2>3. current = c /\ pc[current] # "recv" /\ pc' = pc /\ K!Deliver(current, Scheduler, y)
    BY <2>1 DEF K!Send, K!Running
  <2> DEFINE e == IF protocol = "unbound" THEN c ELSE protocol
  <2>4. e \in Kinds /\ e # "tick" /\ mail' = Append(mail, e)
    BY <1>3, SchedulerAssumption DEF Ask, Kinds, Users
  <2> HIDE DEF e
  <2> QED
    BY <2>2, <2>3, <2>4, DeliveredToScheduler
<1>4. CASE Tick
  <2>1. /\ pc[current] # "recv" /\ pc' = pc /\ handler[Clock] = Scheduler /\ "tick" \in Kinds
    BY <1>4, SchedulerAssumption DEF Tick, K!Irq, IInv, MailIsPending, Kinds
  <2>2. CASE K!CanReceive(Scheduler)
    <3>1. K!Deliver(current, Scheduler, TRUE) /\ mail' = Append(mail, "tick")
      BY <1>4, <2>1, <2>2 DEF Tick, K!Irq
    <3> QED
      BY <2>1, <3>1, DeliveredToScheduler
  <2>3. CASE ~K!CanReceive(Scheduler)
    <3>1. UNCHANGED <<current, blocking, mail>>
      BY <1>4, <2>1, <2>3 DEF Tick, K!Irq, K!Deliver
    <3> QED
      BY <2>1, <3>1, StaysAway
  <2> QED
    BY <2>2, <2>3
<1>5. ASSUME NEW i \in Interrupts, DeviceInterrupt(i) PROVE TickBringsSchedulerBack'
  <2>1. mail' = mail /\ handler[i] # Scheduler /\ pc[current] # "recv" /\ pc' = pc
    BY <1>5 DEF DeviceInterrupt, K!Irq, IInv, MailIsPending
  <2>2. Scheduler \in blocking => Scheduler \in blocking'
    BY <1>5, <2>1 DEF DeviceInterrupt, K!Irq, K!Deliver
  <2> QED
    BY <2>1, <2>2, StaysAway
<1>6. CASE UNCHANGED vars
  BY <1>6, StaysAway DEF vars, kernel
<1> QED
  BY <1>1, <1>2, <1>3, <1>4, <1>5, <1>6 DEF Next

\* Wherever the ticks, the devices and the users' packets come in, the
\* scheduler of basic.c never sleeps through a tick: while it waits for a
\* packet and another context runs, it can be woken, or a user's packet that
\* was sent without yielding is what its next receive finds.
THEOREM SchedulerComesBack == Spec => []TickBringsSchedulerBack
<1>1. Init => TickBringsSchedulerBack
  BY DEF Init, TickBringsSchedulerBack
<1>2. IInv /\ TickBringsSchedulerBack /\ [Next]_vars => TickBringsSchedulerBack'
  BY NextBringsBack
<1> QED
  BY <1>1, <1>2, Invariance, PTL DEF Spec
=============================================================================
