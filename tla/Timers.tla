------------------------------- MODULE Timers -------------------------------
(***************************************************************************)
(* The timer server (libs/scheduler/timerServer.c), which the scheduler    *)
(* runs at every tick of the clock.                                        *)
(*                                                                         *)
(* Its clients are kept in the order in which they are due, each with the  *)
(* number of ticks it is due after the one before it.  A tick counts down  *)
(* the first, notifies those that are due, and then handles at most one    *)
(* request.  A repeating client that was notified is inserted anew.        *)
(*                                                                         *)
(* A notification may fail, and error paths remove more than one client.   *)
(* Where they go through the null pointer of an emptied list they read and *)
(* write low memory, which nothing of the server is in (paging is off).    *)
(***************************************************************************)
EXTENDS Integers, Sequences, FiniteSets, SequencesExt

CONSTANTS Contexts,     \* the processes that use timers
          Times,        \* intervals they ask for, [sec, usec]
          Failures,     \* what UdpSocketSend may fail with
          MaxRequests,  \* bound on requests, all in all
          MaxAge        \* bound on the age of a timer

ASSUME TimersAssumption ==
  /\ \A t \in Times : t.sec \in Nat /\ t.usec \in Nat /\ t.usec < 1000000
  /\ Failures \subseteq {"OutOfMemory", "PacketQueueFull", "AddressUnreachable"}
  /\ MaxRequests \in Nat /\ MaxAge \in Nat

VARIABLES clients,      \* server->clients, from first to last
          requests,     \* the queue of the server's socket
          exited,       \* contexts whose address is no longer registered
          at,           \* where TimerServerTick is; "out": not called
          asked         \* requests so far

timerVars == <<clients, requests, exited, at, asked>>

TimersInit ==
  /\ clients = << >>
  /\ requests = << >>
  /\ exited = {}
  /\ at = "out"
  /\ asked = 0

\* timeToTicks: ten ticks a second, rounded to the nearest.
TimeToTicks(t) == t.sec * 10 + (t.usec + 49999) \div 100000

\* The bound lets every timer reach the age at which it is due.
ASSUME AgeAssumption == \A t \in Times : TimeToTicks(t) <= MaxAge

\* The ticks that the first k clients of a list account for.
Ahead(list) ==
  LET sum[k \in 0 .. Len(list)] ==
        IF k = 0 THEN 0 ELSE sum[k - 1] + list[k].deltaTicks
  IN  sum

-----------------------------------------------------------------------------
(* The list.  For the properties, a timer remembers the ticks since it was *)
(* inserted, and what happened to the list ahead of it: another timer was  *)
(* inserted (`overtaken'), a failure put it off (`putOff'), a timer that   *)
(* had ticks left was dropped (`early').                                   *)

NewTimer(owner, ticks, repeat) ==
  [owner |-> owner, ticks |-> ticks, repeat |-> repeat, deltaTicks |-> ticks,
   age |-> 0, overtaken |-> FALSE, putOff |-> FALSE, early |-> FALSE]

\* Variant for the runs to reject: what is due at the same time is overtaken.
BeforeIfShorter(list, ticks) == Cardinality({k \in 1 .. Len(list) : Ahead(list)[k] < ticks})

\* How many clients of the list are due before, or with, one due in `ticks'.
Before(list, ticks) == Cardinality({k \in 1 .. Len(list) : Ahead(list)[k] <= ticks})

\* Variant to reject: placed one further to the front.
InsertOneEarly(list, client) ==
  LET sum == Before(list, client.deltaTicks)
      n == IF sum = 0 THEN 0 ELSE sum - 1
  IN  InsertAt([k \in 1 .. Len(list) |-> [list[k] EXCEPT !.overtaken = @ \/ k > n]],
               n + 1,
               [client EXCEPT !.deltaTicks = @ - Ahead(list)[sum]])

\* Variant to reject: its ticks are not made relative.
InsertAbsolute(list, client) ==
  LET n == Before(list, client.deltaTicks)
  IN  InsertAt([k \in 1 .. Len(list) |-> [list[k] EXCEPT !.overtaken = @ \/ k > n]],
               n + 1, client)

\* insertClient.  The client that follows keeps its deltaTicks, and so does
\* every other behind: they all become due later.
Insert(list, client) ==
  LET n == Before(list, client.deltaTicks)
  IN  InsertAt([k \in 1 .. Len(list) |-> [list[k] EXCEPT !.overtaken = @ \/ k > n]],
               n + 1,
               [client EXCEPT !.deltaTicks = @ - Ahead(list)[n]])

\* removeClient on the first.  The client behind it does not get its ticks.
DropFirst(list) ==
  LET dropped == Head(list)
  IN  [k \in 1 .. Len(list) - 1 |->
        [list[k + 1] EXCEPT !.early = @ \/ dropped.deltaTicks > 0]]

\* first->deltaTicks++
PutOff(list) ==
  [k \in 1 .. Len(list) |->
    [list[k] EXCEPT !.putOff = TRUE, !.deltaTicks = IF k = 1 THEN @ + 1 ELSE @]]

-----------------------------------------------------------------------------
(* TimerServerTick *)

Older(list) ==
  [k \in 1 .. Len(list) |-> [list[k] EXCEPT !.age = IF @ < MaxAge THEN @ + 1 ELSE @]]

Tick ==
  /\ at = "out"
  /\ IF clients = << >>
     THEN UNCHANGED clients
     ELSE clients' = [Older(clients) EXCEPT
                        ![1].deltaTicks = IF @ > 0 THEN @ - 1 ELSE @]
  /\ at' = IF clients' # << >> /\ Head(clients').deltaTicks = 0 THEN "send" ELSE "receive"
  /\ UNCHANGED <<requests, exited, asked>>

\* A pass of sendTicks.
Sending == at = "send" /\ clients # << >> /\ Head(clients).deltaTicks = 0

Notify ==
  /\ Sending
  /\ Head(clients).owner \notin exited
  /\ LET first == Head(clients)
     IN  clients' = IF first.repeat
                    THEN Insert(Tail(clients), NewTimer(first.owner, first.ticks, TRUE))
                    ELSE DropFirst(clients)
  /\ UNCHANGED <<requests, exited, at, asked>>

Failed ==
  /\ at' = "receive"
  /\ UNCHANGED <<requests, exited, asked>>

\* The packet cannot be allocated or sent: the client is removed, and what is
\* first then is put off by a tick.
NotifyFails ==
  /\ Sending
  /\ Failures \cap {"OutOfMemory", "PacketQueueFull"} # {}
  /\ clients' = PutOff(DropFirst(clients))
  /\ Failed

\* The owner has exited: sendOneTick removes the client, and sendTicks, which
\* takes it for still there, the one behind it.
NotifyUnreachable ==
  /\ Sending
  /\ "AddressUnreachable" \in Failures
  /\ Head(clients).owner \in exited
  /\ LET others == DropFirst(clients)
     IN  clients' = PutOff(IF others = << >> THEN others ELSE DropFirst(others))
  /\ Failed

Sent ==
  /\ at = "send" /\ ~Sending
  /\ at' = "receive"
  /\ UNCHANGED <<clients, requests, exited, asked>>

NoRequest ==
  /\ at = "receive"
  /\ requests = << >>
  /\ at' = "out"
  /\ UNCHANGED <<clients, requests, exited, asked>>

\* processRequest, timerRequestCmdOpen.
Open ==
  /\ at = "receive"
  /\ requests # << >>
  /\ LET r == Head(requests)
     IN  /\ TimeToTicks(r.time) > 0
         /\ clients' = Insert(clients, NewTimer(r.owner, TimeToTicks(r.time), r.repeat))
  /\ requests' = Tail(requests)
  /\ at' = "out"
  /\ UNCHANGED <<exited, asked>>

\* No memory, or less than a tick: an error is sent back.  A request to close
\* has no more effect than that.
Refuse ==
  /\ at = "receive"
  /\ requests # << >>
  /\ requests' = Tail(requests)
  /\ at' = "out"
  /\ UNCHANGED <<clients, exited, asked>>

Server ==
  \/ Tick \/ Notify \/ NotifyFails \/ NotifyUnreachable \/ Sent
  \/ NoRequest \/ Open \/ Refuse

-----------------------------------------------------------------------------
(* The processes (libs/timer/timer.c) *)

\* TimerNew.
Ask(c, t, repeat) ==
  /\ c \notin exited
  /\ asked < MaxRequests
  /\ asked' = asked + 1
  /\ requests' = Append(requests, [owner |-> c, time |-> t, repeat |-> repeat])
  /\ UNCHANGED <<clients, exited, at>>

\* The context's address is unregistered.  One whose exit a tick cut short before
\* that asks for nothing more, and its notifications go on until its mailbox is
\* full (NotifyFails).
Exit(c) ==
  /\ "AddressUnreachable" \in Failures
  /\ c \notin exited
  /\ exited' = exited \cup {c}
  /\ UNCHANGED <<clients, requests, at, asked>>

TimersNext ==
  \/ Server
  \/ \E c \in Contexts : Exit(c) \/ \E t \in Times, repeat \in BOOLEAN : Ask(c, t, repeat)

TimersSpec == TimersInit /\ [][TimersNext]_timerVars

-----------------------------------------------------------------------------
(* Properties *)

\* The ticks a timer has waited and those it still has to wait.
Span(k) == clients[k].age + Ahead(clients)[k]

\* No timer is due before its interval is over, whatever is inserted ahead of
\* it and whoever fails, unless the failure dropped a timer that still had
\* ticks left.  The interval is that of timeToTicks, so that "the numbers of
\* seconds and microseconds between ticks" (project.tex) is kept up to half a
\* tick: 0.14 s is one tick, and the timer is due every 0.1 s.
NeverEarly ==
  \A k \in 1 .. Len(clients) : ~clients[k].early => Span(k) >= clients[k].ticks

\* The differences add up: a timer that no other was put ahead of, and that no
\* failure put off, is due exactly when its interval, as timeToTicks rounds it,
\* is over.
ExactIfUndisturbed ==
  \A k \in 1 .. Len(clients) :
    ~(clients[k].early \/ clients[k].putOff \/ clients[k].overtaken)
      => Span(k) = clients[k].ticks

\* A timer is never overtaken by one that is not due before it: nothing gets
\* ahead of a timer of one tick, the shortest there is, unless a failure put
\* it off.
ShortestIsNotOvertaken ==
  \A k \in 1 .. Len(clients) :
    clients[k].ticks = 1 /\ ~clients[k].putOff => ~clients[k].overtaken
=============================================================================
