----------------------------- MODULE UdpReceive -----------------------------
(***************************************************************************)
(* The UDP sockets of one context and the interface they share             *)
(* (libs/ip/udp.c, ip.c, iface.c, packet-queue.c).                         *)
(*                                                                         *)
(* A receive on one socket takes what comes in for all of them: a packet   *)
(* for another socket is put in that socket's queue, and one of another    *)
(* protocol in the interface's.  The context runs alone but for the waits  *)
(* in the kernel, so a call is one step up to its wait, and one step for   *)
(* each packet that ends a wait.                                           *)
(*                                                                         *)
(* Packets with extension headers are left out: nothing here makes them.   *)
(***************************************************************************)
EXTENDS Naturals, Sequences, FiniteSets, SequencesExt, Subsequences

CONSTANTS Packets,
          Sockets,
          Ports,        \* those that are asked for and given out
          QueueLen,     \* 16: UdpSocketNew
          IfaceLen,     \* 16: IpIfaceInit
          MailboxLen,   \* 16: the kernel's mailbox
          NoPort, NoSocket

\* A packet that is not UDP and that IpPacketFromNetworkOrder puts into the order
\* of this machine, and one that it refuses: ICMP of a type it does not know.
Segment == "segment"
Unknown == "unknown"
Destinations == Ports \cup {Segment, Unknown}

ASSUME UdpAssumption ==
  /\ NoPort \notin Destinations /\ NoSocket \notin Sockets
  /\ Segment \notin Ports /\ Unknown \notin Ports
  /\ QueueLen \in Nat \ {0} /\ IfaceLen \in Nat \ {0} /\ MailboxLen \in Nat \ {0}

VARIABLES to,           \* where each packet goes
          mailbox,      \* the kernel's queue of the context
          stray,        \* the interface's queue
          queue,        \* each socket's queue
          port,         \* each socket's port, NoPort while it is not bound
          anyAddress,   \* sockets bound to the address zero
          held,         \* packets that programs received
          leaked,       \* packets nobody has any more
          at,           \* "program", "receive", or "crashed"
          socket, stop  \* the arguments of the receive

sockets == <<queue, port, anyAddress>>
packets == <<to, mailbox, stray, held, leaked>>
call == <<at, socket, stop>>
vars == <<packets, sockets, call>>

Init ==
  /\ to = [p \in Packets |-> Unknown]
  /\ mailbox = << >> /\ stray = << >>
  /\ queue = [s \in Sockets |-> << >>]
  /\ port = [s \in Sockets |-> NoPort]
  /\ anyAddress = {}
  /\ held = {} /\ leaked = {}
  /\ at = "program"
  /\ socket = NoSocket /\ stop = FALSE

InUse ==
  ToSet(mailbox) \cup ToSet(stray) \cup held \cup leaked
    \cup UNION {ToSet(queue[s]) : s \in Sockets}

\* seek.  A context has one address, so an address never tells two apart.
Bound(n) == {s \in Sockets : port[s] = n}

Running == at = "program"

-----------------------------------------------------------------------------
(* Sockets come and go. *)

\* Variant to reject: a port that is asked for is given.
BindUnchecked(s, n, any) ==
  /\ Running
  /\ port[s] = NoPort
  /\ port' = [port EXCEPT ![s] = n]
  /\ anyAddress' = IF any THEN anyAddress \cup {s} ELSE anyAddress \ {s}
  /\ UNCHANGED <<packets, call, queue>>

\* UdpSocketBind, of a port that is asked for or that seekAnonPort finds.
Bind(s, n, any) ==
  /\ Running
  /\ port[s] = NoPort
  /\ Bound(n) = {}
  /\ port' = [port EXCEPT ![s] = n]
  /\ anyAddress' = IF any THEN anyAddress \cup {s} ELSE anyAddress \ {s}
  /\ UNCHANGED <<packets, call, queue>>

\* UdpSocketClose; its packets are freed.
Close(s) ==
  /\ Running
  /\ port[s] # NoPort
  /\ port' = [port EXCEPT ![s] = NoPort]
  /\ queue' = [queue EXCEPT ![s] = << >>]
  /\ anyAddress' = anyAddress \ {s}
  /\ UNCHANGED <<packets, call>>

\* UdpSocketSend to the context's own address.
SendToSelf(p, s) ==
  /\ Running
  /\ p \notin InUse
  /\ port[s] # NoPort
  /\ Len(queue[s]) < QueueLen
  /\ to' = [to EXCEPT ![p] = port[s]]
  /\ queue' = [queue EXCEPT ![s] = Append(@, p)]
  /\ UNCHANGED <<mailbox, stray, held, leaked, port, anyAddress, call>>

Free(p) ==
  /\ Running
  /\ p \in held
  /\ held' = held \ {p}
  /\ UNCHANGED <<to, mailbox, stray, leaked, sockets, call>>

\* Others send; the kernel delivers.
Arrive(p, d) ==
  /\ p \notin InUse
  /\ Len(mailbox) < MailboxLen
  /\ to' = [to EXCEPT ![p] = d]
  /\ mailbox' = Append(mailbox, p)
  /\ UNCHANGED <<stray, held, leaked, sockets, call>>

-----------------------------------------------------------------------------
(* UdpSocketReceive *)

Done == at' = "program" /\ socket' = NoSocket /\ stop' = FALSE

\* The packet was not for the socket: a receive that is to stop for others
\* returns StoppedForOtherSocket, and another waits again.
Passed == IF stop THEN Done ELSE UNCHANGED call

ReceiveQueued(s) ==
  /\ Running
  /\ queue[s] # << >>
  /\ held' = held \cup {Head(queue[s])}
  /\ queue' = [queue EXCEPT ![s] = Tail(@)]
  /\ UNCHANGED <<to, mailbox, stray, leaked, port, anyAddress, call>>

StartReceive(s, stopForOthers) ==
  /\ Running
  /\ port[s] # NoPort
  /\ queue[s] = << >>
  /\ at' = "receive"
  /\ socket' = s
  /\ stop' = stopForOthers
  /\ UNCHANGED <<packets, sockets>>

\* A packet that the interface receives.
Incoming == at = "receive" /\ mailbox # << >>
First == Head(mailbox)

ReceiveOwn ==
  /\ Incoming
  /\ to[First] = port[socket]
  /\ mailbox' = Tail(mailbox)
  /\ held' = held \cup {First}
  /\ Done
  /\ UNCHANGED <<to, stray, leaked, sockets>>

\* Variant to reject: put in front of the other socket's queue.
QueueInFront(s) ==
  /\ Incoming
  /\ s # socket
  /\ to[First] = port[s]
  /\ Len(queue[s]) < QueueLen
  /\ mailbox' = Tail(mailbox)
  /\ queue' = [queue EXCEPT ![s] = <<First>> \o @]
  /\ Passed
  /\ UNCHANGED <<to, stray, held, leaked, port, anyAddress>>

\* Variant to reject: taken off the mailbox only when the call returns.
QueueAndKeep(s) ==
  /\ Incoming
  /\ s # socket
  /\ to[First] = port[s]
  /\ Len(queue[s]) < QueueLen
  /\ mailbox' = IF stop THEN Tail(mailbox) ELSE mailbox
  /\ queue' = [queue EXCEPT ![s] = Append(@, First)]
  /\ Passed
  /\ UNCHANGED <<to, stray, held, leaked, port, anyAddress>>

QueueForOther(s) ==
  /\ Incoming
  /\ s # socket
  /\ to[First] = port[s]
  /\ Len(queue[s]) < QueueLen
  /\ mailbox' = Tail(mailbox)
  /\ queue' = [queue EXCEPT ![s] = Append(@, First)]
  /\ Passed
  /\ UNCHANGED <<to, stray, held, leaked, port, anyAddress>>

\* Variant to reject: the last place of a queue is not used.
DropOneEarly(s) ==
  /\ Incoming
  /\ s # socket
  /\ to[First] = port[s]
  /\ Len(queue[s]) >= QueueLen - 1
  /\ mailbox' = Tail(mailbox)
  /\ Passed
  /\ UNCHANGED <<to, stray, held, leaked, sockets>>

DropForOther(s) ==
  /\ Incoming
  /\ s # socket
  /\ to[First] = port[s]
  /\ Len(queue[s]) >= QueueLen
  /\ mailbox' = Tail(mailbox)
  /\ Passed
  /\ UNCHANGED <<to, stray, held, leaked, sockets>>

Unbound == Incoming /\ to[First] \in Ports /\ Bound(to[First]) = {}

\* IcmpSendDestinationUnreachable on the interface the packet came from.  For
\* a socket of any address IpReceive has not said which one that is, and what
\* the variable holds may be the right interface, none, or no interface at all.
Answer ==
  /\ Unbound
  /\ mailbox' = Tail(mailbox)
  /\ Passed
  /\ UNCHANGED <<to, stray, held, leaked, sockets>>

\* No packet for the answer, its recipient is gone, or no interface.
AnswerFails ==
  /\ Unbound
  /\ mailbox' = Tail(mailbox)
  /\ Done
  /\ UNCHANGED <<to, stray, held, leaked, sockets>>

AnswerNowhere ==
  /\ Unbound
  /\ socket \in anyAddress
  /\ at' = "crashed"
  /\ UNCHANGED <<packets, sockets, socket, stop>>

\* IpReceiveOnUnfiltered: a packet of another protocol is queued on the
\* interface, before its filters are applied, and the interface receives again.
Stray ==
  /\ Incoming
  /\ to[First] = Segment
  /\ Len(stray) < IfaceLen
  /\ stray' = Append(stray, First)
  /\ mailbox' = Tail(mailbox)
  /\ UNCHANGED <<to, held, leaked, sockets, call>>

\* Variant to reject: the interface waits for room.
StrayWaits ==
  /\ Incoming
  /\ to[First] = Segment
  /\ Len(stray) >= IfaceLen
  /\ UNCHANGED vars

\* Its queue is full: the packet is neither kept nor freed, and the receive
\* fails.
StrayFull ==
  /\ Incoming
  /\ to[First] = Segment
  /\ Len(stray) >= IfaceLen
  /\ mailbox' = Tail(mailbox)
  /\ leaked' = leaked \cup {First}
  /\ Done
  /\ UNCHANGED <<to, stray, held, sockets>>

\* IpPacketFromNetworkOrder does not know the type of an ICMP packet; the packet
\* is freed.  (A protocol that it does not know it accepts.)
Refuse ==
  /\ Incoming
  /\ to[First] = Unknown
  /\ mailbox' = Tail(mailbox)
  /\ Done
  /\ UNCHANGED <<to, stray, held, leaked, sockets>>

\* Somebody yields to the context: the kernel returns no packet, which ends the
\* receive with an error.
Disturbed ==
  /\ at = "receive"
  /\ mailbox = << >>
  /\ Done
  /\ UNCHANGED <<packets, sockets>>

Take ==
  \/ ReceiveOwn \/ Answer \/ AnswerFails \/ AnswerNowhere
  \/ Stray \/ StrayFull \/ Refuse
  \/ \E s \in Sockets : QueueForOther(s) \/ DropForOther(s)

Program ==
  \E s \in Sockets :
    \/ Close(s) \/ ReceiveQueued(s)
    \/ \E n \in Ports, any \in BOOLEAN : Bind(s, n, any)
    \/ \E stopForOthers \in BOOLEAN : StartReceive(s, stopForOthers)
    \/ \E p \in Packets : SendToSelf(p, s)

Next ==
  \/ Take \/ Program \/ Disturbed
  \/ \E p \in Packets : Free(p) \/ \E d \in Destinations : Arrive(p, d)

Spec == Init /\ [][Next]_vars

\* A context whose mailbox is not empty runs again (Scheduler).
FairSpec == Spec /\ WF_vars(Take)

-----------------------------------------------------------------------------
(* Properties *)

TypeOK ==
  /\ to \in [Packets -> Destinations]
  /\ mailbox \in Seq(Packets) /\ Len(mailbox) <= MailboxLen
  /\ stray \in Seq(Packets) /\ Len(stray) <= IfaceLen
  /\ queue \in [Sockets -> Seq(Packets)]
  /\ \A s \in Sockets : Len(queue[s]) <= QueueLen
  /\ port \in [Sockets -> Ports \cup {NoPort}]
  /\ anyAddress \subseteq Sockets
  /\ held \subseteq Packets /\ leaked \subseteq Packets
  /\ at \in {"program", "receive", "crashed"}
  /\ socket \in Sockets \cup {NoSocket}
  /\ stop \in BOOLEAN

\* A packet is in one place at a time, so that it is freed once: no receive
\* hands out what it also queued, whichever socket it was for and however full
\* the queues are.
OnePlace ==
  /\ IsInjective(mailbox) /\ IsInjective(stray)
  /\ \A s \in Sockets : IsInjective(queue[s])
  /\ \A p \in ToSet(mailbox) : p \notin ToSet(stray) \cup held \cup leaked
  /\ \A p \in ToSet(stray) : p \notin held \cup leaked
  /\ \A p \in held : p \notin leaked
  /\ \A s \in Sockets : \A p \in ToSet(queue[s]) :
       /\ p \notin ToSet(mailbox) \cup ToSet(stray) \cup held \cup leaked
       /\ \A t \in Sockets \ {s} : p \notin ToSet(queue[t])

\* A port belongs to one socket and a socket's queue holds packets of its own
\* port only, through closing and binding anew: "Returns a UDP packet received
\* on a given UdpSocket" (project.tex).
QueuesAreOwn ==
  /\ \A s, t \in Sockets : s # t /\ port[s] # NoPort => port[s] # port[t]
  /\ \A s \in Sockets : \A p \in ToSet(queue[s]) : to[p] = port[s]

\* A packet for a bound port that nobody received is given up only when the
\* queue of its socket is full or the socket is closed, and then it is freed.
LostOnlyWhenFull ==
  [][\A s \in Sockets :
       port[s] # NoPort /\ port'[s] = port[s] /\ Len(queue[s]) < QueueLen =>
         \A p \in InUse \ held : to[p] = port[s] => p \in InUse' \ leaked']_vars

\* In order, once and at the right port: see PortQueues.
OnTheWay(n) ==
  (IF Bound(n) = {} THEN << >> ELSE queue[CHOOSE s \in Bound(n) : TRUE])
    \o Only(mailbox, {p \in Packets : to[p] = n})

Promise == INSTANCE PortQueues WITH
  waiting <- [n \in Ports |-> OnTheWay(n)],
  received <- [n \in Ports |-> {p \in held : to[p] = n}]

ImplementsPortQueues == Promise!Spec

\* A receive whose packet is in the mailbox returns, however much for others
\* and however many segments are before it.
ReceiveReturns ==
  (at = "receive" /\ \E k \in 1 .. Len(mailbox) : to[mailbox[k]] = port[socket])
    ~> at # "receive"
=============================================================================
