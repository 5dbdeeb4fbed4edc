-------------------------------- MODULE Tcp --------------------------------
(***************************************************************************)
(* TCP (libs/tcp/tcp.c): clients that connect to one listening socket, the *)
(* exchange of data, and the end of the connections.                       *)
(*                                                                         *)
(* A segment is handled when the interface's filters are given it; until   *)
(* then it is on the wire, which keeps the order and may lose segments:    *)
(* the queues on its way are bounded.  A program's bytes are numbered, so  *)
(* that a queue of bytes is a length and where it starts in its array.  A  *)
(* queue that has gone round the end of its array is read from the wrong   *)
(* places; what is read there is 0, which stands for any byte.             *)
(*                                                                         *)
(* A write to a queue that has gone round and is still there begins behind *)
(* the array, over the socket's own fields, and is left out. So are a      *)
(* program that receives a part of what there is, and what no end of such  *)
(* a connection sends: resets, and SYNs that cross. That IP hands the      *)
(* segments over is assumed: the native interface does not do so at this   *)
(* commit (Stray in UdpReceive).                                           *)
(***************************************************************************)
EXTENDS Integers, Sequences

CONSTANTS Clients,
          Writers,      \* the clients with whose connections something is written
          QueueSize,    \* QUEUE_SIZE
          FireLen,      \* what makes a send fire at once: PACKOS_MTU - 40
          SegmentLen,   \* what a packet has room for
          SeqSpace,     \* sequence numbers are modulo this: 2^32
          FixedISN,     \* fixedISN, less than 2^25 below it
          WireLen,      \* bound on segments on their way
          ClientBytes,  \* bound on what a client writes
          ServerBytes,  \* bound on what is written on an accepted socket
          OneWay,       \* only one end of a connection writes
          MaxFaults,    \* bound on the losses and failures that may come at any time
          Nobody

ASSUME TcpAssumption ==
  /\ Nobody \notin Clients /\ Writers \subseteq Clients
  /\ QueueSize \in Nat \ {0} /\ FireLen \in Nat \ {0} /\ SegmentLen \in Nat \ {0}
  /\ WireLen \in Nat \ {0}
  /\ ClientBytes \in Nat /\ ServerBytes \in Nat /\ OneWay \in BOOLEAN
  /\ FixedISN \in Nat \ {0} /\ SeqSpace \in Nat /\ FixedISN < SeqSpace
  /\ ClientBytes + 2 < SeqSpace \div 2 /\ ServerBytes + 2 < SeqSpace \div 2
  /\ MaxFaults \in Nat \ {0}

VARIABLES socket,    \* each end's socket
          wire,      \* the segments on their way to each end
          waiting,   \* waitingToAccept of the listening socket
          owned,     \* the ends whose program has the socket
          written,   \* how many bytes each end's program has written
          lapped,    \* the ends whose queue has gone round the end of its array
          got,       \* the bytes that each end has received, in order
          faults     \* how many segments were lost or not sent, up to the bound

vars == <<socket, wire, waiting, owned, written, lapped, got, faults>>

Client(c) == <<c, "client">>
Server(c) == <<c, "server">>
Ends == {Client(c) : c \in Clients} \cup {Server(c) : c \in Clients}
Bytes(e) == IF e[1] \notin Writers THEN 0
            ELSE IF e[2] = "client" THEN ClientBytes ELSE ServerBytes
Peer(e) == IF e[2] = "client" THEN Server(e[1]) ELSE Client(e[1])

\* TcpSocketNew.  `in' is the queue of what has been received; its sequence
\* number is that of the next byte, its ack number what was acknowledged.
\* `out' starts at its sequence number.
Fresh == [state |-> "Closed", inSeq |-> 0, inAck |-> 0, inLen |-> 0,
          outSeq |-> 0, outAck |-> 0, outLen |-> 0, outStart |-> 0, window |-> 0]
Gone == [Fresh EXCEPT !.state = "none"]

Init ==
  /\ socket = [e \in Ends |-> IF e[2] = "client" THEN Fresh ELSE Gone]
  /\ wire = [e \in Ends |-> << >>]
  /\ waiting = Nobody
  /\ owned = {Client(c) : c \in Clients}
  /\ written = [e \in Ends |-> 0]
  /\ lapped = {}
  /\ got = [e \in Ends |-> << >>]
  /\ faults = 0

\* The arithmetic of uint32_t.
Plus(a, b) == (a + b) % SeqSpace
ModLt(a, b) == Plus(a, -b) > SeqSpace \div 2
ModGe(a, b) == ~ModLt(a, b)

MinOf(S) == CHOOSE n \in S : \A m \in S : n <= m

-----------------------------------------------------------------------------
(* Sending.  What it comes to is a set of outcomes: the socket, and the    *)
(* segments that are put on the wire, none or one.                         *)

Count(failed) ==
  faults' = IF failed /\ faults < MaxFaults THEN faults + 1 ELSE faults

Outcome(s, sent, failed) == [socket |-> s, sent |-> sent, failed |-> failed]
Quiet(s) == {Outcome(s, << >>, FALSE)}

Room(e) == Len(wire[Peer(e)]) < WireLen
MayFail(e) == faults < MaxFaults \/ ~Room(e)

Tried(e, segment, sent, failed) ==
  {o \in {Outcome(sent, <<segment>>, FALSE), Outcome(failed, << >>, TRUE)} :
     IF o.failed THEN MayFail(e) ELSE Room(e)}

Segment(s, flags, data) ==
  [flags |-> flags, seq |-> s.outSeq, ack |-> s.inSeq,
   window |-> QueueSize - s.inLen, data |-> data]

\* sendSimple: a socket that is closing adds a FIN, and so does one that is
\* still closed.
Simple(s, flags) ==
  Segment(s,
          IF s.state \in {"Closed", "FinWait1", "FinWait2", "LastAck", "TimeWait"}
          THEN flags \cup {"fin"} ELSE flags,
          << >>)

\* sendInitial, which does not know what the other side will take for the
\* first byte.
Initial(s) == [s EXCEPT !.outSeq = FixedISN, !.outAck = FixedISN - 1]

\* fire: what is not acknowledged, as far as the window and the packet allow,
\* with the acknowledgement.  That is noted as sent before the segment is; it
\* fails before, for lack of a packet, or after.
FireLength(s) == MinOf({s.outLen, s.window, SegmentLen})
FireData(e, s, total, round) ==
  [k \in 1 .. FireLength(s) |-> IF e \in round THEN 0 ELSE total - s.outLen + k]

\* ByteQueueRead of n bytes, which leaves the queue where it is unless they go
\* past the end of the array.
ByteQueueRead(start, n) == IF start + n > QueueSize THEN QueueSize - start ELSE start

Fired(e, s, total, round) ==
  LET noted == [s EXCEPT !.inAck = s.inSeq,
                         !.outStart = ByteQueueRead(@, FireLength(s))]
      flags == IF s.state \in {"FinWait1", "FinWait2"} THEN {"ack", "fin"} ELSE {"ack"}
      segment == Segment(s, flags, FireData(e, s, total, round))
  IN  IF s.outLen = 0 /\ s.inSeq = s.inAck
      THEN Quiet(s)
      ELSE Tried(e, segment, noted, noted) \cup Tried(e, segment, noted, s)

\* One of the outcomes comes about.
Put(e, outcomes) ==
  \E o \in outcomes :
    /\ socket' = [socket EXCEPT ![e] = o.socket]
    /\ wire' = [wire EXCEPT ![Peer(e)] = @ \o o.sent]
    /\ Count(o.failed)

-----------------------------------------------------------------------------
(* The programs *)

\* TcpSocketConnect, up to its wait.
Connect(c) ==
  LET e == Client(c)
      s == Initial(socket[e])
  IN  /\ e \in owned
      /\ s.state = "Closed"
      /\ Put(e, Tried(e, Simple(s, {"syn"}),
                      [s EXCEPT !.outSeq = Plus(@, 1), !.state = "SynSent"], s))
      /\ UNCHANGED <<waiting, owned, written, lapped, got>>

\* Variant to reject: the socket is left in waitingToAccept.
AcceptAndKeep ==
  /\ waiting # Nobody
  /\ socket[Server(waiting)].state = "Established"
  /\ owned' = owned \cup {Server(waiting)}
  /\ UNCHANGED <<socket, wire, waiting, written, lapped, got, faults>>

\* TcpSocketAccept returns.
Accept ==
  /\ waiting # Nobody
  /\ socket[Server(waiting)].state = "Established"
  /\ owned' = owned \cup {Server(waiting)}
  /\ waiting' = Nobody
  /\ UNCHANGED <<socket, wire, written, lapped, got, faults>>

Data(e) == socket[e].state \in {"Established", "CloseWait"}

\* The ends whose queue has gone round when e has put n bytes more into its own.
Lapped(e, n) ==
  IF socket[e].outStart + socket[e].outLen + n > QueueSize THEN lapped \cup {e} ELSE lapped

\* TcpSocketSend, of which ByteQueueEnqueue takes n bytes.  They begin in the
\* array or at its end.
Send(e) ==
  /\ e \in owned /\ Data(e)
  /\ OneWay => written[Peer(e)] = 0
  /\ socket[e].outStart + socket[e].outLen <= QueueSize
  /\ \E n \in 1 .. Bytes(e) - written[e] :
       LET s == [socket[e] EXCEPT !.outLen = @ + n]
       IN  /\ s.outLen <= QueueSize
           /\ written' = [written EXCEPT ![e] = @ + n]
           /\ lapped' = Lapped(e, n)
           /\ Put(e, IF s.outLen >= FireLen
                     THEN Fired(e, s, written[e] + n, Lapped(e, n))
                     ELSE Quiet(s))
  /\ UNCHANGED <<waiting, owned, got>>

\* ByteQueueDequeue of all that there is, after which the queue starts anew.
ByteQueueDequeue(s) == [s EXCEPT !.inLen = 0]

\* TcpSocketReceive of all that has been received.  (It waits while there is
\* nothing, for ever if the other side has closed.)
Receive(e) ==
  /\ e \in owned /\ Data(e)
  /\ socket[e].inLen > 0
  /\ socket' = [socket EXCEPT ![e] = ByteQueueDequeue(@)]
  /\ UNCHANGED <<wire, waiting, owned, written, lapped, got, faults>>

\* A socket that is given up fires once, and again with each tick.
GivenUp(e, s) == Fired(e, [s EXCEPT !.state = "FinWait1"], written[e], lapped)

\* TcpSocketConnect has returned, or failed when a tick did.
CloseActive(e) ==
  /\ socket[e].state \in {"Established"} \cup (IF MaxFaults > 0 THEN {"SynSent"} ELSE {})
  /\ Put(e, GivenUp(e, socket[e]))

ClosePassive(e) ==
  /\ socket[e].state = "CloseWait"
  /\ Put(e, {[o EXCEPT !.socket.state = "LastAck"] :
                o \in Fired(e, socket[e], written[e], lapped)})

CloseClosed(e) ==
  /\ socket[e].state = "Closed"
  /\ Put(e, Quiet(Gone))

\* TcpSocketClose.  The program does not use the socket afterwards.
Close(e) ==
  /\ e \in owned
  /\ owned' = owned \ {e}
  /\ CloseActive(e) \/ ClosePassive(e) \/ CloseClosed(e)
  /\ UNCHANGED <<waiting, written, lapped, got>>

-----------------------------------------------------------------------------
(* tick: a socket fires every so often.  It does so while there is room on *)
(* the wire.                                                               *)

\* Variant to reject: only what was received makes a socket fire.
FireAcks(e) ==
  /\ socket[e].state \notin {"none", "TimeWait"}
  /\ socket[e].inSeq # socket[e].inAck
  /\ Room(e)
  /\ Put(e, Fired(e, socket[e], written[e], lapped))
  /\ UNCHANGED <<waiting, owned, written, lapped, got>>

Fire(e) ==
  /\ socket[e].state \notin {"none", "TimeWait"}
  /\ socket[e].outLen > 0 \/ socket[e].inSeq # socket[e].inAck
  /\ Room(e)
  /\ Put(e, Fired(e, socket[e], written[e], lapped))
  /\ UNCHANGED <<waiting, owned, written, lapped, got>>

Expire(e) ==
  /\ socket[e].state = "TimeWait"
  /\ Put(e, Quiet(Gone))
  /\ UNCHANGED <<waiting, owned, written, lapped, got>>

-----------------------------------------------------------------------------
(* TcpFilterMethod: what an end does with the first segment on its way. *)

First(e) == Head(wire[e])
Has(e, flag) == flag \in First(e).flags

\* The end is in the given state when the segment comes; its window is noted.
In(e, state) == wire[e] # << >> /\ socket[e].state = state
Noted(e) == [socket[e] EXCEPT !.window = First(e).window]

Took(e, outcomes) ==
  \E o \in outcomes :
    /\ socket' = [socket EXCEPT ![e] = o.socket]
    /\ wire' = [wire EXCEPT ![e] = Tail(@), ![Peer(e)] = @ \o o.sent]
    /\ Count(o.failed)

\* It takes a SYN to get a socket from the listening one, and the new socket
\* cannot be bound while there is another one at the port.
Welcome(e) ==
  /\ In(e, "none") /\ Has(e, "syn")
  /\ e[2] = "server"
  /\ waiting = Nobody
  /\ \A c \in Clients : socket[Server(c)].state = "none"

Listen(c) ==
  LET e == Server(c)
      s == [Initial(Fresh) EXCEPT !.state = "SynReceived",
              !.inSeq = Plus(First(e).seq, 1), !.inAck = First(e).seq]
  IN  /\ Welcome(e)
      /\ \/ /\ Room(e)
            /\ Took(e, {Outcome(s, <<Simple(s, {"syn", "ack"})>>, FALSE)})
            /\ waiting' = c
         \/ /\ MayFail(e)
            /\ Took(e, {[o EXCEPT !.failed = TRUE] : o \in GivenUp(e, s)})
            /\ UNCHANGED waiting
      /\ UNCHANGED <<owned, written, lapped, got>>

SynSent(e) ==
  LET s == [Noted(e) EXCEPT !.inSeq = First(e).seq, !.inAck = Plus(First(e).seq, -1)]
  IN  /\ In(e, "SynSent") /\ Has(e, "syn")
      /\ ~ModLt(First(e).ack, socket[e].outSeq)
      /\ Took(e, Tried(e, Simple(s, {"syn", "ack"}), [s EXCEPT !.state = "Established"], s))
      /\ UNCHANGED <<waiting, owned, written, lapped, got>>

\* An acknowledgement of just what has been sent.
Acked(e) == Has(e, "ack") /\ First(e).ack = socket[e].outSeq

\* Variant to reject: what the other side has acknowledged is not noted.
SynReceivedOnly(e) ==
  /\ In(e, "SynReceived") /\ Acked(e)
  /\ Took(e, Quiet([Noted(e) EXCEPT !.state = "Established"]))
  /\ UNCHANGED <<waiting, owned, written, lapped, got>>

SynReceived(e) ==
  /\ In(e, "SynReceived") /\ Acked(e)
  /\ Took(e, Quiet([Noted(e) EXCEPT !.outAck = First(e).ack, !.state = "Established"]))
  /\ UNCHANGED <<waiting, owned, written, lapped, got>>

ByteQueueDrop(s, n) ==
  [s EXCEPT !.outLen = IF n >= @ THEN 0 ELSE @ - n,
            !.outStart = IF n >= s.outLen THEN 0 ELSE (@ + n) % QueueSize]

\* recordAck: what is acknowledged leaves the queue.
RecordAck(s, ack) ==
  LET delta == Plus(ack, -s.outAck)
  IN  IF delta >= SeqSpace \div 2 THEN s
      ELSE [ByteQueueDrop(s, delta) EXCEPT !.outSeq = ack, !.outAck = ack]

\* How many of n bytes ByteQueueEnqueue takes.
Enqueued(s, n) == MinOf({n, QueueSize - s.inLen})

\* Variant to reject: all bytes of a segment are taken for new ones.
AllBytes(s, segment) ==
  SubSeq(segment.data, 1, Enqueued(s, Len(segment.data)))

\* The bytes of a segment that are new and have room; what is before its first
\* byte would be garbage.
NewBytes(s, segment) ==
  LET n == Len(segment.data)
      actual == Plus(segment.seq + n, -s.inSeq)
  IN  IF n = 0 \/ segment.seq > s.inSeq \/ actual >= SeqSpace \div 2 THEN << >>
      ELSE [k \in 1 .. Enqueued(s, actual) |->
              IF n - actual + k > 0 THEN segment.data[n - actual + k] ELSE 0]

Established(e) ==
  LET acked == IF Has(e, "ack") THEN RecordAck(Noted(e), First(e).ack) ELSE Noted(e)
      new == NewBytes(acked, First(e))
      s == [acked EXCEPT !.inLen = @ + Len(new), !.inSeq = Plus(@, Len(new))]
  IN  /\ wire[e] # << >> /\ Data(e)
      /\ got' = [got EXCEPT ![e] = @ \o new]
      /\ Took(e, IF Has(e, "fin")
                 THEN Tried(e, Simple(s, {"ack"}), [s EXCEPT !.state = "CloseWait"], s)
                 ELSE Quiet(s))
      /\ UNCHANGED <<waiting, owned, written, lapped>>

\* Anything that acknowledges nothing new passes for the ack of the FIN.
FinWait1(e) ==
  /\ In(e, "FinWait1")
  /\ Acked(e) \/ Has(e, "fin")
  /\ Took(e, IF Acked(e)
             THEN Quiet([Noted(e) EXCEPT !.outAck = First(e).ack, !.state = "FinWait2"])
             ELSE Tried(e, Simple(Noted(e), {"ack"}),
                        [Noted(e) EXCEPT !.outSeq = Plus(@, 2), !.state = "Closing"],
                        Noted(e)))
  /\ UNCHANGED <<waiting, owned, written, lapped, got>>

FinWait2(e) ==
  /\ In(e, "FinWait2") /\ Has(e, "fin")
  /\ Took(e, Tried(e, Simple(Noted(e), {"ack"}),
                   [Noted(e) EXCEPT !.inSeq = Plus(@, 1), !.state = "TimeWait"],
                   Noted(e)))
  /\ UNCHANGED <<waiting, owned, written, lapped, got>>

Closing(e) ==
  /\ In(e, "Closing") /\ Has(e, "ack")
  /\ ModGe(First(e).ack, socket[e].outSeq)
  /\ Took(e, Quiet([Noted(e) EXCEPT !.outAck = First(e).ack, !.state = "TimeWait"]))
  /\ UNCHANGED <<waiting, owned, written, lapped, got>>

\* Variant to reject: any acknowledgement ends the connection.
LastAckAny(e) ==
  LET s == RecordAck(Noted(e), First(e).ack)
  IN  /\ In(e, "LastAck") /\ Has(e, "ack")
      /\ Took(e, Tried(e, Simple(s, {"ack"}), Gone, s))
      /\ UNCHANGED <<waiting, owned, written, lapped, got>>

LastAck(e) ==
  LET s == RecordAck(Noted(e), First(e).ack)
  IN  /\ In(e, "LastAck") /\ Has(e, "ack")
      /\ Took(e, Tried(e, Simple(s, {"ack"}),
                       IF s.outLen = 0 THEN Gone ELSE [s EXCEPT !.outAck = First(e).ack],
                       s))
      /\ UNCHANGED <<waiting, owned, written, lapped, got>>

\* The segments that do something to the socket they are for.
Handled(e) ==
  \/ Welcome(e)
  \/ In(e, "SynSent") /\ Has(e, "syn") /\ ~ModLt(First(e).ack, socket[e].outSeq)
  \/ In(e, "SynReceived") /\ Acked(e)
  \/ Data(e)
  \/ In(e, "FinWait1") /\ (Acked(e) \/ Has(e, "fin"))
  \/ In(e, "FinWait2") /\ Has(e, "fin")
  \/ In(e, "Closing") /\ Has(e, "ack") /\ ModGe(First(e).ack, socket[e].outSeq)
  \/ In(e, "LastAck") /\ Has(e, "ack")

\* The others are looked at and freed.
Ignore(e) ==
  /\ wire[e] # << >>
  /\ ~Handled(e)
  /\ Took(e, Quiet(IF socket[e].state \in {"none", "Closed"} THEN socket[e] ELSE Noted(e)))
  /\ UNCHANGED <<waiting, owned, written, lapped, got>>

Filter(e) ==
  \/ SynSent(e)
  \/ SynReceived(e)
  \/ Established(e)
  \/ FinWait1(e)
  \/ FinWait2(e)
  \/ Closing(e)
  \/ LastAck(e)
  \/ Ignore(e)

Lose(e) ==
  /\ faults < MaxFaults
  /\ wire[e] # << >>
  /\ wire' = [wire EXCEPT ![e] = Tail(@)]
  /\ Count(TRUE)
  /\ UNCHANGED <<socket, waiting, owned, written, lapped, got>>

-----------------------------------------------------------------------------
Next ==
  \/ \E c \in Clients : Connect(c) \/ Listen(c)
  \/ Accept
  \/ \E e \in Ends :
       Send(e) \/ Receive(e) \/ Close(e) \/ Fire(e) \/ Expire(e) \/ Filter(e) \/ Lose(e)

Spec == Init /\ [][Next]_vars

\* The ticks come, and every process goes on looking at what comes in.
Fairness ==
  /\ \A c \in Clients : WF_vars(Listen(c))
  /\ \A e \in Ends : WF_vars(Fire(e)) /\ WF_vars(Filter(e))

FairSpec == Spec /\ Fairness

-----------------------------------------------------------------------------
\* What the programs write arrives in order and never twice, whatever is lost
\* and whenever the ends close.  Nothing is missing of what the accepted
\* socket writes; of what the other one does, up to two bytes may be
\* (TcpFilterMethod, recordAck and fire).
Promised == INSTANCE Stream WITH
              Channels <- Ends,
              Missing <- [e \in Ends |-> IF e[2] = "client" THEN 2 ELSE 0],
              Capacity <- QueueSize,
              got <- [e \in Ends |-> got[Peer(e)]]
ImplementsStream == Promised!Spec

\* A byte leaves the queue of the accepted socket only when the other side has
\* received it (recordAck, ByteQueueDrop).
KeptUntilReceived ==
  \A c \in Clients :
    LET s == socket[Server(c)]
    IN  s.state # "none" => written[Server(c)] - s.outLen <= Len(got[Client(c)])

\* A socket that answered the other side's close goes away only when all that
\* was written to it has been received (TcpFilterMethod, LAST_ACK).
PassiveCloseIsComplete ==
  [][\A c \in Clients :
       socket[Server(c)].state = "LastAck" /\ socket'[Server(c)].state = "none"
         => Len(got'[Client(c)]) = written[Server(c)]]_vars

\* The socket that TcpSocketAccept is to return is there, and has not been
\* closed.
WaitingIsThere ==
  waiting # Nobody =>
    socket[Server(waiting)].state \in {"SynReceived", "Established", "CloseWait"}

\* While nothing is lost, what is written does not stay in the queue unless
\* the other side has no room or an end closes (tick, fire).
DataMoves ==
  \A e \in Ends :
    socket[e].outLen > 0 /\ Data(e) /\ faults = 0
        ~> \/ socket[e].outLen = 0 \/ socket[e].window = 0
         \/ faults > 0 \/ ~Data(e) \/ ~Data(Peer(e))
=============================================================================
