----------------------------- MODULE TcpProofs -----------------------------
(***************************************************************************)
(* The backlog of the listening socket, for any clients and any bounds:    *)
(* waitingToAccept never points at a socket that is gone or given up.      *)
(*                                                                         *)
(* Then the bytes that an accepted socket sends.  Streams is the invariant *)
(* of both ends and the wires between them (a Connection for each client): *)
(* sequence numbers are counted from the initial one (At, Index), so that  *)
(* what the modular comparisons of tcp.c decide can be said in Nat.  Bytes *)
(* stay queued until they have been received, and a socket that leaves     *)
(* LAST_ACK has had everything received.                                   *)
(***************************************************************************)
EXTENDS Tcp, TLAPS

Alive == {"Established", "CloseWait"}

\* The sockets are records with a state.
Shape == DOMAIN socket = Ends /\ \A e \in Ends : "state" \in DOMAIN socket[e]

\* The waiting socket is not a program's yet, so that nobody closes it; and what
\* is a program's has not gone away, so that no new socket can take its place.
Backlog == waiting # Nobody => waiting \in Clients /\ Server(waiting) \notin owned
InUse == \A c \in Clients : Server(c) \in owned => socket[Server(c)].state \in Alive

IInv == Shape /\ owned \subseteq Ends /\ Backlog /\ InUse /\ WaitingIsThere

-----------------------------------------------------------------------------
(* The ends *)

LEMMA EndFacts ==
  /\ \A c \in Clients : Client(c) \in Ends /\ Server(c) \in Ends
  /\ \A c, d \in Clients : Client(c) # Server(d)
  /\ \A c, d \in Clients : Server(c) = Server(d) => c = d
BY DEF Ends, Client, Server

-----------------------------------------------------------------------------
(* What may become of the state of a socket *)

\* A socket that programs or the listener have stays usable.
MayBecome(old, new) ==
  /\ old \in Alive => new \in Alive
  /\ old = "SynReceived" => new \in Alive \cup {"SynReceived"}

\* Only the socket of one end changes, to one of a state that is in S.
Becomes(e, S) ==
  \E s : /\ "state" \in DOMAIN s /\ s.state \in S
         /\ socket' = [socket EXCEPT ![e] = s]

\* An end whose state changes as it may keeps the invariant, and so does one
\* whose program gives it up.
LEMMA KeptByOne ==
  ASSUME IInv, NEW e \in Ends, NEW S, Becomes(e, S),
         waiting' = waiting, owned' \subseteq owned,
         \/ \A new \in S : MayBecome(socket[e].state, new)
         \/ e \in owned /\ e \notin owned'
  PROVE  IInv'
<1>1. PICK s : /\ "state" \in DOMAIN s /\ s.state \in S
               /\ socket' = [socket EXCEPT ![e] = s]
  BY DEF Becomes
<1>2. socket'[e] = s /\ \A d \in Ends \ {e} : socket'[d] = socket[d]
  BY <1>1 DEF IInv, Shape
<1>3. Shape'
  BY <1>1, <1>2 DEF IInv, Shape
<1>4. (owned \subseteq Ends)'
  BY DEF IInv
<1>5. Backlog'
  BY DEF IInv, Backlog
<1>6. InUse'
  <2> SUFFICES ASSUME NEW c \in Clients, Server(c) \in owned'
               PROVE  socket'[Server(c)].state \in Alive
    BY DEF InUse
  <2>1. Server(c) \in Ends /\ socket[Server(c)].state \in Alive
    BY EndFacts DEF IInv, InUse
  <2>2. CASE Server(c) # e
    BY <2>1, <2>2, <1>2
  <2>3. CASE Server(c) = e
    BY <2>1, <2>3, <1>1, <1>2 DEF MayBecome
  <2> QED BY <2>2, <2>3
<1>7. WaitingIsThere'
  <2> SUFFICES ASSUME waiting # Nobody
               PROVE  socket'[Server(waiting)].state \in Alive \cup {"SynReceived"}
    BY DEF WaitingIsThere, Alive
  <2>1. /\ waiting \in Clients /\ Server(waiting) \in Ends /\ Server(waiting) \notin owned
        /\ socket[Server(waiting)].state \in Alive \cup {"SynReceived"}
    BY EndFacts DEF IInv, Backlog, WaitingIsThere, Alive
  <2>2. CASE Server(waiting) # e
    BY <2>1, <2>2, <1>2
  <2>3. CASE Server(waiting) = e
    BY <2>1, <2>3, <1>1, <1>2 DEF MayBecome
  <2> QED BY <2>2, <2>3
<1> QED BY <1>3, <1>4, <1>5, <1>6, <1>7 DEF IInv

-----------------------------------------------------------------------------
(* Outcomes *)

\* All outcomes leave a socket with a state that is in S.
AllIn(outcomes, S) ==
  \A o \in outcomes : "state" \in DOMAIN o.socket /\ o.socket.state \in S

LEMMA PutBecomes ==
  ASSUME NEW e, NEW outcomes, NEW S, AllIn(outcomes, S), Put(e, outcomes)
  PROVE  Becomes(e, S)
BY DEF AllIn, Put, Becomes

LEMMA TookBecomes ==
  ASSUME NEW e, NEW outcomes, NEW S, AllIn(outcomes, S), Took(e, outcomes)
  PROVE  Becomes(e, S)
BY DEF AllIn, Took, Becomes

LEMMA QuietIn ==
  ASSUME NEW s, NEW S, "state" \in DOMAIN s, s.state \in S
  PROVE  AllIn(Quiet(s), S)
BY DEF AllIn, Quiet, Outcome

LEMMA TriedIn ==
  ASSUME NEW e, NEW segment, NEW sent, NEW failed, NEW S,
         "state" \in DOMAIN sent, sent.state \in S,
         "state" \in DOMAIN failed, failed.state \in S
  PROVE  AllIn(Tried(e, segment, sent, failed), S)
BY DEF AllIn, Tried, Outcome

\* The socket when fire has put together what it sends.
Acknowledged(s) == [s EXCEPT !.inAck = s.inSeq,
                             !.outStart = ByteQueueRead(@, FireLength(s))]

LEMMA FiredIn ==
  ASSUME NEW e, NEW s, NEW total, NEW round, "state" \in DOMAIN s
  PROVE  AllIn(Fired(e, s, total, round), {s.state})
<1> DEFINE noted == Acknowledged(s)
           flags == IF s.state \in {"FinWait1", "FinWait2"} THEN {"ack", "fin"} ELSE {"ack"}
           segment == Segment(s, flags, FireData(e, s, total, round))
<1>1. "state" \in DOMAIN noted /\ noted.state = s.state
  BY DEF Acknowledged
<1>2. /\ AllIn(Quiet(s), {s.state})
      /\ AllIn(Tried(e, segment, noted, noted), {s.state})
      /\ AllIn(Tried(e, segment, noted, s), {s.state})
  <2> HIDE DEF noted, segment
  <2> QED BY <1>1, QuietIn, TriedIn
<1>3. Fired(e, s, total, round) = IF s.outLen = 0 /\ s.inSeq = s.inAck
                           THEN Quiet(s)
                           ELSE Tried(e, segment, noted, noted) \cup Tried(e, segment, noted, s)
  BY DEF Fired, Acknowledged
<1> HIDE DEF noted, segment
<1> QED BY <1>2, <1>3 DEF AllIn

-----------------------------------------------------------------------------
(* What each action does to the states *)

LEMMA InitIInv == Init => IInv
<1> SUFFICES ASSUME Init PROVE IInv
  OBVIOUS
<1>1. Shape
  BY DEF Init, Shape, Fresh, Gone
<1>2. owned \subseteq Ends
  BY EndFacts DEF Init
<1>3. \A c \in Clients : Server(c) \notin owned
  BY EndFacts DEF Init
<1> QED BY <1>1, <1>2, <1>3 DEF Init, IInv, Backlog, InUse, WaitingIsThere

LEMMA ConnectStep == ASSUME IInv, NEW c \in Clients, Connect(c) PROVE IInv'
<1> DEFINE e == Client(c)
           s == Initial(socket[e])
           sent == [s EXCEPT !.outSeq = Plus(@, 1), !.state = "SynSent"]
<1>1. e \in Ends /\ socket[e].state = "Closed" /\ "state" \in DOMAIN socket[e]
  BY EndFacts DEF Connect, IInv, Shape, Initial
<1>2. "state" \in DOMAIN s /\ s.state = "Closed"
  BY <1>1 DEF Initial
<1>3. "state" \in DOMAIN sent /\ sent.state = "SynSent"
  BY <1>2
<1>4. Put(e, Tried(e, Simple(s, {"syn"}), sent, s)) /\ UNCHANGED <<waiting, owned>>
  BY DEF Connect
<1> HIDE DEF e, s, sent
<1>5. Becomes(e, {"Closed", "SynSent"})
  BY <1>2, <1>3, <1>4, TriedIn, PutBecomes
<1> QED BY <1>1, <1>4, <1>5, KeptByOne DEF MayBecome, Alive

\* The accepted socket is established, and waits no more.
LEMMA AcceptStep == ASSUME IInv, Accept PROVE IInv'
<1>1. waiting \in Clients /\ Server(waiting) \in Ends
  BY EndFacts DEF Accept, IInv, Backlog
<1>2. Shape' /\ (owned \subseteq Ends)'
  BY <1>1 DEF Accept, IInv, Shape
<1>3. InUse'
  BY <1>1 DEF Accept, IInv, InUse, Alive
<1> QED BY <1>2, <1>3 DEF Accept, IInv, Backlog, WaitingIsThere

LEMMA SendStep == ASSUME IInv, NEW e \in Ends, Send(e) PROVE IInv'
<1>0. PICK n \in 1 .. Bytes(e) - written[e] :
        LET s == [socket[e] EXCEPT !.outLen = @ + n]
        IN  Put(e, IF s.outLen >= FireLen THEN Fired(e, s, written[e] + n, Lapped(e, n))
                                          ELSE Quiet(s))
  BY DEF Send
<1> DEFINE s == [socket[e] EXCEPT !.outLen = @ + n]
<1>1. "state" \in DOMAIN s /\ s.state = socket[e].state
  BY DEF IInv, Shape
<1>2. /\ Put(e, IF s.outLen >= FireLen THEN Fired(e, s, written[e] + n, Lapped(e, n))
                                       ELSE Quiet(s))
      /\ UNCHANGED <<waiting, owned>>
  BY <1>0 DEF Send
<1> HIDE DEF s
<1>3. Becomes(e, {socket[e].state})
  BY <1>1, <1>2, FiredIn, QuietIn, PutBecomes
<1> QED BY <1>2, <1>3, KeptByOne DEF MayBecome

LEMMA ReceiveStep == ASSUME IInv, NEW e \in Ends, Receive(e) PROVE IInv'
<1> DEFINE s == [socket[e] EXCEPT !.inLen = 0]
<1>1. "state" \in DOMAIN s /\ s.state = socket[e].state
  BY DEF IInv, Shape
<1>2. socket' = [socket EXCEPT ![e] = s] /\ UNCHANGED <<waiting, owned>>
  BY DEF Receive, ByteQueueDequeue
<1> HIDE DEF s
<1>3. Becomes(e, {socket[e].state})
  BY <1>1, <1>2 DEF Becomes
<1> QED BY <1>2, <1>3, KeptByOne DEF MayBecome

LEMMA GivenUpIn ==
  ASSUME NEW e, NEW s, "state" \in DOMAIN s
  PROVE  AllIn(GivenUp(e, s), {"FinWait1"})
<1> DEFINE given == [s EXCEPT !.state = "FinWait1"]
<1>1. "state" \in DOMAIN given /\ given.state = "FinWait1"
  OBVIOUS
<1>2. GivenUp(e, s) = Fired(e, given, written[e], lapped)
  BY DEF GivenUp
<1> HIDE DEF given
<1> QED BY <1>1, <1>2, FiredIn

\* Whatever becomes of it, the program has given the socket up.
LEMMA CloseStep == ASSUME IInv, NEW e \in Ends, Close(e) PROVE IInv'
<1>1. "state" \in DOMAIN socket[e]
  BY DEF IInv, Shape
<1>2. ASSUME CloseActive(e) PROVE Becomes(e, {"FinWait1"})
  BY <1>1, <1>2, GivenUpIn, PutBecomes DEF CloseActive
<1>3. ASSUME ClosePassive(e) PROVE Becomes(e, {"LastAck"})
  <2> DEFINE fired == Fired(e, socket[e], written[e], lapped)
             closed == {[o EXCEPT !.socket.state = "LastAck"] : o \in fired}
  <2>1. \A o \in fired : "socket" \in DOMAIN o /\ "state" \in DOMAIN o.socket
    <3>1. \A o \in fired : "socket" \in DOMAIN o
      BY DEF Fired, Tried, Quiet, Outcome
    <3>2. AllIn(fired, {socket[e].state})
      BY <1>1, FiredIn
    <3> HIDE DEF fired
    <3> QED BY <3>1, <3>2 DEF AllIn
  <2>2. AllIn(closed, {"LastAck"})
    BY <2>1 DEF AllIn
  <2>3. Put(e, closed)
    BY <1>3 DEF ClosePassive
  <2> QED BY <2>2, <2>3, PutBecomes
<1>4. ASSUME CloseClosed(e) PROVE Becomes(e, {"none"})
  <2>1. AllIn(Quiet(Gone), {"none"})
    BY QuietIn DEF Gone, Fresh
  <2> QED BY <1>4, <2>1, PutBecomes DEF CloseClosed
<1>5. \E S : Becomes(e, S)
  BY <1>2, <1>3, <1>4 DEF Close
<1>6. waiting' = waiting /\ owned' \subseteq owned /\ e \in owned /\ e \notin owned'
  BY DEF Close
<1> QED BY <1>5, <1>6, KeptByOne

LEMMA FireStep == ASSUME IInv, NEW e \in Ends, Fire(e) PROVE IInv'
<1>1. "state" \in DOMAIN socket[e]
  BY DEF IInv, Shape
<1>2. Becomes(e, {socket[e].state})
  BY <1>1, FiredIn, PutBecomes DEF Fire
<1> QED BY <1>2, KeptByOne DEF Fire, MayBecome

LEMMA ExpireStep == ASSUME IInv, NEW e \in Ends, Expire(e) PROVE IInv'
<1>1. AllIn(Quiet(Gone), {"none"})
  BY QuietIn DEF Gone, Fresh
<1>2. Becomes(e, {"none"})
  BY <1>1, PutBecomes DEF Expire
<1> QED BY <1>2, KeptByOne DEF Expire, MayBecome, Alive

-----------------------------------------------------------------------------
(* What the handler of a segment does to the states *)

LEMMA NotedState ==
  ASSUME IInv, NEW e \in Ends
  PROVE  "state" \in DOMAIN Noted(e) /\ Noted(e).state = socket[e].state
BY DEF IInv, Shape, Noted

\* The new socket is one that nobody has, so that it may be given up at once;
\* else it is the one that waits.
LEMMA ListenStep == ASSUME IInv, NEW c \in Clients, Listen(c) PROVE IInv'
<1> DEFINE e == Server(c)
           s == [Initial(Fresh) EXCEPT !.state = "SynReceived",
                   !.inSeq = Plus(First(e).seq, 1), !.inAck = First(e).seq]
           one == {Outcome(s, <<Simple(s, {"syn", "ack"})>>, FALSE)}
           none == {[o EXCEPT !.failed = TRUE] : o \in GivenUp(e, s)}
<1>1. /\ e \in Ends /\ waiting = Nobody /\ owned' = owned
      /\ socket[e].state = "none"
  BY EndFacts DEF Listen, Welcome, In
<1>2. e \notin owned
  BY <1>1 DEF IInv, InUse, Alive
<1>3. "state" \in DOMAIN s /\ s.state = "SynReceived"
  BY DEF Initial, Fresh
<1>4. \/ Took(e, one) /\ waiting' = c
      \/ Took(e, none) /\ waiting' = waiting
  BY DEF Listen
<1>5. CASE Took(e, one) /\ waiting' = c
  <2>1. socket' = [socket EXCEPT ![e] = s]
    <3> HIDE DEF e, s
    <3>1. \A o \in one : o.socket = s
      BY DEF Outcome
    <3> HIDE DEF one
    <3> QED BY <1>5, <3>1 DEF Took
  <2>2. socket'[e] = s /\ \A d \in Ends \ {e} : socket'[d] = socket[d]
    BY <2>1, <1>1 DEF IInv, Shape
  <2> HIDE DEF s
  <2>3. Shape'
    BY <2>1, <2>2, <1>3 DEF IInv, Shape
  <2>4. (owned \subseteq Ends)' /\ Backlog'
    BY <1>1, <1>2, <1>5 DEF IInv, Backlog
  <2>5. InUse'
    BY <2>2, <1>1, <1>2, EndFacts DEF IInv, InUse
  <2>6. WaitingIsThere'
    BY <2>2, <1>3, <1>5 DEF WaitingIsThere
  <2> QED BY <2>3, <2>4, <2>5, <2>6 DEF IInv
<1>6. CASE Took(e, none) /\ waiting' = waiting
  <2>1. AllIn(GivenUp(e, s), {"FinWait1"})
    <3> HIDE DEF s
    <3> QED BY <1>3, GivenUpIn
  <2>2. \A o \in GivenUp(e, s) : "socket" \in DOMAIN o
    BY DEF GivenUp, Fired, Tried, Quiet, Outcome
  <2> HIDE DEF s
  <2>3. AllIn(none, {"FinWait1"})
    BY <2>1, <2>2 DEF AllIn
  <2>4. Becomes(e, {"FinWait1"})
    BY <1>6, <2>3, TookBecomes
  <2> QED BY <1>1, <1>6, <2>4, KeptByOne DEF MayBecome, Alive
<1> QED BY <1>4, <1>5, <1>6

LEMMA RecordAckState ==
  ASSUME NEW s, NEW ack, "state" \in DOMAIN s
  PROVE  "state" \in DOMAIN RecordAck(s, ack) /\ RecordAck(s, ack).state = s.state
BY DEF RecordAck, ByteQueueDrop

LEMMA SynSentStep == ASSUME IInv, NEW e \in Ends, SynSent(e) PROVE IInv'
<1> DEFINE s == [Noted(e) EXCEPT !.inSeq = First(e).seq, !.inAck = Plus(First(e).seq, -1)]
           sent == [s EXCEPT !.state = "Established"]
<1>1. /\ socket[e].state = "SynSent"
      /\ Took(e, Tried(e, Simple(s, {"syn", "ack"}), sent, s))
      /\ UNCHANGED <<waiting, owned>>
  BY DEF SynSent, In
<1>2. "state" \in DOMAIN s /\ s.state = "SynSent"
  BY <1>1, NotedState
<1>3. "state" \in DOMAIN sent /\ sent.state = "Established"
  BY <1>2
<1> HIDE DEF s, sent
<1>4. Becomes(e, {"SynSent", "Established"})
  BY <1>1, <1>2, <1>3, TriedIn, TookBecomes
<1> QED BY <1>1, <1>4, KeptByOne DEF MayBecome, Alive

LEMMA SynReceivedStep == ASSUME IInv, NEW e \in Ends, SynReceived(e) PROVE IInv'
<1> DEFINE s == [Noted(e) EXCEPT !.outAck = First(e).ack, !.state = "Established"]
<1>1. socket[e].state = "SynReceived" /\ Took(e, Quiet(s)) /\ UNCHANGED <<waiting, owned>>
  BY DEF SynReceived, In
<1>2. "state" \in DOMAIN s /\ s.state = "Established"
  BY NotedState
<1> HIDE DEF s
<1>3. Becomes(e, {"Established"})
  BY <1>1, <1>2, QuietIn, TookBecomes
<1> QED BY <1>1, <1>3, KeptByOne DEF MayBecome, Alive

\* It stays as it is, or the other side has closed.
LEMMA EstablishedStep == ASSUME IInv, NEW e \in Ends, Established(e) PROVE IInv'
<1> DEFINE acked == IF Has(e, "ack") THEN RecordAck(Noted(e), First(e).ack) ELSE Noted(e)
           new == NewBytes(acked, First(e))
           s == [acked EXCEPT !.inLen = @ + Len(new), !.inSeq = Plus(@, Len(new))]
           closed == [s EXCEPT !.state = "CloseWait"]
<1>1. /\ socket[e].state \in Alive
      /\ Took(e, IF Has(e, "fin") THEN Tried(e, Simple(s, {"ack"}), closed, s) ELSE Quiet(s))
      /\ UNCHANGED <<waiting, owned>>
  BY DEF Established, Data, Alive
<1>2. "state" \in DOMAIN acked /\ acked.state = socket[e].state
  BY NotedState, RecordAckState
<1>3. "state" \in DOMAIN s /\ s.state \in Alive
  <2> HIDE DEF acked, new
  <2> QED BY <1>1, <1>2
<1>4. "state" \in DOMAIN closed /\ closed.state \in Alive
  <2> HIDE DEF s
  <2> QED BY <1>3 DEF Alive
<1> HIDE DEF s, closed
<1>5. Becomes(e, Alive)
  BY <1>1, <1>3, <1>4, TriedIn, QuietIn, TookBecomes
<1> QED BY <1>1, <1>5, KeptByOne DEF MayBecome, Alive

\* The sockets that have been given up are nobody's.
GivenUpStates == {"FinWait1", "FinWait2", "Closing", "LastAck", "TimeWait"}

LEMMA EndingStep ==
  ASSUME IInv, NEW e \in Ends, FinWait1(e) \/ FinWait2(e) \/ Closing(e) \/ LastAck(e)
  PROVE  IInv'
<1> DEFINE After == GivenUpStates \cup {"none"}
<1>1. socket[e].state \in GivenUpStates /\ UNCHANGED <<waiting, owned>>
  BY DEF FinWait1, FinWait2, Closing, LastAck, In, GivenUpStates
<1>2. "state" \in DOMAIN Noted(e) /\ Noted(e).state \in After
  BY <1>1, NotedState
<1> HIDE DEF After
<1>3. Becomes(e, After)
  <2>1. CASE FinWait1(e)
    <3> DEFINE acked == [Noted(e) EXCEPT !.outAck = First(e).ack, !.state = "FinWait2"]
               closed == [Noted(e) EXCEPT !.outSeq = Plus(@, 2), !.state = "Closing"]
    <3>1. /\ "state" \in DOMAIN acked /\ acked.state \in After
          /\ "state" \in DOMAIN closed /\ closed.state \in After
      BY <1>2 DEF After, GivenUpStates
    <3>2. Took(e, IF Acked(e) THEN Quiet(acked)
                  ELSE Tried(e, Simple(Noted(e), {"ack"}), closed, Noted(e)))
      BY <2>1 DEF FinWait1
    <3> HIDE DEF acked, closed
    <3> QED BY <1>2, <3>1, <3>2, QuietIn, TriedIn, TookBecomes
  <2>2. CASE FinWait2(e)
    <3> DEFINE closed == [Noted(e) EXCEPT !.inSeq = Plus(@, 1), !.state = "TimeWait"]
    <3>1. "state" \in DOMAIN closed /\ closed.state \in After
      BY <1>2 DEF After, GivenUpStates
    <3>2. Took(e, Tried(e, Simple(Noted(e), {"ack"}), closed, Noted(e)))
      BY <2>2 DEF FinWait2
    <3> HIDE DEF closed
    <3> QED BY <1>2, <3>1, <3>2, TriedIn, TookBecomes
  <2>3. CASE Closing(e)
    <3> DEFINE acked == [Noted(e) EXCEPT !.outAck = First(e).ack, !.state = "TimeWait"]
    <3>1. "state" \in DOMAIN acked /\ acked.state \in After
      BY <1>2 DEF After, GivenUpStates
    <3>2. Took(e, Quiet(acked))
      BY <2>3 DEF Closing
    <3> HIDE DEF acked
    <3> QED BY <3>1, <3>2, QuietIn, TookBecomes
  <2>4. CASE LastAck(e)
    <3> DEFINE s == RecordAck(Noted(e), First(e).ack)
               sent == IF s.outLen = 0 THEN Gone ELSE [s EXCEPT !.outAck = First(e).ack]
    <3>1. "state" \in DOMAIN s /\ s.state \in After
      BY <1>2, RecordAckState
    <3>2. Took(e, Tried(e, Simple(s, {"ack"}), sent, s))
      BY <2>4 DEF LastAck
    <3> HIDE DEF s
    <3>3. "state" \in DOMAIN sent /\ sent.state \in After
      BY <3>1 DEF After, Gone, Fresh
    <3> HIDE DEF sent
    <3> QED BY <3>1, <3>2, <3>3, TriedIn, TookBecomes
  <2> QED BY <2>1, <2>2, <2>3, <2>4
<1> QED BY <1>1, <1>3, KeptByOne DEF MayBecome, GivenUpStates, Alive

LEMMA IgnoreStep == ASSUME IInv, NEW e \in Ends, Ignore(e) PROVE IInv'
<1> DEFINE s == IF socket[e].state \in {"none", "Closed"} THEN socket[e] ELSE Noted(e)
<1>1. Took(e, Quiet(s)) /\ UNCHANGED <<waiting, owned>>
  BY DEF Ignore
<1>2. "state" \in DOMAIN s /\ s.state = socket[e].state
  BY NotedState DEF IInv, Shape
<1> HIDE DEF s
<1>3. Becomes(e, {socket[e].state})
  BY <1>1, <1>2, QuietIn, TookBecomes
<1> QED BY <1>1, <1>3, KeptByOne DEF MayBecome

-----------------------------------------------------------------------------
LEMMA NextIInv == IInv /\ [Next]_vars => IInv'
<1> SUFFICES ASSUME IInv, [Next]_vars PROVE IInv'
  OBVIOUS
<1>1. CASE \E c \in Clients : Connect(c)
  BY <1>1, ConnectStep
<1>2. CASE \E c \in Clients : Listen(c)
  BY <1>2, ListenStep
<1>3. CASE Accept
  BY <1>3, AcceptStep
<1>4. ASSUME NEW e \in Ends,
             Send(e) \/ Receive(e) \/ Close(e) \/ Fire(e) \/ Expire(e) \/ Filter(e)
      PROVE  IInv'
  BY <1>4, SendStep, ReceiveStep, CloseStep, FireStep, ExpireStep, SynSentStep,
     SynReceivedStep, EstablishedStep, EndingStep, IgnoreStep DEF Filter
<1>5. ASSUME UNCHANGED <<socket, waiting, owned>> PROVE IInv'
  BY <1>5 DEF IInv, Shape, Backlog, InUse, WaitingIsThere
<1>6. CASE \E e \in Ends : Lose(e)
  BY <1>5, <1>6 DEF Lose
<1>7. CASE UNCHANGED vars
  BY <1>5, <1>7 DEF vars
<1> QED BY <1>1, <1>2, <1>3, <1>4, <1>6, <1>7 DEF Next

\* The socket that TcpSocketAccept is to return is there and has not been
\* closed, for any number of clients and whatever is lost (waitingToAccept).
THEOREM WaitingStaysThere == Spec => []WaitingIsThere
<1>1. IInv => WaitingIsThere
  BY DEF IInv
<1> QED BY <1>1, InitIInv, NextIInv, PTL DEF Spec

-----------------------------------------------------------------------------
(* Types *)

Numbers == 0 .. SeqSpace - 1
Flags == {"syn", "ack", "fin"}
States == Alive \cup GivenUpStates \cup {"none", "Closed", "SynSent", "SynReceived"}

Sockets == [state : States, inSeq : Numbers, inAck : Numbers, inLen : 0 .. QueueSize,
            outSeq : Numbers, outAck : Numbers, outLen : Nat, outStart : Int,
            window : 0 .. QueueSize]
Segments == [flags : SUBSET Flags, seq : Numbers, ack : Numbers, window : 0 .. QueueSize,
             data : Seq(Int)]

TypeOK ==
  /\ socket \in [Ends -> Sockets]
  /\ wire \in [Ends -> Seq(Segments)]
  /\ written \in [Ends -> Nat]
  /\ got \in [Ends -> Seq(Int)]

LEMMA PeerFacts ==
  ASSUME NEW e \in Ends
  PROVE  Peer(e) \in Ends /\ Peer(e) # e
BY DEF Ends, Peer, Client, Server

LEMMA PlusType ==
  ASSUME NEW a \in Int, NEW b \in Int
  PROVE  Plus(a, b) \in Numbers /\ Plus(a, b) \in Nat
<1>1. SeqSpace \in Nat /\ SeqSpace > 0
  BY TcpAssumption
<1> QED BY <1>1 DEF Plus, Numbers

LEMMA MinusType ==
  ASSUME NEW a \in Int, NEW b \in Numbers
  PROVE  Plus(a, -b) \in Numbers /\ Plus(a, -b) \in Nat
<1>1. -b \in Int
  BY DEF Numbers
<1> QED BY <1>1, PlusType

LEMMA PlusNumber ==
  ASSUME NEW a \in Numbers, NEW b \in Int
  PROVE  Plus(a, b) \in Numbers
<1>1. a \in Int
  BY DEF Numbers
<1> QED BY ONLY <1>1, PlusType

LEMMA MinOfTwo ==
  ASSUME NEW a \in Int, NEW b \in Int
  PROVE  MinOf({a, b}) = IF a <= b THEN a ELSE b
<1>1. \A n : (n \in {a, b} /\ \A m \in {a, b} : n <= m) <=> n = IF a <= b THEN a ELSE b
  OBVIOUS
<1> QED BY <1>1 DEF MinOf

LEMMA MinOfThree ==
  ASSUME NEW a \in Int, NEW b \in Int, NEW d \in Int
  PROVE  /\ MinOf({a, b, d}) \in {a, b, d}
         /\ MinOf({a, b, d}) <= a /\ MinOf({a, b, d}) <= b /\ MinOf({a, b, d}) <= d
<1>1. \E n \in {a, b, d} : \A m \in {a, b, d} : n <= m
  <2>1. CASE a <= b /\ a <= d
    BY <2>1
  <2>2. CASE b <= a /\ b <= d
    BY <2>2
  <2>3. CASE d <= a /\ d <= b
    BY <2>3
  <2> QED BY <2>1, <2>2, <2>3
<1> DEFINE n == MinOf({a, b, d})
<1>2. n \in {a, b, d} /\ \A m \in {a, b, d} : n <= m
  BY <1>1 DEF MinOf
<1> HIDE DEF n
<1>3. n \in {a, b, d} /\ n <= a /\ n <= b /\ n <= d
  BY <1>2
<1> QED BY <1>3 DEF n

\* What is sent, and what becomes of the socket, are of their types.
Typed(outcomes) ==
  \A o \in outcomes : o.socket \in Sockets /\ o.sent \in Seq(Segments)

LEMMA PutTyped ==
  ASSUME TypeOK, NEW e \in Ends, NEW outcomes, Typed(outcomes), Put(e, outcomes)
  PROVE  (socket \in [Ends -> Sockets])' /\ (wire \in [Ends -> Seq(Segments)])'
<1>1. PICK o \in outcomes :
         /\ socket' = [socket EXCEPT ![e] = o.socket]
         /\ wire' = [wire EXCEPT ![Peer(e)] = @ \o o.sent]
  BY DEF Put
<1>2. o.socket \in Sockets /\ o.sent \in Seq(Segments)
  BY DEF Typed
<1>3. wire[Peer(e)] \in Seq(Segments)
  BY PeerFacts DEF TypeOK
<1>4. wire[Peer(e)] \o o.sent \in Seq(Segments)
  BY <1>2, <1>3
<1>5. socket' \in [Ends -> Sockets]
  BY <1>1, <1>2 DEF TypeOK
<1>6. wire' \in [Ends -> Seq(Segments)]
  BY <1>1, <1>4 DEF TypeOK
<1> QED BY <1>5, <1>6

LEMMA TookTyped ==
  ASSUME TypeOK, NEW e \in Ends, NEW outcomes, Typed(outcomes), Took(e, outcomes),
         wire[e] # << >>
  PROVE  (socket \in [Ends -> Sockets])' /\ (wire \in [Ends -> Seq(Segments)])'
<1>1. PICK o \in outcomes :
         /\ socket' = [socket EXCEPT ![e] = o.socket]
         /\ wire' = [wire EXCEPT ![e] = Tail(@), ![Peer(e)] = @ \o o.sent]
  BY DEF Took
<1>2. o.socket \in Sockets /\ o.sent \in Seq(Segments)
  BY DEF Typed
<1>3. wire[Peer(e)] \in Seq(Segments) /\ wire[e] \in Seq(Segments) /\ Peer(e) # e
  BY PeerFacts DEF TypeOK
<1>4. wire[Peer(e)] \o o.sent \in Seq(Segments)
  BY <1>2, <1>3
<1>5. Tail(wire[e]) \in Seq(Segments)
  BY <1>3
<1>6. wire' = [[wire EXCEPT ![e] = Tail(wire[e])] EXCEPT ![Peer(e)] = wire[Peer(e)] \o o.sent]
  BY <1>1, <1>3
<1>7. socket' \in [Ends -> Sockets]
  BY <1>1, <1>2 DEF TypeOK
<1>8. wire' \in [Ends -> Seq(Segments)]
  BY <1>4, <1>5, <1>6 DEF TypeOK
<1> QED BY <1>7, <1>8

LEMMA QuietTyped ==
  ASSUME NEW s \in Sockets
  PROVE  Typed(Quiet(s))
<1>1. \A o \in Quiet(s) : o.socket = s /\ o.sent = << >>
  BY DEF Quiet, Outcome
<1>2. << >> \in Seq(Segments)
  OBVIOUS
<1> QED BY <1>1, <1>2 DEF Typed

LEMMA TriedTyped ==
  ASSUME NEW e, NEW m \in Segments, NEW sent \in Sockets, NEW failed \in Sockets
  PROVE  Typed(Tried(e, m, sent, failed))
<1>1. <<m>> \in Seq(Segments) /\ << >> \in Seq(Segments)
  OBVIOUS
<1>2. \A o \in Tried(e, m, sent, failed) :
        \/ o.socket = sent /\ o.sent = <<m>>
        \/ o.socket = failed /\ o.sent = << >>
  BY DEF Tried, Outcome
<1> QED BY <1>1, <1>2 DEF Typed

LEMMA SegmentTyped ==
  ASSUME NEW s \in Sockets, NEW flags \in SUBSET Flags, NEW data \in Seq(Int)
  PROVE  Segment(s, flags, data) \in Segments
<1>1. /\ s.outSeq \in Numbers /\ s.inSeq \in Numbers
      /\ QueueSize - s.inLen \in 0 .. QueueSize
  BY TcpAssumption DEF Sockets
<1> QED BY <1>1 DEF Segment, Segments

LEMMA SimpleTyped ==
  ASSUME NEW s \in Sockets, NEW flags \in SUBSET Flags
  PROVE  Simple(s, flags) \in Segments
<1>1. << >> \in Seq(Int) /\ flags \cup {"fin"} \in SUBSET Flags
  BY DEF Flags
<1> QED BY <1>1, SegmentTyped DEF Simple

\* How many bytes fire puts into a segment.
LEMMA FireDataFacts ==
  ASSUME NEW e, NEW s \in Sockets, NEW total \in Int, NEW round
  PROVE  /\ FireData(e, s, total, round) \in Seq(Int)
         /\ Len(FireData(e, s, total, round)) <= s.outLen
         /\ e \notin round => \A k \in 1 .. Len(FireData(e, s, total, round)) :
                                FireData(e, s, total, round)[k] = total - s.outLen + k
<1> DEFINE n == MinOf({s.outLen, s.window, SegmentLen})
           data == [k \in 1 .. n |-> IF e \in round THEN 0 ELSE total - s.outLen + k]
<1>1. s.outLen \in Nat /\ s.window \in Nat /\ SegmentLen \in Nat
  BY TcpAssumption DEF Sockets
<1>2. n \in Nat /\ n <= s.outLen
  <2> DEFINE a == s.outLen  b == s.window
  <2>1. a \in Nat /\ b \in Nat /\ SegmentLen \in Nat
    BY <1>1
  <2> HIDE DEF a, b
  <2>0. a \in Int /\ b \in Int /\ SegmentLen \in Int
    BY <2>1
  <2>2. /\ MinOf({a, b, SegmentLen}) \in {a, b, SegmentLen}
        /\ MinOf({a, b, SegmentLen}) <= a
    BY ONLY <2>0, MinOfThree, Zenon
  <2>3. MinOf({a, b, SegmentLen}) \in Nat
    BY <2>1, <2>2
  <2> QED BY <2>2, <2>3 DEF a, b
<1> HIDE DEF n
<1>3. PICK l \in Nat : l = s.outLen
  BY <1>1
<1>4. \A k \in 1 .. n : total - s.outLen + k \in Int
  BY <1>2, <1>3
<1>5. data \in Seq(Int) /\ Len(data) = n
  BY <1>2, <1>4
<1>6. FireData(e, s, total, round) = data
  BY DEF FireData, FireLength, n
<1>7. e \notin round => \A k \in 1 .. n : data[k] = total - s.outLen + k
  OBVIOUS
<1> HIDE DEF data
<1> QED BY <1>2, <1>5, <1>6, <1>7

LEMMA FiredTyped ==
  ASSUME NEW e, NEW s \in Sockets, NEW total \in Int, NEW round
  PROVE  Typed(Fired(e, s, total, round))
<1> DEFINE noted == Acknowledged(s)
           flags == IF s.state \in {"FinWait1", "FinWait2"} THEN {"ack", "fin"} ELSE {"ack"}
           segment == Segment(s, flags, FireData(e, s, total, round))
<1>1. noted \in Sockets
  <2>1. ByteQueueRead(s.outStart, FireLength(s)) \in Int /\ s.inSeq \in Numbers
    BY TcpAssumption DEF ByteQueueRead, Sockets
  <2> QED BY <2>1 DEF Acknowledged, Sockets
<1>2. segment \in Segments
  BY FireDataFacts, SegmentTyped DEF Flags
<1>3. Fired(e, s, total, round) = IF s.outLen = 0 /\ s.inSeq = s.inAck
                           THEN Quiet(s)
                           ELSE Tried(e, segment, noted, noted) \cup Tried(e, segment, noted, s)
  BY DEF Fired, Acknowledged
<1> HIDE DEF noted, segment
<1>4. /\ Typed(Quiet(s)) /\ Typed(Tried(e, segment, noted, noted))
      /\ Typed(Tried(e, segment, noted, s))
  BY <1>1, <1>2, QuietTyped, TriedTyped
<1> QED BY <1>3, <1>4 DEF Typed

LEMMA FreshTyped == Fresh \in Sockets /\ Gone \in Sockets
<1>1. 0 \in Numbers /\ 0 \in 0 .. QueueSize
  BY TcpAssumption DEF Numbers
<1> QED BY <1>1 DEF Sockets, Fresh, Gone, States

LEMMA InitialTyped ==
  ASSUME NEW s \in Sockets
  PROVE  Initial(s) \in Sockets
<1>1. FixedISN \in Numbers /\ FixedISN - 1 \in Numbers
  BY TcpAssumption DEF Numbers
<1> QED BY <1>1 DEF Sockets, Initial

LEMMA FirstTyped ==
  ASSUME TypeOK, NEW e \in Ends, wire[e] # << >>
  PROVE  /\ First(e) \in Segments /\ First(e).flags \in SUBSET Flags
         /\ First(e).seq \in Numbers /\ First(e).ack \in Numbers
         /\ First(e).window \in 0 .. QueueSize /\ First(e).data \in Seq(Int)
         /\ Noted(e) \in Sockets /\ Noted(e).state = socket[e].state
<1>1. wire[e] \in Seq(Segments) /\ socket[e] \in Sockets
  BY DEF TypeOK
<1>2. First(e) \in Segments
  BY <1>1 DEF First
<1>3. First(e).window \in 0 .. QueueSize
  BY <1>2 DEF Segments
<1>4. Noted(e) \in Sockets /\ Noted(e).state = socket[e].state
  BY <1>1, <1>3 DEF Noted, Sockets
<1> QED BY <1>2, <1>3, <1>4 DEF Segments

LEMMA RecordAckTyped ==
  ASSUME NEW s \in Sockets, NEW ack \in Numbers
  PROVE  RecordAck(s, ack) \in Sockets
<1> DEFINE delta == Plus(ack, -s.outAck)
           dropped == ByteQueueDrop(s, delta)
<1>1. s.outAck \in Int /\ ack \in Int /\ s.outLen \in Nat /\ s.outStart \in Int
  BY TcpAssumption DEF Sockets, Numbers
<1>2. delta \in Nat
  <2>1. s.outAck \in Numbers
    BY DEF Sockets
  <2> QED BY <1>1, <2>1, MinusType
<1> HIDE DEF delta
<1>3. /\ (IF delta >= s.outLen THEN 0 ELSE s.outLen - delta) \in Nat
      /\ (IF delta >= s.outLen THEN 0 ELSE (s.outStart + delta) % QueueSize) \in Int
  BY <1>1, <1>2, TcpAssumption
<1>4. dropped \in Sockets
  BY <1>3 DEF ByteQueueDrop, Sockets
<1>5. RecordAck(s, ack) = IF delta >= SeqSpace \div 2 THEN s
                          ELSE [dropped EXCEPT !.outSeq = ack, !.outAck = ack]
  BY DEF RecordAck, delta
<1> HIDE DEF dropped
<1> QED BY <1>4, <1>5 DEF Sockets

\* There is room for what is taken of a segment.
LEMMA NewBytesTyped ==
  ASSUME NEW s \in Sockets, NEW m \in Segments
  PROVE  /\ NewBytes(s, m) \in Seq(Int)
         /\ s.inLen + Len(NewBytes(s, m)) \in 0 .. QueueSize
<1> DEFINE n == Len(m.data)
           actual == Plus(m.seq + n, -s.inSeq)
           room == QueueSize - s.inLen
           k0 == n - actual
           taken == [k \in 1 .. Enqueued(s, actual) |->
                       IF n - actual + k > 0 THEN m.data[n - actual + k] ELSE 0]
<1>1. /\ m.data \in Seq(Int) /\ m.seq \in Int /\ s.inSeq \in Int
      /\ s.inLen \in 0 .. QueueSize /\ QueueSize \in Nat
  BY TcpAssumption DEF Sockets, Segments, Numbers
<1>2. n \in Nat /\ room \in Nat
  BY <1>1
<1>3. actual \in Nat
  <2>1. m.seq + n \in Int
    <3> DEFINE q == m.seq
    <3>1. q \in Int
      BY <1>1
    <3> HIDE DEF q, n
    <3>2. q + n \in Int
      BY <1>2, <3>1
    <3> QED BY <3>2 DEF q
  <2>2. s.inSeq \in Numbers
    BY DEF Sockets
  <2> QED BY <2>1, <2>2, MinusType
<1> HIDE DEF actual, room
<1> DEFINE size == Enqueued(s, actual)
<1>4. size \in Nat /\ size <= actual /\ size <= room
  <2>1. size = MinOf({actual, room})
    BY DEF Enqueued, room
  <2> HIDE DEF size
  <2> QED BY <2>1, <1>2, <1>3, MinOfTwo
<1> HIDE DEF size
<1>5. ASSUME NEW k \in 1 .. size, n - actual + k > 0
      PROVE  m.data[n - actual + k] \in Int
  <2>1. n - actual + k \in 1 .. n
    BY <1>2, <1>3, <1>4, <1>5
  <2> HIDE DEF n
  <2> QED BY <2>1, <1>1 DEF n
<1>6. taken = [k \in 1 .. size |-> IF n - actual + k > 0 THEN m.data[n - actual + k] ELSE 0]
  BY DEF size
<1>7. taken \in Seq(Int) /\ Len(taken) = size
  <2> DEFINE f(k) == IF n - actual + k > 0 THEN m.data[n - actual + k] ELSE 0
  <2>1. \A k \in 1 .. size : f(k) \in Int
    BY <1>5
  <2>2. taken = [k \in 1 .. size |-> f(k)]
    BY <1>6
  <2> HIDE DEF f, taken
  <2> QED BY <1>4, <2>1, <2>2
<1>8. NewBytes(s, m) = << >> \/ NewBytes(s, m) = taken
  BY DEF NewBytes, actual
<1> HIDE DEF taken
<1>9. << >> \in Seq(Int) /\ Len(<< >>) = 0
  OBVIOUS
<1>10. \A l \in Nat : l <= room => s.inLen + l \in 0 .. QueueSize
  BY <1>1 DEF room
<1>11. NewBytes(s, m) \in Seq(Int) /\ Len(NewBytes(s, m)) \in Nat /\ Len(NewBytes(s, m)) <= room
  <2>1. 0 \in Nat /\ 0 <= room
    BY <1>2
  <2>2. CASE NewBytes(s, m) = << >>
    BY ONLY <2>1, <2>2, <1>9, Zenon
  <2>3. CASE NewBytes(s, m) = taken
    BY ONLY <2>3, <1>4, <1>7, Zenon
  <2> QED BY <2>2, <2>3, <1>8
<1> QED BY <1>10, <1>11

LEMMA InitTyped == Init => TypeOK
<1> SUFFICES ASSUME Init PROVE TypeOK
  OBVIOUS
<1>1. socket \in [Ends -> Sockets]
  BY FreshTyped DEF Init
<1>2. << >> \in Seq(Segments) /\ << >> \in Seq(Int)
  OBVIOUS
<1> QED BY <1>1, <1>2 DEF Init, TypeOK

LEMMA ConnectTyped == ASSUME TypeOK, NEW c \in Clients, Connect(c) PROVE TypeOK'
<1> DEFINE e == Client(c)
           s == Initial(socket[e])
           sent == [s EXCEPT !.outSeq = Plus(@, 1), !.state = "SynSent"]
<1>1. e \in Ends /\ socket[e] \in Sockets
  BY EndFacts DEF TypeOK
<1>2. s \in Sockets
  BY <1>1, InitialTyped
<1>3. Put(e, Tried(e, Simple(s, {"syn"}), sent, s)) /\ UNCHANGED <<written, lapped, got>>
  BY DEF Connect
<1> HIDE DEF e, s
<1>4. sent \in Sockets
  <2>1. Plus(s.outSeq, 1) \in Numbers
    BY <1>2, PlusType DEF Sockets, Numbers
  <2> QED BY <1>2, <2>1 DEF Sockets, States
<1> HIDE DEF sent
<1>5. Simple(s, {"syn"}) \in Segments
  BY <1>2, SimpleTyped DEF Flags
<1>6. Typed(Tried(e, Simple(s, {"syn"}), sent, s))
  BY <1>2, <1>4, <1>5, TriedTyped
<1> QED BY <1>1, <1>3, <1>6, PutTyped DEF TypeOK

LEMMA SendTyped == ASSUME TypeOK, NEW e \in Ends, Send(e) PROVE TypeOK'
<1>0. PICK n \in 1 .. Bytes(e) - written[e] :
        LET s == [socket[e] EXCEPT !.outLen = @ + n]
        IN  /\ written' = [written EXCEPT ![e] = @ + n]
            /\ Put(e, IF s.outLen >= FireLen THEN Fired(e, s, written[e] + n, Lapped(e, n))
                                             ELSE Quiet(s))
  BY DEF Send
<1> DEFINE s == [socket[e] EXCEPT !.outLen = @ + n]
           outcomes == IF s.outLen >= FireLen THEN Fired(e, s, written[e] + n, Lapped(e, n))
                                              ELSE Quiet(s)
<1>1. socket[e] \in Sockets /\ written[e] \in Nat /\ n \in Nat
  BY DEF TypeOK
<1>2. s \in Sockets
  BY <1>1 DEF Sockets
<1>3. Put(e, outcomes) /\ written' = [written EXCEPT ![e] = @ + n] /\ UNCHANGED got
  BY <1>0 DEF Send
<1> HIDE DEF s
<1>4. Typed(outcomes)
  <2>1. written[e] + n \in Int
    BY <1>1
  <2> QED BY <1>2, <2>1, FiredTyped, QuietTyped
<1> HIDE DEF outcomes
<1>5. (written \in [Ends -> Nat])'
  BY <1>1, <1>3 DEF TypeOK
<1> QED BY <1>3, <1>4, <1>5, PutTyped DEF TypeOK

LEMMA ReceiveTyped == ASSUME TypeOK, NEW e \in Ends, Receive(e) PROVE TypeOK'
<1>1. socket[e] \in Sockets /\ 0 \in 0 .. QueueSize
  BY TcpAssumption DEF TypeOK
<1>2. ByteQueueDequeue(socket[e]) \in Sockets
  BY <1>1 DEF ByteQueueDequeue, Sockets
<1>3. socket' \in [Ends -> Sockets]
  BY <1>2 DEF Receive, TypeOK
<1> QED BY <1>3 DEF Receive, TypeOK

LEMMA GivenUpTyped ==
  ASSUME TypeOK, NEW e \in Ends, NEW s \in Sockets
  PROVE  Typed(GivenUp(e, s))
<1> DEFINE given == [s EXCEPT !.state = "FinWait1"]
<1>1. given \in Sockets
  BY DEF Sockets, States, GivenUpStates
<1>2. GivenUp(e, s) = Fired(e, given, written[e], lapped) /\ written[e] \in Int
  BY DEF GivenUp, TypeOK
<1> HIDE DEF given
<1> QED BY <1>1, <1>2, FiredTyped

LEMMA CloseTyped == ASSUME TypeOK, NEW e \in Ends, Close(e) PROVE TypeOK'
<1>1. socket[e] \in Sockets /\ written[e] \in Int
  BY DEF TypeOK
<1>2. UNCHANGED <<written, lapped, got>>
  BY DEF Close
<1>3. CASE CloseActive(e)
  BY <1>1, <1>2, <1>3, GivenUpTyped, PutTyped DEF CloseActive, TypeOK
<1>4. CASE ClosePassive(e)
  <2> DEFINE fired == Fired(e, socket[e], written[e], lapped)
             closed == {[o EXCEPT !.socket.state = "LastAck"] : o \in fired}
  <2>1. \A o \in fired : DOMAIN o = {"socket", "sent", "failed"}
    BY DEF Fired, Tried, Quiet, Outcome
  <2>2. Typed(fired)
    BY <1>1, FiredTyped
  <2> HIDE DEF fired
  <2>3. ASSUME NEW o \in fired
        PROVE  LET p == [o EXCEPT !.socket.state = "LastAck"]
               IN  p.socket \in Sockets /\ p.sent \in Seq(Segments)
    <3>1. o.socket \in Sockets /\ o.sent \in Seq(Segments)
      BY <2>2 DEF Typed
    <3>2. [o.socket EXCEPT !.state = "LastAck"] \in Sockets
      BY <3>1 DEF Sockets, States, GivenUpStates
    <3> QED BY <2>1, <3>1, <3>2
  <2>4. Typed(closed)
    BY <2>3 DEF Typed
  <2>5. Put(e, closed)
    BY <1>4 DEF ClosePassive, fired
  <2> HIDE DEF closed
  <2> QED BY <1>2, <2>4, <2>5, PutTyped DEF TypeOK
<1>5. CASE CloseClosed(e)
  BY <1>2, <1>5, FreshTyped, QuietTyped, PutTyped DEF CloseClosed, TypeOK
<1> QED BY <1>3, <1>4, <1>5 DEF Close

LEMMA FireTyped == ASSUME TypeOK, NEW e \in Ends, Fire(e) PROVE TypeOK'
<1>1. socket[e] \in Sockets /\ written[e] \in Int
  BY DEF TypeOK
<1>2. Typed(Fired(e, socket[e], written[e], lapped))
  BY <1>1, FiredTyped
<1> QED BY <1>2, PutTyped DEF Fire, TypeOK

LEMMA ExpireTyped == ASSUME TypeOK, NEW e \in Ends, Expire(e) PROVE TypeOK'
BY FreshTyped, QuietTyped, PutTyped DEF Expire, TypeOK

LEMMA ListenTyped == ASSUME TypeOK, NEW c \in Clients, Listen(c) PROVE TypeOK'
<1> DEFINE e == Server(c)
           s == [Initial(Fresh) EXCEPT !.state = "SynReceived",
                   !.inSeq = Plus(First(e).seq, 1), !.inAck = First(e).seq]
           m == Simple(s, {"syn", "ack"})
           one == {Outcome(s, <<m>>, FALSE)}
           none == {[o EXCEPT !.failed = TRUE] : o \in GivenUp(e, s)}
<1>1. e \in Ends /\ wire[e] # << >> /\ UNCHANGED <<written, lapped, got>>
  BY EndFacts DEF Listen, Welcome, In
<1>2. Took(e, one) \/ Took(e, none)
  BY DEF Listen
<1>3. s \in Sockets
  <2>1. First(e).seq \in Numbers
    BY <1>1, FirstTyped
  <2>2. Plus(First(e).seq, 1) \in Numbers
    BY <2>1, PlusNumber
  <2>3. Initial(Fresh) \in Sockets
    BY FreshTyped, InitialTyped
  <2> QED BY <2>1, <2>2, <2>3 DEF Sockets, States
<1> HIDE DEF e, s
<1>4. m \in Segments
  BY <1>3, SimpleTyped DEF Flags
<1> HIDE DEF m
<1>5. Typed(one)
  <2>1. <<m>> \in Seq(Segments)
    BY <1>4
  <2>2. \A o \in one : o.socket = s /\ o.sent = <<m>>
    BY DEF Outcome
  <2> HIDE DEF one
  <2> QED BY <1>3, <2>1, <2>2 DEF Typed
<1>6. Typed(none)
  <2> DEFINE given == GivenUp(e, s)
  <2>1. \A o \in given : DOMAIN o = {"socket", "sent", "failed"}
    BY DEF GivenUp, Fired, Tried, Quiet, Outcome
  <2>2. Typed(given)
    BY <1>1, <1>3, GivenUpTyped
  <2> HIDE DEF given
  <2>3. \A o \in given : LET p == [o EXCEPT !.failed = TRUE]
                         IN  p.socket = o.socket /\ p.sent = o.sent
    BY <2>1
  <2>4. none = {[o EXCEPT !.failed = TRUE] : o \in given}
    BY DEF given
  <2> QED BY <2>2, <2>3, <2>4 DEF Typed
<1> HIDE DEF one, none
<1> QED BY <1>1, <1>2, <1>5, <1>6, TookTyped DEF TypeOK

LEMMA SynSentTyped == ASSUME TypeOK, NEW e \in Ends, SynSent(e) PROVE TypeOK'
<1> DEFINE s == [Noted(e) EXCEPT !.inSeq = First(e).seq, !.inAck = Plus(First(e).seq, -1)]
           sent == [s EXCEPT !.state = "Established"]
           m == Simple(s, {"syn", "ack"})
<1>1. wire[e] # << >> /\ Took(e, Tried(e, m, sent, s)) /\ UNCHANGED <<written, lapped, got>>
  BY DEF SynSent, In
<1>2. s \in Sockets
  <2>1. Noted(e) \in Sockets /\ First(e).seq \in Numbers /\ -1 \in Int
    BY <1>1, FirstTyped
  <2>2. Plus(First(e).seq, -1) \in Numbers
    BY <2>1, PlusNumber
  <2> QED BY <2>1, <2>2 DEF Sockets
<1> HIDE DEF s
<1>3. sent \in Sockets
  BY <1>2 DEF Sockets, States, Alive
<1>4. m \in Segments
  BY <1>2, SimpleTyped DEF Flags
<1> HIDE DEF sent, m
<1>5. Typed(Tried(e, m, sent, s))
  BY <1>2, <1>3, <1>4, TriedTyped
<1> QED BY <1>1, <1>5, TookTyped DEF TypeOK

LEMMA SynReceivedTyped == ASSUME TypeOK, NEW e \in Ends, SynReceived(e) PROVE TypeOK'
<1> DEFINE s == [Noted(e) EXCEPT !.outAck = First(e).ack, !.state = "Established"]
<1>1. wire[e] # << >> /\ Took(e, Quiet(s)) /\ UNCHANGED <<written, lapped, got>>
  BY DEF SynReceived, In
<1>2. s \in Sockets
  BY <1>1, FirstTyped DEF Sockets, States, Alive
<1> HIDE DEF s
<1> QED BY <1>1, <1>2, QuietTyped, TookTyped DEF TypeOK

LEMMA EstablishedTyped == ASSUME TypeOK, NEW e \in Ends, Established(e) PROVE TypeOK'
<1> DEFINE acked == IF Has(e, "ack") THEN RecordAck(Noted(e), First(e).ack) ELSE Noted(e)
           new == NewBytes(acked, First(e))
           s == [acked EXCEPT !.inLen = @ + Len(new), !.inSeq = Plus(@, Len(new))]
           closed == [s EXCEPT !.state = "CloseWait"]
           m == Simple(s, {"ack"})
<1>1. /\ wire[e] # << >>
      /\ got' = [got EXCEPT ![e] = @ \o new]
      /\ Took(e, IF Has(e, "fin") THEN Tried(e, m, closed, s) ELSE Quiet(s))
      /\ written' = written
  BY DEF Established
<1>2. acked \in Sockets
  BY <1>1, FirstTyped, RecordAckTyped
<1> HIDE DEF acked
<1>3. new \in Seq(Int) /\ acked.inLen + Len(new) \in 0 .. QueueSize
  BY <1>1, <1>2, FirstTyped, NewBytesTyped
<1> HIDE DEF new
<1>4. s \in Sockets
  <2>1. Len(new) \in Int /\ acked.inSeq \in Numbers
    BY <1>2, <1>3 DEF Sockets
  <2>2. Plus(acked.inSeq, Len(new)) \in Numbers
    BY <2>1, PlusNumber
  <2> QED BY <1>2, <1>3, <2>2 DEF Sockets
<1> HIDE DEF s
<1>5. closed \in Sockets
  BY <1>4 DEF Sockets, States, Alive
<1>6. m \in Segments
  BY <1>4, SimpleTyped DEF Flags
<1> HIDE DEF closed, m
<1>7. Typed(IF Has(e, "fin") THEN Tried(e, m, closed, s) ELSE Quiet(s))
  BY <1>4, <1>5, <1>6, TriedTyped, QuietTyped
<1>8. (got \in [Ends -> Seq(Int)])'
  <2>1. got[e] \o new \in Seq(Int)
    BY <1>3 DEF TypeOK
  <2> QED BY <1>1, <2>1 DEF TypeOK
<1> QED BY <1>1, <1>7, <1>8, TookTyped DEF TypeOK

LEMMA EndingTyped ==
  ASSUME TypeOK, NEW e \in Ends, FinWait1(e) \/ FinWait2(e) \/ Closing(e) \/ LastAck(e)
  PROVE  TypeOK'
<1>1. wire[e] # << >> /\ UNCHANGED <<written, lapped, got>>
  BY DEF FinWait1, FinWait2, Closing, LastAck, In
<1> DEFINE s == Noted(e)
           m == Simple(s, {"ack"})
<1>2. /\ s \in Sockets /\ First(e).ack \in Numbers
      /\ s.inSeq \in Numbers /\ s.outSeq \in Numbers
  BY <1>1, FirstTyped DEF Sockets
<1>3. m \in Segments
  BY <1>2, SimpleTyped DEF Flags
<1> HIDE DEF s, m
<1>4. ASSUME NEW outcomes, Took(e, outcomes), Typed(outcomes) PROVE TypeOK'
  BY <1>1, <1>4, TookTyped DEF TypeOK
<1>5. Plus(s.outSeq, 2) \in Numbers /\ Plus(s.inSeq, 1) \in Numbers
  BY <1>2, PlusNumber
<1>6. CASE FinWait1(e)
  <2> DEFINE acked == [s EXCEPT !.outAck = First(e).ack, !.state = "FinWait2"]
             closed == [s EXCEPT !.outSeq = Plus(@, 2), !.state = "Closing"]
  <2>1. acked \in Sockets /\ closed \in Sockets
    BY <1>2, <1>5 DEF Sockets, States, GivenUpStates
  <2>2. Took(e, IF Acked(e) THEN Quiet(acked) ELSE Tried(e, m, closed, s))
    BY <1>6 DEF FinWait1, s, m
  <2> HIDE DEF acked, closed
  <2> QED BY <1>2, <1>3, <1>4, <2>1, <2>2, QuietTyped, TriedTyped
<1>7. CASE FinWait2(e)
  <2> DEFINE closed == [s EXCEPT !.inSeq = Plus(@, 1), !.state = "TimeWait"]
  <2>1. closed \in Sockets
    BY <1>2, <1>5 DEF Sockets, States, GivenUpStates
  <2>2. Took(e, Tried(e, m, closed, s))
    BY <1>7 DEF FinWait2, s, m
  <2> HIDE DEF closed
  <2> QED BY <1>2, <1>3, <1>4, <2>1, <2>2, TriedTyped
<1>8. CASE Closing(e)
  <2> DEFINE acked == [s EXCEPT !.outAck = First(e).ack, !.state = "TimeWait"]
  <2>1. acked \in Sockets
    BY <1>2 DEF Sockets, States, GivenUpStates
  <2>2. Took(e, Quiet(acked))
    BY <1>8 DEF Closing, s
  <2> HIDE DEF acked
  <2> QED BY <1>4, <2>1, <2>2, QuietTyped
<1>9. CASE LastAck(e)
  <2> DEFINE r == RecordAck(s, First(e).ack)
             last == IF r.outLen = 0 THEN Gone ELSE [r EXCEPT !.outAck = First(e).ack]
             n == Simple(r, {"ack"})
  <2>1. r \in Sockets
    BY <1>2, RecordAckTyped
  <2>2. Took(e, Tried(e, n, last, r))
    BY <1>9 DEF LastAck, s
  <2> HIDE DEF r
  <2>3. last \in Sockets
    BY <1>2, <2>1, FreshTyped DEF Sockets
  <2>4. n \in Segments
    BY <2>1, SimpleTyped DEF Flags
  <2> HIDE DEF last, n
  <2> QED BY <1>4, <2>1, <2>2, <2>3, <2>4, TriedTyped
<1> QED BY <1>6, <1>7, <1>8, <1>9

LEMMA IgnoreTyped == ASSUME TypeOK, NEW e \in Ends, Ignore(e) PROVE TypeOK'
<1> DEFINE s == IF socket[e].state \in {"none", "Closed"} THEN socket[e] ELSE Noted(e)
<1>1. wire[e] # << >> /\ Took(e, Quiet(s)) /\ UNCHANGED <<written, lapped, got>>
  BY DEF Ignore
<1>2. s \in Sockets
  BY <1>1, FirstTyped DEF TypeOK
<1> HIDE DEF s
<1> QED BY <1>1, <1>2, QuietTyped, TookTyped DEF TypeOK

LEMMA LoseTyped == ASSUME TypeOK, NEW e \in Ends, Lose(e) PROVE TypeOK'
<1>1. Tail(wire[e]) \in Seq(Segments)
  BY DEF Lose, TypeOK
<1> QED BY <1>1 DEF Lose, TypeOK

LEMMA NextTyped == TypeOK /\ [Next]_vars => TypeOK'
<1> SUFFICES ASSUME TypeOK, [Next]_vars PROVE TypeOK'
  OBVIOUS
<1>1. CASE \E c \in Clients : Connect(c)
  BY <1>1, ConnectTyped
<1>2. CASE \E c \in Clients : Listen(c)
  BY <1>2, ListenTyped
<1>3. CASE Accept
  BY <1>3 DEF Accept, TypeOK
<1>4. ASSUME NEW e \in Ends,
             Send(e) \/ Receive(e) \/ Close(e) \/ Fire(e) \/ Expire(e)
      PROVE  TypeOK'
  BY <1>4, SendTyped, ReceiveTyped, CloseTyped, FireTyped, ExpireTyped
<1>5. ASSUME NEW e \in Ends, Filter(e) \/ Lose(e) PROVE TypeOK'
  BY <1>5, SynSentTyped, SynReceivedTyped, EstablishedTyped, EndingTyped, IgnoreTyped,
     LoseTyped DEF Filter
<1>6. CASE UNCHANGED vars
  BY <1>6 DEF vars, TypeOK
<1> QED BY <1>1, <1>2, <1>3, <1>4, <1>5, <1>6 DEF Next

-----------------------------------------------------------------------------
(* Sequence numbers, counted from the initial one *)

\* The number of the byte after the first n, and how many came before a number.
At(n) == Plus(FixedISN, n)
Index(n) == Plus(n, -FixedISN)

LEMMA Remainder ==
  ASSUME NEW x \in Int, NEW r \in Numbers,
         x \in {r, r + SeqSpace, r + 2 * SeqSpace, r - SeqSpace, r - 2 * SeqSpace}
  PROVE  x % SeqSpace = r
<1>1. SeqSpace \in Nat /\ SeqSpace > 0
  BY TcpAssumption
<1> QED BY <1>1, Z3 DEF Numbers

LEMMA PlusIs ==
  ASSUME NEW a \in Int, NEW b \in Int, NEW r \in Numbers,
         a + b \in {r, r + SeqSpace, r + 2 * SeqSpace, r - SeqSpace, r - 2 * SeqSpace}
  PROVE  Plus(a, b) = r
<1>1. a + b \in Int
  OBVIOUS
<1> QED BY <1>1, Remainder DEF Plus

LEMMA IndexAt ==
  ASSUME NEW i \in Numbers
  PROVE  At(i) \in Numbers /\ Index(At(i)) = i
<1>1. FixedISN \in Numbers /\ SeqSpace \in Nat /\ SeqSpace > 0
  BY TcpAssumption DEF Numbers
<1>2. CASE FixedISN + i < SeqSpace
  <2>1. At(i) = FixedISN + i
    BY <1>1, <1>2, PlusIs DEF At, Numbers
  <2> QED BY <1>1, <1>2, <2>1, PlusIs DEF Index, Numbers
<1>3. CASE FixedISN + i >= SeqSpace
  <2>1. At(i) = FixedISN + i - SeqSpace
    BY <1>1, <1>3, PlusIs DEF At, Numbers
  <2> QED BY <1>1, <1>3, <2>1, PlusIs DEF Index, Numbers
<1> QED BY <1>1, <1>2, <1>3 DEF Numbers

LEMMA AtValue ==
  ASSUME NEW i \in Numbers
  PROVE  At(i) \in Numbers /\ At(i) \in {FixedISN + i, FixedISN + i - SeqSpace}
<1>1. FixedISN \in Numbers /\ SeqSpace \in Nat /\ SeqSpace > 0
  BY TcpAssumption DEF Numbers
<1>2. CASE FixedISN + i < SeqSpace
  BY <1>1, <1>2, PlusIs DEF At, Numbers
<1>3. CASE FixedISN + i >= SeqSpace
  BY <1>1, <1>3, PlusIs DEF At, Numbers
<1> QED BY <1>1, <1>2, <1>3 DEF Numbers

LEMMA AtIndex ==
  ASSUME NEW n \in Numbers
  PROVE  Index(n) \in Numbers /\ At(Index(n)) = n
<1>1. FixedISN \in Numbers /\ SeqSpace \in Nat /\ SeqSpace > 0
  BY TcpAssumption DEF Numbers
<1>2. CASE n >= FixedISN
  <2>1. Index(n) = n - FixedISN
    BY <1>1, <1>2, PlusIs DEF Index, Numbers
  <2> QED BY <1>1, <1>2, <2>1, PlusIs DEF At, Numbers
<1>3. CASE n < FixedISN
  <2>1. Index(n) = n - FixedISN + SeqSpace
    BY <1>1, <1>3, PlusIs DEF Index, Numbers
  <2> QED BY <1>1, <1>3, <2>1, PlusIs DEF At, Numbers
<1> QED BY <1>1, <1>2, <1>3 DEF Numbers

\* How far the number of byte i and n more is from that of byte j.
LEMMA Distance ==
  ASSUME NEW i \in Numbers, NEW j \in Numbers, NEW n \in Nat, i + n \in Numbers
  PROVE  Plus(At(i) + n, -At(j)) = IF i + n >= j THEN i + n - j ELSE i + n - j + SeqSpace
<1>1. SeqSpace \in Nat /\ SeqSpace > 0 /\ FixedISN \in Nat
  BY TcpAssumption
<1> DEFINE a == At(i)  b == At(j)
<1>2. /\ a \in Numbers /\ a \in {FixedISN + i, FixedISN + i - SeqSpace}
      /\ b \in Numbers /\ b \in {FixedISN + j, FixedISN + j - SeqSpace}
  BY AtValue
<1> HIDE DEF a, b
<1> DEFINE d == IF i + n >= j THEN i + n - j ELSE i + n - j + SeqSpace
<1>3. d \in Numbers
  BY <1>1 DEF Numbers
<1>4. a + n \in Int /\ -b \in Int
  BY <1>2 DEF Numbers
<1>5. (a + n) + (-b) \in {d, d + SeqSpace, d + 2 * SeqSpace, d - SeqSpace, d - 2 * SeqSpace}
  BY <1>1, <1>2 DEF Numbers
<1> HIDE DEF d
<1>6. Plus(a + n, -b) = d
  BY <1>3, <1>4, <1>5, PlusIs
<1> QED BY <1>6 DEF a, b, d

LEMMA AtPlus ==
  ASSUME NEW i \in Numbers, NEW n \in Nat, i + n \in Numbers
  PROVE  Plus(At(i), n) = At(i + n)
<1>1. SeqSpace \in Nat /\ SeqSpace > 0 /\ FixedISN \in Nat
  BY TcpAssumption
<1> DEFINE a == At(i)  b == At(i + n)
<1>2. /\ a \in Numbers /\ a \in {FixedISN + i, FixedISN + i - SeqSpace}
      /\ b \in Numbers /\ b \in {FixedISN + (i + n), FixedISN + (i + n) - SeqSpace}
  BY AtValue
<1> HIDE DEF a, b
<1>3. a \in Int /\ n \in Int
  BY <1>2 DEF Numbers
<1>4. a + n \in {b, b + SeqSpace, b + 2 * SeqSpace, b - SeqSpace, b - 2 * SeqSpace}
  BY <1>1, <1>2 DEF Numbers
<1>5. Plus(a, n) = b
  BY <1>2, <1>3, <1>4, PlusIs
<1> QED BY <1>5 DEF a, b

-----------------------------------------------------------------------------
(* A connection *)

Syn(m) == "syn" \in m.flags
Ack(m) == "ack" \in m.flags
Fin(m) == "fin" \in m.flags

\* A SYN is sent once in each direction, before anything else.
Handshake(s, t, up, down) ==
  /\ \A i \in DOMAIN up : Syn(up[i]) =>
       /\ i = 1
       /\ IF Ack(up[i]) THEN s.state = "SynReceived" ELSE s.state = "none" /\ down = << >>
  /\ \A i \in DOMAIN down : Syn(down[i]) =>
       /\ i = 1 /\ s.state = "SynReceived" /\ down[i].seq = FixedISN
       /\ t.state = "SynSent" => up = << >>
  /\ t.state = "Closed" => s.state = "none" /\ up = << >> /\ down = << >>
  /\ t.state # "SynReceived" /\ s.state \notin {"Closed", "SynSent"}

\* Nothing has been written on the socket, and nothing received from it.
Unused(s, down, w, g) ==
  /\ s.state \in {"none", "SynReceived", "FinWait1", "FinWait2", "Closing", "TimeWait"}
  /\ w = 0 /\ s.outLen = 0 /\ g = << >>
  /\ s.state = "SynReceived" => s.outSeq = FixedISN
  /\ \A i \in DOMAIN down : down[i].data = << >>

\* Until the client has seen a SYN, it knows no sequence number.
Unsynced(s, t, up, down, w, g) ==
  /\ Unused(s, down, w, g)
  /\ t.state \notin Alive \cup {"LastAck"}
  /\ t.state \notin {"none", "TimeWait"} => t.inSeq = 0
  /\ t.state \in {"Closed", "SynSent"} => t.inAck = 0 /\ t.outLen = 0 /\ Len(up) <= 1
  /\ \A i \in DOMAIN up : Ack(up[i]) => up[i].ack = 0

\* A segment leaves no gap, and what it holds has been written, unless it has
\* been read from a queue that has gone round.  (z is empty as long as it has not.)
Sound(m, w, r, z) ==
  m.data # << >> =>
    /\ Index(m.seq) <= r
    /\ Index(m.seq) + Len(m.data) <= w
    /\ z = {} => \A k \in 1 .. Len(m.data) : m.data[k] = Index(m.seq) + k

\* No more is acknowledged than was received, and never less than before.
Rising(up, r) ==
  /\ \A i \in DOMAIN up : Ack(up[i]) => Index(up[i].ack) <= r
  /\ \A i, j \in DOMAIN up :
       i <= j /\ Ack(up[i]) /\ Ack(up[j]) => Index(up[i].ack) <= Index(up[j].ack)

\* The first byte of the queue follows those that have been acknowledged, and
\* acknowledgements on their way are not older than that.
Sending(s, up, a, r) ==
  /\ s.state # "none" => a \in 0 .. r
  /\ s.state \in Alive \cup {"SynReceived", "LastAck", "FinWait1", "FinWait2"} => s.outSeq = At(a)
  /\ s.state \in Alive \cup {"LastAck"} =>
       /\ s.outAck = At(a)
       /\ \A i \in DOMAIN up : Ack(up[i]) => a <= Index(up[i].ack)

\* From then on, it waits for the byte that follows what it has received.
Synced(s, t, up, down, w, g, z) ==
  /\ t.state # "Closed"
  /\ t.state \notin {"none", "TimeWait"} => t.inSeq = At(Len(g))
  /\ \A i \in DOMAIN down : ~Syn(down[i])
  /\ \A i \in DOMAIN up : Syn(up[i]) => Ack(up[i])
  /\ Len(g) <= w
  /\ Rising(up, Len(g))
  /\ Sending(s, up, w - s.outLen, Len(g))
  /\ t.state \in Alive =>
       /\ s.state # "Closing"
       /\ \A i \in DOMAIN up : ~Fin(up[i])
       /\ \A i \in DOMAIN down : Sound(down[i], w, Len(g), z)

\* The bytes are counted from 1 as they are written.
InOrder(g, z) == z = {} => \A k \in 1 .. Len(g) : g[k] = k

\* The accepted socket s and the client's t, what is on its way to either, how
\* much has been written on s, and what the client has received.
Connection(s, t, up, down, w, g, z) ==
  /\ Handshake(s, t, up, down)
  /\ Unsynced(s, t, up, down, w, g) \/ Synced(s, t, up, down, w, g, z)
  /\ InOrder(g, z)

-----------------------------------------------------------------------------
(* What keeps a connection *)

LEMMA TailFacts ==
  ASSUME NEW q \in Seq(Segments), q # << >>
  PROVE  /\ Tail(q) \in Seq(Segments) /\ Len(Tail(q)) = Len(q) - 1
         /\ \A i \in DOMAIN Tail(q) :
              i \in Nat /\ i + 1 \in DOMAIN q /\ Tail(q)[i] = q[i + 1] /\ i + 1 # 1
         /\ 1 \in DOMAIN q /\ Head(q) = q[1] /\ \A i \in DOMAIN q : 1 <= i
OBVIOUS

LEMMA AppendFacts ==
  ASSUME NEW q \in Seq(Segments), NEW m \in Segments
  PROVE  /\ q \o <<m>> \in Seq(Segments) /\ Len(q \o <<m>>) = Len(q) + 1
         /\ \A i \in DOMAIN (q \o <<m>>) :
              \/ i \in DOMAIN q /\ (q \o <<m>>)[i] = q[i] /\ i < Len(q) + 1
              \/ i = Len(q) + 1 /\ (q \o <<m>>)[i] = m
OBVIOUS

LEMMA DropUp ==
  ASSUME NEW s, NEW t, NEW up \in Seq(Segments), NEW down, NEW w, NEW g, NEW z,
         Connection(s, t, up, down, w, g, z), up # << >>
  PROVE  Connection(s, t, Tail(up), down, w, g, z)
<1> DEFINE q == Tail(up)
<1>1. /\ Len(q) = Len(up) - 1 /\ Len(up) \in Nat
      /\ \A i \in DOMAIN q : i \in Nat /\ i + 1 \in DOMAIN up /\ q[i] = up[i + 1] /\ i + 1 # 1
  BY TailFacts
<1> HIDE DEF q
<1>2. Handshake(s, t, q, down)
  BY <1>1 DEF Connection, Handshake
<1>3. Unsynced(s, t, up, down, w, g) => Unsynced(s, t, q, down, w, g)
  BY <1>1 DEF Unsynced
<1>4. ASSUME Synced(s, t, up, down, w, g, z) PROVE Synced(s, t, q, down, w, g, z)
  <2>1. Rising(q, Len(g))
    BY <1>1, <1>4 DEF Synced, Rising
  <2>2. Sending(s, q, w - s.outLen, Len(g))
    BY <1>1, <1>4 DEF Synced, Sending
  <2> QED BY <1>1, <1>4, <2>1, <2>2 DEF Synced
<1> QED BY <1>2, <1>3, <1>4 DEF Connection, q

LEMMA DropDown ==
  ASSUME NEW s, NEW t, NEW up, NEW down \in Seq(Segments), NEW w, NEW g, NEW z,
         Connection(s, t, up, down, w, g, z), down # << >>
  PROVE  Connection(s, t, up, Tail(down), w, g, z)
<1> DEFINE q == Tail(down)
<1>1. \A i \in DOMAIN q : i + 1 \in DOMAIN down /\ q[i] = down[i + 1] /\ i + 1 # 1
  BY TailFacts
<1> HIDE DEF q
<1>2. Handshake(s, t, up, q)
  BY <1>1 DEF Connection, Handshake
<1>3. Unsynced(s, t, up, down, w, g) => Unsynced(s, t, up, q, w, g)
  BY <1>1 DEF Unsynced, Unused
<1>4. Synced(s, t, up, down, w, g, z) => Synced(s, t, up, q, w, g, z)
  BY <1>1 DEF Synced
<1> QED BY <1>2, <1>3, <1>4 DEF Connection, q

LEMMA ServerSame ==
  ASSUME NEW s, NEW s2, NEW t, NEW up, NEW down, NEW w, NEW g, NEW z,
         Connection(s, t, up, down, w, g, z),
         s2.state = s.state, s2.outSeq = s.outSeq, s2.outAck = s.outAck, s2.outLen = s.outLen
  PROVE  Connection(s2, t, up, down, w, g, z)
<1>1. Handshake(s2, t, up, down)
  BY DEF Connection, Handshake
<1>2. Unsynced(s, t, up, down, w, g) => Unsynced(s2, t, up, down, w, g)
  BY DEF Unsynced, Unused
<1>3. Synced(s, t, up, down, w, g, z) => Synced(s2, t, up, down, w, g, z)
  BY DEF Synced, Sending
<1> QED BY <1>1, <1>2, <1>3 DEF Connection

LEMMA ClientSame ==
  ASSUME NEW s, NEW t, NEW t2, NEW up, NEW down, NEW w, NEW g, NEW z,
         Connection(s, t, up, down, w, g, z),
         t2.state = t.state, t2.inSeq = t.inSeq,
         t.state \in {"Closed", "SynSent"} => t2.inAck \in {t.inAck, t.inSeq} /\ t2.outLen = t.outLen
  PROVE  Connection(s, t2, up, down, w, g, z)
<1>1. Handshake(s, t2, up, down)
  BY DEF Connection, Handshake
<1>2. Unsynced(s, t, up, down, w, g) => Unsynced(s, t2, up, down, w, g)
  BY DEF Unsynced
<1>3. Synced(s, t, up, down, w, g, z) => Synced(s, t2, up, down, w, g, z)
  BY DEF Synced
<1> QED BY <1>1, <1>2, <1>3 DEF Connection

\* The states of the client only lead to its end.
LEMMA ClientMoves ==
  ASSUME NEW s, NEW t, NEW t2, NEW up, NEW down, NEW w, NEW g, NEW z,
         Connection(s, t, up, down, w, g, z),
         t2.state \notin {"Closed", "SynSent", "SynReceived"},
         t2.state \in Alive => t.state \in Alive,
         t2.state = "LastAck" => t.state \in Alive \cup {"LastAck"},
         t2.state \notin {"none", "TimeWait"} =>
           t.state \notin {"none", "TimeWait"} /\ t2.inSeq = t.inSeq
  PROVE  Connection(s, t2, up, down, w, g, z)
<1>1. Handshake(s, t2, up, down)
  BY DEF Connection, Handshake
<1>2. Unsynced(s, t, up, down, w, g) => Unsynced(s, t2, up, down, w, g)
  BY DEF Unsynced
<1>3. Synced(s, t, up, down, w, g, z) => Synced(s, t2, up, down, w, g, z)
  BY DEF Synced
<1> QED BY <1>1, <1>2, <1>3 DEF Connection

\* And so do those of the accepted socket, which waits for the acknowledgement
\* of a FIN of its own only after a FIN of the client.
LEMMA ServerMoves ==
  ASSUME NEW s, NEW s2, NEW t, NEW up, NEW down, NEW w, NEW g, NEW z,
         Connection(s, t, up, down, w, g, z),
         s.state \in Alive \cup GivenUpStates, s2.state \in Alive \cup GivenUpStates,
         s2.outLen = s.outLen,
         s2.state \in Alive \cup {"LastAck"} =>
           s.state \in Alive \cup {"LastAck"} /\ s2.outAck = s.outAck,
         s2.state \in {"FinWait1", "FinWait2"} =>
           s.state \in Alive \cup {"LastAck", "FinWait1", "FinWait2"},
         s2.state \notin {"Closing", "TimeWait"} => s2.outSeq = s.outSeq,
         s2.state = "Closing" => s.state = "Closing" \/ \E i \in DOMAIN up : Fin(up[i])
  PROVE  Connection(s2, t, up, down, w, g, z)
<1>1. Handshake(s2, t, up, down)
  BY DEF Connection, Handshake, Alive, GivenUpStates
<1>2. Unsynced(s, t, up, down, w, g) => Unsynced(s2, t, up, down, w, g)
  BY DEF Unsynced, Unused, Alive, GivenUpStates
<1>3. ASSUME Synced(s, t, up, down, w, g, z) PROVE Synced(s2, t, up, down, w, g, z)
  <2>1. Sending(s2, up, w - s2.outLen, Len(g))
    BY <1>3 DEF Synced, Sending, Alive, GivenUpStates
  <2> QED BY <1>3, <2>1 DEF Synced
<1> QED BY <1>1, <1>2, <1>3 DEF Connection

LEMMA ServerGone ==
  ASSUME NEW s, NEW t, NEW up, NEW down, NEW w, NEW g, NEW z,
         Connection(s, t, up, down, w, g, z),
         s.state \in Alive \cup GivenUpStates
  PROVE  Connection(Gone, t, up, down, w, g, z)
<1>1. Gone.state = "none" /\ Gone.outLen = 0
  BY DEF Gone, Fresh
<1>2. Handshake(Gone, t, up, down)
  BY <1>1 DEF Connection, Handshake, Alive, GivenUpStates
<1>3. Unsynced(s, t, up, down, w, g) => Unsynced(Gone, t, up, down, w, g)
  BY <1>1 DEF Unsynced, Unused
<1>4. ASSUME Synced(s, t, up, down, w, g, z) PROVE Synced(Gone, t, up, down, w, g, z)
  <2>1. Sending(Gone, up, w - Gone.outLen, Len(g))
    BY <1>1 DEF Sending, Alive
  <2> QED BY <1>1, <1>4, <2>1 DEF Synced
<1> QED BY <1>2, <1>3, <1>4 DEF Connection

LEMMA WrittenBound ==
  ASSUME NEW w \in 0 .. ServerBytes
  PROVE  /\ w \in Numbers /\ w < SeqSpace \div 2
         /\ SeqSpace \in Nat /\ SeqSpace \div 2 \in Nat /\ 2 * (SeqSpace \div 2) <= SeqSpace
<1>1. /\ SeqSpace \in Nat /\ ServerBytes \in Nat
      /\ ServerBytes + 2 < SeqSpace \div 2
  BY TcpAssumption
<1> QED BY <1>1 DEF Numbers

\* What the client sends acknowledges what it has received.
LEMMA AppendUp ==
  ASSUME NEW s, NEW t, NEW up \in Seq(Segments), NEW down, NEW w \in 0 .. ServerBytes,
         NEW g \in Seq(Int), NEW z, NEW m \in Segments,
         Connection(s, t, up, down, w, g, z),
         t.state \notin {"none", "Closed", "TimeWait"},
         t.state = "SynSent" => t.inSeq # t.inAck \/ t.outLen # 0,
         ~Syn(m), m.ack = t.inSeq, Fin(m) => t.state \notin Alive
  PROVE  Connection(s, t, up \o <<m>>, down, w, g, z)
<1> DEFINE q == up \o <<m>>
<1>1. /\ Len(up) \in Nat
      /\ \A i \in DOMAIN q : \/ i \in DOMAIN up /\ q[i] = up[i] /\ i < Len(up) + 1
                             \/ i = Len(up) + 1 /\ q[i] = m
  BY AppendFacts
<1> HIDE DEF q
<1>2. CASE Unsynced(s, t, up, down, w, g)
  <2>1. t.state # "SynSent" /\ m.ack = 0
    BY <1>2 DEF Unsynced
  <2>2. Handshake(s, t, q, down)
    BY <1>1, <2>1 DEF Connection, Handshake
  <2>3. Unsynced(s, t, q, down, w, g)
    BY <1>1, <1>2, <2>1 DEF Unsynced
  <2> QED BY <2>2, <2>3 DEF Connection, q
<1>3. CASE Synced(s, t, up, down, w, g, z)
  <2>1. Index(m.ack) = Len(g)
    <3>1. Len(g) \in Numbers
      BY <1>3, WrittenBound DEF Synced, Numbers
    <3> QED BY <1>3, <3>1, IndexAt DEF Synced
  <2>2. Handshake(s, t, q, down)
    BY <1>1, <1>3 DEF Connection, Handshake, Synced
  <2>3. Rising(q, Len(g))
    <3>1. \A i \in DOMAIN q : Ack(q[i]) => Index(q[i].ack) <= Len(g)
      BY <1>1, <1>3, <2>1 DEF Synced, Rising
    <3>2. ASSUME NEW i \in DOMAIN q, NEW j \in DOMAIN q, i <= j, Ack(q[i]), Ack(q[j])
          PROVE  Index(q[i].ack) <= Index(q[j].ack)
      <4>1. CASE j \in DOMAIN up /\ q[j] = up[j]
        BY <1>1, <1>3, <3>2, <4>1 DEF Synced, Rising
      <4>2. CASE q[j] = m
        BY <2>1, <3>1, <3>2, <4>2
      <4> QED BY <1>1, <4>1, <4>2
    <3> QED BY <3>1, <3>2 DEF Rising
  <2>4. Sending(s, q, w - s.outLen, Len(g))
    BY <1>1, <1>3, <2>1 DEF Synced, Sending, Alive
  <2>5. Synced(s, t, q, down, w, g, z)
    BY <1>1, <1>3, <2>3, <2>4 DEF Synced
  <2> QED BY <2>2, <2>5 DEF Connection, q
<1> QED BY <1>2, <1>3 DEF Connection

\* What the accepted socket sends starts with the first byte of its queue.
LEMMA AppendDown ==
  ASSUME NEW s \in Sockets, NEW t, NEW up, NEW down \in Seq(Segments),
         NEW w \in 0 .. ServerBytes, NEW g \in Seq(Int), NEW z, NEW m \in Segments,
         Connection(s, t, up, down, w, g, z),
         s.state \notin {"none", "TimeWait"},
         ~Syn(m), m.seq = s.outSeq, Len(m.data) <= s.outLen,
         z = {} => \A k \in 1 .. Len(m.data) : m.data[k] = w - s.outLen + k
  PROVE  Connection(s, t, up, down \o <<m>>, w, g, z)
<1> DEFINE q == down \o <<m>>
<1>1. \A i \in DOMAIN q : (i \in DOMAIN down /\ q[i] = down[i]) \/ q[i] = m
  BY AppendFacts
<1> HIDE DEF q
<1>2. m.data \in Seq(Int) /\ s.outLen \in Nat /\ Len(m.data) \in Nat
  BY DEF Segments, Sockets
<1>3. Handshake(s, t, up, q)
  BY <1>1 DEF Connection, Handshake
<1>4. ASSUME Unsynced(s, t, up, down, w, g) PROVE Unsynced(s, t, up, q, w, g)
  <2>1. m.data = << >>
    BY <1>2, <1>4 DEF Unsynced, Unused
  <2> QED BY <1>1, <1>4, <2>1 DEF Unsynced, Unused
<1>5. ASSUME Synced(s, t, up, down, w, g, z) PROVE Synced(s, t, up, q, w, g, z)
  <2>1. ASSUME t.state \in Alive PROVE Sound(m, w, Len(g), z)
    <3> DEFINE a == w - s.outLen
    <3>1. /\ s.state \in Alive \cup {"SynReceived", "LastAck", "FinWait1", "FinWait2"}
          /\ s.state # "none"
      BY <1>3, <1>5, <2>1 DEF Synced, Handshake, Sockets, States, GivenUpStates
    <3>2. a \in 0 .. Len(g) /\ s.outSeq = At(a) /\ Len(g) <= w
      BY <1>5, <3>1 DEF Synced, Sending
    <3>3. a \in Numbers
      BY <3>2, WrittenBound DEF Numbers
    <3>4. Index(m.seq) = a
      BY <3>2, <3>3, IndexAt
    <3>5. a + Len(m.data) <= w
      BY <1>2
    <3>6. z = {} => \A k \in 1 .. Len(m.data) : m.data[k] = a + k
      OBVIOUS
    <3> HIDE DEF a
    <3> QED BY <3>2, <3>4, <3>5, <3>6 DEF Sound
  <2> QED BY <1>1, <1>5, <2>1 DEF Synced
<1> QED BY <1>3, <1>4, <1>5 DEF Connection, q

\* The client's acknowledgement of the SYN establishes the accepted socket.
LEMMA Opened ==
  ASSUME NEW s \in Sockets, NEW s2, NEW t, NEW up \in Seq(Segments), NEW down,
         NEW w \in 0 .. ServerBytes, NEW g \in Seq(Int), NEW z,
         Connection(s, t, up, down, w, g, z), up # << >>,
         s.state = "SynReceived", Ack(up[1]), up[1].ack = s.outSeq,
         s2.state = "Established", s2.outSeq = s.outSeq, s2.outAck = s.outSeq,
         s2.outLen = s.outLen
  PROVE  Connection(s2, t, Tail(up), down, w, g, z)
<1> DEFINE q == Tail(up)
<1>1. /\ Len(up) \in Nat /\ 1 \in DOMAIN up /\ \A i \in DOMAIN up : 1 <= i
      /\ \A i \in DOMAIN q : i \in Nat /\ i + 1 \in DOMAIN up /\ q[i] = up[i + 1] /\ i + 1 # 1
  BY TailFacts
<1> HIDE DEF q
<1>2. Synced(s, t, up, down, w, g, z)
  <2>1. s.outSeq = FixedISN => FixedISN # 0
    BY TcpAssumption
  <2> QED BY <1>1, <2>1 DEF Connection, Unsynced, Unused
<1>3. Handshake(s2, t, q, down)
  BY <1>1, <1>2 DEF Connection, Handshake, Synced
<1> DEFINE a == w - s.outLen
<1>4. a \in 0 .. Len(g) /\ s.outSeq = At(a) /\ Len(g) <= w
  BY <1>2 DEF Synced, Sending
<1>5. a \in Numbers
  <2> HIDE DEF a
  <2>1. PICK r \in Nat : r = Len(g)
    OBVIOUS
  <2>2. a \in 0 .. r /\ r <= w /\ w \in Numbers
    BY <1>4, <2>1, WrittenBound
  <2> QED BY ONLY <2>1, <2>2, TcpAssumption DEF Numbers
<1>6. Index(up[1].ack) = a
  BY <1>4, <1>5, IndexAt
<1>7. \A i \in DOMAIN q : Ack(q[i]) => a <= Index(q[i].ack)
  BY <1>1, <1>2, <1>6 DEF Synced, Rising
<1>8. Sending(s2, q, a, Len(g))
  BY <1>4, <1>7 DEF Sending
<1>9. Rising(q, Len(g))
  BY <1>1, <1>2 DEF Synced, Rising
<1>10. w - s2.outLen = a
  OBVIOUS
<1> HIDE DEF a
<1>11. Synced(s2, t, q, down, w, g, z)
  BY <1>1, <1>2, <1>8, <1>9, <1>10 DEF Synced
<1> QED BY <1>3, <1>11 DEF Connection, q

LEMMA Wrote ==
  ASSUME NEW s \in Sockets, NEW s2, NEW t, NEW up, NEW down \in Seq(Segments),
         NEW w \in Nat, NEW n \in Nat, NEW g \in Seq(Int), NEW z,
         NEW z2, z2 = {} => z = {},
         Connection(s, t, up, down, w, g, z),
         s.state \in Alive,
         s2.state = s.state, s2.outSeq = s.outSeq, s2.outAck = s.outAck, s2.outLen = s.outLen + n
  PROVE  Connection(s2, t, up, down, w + n, g, z2)
<1>1. Synced(s, t, up, down, w, g, z)
  BY DEF Connection, Unsynced, Unused, Alive
<1>2. Handshake(s2, t, up, down)
  BY DEF Connection, Handshake
<1> DEFINE a == w - s.outLen  b == (w + n) - s2.outLen
<1>3. a = b
  <2>1. PICK l \in Nat : l = s.outLen
    BY DEF Sockets
  <2>2. w - l = (w + n) - (l + n)
    OBVIOUS
  <2> QED BY <2>1, <2>2
<1> HIDE DEF a, b
<1>4. Sending(s2, up, b, Len(g))
  BY <1>1, <1>3 DEF Synced, Sending, a
<1>5. ASSUME NEW i \in DOMAIN down, Sound(down[i], w, Len(g), z)
      PROVE  Sound(down[i], w + n, Len(g), z2)
  <2> DEFINE x == Index(down[i].seq) + Len(down[i].data)
  <2>1. x \in Int
    <3>0. down[i] \in Segments
      OBVIOUS
    <3>1. down[i].seq \in Numbers /\ down[i].data \in Seq(Int)
      BY <3>0 DEF Segments
    <3>2. Index(down[i].seq) \in Int /\ Len(down[i].data) \in Int
      BY <3>1, AtIndex DEF Numbers
    <3> QED BY <3>2
  <2> HIDE DEF x
  <2>2. x <= w => x <= w + n
    BY <2>1
  <2> QED BY <1>5, <2>2 DEF Sound, x
<1>6. Len(g) <= w + n
  BY <1>1 DEF Synced
<1>7. Synced(s2, t, up, down, w + n, g, z2)
  BY <1>1, <1>4, <1>5, <1>6 DEF Synced, b
<1>8. InOrder(g, z2)
  BY DEF Connection, InOrder
<1> QED BY <1>2, <1>7, <1>8 DEF Connection

\* What is acknowledged leaves the queue, and that has been received.
LEMMA Recorded ==
  ASSUME NEW s \in Sockets, NEW s2, NEW t, NEW up \in Seq(Segments), NEW down,
         NEW w \in 0 .. ServerBytes, NEW g \in Seq(Int), NEW z,
         Connection(s, t, up, down, w, g, z), up # << >>, Ack(up[1]),
         s.state \in Alive \cup {"LastAck"},
         s2 = RecordAck(s, up[1].ack)
  PROVE  /\ Connection(s2, t, up, down, w, g, z)
         /\ s2.state = s.state /\ s2.outAck = up[1].ack
         /\ w - s2.outLen <= Len(g)
<1>1. /\ 1 \in DOMAIN up /\ \A i \in DOMAIN up : 1 <= i
      /\ up[1] \in Segments
  BY TailFacts
<1>2. Synced(s, t, up, down, w, g, z)
  BY DEF Connection, Unsynced, Unused, Alive
<1>3. PICK l \in Nat : l = s.outLen
  BY DEF Sockets
<1>4. PICK r \in Nat : r = Len(g)
  OBVIOUS
<1>5. up[1].ack \in Numbers
  BY <1>1 DEF Segments
<1>6. PICK n \in Numbers : n = Index(up[1].ack) /\ up[1].ack = At(n)
  BY <1>5, AtIndex
<1> DEFINE a == w - l
<1>7. a \in 0 .. r /\ s.outSeq = At(a) /\ s.outAck = At(a) /\ a <= n /\ n <= r /\ r <= w
  BY <1>1, <1>2, <1>3, <1>4, <1>6 DEF Synced, Sending, Rising, Alive
<1>8. a \in Numbers /\ w \in Numbers /\ n \in Nat
  <2> HIDE DEF a
  <2>1. w \in Numbers
    BY WrittenBound
  <2>2. a \in Int /\ 0 <= a /\ a <= r /\ r <= w
    BY ONLY <1>4, <1>7
  <2>3. a \in Numbers
    BY ONLY <2>1, <2>2, <1>4, TcpAssumption DEF Numbers
  <2>4. n \in Nat
    BY ONLY <1>6 DEF Numbers
  <2> QED BY ONLY <2>1, <2>3, <2>4
<1> DEFINE delta == Plus(up[1].ack, -s.outAck)
<1>9. delta = n - a
  <2>1. Plus(At(n) + 0, -At(a)) = n + 0 - a
    BY <1>7, <1>8, Distance
  <2>2. At(n) + 0 = At(n) /\ n + 0 - a = n - a
    BY <1>7, <1>8, AtValue DEF Numbers
  <2> QED BY <1>6, <1>7, <2>1, <2>2
<1>10. ~(delta >= SeqSpace \div 2) /\ ~(delta > l) /\ delta \in Nat
  <2>1. PICK h \in Int : h = SeqSpace \div 2 /\ w < h
    BY WrittenBound
  <2>2. n - a \in Nat /\ n - a <= l /\ n - a < h
    <3>1. w \in Nat
      BY TcpAssumption
    <3>2. n - a \in Nat
      BY ONLY <1>7, <1>8, <3>1
    <3>3. n \in Int /\ r \in Int /\ w \in Int /\ l \in Int /\ a = w - l
      BY <1>8, <3>1
    <3>4. n <= r /\ r <= w /\ 0 <= a
      BY <1>7
    <3> HIDE DEF a
    <3>5. n - a <= l
      BY ONLY <3>3, <3>4
    <3>6. n - a < h
      BY ONLY <3>3, <3>4, <2>1
    <3> QED BY <3>2, <3>5, <3>6
  <2>3. delta \in Nat /\ delta <= l /\ delta < h
    BY ONLY <1>9, <2>2, Zenon
  <2> HIDE DEF delta, a
  <2> QED BY ONLY <1>3, <2>1, <2>3
<1> DEFINE d == ByteQueueDrop(s, delta)
<1>11. /\ s2 = [d EXCEPT !.outSeq = up[1].ack, !.outAck = up[1].ack]
       /\ d.outLen = l - delta /\ d.state = s.state
       /\ {"state", "outLen", "outSeq", "outAck"} \subseteq DOMAIN d
  <2> HIDE DEF delta
  <2>1. IF delta >= l THEN 0 = l - delta ELSE TRUE
    BY <1>10
  <2>2. d.outLen = l - delta /\ d.state = s.state
    BY <1>3, <2>1 DEF ByteQueueDrop, Sockets
  <2>3. {"state", "outLen", "outSeq", "outAck"} \subseteq DOMAIN d
    BY DEF ByteQueueDrop, Sockets
  <2>4. s2 = [d EXCEPT !.outSeq = up[1].ack, !.outAck = up[1].ack]
    BY <1>10 DEF RecordAck, delta
  <2> QED BY <2>2, <2>3, <2>4
<1>12. /\ s2.state = s.state /\ s2.outSeq = At(n) /\ s2.outAck = At(n)
       /\ s2.outLen = l - delta
  <2> HIDE DEF d, delta
  <2> QED BY <1>6, <1>11
<1>13. w - s2.outLen = n
  <2>1. w - (l - (n - a)) = n
    BY <1>8
  <2> QED BY <1>9, <1>12, <2>1
<1>14. Sending(s2, up, n, Len(g))
  <2>1. \A i \in DOMAIN up : Ack(up[i]) => n <= Index(up[i].ack)
    BY <1>1, <1>2, <1>6 DEF Synced, Rising
  <2> QED BY <1>4, <1>7, <1>8, <1>12, <2>1 DEF Sending
<1>15. Synced(s2, t, up, down, w, g, z)
  BY <1>2, <1>12, <1>13, <1>14 DEF Synced
<1>16. Handshake(s2, t, up, down)
  BY <1>12 DEF Connection, Handshake
<1> QED BY <1>4, <1>6, <1>7, <1>12, <1>13, <1>15, <1>16 DEF Connection

LEMMA AtZero == 0 \in Numbers /\ At(0) = FixedISN /\ Index(FixedISN) = 0 /\ FixedISN # 0
<1>1. FixedISN \in Numbers /\ 0 \in Numbers /\ FixedISN # 0
  BY TcpAssumption DEF Numbers
<1>2. At(0) = FixedISN
  BY <1>1, PlusIs DEF At, Numbers
<1> QED BY <1>1, <1>2, IndexAt

\* The first SYN finds a socket that has not been used.
LEMMA FirstSyn ==
  ASSUME NEW s, NEW t, NEW up \in Seq(Segments), NEW down, NEW w, NEW g, NEW z,
         Connection(s, t, up, down, w, g, z), up # << >>, s.state = "none", Syn(up[1])
  PROVE  /\ Unsynced(s, t, up, down, w, g) /\ ~Ack(up[1]) /\ down = << >>
         /\ t.state # "Closed" /\ t.state = "SynSent" => Tail(up) = << >>
         /\ \A i \in DOMAIN Tail(up) : ~Syn(Tail(up)[i]) /\ (Ack(Tail(up)[i]) => Tail(up)[i].ack = 0)
         /\ t.state \in {"Closed", "SynSent"} => Len(Tail(up)) <= 1
<1>1. /\ 1 \in DOMAIN up /\ Tail(up) \in Seq(Segments) /\ Len(Tail(up)) = Len(up) - 1
      /\ Len(up) \in Nat
      /\ \A i \in DOMAIN Tail(up) : i + 1 \in DOMAIN up /\ Tail(up)[i] = up[i + 1] /\ i + 1 # 1
  BY TailFacts
<1>2. ~Ack(up[1]) /\ down = << >> /\ t.state # "Closed"
  BY <1>1 DEF Connection, Handshake
<1>3. Unsynced(s, t, up, down, w, g)
  BY <1>1, <1>2 DEF Connection, Synced
<1>4. t.state = "SynSent" => Tail(up) = << >>
  <2>1. t.state = "SynSent" => Len(Tail(up)) = 0
    BY <1>1, <1>3 DEF Unsynced
  <2>2. \A x \in Seq(Segments) : Len(x) = 0 => x = << >>
    OBVIOUS
  <2> QED BY ONLY <1>1, <2>1, <2>2, Zenon
<1>5. \A i \in DOMAIN Tail(up) : ~Syn(Tail(up)[i]) /\ (Ack(Tail(up)[i]) => Tail(up)[i].ack = 0)
  BY <1>1, <1>3 DEF Connection, Handshake, Unsynced
<1>6. t.state \in {"Closed", "SynSent"} => Len(Tail(up)) <= 1
  <2>1. Len(<< >>) <= 1
    OBVIOUS
  <2> QED BY ONLY <1>2, <1>4, <2>1, Zenon
<1> QED BY <1>2, <1>3, <1>4, <1>5, <1>6

\* It gets a new socket, which answers with a SYN, or is given up at once.
LEMMA Listened ==
  ASSUME NEW s, NEW s2, NEW t, NEW up \in Seq(Segments), NEW down, NEW w, NEW g, NEW z, NEW down2,
         Connection(s, t, up, down, w, g, z), up # << >>, s.state = "none", Syn(up[1]),
         s2.outSeq = FixedISN, s2.outLen = 0,
         \/ /\ s2.state = "SynReceived"
            /\ \E m : down2 = <<m>> /\ m.seq = FixedISN /\ m.data = << >>
         \/ s2.state = "FinWait1" /\ down2 = down
  PROVE  Connection(s2, t, Tail(up), down2, w, g, z)
<1> DEFINE q == Tail(up)
<1>1. /\ Unsynced(s, t, up, down, w, g) /\ down = << >>
      /\ t.state # "Closed" /\ t.state = "SynSent" => q = << >>
      /\ \A i \in DOMAIN q : ~Syn(q[i]) /\ (Ack(q[i]) => q[i].ack = 0)
      /\ t.state \in {"Closed", "SynSent"} => Len(q) <= 1
  BY FirstSyn
<1> HIDE DEF q
<1>2. \A i \in DOMAIN down2 : /\ i = 1 /\ s2.state = "SynReceived"
                              /\ down2[i].seq = FixedISN /\ down2[i].data = << >>
  BY <1>1
<1>3. Handshake(s2, t, q, down2)
  BY <1>1, <1>2 DEF Connection, Handshake
<1>4. Unsynced(s2, t, q, down2, w, g)
  BY <1>1, <1>2 DEF Unsynced, Unused
<1> QED BY <1>3, <1>4 DEF Connection, q

\* The client's only SYN.
LEMMA Connected ==
  ASSUME NEW s, NEW t, NEW t2, NEW up, NEW down, NEW w, NEW g, NEW z, NEW m,
         Connection(s, t, up, down, w, g, z), t.state = "Closed",
         t2.state = "SynSent", t2.inSeq = t.inSeq, t2.inAck = t.inAck, t2.outLen = t.outLen,
         ~Ack(m)
  PROVE  up = << >> /\ Connection(s, t2, <<m>>, down, w, g, z)
<1>1. up = << >> /\ down = << >> /\ s.state = "none" /\ Unsynced(s, t, up, down, w, g)
  BY DEF Connection, Handshake, Synced
<1> DEFINE x == <<m>>
<1>2. Len(x) <= 1 /\ \A i \in DOMAIN x : i = 1 /\ x[i] = m
  OBVIOUS
<1> HIDE DEF x
<1>3. Handshake(s, t2, x, down)
  BY <1>1, <1>2 DEF Connection, Handshake
<1>4. Unsynced(s, t2, x, down, w, g)
  BY <1>1, <1>2 DEF Unsynced, Alive
<1> QED BY <1>1, <1>3, <1>4 DEF Connection, x

\* The answer to it tells the client where to start, and finds nothing of what
\* it may have sent; the client is established once it has answered in turn.
LEMMA Synchronised ==
  ASSUME NEW s, NEW t, NEW t2, NEW up, NEW down \in Seq(Segments), NEW w, NEW g, NEW z, NEW up2,
         Connection(s, t, up, down, w, g, z), down # << >>, t.state = "SynSent", Syn(down[1]),
         t2.inSeq = down[1].seq,
         \/ t2.state = "SynSent" /\ up2 = up
         \/ /\ t2.state = "Established"
            /\ \E m : up2 = up \o <<m>> /\ Syn(m) /\ Ack(m) /\ ~Fin(m) /\ m.ack = t2.inSeq
  PROVE  Connection(s, t2, up2, Tail(down), w, g, z)
<1> DEFINE q == Tail(down)
<1>1. /\ 1 \in DOMAIN down
      /\ \A i \in DOMAIN q : i + 1 \in DOMAIN down /\ q[i] = down[i + 1] /\ i + 1 # 1
  BY TailFacts
<1> HIDE DEF q
<1>2. up = << >> /\ s.state = "SynReceived" /\ t2.inSeq = FixedISN
  BY <1>1 DEF Connection, Handshake
<1>3. Unsynced(s, t, up, down, w, g)
  BY <1>1 DEF Connection, Synced
<1>4. /\ w = 0 /\ s.outLen = 0 /\ g = << >> /\ s.outSeq = FixedISN
      /\ \A i \in DOMAIN down : down[i].data = << >>
  BY <1>2, <1>3 DEF Unsynced, Unused
<1>5. \A i \in DOMAIN up2 : i = 1 /\ Syn(up2[i]) /\ Ack(up2[i]) /\ ~Fin(up2[i])
                            /\ up2[i].ack = FixedISN
  <2>1. CASE up2 = up
    BY <1>2, <2>1
  <2>2. ASSUME NEW m, up2 = up \o <<m>>, Syn(m), Ack(m), ~Fin(m), m.ack = t2.inSeq
        PROVE  \A i \in DOMAIN up2 : i = 1 /\ Syn(up2[i]) /\ Ack(up2[i]) /\ ~Fin(up2[i])
                                     /\ up2[i].ack = FixedISN
    <3>1. up2 = <<m>>
      BY <1>2, <2>2
    <3> QED BY <1>2, <2>2, <3>1
  <2> QED BY <2>1, <2>2
<1>6. \A i \in DOMAIN q : ~Syn(q[i]) /\ q[i].data = << >>
  BY <1>1, <1>4 DEF Connection, Handshake
<1>7. Handshake(s, t2, up2, q)
  BY <1>2, <1>5, <1>6 DEF Connection, Handshake
<1>8. Len(g) = 0 /\ w - s.outLen = 0
  BY <1>4
<1>9. Rising(up2, 0) /\ Sending(s, up2, 0, 0)
  BY <1>2, <1>4, <1>5, AtZero DEF Rising, Sending, Alive
<1>10. Synced(s, t2, up2, q, w, g, z)
  BY <1>2, <1>4, <1>5, <1>6, <1>8, <1>9, AtZero DEF Synced, Sound
<1> QED BY <1>7, <1>10 DEF Connection, q

\* What is taken of a segment that leaves no gap follows what has been received.
LEMMA NewBytesFacts ==
  ASSUME NEW t \in Sockets, NEW m \in Segments, NEW w \in 0 .. ServerBytes, NEW r \in 0 .. w, NEW z,
         t.inSeq = At(r), Sound(m, w, r, z)
  PROVE  /\ r + Len(NewBytes(t, m)) <= w
         /\ z = {} => \A k \in 1 .. Len(NewBytes(t, m)) : NewBytes(t, m)[k] = r + k
<1> DEFINE new == NewBytes(t, m)
           n == Len(m.data)
           actual == Plus(m.seq + n, -t.inSeq)
           room == QueueSize - t.inLen
           size == Enqueued(t, actual)
<1>1. new = << >> \/ /\ n # 0 /\ ~(actual >= SeqSpace \div 2)
                     /\ new = [k \in 1 .. size |->
                                 IF n - actual + k > 0 THEN m.data[n - actual + k] ELSE 0]
  BY DEF NewBytes
<1>2. CASE new = << >>
  <2>1. Len(new) = 0 /\ r \in Int /\ w \in Int /\ r <= w
    BY <1>2, TcpAssumption
  <2> HIDE DEF new
  <2>2. r + Len(new) <= w /\ (z = {} => \A k \in 1 .. Len(new) : new[k] = r + k)
    BY <2>1
  <2> QED BY <2>2 DEF new
<1>3. CASE n # 0 /\ ~(actual >= SeqSpace \div 2)
           /\ new = [k \in 1 .. size |->
                       IF n - actual + k > 0 THEN m.data[n - actual + k] ELSE 0]
  <2>1. m.data \in Seq(Int) /\ m.seq \in Numbers /\ n \in Nat /\ m.data # << >>
    BY <1>3 DEF Segments
  <2>2. PICK i \in Numbers : i = Index(m.seq) /\ m.seq = At(i)
    BY <2>1, AtIndex
  <2>3. i <= r /\ i + n <= w /\ (z = {} => \A k \in 1 .. n : m.data[k] = i + k)
    BY <2>1, <2>2 DEF Sound
  <2>4. /\ w \in Numbers /\ r \in Numbers /\ i + n \in Numbers
        /\ i \in Nat /\ r \in Nat /\ w \in Nat
    <3>1. w \in Numbers
      BY WrittenBound
    <3> HIDE DEF n
    <3> QED BY <2>1, <2>3, <3>1, TcpAssumption DEF Numbers
  <2>5. actual = IF i + n >= r THEN i + n - r ELSE i + n - r + SeqSpace
    <3>1. actual = Plus(At(i) + n, -At(r))
      BY <2>2
    <3>2. Plus(At(i) + n, -At(r)) = IF i + n >= r THEN i + n - r ELSE i + n - r + SeqSpace
      BY ONLY <2>1, <2>2, <2>4, Distance
    <3> QED BY ONLY <3>1, <3>2
  <2>6. actual = i + n - r /\ actual \in Nat
    <3>1. PICK h \in Nat : h = SeqSpace \div 2 /\ w < h /\ 2 * h <= SeqSpace /\ SeqSpace \in Nat
      BY WrittenBound
    <3>2. ~(actual >= h)
      BY <1>3, <3>1
    <3> HIDE DEF actual, n
    <3>3. CASE i + n >= r
      BY <2>1, <2>4, <2>5, <3>3
    <3>4. CASE ~(i + n >= r)
      <4>1. i + n - r + SeqSpace >= h
        BY <2>1, <2>4, <3>1
      <4> QED BY <2>5, <3>2, <3>4, <4>1
    <3> QED BY <3>3, <3>4
  <2>7. size \in Nat /\ size <= actual
    <3>1. room \in Int
      <4>1. t.inLen \in 0 .. QueueSize
        BY DEF Sockets
      <4> QED BY <4>1, TcpAssumption
    <3>2. size = MinOf({actual, room})
      BY DEF Enqueued
    <3>3. room \in Nat
      <4>1. t.inLen \in 0 .. QueueSize
        BY DEF Sockets
      <4> QED BY <4>1, TcpAssumption
    <3> HIDE DEF size, actual, room
    <3> QED BY <2>6, <3>2, <3>3, MinOfTwo
  <2> HIDE DEF size, actual, n, new
  <2>8. ASSUME NEW k \in 1 .. size, z = {} PROVE new[k] = r + k
    <3>1. /\ n - actual + k = r - i + k /\ n - actual + k > 0
          /\ n - actual + k \in 1 .. n /\ i + (n - actual + k) = r + k
      BY <2>1, <2>3, <2>4, <2>6, <2>7
    <3>2. new[k] = m.data[n - actual + k]
      BY <1>3, <3>1
    <3> QED BY <2>3, <2>8, <3>1, <3>2
  <2>9. Len(new) = size
    BY <1>3, <2>7
  <2>10. r + size <= w
    BY <2>1, <2>3, <2>4, <2>6, <2>7
  <2> QED BY <2>8, <2>9, <2>10 DEF new
<1> QED BY <1>1, <1>2, <1>3

LEMMA Delivered ==
  ASSUME NEW s, NEW t \in Sockets, NEW t2, NEW up \in Seq(Segments),
         NEW down \in Seq(Segments),
         NEW w \in 0 .. ServerBytes, NEW g \in Seq(Int), NEW z, NEW g2,
         Connection(s, t, up, down, w, g, z), down # << >>, t.state \in Alive,
         g2 = g \o NewBytes(t, down[1]),
         t2.state = t.state, t2.inSeq = Plus(t.inSeq, Len(NewBytes(t, down[1])))
  PROVE  Connection(s, t2, up, down, w, g2, z)
<1> DEFINE m == down[1]
           new == NewBytes(t, m)
<1>1. m \in Segments /\ 1 \in DOMAIN down
  BY TailFacts
<1>2. Synced(s, t, up, down, w, g, z)
  BY DEF Connection, Unsynced, Alive
<1>3. PICK r \in Nat : r = Len(g)
  OBVIOUS
<1>4. w \in Nat /\ r <= w /\ t.inSeq = At(r) /\ Sound(m, w, r, z)
  BY <1>1, <1>2, <1>3, TcpAssumption DEF Synced, Alive
<1>5. new \in Seq(Int)
  BY <1>1, NewBytesTyped
<1>6. r + Len(new) <= w /\ (z = {} => \A k \in 1 .. Len(new) : new[k] = r + k)
  <2>1. r \in 0 .. w
    BY <1>3, <1>4
  <2> HIDE DEF m
  <2> QED BY ONLY <1>1, <1>4, <2>1, NewBytesFacts, w \in 0 .. ServerBytes, t \in Sockets
<1> HIDE DEF m
<1>7. g2 = g \o new
  BY DEF m
<1>8. t2.inSeq = Plus(t.inSeq, Len(new))
  BY DEF m
<1> HIDE DEF new
<1>9. Len(new) \in Nat
  BY <1>5
<1> DEFINE r2 == r + Len(new)
<1>10. r2 \in Nat /\ r <= r2 /\ r2 <= w
  BY <1>6, <1>9
<1>11. t2.inSeq = At(r2)
  <2>1. r \in Numbers /\ r2 \in Numbers
    <3>1. w \in Numbers
      BY WrittenBound
    <3> HIDE DEF r2
    <3> QED BY <1>3, <1>4, <1>10, <3>1, TcpAssumption DEF Numbers
  <2> QED BY <1>4, <1>8, <1>9, <2>1, AtPlus
<1>12. Len(g2) = r2 /\ InOrder(g2, z)
  <2>1. Len(g2) = r2
    BY <1>3, <1>5, <1>7
  <2>2. ASSUME z = {}, NEW k \in 1 .. r2 PROVE g2[k] = k
    <3>1. CASE k <= r
      <4>1. g2[k] = g[k]
        BY <1>3, <1>5, <1>7, <3>1
      <4> QED BY <1>3, <2>2, <3>1, <4>1 DEF Connection, InOrder
    <3>2. CASE ~(k <= r)
      <4>1. k - r \in 1 .. Len(new) /\ r + (k - r) = k
        BY <1>9, <3>2
      <4>2. g2[k] = new[k - r]
        <5>1. k \in Len(g) + 1 .. Len(g) + Len(new)
          BY <1>3, <1>9, <3>2
        <5>2. \A h \in Seq(Int), f \in Seq(Int) :
                \A j \in Len(h) + 1 .. Len(h) + Len(f) : (h \o f)[j] = f[j - Len(h)]
          OBVIOUS
        <5>3. g2[k] = new[k - Len(g)]
          BY ONLY <1>5, <1>7, <5>1, <5>2, Zenon
        <5> QED BY <1>3, <5>3
      <4> QED BY <1>6, <2>2, <4>1, <4>2
    <3> QED BY <3>1, <3>2
  <2> HIDE DEF r2
  <2> QED BY <2>1, <2>2 DEF InOrder
<1> HIDE DEF r2
<1>13. Handshake(s, t2, up, down)
  BY DEF Connection, Handshake
<1>14. Rising(up, r2)
  <2>1. ASSUME NEW i \in DOMAIN up, Ack(up[i]) PROVE Index(up[i].ack) <= r2
    <3>1. up[i] \in Segments
      OBVIOUS
    <3>2. Index(up[i].ack) \in Int
      BY <3>1, AtIndex DEF Segments, Numbers
    <3>3. Index(up[i].ack) <= r
      BY <1>2, <1>3, <2>1 DEF Synced, Rising
    <3> QED BY <1>10, <3>2, <3>3
  <2> QED BY <1>2, <2>1 DEF Synced, Rising
<1>15. Sending(s, up, w - s.outLen, r2)
  <2>1. w - s.outLen \in 0 .. r => w - s.outLen \in 0 .. r2
    BY <1>10
  <2> QED BY <1>2, <1>3, <2>1 DEF Synced, Sending
<1>16. ASSUME NEW i \in DOMAIN down PROVE Sound(down[i], w, r2, z)
  <2>1. Index(down[i].seq) \in Int
    <3>1. down[i] \in Segments
      OBVIOUS
    <3> QED BY <3>1, AtIndex DEF Segments, Numbers
  <2>2. Index(down[i].seq) <= r => Index(down[i].seq) <= r2
    BY <1>10, <2>1
  <2>3. Sound(down[i], w, r, z)
    BY <1>2, <1>3 DEF Synced
  <2> QED BY <2>2, <2>3 DEF Sound
<1>17. Synced(s, t2, up, down, w, g2, z)
  BY <1>2, <1>10, <1>11, <1>12, <1>14, <1>15, <1>16 DEF Synced
<1> QED BY <1>12, <1>13, <1>17 DEF Connection

-----------------------------------------------------------------------------
(* The connections of all clients *)

\* The accepted socket of c, if its queue has gone round.
Round(c) == {Server(c)} \cap lapped

ConnectionOf(c) ==
  Connection(socket[Server(c)], socket[Client(c)], wire[Server(c)], wire[Client(c)],
             written[Server(c)], got[Client(c)], Round(c))

Streams ==
  /\ TypeOK
  /\ \A c \in Clients : written[Server(c)] <= ServerBytes
  /\ \A c \in Clients : ConnectionOf(c)

LEMMA PeersOf ==
  ASSUME NEW c \in Clients
  PROVE  Peer(Client(c)) = Server(c) /\ Peer(Server(c)) = Client(c)
BY DEF Peer, Client, Server

LEMMA Parts ==
  ASSUME Streams, NEW c \in Clients
  PROVE  /\ socket[Server(c)] \in Sockets /\ socket[Client(c)] \in Sockets
         /\ wire[Server(c)] \in Seq(Segments) /\ wire[Client(c)] \in Seq(Segments)
         /\ written[Server(c)] \in 0 .. ServerBytes /\ got[Client(c)] \in Seq(Int)
         /\ Connection(socket[Server(c)], socket[Client(c)], wire[Server(c)], wire[Client(c)],
                       written[Server(c)], got[Client(c)], Round(c))
<1>1. written[Server(c)] \in Nat /\ written[Server(c)] <= ServerBytes
  BY EndFacts DEF Streams, TypeOK
<1>2. written[Server(c)] \in 0 .. ServerBytes
  BY <1>1, TcpAssumption
<1> QED BY <1>2, EndFacts DEF Streams, TypeOK, ConnectionOf

\* An end gets another socket, and leaves the rest of the segments that are on
\* their way to it; those on their way to the other end become out.
Does(e, s, out, rest) ==
  /\ socket'[e] = s /\ wire'[Peer(e)] = out /\ wire'[e] = rest
  /\ \A d \in Ends \ {e} : socket'[d] = socket[d]
  /\ \A d \in Ends \ {e, Peer(e)} : wire'[d] = wire[d]

\* Of all connections, only that of the end changes.
LEMMA ClientDoesSo ==
  ASSUME Streams, NEW c \in Clients, NEW t, NEW up, NEW down,
         Does(Client(c), t, up, down),
         \A d \in Clients : written'[Server(d)] = written[Server(d)] /\ Round(d)' = Round(d),
         \A d \in Clients \ {c} : got'[Client(d)] = got[Client(d)],
         Connection(socket[Server(c)], t, up, down, written[Server(c)], got'[Client(c)], Round(c))
  PROVE  \A d \in Clients : ConnectionOf(d)'
<1>1. ConnectionOf(c)'
  <2>1. /\ socket'[Client(c)] = t /\ socket'[Server(c)] = socket[Server(c)]
        /\ wire'[Server(c)] = up /\ wire'[Client(c)] = down
    BY EndFacts, PeersOf DEF Does
  <2> QED BY <2>1 DEF ConnectionOf
<1>2. ASSUME NEW d \in Clients, d # c PROVE ConnectionOf(d)'
  <2>1. /\ Client(d) \notin {Client(c), Server(c)} /\ Server(d) \notin {Client(c), Server(c)}
        /\ Client(d) \in Ends /\ Server(d) \in Ends
    BY <1>2 DEF Client, Server, Ends
  <2>2. /\ socket'[Client(d)] = socket[Client(d)] /\ socket'[Server(d)] = socket[Server(d)]
        /\ wire'[Client(d)] = wire[Client(d)] /\ wire'[Server(d)] = wire[Server(d)]
        /\ written'[Server(d)] = written[Server(d)] /\ got'[Client(d)] = got[Client(d)]
    BY <1>2, <2>1, PeersOf DEF Does
  <2>3. ConnectionOf(d)
    BY DEF Streams
  <2> QED BY <2>2, <2>3 DEF ConnectionOf
<1> QED BY <1>1, <1>2

LEMMA ServerDoesSo ==
  ASSUME Streams, NEW c \in Clients, NEW s, NEW up, NEW down,
         Does(Server(c), s, down, up),
         \A d \in Clients : got'[Client(d)] = got[Client(d)],
         \A d \in Clients \ {c} : written'[Server(d)] = written[Server(d)] /\ Round(d)' = Round(d),
         Connection(s, socket[Client(c)], up, down, written'[Server(c)], got[Client(c)], Round(c)')
  PROVE  \A d \in Clients : ConnectionOf(d)'
<1>1. ConnectionOf(c)'
  <2>1. /\ socket'[Server(c)] = s /\ socket'[Client(c)] = socket[Client(c)]
        /\ wire'[Server(c)] = up /\ wire'[Client(c)] = down
    BY EndFacts, PeersOf DEF Does
  <2> QED BY <2>1 DEF ConnectionOf
<1>2. ASSUME NEW d \in Clients, d # c PROVE ConnectionOf(d)'
  <2>1. /\ Client(d) \notin {Client(c), Server(c)} /\ Server(d) \notin {Client(c), Server(c)}
        /\ Client(d) \in Ends /\ Server(d) \in Ends
    BY <1>2 DEF Client, Server, Ends
  <2>2. /\ socket'[Client(d)] = socket[Client(d)] /\ socket'[Server(d)] = socket[Server(d)]
        /\ wire'[Client(d)] = wire[Client(d)] /\ wire'[Server(d)] = wire[Server(d)]
        /\ written'[Server(d)] = written[Server(d)] /\ got'[Client(d)] = got[Client(d)]
        /\ Round(d)' = Round(d)
    BY <1>2, <2>1, PeersOf DEF Does
  <2>3. ConnectionOf(d)
    BY DEF Streams
  <2> QED BY <2>2, <2>3 DEF ConnectionOf
<1> QED BY <1>1, <1>2

\* Only a program that writes makes a queue go round.
LEMMA ClientDoes ==
  ASSUME Streams, NEW c \in Clients, NEW t, NEW up, NEW down,
         Does(Client(c), t, up, down), lapped' = lapped,
         \A d \in Clients : written'[Server(d)] = written[Server(d)],
         \A d \in Clients \ {c} : got'[Client(d)] = got[Client(d)],
         Connection(socket[Server(c)], t, up, down, written[Server(c)], got'[Client(c)], Round(c))
  PROVE  \A d \in Clients : ConnectionOf(d)'
<1>1. \A d \in Clients : Round(d)' = Round(d)
  BY DEF Round
<1> QED BY <1>1, ClientDoesSo

LEMMA ServerDoes ==
  ASSUME Streams, NEW c \in Clients, NEW s, NEW up, NEW down,
         Does(Server(c), s, down, up), lapped' = lapped,
         \A d \in Clients : got'[Client(d)] = got[Client(d)],
         \A d \in Clients \ {c} : written'[Server(d)] = written[Server(d)],
         Connection(s, socket[Client(c)], up, down, written'[Server(c)], got[Client(c)], Round(c))
  PROVE  \A d \in Clients : ConnectionOf(d)'
<1>1. \A d \in Clients : Round(d)' = Round(d)
  BY DEF Round
<1> QED BY <1>1, ServerDoesSo

LEMMA NotRound ==
  ASSUME NEW c, Round(c) = {}
  PROVE  Server(c) \notin lapped
BY DEF Round

-----------------------------------------------------------------------------
(* What comes of the outcomes *)

LEMMA PutDoes ==
  ASSUME TypeOK, NEW e \in Ends, NEW outcomes, Put(e, outcomes)
  PROVE  \E o \in outcomes : Does(e, o.socket, wire[Peer(e)] \o o.sent, wire[e])
BY PeerFacts DEF Put, Does, TypeOK

LEMMA TookDoes ==
  ASSUME TypeOK, NEW e \in Ends, NEW outcomes, Took(e, outcomes)
  PROVE  \E o \in outcomes : Does(e, o.socket, wire[Peer(e)] \o o.sent, Tail(wire[e]))
<1>1. PICK o \in outcomes :
         /\ socket' = [socket EXCEPT ![e] = o.socket]
         /\ wire' = [wire EXCEPT ![e] = Tail(@), ![Peer(e)] = @ \o o.sent]
  BY DEF Took
<1>2. Peer(e) \in Ends /\ Peer(e) # e
  BY PeerFacts
<1>3. wire' = [[wire EXCEPT ![e] = Tail(wire[e])] EXCEPT ![Peer(e)] = wire[Peer(e)] \o o.sent]
  BY <1>1, <1>2 DEF TypeOK
<1> DEFINE out == wire[Peer(e)] \o o.sent
           rest == Tail(wire[e])
<1>4. wire' = [[wire EXCEPT ![e] = rest] EXCEPT ![Peer(e)] = out]
  BY <1>3
<1> HIDE DEF out, rest
<1>5. Does(e, o.socket, out, rest)
  BY <1>1, <1>2, <1>4 DEF Does, TypeOK
<1> QED BY <1>5 DEF out, rest

\* The end does so with the socket s, having sent what is in sent.
Sends(e, s, sent, rest) == Does(e, s, wire[Peer(e)] \o sent, rest)

LEMMA SendsNothing ==
  ASSUME TypeOK, NEW e \in Ends, NEW s, NEW rest, Sends(e, s, << >>, rest)
  PROVE  Does(e, s, wire[Peer(e)], rest)
<1>1. wire[Peer(e)] \in Seq(Segments)
  BY PeerFacts DEF TypeOK
<1>2. wire[Peer(e)] \o << >> = wire[Peer(e)]
  BY <1>1
<1> QED BY <1>2 DEF Sends

LEMMA QuietDoes ==
  ASSUME TypeOK, NEW e \in Ends, NEW s
  PROVE  /\ Put(e, Quiet(s)) => Does(e, s, wire[Peer(e)], wire[e])
         /\ Took(e, Quiet(s)) => Does(e, s, wire[Peer(e)], Tail(wire[e]))
<1>1. \A o \in Quiet(s) : o.socket = s /\ o.sent = << >>
  BY DEF Quiet, Outcome
<1>2. Put(e, Quiet(s)) => Sends(e, s, << >>, wire[e])
  BY <1>1, PutDoes DEF Sends
<1>3. Took(e, Quiet(s)) => Sends(e, s, << >>, Tail(wire[e]))
  BY <1>1, TookDoes DEF Sends
<1> QED BY <1>2, <1>3, SendsNothing

LEMMA TriedDoes ==
  ASSUME TypeOK, NEW e \in Ends, NEW m, NEW sent, NEW failed
  PROVE  /\ Put(e, Tried(e, m, sent, failed)) =>
              \/ Does(e, sent, wire[Peer(e)] \o <<m>>, wire[e])
              \/ Does(e, failed, wire[Peer(e)], wire[e])
         /\ Took(e, Tried(e, m, sent, failed)) =>
              \/ Does(e, sent, wire[Peer(e)] \o <<m>>, Tail(wire[e]))
              \/ Does(e, failed, wire[Peer(e)], Tail(wire[e]))
<1>1. \A o \in Tried(e, m, sent, failed) :
        \/ o.socket = sent /\ o.sent = <<m>>
        \/ o.socket = failed /\ o.sent = << >>
  BY DEF Tried, Outcome
<1>2. Put(e, Tried(e, m, sent, failed)) =>
        Sends(e, sent, <<m>>, wire[e]) \/ Sends(e, failed, << >>, wire[e])
  BY <1>1, PutDoes DEF Sends
<1>3. Took(e, Tried(e, m, sent, failed)) =>
        Sends(e, sent, <<m>>, Tail(wire[e])) \/ Sends(e, failed, << >>, Tail(wire[e]))
  BY <1>1, TookDoes DEF Sends
<1> QED BY <1>2, <1>3, SendsNothing DEF Sends

FireSegment(e, s, total, round) ==
  Segment(s, IF s.state \in {"FinWait1", "FinWait2"} THEN {"ack", "fin"} ELSE {"ack"},
          FireData(e, s, total, round))

LEMMA FiredOutcomes ==
  ASSUME NEW e, NEW s, NEW total, NEW round, NEW o \in Fired(e, s, total, round)
  PROVE  \/ o.socket \in {s, Acknowledged(s)} /\ o.sent = << >>
         \/ /\ s.outLen # 0 \/ s.inSeq # s.inAck
            /\ o.socket = Acknowledged(s) /\ o.sent = <<FireSegment(e, s, total, round)>>
<1> DEFINE noted == Acknowledged(s)
           m == FireSegment(e, s, total, round)
<1>1. Fired(e, s, total, round) = IF s.outLen = 0 /\ s.inSeq = s.inAck
                           THEN Quiet(s)
                           ELSE Tried(e, m, noted, noted) \cup Tried(e, m, noted, s)
  BY DEF Fired, Acknowledged, FireSegment
<1> HIDE DEF noted, m
<1>2. o \in Quiet(s) => o.socket = s /\ o.sent = << >>
  BY DEF Quiet, Outcome
<1>3. \A f : o \in Tried(e, m, noted, f) => \/ o.socket = noted /\ o.sent = <<m>>
                                            \/ o.socket = f /\ o.sent = << >>
  BY DEF Tried, Outcome
<1> QED BY <1>1, <1>2, <1>3 DEF noted, m

LEMMA FireSegmentFacts ==
  ASSUME NEW e, NEW s \in Sockets, NEW total \in Int, NEW round
  PROVE  /\ FireSegment(e, s, total, round) \in Segments
         /\ ~Syn(FireSegment(e, s, total, round)) /\ FireSegment(e, s, total, round).seq = s.outSeq
         /\ FireSegment(e, s, total, round).ack = s.inSeq
         /\ FireSegment(e, s, total, round).data = FireData(e, s, total, round)
         /\ Fin(FireSegment(e, s, total, round)) => s.state \in {"FinWait1", "FinWait2"}
<1> DEFINE flags == IF s.state \in {"FinWait1", "FinWait2"} THEN {"ack", "fin"} ELSE {"ack"}
           data == FireData(e, s, total, round)
<1>1. data \in Seq(Int) /\ flags \in SUBSET Flags
  BY FireDataFacts DEF Flags
<1>2. "syn" \notin flags /\ ("fin" \in flags => s.state \in {"FinWait1", "FinWait2"})
  OBVIOUS
<1>3. FireSegment(e, s, total, round) = Segment(s, flags, data)
  BY DEF FireSegment
<1> HIDE DEF flags, data
<1>4. Segment(s, flags, data) \in Segments
  BY <1>1, SegmentTyped
<1> QED BY <1>2, <1>3, <1>4 DEF Segment, Syn, Fin, data

LEMMA EmptyAppend ==
  ASSUME NEW q \in Seq(Segments)
  PROVE  q \o << >> = q
OBVIOUS

LEMMA ClientFires ==
  ASSUME NEW s, NEW t \in Sockets, NEW up \in Seq(Segments), NEW down,
         NEW w \in 0 .. ServerBytes, NEW g \in Seq(Int), NEW z,
         Connection(s, t, up, down, w, g, z), t.state \notin {"none", "TimeWait"},
         NEW e, NEW total \in Int, NEW round, NEW o \in Fired(e, t, total, round)
  PROVE  Connection(s, o.socket, up \o o.sent, down, w, g, z)
<1> DEFINE t2 == Acknowledged(t)
           m == FireSegment(e, t, total, round)
<1>1. t2.state = t.state /\ t2.inSeq = t.inSeq /\ t2.inAck = t.inSeq /\ t2.outLen = t.outLen
  BY DEF Acknowledged, Sockets
<1>2. \/ o.socket \in {t, t2} /\ o.sent = << >>
      \/ /\ t.outLen # 0 \/ t.inSeq # t.inAck
         /\ o.socket = t2 /\ o.sent = <<m>>
  BY FiredOutcomes
<1>3. m \in Segments /\ ~Syn(m) /\ m.ack = t.inSeq /\ (Fin(m) => t.state \in {"FinWait1", "FinWait2"})
  BY FireSegmentFacts
<1> HIDE DEF t2, m
<1>4. CASE o.socket \in {t, t2} /\ o.sent = << >>
  <2>1. Connection(s, t2, up, down, w, g, z)
    BY <1>1, ClientSame
  <2>2. Connection(s, o.socket, up, down, w, g, z)
    BY <1>4, <2>1
  <2> QED BY <1>4, <2>2, EmptyAppend
<1>5. CASE /\ t.outLen # 0 \/ t.inSeq # t.inAck
           /\ o.socket = t2 /\ o.sent = <<m>>
  <2>1. t.state # "Closed"
    BY <1>5 DEF Connection, Unsynced, Synced
  <2>2. Fin(m) => t.state \notin Alive
    BY <1>3 DEF Alive
  <2>3. Connection(s, t, up \o <<m>>, down, w, g, z)
    BY <1>3, <1>5, <2>1, <2>2, AppendUp
  <2> DEFINE q == up \o <<m>>
  <2> HIDE DEF q
  <2>4. Connection(s, t2, q, down, w, g, z)
    BY <1>1, <2>3, ClientSame DEF q
  <2> QED BY <1>5, <2>4 DEF q
<1> QED BY <1>2, <1>4, <1>5

LEMMA ServerFires ==
  ASSUME NEW s \in Sockets, NEW t, NEW up, NEW down \in Seq(Segments),
         NEW w \in 0 .. ServerBytes, NEW g \in Seq(Int), NEW z,
         Connection(s, t, up, down, w, g, z), s.state \notin {"none", "TimeWait"},
         NEW e, NEW round, z = {} => e \notin round, NEW o \in Fired(e, s, w, round)
  PROVE  Connection(o.socket, t, up, down \o o.sent, w, g, z)
<1> DEFINE s2 == Acknowledged(s)
           m == FireSegment(e, s, w, round)
<1>1. s2.state = s.state /\ s2.outSeq = s.outSeq /\ s2.outAck = s.outAck /\ s2.outLen = s.outLen
  BY DEF Acknowledged, Sockets
<1>2. \/ o.socket \in {s, s2} /\ o.sent = << >>
      \/ o.socket = s2 /\ o.sent = <<m>>
  BY FiredOutcomes
<1>3. w \in Int
  BY TcpAssumption
<1>4. m \in Segments /\ ~Syn(m) /\ m.seq = s.outSeq /\ m.data = FireData(e, s, w, round)
  BY <1>3, FireSegmentFacts
<1>5. /\ Len(m.data) <= s.outLen
      /\ z = {} => \A k \in 1 .. Len(m.data) : m.data[k] = w - s.outLen + k
  BY <1>3, <1>4, FireDataFacts
<1> HIDE DEF s2, m
<1>6. CASE o.socket \in {s, s2} /\ o.sent = << >>
  <2>1. Connection(s2, t, up, down, w, g, z)
    BY <1>1, ServerSame
  <2>2. Connection(o.socket, t, up, down, w, g, z)
    BY <1>6, <2>1
  <2> QED BY <1>6, <2>2, EmptyAppend
<1>7. CASE o.socket = s2 /\ o.sent = <<m>>
  <2>1. Connection(s, t, up, down \o <<m>>, w, g, z)
    BY <1>4, <1>5, AppendDown
  <2> DEFINE q == down \o <<m>>
  <2> HIDE DEF q
  <2>2. Connection(s2, t, up, q, w, g, z)
    BY <1>1, <2>1, ServerSame DEF q
  <2> QED BY <1>7, <2>2 DEF q
<1> QED BY <1>2, <1>6, <1>7

\* What sendSimple sends of a socket that has been given up has a FIN.
LEMMA SimpleFacts ==
  ASSUME NEW s \in Sockets, NEW flags \in SUBSET Flags
  PROVE  /\ Simple(s, flags) \in Segments
         /\ Syn(Simple(s, flags)) <=> "syn" \in flags
         /\ Ack(Simple(s, flags)) <=> "ack" \in flags
         /\ Fin(Simple(s, flags)) =>
              "fin" \in flags \/ s.state \in {"Closed", "FinWait1", "FinWait2", "LastAck", "TimeWait"}
         /\ Simple(s, flags).seq = s.outSeq /\ Simple(s, flags).ack = s.inSeq
         /\ Simple(s, flags).data = << >>
<1>1. Simple(s, flags) \in Segments
  BY SimpleTyped
<1> QED BY <1>1 DEF Simple, Segment, Syn, Ack, Fin

-----------------------------------------------------------------------------
(* What each action does to the connections *)

LEMMA ConnectKeeps ==
  ASSUME Streams, NEW c \in Clients, Connect(c)
  PROVE  \A d \in Clients : ConnectionOf(d)'
<1> DEFINE e == Client(c)
           t == socket[e]
           t1 == Initial(t)
           t2 == [t1 EXCEPT !.outSeq = Plus(@, 1), !.state = "SynSent"]
           m == Simple(t1, {"syn"})
           up == wire[Server(c)]
<1>1. /\ e \in Ends /\ Peer(e) = Server(c) /\ t \in Sockets /\ t.state = "Closed"
  BY EndFacts, PeersOf DEF Connect, Initial, Streams, TypeOK
<1>2. Put(e, Tried(e, m, t2, t1)) /\ UNCHANGED <<written, lapped, got>>
  BY DEF Connect
<1>3. t1 \in Sockets /\ t1.state = "Closed" /\ t1.inSeq = t.inSeq /\ t1.inAck = t.inAck /\ t1.outLen = t.outLen
  BY <1>1, InitialTyped DEF Initial, Sockets
<1>4. t2.state = "SynSent" /\ t2.inSeq = t.inSeq /\ t2.inAck = t.inAck /\ t2.outLen = t.outLen
  BY <1>3 DEF Sockets
<1>5. Does(e, t2, up \o <<m>>, wire[e]) \/ Does(e, t1, up, wire[e])
  BY <1>1, <1>2, TriedDoes DEF Streams
<1>6. ~Ack(m)
  BY <1>3, SimpleFacts DEF Flags
<1> HIDE DEF t1, t2, m
<1>7. CASE Does(e, t1, up, wire[e])
  <2>1. Connection(socket[Server(c)], t1, up, wire[e], written[Server(c)], got[e], Round(c))
    BY <1>1, <1>3, Parts, ClientSame
  <2> QED BY <1>2, <1>7, <2>1, ClientDoes
<1>8. CASE Does(e, t2, up \o <<m>>, wire[e])
  <2>1. up = << >> /\ Connection(socket[Server(c)], t2, <<m>>, wire[e], written[Server(c)], got[e], Round(c))
    BY <1>1, <1>4, <1>6, Parts, Connected
  <2>2. up \o <<m>> = <<m>>
    BY <2>1
  <2>3. Connection(socket[Server(c)], t2, up \o <<m>>, wire[e], written[Server(c)], got[e], Round(c))
    BY <2>1, <2>2
  <2> QED BY <1>2, <1>8, <2>3, ClientDoes
<1> QED BY <1>5, <1>7, <1>8

LEMMA SendKeeps ==
  ASSUME Streams, NEW e \in Ends, Send(e)
  PROVE  /\ \A c \in Clients : ConnectionOf(c)'
         /\ \A c \in Clients : written'[Server(c)] <= ServerBytes
<1>0. PICK n \in 1 .. Bytes(e) - written[e] :
        LET s == [socket[e] EXCEPT !.outLen = @ + n]
        IN  /\ written' = [written EXCEPT ![e] = @ + n]
            /\ lapped' = Lapped(e, n)
            /\ Put(e, IF s.outLen >= FireLen THEN Fired(e, s, written[e] + n, Lapped(e, n))
                                             ELSE Quiet(s))
  BY DEF Send
<1> DEFINE s == socket[e]
           s2 == [s EXCEPT !.outLen = @ + n]
           outcomes == IF s2.outLen >= FireLen THEN Fired(e, s2, written[e] + n, Lapped(e, n))
                                               ELSE Quiet(s2)
<1>1. /\ s \in Sockets /\ s.state \in Alive /\ written[e] \in Nat
      /\ n \in Nat /\ n \in 1 .. Bytes(e) - written[e]
  BY DEF Send, Data, Alive, Streams, TypeOK
<1>2. /\ s2 \in Sockets /\ s2.state = s.state /\ s2.inSeq = s.inSeq
      /\ s2.outSeq = s.outSeq /\ s2.outAck = s.outAck /\ s2.outLen = s.outLen + n
  BY <1>1 DEF Sockets
<1>3. Put(e, outcomes) /\ written' = [written EXCEPT ![e] = @ + n] /\ UNCHANGED got
  BY <1>0 DEF Send
<1>11. lapped' = Lapped(e, n) /\ lapped \subseteq lapped' /\ lapped' \subseteq lapped \cup {e}
  BY <1>0 DEF Lapped
<1>4. \A o \in Quiet(s2) : o.socket = s2 /\ o.sent = << >>
  BY DEF Quiet, Outcome
<1> HIDE DEF s2
<1>5. PICK o \in outcomes : Does(e, o.socket, wire[Peer(e)] \o o.sent, wire[e])
  BY <1>3, PutDoes DEF Streams
<1>6. \/ o \in Fired(e, s2, written[e] + n, lapped')
      \/ o.socket = s2 /\ o.sent = << >>
  BY <1>4, <1>11
<1>7. written[e] + n \in Nat
  BY <1>1
<1>8. /\ written'[e] = written[e] + n
      /\ \A d \in Ends \ {e} : written'[d] = written[d]
  BY <1>3 DEF Streams, TypeOK
<1> HIDE DEF outcomes
<1>9. ASSUME NEW c \in Clients, e = Client(c)
      PROVE  /\ \A d \in Clients : ConnectionOf(d)'
             /\ \A d \in Clients : written'[Server(d)] <= ServerBytes
  <2>1. Connection(socket[Server(c)], s2, wire[Server(c)], wire[e], written[Server(c)], got[e], Round(c))
    BY <1>1, <1>2, <1>9, Parts, ClientSame DEF Alive
  <2>2. s2.state \notin {"none", "TimeWait"}
    BY <1>1, <1>2 DEF Alive
  <2>3. o \in Fired(e, s2, written[e] + n, lapped') =>
          Connection(socket[Server(c)], o.socket, wire[Server(c)] \o o.sent, wire[e],
                     written[Server(c)], got[e], Round(c))
    BY <1>2, <1>7, <1>9, <2>1, <2>2, Parts, ClientFires
  <2>4. Connection(socket[Server(c)], o.socket, wire[Server(c)] \o o.sent, wire[e],
                   written[Server(c)], got[e], Round(c))
    BY <1>6, <2>1, <2>3, Parts, EmptyAppend
  <2>5. \A d \in Clients : written'[Server(d)] = written[Server(d)]
    BY <1>8, <1>9, EndFacts
  <2>7. \A d \in Clients : Round(d)' = Round(d)
    BY <1>9, <1>11, EndFacts DEF Round
  <2>6. \A d \in Clients : ConnectionOf(d)'
    BY <1>3, <1>5, <1>9, <2>4, <2>5, <2>7, PeersOf, ClientDoesSo
  <2> QED BY <2>5, <2>6 DEF Streams
<1>10. ASSUME NEW c \in Clients, e = Server(c)
       PROVE  /\ \A d \in Clients : ConnectionOf(d)'
              /\ \A d \in Clients : written'[Server(d)] <= ServerBytes
  <2> DEFINE w == written[e] + n
             z == Round(c)'
  <2>9. z = {} => Round(c) = {} /\ e \notin lapped'
    BY <1>10, <1>11 DEF Round
  <2>10. \A d \in Clients \ {c} : Round(d)' = Round(d)
    BY <1>10, <1>11 DEF Round, Server
  <2> HIDE DEF z
  <2>1. Connection(s2, socket[Client(c)], wire[e], wire[Client(c)], w, got[Client(c)], z)
    BY <1>1, <1>2, <1>10, <2>9, Parts, Wrote
  <2>2. s2.state \notin {"none", "TimeWait"}
    BY <1>1, <1>2 DEF Alive
  <2>3. w \in 0 .. ServerBytes
    <3>1. Bytes(e) \in {0, ServerBytes}
      BY <1>10 DEF Bytes, Server
    <3> QED BY <1>1, <1>7, <3>1, TcpAssumption
  <2>4. w <= ServerBytes
    BY <2>3, TcpAssumption
  <2> HIDE DEF w
  <2>5. o \in Fired(e, s2, w, lapped') =>
          Connection(o.socket, socket[Client(c)], wire[e], wire[Client(c)] \o o.sent, w, got[Client(c)], z)
    BY <1>2, <1>10, <2>1, <2>2, <2>3, <2>9, Parts, ServerFires
  <2>6. Connection(o.socket, socket[Client(c)], wire[e], wire[Client(c)] \o o.sent, w, got[Client(c)], z)
    BY <1>6, <1>10, <2>1, <2>5, Parts, EmptyAppend DEF w
  <2>7. /\ \A d \in Clients \ {c} : written'[Server(d)] = written[Server(d)]
        /\ written'[Server(c)] = w
    BY <1>8, <1>10, EndFacts DEF w
  <2>8. \A d \in Clients : ConnectionOf(d)'
    BY <1>3, <1>5, <1>10, <2>6, <2>7, <2>10, PeersOf, ServerDoesSo DEF z
  <2> QED BY <2>4, <2>7, <2>8 DEF Streams
<1> QED BY <1>9, <1>10 DEF Ends

LEMMA ReceiveKeeps ==
  ASSUME Streams, NEW e \in Ends, Receive(e)
  PROVE  \A c \in Clients : ConnectionOf(c)'
<1> DEFINE s == socket[e]
           s2 == ByteQueueDequeue(s)
<1>1. s \in Sockets /\ s.state \in Alive
  BY DEF Receive, Data, Alive, Streams, TypeOK
<1>2. /\ s2.state = s.state /\ s2.inSeq = s.inSeq
      /\ s2.outSeq = s.outSeq /\ s2.outAck = s.outAck /\ s2.outLen = s.outLen
  BY <1>1 DEF Sockets, ByteQueueDequeue
<1>3. Does(e, s2, wire[Peer(e)], wire[e]) /\ UNCHANGED <<written, lapped, got>>
  BY DEF Receive, Does, Streams, TypeOK
<1> HIDE DEF s2
<1>4. ASSUME NEW c \in Clients, e = Client(c) PROVE \A d \in Clients : ConnectionOf(d)'
  <2>1. Connection(socket[Server(c)], s2, wire[Server(c)], wire[e], written[Server(c)], got[e], Round(c))
    BY <1>1, <1>2, <1>4, Parts, ClientSame DEF Alive
  <2> QED BY <1>3, <1>4, <2>1, PeersOf, ClientDoes
<1>5. ASSUME NEW c \in Clients, e = Server(c) PROVE \A d \in Clients : ConnectionOf(d)'
  <2>1. Connection(s2, socket[Client(c)], wire[e], wire[Client(c)], written[e], got[Client(c)], Round(c))
    BY <1>2, <1>5, Parts, ServerSame
  <2> QED BY <1>3, <1>5, <2>1, PeersOf, ServerDoes
<1> QED BY <1>4, <1>5 DEF Ends

LEMMA FireKeeps ==
  ASSUME Streams, NEW e \in Ends, Fire(e)
  PROVE  \A c \in Clients : ConnectionOf(c)'
<1>1. PICK o \in Fired(e, socket[e], written[e], lapped) :
        Does(e, o.socket, wire[Peer(e)] \o o.sent, wire[e])
  BY PutDoes DEF Fire, Streams
<1>2. /\ socket[e].state \notin {"none", "TimeWait"} /\ socket[e] \in Sockets
      /\ written[e] \in Int /\ UNCHANGED <<written, lapped, got>>
  BY DEF Fire, Streams, TypeOK
<1>3. ASSUME NEW c \in Clients, e = Client(c) PROVE \A d \in Clients : ConnectionOf(d)'
  <2>1. Connection(socket[Server(c)], o.socket, wire[Server(c)] \o o.sent, wire[e],
                   written[Server(c)], got[e], Round(c))
    BY <1>2, <1>3, Parts, ClientFires
  <2> QED BY <1>1, <1>2, <1>3, <2>1, PeersOf, ClientDoes
<1>4. ASSUME NEW c \in Clients, e = Server(c) PROVE \A d \in Clients : ConnectionOf(d)'
  <2>1. Connection(o.socket, socket[Client(c)], wire[e], wire[Client(c)] \o o.sent,
                   written[e], got[Client(c)], Round(c))
    BY <1>2, <1>4, Parts, ServerFires, NotRound
  <2> QED BY <1>1, <1>2, <1>4, <2>1, PeersOf, ServerDoes
<1> QED BY <1>3, <1>4 DEF Ends

LEMMA ExpireKeeps ==
  ASSUME Streams, NEW e \in Ends, Expire(e)
  PROVE  \A c \in Clients : ConnectionOf(c)'
<1>1. /\ Does(e, Gone, wire[Peer(e)], wire[e]) /\ UNCHANGED <<written, lapped, got>>
      /\ socket[e].state = "TimeWait"
  BY QuietDoes DEF Expire, Streams
<1>2. Gone.state = "none"
  BY DEF Gone, Fresh
<1>3. ASSUME NEW c \in Clients, e = Client(c) PROVE \A d \in Clients : ConnectionOf(d)'
  <2>1. Connection(socket[Server(c)], Gone, wire[Server(c)], wire[e], written[Server(c)], got[e], Round(c))
    BY <1>2, <1>3, Parts, ClientMoves DEF Alive
  <2> QED BY <1>1, <1>3, <2>1, PeersOf, ClientDoes
<1>4. ASSUME NEW c \in Clients, e = Server(c) PROVE \A d \in Clients : ConnectionOf(d)'
  <2>1. Connection(Gone, socket[Client(c)], wire[e], wire[Client(c)], written[e], got[Client(c)], Round(c))
    BY <1>1, <1>4, Parts, ServerGone DEF GivenUpStates
  <2> QED BY <1>1, <1>4, <2>1, PeersOf, ServerDoes
<1> QED BY <1>3, <1>4 DEF Ends

\* A client may give up before it has been answered; the accepted socket is
\* established by then.
LEMMA CloseKeeps ==
  ASSUME Streams, NEW e \in Ends, Close(e)
  PROVE  \A c \in Clients : ConnectionOf(c)'
<1> DEFINE s == socket[e]
           s2 == [s EXCEPT !.state = "FinWait1"]
<1>1. s \in Sockets /\ written[e] \in Int /\ UNCHANGED <<written, lapped, got>>
  BY DEF Close, Streams, TypeOK
<1>2. /\ s2 \in Sockets /\ s2.state = "FinWait1" /\ s2.inSeq = s.inSeq
      /\ s2.outSeq = s.outSeq /\ s2.outAck = s.outAck /\ s2.outLen = s.outLen
  BY <1>1 DEF Sockets, States, GivenUpStates
<1>3. CASE CloseActive(e)
  <2>1. PICK o \in Fired(e, s2, written[e], lapped) : Does(e, o.socket, wire[Peer(e)] \o o.sent, wire[e])
    BY <1>3, PutDoes DEF CloseActive, GivenUp, Streams
  <2>2. s.state \in {"Established", "SynSent"}
    BY <1>3 DEF CloseActive
  <2> HIDE DEF s2
  <2>3. ASSUME NEW c \in Clients, e = Client(c) PROVE \A d \in Clients : ConnectionOf(d)'
    <3>1. Connection(socket[Server(c)], s2, wire[Server(c)], wire[e], written[Server(c)], got[e], Round(c))
      BY <1>2, <2>2, <2>3, Parts, ClientMoves DEF Alive
    <3>2. Connection(socket[Server(c)], o.socket, wire[Server(c)] \o o.sent, wire[e],
                     written[Server(c)], got[e], Round(c))
      BY <1>1, <1>2, <2>3, <3>1, Parts, ClientFires
    <3> QED BY <1>1, <2>1, <2>3, <3>2, PeersOf, ClientDoes
  <2>4. ASSUME NEW c \in Clients, e = Server(c) PROVE \A d \in Clients : ConnectionOf(d)'
    <3>1. s.state = "Established"
      BY <2>2, <2>4, Parts DEF Connection, Handshake
    <3>2. Connection(s2, socket[Client(c)], wire[e], wire[Client(c)], written[e], got[Client(c)], Round(c))
      BY <1>2, <2>4, <3>1, Parts, ServerMoves DEF Alive, GivenUpStates
    <3>3. Connection(o.socket, socket[Client(c)], wire[e], wire[Client(c)] \o o.sent,
                     written[e], got[Client(c)], Round(c))
      BY <1>1, <1>2, <2>4, <3>2, Parts, ServerFires, NotRound
    <3> QED BY <1>1, <2>1, <2>4, <3>3, PeersOf, ServerDoes
  <2> QED BY <2>3, <2>4 DEF Ends
<1>4. CASE ClosePassive(e)
  <2> DEFINE fired == Fired(e, s, written[e], lapped)
  <2>1. \A o \in fired : DOMAIN o = {"socket", "sent", "failed"}
    BY DEF Fired, Tried, Quiet, Outcome
  <2>2. s.state = "CloseWait" /\ Typed(fired)
    BY <1>1, <1>4, FiredTyped DEF ClosePassive
  <2>3. Put(e, {[o EXCEPT !.socket.state = "LastAck"] : o \in fired})
    BY <1>4 DEF ClosePassive
  <2> HIDE DEF fired
  <2>4. PICK p \in {[o EXCEPT !.socket.state = "LastAck"] : o \in fired} :
          Does(e, p.socket, wire[Peer(e)] \o p.sent, wire[e])
    BY <2>3, PutDoes DEF Streams
  <2>5. PICK o \in fired : p = [o EXCEPT !.socket.state = "LastAck"]
    OBVIOUS
  <2> DEFINE s3 == [o.socket EXCEPT !.state = "LastAck"]
  <2>6. p.socket = s3 /\ p.sent = o.sent
    BY <2>1, <2>5
  <2>7. Does(e, s3, wire[Peer(e)] \o o.sent, wire[e])
    BY <2>4, <2>6
  <2>8. o.socket \in Sockets /\ o.sent \in Seq(Segments)
    BY <2>2 DEF Typed
  <2>9. /\ s3.state = "LastAck" /\ s3.inSeq = o.socket.inSeq /\ s3.outSeq = o.socket.outSeq
        /\ s3.outAck = o.socket.outAck /\ s3.outLen = o.socket.outLen
    BY <2>8 DEF Sockets
  <2>10. o.socket.state = "CloseWait"
    <3>1. o.socket \in {s, Acknowledged(s)}
      BY FiredOutcomes DEF fired
    <3>2. Acknowledged(s).state = s.state
      BY <1>1 DEF Acknowledged, Sockets
    <3> QED BY <2>2, <3>1, <3>2
  <2> HIDE DEF s3
  <2>11. ASSUME NEW c \in Clients, e = Client(c) PROVE \A d \in Clients : ConnectionOf(d)'
    <3>1. Connection(socket[Server(c)], o.socket, wire[Server(c)] \o o.sent, wire[e],
                     written[Server(c)], got[e], Round(c))
      BY <1>1, <2>2, <2>11, Parts, ClientFires DEF fired
    <3>2. Connection(socket[Server(c)], s3, wire[Server(c)] \o o.sent, wire[e],
                     written[Server(c)], got[e], Round(c))
      BY <2>9, <2>10, <3>1, ClientMoves DEF Alive
    <3> QED BY <1>1, <2>7, <2>11, <3>2, PeersOf, ClientDoes
  <2>12. ASSUME NEW c \in Clients, e = Server(c) PROVE \A d \in Clients : ConnectionOf(d)'
    <3>1. Connection(o.socket, socket[Client(c)], wire[e], wire[Client(c)] \o o.sent,
                     written[e], got[Client(c)], Round(c))
      BY <1>1, <2>2, <2>12, Parts, ServerFires, NotRound DEF fired
    <3>2. Connection(s3, socket[Client(c)], wire[e], wire[Client(c)] \o o.sent,
                     written[e], got[Client(c)], Round(c))
      BY <2>9, <2>10, <3>1, ServerMoves DEF Alive, GivenUpStates
    <3> QED BY <1>1, <2>7, <2>12, <3>2, PeersOf, ServerDoes
  <2> QED BY <2>11, <2>12 DEF Ends
<1>5. CASE CloseClosed(e)
  <2>1. s.state = "Closed" /\ Does(e, Gone, wire[Peer(e)], wire[e]) /\ Gone.state = "none"
    BY <1>5, QuietDoes DEF CloseClosed, Streams, Gone, Fresh
  <2>2. ASSUME NEW c \in Clients, e = Client(c) PROVE \A d \in Clients : ConnectionOf(d)'
    <3>1. Connection(socket[Server(c)], Gone, wire[Server(c)], wire[e], written[Server(c)], got[e], Round(c))
      BY <2>1, <2>2, Parts, ClientMoves DEF Alive
    <3> QED BY <1>1, <2>1, <2>2, <3>1, PeersOf, ClientDoes
  <2>3. ASSUME NEW c \in Clients, e = Server(c) PROVE FALSE
    BY <2>1, <2>3, Parts DEF Connection, Handshake
  <2> QED BY <2>2, <2>3 DEF Ends
<1> QED BY <1>3, <1>4, <1>5 DEF Close

-----------------------------------------------------------------------------
(* What the handler of a segment does to the connections *)

LEMMA NotedFacts ==
  ASSUME Streams, NEW e \in Ends, wire[e] # << >>
  PROVE  /\ Noted(e) \in Sockets /\ Noted(e).state = socket[e].state
         /\ Noted(e).inSeq = socket[e].inSeq /\ Noted(e).inAck = socket[e].inAck
         /\ Noted(e).outSeq = socket[e].outSeq /\ Noted(e).outAck = socket[e].outAck
         /\ Noted(e).outLen = socket[e].outLen
         /\ First(e) \in Segments /\ First(e) = wire[e][1] /\ 1 \in DOMAIN wire[e]
<1>1. TypeOK /\ socket[e] \in Sockets /\ wire[e] \in Seq(Segments)
  BY DEF Streams, TypeOK
<1>2. First(e) = wire[e][1] /\ 1 \in DOMAIN wire[e]
  BY <1>1, TailFacts DEF First
<1>3. Noted(e) = [socket[e] EXCEPT !.window = First(e).window]
  BY DEF Noted
<1> QED BY <1>1, <1>2, <1>3, FirstTyped DEF Sockets

\* Noting the window changes nothing of this.
LEMMA NotedKeeps ==
  ASSUME Streams, NEW c \in Clients
  PROVE  /\ wire[Client(c)] # << >> =>
              Connection(socket[Server(c)], Noted(Client(c)), wire[Server(c)], wire[Client(c)],
                         written[Server(c)], got[Client(c)], Round(c))
         /\ wire[Server(c)] # << >> =>
              Connection(Noted(Server(c)), socket[Client(c)], wire[Server(c)], wire[Client(c)],
                         written[Server(c)], got[Client(c)], Round(c))
<1>1. ASSUME wire[Client(c)] # << >>
      PROVE  Connection(socket[Server(c)], Noted(Client(c)), wire[Server(c)], wire[Client(c)],
                        written[Server(c)], got[Client(c)], Round(c))
  BY <1>1, EndFacts, NotedFacts, Parts, ClientSame
<1>2. ASSUME wire[Server(c)] # << >>
      PROVE  Connection(Noted(Server(c)), socket[Client(c)], wire[Server(c)], wire[Client(c)],
                        written[Server(c)], got[Client(c)], Round(c))
  BY <1>2, EndFacts, NotedFacts, Parts, ServerSame
<1> QED BY <1>1, <1>2

LEMMA LoseKeeps ==
  ASSUME Streams, NEW e \in Ends, Lose(e)
  PROVE  \A c \in Clients : ConnectionOf(c)'
<1>1. /\ Does(e, socket[e], wire[Peer(e)], Tail(wire[e])) /\ UNCHANGED <<written, lapped, got>>
      /\ wire[e] # << >>
  BY PeerFacts DEF Lose, Does, Streams, TypeOK
<1>2. ASSUME NEW c \in Clients, e = Client(c) PROVE \A d \in Clients : ConnectionOf(d)'
  <2>1. Connection(socket[Server(c)], socket[e], wire[Server(c)], Tail(wire[e]),
                   written[Server(c)], got[e], Round(c))
    BY <1>1, <1>2, Parts, DropDown
  <2> QED BY <1>1, <1>2, <2>1, PeersOf, ClientDoes
<1>3. ASSUME NEW c \in Clients, e = Server(c) PROVE \A d \in Clients : ConnectionOf(d)'
  <2>1. Connection(socket[e], socket[Client(c)], Tail(wire[e]), wire[Client(c)],
                   written[e], got[Client(c)], Round(c))
    BY <1>1, <1>3, Parts, DropUp
  <2> QED BY <1>1, <1>3, <2>1, PeersOf, ServerDoes
<1> QED BY <1>2, <1>3 DEF Ends

LEMMA IgnoreKeeps ==
  ASSUME Streams, NEW e \in Ends, Ignore(e)
  PROVE  \A c \in Clients : ConnectionOf(c)'
<1> DEFINE s == IF socket[e].state \in {"none", "Closed"} THEN socket[e] ELSE Noted(e)
<1>1. /\ Does(e, s, wire[Peer(e)], Tail(wire[e])) /\ UNCHANGED <<written, lapped, got>>
      /\ wire[e] # << >>
  BY QuietDoes DEF Ignore, Streams
<1>2. ASSUME NEW c \in Clients, e = Client(c) PROVE \A d \in Clients : ConnectionOf(d)'
  <2>1. Connection(socket[Server(c)], s, wire[Server(c)], wire[e], written[Server(c)], got[e], Round(c))
    BY <1>1, <1>2, Parts, NotedKeeps
  <2> HIDE DEF s
  <2>2. Connection(socket[Server(c)], s, wire[Server(c)], Tail(wire[e]),
                   written[Server(c)], got[e], Round(c))
    BY <1>1, <1>2, <2>1, Parts, DropDown
  <2> QED BY <1>1, <1>2, <2>2, PeersOf, ClientDoes
<1>3. ASSUME NEW c \in Clients, e = Server(c) PROVE \A d \in Clients : ConnectionOf(d)'
  <2>1. Connection(s, socket[Client(c)], wire[e], wire[Client(c)], written[e], got[Client(c)], Round(c))
    BY <1>1, <1>3, Parts, NotedKeeps
  <2> HIDE DEF s
  <2>2. Connection(s, socket[Client(c)], Tail(wire[e]), wire[Client(c)], written[e], got[Client(c)], Round(c))
    BY <1>1, <1>3, <2>1, Parts, DropUp
  <2> QED BY <1>1, <1>3, <2>2, PeersOf, ServerDoes
<1> QED BY <1>2, <1>3 DEF Ends

LEMMA ListenKeeps ==
  ASSUME Streams, NEW c \in Clients, Listen(c)
  PROVE  \A d \in Clients : ConnectionOf(d)'
<1> DEFINE e == Server(c)
           s == [Initial(Fresh) EXCEPT !.state = "SynReceived",
                   !.inSeq = Plus(First(e).seq, 1), !.inAck = First(e).seq]
           m == Simple(s, {"syn", "ack"})
           one == {Outcome(s, <<m>>, FALSE)}
           given == [s EXCEPT !.state = "FinWait1"]
           none == {[o EXCEPT !.failed = TRUE] : o \in GivenUp(e, s)}
           t == socket[Client(c)]
           up == wire[e]
           down == wire[Client(c)]
           w == written[e]
           g == got[Client(c)]
<1>1. /\ e \in Ends /\ up # << >> /\ socket[e].state = "none" /\ Syn(First(e))
      /\ UNCHANGED <<written, lapped, got>> /\ Peer(e) = Client(c) /\ w \in Int
  BY EndFacts, PeersOf DEF Listen, Welcome, In, Has, Syn, Streams, TypeOK
<1>2. First(e) \in Segments /\ First(e) = up[1]
  BY <1>1, NotedFacts
<1>3. /\ s \in Sockets /\ s.state = "SynReceived" /\ s.outSeq = FixedISN /\ s.outLen = 0
  <2>1. First(e).seq \in Numbers /\ Plus(First(e).seq, 1) \in Numbers
    BY <1>2, PlusNumber DEF Segments
  <2>2. Initial(Fresh) \in Sockets /\ Initial(Fresh).outSeq = FixedISN /\ Initial(Fresh).outLen = 0
    BY FreshTyped, InitialTyped DEF Initial, Fresh
  <2> HIDE DEF e
  <2> QED BY <2>1, <2>2 DEF Sockets, States
<1>4. Took(e, one) \/ Took(e, none)
  BY DEF Listen
<1> HIDE DEF s
<1>5. given \in Sockets /\ given.state = "FinWait1" /\ given.outSeq = FixedISN /\ given.outLen = 0
  BY <1>3 DEF Sockets, States, GivenUpStates
<1>6. CASE Took(e, one)
  <2>1. \A o \in one : o.socket = s /\ o.sent = <<m>>
    BY DEF Outcome
  <2> HIDE DEF one
  <2>2. Does(e, s, down \o <<m>>, Tail(up))
    BY <1>1, <1>6, <2>1, TookDoes DEF Streams
  <2>3. m.seq = FixedISN /\ m.data = << >>
    BY <1>3, SimpleFacts DEF Flags
  <2> HIDE DEF m
  <2>4. down = << >>
    BY <1>1, <1>2, Parts, FirstSyn
  <2>5. down \o <<m>> = <<m>>
    BY <2>4
  <2>6. Connection(s, t, Tail(up), <<m>>, w, g, Round(c))
    BY <1>1, <1>2, <1>3, <2>3, Parts, Listened
  <2>7. Connection(s, t, Tail(up), down \o <<m>>, w, g, Round(c))
    BY <2>5, <2>6
  <2> QED BY <1>1, <2>2, <2>7, ServerDoes
<1>7. CASE Took(e, none)
  <2> DEFINE fired == Fired(e, given, w, lapped)
  <2>1. none = {[o EXCEPT !.failed = TRUE] : o \in fired}
    BY DEF GivenUp
  <2>2. \A o \in fired : DOMAIN o = {"socket", "sent", "failed"}
    BY DEF Fired, Tried, Quiet, Outcome
  <2> HIDE DEF fired, none
  <2>3. PICK p \in none : Does(e, p.socket, down \o p.sent, Tail(up))
    BY <1>1, <1>7, TookDoes DEF Streams
  <2>4. PICK o \in fired : p = [o EXCEPT !.failed = TRUE]
    BY <2>1
  <2>5. p.socket = o.socket /\ p.sent = o.sent
    BY <2>2, <2>4
  <2> HIDE DEF given
  <2>6. Connection(given, t, Tail(up), down, w, g, Round(c))
    BY <1>1, <1>2, <1>5, Parts, Listened
  <2>7. Tail(up) \in Seq(Segments)
    BY <1>1, Parts, TailFacts
  <2>8. Connection(o.socket, t, Tail(up), down \o o.sent, w, g, Round(c))
    BY <1>5, <2>6, Parts, ServerFires, NotRound DEF fired
  <2> QED BY <1>1, <2>3, <2>5, <2>8, ServerDoes
<1> QED BY <1>4, <1>6, <1>7

\* Only a client sends a SYN of its own accord.
LEMMA SynSentKeeps ==
  ASSUME Streams, NEW e \in Ends, SynSent(e)
  PROVE  \A c \in Clients : ConnectionOf(c)'
<1> DEFINE s == [Noted(e) EXCEPT !.inSeq = First(e).seq, !.inAck = Plus(First(e).seq, -1)]
           sent == [s EXCEPT !.state = "Established"]
           m == Simple(s, {"syn", "ack"})
<1>1. /\ wire[e] # << >> /\ socket[e].state = "SynSent" /\ Syn(First(e))
      /\ Took(e, Tried(e, m, sent, s)) /\ UNCHANGED <<written, lapped, got>>
  BY DEF SynSent, In, Has, Syn
<1>2. First(e) \in Segments /\ First(e) = wire[e][1]
  BY <1>1, NotedFacts
<1>3. s \in Sockets /\ s.state = "SynSent" /\ s.inSeq = First(e).seq
  <2>1. First(e).seq \in Numbers /\ Plus(First(e).seq, -1) \in Numbers
    BY <1>2, PlusNumber DEF Segments
  <2>2. Noted(e) \in Sockets /\ Noted(e).state = "SynSent"
    BY <1>1, NotedFacts
  <2> QED BY <2>1, <2>2 DEF Sockets
<1> HIDE DEF s
<1>4. sent.state = "Established" /\ sent.inSeq = First(e).seq
  BY <1>3 DEF Sockets
<1>5. Syn(m) /\ Ack(m) /\ ~Fin(m) /\ m.ack = First(e).seq
  BY <1>3, SimpleFacts DEF Flags
<1>6. \/ Does(e, sent, wire[Peer(e)] \o <<m>>, Tail(wire[e]))
      \/ Does(e, s, wire[Peer(e)], Tail(wire[e]))
  BY <1>1, TriedDoes DEF Streams
<1> HIDE DEF sent, m
<1>7. ASSUME NEW c \in Clients, e = Client(c) PROVE \A d \in Clients : ConnectionOf(d)'
  <2>1. Connection(socket[Server(c)], s, wire[Server(c)], Tail(wire[e]), written[Server(c)], got[e], Round(c))
    BY <1>1, <1>2, <1>3, <1>7, Parts, Synchronised
  <2>2. Connection(socket[Server(c)], sent, wire[Server(c)] \o <<m>>, Tail(wire[e]),
                   written[Server(c)], got[e], Round(c))
    BY <1>1, <1>2, <1>4, <1>5, <1>7, Parts, Synchronised
  <2> QED BY <1>1, <1>6, <1>7, <2>1, <2>2, PeersOf, ClientDoes
<1>8. ASSUME NEW c \in Clients, e = Server(c) PROVE FALSE
  BY <1>1, <1>8, Parts DEF Connection, Handshake
<1> QED BY <1>7, <1>8 DEF Ends

LEMMA SynReceivedKeeps ==
  ASSUME Streams, NEW e \in Ends, SynReceived(e)
  PROVE  \A c \in Clients : ConnectionOf(c)'
<1> DEFINE s == [Noted(e) EXCEPT !.outAck = First(e).ack, !.state = "Established"]
<1>1. /\ wire[e] # << >> /\ socket[e].state = "SynReceived"
      /\ Ack(First(e)) /\ First(e).ack = socket[e].outSeq
      /\ Does(e, s, wire[Peer(e)], Tail(wire[e])) /\ UNCHANGED <<written, lapped, got>>
  BY QuietDoes DEF SynReceived, Acked, In, Has, Ack, Streams
<1>2. First(e) = wire[e][1]
  BY <1>1, NotedFacts
<1>3. /\ s.state = "Established" /\ s.outAck = socket[e].outSeq
      /\ s.outSeq = socket[e].outSeq /\ s.outLen = socket[e].outLen
  BY <1>1, NotedFacts DEF Sockets
<1> HIDE DEF s
<1>4. ASSUME NEW c \in Clients, e = Client(c) PROVE FALSE
  BY <1>1, <1>4, Parts DEF Connection, Handshake
<1>5. ASSUME NEW c \in Clients, e = Server(c) PROVE \A d \in Clients : ConnectionOf(d)'
  <2>1. Connection(s, socket[Client(c)], Tail(wire[e]), wire[Client(c)], written[e], got[Client(c)], Round(c))
    BY <1>1, <1>2, <1>3, <1>5, Parts, Opened
  <2> QED BY <1>1, <1>5, <2>1, PeersOf, ServerDoes
<1> QED BY <1>4, <1>5 DEF Ends

LEMMA RecordAckSame ==
  ASSUME NEW s \in Sockets, NEW ack
  PROVE  RecordAck(s, ack).inSeq = s.inSeq /\ RecordAck(s, ack).state = s.state
BY DEF RecordAck, ByteQueueDrop, Sockets

LEMMA EstablishedKeeps ==
  ASSUME Streams, NEW e \in Ends, Established(e)
  PROVE  \A c \in Clients : ConnectionOf(c)'
<1> DEFINE noted == Noted(e)
           acked == IF Has(e, "ack") THEN RecordAck(noted, First(e).ack) ELSE noted
           new == NewBytes(acked, First(e))
           s == [acked EXCEPT !.inLen = @ + Len(new), !.inSeq = Plus(@, Len(new))]
           closed == [s EXCEPT !.state = "CloseWait"]
           m == Simple(s, {"ack"})
           rest == Tail(wire[e])
<1>1. /\ wire[e] # << >> /\ socket[e].state \in Alive
      /\ got' = [got EXCEPT ![e] = @ \o new]
      /\ Took(e, IF Has(e, "fin") THEN Tried(e, m, closed, s) ELSE Quiet(s))
      /\ written' = written /\ lapped' = lapped
  BY DEF Established, Data, Alive
<1>2. /\ noted \in Sockets /\ noted.state \in Alive /\ First(e) = wire[e][1]
      /\ First(e) \in Segments
  BY <1>1, NotedFacts
<1> HIDE DEF noted
<1>3. acked \in Sockets /\ acked.state = noted.state /\ acked.inSeq = noted.inSeq
  BY <1>2, RecordAckTyped, RecordAckSame DEF Segments
<1>4. Has(e, "ack") <=> Ack(First(e))
  BY DEF Has, Ack
<1>5. \/ acked = noted
      \/ Ack(First(e)) /\ acked = RecordAck(noted, First(e).ack)
  BY <1>4
<1> HIDE DEF acked
<1>6. new \in Seq(Int) /\ acked.inLen + Len(new) \in 0 .. QueueSize
  BY <1>2, <1>3, NewBytesTyped
<1>7. /\ s \in Sockets /\ s.state = acked.state /\ s.inSeq = Plus(acked.inSeq, Len(new))
      /\ s.outSeq = acked.outSeq /\ s.outAck = acked.outAck /\ s.outLen = acked.outLen
  <2> HIDE DEF new
  <2>1. Len(new) \in Int /\ acked.inSeq \in Numbers
    BY <1>3, <1>6 DEF Sockets
  <2>2. Plus(acked.inSeq, Len(new)) \in Numbers
    BY <2>1, PlusNumber
  <2> QED BY <1>3, <1>6, <2>2 DEF Sockets
<1>8. new = NewBytes(acked, wire[e][1])
  BY <1>2
<1> HIDE DEF s, new
<1>9. /\ closed.state = "CloseWait" /\ closed.inSeq = s.inSeq /\ closed.outSeq = s.outSeq
      /\ closed.outAck = s.outAck /\ closed.outLen = s.outLen
  BY <1>7 DEF Sockets
<1>10. /\ m \in Segments /\ ~Syn(m) /\ m.ack = s.inSeq /\ m.seq = s.outSeq /\ m.data = << >>
       /\ ~Fin(m)
  BY <1>2, <1>3, <1>7, SimpleFacts DEF Flags, Alive
<1> HIDE DEF closed, m, rest
<1>11. \/ Does(e, closed, wire[Peer(e)] \o <<m>>, rest)
       \/ Does(e, s, wire[Peer(e)], rest)
  BY <1>1, TriedDoes, QuietDoes DEF Streams, rest
<1>12. got'[e] = got[e] \o new /\ \A d \in Ends \ {e} : got'[d] = got[d]
  BY <1>1 DEF Streams, TypeOK
<1>13. ASSUME NEW c \in Clients, e = Client(c) PROVE \A d \in Clients : ConnectionOf(d)'
  <2> DEFINE sv == socket[Server(c)]
             up == wire[Server(c)]
             w == written[Server(c)]
             g2 == got[e] \o new
  <2>1. /\ up \in Seq(Segments) /\ wire[e] \in Seq(Segments) /\ w \in 0 .. ServerBytes
        /\ got[e] \in Seq(Int) /\ g2 \in Seq(Int)
    BY <1>6, <1>13, Parts
  <2>2. Connection(sv, acked, up, wire[e], w, got[e], Round(c))
    <3>1. Connection(sv, noted, up, wire[e], w, got[e], Round(c))
      BY <1>1, <1>13, NotedKeeps DEF noted
    <3> QED BY <1>2, <1>3, <3>1, ClientSame DEF Alive
  <2> HIDE DEF sv, up, w
  <2>3. Connection(sv, s, up, wire[e], w, g2, Round(c))
    <3>1. acked.state \in Alive /\ s.state = acked.state
      BY <1>2, <1>3, <1>7
    <3>2. g2 = got[e] \o NewBytes(acked, wire[e][1]) /\ s.inSeq = Plus(acked.inSeq, Len(NewBytes(acked, wire[e][1])))
      BY <1>7, <1>8
    <3> HIDE DEF g2
    <3>3. wire[e] # << >> /\ acked \in Sockets
      BY <1>1, <1>3
    <3> QED BY ONLY <2>1, <2>2, <3>1, <3>2, <3>3, Delivered
  <2> HIDE DEF g2
  <2>4. Connection(sv, s, up, rest, w, g2, Round(c))
    BY <1>1, <2>1, <2>3, DropDown DEF rest
  <2>5. Connection(sv, closed, up \o <<m>>, rest, w, g2, Round(c))
    <3>1. Connection(sv, s, up \o <<m>>, rest, w, g2, Round(c))
      BY <1>2, <1>3, <1>7, <1>10, <2>1, <2>4, AppendUp DEF Alive
    <3> QED BY <1>2, <1>3, <1>7, <1>9, <3>1, ClientMoves DEF Alive
  <2>6. Connection(sv, closed, up \o <<m>>, rest, w, got'[e], Round(c))
        /\ Connection(sv, s, up, rest, w, got'[e], Round(c))
    BY <1>12, <2>4, <2>5 DEF g2
  <2>7. \A d \in Clients \ {c} : got'[Client(d)] = got[Client(d)]
    <3>1. \A d \in Clients \ {c} : Client(d) # e
      BY <1>13 DEF Client
    <3> QED BY <1>12, <3>1, EndFacts
  <2> QED BY <1>1, <1>11, <1>13, <2>6, <2>7, PeersOf, ClientDoes DEF sv, up, w
<1>14. ASSUME NEW c \in Clients, e = Server(c) PROVE \A d \in Clients : ConnectionOf(d)'
  <2> DEFINE t == socket[Client(c)]
             down == wire[Client(c)]
             w == written[e]
             g == got[Client(c)]
  <2>1. /\ down \in Seq(Segments) /\ wire[e] \in Seq(Segments) /\ w \in 0 .. ServerBytes
        /\ g \in Seq(Int)
    BY <1>14, Parts
  <2>2. Connection(noted, t, wire[e], down, w, g, Round(c))
    BY <1>1, <1>14, NotedKeeps DEF noted
  <2> HIDE DEF t, down, w, g
  <2>3. Connection(acked, t, wire[e], down, w, g, Round(c))
    BY <1>1, <1>2, <1>5, <2>1, <2>2, Recorded
  <2>4. Connection(s, t, wire[e], down, w, g, Round(c))
    BY <1>7, <2>3, ServerSame
  <2>5. Connection(s, t, rest, down, w, g, Round(c))
    BY <1>1, <2>1, <2>4, DropUp DEF rest
  <2>6. Connection(closed, t, rest, down \o <<m>>, w, g, Round(c))
    <3>1. /\ Len(m.data) = 0 /\ s.outLen \in Nat
          /\ \A k \in 1 .. Len(m.data) : m.data[k] = w - s.outLen + k
      BY <1>7, <1>10 DEF Sockets
    <3>2. Len(m.data) <= s.outLen /\ s.state \notin {"none", "TimeWait"}
      BY <1>2, <1>3, <1>7, <3>1 DEF Alive
    <3>3. Connection(s, t, rest, down \o <<m>>, w, g, Round(c))
      BY <1>7, <1>10, <2>1, <2>5, <3>1, <3>2, AppendDown
    <3> QED BY <1>2, <1>3, <1>7, <1>9, <3>3, ServerMoves DEF Alive
  <2>7. \A d \in Clients : got'[Client(d)] = got[Client(d)]
    BY <1>12, <1>14, EndFacts
  <2> QED BY <1>1, <1>11, <1>14, <2>5, <2>6, <2>7, PeersOf, ServerDoes DEF t, down, w, g
<1> QED BY <1>13, <1>14 DEF Ends

LEMMA FinWait1Keeps ==
  ASSUME Streams, NEW e \in Ends, FinWait1(e)
  PROVE  \A c \in Clients : ConnectionOf(c)'
<1> DEFINE noted == Noted(e)
           acked == [noted EXCEPT !.outAck = First(e).ack, !.state = "FinWait2"]
           closed == [noted EXCEPT !.outSeq = Plus(@, 2), !.state = "Closing"]
           m == Simple(noted, {"ack"})
           rest == Tail(wire[e])
<1>1. /\ wire[e] # << >> /\ socket[e].state = "FinWait1" /\ (Acked(e) \/ Fin(First(e)))
      /\ Took(e, IF Acked(e) THEN Quiet(acked) ELSE Tried(e, m, closed, noted))
      /\ UNCHANGED <<written, lapped, got>>
  BY DEF FinWait1, In, Has, Fin
<1>2. /\ noted \in Sockets /\ noted.state = "FinWait1"
      /\ First(e) = wire[e][1] /\ 1 \in DOMAIN wire[e]
  BY <1>1, NotedFacts
<1> HIDE DEF noted
<1>3. /\ acked.state = "FinWait2" /\ acked.inSeq = noted.inSeq
      /\ acked.outSeq = noted.outSeq /\ acked.outLen = noted.outLen
      /\ closed.state = "Closing" /\ closed.inSeq = noted.inSeq /\ closed.outLen = noted.outLen
  BY <1>2 DEF Sockets
<1>4. /\ m \in Segments /\ ~Syn(m) /\ m.ack = noted.inSeq /\ m.seq = noted.outSeq
      /\ m.data = << >>
  BY <1>2, SimpleFacts DEF Flags
<1> HIDE DEF acked, closed, m, rest
<1>5. \/ Does(e, acked, wire[Peer(e)], rest)
      \/ Fin(First(e)) /\ Does(e, closed, wire[Peer(e)] \o <<m>>, rest)
      \/ Does(e, noted, wire[Peer(e)], rest)
  BY <1>1, TriedDoes, QuietDoes DEF Streams, rest
<1>6. ASSUME NEW c \in Clients, e = Client(c) PROVE \A d \in Clients : ConnectionOf(d)'
  <2> DEFINE sv == socket[Server(c)]
             up == wire[Server(c)]
             w == written[Server(c)]
             g == got[e]
  <2>1. /\ up \in Seq(Segments) /\ wire[e] \in Seq(Segments) /\ w \in 0 .. ServerBytes
        /\ g \in Seq(Int)
    BY <1>6, Parts
  <2>2. Connection(sv, noted, up, wire[e], w, g, Round(c))
    BY <1>1, <1>6, NotedKeeps DEF noted
  <2> HIDE DEF sv, up, w, g
  <2>3. Connection(sv, noted, up, rest, w, g, Round(c))
    BY <1>1, <2>1, <2>2, DropDown DEF rest
  <2>4. Connection(sv, acked, up, rest, w, g, Round(c))
    BY <1>2, <1>3, <2>3, ClientMoves DEF Alive
  <2>5. Connection(sv, closed, up \o <<m>>, rest, w, g, Round(c))
    <3>1. Connection(sv, noted, up \o <<m>>, rest, w, g, Round(c))
      BY <1>2, <1>4, <2>1, <2>3, AppendUp DEF Alive
    <3> QED BY <1>2, <1>3, <3>1, ClientMoves DEF Alive
  <2> QED BY <1>1, <1>5, <1>6, <2>3, <2>4, <2>5, PeersOf, ClientDoes DEF sv, up, w, g
<1>7. ASSUME NEW c \in Clients, e = Server(c) PROVE \A d \in Clients : ConnectionOf(d)'
  <2> DEFINE t == socket[Client(c)]
             down == wire[Client(c)]
             w == written[e]
             g == got[Client(c)]
  <2>1. /\ down \in Seq(Segments) /\ wire[e] \in Seq(Segments) /\ w \in 0 .. ServerBytes
        /\ g \in Seq(Int)
    BY <1>7, Parts
  <2>2. Connection(noted, t, wire[e], down, w, g, Round(c))
    BY <1>1, <1>7, NotedKeeps DEF noted
  <2> HIDE DEF t, down, w, g
  <2>3. Connection(noted, t, rest, down, w, g, Round(c))
    BY <1>1, <2>1, <2>2, DropUp DEF rest
  <2>4. Connection(acked, t, rest, down, w, g, Round(c))
    BY <1>2, <1>3, <2>3, ServerMoves DEF Alive, GivenUpStates
  <2>5. ASSUME Fin(First(e)) PROVE Connection(closed, t, rest, down \o <<m>>, w, g, Round(c))
    <3>1. /\ Len(m.data) = 0 /\ noted.outLen \in Nat
          /\ \A k \in 1 .. Len(m.data) : m.data[k] = w - noted.outLen + k
      BY <1>2, <1>4 DEF Sockets
    <3>2. Len(m.data) <= noted.outLen
      BY <3>1
    <3>3. Connection(noted, t, wire[e], down \o <<m>>, w, g, Round(c))
      BY <1>2, <1>4, <2>1, <2>2, <3>1, <3>2, AppendDown
    <3>4. Connection(closed, t, wire[e], down \o <<m>>, w, g, Round(c))
      BY <1>2, <1>3, <2>5, <3>3, ServerMoves DEF Alive, GivenUpStates
    <3> QED BY <1>1, <2>1, <3>4, DropUp DEF rest
  <2> QED BY <1>1, <1>5, <1>7, <2>3, <2>4, <2>5, PeersOf, ServerDoes DEF t, down, w, g
<1> QED BY <1>6, <1>7 DEF Ends

LEMMA FinWait2Keeps ==
  ASSUME Streams, NEW e \in Ends, FinWait2(e)
  PROVE  \A c \in Clients : ConnectionOf(c)'
<1> DEFINE noted == Noted(e)
           closed == [noted EXCEPT !.inSeq = Plus(@, 1), !.state = "TimeWait"]
           m == Simple(noted, {"ack"})
           rest == Tail(wire[e])
<1>1. /\ wire[e] # << >> /\ socket[e].state = "FinWait2"
      /\ Took(e, Tried(e, m, closed, noted)) /\ UNCHANGED <<written, lapped, got>>
  BY DEF FinWait2, In
<1>2. noted \in Sockets /\ noted.state = "FinWait2"
  BY <1>1, NotedFacts
<1> HIDE DEF noted
<1>3. closed.state = "TimeWait" /\ closed.outLen = noted.outLen
  BY <1>2 DEF Sockets
<1>4. /\ m \in Segments /\ ~Syn(m) /\ m.ack = noted.inSeq /\ m.seq = noted.outSeq
      /\ m.data = << >>
  BY <1>2, SimpleFacts DEF Flags
<1> HIDE DEF closed, m, rest
<1>5. \/ Does(e, closed, wire[Peer(e)] \o <<m>>, rest)
      \/ Does(e, noted, wire[Peer(e)], rest)
  BY <1>1, TriedDoes DEF Streams, rest
<1>6. ASSUME NEW c \in Clients, e = Client(c) PROVE \A d \in Clients : ConnectionOf(d)'
  <2> DEFINE sv == socket[Server(c)]
             up == wire[Server(c)]
             w == written[Server(c)]
             g == got[e]
  <2>1. /\ up \in Seq(Segments) /\ wire[e] \in Seq(Segments) /\ w \in 0 .. ServerBytes
        /\ g \in Seq(Int)
    BY <1>6, Parts
  <2>2. Connection(sv, noted, up, wire[e], w, g, Round(c))
    BY <1>1, <1>6, NotedKeeps DEF noted
  <2> HIDE DEF sv, up, w, g
  <2>3. Connection(sv, noted, up, rest, w, g, Round(c))
    BY <1>1, <2>1, <2>2, DropDown DEF rest
  <2>4. Connection(sv, closed, up \o <<m>>, rest, w, g, Round(c))
    <3>1. Connection(sv, noted, up \o <<m>>, rest, w, g, Round(c))
      BY <1>2, <1>4, <2>1, <2>3, AppendUp DEF Alive
    <3> QED BY <1>2, <1>3, <3>1, ClientMoves DEF Alive
  <2> QED BY <1>1, <1>5, <1>6, <2>3, <2>4, PeersOf, ClientDoes DEF sv, up, w, g
<1>7. ASSUME NEW c \in Clients, e = Server(c) PROVE \A d \in Clients : ConnectionOf(d)'
  <2> DEFINE t == socket[Client(c)]
             down == wire[Client(c)]
             w == written[e]
             g == got[Client(c)]
  <2>1. /\ down \in Seq(Segments) /\ wire[e] \in Seq(Segments) /\ w \in 0 .. ServerBytes
        /\ g \in Seq(Int)
    BY <1>7, Parts
  <2>2. Connection(noted, t, wire[e], down, w, g, Round(c))
    BY <1>1, <1>7, NotedKeeps DEF noted
  <2> HIDE DEF t, down, w, g
  <2>3. Connection(noted, t, rest, down, w, g, Round(c))
    BY <1>1, <2>1, <2>2, DropUp DEF rest
  <2>4. Connection(closed, t, rest, down \o <<m>>, w, g, Round(c))
    <3>1. /\ Len(m.data) = 0 /\ noted.outLen \in Nat
          /\ \A k \in 1 .. Len(m.data) : m.data[k] = w - noted.outLen + k
      BY <1>2, <1>4 DEF Sockets
    <3>2. Len(m.data) <= noted.outLen
      BY <3>1
    <3>3. Connection(noted, t, rest, down \o <<m>>, w, g, Round(c))
      BY <1>2, <1>4, <2>1, <2>3, <3>1, <3>2, AppendDown
    <3> QED BY <1>2, <1>3, <3>3, ServerMoves DEF Alive, GivenUpStates
  <2> QED BY <1>1, <1>5, <1>7, <2>3, <2>4, PeersOf, ServerDoes DEF t, down, w, g
<1> QED BY <1>6, <1>7 DEF Ends

LEMMA ClosingKeeps ==
  ASSUME Streams, NEW e \in Ends, Closing(e)
  PROVE  \A c \in Clients : ConnectionOf(c)'
<1> DEFINE noted == Noted(e)
           acked == [noted EXCEPT !.outAck = First(e).ack, !.state = "TimeWait"]
           rest == Tail(wire[e])
<1>1. /\ wire[e] # << >> /\ socket[e].state = "Closing"
      /\ Does(e, acked, wire[Peer(e)], rest) /\ UNCHANGED <<written, lapped, got>>
  BY QuietDoes DEF Closing, In, Streams
<1>2. noted \in Sockets /\ noted.state = "Closing"
  BY <1>1, NotedFacts
<1> HIDE DEF noted
<1>3. acked.state = "TimeWait" /\ acked.outLen = noted.outLen
  BY <1>2 DEF Sockets
<1> HIDE DEF acked, rest
<1>4. ASSUME NEW c \in Clients, e = Client(c) PROVE \A d \in Clients : ConnectionOf(d)'
  <2>1. Connection(socket[Server(c)], noted, wire[Server(c)], wire[e], written[Server(c)], got[e], Round(c))
    BY <1>1, <1>4, NotedKeeps DEF noted
  <2>2. Connection(socket[Server(c)], noted, wire[Server(c)], rest, written[Server(c)], got[e], Round(c))
    BY <1>1, <1>4, <2>1, Parts, DropDown DEF rest
  <2>3. Connection(socket[Server(c)], acked, wire[Server(c)], rest, written[Server(c)], got[e], Round(c))
    BY <1>3, <2>2, ClientMoves DEF Alive
  <2> QED BY <1>1, <1>4, <2>3, PeersOf, ClientDoes
<1>5. ASSUME NEW c \in Clients, e = Server(c) PROVE \A d \in Clients : ConnectionOf(d)'
  <2>1. Connection(noted, socket[Client(c)], wire[e], wire[Client(c)], written[e], got[Client(c)], Round(c))
    BY <1>1, <1>5, NotedKeeps DEF noted
  <2>2. Connection(noted, socket[Client(c)], rest, wire[Client(c)], written[e], got[Client(c)], Round(c))
    BY <1>1, <1>5, <2>1, Parts, DropUp DEF rest
  <2>3. Connection(acked, socket[Client(c)], rest, wire[Client(c)], written[e], got[Client(c)], Round(c))
    BY <1>2, <1>3, <2>2, ServerMoves DEF Alive, GivenUpStates
  <2> QED BY <1>1, <1>5, <2>3, PeersOf, ServerDoes
<1> QED BY <1>4, <1>5 DEF Ends

\* The accepted socket goes away in LAST_ACK with an empty queue.
LEMMA LastAckKeeps ==
  ASSUME Streams, NEW e \in Ends, LastAck(e)
  PROVE  /\ \A c \in Clients : ConnectionOf(c)'
         /\ \A c \in Clients : e = Server(c) /\ socket'[e].state = "none"
              => Len(got[Client(c)]) = written[e]
<1> DEFINE noted == Noted(e)
           r == RecordAck(noted, First(e).ack)
           last == IF r.outLen = 0 THEN Gone ELSE [r EXCEPT !.outAck = First(e).ack]
           m == Simple(r, {"ack"})
           rest == Tail(wire[e])
<1>1. /\ wire[e] # << >> /\ socket[e].state = "LastAck" /\ Ack(First(e))
      /\ Took(e, Tried(e, m, last, r)) /\ UNCHANGED <<written, lapped, got>>
  BY DEF LastAck, In, Has, Ack
<1>2. /\ noted \in Sockets /\ noted.state = "LastAck" /\ First(e) \in Segments
      /\ First(e) = wire[e][1]
  BY <1>1, NotedFacts
<1> HIDE DEF noted
<1>3. r \in Sockets /\ r.state = "LastAck" /\ r.inSeq = noted.inSeq
  BY <1>2, RecordAckTyped, RecordAckSame DEF Segments
<1>4. r = RecordAck(noted, wire[e][1].ack)
  BY <1>2
<1> HIDE DEF r
<1>5. \/ r.outLen = 0 /\ last = Gone
      \/ /\ last.state = "LastAck" /\ last.inSeq = r.inSeq /\ last.outSeq = r.outSeq
         /\ last.outAck = First(e).ack /\ last.outLen = r.outLen
  BY <1>3 DEF Sockets
<1>6. /\ m \in Segments /\ ~Syn(m) /\ m.ack = r.inSeq /\ m.seq = r.outSeq /\ m.data = << >>
  BY <1>3, SimpleFacts DEF Flags
<1>7. Gone.state = "none"
  BY DEF Gone, Fresh
<1> HIDE DEF last, m, rest
<1>8. \/ Does(e, last, wire[Peer(e)] \o <<m>>, rest)
      \/ Does(e, r, wire[Peer(e)], rest)
  BY <1>1, TriedDoes DEF Streams, rest
<1>9. ASSUME NEW c \in Clients, e = Client(c) PROVE \A d \in Clients : ConnectionOf(d)'
  <2> DEFINE sv == socket[Server(c)]
             up == wire[Server(c)]
             w == written[Server(c)]
             g == got[e]
  <2>1. /\ up \in Seq(Segments) /\ wire[e] \in Seq(Segments) /\ w \in 0 .. ServerBytes
        /\ g \in Seq(Int)
    BY <1>9, Parts
  <2>2. Connection(sv, noted, up, wire[e], w, g, Round(c))
    BY <1>1, <1>9, NotedKeeps DEF noted
  <2> HIDE DEF sv, up, w, g
  <2>3. Connection(sv, r, up, wire[e], w, g, Round(c))
    BY <1>2, <1>3, <2>2, ClientMoves DEF Alive
  <2>4. Connection(sv, r, up, rest, w, g, Round(c))
    BY <1>1, <2>1, <2>3, DropDown DEF rest
  <2>5. Connection(sv, last, up \o <<m>>, rest, w, g, Round(c))
    <3>1. Connection(sv, r, up \o <<m>>, rest, w, g, Round(c))
      BY <1>3, <1>6, <2>1, <2>4, AppendUp DEF Alive
    <3> QED BY <1>3, <1>5, <1>7, <3>1, ClientMoves DEF Alive
  <2> QED BY <1>1, <1>8, <1>9, <2>4, <2>5, PeersOf, ClientDoes DEF sv, up, w, g
<1>10. ASSUME NEW c \in Clients, e = Server(c)
       PROVE  /\ \A d \in Clients : ConnectionOf(d)'
              /\ socket'[e].state = "none" => Len(got[Client(c)]) = written[e]
  <2> DEFINE t == socket[Client(c)]
             down == wire[Client(c)]
             w == written[e]
             g == got[Client(c)]
  <2>1. /\ down \in Seq(Segments) /\ wire[e] \in Seq(Segments) /\ w \in 0 .. ServerBytes
        /\ g \in Seq(Int)
    BY <1>10, Parts
  <2>2. Connection(noted, t, wire[e], down, w, g, Round(c))
    BY <1>1, <1>10, NotedKeeps DEF noted
  <2> HIDE DEF t, down, w, g
  <2>3. /\ Connection(r, t, wire[e], down, w, g, Round(c))
        /\ r.outAck = First(e).ack /\ w - r.outLen <= Len(g)
    <3>1. Connection(r, t, wire[e], down, w, g, Round(c))
      BY <1>1, <1>2, <1>4, <2>1, <2>2, Recorded
    <3>2. r.outAck = wire[e][1].ack
      BY <1>1, <1>2, <1>4, <2>1, <2>2, <3>1, Recorded
    <3>3. w - r.outLen <= Len(g)
      BY <1>1, <1>2, <1>4, <2>1, <2>2, <3>1, Recorded
    <3> QED BY <1>2, <3>1, <3>2, <3>3
  <2>4. Connection(r, t, rest, down, w, g, Round(c))
    BY <1>1, <2>1, <2>3, DropUp DEF rest
  <2>5. Connection(r, t, rest, down \o <<m>>, w, g, Round(c))
    <3>1. /\ Len(m.data) = 0 /\ r.outLen \in Nat
          /\ \A k \in 1 .. Len(m.data) : m.data[k] = w - r.outLen + k
      BY <1>3, <1>6 DEF Sockets
    <3>2. Len(m.data) <= r.outLen
      BY <3>1
    <3> QED BY <1>3, <1>6, <2>1, <2>4, <3>1, <3>2, AppendDown
  <2>6. Connection(last, t, rest, down \o <<m>>, w, g, Round(c))
    <3>1. CASE last = Gone
      BY <1>3, <2>5, <3>1, ServerGone DEF GivenUpStates
    <3>2. CASE /\ last.state = "LastAck" /\ last.outSeq = r.outSeq
               /\ last.outAck = First(e).ack /\ last.outLen = r.outLen
      BY <1>3, <2>3, <2>5, <3>2, ServerSame
    <3> QED BY <1>5, <3>1, <3>2
  <2>7. \A d \in Clients : ConnectionOf(d)'
    BY <1>1, <1>8, <1>10, <2>4, <2>6, PeersOf, ServerDoes DEF t, down, w, g
  <2>8. ASSUME socket'[e].state = "none" PROVE Len(g) = w
    <3>1. socket'[e] \in {last, r}
      BY <1>8 DEF Does
    <3>2. r.outLen = 0
      BY <1>3, <1>5, <2>8, <3>1
    <3>3. Len(g) <= w
      BY <1>3, <2>3 DEF Connection, Unsynced, Unused, Synced
    <3>4. Len(g) \in Nat /\ w \in Nat
      BY <2>1, TcpAssumption
    <3>5. w - 0 <= Len(g)
      BY <2>3, <3>2
    <3> QED BY ONLY <3>3, <3>4, <3>5
  <2> QED BY <2>7, <2>8 DEF w, g
<1> QED BY <1>9, <1>10, EndFacts DEF Ends

-----------------------------------------------------------------------------
LEMMA InitStreams == Init => Streams
<1> SUFFICES ASSUME Init PROVE Streams
  OBVIOUS
<1>1. TypeOK
  BY InitTyped
<1>2. \A c \in Clients : written[Server(c)] <= ServerBytes
  <2>1. 0 <= ServerBytes
    BY TcpAssumption
  <2>2. ASSUME NEW c \in Clients PROVE written[Server(c)] <= ServerBytes
    <3>1. Server(c) \in Ends /\ written = [e \in Ends |-> 0]
      BY EndFacts DEF Init
    <3>2. written[Server(c)] = 0
      BY ONLY <3>1, Zenon
    <3> QED BY ONLY <2>1, <3>2, Zenon
  <2> QED BY ONLY <2>2, Zenon
<1>3. ASSUME NEW c \in Clients PROVE ConnectionOf(c)
  <2>1. /\ socket[Client(c)] = Fresh /\ socket[Server(c)] = Gone
        /\ wire[Client(c)] = << >> /\ wire[Server(c)] = << >>
        /\ written[Server(c)] = 0 /\ got[Client(c)] = << >>
    BY EndFacts DEF Init, Client, Server
  <2>2. /\ Gone.state = "none" /\ Gone.outLen = 0
        /\ Fresh.state = "Closed" /\ Fresh.inSeq = 0 /\ Fresh.inAck = 0 /\ Fresh.outLen = 0
    BY DEF Gone, Fresh
  <2>3. DOMAIN << >> = {} /\ Len(<< >>) = 0
    OBVIOUS
  <2>4. Handshake(Gone, Fresh, << >>, << >>) /\ InOrder(<< >>, Round(c))
    BY <2>2, <2>3 DEF Handshake, InOrder
  <2>5. Unsynced(Gone, Fresh, << >>, << >>, 0, << >>)
    BY <2>2, <2>3 DEF Unsynced, Unused, Alive
  <2> QED BY <2>1, <2>4, <2>5 DEF ConnectionOf, Connection
<1> QED BY <1>1, <1>2, <1>3 DEF Streams

LEMMA NextStreams == Streams /\ [Next]_vars => Streams'
<1> SUFFICES ASSUME Streams, [Next]_vars PROVE Streams'
  OBVIOUS
<1>1. TypeOK'
  BY NextTyped DEF Streams
<1> DEFINE Keeps == \A c \in Clients : ConnectionOf(c)'
           Bounded == \A c \in Clients : written'[Server(c)] <= ServerBytes
<1>2. ASSUME written' = written PROVE Bounded
  BY <1>2 DEF Streams
<1>3. CASE \E c \in Clients : Connect(c) \/ Listen(c)
  <2>1. Keeps
    BY <1>3, ConnectKeeps, ListenKeeps
  <2>2. written' = written
    BY <1>3 DEF Connect, Listen
  <2> QED BY <1>1, <1>2, <2>1, <2>2 DEF Streams
<1>4. ASSUME UNCHANGED <<socket, wire, written, lapped, got>> PROVE Streams'
  BY <1>4 DEF Streams, TypeOK, ConnectionOf, Round
<1>5. ASSUME NEW e \in Ends, Send(e) PROVE Streams'
  BY <1>1, <1>5, SendKeeps DEF Streams
<1>6. ASSUME NEW e \in Ends,
             Receive(e) \/ Close(e) \/ Fire(e) \/ Expire(e) \/ Filter(e) \/ Lose(e)
      PROVE  Streams'
  <2>1. Keeps
    BY <1>6, ReceiveKeeps, CloseKeeps, FireKeeps, ExpireKeeps, SynSentKeeps, SynReceivedKeeps,
       EstablishedKeeps, FinWait1Keeps, FinWait2Keeps, ClosingKeeps, LastAckKeeps, IgnoreKeeps,
       LoseKeeps DEF Filter
  <2>2. written' = written
    BY <1>6 DEF Receive, Close, Fire, Expire, Filter, SynSent, SynReceived, Established,
       FinWait1, FinWait2, Closing, LastAck, Ignore, Lose
  <2> QED BY <1>1, <1>2, <2>1, <2>2 DEF Streams
<1>7. CASE Accept
  BY <1>4, <1>7 DEF Accept
<1>8. CASE UNCHANGED vars
  BY <1>4, <1>8 DEF vars
<1> QED BY <1>3, <1>5, <1>6, <1>7, <1>8 DEF Next

\* Both ends keep well-formed state: queue lengths and windows are within the
\* queue's size, and every number stays in its width (TcpSocket, Plus).
THEOREM EndsTyped == Spec => []TypeOK
<1> QED BY InitTyped, NextTyped, PTL DEF Spec

\* A byte leaves the queue of the accepted socket only when the client has
\* received it, whatever is lost, repeated or given up (recordAck, ByteQueueDrop).
THEOREM NothingDroppedEarly == Spec => []KeptUntilReceived
<1>1. Streams => KeptUntilReceived
  <2> SUFFICES ASSUME Streams, NEW c \in Clients, socket[Server(c)].state # "none"
               PROVE  written[Server(c)] - socket[Server(c)].outLen <= Len(got[Client(c)])
    BY DEF KeptUntilReceived
  <2> DEFINE s == socket[Server(c)]
             g == got[Client(c)]
             a == written[Server(c)] - s.outLen
  <2>1. Connection(s, socket[Client(c)], wire[Server(c)], wire[Client(c)], written[Server(c)], g, Round(c))
        /\ g \in Seq(Int)
    BY Parts
  <2> QED
    <3>1. CASE Unsynced(s, socket[Client(c)], wire[Server(c)], wire[Client(c)], written[Server(c)], g)
      <4>1. written[Server(c)] = 0 /\ s.outLen = 0 /\ Len(g) \in Nat
        BY <2>1, <3>1 DEF Unsynced, Unused
      <4> HIDE DEF s, g
      <4> QED BY <4>1 DEF s, g
    <3>2. CASE Synced(s, socket[Client(c)], wire[Server(c)], wire[Client(c)], written[Server(c)], g, Round(c))
      <4>1. a \in 0 .. Len(g) /\ Len(g) \in Nat
        BY <2>1, <3>2 DEF Synced, Sending
      <4> HIDE DEF a, g
      <4>2. a <= Len(g)
        BY <4>1
      <4> QED BY <4>2 DEF a, g
    <3> QED BY <2>1, <3>1, <3>2 DEF Connection
<1> QED BY <1>1, InitStreams, NextStreams, PTL DEF Spec

\* A client never receives more than was written to it.  As long as the queue of
\* the accepted socket has not gone round the end of its array, which takes more
\* than QUEUE_SIZE bytes with the queue never empty, what it has received is the
\* beginning of what was written: no byte is missing, changed places or came
\* twice (TcpFilterMethod, ESTABLISHED; ByteQueueEnqueue, ByteQueueRead).
ReceivedInOrder ==
  \A c \in Clients :
    /\ Len(got[Client(c)]) <= written[Server(c)]
    /\ Server(c) \notin lapped => \A k \in 1 .. Len(got[Client(c)]) : got[Client(c)][k] = k

\* A client receives what was written to it in the order in which it was written,
\* whatever is lost, repeated or given up, until the queue of the accepted socket
\* goes round; the number of the bytes is right even then.
THEOREM ClientsReceiveInOrder == Spec => []ReceivedInOrder
<1>1. ASSUME Streams PROVE ReceivedInOrder
  <2>1. ASSUME NEW c \in Clients
        PROVE  /\ Len(got[Client(c)]) <= written[Server(c)]
               /\ Server(c) \notin lapped =>
                    \A k \in 1 .. Len(got[Client(c)]) : got[Client(c)][k] = k
    <3> DEFINE g == got[Client(c)]
               w == written[Server(c)]
    <3>1. /\ Connection(socket[Server(c)], socket[Client(c)], wire[Server(c)], wire[Client(c)], w, g, Round(c))
          /\ w \in 0 .. ServerBytes /\ g \in Seq(Int)
      BY <1>1, Parts
    <3> HIDE DEF g, w
    <3>2. w \in Nat
      BY <3>1, TcpAssumption
    <3>3. Len(g) <= w
      BY <3>1, <3>2 DEF Connection, Unsynced, Unused, Synced
    <3>4. Server(c) \notin lapped => Round(c) = {}
      BY DEF Round
    <3>5. Server(c) \notin lapped => \A k \in 1 .. Len(g) : g[k] = k
      BY <3>1, <3>4 DEF Connection, InOrder
    <3> QED BY <3>3, <3>5 DEF g, w
  <2> QED BY ONLY <2>1, Zenon DEF ReceivedInOrder
<1> QED BY <1>1, InitStreams, NextStreams, PTL DEF Spec

\* The actions of an end leave the sockets of the others alone.
LEMMA OthersStay ==
  ASSUME TypeOK, NEW e \in Ends,
         Send(e) \/ Receive(e) \/ Close(e) \/ Fire(e) \/ Expire(e) \/ Filter(e) \/ Lose(e)
  PROVE  \A d \in Ends \ {e} : socket'[d] = socket[d]
<1>1. ASSUME NEW outcomes, Put(e, outcomes) \/ Took(e, outcomes)
      PROVE  \A d \in Ends \ {e} : socket'[d] = socket[d]
  BY <1>1, PutDoes, TookDoes DEF Does
<1>2. CASE Send(e) \/ Close(e) \/ Fire(e) \/ Expire(e)
  BY <1>1, <1>2 DEF Send, Close, CloseActive, ClosePassive, CloseClosed, Fire, Expire
<1>3. CASE Receive(e) \/ Lose(e)
  BY <1>3 DEF Receive, Lose, TypeOK
<1>4. CASE Filter(e)
  BY <1>1, <1>4 DEF Filter, SynSent, SynReceived, Established, FinWait1, FinWait2, Closing,
     LastAck, Ignore
<1> QED BY <1>2, <1>3, <1>4

\* Only the answer to its FIN lets a socket go away in LAST_ACK.
LEMMA LeavesLastAck ==
  ASSUME TypeOK, [Next]_vars, NEW c \in Clients,
         socket[Server(c)].state = "LastAck", socket'[Server(c)].state = "none"
  PROVE  LastAck(Server(c))
<1> DEFINE e == Server(c)
<1>1. e \in Ends /\ socket[e] \in Sockets
  BY EndFacts DEF TypeOK
<1>2. socket'[e] # socket[e]
  OBVIOUS
<1>3. ~UNCHANGED vars
  BY <1>2 DEF vars
<1>4. ASSUME NEW d \in Clients PROVE ~Connect(d) /\ ~Listen(d)
  <2>1. ASSUME Connect(d) PROVE FALSE
    <3>1. PICK o : Does(Client(d), o.socket, wire[Peer(Client(d))] \o o.sent, wire[Client(d)])
      BY <2>1, EndFacts, PutDoes DEF Connect
    <3> QED BY <1>1, <1>2, <3>1, EndFacts DEF Does
  <2>2. ASSUME Listen(d) PROVE FALSE
    <3>1. PICK o : Does(Server(d), o.socket, wire[Peer(Server(d))] \o o.sent, Tail(wire[Server(d)]))
      BY <2>2, EndFacts, TookDoes DEF Listen
    <3>2. Server(d) = e
      BY <1>1, <1>2, <3>1 DEF Does
    <3>3. socket[e].state = "none"
      BY <2>2, <3>2 DEF Listen, Welcome, In
    <3> QED BY <3>3
  <2> QED BY <2>1, <2>2
<1>5. ~Accept
  BY <1>2 DEF Accept
<1>6. PICK d \in Ends :
        Send(d) \/ Receive(d) \/ Close(d) \/ Fire(d) \/ Expire(d) \/ Filter(d) \/ Lose(d)
  BY <1>3, <1>4, <1>5 DEF Next
<1>7. d = e
  BY <1>1, <1>2, <1>6, OthersStay
<1>8. ~Send(e) /\ ~Receive(e) /\ ~Close(e) /\ ~Expire(e) /\ ~Lose(e)
  BY <1>2 DEF Send, Receive, Data, Close, CloseActive, ClosePassive, CloseClosed, Expire, Lose
<1>9. ~Fire(e)
  <2> SUFFICES ASSUME Fire(e) PROVE FALSE
    OBVIOUS
  <2>1. PICK o \in Fired(e, socket[e], written[e], lapped) :
          Does(e, o.socket, wire[Peer(e)] \o o.sent, wire[e])
    BY <1>1, PutDoes DEF Fire
  <2>2. o.socket \in {socket[e], Acknowledged(socket[e])}
    BY FiredOutcomes
  <2>3. Acknowledged(socket[e]).state = "LastAck"
    BY <1>1 DEF Acknowledged, Sockets
  <2> QED BY <2>1, <2>2, <2>3 DEF Does
<1>10. ~Ignore(e)
  <2> SUFFICES ASSUME Ignore(e) PROVE FALSE
    OBVIOUS
  <2>1. wire[e] # << >> /\ Took(e, Quiet(Noted(e)))
    BY DEF Ignore
  <2>2. socket'[e] = Noted(e) /\ Noted(e).state = "LastAck"
    BY <1>1, <2>1, QuietDoes, FirstTyped DEF Does
  <2> QED BY <2>2
<1> QED BY <1>6, <1>7, <1>8, <1>9, <1>10
        DEF Filter, SynSent, SynReceived, Established, FinWait1, FinWait2, Closing, In, Data

\* An accepted socket that answered the client's close leaves LAST_ACK only when
\* the client has received all that was written to it (TcpFilterMethod, LAST_ACK).
THEOREM PassiveCloseCompletes == Spec => PassiveCloseIsComplete
<1> DEFINE Complete ==
      \A c \in Clients :
        socket[Server(c)].state = "LastAck" /\ socket'[Server(c)].state = "none"
          => Len(got'[Client(c)]) = written[Server(c)]
<1>1. Streams /\ [Next]_vars => [Complete]_vars
  <2> SUFFICES ASSUME Streams, [Next]_vars, NEW c \in Clients,
                      socket[Server(c)].state = "LastAck", socket'[Server(c)].state = "none"
               PROVE  Len(got'[Client(c)]) = written[Server(c)]
    OBVIOUS
  <2>1. LastAck(Server(c))
    BY LeavesLastAck DEF Streams
  <2>2. Len(got[Client(c)]) = written[Server(c)]
    BY <2>1, EndFacts, LastAckKeeps
  <2> QED BY <2>1, <2>2 DEF LastAck
<1>2. PassiveCloseIsComplete <=> [][Complete]_vars
  BY DEF PassiveCloseIsComplete
<1> HIDE DEF Complete
<1> QED BY <1>1, <1>2, InitStreams, NextStreams, PTL DEF Spec
=============================================================================
