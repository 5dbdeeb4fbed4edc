----------------------------- MODULE ShmRouter -----------------------------
(***************************************************************************)
(* The router (libs/router), its shared-memory interface (libs/iface-shm)  *)
(* and the process at the other end (aux/iface-shm-outside).               *)
(*                                                                         *)
(* The two processes share a block with a buffer for each direction and    *)
(* tell each other by signals.  A signal that is pending already is not    *)
(* sent again; those to the router reach it as datagrams on its two        *)
(* interrupt sockets.  The outside's handler interrupts its main loop.     *)
(*                                                                         *)
(* Packets to the outside are a count: which of them the outside finds in  *)
(* the buffer is not part of any property here.  What becomes of a packet  *)
(* on the way to the send method is the filter's and IpReceiveOn's choice. *)
(***************************************************************************)
EXTENDS Integers, Sequences

CONSTANTS QueueSize,    \* capacity of the interface's queues
          MaxOut,       \* BOUND: packets that contexts send to the outside
          MaxIn,        \* BOUND: packets the outside reads from its device
          MaxCrashes,   \* BOUND: times the outside process ends
          Torn          \* a buffer that is being written

ASSUME ShmAssumption ==
  /\ QueueSize \in Nat \ {0}
  /\ MaxOut \in Nat /\ MaxIn \in Nat /\ MaxCrashes \in Nat
  /\ Torn \notin Nat

VARIABLES router,       \* where the router's loop is
          queued,       \* length of context.send.q
          received,     \* context.receive.q
          held,         \* length of the native interface's queue
          signalled,    \* context.send.signalled
          sendValid,    \* block->send.buff.valid
          buff,         \* block->receive.buff
          pid,          \* whose block->outsidePid is: "None", "Live" or "Dead"
          toRouter, toOutside,  \* pending signals
          main,         \* where the outside's main function is
          handler,      \* where its signal handler is
          canSend,      \* canSendToPackos
          out, in,      \* packets sent to and read from the outside so far
          passed,       \* packets that the outside put into the block
          arrived,      \* packets that the router took from the interface
          crashes

routing == <<router, queued, received, held, signalled, arrived, out>>
outside == <<main, handler, canSend, in, passed, crashes>>
block   == <<sendValid, buff, pid>>
vars    == <<routing, outside, block, toRouter, toOutside>>

\* halfOpen, and the rest of IpIfaceShmNew.
Opened == queued = 0 /\ received = << >>
Shared == sendValid = FALSE /\ buff = 0 /\ pid = "None" /\ signalled = TRUE

\* routerProcess up to its loop; the outside is started some time later.
Init ==
  /\ router = "Loop"
  /\ Opened /\ Shared
  /\ held = 0
  /\ toRouter = {} /\ toOutside = {}
  /\ main = "Down"
  /\ handler = "Idle"
  /\ canSend = TRUE
  /\ out = 0 /\ in = 0
  /\ passed = << >> /\ arrived = << >>
  /\ crashes = 0

\* kill(block->outsidePid,...): a process that has ended is not told.
TellOutside(s) == toOutside' = IF pid = "Live" THEN toOutside \cup {s} ELSE toOutside
TellRouter(s)  == toRouter' = toRouter \cup {s}

-----------------------------------------------------------------------------
(* To the outside: send and IpIfaceShmOnSendInterrupt *)

Enqueue(n) == IF n < QueueSize THEN n + 1 ELSE n

\* The packet goes into the buffer or on the queue; it is dropped when the
\* queue is full.
SendOn ==
  IF signalled
  THEN router' = "SendMark" /\ UNCHANGED queued
  ELSE router' = "Loop" /\ queued' = Enqueue(queued)

\* A context's datagram is for the other interface (filterMethod).
Forward ==
  /\ router = "Loop" /\ out < MaxOut
  /\ out' = out + 1
  /\ SendOn
  /\ UNCHANGED <<received, held, signalled, arrived, outside, block, toRouter, toOutside>>

\* The loop asks for UDP: a packet of another protocol stays on the native
\* interface's queue, and when that is full the router returns.
Hold ==
  /\ router = "Loop" /\ out < MaxOut
  /\ out' = out + 1
  /\ IF held < QueueSize
     THEN held' = held + 1 /\ UNCHANGED router
     ELSE router' = "Ended" /\ UNCHANGED held
  /\ UNCHANGED <<queued, received, signalled, arrived, outside, block, toRouter, toOutside>>

SendMark ==
  /\ router = "SendMark"
  /\ router' = "SendTell"
  /\ sendValid' = TRUE
  /\ signalled' = FALSE
  /\ UNCHANGED <<queued, received, held, arrived, out, outside, buff, pid, toRouter, toOutside>>

SendTell ==
  /\ router = "SendTell"
  /\ router' = "Loop"
  /\ TellOutside("send")
  /\ UNCHANGED <<queued, received, held, signalled, arrived, out, outside, block, toRouter>>

OnSendInterrupt ==
  /\ router = "Loop" /\ "send" \in toRouter
  /\ toRouter' = toRouter \ {"send"}
  /\ IF queued = 0
     THEN /\ signalled' = TRUE
          /\ UNCHANGED <<router, queued>>
     ELSE /\ queued' = queued - 1
          /\ router' = "DrainMark"
          /\ UNCHANGED signalled
  /\ UNCHANGED <<received, held, arrived, out, outside, block, toOutside>>

DrainMark ==
  /\ router = "DrainMark"
  /\ router' = "DrainTell"
  /\ sendValid' = TRUE
  /\ UNCHANGED <<queued, received, held, signalled, arrived, out, outside, buff, pid,
                 toRouter, toOutside>>

DrainTell ==
  /\ router = "DrainTell"
  /\ router' = "Loop"
  /\ signalled' = IF pid = "None" THEN signalled ELSE TRUE
  /\ TellOutside("send")
  /\ UNCHANGED <<queued, received, held, arrived, out, outside, block, toRouter>>

-----------------------------------------------------------------------------
(* From the outside: IpIfaceShmOnReceiveInterrupt and IpReceiveOn *)

\* Variant to reject: the outside is told before the buffer has been copied.
OnReceiveInterruptTellingFirst ==
  /\ router = "Loop" /\ "receive" \in toRouter
  /\ toRouter' = toRouter \ {"receive"}
  /\ router' = "Take"
  /\ TellOutside("receive")
  /\ UNCHANGED <<queued, received, held, signalled, arrived, out, outside, block>>

OnReceiveInterrupt ==
  /\ router = "Loop" /\ "receive" \in toRouter
  /\ toRouter' = toRouter \ {"receive"}
  /\ router' = "Take"
  /\ UNCHANGED <<queued, received, held, signalled, arrived, out, outside, block, toOutside>>

\* No packet can be allocated, or the queue is full: the router returns.
TakeFails ==
  /\ router = "Take"
  /\ router' = "Ended"
  /\ UNCHANGED <<queued, received, held, signalled, arrived, out, outside, block,
                 toRouter, toOutside>>

Take ==
  /\ router = "Take"
  /\ Len(received) < QueueSize
  /\ received' = Append(received, buff)
  /\ router' = "TakeTell"
  /\ UNCHANGED <<queued, held, signalled, arrived, out, outside, block, toRouter, toOutside>>

TakeTell ==
  /\ router = "TakeTell"
  /\ router' = "Receive"
  /\ TellOutside("receive")
  /\ UNCHANGED <<queued, received, held, signalled, arrived, out, outside, block, toRouter>>

\* receive: the packet leaves the interface.
Leaves ==
  /\ received' = Tail(received)
  /\ arrived' = Append(arrived, Head(received))

\* Its hop limit is used up, or the filter forwards or drops it.
FilteredOut == router' = "Loop" /\ UNCHANGED queued

\* It is not of protocol 0, as asked for, nor is there another one.
Unexpected == router' = "Ended" /\ UNCHANGED queued

\* There may be no such context: then an ICMP error goes back.
Receive ==
  /\ router = "Receive"
  /\ Leaves
  /\ FilteredOut \/ SendOn \/ Unexpected
  /\ UNCHANGED <<held, signalled, out, outside, block, toRouter, toOutside>>

-----------------------------------------------------------------------------
(* The outside *)

Start ==
  /\ main = "Down"
  /\ main' = IF sendValid THEN "Attached" ELSE "Register"
  /\ handler' = IF sendValid THEN "Deliver" ELSE "Idle"
  /\ canSend' = TRUE
  /\ UNCHANGED <<routing, in, passed, crashes, block, toRouter, toOutside>>

Attached ==
  /\ main = "Attached" /\ handler = "Idle"
  /\ main' = "Register"
  /\ UNCHANGED <<routing, handler, canSend, in, passed, crashes, block, toRouter, toOutside>>

Register ==
  /\ main = "Register"
  /\ main' = "Announce"
  /\ pid' = "Live"
  /\ UNCHANGED <<routing, handler, canSend, in, passed, crashes, sendValid, buff,
                 toRouter, toOutside>>

\* Variant to reject: the router is not told that the outside is there.
AnnounceNothing ==
  /\ main = "Announce" /\ handler = "Idle"
  /\ main' = "Read"
  /\ UNCHANGED <<routing, handler, canSend, in, passed, crashes, block, toRouter, toOutside>>

Announce ==
  /\ main = "Announce" /\ handler = "Idle"
  /\ main' = "Read"
  /\ TellRouter("send")
  /\ UNCHANGED <<routing, handler, canSend, in, passed, crashes, block, toOutside>>

\* sendPacket; a packet that comes too soon is dropped.
Read ==
  /\ main = "Read" /\ handler = "Idle" /\ in < MaxIn
  /\ in' = in + 1
  /\ IF canSend
     THEN main' = "Mark" /\ buff' = Torn
     ELSE UNCHANGED <<main, buff>>
  /\ UNCHANGED <<routing, handler, canSend, passed, crashes, sendValid, pid,
                 toRouter, toOutside>>

Mark ==
  /\ main = "Mark" /\ handler = "Idle"
  /\ main' = "Tell"
  /\ buff' = in
  /\ canSend' = FALSE
  /\ passed' = Append(passed, in)
  /\ UNCHANGED <<routing, handler, in, crashes, sendValid, pid, toRouter, toOutside>>

Tell ==
  /\ main = "Tell" /\ handler = "Idle"
  /\ main' = "Read"
  /\ TellRouter("receive")
  /\ UNCHANGED <<routing, handler, canSend, in, passed, crashes, block, toOutside>>

\* signalHandler; the other signal waits meanwhile.
OnReceiveSignal ==
  /\ handler = "Idle" /\ "receive" \in toOutside
  /\ toOutside' = toOutside \ {"receive"}
  /\ canSend' = TRUE
  /\ UNCHANGED <<routing, main, handler, in, passed, crashes, block, toRouter>>

OnSendSignal ==
  /\ handler = "Idle" /\ "send" \in toOutside
  /\ toOutside' = toOutside \ {"send"}
  /\ handler' = IF sendValid THEN "Deliver" ELSE "Idle"
  /\ UNCHANGED <<routing, main, canSend, in, passed, crashes, block, toRouter>>

Deliver ==
  /\ handler = "Deliver"
  /\ handler' = "Tell"
  /\ sendValid' = FALSE
  /\ UNCHANGED <<routing, main, canSend, in, passed, crashes, buff, pid, toRouter, toOutside>>

DeliverTell ==
  /\ handler = "Tell"
  /\ handler' = "Idle"
  /\ TellRouter("send")
  /\ UNCHANGED <<routing, main, canSend, in, passed, crashes, block, toOutside>>

\* The process ends anywhere; the block stays.
Crash ==
  /\ main # "Down" /\ crashes < MaxCrashes
  /\ crashes' = crashes + 1
  /\ main' = "Down"
  /\ handler' = "Idle"
  /\ toOutside' = {}
  /\ pid' = IF pid = "None" THEN "None" ELSE "Dead"
  /\ UNCHANGED <<routing, canSend, in, passed, sendValid, buff, toRouter>>

-----------------------------------------------------------------------------
RouterStep ==
  \/ SendMark \/ SendTell \/ DrainMark \/ DrainTell
  \/ TakeFails \/ Take \/ TakeTell \/ Receive
MainStep == Start \/ Attached \/ Register \/ Announce \/ Mark \/ Tell
HandlerStep == OnReceiveSignal \/ OnSendSignal \/ Deliver \/ DeliverTell

Next ==
  \/ Forward \/ Hold \/ OnSendInterrupt \/ OnReceiveInterrupt \/ RouterStep
  \/ Read \/ MainStep \/ HandlerStep \/ Crash

Spec == Init /\ [][Next]_vars

\* The router's mailbox is in order, so an interrupt's datagram gets its turn;
\* both processes keep running, and the outside is started again if it ends.
Fairness ==
  /\ WF_vars(RouterStep) /\ SF_vars(OnSendInterrupt) /\ SF_vars(OnReceiveInterrupt)
  /\ SF_vars(MainStep) /\ WF_vars(HandlerStep)

FairSpec == Spec /\ Fairness

-----------------------------------------------------------------------------
(* Properties *)

Up == main \in {"Read", "Mark", "Tell"}

\* canSendToPackos and the receive signals are a handshake: as long as the
\* outside process is not restarted, what the router takes from the interface
\* is what the outside put into the block, whole, once and in order, and the
\* outside is never ahead by more than one.
ReceivedAsPassed ==
  crashes = 0 =>
    LET taken == arrived \o received IN
    /\ Len(taken) <= Len(passed) /\ Len(passed) <= Len(taken) + 1
    /\ taken = SubSeq(passed, 1, Len(taken))

\* A packet is queued because the outside still has to signal: whenever the
\* outside is up and no signal is under way, nothing is queued, and the next
\* packet goes straight into the buffer.  No order of signals, coalesced ones
\* and a restart included, leaves a packet behind (send, OnSendInterrupt,
\* packetFromPackos).
QuietMeansDrained ==
  (/\ Up /\ handler = "Idle" /\ router = "Loop"
   /\ toRouter = {} /\ toOutside = {})
  => queued = 0 /\ signalled

\* A full queue empties again, unless the router ends.
QueueDrains == (queued = QueueSize) ~> (queued < QueueSize \/ router = "Ended")
=============================================================================
