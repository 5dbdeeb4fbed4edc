----------------------------- MODULE PortQueues -----------------------------
(***************************************************************************)
(* What UDP promises the programs of a context: the packets for a port are *)
(* received in the order in which they arrived, each at most once and each *)
(* at its own port.  Packets may be lost.  What the context sends to       *)
(* itself does not queue up behind what comes from others.                 *)
(***************************************************************************)
EXTENDS Naturals, Sequences, SequencesExt, Subsequences

CONSTANTS Packets, Ports

VARIABLES waiting,   \* for each port, the packets on their way to a program
          received   \* for each port, those that programs received and hold

vars == <<waiting, received>>

Init ==
  /\ waiting = [port \in Ports |-> << >>]
  /\ received = [port \in Ports |-> {}]

Known(p) == \E port \in Ports : p \in received[port] \cup ToSet(waiting[port])

Arrive(p, port) ==
  /\ ~Known(p)
  /\ waiting' = [waiting EXCEPT ![port] = Append(@, p)]
  /\ UNCHANGED received

SendToSelf(p, port) ==
  /\ ~Known(p)
  /\ \E k \in 1 .. Len(waiting[port]) + 1 :
       waiting' = [waiting EXCEPT ![port] = InsertAt(@, k, p)]
  /\ UNCHANGED received

Receive(port) ==
  /\ waiting[port] # << >>
  /\ received' = [received EXCEPT ![port] = @ \cup {Head(waiting[port])}]
  /\ waiting' = [waiting EXCEPT ![port] = Tail(@)]

Free(p, port) ==
  /\ p \in received[port]
  /\ received' = [received EXCEPT ![port] = @ \ {p}]
  /\ UNCHANGED waiting

Lose(port) ==
  /\ \E gone \in SUBSET ToSet(waiting[port]) :
       /\ gone # {}
       /\ waiting' = [waiting EXCEPT ![port] = Only(@, ToSet(@) \ gone)]
  /\ UNCHANGED received

Next ==
  \E port \in Ports :
    \/ Receive(port) \/ Lose(port)
    \/ \E p \in Packets : Arrive(p, port) \/ SendToSelf(p, port) \/ Free(p, port)

Spec == Init /\ [][Next]_vars
=============================================================================
