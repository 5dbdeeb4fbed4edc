------------------------------- MODULE Stream -------------------------------
(***************************************************************************)
(* What TCP connections promise: in each direction of each one the bytes   *)
(* that are written, which are numbered, are received in order, none of    *)
(* them twice and all but a few of them.  What is written may go round the *)
(* queue that it waits in; of the bytes that come afterwards no more is    *)
(* promised than that they are no more than were written.                  *)
(***************************************************************************)
EXTENDS Naturals, Sequences

CONSTANTS Channels,   \* a channel is one direction of a connection
          Missing,    \* how many bytes may be skipped, a number for each channel
          Capacity    \* how many bytes a queue holds

VARIABLES written,    \* how many bytes have been written
          lapped,     \* the channels whose queue has gone round
          got         \* the bytes that have been received

Init ==
  /\ written = [d \in Channels |-> 0]
  /\ lapped = {}
  /\ got = [d \in Channels |-> << >>]

Write(d) ==
  /\ written'[d] > written[d]
  /\ written' = [written EXCEPT ![d] = written'[d]]
  /\ \/ UNCHANGED lapped
     \/ written'[d] > Capacity /\ lapped' = lapped \cup {d}
  /\ UNCHANGED got

LastGot(d) == IF got[d] = << >> THEN 0 ELSE got[d][Len(got[d])]
Skipped(d) == LastGot(d) - Len(got[d])

\* Some bytes more; what is skipped is before them.
Deliver(d) ==
  /\ \E skip \in 0 .. Missing[d] - Skipped(d), n \in 1 .. written[d] :
       /\ LastGot(d) + skip + n <= written[d]
       /\ got' = [got EXCEPT ![d] = @ \o [k \in 1 .. n |-> LastGot(d) + skip + k]]
  /\ UNCHANGED <<written, lapped>>

\* Some bytes more, of any value.
Garble(d) ==
  /\ d \in lapped
  /\ Len(got[d]) < Len(got'[d]) /\ Len(got'[d]) <= written[d]
  /\ got' = [got EXCEPT ![d] = @ \o SubSeq(got'[d], Len(@) + 1, Len(got'[d]))]
  /\ UNCHANGED <<written, lapped>>

Next == \E d \in Channels : Write(d) \/ Deliver(d) \/ Garble(d)

Spec == Init /\ [][Next]_<<written, lapped, got>>
=============================================================================
