-------------------------------- MODULE Pool --------------------------------
(***************************************************************************)
(* What the kernel's packet pool promises to the contexts that use it      *)
(* (kernel/packetK.c, PackosPacketAlloc and PackosPacketFree), without the *)
(* linked list that implements it: a packet is lent to one borrower at a   *)
(* time, a packet that came back may be lent again, and "out of memory"    *)
(* is reported only when every packet is out on loan.                      *)
(***************************************************************************)
CONSTANT Slots      \* the packets of the pool

VARIABLES lent,     \* the packets that are out on loan
          error     \* the error code the last call left behind

Init == lent = {} /\ error = "None"

Lend == \E p \in Slots \ lent :
          /\ lent' = lent \cup {p}
          /\ error' = "None"

\* No packet is left.
Exhausted == /\ lent = Slots
             /\ error' = "OutOfMemory"
             /\ UNCHANGED lent

\* A packet is left but it cannot be mapped.
CannotMap == /\ lent # Slots
             /\ error' = "DoesNotExist"
             /\ UNCHANGED lent

TakeBack == \E p \in lent :
              /\ lent' = lent \ {p}
              /\ error' = "None"

\* The packet is not on loan.
Refuse == /\ lent # Slots
          /\ error' = "AlreadyFreed"
          /\ UNCHANGED lent

\* A pointer that is not one of the pool's packets.
Reject == error' = "PacketNotInPool" /\ UNCHANGED lent

Next == Lend \/ Exhausted \/ CannotMap \/ TakeBack \/ Refuse \/ Reject

Spec == Init /\ [][Next]_<<lent, error>>
=============================================================================
