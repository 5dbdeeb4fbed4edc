----------------------------- MODULE PacketPool -----------------------------
(***************************************************************************)
(* The kernel's pool of packet pages (kernel/packetK.c).                   *)
(*                                                                         *)
(* The pool is an array of POOL_SIZE entries.  The entries that are not in *)
(* use form a doubly linked list of array indices, kept in a union: the    *)
(* two 16-bit links of a free entry share their storage with the pointer   *)
(* to the logical memory range of an entry in use.  Both calls run with    *)
(* interrupts disabled, so each is one step.                               *)
(*                                                                         *)
(* PackosPacketAlloc takes a logical range from the system-wide pool of    *)
(* ranges for every packet it lends and PackosPacketFree does not give it  *)
(* back; `ranges' counts what is left of those the contexts leave over.    *)
(***************************************************************************)
EXTENDS Integers, FiniteSets

CONSTANTS NumPackets,   \* POOL_SIZE
          NumRanges,    \* logical ranges that the contexts leave to packets
          Nil,          \* the link value 0xffff
          Pointer       \* either half of a pointer to a logical range

Slots == 0 .. NumPackets - 1

ASSUME PoolAssumption ==
  /\ NumPackets \in Nat \ {0}
  /\ NumRanges \in Nat /\ NumRanges >= NumPackets
  /\ Nil \notin Slots
  /\ Pointer \notin Slots \cup {Nil}

VARIABLES inUse,        \* metadata[i].inUse
          next, prev,   \* metadata[i].u, read as the links of a free entry
          first, last,  \* packetPool.avail
          ranges,       \* free entries of the pool of logical ranges
          error,        \* *error as the last call left it
          interrupts,   \* the processor's interrupt flag
          halted        \* the processor executed cli; hlt

links == <<next, prev, first, last>>
vars  == <<inUse, links, ranges, error, interrupts, halted>>

\* initPool: entry i is linked to its neighbours in the array.
Init ==
  /\ inUse = [i \in Slots |-> FALSE]
  /\ next = [i \in Slots |-> IF i = NumPackets - 1 THEN Nil ELSE i + 1]
  /\ prev = [i \in Slots |-> IF i = 0 THEN Nil ELSE i - 1]
  /\ first = 0
  /\ last = NumPackets - 1
  /\ ranges = NumRanges
  /\ error = "None"
  /\ interrupts = TRUE
  /\ halted = FALSE

-----------------------------------------------------------------------------
(* PackosPacketAlloc *)

\* Variant for the runs to reject: the list's last entry counts as its end.
AllocEmptyOneEarly ==
  /\ first = last
  /\ error' = "OutOfMemory"
  /\ UNCHANGED <<inUse, links, ranges>>

AllocEmpty ==
  /\ first = Nil
  /\ error' = "OutOfMemory"
  /\ UNCHANGED <<inUse, links, ranges>>

\* The NULL that PackosMemoryLogicalRangeNew returns is stored in the union
\* before it is tested: it stays behind as the link pair (0, 0).
AllocUnmapped ==
  /\ first \in Slots
  /\ ranges = 0
  /\ next' = [next EXCEPT ![first] = 0]
  /\ prev' = [prev EXCEPT ![first] = 0]
  /\ error' = "DoesNotExist"
  /\ UNCHANGED <<inUse, first, last, ranges>>

AllocSlot ==
  /\ first \in Slots
  /\ ranges > 0
  /\ LET after == next[first] IN
       /\ first' = after
       /\ last' = IF after = Nil THEN Nil ELSE last
       /\ next' = [next EXCEPT ![first] = Pointer]
       /\ prev' = [i \in Slots |-> IF i = first THEN Pointer
                                   ELSE IF i = after THEN Nil ELSE prev[i]]
  /\ inUse' = [inUse EXCEPT ![first] = TRUE]
  /\ ranges' = ranges - 1
  /\ error' = "None"

Alloc ==
  /\ ~halted
  /\ AllocEmpty \/ AllocUnmapped \/ AllocSlot
  /\ UNCHANGED <<interrupts, halted>>

-----------------------------------------------------------------------------
(* PackosPacketFree *)

FreeSlot(i) ==
  /\ inUse[i]
  /\ inUse' = [inUse EXCEPT ![i] = FALSE]
  /\ next' = [next EXCEPT ![i] = first]
  /\ prev' = [j \in Slots |-> IF j = i THEN Nil
                              ELSE IF j = first THEN i ELSE prev[j]]
  /\ first' = i
  /\ last' = IF first = Nil THEN i ELSE last
  /\ error' = "None"
  /\ UNCHANGED interrupts

\* The early return for a packet that is not in use skips the Restore.
FreeAgain(i) ==
  /\ ~inUse[i]
  /\ error' = "AlreadyFreed"
  /\ interrupts' = FALSE
  /\ UNCHANGED <<inUse, links>>

Free(i) ==
  /\ ~halted
  /\ FreeSlot(i) \/ FreeAgain(i)
  /\ UNCHANGED <<ranges, halted>>

\* A pointer outside of the pool stops the machine.
FreeForeign ==
  /\ ~halted
  /\ halted' = TRUE
  /\ interrupts' = FALSE
  /\ error' = "PacketNotInPool"
  /\ UNCHANGED <<inUse, links, ranges>>

-----------------------------------------------------------------------------
Next == Alloc \/ (\E i \in Slots : Free(i)) \/ FreeForeign

Spec == Init /\ [][Next]_vars

-----------------------------------------------------------------------------
(* Properties *)

Links == Slots \cup {Nil, Pointer}

TypeOK ==
  /\ inUse \in [Slots -> BOOLEAN]
  /\ next \in [Slots -> Links]
  /\ prev \in [Slots -> Links]
  /\ first \in Slots \cup {Nil}
  /\ last \in Slots \cup {Nil}
  /\ ranges \in Nat
  /\ error \in {"None", "OutOfMemory", "DoesNotExist", "AlreadyFreed",
                "PacketNotInPool"}
  /\ interrupts \in BOOLEAN
  /\ halted \in BOOLEAN

FreeSlots == {i \in Slots : ~inUse[i]}

\* s lists the n free entries in the order of the links, both ways.
IsChain(n, s) ==
  /\ s \in [1 .. n -> FreeSlots]
  /\ \A i \in FreeSlots : \E k \in 1 .. n : s[k] = i
  /\ \A j, k \in 1 .. n : s[j] = s[k] => j = k
  /\ first = IF n = 0 THEN Nil ELSE s[1]
  /\ last = IF n = 0 THEN Nil ELSE s[n]
  /\ \A k \in 1 .. n : /\ next[s[k]] = IF k = n THEN Nil ELSE s[k + 1]
                       /\ prev[s[k]] = IF k = 1 THEN Nil ELSE s[k - 1]

\* As long as a packet can be mapped, the links thread exactly the packets
\* that are not in use, each once, forwards and backwards: the splicing of
\* PackosPacketAlloc and PackosPacketFree neither loses a packet nor keeps one
\* that is lent.  (Once the ranges have run out an attempt to allocate
\* overwrites the links of the first entry, see AllocUnmapped.)
FreeListIntact ==
  ranges = 0 \/ \E s \in [1 .. Cardinality(FreeSlots) -> FreeSlots] :
                  IsChain(Cardinality(FreeSlots), s)

\* The pool keeps the promise of module Pool, damaged links or not: it lends
\* packets that nobody holds, takes back what is lent, and runs out only when
\* every packet is lent.
Promise == INSTANCE Pool WITH lent <- Slots \ FreeSlots
KeepsPromise == Promise!Spec
=============================================================================
