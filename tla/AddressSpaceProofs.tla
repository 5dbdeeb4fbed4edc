------------------------- MODULE AddressSpaceProofs -------------------------
(***************************************************************************)
(* For a RAM of any size, any sizes of what is asked for and any alignment,*)
(* any number of contexts and of addresses, and wherever a call fails:     *)
(* ranges do not overlap, and the page tables of contexts have nothing in  *)
(* common but packets.  For any number of packets, the pool's free list is *)
(* intact and the pool keeps the promise of module Pool, alone and among   *)
(* all the others that take logical ranges.                                *)
(*                                                                         *)
(* The invariant says that what is in use lies before what is available,   *)
(* which the allocator keeps since it takes blocks from the start, and     *)
(* that a range in a page table is either in use, and in no other table,   *)
(* or the page of a packet.  Of the pool it says that the links            *)
(* are a chain of the free entries as long as a logical range is left, and *)
(* a range that was taken for good is never missed: they do not come back  *)
(* once they have run out.                                                 *)
(***************************************************************************)
EXTENDS AddressSpace, FiniteSetTheorems, TLAPS

-----------------------------------------------------------------------------
(* The invariant of the pool *)

\* What the failing allocation leaves alone: the first entry is free, and the
\* list is empty exactly when every packet is in use.
HeadIsFree ==
  /\ first = Nil <=> FreeSlots = {}
  /\ first # Nil => first \in FreeSlots

PoolInv == TypeOK /\ HeadIsFree /\ FreeListIntact

\* The pool is finite, and so is what is free of it.
LEMMA FreeSlotsFinite ==
  /\ IsFiniteSet(FreeSlots)
  /\ Cardinality(FreeSlots) \in Nat
<1>1. IsFiniteSet(Slots)
  BY PoolAssumption, FS_Interval DEF Slots
<1>2. FreeSlots \in SUBSET Slots
  BY DEF FreeSlots
<1>3. QED
  BY <1>1, <1>2, FS_Subset, FS_CardinalityType

LEMMA InitPoolInv == Init => PoolInv
<1> SUFFICES ASSUME Init PROVE PoolInv
  OBVIOUS
<1>1. FreeSlots = Slots
  BY DEF Init, FreeSlots
<1>2. Cardinality(FreeSlots) = NumPackets
  BY <1>1, PoolAssumption, FS_Interval DEF Slots
<1>3. TypeOK
  <2>1. /\ \A i \in Slots : i = NumPackets - 1 \/ i + 1 \in Slots
        /\ \A i \in Slots : i = 0 \/ i - 1 \in Slots
        /\ 0 \in Slots /\ NumPackets - 1 \in Slots
    BY PoolAssumption DEF Slots
  <2>2. next \in [Slots -> Links] /\ prev \in [Slots -> Links]
    BY <2>1 DEF Init, Links
  <2>3. QED
    BY <2>1, <2>2, PoolAssumption DEF Init, TypeOK
<1>4. HeadIsFree
  BY <1>1, PoolAssumption DEF Init, HeadIsFree, Slots
<1>5. FreeListIntact
  <2> DEFINE s == [k \in 1 .. NumPackets |-> k - 1]
  <2>1. s \in [1 .. NumPackets -> FreeSlots]
    BY <1>1, PoolAssumption DEF Slots
  <2>2. \A i \in FreeSlots : i + 1 \in 1 .. NumPackets /\ s[i + 1] = i
    BY <1>1, PoolAssumption DEF Slots
  <2>3. \A k \in 1 .. NumPackets :
          /\ next[s[k]] = IF k = NumPackets THEN Nil ELSE s[k + 1]
          /\ prev[s[k]] = IF k = 1 THEN Nil ELSE s[k - 1]
    BY PoolAssumption DEF Init, Slots
  <2>4. IsChain(NumPackets, s)
    <3>1. \A j, k \in 1 .. NumPackets : s[j] = s[k] => j = k
      BY PoolAssumption
    <3>2. first = s[1] /\ last = s[NumPackets] /\ NumPackets # 0
      BY PoolAssumption DEF Init
    <3> HIDE DEF s
    <3>3. \A i \in FreeSlots : \E k \in 1 .. NumPackets : s[k] = i
      BY <2>2
    <3>4. QED
      BY <2>1, <2>3, <3>1, <3>2, <3>3 DEF IsChain
  <2>5. QED
    BY <2>1, <2>4, <1>2 DEF FreeListIntact
<1>6. QED
  BY <1>3, <1>4, <1>5 DEF PoolInv

\* Lending the first entry keeps the rest of the chain.
LEMMA AllocSlotChain ==
  ASSUME PoolInv, AllocSlot, ranges' # 0
  PROVE  FreeListIntact'
<1>0. PICK n \in Nat : n = Cardinality(FreeSlots)
  BY FreeSlotsFinite
<1>1. PICK s \in [1 .. n -> FreeSlots] : IsChain(n, s)
  BY <1>0 DEF PoolInv, FreeListIntact, AllocSlot, TypeOK
<1>2. n # 0 /\ first = s[1] /\ first \in FreeSlots
  BY <1>1, FreeSlotsFinite, PoolAssumption DEF IsChain, AllocSlot, PoolInv, HeadIsFree
<1>3. FreeSlots' = FreeSlots \ {first}
  BY DEF AllocSlot, FreeSlots, PoolInv, TypeOK
<1>4. Cardinality(FreeSlots)' = n - 1
  BY <1>0, <1>2, <1>3, FreeSlotsFinite, FS_RemoveElement
<1> DEFINE t == [k \in 1 .. n - 1 |-> s[k + 1]]
<1> HIDE DEF t
<1>5. \A k \in 1 .. n - 1 : k + 1 \in 1 .. n /\ t[k] = s[k + 1]
  BY <1>2 DEF t
<1>6. t \in [1 .. n - 1 -> FreeSlots']
  <2>1. \A k \in 1 .. n - 1 : s[k + 1] # s[1]
    BY <1>1, <1>2, <1>5 DEF IsChain
  <2>2. QED
    BY <1>1, <1>2, <1>3, <1>5, <2>1 DEF t
<1>7. next[s[1]] = IF n = 1 THEN Nil ELSE s[2]
  BY <1>1, <1>2 DEF IsChain
<1>8. /\ first' = IF n = 1 THEN Nil ELSE s[2]
      /\ last' = IF n = 1 THEN Nil ELSE s[n]
  <2>1. n # 1 => s[2] \in Slots
    BY <1>1, <1>2 DEF FreeSlots
  <2>2. QED
    BY <1>1, <1>2, <1>7, <2>1, PoolAssumption DEF AllocSlot, IsChain
<1>9. \A i \in FreeSlots' : \E k \in 1 .. n - 1 : t[k] = i
  <2> SUFFICES ASSUME NEW i \in FreeSlots' PROVE \E k \in 1 .. n - 1 : t[k] = i
    OBVIOUS
  <2>1. PICK k \in 1 .. n : s[k] = i
    BY <1>1, <1>3 DEF IsChain
  <2>2. k # 1
    BY <1>2, <1>3, <2>1
  <2>3. k - 1 \in 1 .. n - 1 /\ t[k - 1] = i
    BY <2>1, <2>2, <1>2, <1>5
  <2>4. QED
    BY <2>3
<1>10. \A j, k \in 1 .. n - 1 : t[j] = t[k] => j = k
  BY <1>1, <1>2, <1>5 DEF IsChain
<1>11. \A k \in 1 .. n - 1 :
         /\ next'[t[k]] = IF k = n - 1 THEN Nil ELSE t[k + 1]
         /\ prev'[t[k]] = IF k = 1 THEN Nil ELSE t[k - 1]
  <2> SUFFICES ASSUME NEW k \in 1 .. n - 1
               PROVE  /\ next'[t[k]] = IF k = n - 1 THEN Nil ELSE t[k + 1]
                      /\ prev'[t[k]] = IF k = 1 THEN Nil ELSE t[k - 1]
    OBVIOUS
  <2>1. t[k] = s[k + 1] /\ k + 1 \in 1 .. n /\ t[k] \in Slots /\ t[k] # first
    BY <1>3, <1>5, <1>6 DEF FreeSlots
  <2>2. next[t[k]] = IF k + 1 = n THEN Nil ELSE s[k + 2]
    BY <1>1, <1>2, <2>1 DEF IsChain
  <2>3. prev[t[k]] = s[k]
    BY <1>1, <1>2, <2>1 DEF IsChain
  <2>4. next'[t[k]] = next[t[k]]
    BY <2>1 DEF AllocSlot, PoolInv, TypeOK
  <2>5. prev'[t[k]] = IF t[k] = next[first] THEN Nil ELSE prev[t[k]]
    BY <2>1 DEF AllocSlot
  <2>6. t[k] = next[first] <=> k = 1
    <3>1. n # 1
      BY <1>2
    <3>2. next[first] = s[2]
      BY <1>2, <1>7, <3>1
    <3>3. QED
      BY <1>1, <1>2, <2>1, <3>1, <3>2 DEF IsChain
  <2>7. k # n - 1 => t[k + 1] = s[k + 2]
    BY <1>2, <1>5
  <2>8. k # 1 => t[k - 1] = s[k]
    BY <1>2, <1>5
  <2>9. QED
    BY <2>2, <2>3, <2>4, <2>5, <2>6, <2>7, <2>8, <1>2
<1>12. IsChain(n - 1, t)'
  <2>1. n - 1 = 0 <=> n = 1
    BY <1>2
  <2>2. n # 1 => t[1] = s[2] /\ t[n - 1] = s[n]
    BY <1>2, <1>5
  <2>3. QED
    BY <1>6, <1>8, <1>9, <1>10, <1>11, <2>1, <2>2 DEF IsChain
<1>13. QED
  BY <1>4, <1>6, <1>12 DEF FreeListIntact

\* Taking an entry back puts it in front of the chain.
LEMMA FreeSlotChain ==
  ASSUME PoolInv, NEW i \in Slots, FreeSlot(i), ranges # 0, UNCHANGED ranges
  PROVE  FreeListIntact'
<1>0. PICK n \in Nat : n = Cardinality(FreeSlots)
  BY FreeSlotsFinite
<1>1. PICK s \in [1 .. n -> FreeSlots] : IsChain(n, s)
  BY <1>0 DEF PoolInv, FreeListIntact
<1>2. i \notin FreeSlots /\ FreeSlots' = FreeSlots \cup {i}
  BY DEF FreeSlot, FreeSlots, PoolInv, TypeOK
<1>3. Cardinality(FreeSlots)' = n + 1
  BY <1>0, <1>2, FreeSlotsFinite, FS_AddElement
<1> DEFINE t == [k \in 1 .. n + 1 |-> IF k = 1 THEN i ELSE s[k - 1]]
<1>4. /\ t[1] = i
      /\ \A k \in 1 .. n : k + 1 \in 1 .. n + 1 /\ t[k + 1] = s[k] /\ s[k] \in Slots
      /\ \A k \in 1 .. n + 1 : k = 1 \/ k - 1 \in 1 .. n
  BY <1>1 DEF FreeSlots
<1>5. t \in [1 .. n + 1 -> FreeSlots']
  BY <1>2
<1> HIDE DEF t
<1>6. \A j \in FreeSlots' : \E k \in 1 .. n + 1 : t[k] = j
  <2> SUFFICES ASSUME NEW j \in FreeSlots' PROVE \E k \in 1 .. n + 1 : t[k] = j
    OBVIOUS
  <2>1. CASE j = i
    BY <1>4, <2>1
  <2>2. CASE j # i
    <3>1. PICK k \in 1 .. n : s[k] = j
      BY <1>1, <1>2, <2>2 DEF IsChain
    <3>2. QED
      BY <1>4, <3>1
  <2>3. QED
    BY <2>1, <2>2
<1>7. \A k \in 1 .. n : s[k] # i
  BY <1>1, <1>2
<1>8. \A j, k \in 1 .. n + 1 : t[j] = t[k] => j = k
  <2> SUFFICES ASSUME NEW j \in 1 .. n + 1, NEW k \in 1 .. n + 1, t[j] = t[k]
               PROVE  j = k
    OBVIOUS
  <2>1. \A m \in 1 .. n + 1 : m # 1 => m - 1 \in 1 .. n /\ t[m] = s[m - 1]
    BY DEF t
  <2>2. CASE j = 1 \/ k = 1
    BY <1>4, <1>7, <2>1, <2>2
  <2>3. CASE j # 1 /\ k # 1
    <3>1. s[j - 1] = s[k - 1] /\ j - 1 \in 1 .. n /\ k - 1 \in 1 .. n
      BY <2>1, <2>3
    <3>2. j - 1 = k - 1
      BY <1>1, <3>1 DEF IsChain
    <3>3. QED
      BY <3>2
  <2>4. QED
    BY <2>2, <2>3
<1>9. /\ first' = t[1]
      /\ last' = t[n + 1]
  <2>1. first = Nil <=> n = 0
    BY <1>1, PoolAssumption DEF IsChain, FreeSlots
  <2>2. n # 0 => t[n + 1] = s[n] /\ last = s[n]
    BY <1>1, <1>4 DEF IsChain
  <2>3. QED
    BY <1>4, <2>1, <2>2 DEF FreeSlot
<1>10. \A k \in 1 .. n + 1 :
         /\ next'[t[k]] = IF k = n + 1 THEN Nil ELSE t[k + 1]
         /\ prev'[t[k]] = IF k = 1 THEN Nil ELSE t[k - 1]
  <2> SUFFICES ASSUME NEW k \in 1 .. n + 1
               PROVE  /\ next'[t[k]] = IF k = n + 1 THEN Nil ELSE t[k + 1]
                      /\ prev'[t[k]] = IF k = 1 THEN Nil ELSE t[k - 1]
    OBVIOUS
  <2>1. CASE k = 1
    <3>1. next'[i] = first /\ prev'[i] = Nil
      BY DEF FreeSlot, PoolInv, TypeOK
    <3>2. first = IF n = 0 THEN Nil ELSE t[2]
      BY <1>1, <1>4 DEF IsChain
    <3>3. QED
      BY <1>4, <2>1, <3>1, <3>2
  <2>2. CASE k # 1
    <3>1. k - 1 \in 1 .. n /\ t[k] = s[k - 1] /\ t[k] \in Slots /\ t[k] # i
      BY <1>4, <1>7, <2>2 DEF t
    <3>2. /\ next[t[k]] = IF k - 1 = n THEN Nil ELSE s[k]
          /\ prev[t[k]] = IF k - 1 = 1 THEN Nil ELSE s[k - 2]
      BY <1>1, <3>1 DEF IsChain
    <3>3. next'[t[k]] = next[t[k]]
      BY <3>1 DEF FreeSlot, PoolInv, TypeOK
    <3>4. prev'[t[k]] = IF t[k] = first THEN i ELSE prev[t[k]]
      BY <3>1 DEF FreeSlot
    <3>5. t[k] = first <=> k - 1 = 1
      BY <1>1, <3>1 DEF IsChain
    <3>6. k # n + 1 => t[k + 1] = s[k]
      BY <1>4, <2>2
    <3>7. k # 2 => t[k - 1] = s[k - 2]
      BY <2>2 DEF t
    <3>8. k = 2 => t[k - 1] = i
      BY <1>4
    <3>9. QED
      BY <2>2, <3>1, <3>2, <3>3, <3>4, <3>5, <3>6, <3>7, <3>8
  <2>3. QED
    BY <2>1, <2>2
<1>11. IsChain(n + 1, t)'
  BY <1>5, <1>6, <1>8, <1>9, <1>10 DEF IsChain
<1>12. QED
  BY <1>3, <1>5, <1>11 DEF FreeListIntact

\* A step that changes no link keeps the chain, unless it brings ranges back
\* after they have run out.
LEMMA UnlinkedStep ==
  ASSUME PoolInv, UNCHANGED <<inUse, links>>, ranges' # 0 => ranges # 0
  PROVE  HeadIsFree' /\ FreeListIntact'
<1>1. FreeSlots' = FreeSlots
  BY DEF FreeSlots
<1>2. HeadIsFree'
  BY <1>1 DEF PoolInv, HeadIsFree, links
<1>3. FreeListIntact'
  <2>1. \A n, s : IsChain(n, s) => IsChain(n, s)'
    BY <1>1 DEF IsChain, links
  <2>2. CASE ranges = 0
    BY <2>2 DEF FreeListIntact
  <2>3. CASE ranges # 0
    <3>1. PICK s \in [1 .. Cardinality(FreeSlots) -> FreeSlots] :
            IsChain(Cardinality(FreeSlots), s)
      BY <2>3 DEF PoolInv, FreeListIntact
    <3>2. Cardinality(FreeSlots)' = Cardinality(FreeSlots)
      BY <1>1
    <3>3. IsChain(Cardinality(FreeSlots), s)'
      BY <1>1, <3>1, <3>2 DEF IsChain, links
    <3>4. QED
      BY <1>1, <3>2, <3>3 DEF FreeListIntact
  <2>4. QED
    BY <2>2, <2>3
<1>4. QED
  BY <1>2, <1>3

\* The links of a chain with a range left name free entries, so that the
\* allocation's new head is one of them or Nil.
LEMMA AllocSlotHead ==
  ASSUME PoolInv, AllocSlot
  PROVE  first' \in Slots \cup {Nil} /\ HeadIsFree'
<1>0. PICK n \in Nat : n = Cardinality(FreeSlots)
  BY FreeSlotsFinite
<1>1. PICK s \in [1 .. n -> FreeSlots] : IsChain(n, s)
  BY <1>0 DEF PoolInv, FreeListIntact, AllocSlot, TypeOK
<1>2. n # 0 /\ first = s[1] /\ first \in FreeSlots
  BY <1>1, PoolAssumption DEF IsChain, AllocSlot, PoolInv, HeadIsFree
<1>3. FreeSlots' = FreeSlots \ {first}
  BY DEF AllocSlot, FreeSlots, PoolInv, TypeOK
<1>4. first' = IF n = 1 THEN Nil ELSE s[2]
  <2>1. next[s[1]] = IF n = 1 THEN Nil ELSE s[2]
    BY <1>1, <1>2 DEF IsChain
  <2>2. QED
    BY <1>2, <2>1 DEF AllocSlot
<1>5. n # 1 => s[2] \in FreeSlots /\ s[2] # s[1]
  BY <1>1, <1>2 DEF IsChain
<1>6. n = 1 => FreeSlots = {s[1]}
  BY <1>1 DEF IsChain
<1>7. FreeSlots \subseteq Slots
  BY DEF FreeSlots
<1>8. Nil \notin FreeSlots
  BY <1>7, PoolAssumption
<1>9. CASE n = 1
  <2>1. FreeSlots' = {} /\ first' = Nil
    BY <1>2, <1>3, <1>4, <1>6, <1>9
  <2>2. QED
    BY <2>1 DEF HeadIsFree
<1>10. CASE n # 1
  <2>1. first' \in FreeSlots' /\ first' # Nil
    BY <1>2, <1>3, <1>4, <1>5, <1>8, <1>10
  <2>2. QED
    BY <1>3, <1>7, <2>1 DEF HeadIsFree
<1>11. QED
  BY <1>9, <1>10

LEMMA PoolAllocStep ==
  ASSUME PoolInv, Alloc
  PROVE  PoolInv'
<1>1. CASE AllocEmpty \/ AllocUnmapped
  <2>1. TypeOK'
    <3>1. next' \in [Slots -> Links] /\ prev' \in [Slots -> Links]
      <4>1. CASE AllocEmpty
        BY <4>1 DEF AllocEmpty, PoolInv, TypeOK, links
      <4>2. CASE AllocUnmapped
        <5>1. 0 \in Links
          BY PoolAssumption DEF Links, Slots
        <5>2. QED
          BY <4>2, <5>1 DEF AllocUnmapped, PoolInv, TypeOK
      <4>3. QED
        BY <1>1, <4>1, <4>2
    <3>2. QED
      BY <1>1, <3>1 DEF PoolInv, TypeOK, Alloc, AllocEmpty, AllocUnmapped, links
  <2>2. CASE AllocEmpty
    BY <2>1, <2>2, UnlinkedStep DEF PoolInv, AllocEmpty
  <2>3. CASE AllocUnmapped
    <3>1. FreeSlots' = FreeSlots /\ ranges' = 0 /\ first' = first
      BY <2>3 DEF AllocUnmapped, FreeSlots
    <3>2. QED
      BY <2>1, <3>1 DEF PoolInv, HeadIsFree, FreeListIntact
  <2>4. QED
    BY <1>1, <2>2, <2>3
<1>2. CASE AllocSlot
  <2>1. first' \in Slots \cup {Nil} /\ HeadIsFree'
    BY <1>2, AllocSlotHead
  <2>2. TypeOK'
    BY <1>2, <2>1 DEF PoolInv, TypeOK, Alloc, AllocSlot, Links
  <2>3. FreeListIntact'
    BY <1>2, AllocSlotChain DEF FreeListIntact
  <2>4. QED
    BY <2>1, <2>2, <2>3 DEF PoolInv
<1>3. QED
  BY <1>1, <1>2 DEF Alloc

LEMMA PoolFreeStep ==
  ASSUME PoolInv, NEW i \in Slots, Free(i)
  PROVE  PoolInv'
<1>1. CASE FreeAgain(i)
  <2>1. TypeOK'
    BY <1>1 DEF PoolInv, TypeOK, Free, FreeAgain, links
  <2>2. UNCHANGED <<inUse, links, ranges>>
    BY <1>1 DEF Free, FreeAgain
  <2>3. QED
    BY <2>1, <2>2, UnlinkedStep DEF PoolInv
<1>2. CASE FreeSlot(i)
  <2>1. TypeOK'
    BY <1>2 DEF PoolInv, TypeOK, Free, FreeSlot, Links
  <2>2. HeadIsFree'
    <3>1. FreeSlots' = FreeSlots \cup {i} /\ first' = i
      BY <1>2 DEF FreeSlot, FreeSlots, PoolInv, TypeOK
    <3>2. QED
      BY <3>1, PoolAssumption DEF HeadIsFree
  <2>3. FreeListIntact'
    <3>1. CASE ranges = 0
      BY <3>1 DEF Free, FreeListIntact
    <3>2. CASE ranges # 0
      BY <1>2, <3>2, FreeSlotChain DEF Free
    <3>3. QED
      BY <3>1, <3>2
  <2>4. QED
    BY <2>1, <2>2, <2>3 DEF PoolInv
<1>3. QED
  BY <1>1, <1>2 DEF Free

LEMMA NextPoolInv == PoolInv /\ [Next]_vars => PoolInv'
<1> SUFFICES ASSUME PoolInv, [Next]_vars PROVE PoolInv'
  OBVIOUS
<1>1. CASE Alloc
  BY <1>1, PoolAllocStep
<1>2. ASSUME NEW i \in Slots, Free(i) PROVE PoolInv'
  BY <1>2, PoolFreeStep
<1>3. CASE FreeForeign
  <2>1. TypeOK'
    BY <1>3 DEF PoolInv, TypeOK, FreeForeign, links
  <2>2. QED
    BY <1>3, <2>1, UnlinkedStep DEF PoolInv, FreeForeign
<1>4. CASE UNCHANGED vars
  <2>1. TypeOK'
    BY <1>4 DEF PoolInv, TypeOK, vars, links
  <2>2. QED
    BY <1>4, <2>1, UnlinkedStep DEF PoolInv, vars
<1>5. QED
  BY <1>1, <1>2, <1>3, <1>4 DEF Next


-----------------------------------------------------------------------------
(* The pool by itself *)

\* The chain of free entries, its head and its types hold in every state.
THEOREM PoolInvariance == Spec => []PoolInv
<1>1. QED
  BY InitPoolInv, NextPoolInv, PTL DEF Spec

\* Every variable stays in its type; above all, the list's head is never the
\* stale pointer that a lent entry keeps in place of its links.
THEOREM TypeCorrect == Spec => []TypeOK
<1>1. PoolInv => TypeOK
  BY DEF PoolInv
<1>2. QED
  BY <1>1, PoolInvariance, PTL

\* The links thread exactly the packets that are not in use, for any number
\* of packets and any sequence of calls.
THEOREM FreeListAlwaysIntact == Spec => []FreeListIntact
<1>1. PoolInv => FreeListIntact
  BY DEF PoolInv
<1>2. QED
  BY <1>1, PoolInvariance, PTL

\* Every call of the linked list is a call of the abstract pool.
LEMMA RefinementStep == PoolInv /\ [Next]_vars => [Promise!Next]_<<Slots \ FreeSlots, error>>
<1> SUFFICES ASSUME PoolInv, [Next]_vars
             PROVE  [Promise!Next]_<<Slots \ FreeSlots, error>>
  OBVIOUS
<1> DEFINE lent == Slots \ FreeSlots
<1>1. /\ \A i \in Slots : i \in lent <=> inUse[i]
      /\ lent = {i \in Slots : inUse[i]}
  BY DEF FreeSlots, PoolInv, TypeOK
<1>2. CASE AllocEmpty /\ Alloc
  <2>1. lent = Slots /\ lent' = lent
    BY <1>2, PoolAssumption DEF AllocEmpty, FreeSlots, PoolInv, HeadIsFree
  <2>2. Promise!Exhausted
    BY <1>2, <2>1 DEF Promise!Exhausted, AllocEmpty
  <2>3. QED
    BY <2>2 DEF Promise!Next
<1>3. CASE AllocUnmapped /\ Alloc
  <2>1. lent # Slots /\ lent' = lent
    BY <1>3, PoolAssumption DEF AllocUnmapped, FreeSlots, PoolInv, HeadIsFree
  <2>2. Promise!CannotMap
    BY <1>3, <2>1 DEF Promise!CannotMap, AllocUnmapped
  <2>3. QED
    BY <2>2 DEF Promise!Next
<1>4. CASE AllocSlot /\ Alloc
  <2>1. first \in Slots \ lent /\ lent' = lent \cup {first}
    BY <1>4, PoolAssumption DEF AllocSlot, FreeSlots, PoolInv, HeadIsFree, TypeOK
  <2>2. Promise!Lend
    BY <1>4, <2>1 DEF Promise!Lend, AllocSlot
  <2>3. QED
    BY <2>2 DEF Promise!Next
<1>5. ASSUME NEW i \in Slots, Free(i) PROVE Promise!Next
  <2>1. CASE FreeSlot(i)
    <3>1. i \in lent /\ lent' = lent \ {i}
      BY <2>1 DEF FreeSlot, FreeSlots, PoolInv, TypeOK
    <3>2. Promise!TakeBack
      BY <2>1, <3>1 DEF Promise!TakeBack, FreeSlot
    <3>3. QED
      BY <3>2 DEF Promise!Next
  <2>2. CASE FreeAgain(i)
    <3>1. i \notin lent /\ lent' = lent
      BY <2>2 DEF FreeAgain, FreeSlots, PoolInv, TypeOK
    <3>2. Promise!Refuse
      BY <2>2, <3>1 DEF Promise!Refuse, FreeAgain
    <3>3. QED
      BY <3>2 DEF Promise!Next
  <2>3. QED
    BY <1>5, <2>1, <2>2 DEF Free
<1>6. CASE FreeForeign
  <2>1. lent' = lent
    BY <1>6 DEF FreeForeign, FreeSlots
  <2>2. QED
    BY <1>6, <2>1 DEF Promise!Next, Promise!Reject, FreeForeign
<1>7. CASE UNCHANGED vars
  BY <1>7 DEF vars, FreeSlots
<1>8. QED
  BY <1>2, <1>3, <1>4, <1>5, <1>6, <1>7 DEF Next, Alloc

\* The linked list implements the abstract pool: it never lends a packet
\* twice, and reports "out of memory" only when every packet is lent.
THEOREM ImplementsPool == Spec => KeepsPromise
<1>1. Init => Promise!Init
  BY DEF Init, Promise!Init, FreeSlots
<1>2. QED
  BY <1>1, PoolInvariance, RefinementStep, PTL DEF Spec, KeepsPromise, Promise!Spec

-----------------------------------------------------------------------------
(* The invariant of memory, contexts and addresses *)

Kept(m) == m.addr \in Nat /\ m.len \in Nat /\ Base <= m.addr /\ m.addr + m.len <= Base + Size
Before(r, m) == r.addr \in Nat /\ r.len \in Nat /\ Base <= r.addr /\ r.addr + r.len <= m.addr

Placed(S, m) == /\ \A r \in S : Before(r, m)
                /\ \A r, s \in S : r = s \/ Apart(r, s)

Room == ~short => Kept(ram) /\ Placed(taken, ram)

\* The pages of the pool, once there is one.
Pages == IF pool = NoRange THEN {} ELSE {PageOf(i) : i \in Slots}

PoolPlaced ==
  pool # NoRange => pool \in taken /\ pool.len = NumPackets * Page

\* A range in a table is a page, or in use for no other context nor the pool.
Mapped ==
  ~short => /\ PoolPlaced
            /\ table \in [Contexts -> SUBSET (taken \cup Pages)]
            /\ \A c \in Contexts : pool \in table[c] => pool \in Pages
            /\ \A c, d \in Contexts : \A r \in table[c] :
                 r \in table[d] => c = d \/ r \in Pages

SpaceInv == Room /\ Mapped

-----------------------------------------------------------------------------
(* One call of the allocator *)

LEMMA Modulo ==
  ASSUME NEW a \in Nat, NEW n \in Nat \ {0}
  PROVE  a % n \in 0 .. n - 1 /\ (a < n => a % n = a)
OBVIOUS

\* The padding is never more than the alignment, and none only without one.
LEMMA PaddingBound ==
  ASSUME NEW m, m.addr \in Nat, NEW align \in Nat
  PROVE  Padding(m, align) \in 0 .. align /\ (align # 0 => Padding(m, align) # 0)
BY Modulo DEF Padding, Misalignment

\* What was cut from m, with the padding in front, when n is left.
Behind(r, m, n, align) ==
  /\ Before(r, n) /\ m.addr <= r.addr /\ r.len > 0
  /\ align # 0 => m.addr < r.addr

\* With ample room what is returned lies before what is left.
LEMMA StartIsBefore ==
  ASSUME NEW m, Kept(m), NEW len \in Nat \ {0}, NEW align \in Nat,
         m.len >= Padding(m, align) + len, m.len = len => Padding(m, align) # 0,
         NEW end, NEW a, a = AfterCut(m, len, align, end)
  PROVE  /\ Kept(a.left) /\ m.addr <= a.left.addr
         /\ a.range = NoRange \/ Behind(a.range, m, a.left, align)
<1> DEFINE pad == Padding(m, align)
<1>1. pad \in Nat /\ (align # 0 => pad > 0)
  BY PaddingBound DEF Kept
<1>2. /\ (m.len - pad) % Word = m.len - pad
      /\ (m.len - pad - len) % Word = m.len - pad - len
      /\ (m.addr + pad + len) % Word = m.addr + pad + len
  <2>1. Word \in Nat \ {0} /\ m.addr + m.len < Word
    BY MemoryAssumption DEF Kept
  <2>2. m.len - pad \in Nat /\ m.len - pad - len \in Nat /\ m.addr + pad + len \in Nat
    BY <1>1 DEF Kept
  <2>3. m.len - pad < Word /\ m.len - pad - len < Word /\ m.addr + pad + len < Word
    BY <1>1, <2>1 DEF Kept
  <2> HIDE DEF pad
  <2> QED
    BY <2>1, <2>2, <2>3, Modulo
<1> HIDE DEF pad
<1>3. FitsAtStart(m, len, align) /\ m.len # len
  BY <1>1, <1>2 DEF FitsAtStart, pad, Kept
<1>4. CASE m.structs = 0
  <2>1. a.range = NoRange /\ a.left = m
    BY <1>3, <1>4 DEF AfterCut
  <2> QED
    BY <2>1 DEF Kept
<1>5. CASE m.structs # 0
  <2>1. a = FromStart(m, len, align)
    BY <1>3, <1>5 DEF AfterCut
  <2>2. /\ a.range.addr = m.addr + pad /\ a.range.len = len
        /\ a.left.addr = m.addr + pad + len /\ a.left.len = m.len - pad - len
    BY <1>2, <2>1 DEF FromStart, PhysicalRange, pad
  <2> QED
    BY <1>1, <2>2, MemoryAssumption DEF Kept, Before, Behind, pad
<1> QED
  BY <1>4, <1>5

LEMMA AllocateBefore ==
  ASSUME NEW m, Kept(m), NEW len \in Nat \ {0}, NEW align \in Nat, Ample(m, len, align),
         NEW a, a = Allocate(m, len, align)
  PROVE  /\ Kept(a.left) /\ m.addr <= a.left.addr
         /\ a.range = NoRange \/ Behind(a.range, m, a.left, align)
<1> DEFINE cut == EndCut(m, len)
<1>1. Padding(m, align) \in 0 .. align
  BY PaddingBound DEF Kept
<1>2. m.len >= 2 * len + align /\ m.len \in Nat
  BY DEF Ample, Kept
<1>3. ~(m.len < len)
  BY <1>2
<1>4. CASE ~CutsEnd(m, align)
  <2>1. a = AfterCut(m, len, align, NoRange)
    BY <1>3, <1>4 DEF Allocate
  <2> QED
    BY <1>1, <1>2, <2>1, StartIsBefore
<1>5. CASE CutsEnd(m, align) /\ m.structs = 0
  <2>1. a.range = NoRange /\ a.left = m
    BY <1>3, <1>5 DEF Allocate
  <2> QED
    BY <2>1 DEF Kept
<1>6. CASE CutsEnd(m, align) /\ m.structs # 0
  <2>1. a = AfterCut(cut, len, align, PhysicalRange(m.addr + m.len - len, len))
    BY <1>3, <1>6 DEF Allocate
  <2>2. cut.addr = m.addr /\ cut.len = m.len - len
    BY DEF EndCut
  <2>3. Kept(cut)
    BY <1>2, <2>2, MemoryAssumption DEF Kept
  <2>4. Padding(cut, align) = Padding(m, align)
    BY <2>2 DEF Padding, Misalignment
  <2>5. align # 0
    BY <1>6 DEF CutsEnd, Misalignment
  <2>6. Padding(cut, align) # 0
    BY <2>3, <2>5, PaddingBound DEF Kept
  <2> HIDE DEF cut
  <2> QED
    BY <1>1, <1>2, <2>1, <2>2, <2>3, <2>4, <2>6, StartIsBefore DEF Behind
<1> QED
  BY <1>4, <1>5, <1>6

\* A range has the length that was asked for.
LEMMA AllocateLength ==
  ASSUME NEW m, NEW len, NEW align, Allocate(m, len, align).range # NoRange
  PROVE  Allocate(m, len, align).range.len = len
<1>1. ASSUME NEW n, NEW end, end = NoRange \/ end.len = len,
             AfterCut(n, len, align, end).range # NoRange
      PROVE  AfterCut(n, len, align, end).range.len = len
  BY <1>1 DEF AfterCut, Whole, FromStart, PhysicalRange
<1>2. PhysicalRange(m.addr + m.len - len, len).len = len
  BY DEF PhysicalRange
<1> QED
  BY <1>1, <1>2 DEF Allocate

\* What was allocated before stays before what is left, and apart.
LEMMA OneMore ==
  ASSUME NEW m, NEW n, NEW S, NEW r, Kept(m), Kept(n), m.addr <= n.addr,
         Placed(S, m), r = NoRange \/ (Before(r, n) /\ m.addr <= r.addr)
  PROVE  Placed(S \cup ({r} \ {NoRange}), n)
<1>1. \A s \in S : Before(s, n)
  BY DEF Placed, Before, Kept
<1>2. r # NoRange => \A s \in S : Apart(s, r) /\ Apart(r, s)
  BY DEF Placed, Apart, Before, Kept
<1> QED
  BY <1>1, <1>2 DEF Placed

-----------------------------------------------------------------------------
(* Steps that take memory *)

\* A range that was available before the step and is in use after it.
NewRange(r) ==
  /\ r \in taken'
  /\ r.addr \in Nat /\ r.len \in Nat /\ r.len > 0 /\ ram.addr <= r.addr

\* What is said of memory after one call of the allocator.
LEMMA TakeOne ==
  ASSUME Room, NEW len \in Nat \ {0}, NEW align \in Nat, ~short,
         NEW a, a = Allocate(ram, len, align),
         ram' = a.left, taken' = taken \cup ({a.range} \ {NoRange}),
         short' = (short \/ ~Ample(ram, len, align))
  PROVE  /\ Room'
         /\ ~short' => /\ ram.addr <= ram'.addr /\ ram.addr \in Nat /\ ram'.addr \in Nat
                       /\ a.range # NoRange => NewRange(a.range)
<1> SUFFICES ASSUME ~short'
             PROVE  /\ Room'
                    /\ ram.addr <= ram'.addr /\ ram.addr \in Nat /\ ram'.addr \in Nat
                    /\ a.range # NoRange => NewRange(a.range)
  BY DEF Room
<1>1. Kept(ram) /\ Ample(ram, len, align)
  BY DEF Room
<1>2. /\ Kept(a.left) /\ ram.addr <= a.left.addr
      /\ a.range = NoRange
           \/ (Before(a.range, a.left) /\ ram.addr <= a.range.addr /\ a.range.len > 0)
  BY <1>1, AllocateBefore DEF Behind
<1>3. Room'
  BY <1>1, <1>2, OneMore DEF Room
<1> QED
  BY <1>1, <1>2, <1>3 DEF Kept, Before, NewRange

\* The same for the two calls of PackosContextNew, or the first of them.
LEMMA TakeConfig ==
  ASSUME Room, ~short, Use(<<Config>>)
  PROVE  Room' /\ (~short' => ram.addr <= ram'.addr /\ ram.addr \in Nat /\ ram'.addr \in Nat)
<1>1. /\ ram' = Config.left /\ taken' = taken \cup ({Config.range} \ {NoRange})
      /\ short' = (short \/ ~Ample(ram, ConfigSize, Page))
  BY DEF Use
<1> QED
  BY <1>1, TakeOne, AddressSpaceAssumption DEF Config

LEMMA TakeBoth ==
  ASSUME Room, ~short, Use(<<Config, Stack>>)
  PROVE  /\ Room'
         /\ ~short' => /\ ram.addr <= ram'.addr /\ ram.addr \in Nat /\ ram'.addr \in Nat
                       /\ Stack.range # NoRange => NewRange(Stack.range)
<1>1. /\ ram' = Stack.left
      /\ taken' = taken \cup ({Config.range, Stack.range} \ {NoRange})
      /\ short' = (short \/ ~Ample(ram, ConfigSize, Page) \/ ~Ample(Config.left, StackSize, Page))
  BY DEF Use
<1> SUFFICES ASSUME ~short'
             PROVE  /\ Room'
                    /\ ram.addr <= ram'.addr /\ ram.addr \in Nat /\ ram'.addr \in Nat
                    /\ Stack.range # NoRange => NewRange(Stack.range)
  BY DEF Room
<1>2. /\ Kept(ram) /\ Ample(ram, ConfigSize, Page) /\ Ample(Config.left, StackSize, Page)
      /\ ConfigSize \in Nat \ {0} /\ StackSize \in Nat \ {0} /\ Page \in Nat
  BY <1>1, AddressSpaceAssumption DEF Room
<1>3. /\ Kept(Config.left) /\ ram.addr <= Config.left.addr
      /\ Config.range = NoRange
           \/ (Before(Config.range, Config.left) /\ ram.addr <= Config.range.addr)
  BY <1>2, AllocateBefore DEF Config, Behind
<1>4. /\ Kept(Stack.left) /\ Config.left.addr <= Stack.left.addr
      /\ Stack.range = NoRange
           \/ (Before(Stack.range, Stack.left) /\ Config.left.addr <= Stack.range.addr
                 /\ Stack.range.len > 0)
  BY <1>2, <1>3, AllocateBefore DEF Stack, Behind
<1> DEFINE T == taken \cup ({Config.range} \ {NoRange})
<1>5. Placed(T, Config.left)
  BY <1>2, <1>3, OneMore DEF Room
<1>6. taken' = T \cup ({Stack.range} \ {NoRange})
  BY <1>1
<1> HIDE DEF T
<1>7. Room'
  BY <1>1, <1>3, <1>4, <1>5, <1>6, OneMore DEF Room
<1> QED
  BY <1>1, <1>2, <1>3, <1>4, <1>7 DEF Kept, Before, NewRange

-----------------------------------------------------------------------------
(* Pages and page tables *)

LEMMA PageProduct ==
  ASSUME NEW i \in Nat, NEW j \in Nat, i < j
  PROVE  i * Page \in Nat /\ j * Page \in Nat /\ i * Page + Page <= j * Page
<1>1. PICK k \in Nat : j = i + 1 + k
  <2>1. j - i - 1 \in Nat /\ j = i + 1 + (j - i - 1)
    OBVIOUS
  <2> QED
    BY <2>1
<1>2. j * Page = i * Page + Page + k * Page /\ k * Page \in Nat /\ i * Page \in Nat
  BY <1>1, AddressSpaceAssumption
<1> QED
  BY <1>2, AddressSpaceAssumption

\* A page lies in the pool, apart from the other pages.
LEMMA PageInPool ==
  ASSUME pool.addr \in Nat, pool.len = NumPackets * Page, NEW i \in Slots
  PROVE  /\ PageOf(i).addr \in Nat /\ PageOf(i).len = Page
         /\ pool.addr <= PageOf(i).addr
         /\ PageOf(i).addr + Page <= pool.addr + pool.len
         /\ \A j \in Slots : i = j \/ Apart(PageOf(i), PageOf(j))
<1>1. \A j \in Slots : j \in Nat /\ j < NumPackets
  BY PoolAssumption DEF Slots
<1>2. i * Page \in Nat /\ i * Page + Page <= NumPackets * Page
  BY <1>1, PageProduct, PoolAssumption
<1>3. /\ PageOf(i).addr = pool.addr + i * Page /\ PageOf(i).len = Page
      /\ \A j \in Slots : PageOf(j).addr = pool.addr + j * Page /\ PageOf(j).len = Page
  BY DEF PageOf, PhysicalRange
<1>4. ASSUME NEW j \in Slots, i # j
      PROVE  Apart(PageOf(i), PageOf(j))
  <2>1. i < j \/ j < i
    BY <1>1, <1>4
  <2>2. CASE i < j
    BY <1>1, <1>3, <2>2, PageProduct, AddressSpaceAssumption DEF Apart
  <2>3. CASE j < i
    BY <1>1, <1>3, <2>3, PageProduct, AddressSpaceAssumption DEF Apart
  <2> QED
    BY <2>1, <2>2, <2>3
<1>5. pool.addr <= PageOf(i).addr /\ PageOf(i).addr + Page <= pool.addr + pool.len
  <2> DEFINE k == i * Page
             n == NumPackets * Page
             p == PageOf(i)
  <2>1. /\ k \in Nat /\ k + Page <= n /\ p.addr = pool.addr + k /\ pool.len = n
        /\ Page \in Nat /\ n \in Nat
    BY <1>2, <1>3, AddressSpaceAssumption, PoolAssumption
  <2> HIDE DEF k, n, p
  <2>2. pool.addr <= p.addr /\ p.addr + Page <= pool.addr + pool.len
    BY <2>1
  <2> QED
    BY <2>2 DEF p
<1>6. PageOf(i).addr \in Nat
  BY <1>2, <1>3
<1> QED
  BY <1>3, <1>4, <1>5, <1>6

\* What was available is neither in use nor a page.
LEMMA NewRangeIsNew ==
  ASSUME Room, Mapped, ~short, NEW r, NewRange(r)
  PROVE  r \notin taken /\ r \notin Pages
<1>1. \A s \in taken : s.addr + s.len <= ram.addr /\ s.addr \in Nat /\ s.len \in Nat
  BY DEF Room, Placed, Before
<1>2. r \notin taken
  BY <1>1 DEF NewRange, Room, Kept
<1>3. ASSUME NEW i \in Slots, pool # NoRange
      PROVE  r # PageOf(i)
  <2>1. /\ pool \in taken /\ pool.len = NumPackets * Page
        /\ pool.addr \in Nat /\ pool.addr + pool.len <= ram.addr
    BY <1>1, <1>3 DEF Mapped, PoolPlaced
  <2> DEFINE p == PageOf(i)
  <2>2. p.addr \in Nat /\ p.len = Page /\ p.addr + Page <= pool.addr + pool.len
    BY <2>1, PageInPool
  <2>3. Page \in Nat \ {0} /\ pool.len \in Nat /\ ram.addr \in Nat
    BY <1>1, <2>1, AddressSpaceAssumption DEF Mapped, PoolPlaced, Room, Kept
  <2> HIDE DEF p
  <2>4. p.addr + p.len <= ram.addr
    BY <2>1, <2>2, <2>3
  <2>5. r # p
    BY <2>2, <2>3, <2>4 DEF NewRange
  <2> QED
    BY <2>5 DEF p
<1> QED
  BY <1>2, <1>3 DEF Pages

\* Tables stay as they are, and so does the pool.
LEMMA SameTables ==
  ASSUME Mapped, ~short \/ short', UNCHANGED <<table, pool>>, taken \subseteq taken'
  PROVE  Mapped'
<1>1. Pages' = Pages
  BY DEF Pages, PageOf
<1> QED
  BY <1>1 DEF Mapped, PoolPlaced

\* One range more in a table, which may have been emptied before.
LEMMA EnterTable ==
  ASSUME Room, Mapped, ~short, UNCHANGED pool, taken \subseteq taken', NEW c,
         NEW rs, c \in Contexts => rs \subseteq table[c],
         NEW r, NewRange(r) \/ (pool # NoRange /\ r \in Pages),
         table' = [table EXCEPT ![c] = Enter(rs, r)]
  PROVE  Mapped'
<1>1. Pages' = Pages
  BY DEF Pages, PageOf
<1>2. /\ PoolPlaced /\ table \in [Contexts -> SUBSET (taken \cup Pages)]
      /\ \A d \in Contexts : pool \in table[d] => pool \in Pages
      /\ \A d, e \in Contexts : \A s \in table[d] :
           s \in table[e] => d = e \/ s \in Pages
  BY DEF Mapped
<1>3. r \in taken' \cup Pages /\ (r \in Pages \/ r \notin taken \cup Pages)
  BY NewRangeIsNew DEF NewRange
<1>4. \A d \in Contexts : table'[d] = IF d = c THEN rs \cup {r} ELSE table[d]
  BY <1>2 DEF Enter
<1>5. \A d \in Contexts : table'[d] \subseteq table[d] \cup {r}
  BY <1>4
<1>6. table' \in [Contexts -> SUBSET (taken' \cup Pages)]
  <2>1. \A d \in Contexts : table'[d] \in SUBSET (taken' \cup Pages)
    BY <1>2, <1>3, <1>5
  <2> QED
    BY <1>2, <2>1
<1>7. \A d \in Contexts : pool \in table'[d] => pool \in Pages
  <2>1. r = pool => r \in Pages
    BY <1>2, <1>3, NewRangeIsNew DEF PoolPlaced, NewRange, Room, Placed, Before, NoRange
  <2> QED
    BY <1>2, <1>5, <2>1
<1>8. ASSUME NEW d \in Contexts, NEW e \in Contexts, NEW s \in table'[d], s \in table'[e]
      PROVE  d = e \/ s \in Pages
  <2>1. CASE s = r
    <3>1. r \in Pages \/ \A q \in Contexts : r \notin table[q]
      BY <1>2, <1>3
    <3> QED
      BY <1>4, <1>8, <2>1, <3>1
  <2>2. CASE s # r
    BY <1>2, <1>5, <1>8, <2>2
  <2> QED
    BY <2>1, <2>2
<1>9. PoolPlaced'
  BY <1>2 DEF PoolPlaced
<1> QED
  BY <1>1, <1>6, <1>7, <1>8, <1>9 DEF Mapped

\* What the tables are said to have makes them apart.
LEMMA MappedApart == SpaceInv => OnlyPacketsShared
<1> SUFFICES ASSUME SpaceInv, ~short, NEW c \in Contexts, NEW d \in Contexts,
                    NEW r \in table[c], NEW s \in table[d]
             PROVE  \/ Apart(r, s)
                    \/ r = s /\ (c = d \/ \E i \in Slots : r = PageOf(i))
  BY DEF OnlyPacketsShared
<1>1. /\ \A t \in taken : Before(t, ram)
      /\ \A t, u \in taken : t = u \/ Apart(t, u)
  BY DEF SpaceInv, Room, Placed
<1>2. /\ PoolPlaced /\ r \in taken \cup Pages /\ s \in taken \cup Pages
      /\ r = pool => r \in Pages
      /\ s = pool => s \in Pages
      /\ r = s => c = d \/ r \in Pages
  BY DEF SpaceInv, Mapped
<1>3. r \in Pages => \E i \in Slots : r = PageOf(i)
  BY DEF Pages
<1>4. ASSUME NEW p \in Pages
      PROVE  /\ \A t \in taken : t = pool \/ (Apart(p, t) /\ Apart(t, p))
             /\ \A q \in Pages : p = q \/ Apart(p, q)
  <2>1. /\ pool # NoRange /\ pool \in taken /\ pool.len = NumPackets * Page
        /\ pool.addr \in Nat /\ pool.len \in Nat
    BY <1>1, <1>2, <1>4 DEF Pages, PoolPlaced, Before
  <2>2. PICK i \in Slots : p = PageOf(i)
    BY <1>4 DEF Pages
  <2>3. /\ p.addr \in Nat /\ p.len = Page /\ pool.addr <= p.addr
        /\ p.addr + Page <= pool.addr + pool.len
        /\ \A j \in Slots : i = j \/ Apart(p, PageOf(j))
    BY <2>1, <2>2, PageInPool
  <2>4. ASSUME NEW t \in taken, t # pool
        PROVE  Apart(p, t) /\ Apart(t, p)
    <3>1. Apart(pool, t) /\ t.addr \in Nat /\ t.len \in Nat
      BY <1>1, <2>1, <2>4 DEF Before
    <3> QED
      BY <2>1, <2>3, <3>1, AddressSpaceAssumption DEF Apart
  <2>5. \A q \in Pages : p = q \/ Apart(p, q)
    BY <2>1, <2>2, <2>3 DEF Pages
  <2> QED
    BY <2>4, <2>5
<1> QED
  BY <1>1, <1>2, <1>3, <1>4

-----------------------------------------------------------------------------
(* The steps *)

LEMMA InitSpaceInv == SpaceInit => SpaceInv
<1> SUFFICES ASSUME SpaceInit PROVE SpaceInv
  OBVIOUS
<1>1. Room
  BY MemoryAssumption DEF SpaceInit, Room, Kept, Placed, Defined
<1>2. Mapped
  BY DEF SpaceInit, Mapped, PoolPlaced
<1> QED
  BY <1>1, <1>2 DEF SpaceInv

LEMMA InitPoolStep == SpaceInv /\ InitPool => SpaceInv'
<1> SUFFICES ASSUME SpaceInv, InitPool PROVE SpaceInv'
  OBVIOUS
<1> DEFINE a == Allocate(ram, NumPackets * Page, Page)
<1>1. /\ ram' = a.left /\ taken' = taken \cup ({a.range} \ {NoRange}) /\ ~short
      /\ short' = (short \/ ~Ample(ram, NumPackets * Page, Page))
      /\ pool = NoRange /\ pool' = a.range /\ UNCHANGED table
  BY DEF InitPool
<1>2. NumPackets * Page \in Nat \ {0} /\ Page \in Nat
  BY PoolAssumption, AddressSpaceAssumption
<1>3. Room' /\ (~short' /\ a.range # NoRange => NewRange(a.range))
  BY <1>1, <1>2, TakeOne DEF SpaceInv
<1>4. Mapped'
  <2> SUFFICES ASSUME ~short' PROVE Mapped'
    BY DEF Mapped
  <2>1. Pages = {}
    BY <1>1 DEF Pages
  <2>2. /\ table \in [Contexts -> SUBSET taken]
        /\ \A c, d \in Contexts : \A r \in table[c] : r \in table[d] => c = d
    BY <1>1, <2>1 DEF SpaceInv, Mapped
  <2>3. NoRange \notin taken
    BY <1>1, MemoryAssumption DEF SpaceInv, Room, Placed, Before, NoRange
  <2>4. pool' \notin taken
    BY <1>1, <1>3, <2>3, NewRangeIsNew DEF SpaceInv
  <2>5. PoolPlaced'
    <3>1. CASE a.range = NoRange
      BY <1>1, <3>1 DEF PoolPlaced
    <3>2. CASE a.range # NoRange
      <4>1. a.range.len = NumPackets * Page
        BY <1>1, <1>2, <3>2, AllocateLength DEF SpaceInv, Room
      <4> QED
        BY <1>1, <1>3, <3>2, <4>1 DEF PoolPlaced, NewRange
    <3> QED
      BY <3>1, <3>2
  <2> HIDE DEF a
  <2>6. table' \in [Contexts -> SUBSET (taken' \cup Pages')]
    <3>1. taken \subseteq taken' \cup Pages' /\ table' = table
      BY <1>1
    <3> QED
      BY <2>2, <3>1
  <2>7. /\ \A c \in Contexts : pool' \notin table'[c]
        /\ \A c, d \in Contexts : \A r \in table'[c] : r \in table'[d] => c = d
    BY <1>1, <2>2, <2>4
  <2> QED
    BY <2>5, <2>6, <2>7 DEF Mapped
<1> QED
  BY <1>3, <1>4 DEF SpaceInv

\* The calls of PackosContextNew that fail.
LEMMA FailStep ==
  ASSUME SpaceInv, ~short, NoSlot \/ FailConfig \/ FailName \/ FailStack, UNCHANGED pool
  PROVE  SpaceInv'
<1>1. UNCHANGED table
  BY DEF NoSlot, FailConfig, FailName, FailStack
<1>2. \/ NoSlot \/ Use(<<Config>>) \/ Use(<<Config, Stack>>)
  BY DEF FailConfig, FailName, FailStack
<1>3. Room' /\ taken \subseteq taken'
  <2>1. CASE NoSlot
    BY <2>1 DEF NoSlot, SpaceInv, Room, Kept
  <2>2. Use(<<Config>>) \/ Use(<<Config, Stack>>) => taken \subseteq taken'
    BY DEF Use
  <2> QED
    BY <1>2, <2>1, <2>2, TakeConfig, TakeBoth DEF SpaceInv
<1>4. Mapped'
  BY <1>1, <1>3, SameTables DEF SpaceInv
<1> QED
  BY <1>3, <1>4 DEF SpaceInv

LEMMA MakeStep ==
  ASSUME SpaceInv, ~short, slots # << >>, MakeContext, UNCHANGED pool
  PROVE  SpaceInv'
<1>1. Use(<<Config, Stack>>) /\ Stack.range # NoRange
  BY DEF MakeContext
<1>2. Room' /\ (~short' => NewRange(Stack.range)) /\ taken \subseteq taken'
  <2>1. taken \subseteq taken'
    BY <1>1 DEF Use
  <2> QED
    BY <1>1, <2>1, TakeBoth DEF SpaceInv
<1>3. CASE AddrInUse
  BY <1>2, <1>3, SameTables DEF SpaceInv, AddrInUse
<1>4. CASE Register(Head(slots))
  <2>1. Mapped'
    <3> SUFFICES ASSUME ~short' PROVE Mapped'
      BY DEF Mapped
    <3>1. table' = [table EXCEPT ![Head(slots)] = Enter({}, Stack.range)]
      BY <1>4 DEF Register
    <3> HIDE DEF Stack
    <3> QED
      BY <1>2, <3>1, EnterTable DEF SpaceInv
  <2> QED
    BY <1>2, <2>1 DEF SpaceInv
<1> QED
  BY <1>3, <1>4 DEF MakeContext

LEMMA NewStep == SpaceInv /\ New => SpaceInv'
BY FailStep, MakeStep DEF New

LEMMA GetArenaStep == SpaceInv /\ (\E c \in Contexts : GetArena(c)) => SpaceInv'
<1> SUFFICES ASSUME SpaceInv, NEW c \in Contexts, GetArena(c) PROVE SpaceInv'
  OBVIOUS
<1> DEFINE r == ArenaRange.range
<1>1. /\ ram' = ArenaRange.left /\ taken' = taken \cup ({r} \ {NoRange}) /\ ~short
      /\ short' = (short \/ ~Ample(ram, ArenaSize, 0))
      /\ UNCHANGED pool
  BY DEF GetArena
<1>2. Room' /\ (~short' /\ r # NoRange => NewRange(r))
  BY <1>1, AddressSpaceAssumption, TakeOne DEF SpaceInv, ArenaRange
<1>3. \/ UNCHANGED table
      \/ r # NoRange /\ table' = [table EXCEPT ![c] = Enter(@, r)]
  BY DEF GetArena
<1> HIDE DEF r
<1>4. CASE UNCHANGED table
  BY <1>1, <1>2, <1>4, SameTables DEF SpaceInv
<1>5. CASE r # NoRange /\ table' = [table EXCEPT ![c] = Enter(@, r)]
  <2>1. Mapped'
    <3> SUFFICES ASSUME ~short' PROVE Mapped'
      BY DEF Mapped
    <3>1. NewRange(r) /\ taken \subseteq taken'
      BY <1>1, <1>2, <1>5
    <3>2. table' = [table EXCEPT ![c] = Enter(table[c], r)]
      BY <1>5
    <3> QED
      BY <1>1, <3>1, <3>2, EnterTable DEF SpaceInv
  <2> QED
    BY <1>2, <2>1 DEF SpaceInv
<1> QED
  BY <1>3, <1>4, <1>5

LEMMA LendStep == SpaceInv /\ (\E c \in Contexts : Lend(c)) => SpaceInv'
<1> SUFFICES ASSUME SpaceInv, NEW c \in Contexts, Lend(c) PROVE SpaceInv'
  OBVIOUS
<1>1. UNCHANGED <<ram, taken, pool, short>> /\ pool # NoRange
  BY DEF Lend
<1>2. Room'
  BY <1>1 DEF SpaceInv, Room
<1>3. CASE short
  BY <1>1, <1>2, <1>3 DEF SpaceInv, Mapped
<1>4. CASE ~short /\ UNCHANGED table
  BY <1>1, <1>2, <1>4, SameTables DEF SpaceInv
<1>5. CASE ~short /\ inUse' # inUse
  <2>1. first \in Slots
    BY <1>5 DEF Lend, Alloc, AllocEmpty, AllocUnmapped, AllocSlot
  <2>2. PageOf(first) \in Pages
    BY <1>1, <2>1 DEF Pages
  <2>3. table' = [table EXCEPT ![c] = Enter(table[c], PageOf(first))]
    BY <1>5 DEF Lend
  <2>4. Mapped'
    BY <1>1, <1>5, <2>2, <2>3, EnterTable DEF SpaceInv
  <2> QED
    BY <1>2, <2>4 DEF SpaceInv
<1> QED
  BY <1>3, <1>4, <1>5 DEF Lend

Packets == TakeBack \/ \E c \in Contexts : Lend(c)

LEMMA PacketsAreNext == Packets => Next
BY DEF Packets, TakeBack, Lend, Next

LEMMA NextSpaceInv == SpaceInv /\ [SpaceNext]_allVars => SpaceInv'
<1> SUFFICES ASSUME SpaceInv, [SpaceNext]_allVars PROVE SpaceInv'
  OBVIOUS
<1>1. CASE TakeBack \/ (\E c \in Contexts : Exit(c)) \/ UNCHANGED allVars
  <2>1. UNCHANGED <<ram, taken, table, pool, short>>
    BY <1>1 DEF TakeBack, Exit, space, allVars
  <2>2. Room'
    BY <2>1 DEF SpaceInv, Room
  <2>3. Mapped'
    BY <2>1, SameTables DEF SpaceInv
  <2> QED
    BY <2>2, <2>3 DEF SpaceInv
<1> QED
  BY <1>1, InitPoolStep, NewStep, GetArenaStep, LendStep DEF SpaceNext

-----------------------------------------------------------------------------
(* The theorems *)

THEOREM SpaceInvariance == SpaceSpec => []SpaceInv
BY InitSpaceInv, NextSpaceInv, PTL DEF SpaceSpec

\* While RAM is ample no two physical ranges overlap, and none that is in use
\* overlaps what is available, for every size and alignment and whichever calls
\* failed half way (PackosMemoryPhysicalRangeAlloc).
THEOREM RangesStayApart == SpaceSpec => []RangesApart
<1>1. SpaceInv => RangesApart
  BY DEF SpaceInv, Room, Kept, Placed, Before, RangesApart
<1> QED
  BY <1>1, SpaceInvariance, PTL

\* Page tables have nothing in common but packets, and no table has two ranges
\* that overlap, for every size and alignment, any number of contexts and of
\* packets, whoever lends and frees them (LogicalRangeNew and its callers).
THEOREM OnlyPacketsStayShared == SpaceSpec => []OnlyPacketsShared
BY MappedApart, SpaceInvariance, PTL

\* No logical range comes back once they have run out, and no link of the
\* pool is touched by anything but its own two calls.
LEMMA OthersLeaveThePool ==
  ASSUME PoolInv, SpaceNext, ~Packets
  PROVE  /\ UNCHANGED <<inUse, links, error>>
         /\ ranges' \in Nat /\ (ranges' # 0 => ranges # 0)
         /\ interrupts' \in BOOLEAN /\ halted' \in BOOLEAN
<1>1. ranges \in Nat /\ interrupts \in BOOLEAN /\ halted \in BOOLEAN
  BY DEF PoolInv, TypeOK
<1>2. CASE InitPool
  <2>1. /\ UNCHANGED <<inUse, links, error, interrupts>>
        /\ \/ halted' = TRUE /\ UNCHANGED ranges
           \/ ranges # 0 /\ ranges' = LogicalAlloc(ranges) /\ UNCHANGED halted
    BY <1>2 DEF InitPool
  <2>2. ranges # 0 => LogicalAlloc(ranges) \in Nat
    BY <1>1 DEF LogicalAlloc
  <2>3. ranges' \in Nat /\ (ranges' # 0 => ranges # 0)
    BY <1>1, <2>1, <2>2
  <2>4. interrupts' \in BOOLEAN /\ halted' \in BOOLEAN
    BY <1>1, <2>1, Zenon
  <2> QED
    BY <2>1, <2>3, <2>4
<1>3. CASE New
  <2>1. UNCHANGED <<inUse, links, error, interrupts, halted>>
    BY <1>3 DEF New
  <2>2. ranges' \in Nat /\ (ranges' # 0 => ranges # 0)
    BY <1>1, <1>3 DEF New, NoSlot, FailConfig, FailName, FailStack, MakeContext, Register,
                      AddrInUse, LogicalAlloc, LogicalFree
  <2> QED
    BY <1>1, <2>1, <2>2
<1>4. CASE \E c \in Contexts : GetArena(c)
  BY <1>1, <1>4 DEF GetArena, LogicalAlloc
<1>5. CASE \E c \in Contexts : Exit(c)
  BY <1>1, <1>5 DEF Exit, vars, links
<1> QED
  BY <1>2, <1>3, <1>4, <1>5 DEF SpaceNext, Packets

\* The pool's invariant among all that happens in the address space.
LEMMA PoolInvStep == PoolInv /\ [SpaceNext]_allVars => PoolInv'
<1> SUFFICES ASSUME PoolInv, [SpaceNext]_allVars PROVE PoolInv'
  OBVIOUS
<1>1. CASE Packets \/ UNCHANGED allVars
  BY <1>1, PacketsAreNext, NextPoolInv DEF allVars
<1>2. CASE SpaceNext /\ ~Packets
  <2>1. /\ UNCHANGED <<inUse, links, error>>
        /\ ranges' \in Nat /\ (ranges' # 0 => ranges # 0)
        /\ interrupts' \in BOOLEAN /\ halted' \in BOOLEAN
    BY <1>2, OthersLeaveThePool
  <2>2. TypeOK'
    BY <2>1 DEF PoolInv, TypeOK, links
  <2>3. HeadIsFree' /\ FreeListIntact'
    BY <2>1, UnlinkedStep
  <2> QED
    BY <2>2, <2>3 DEF PoolInv
<1> QED
  BY <1>1, <1>2

\* Whatever contexts take of the logical ranges, the pool lends packets that
\* nobody holds, takes back what is lent and runs out only when every packet
\* is lent (PackosPacketAlloc and PackosPacketFree next to PackosContextNew).
THEOREM SpaceImplementsPool == SpaceSpec => KeepsPromise
<1>1. SpaceInit => PoolInv /\ Promise!Init
  BY InitPoolInv DEF SpaceInit, Init, Promise!Init, FreeSlots
<1>2. PoolInv /\ [SpaceNext]_allVars => [Promise!Next]_<<Slots \ FreeSlots, error>>
  <2> SUFFICES ASSUME PoolInv, [SpaceNext]_allVars
               PROVE  [Promise!Next]_<<Slots \ FreeSlots, error>>
    OBVIOUS
  <2>1. CASE Packets \/ UNCHANGED allVars
    BY <2>1, PacketsAreNext, RefinementStep DEF allVars
  <2>2. CASE SpaceNext /\ ~Packets
    BY <2>2, OthersLeaveThePool DEF FreeSlots
  <2> QED
    BY <2>1, <2>2
<1> QED
  BY <1>1, <1>2, PoolInvStep, PTL DEF SpaceSpec, KeepsPromise, Promise!Spec

-----------------------------------------------------------------------------
(* Ranges that are given back *)

\* A range that was padded has no neighbour among those before it.
LEMMA StandsAlone ==
  ASSUME NEW S, NEW m, NEW n, NEW align \in Nat \ {0}, NEW r, Kept(m),
         Placed(S, m), Behind(r, m, n, align)
  PROVE  ~Adjoins(r, r) /\ \A s \in S : ~Adjoins(r, s)
BY DEF Placed, Before, Behind, Kept, Adjoins

\* PackosContextNew gives back aligned ranges: while RAM was ample they have no
\* neighbour in use.
LEMMA ConfigStandsAlone ==
  ASSUME Room, ~short, ~short', Use(<<Config>>), Config.range # NoRange
  PROVE  \A s \in taken' : ~Adjoins(Config.range, s)
<1>1. /\ ConfigSize \in Nat \ {0} /\ Page \in Nat \ {0}
      /\ Kept(ram) /\ Placed(taken, ram) /\ Ample(ram, ConfigSize, Page)
      /\ taken' = taken \cup ({Config.range} \ {NoRange})
  <2>1. /\ taken' = taken \cup ({Config.range} \ {NoRange})
        /\ short' = (short \/ ~Ample(ram, ConfigSize, Page))
    BY DEF Use
  <2> QED
    BY <2>1, AddressSpaceAssumption DEF Room
<1>2. Behind(Config.range, ram, Config.left, Page)
  BY <1>1, AllocateBefore DEF Config
<1>3. /\ ~Adjoins(Config.range, Config.range)
      /\ \A s \in taken : ~Adjoins(Config.range, s)
  BY <1>1, <1>2, StandsAlone
<1> QED
  BY <1>1, <1>3

LEMMA BothStandAlone ==
  ASSUME Room, ~short, ~short', Use(<<Config, Stack>>), Config.range # NoRange
  PROVE  \A s \in taken' : /\ ~Adjoins(Config.range, s)
                           /\ Stack.range # NoRange => ~Adjoins(Stack.range, s)
<1> DEFINE T == taken \cup ({Config.range} \ {NoRange})
<1>1. /\ ConfigSize \in Nat \ {0} /\ StackSize \in Nat \ {0} /\ Page \in Nat \ {0}
      /\ Kept(ram) /\ Placed(taken, ram)
  BY AddressSpaceAssumption DEF Room
<1>2. /\ Ample(ram, ConfigSize, Page) /\ Ample(Config.left, StackSize, Page)
      /\ taken' = taken \cup ({Config.range, Stack.range} \ {NoRange})
  <2>1. /\ taken' = taken \cup ({Config.range, Stack.range} \ {NoRange})
        /\ short' = (short \/ ~Ample(ram, ConfigSize, Page)
                           \/ ~Ample(Config.left, StackSize, Page))
    BY DEF Use
  <2> QED
    BY <2>1
<1>3. /\ Kept(Config.left) /\ ram.addr <= Config.left.addr
      /\ Behind(Config.range, ram, Config.left, Page)
  BY <1>1, <1>2, AllocateBefore DEF Config
<1>4. /\ ~Adjoins(Config.range, Config.range)
      /\ \A s \in taken : ~Adjoins(Config.range, s)
  BY <1>1, <1>3, StandsAlone
<1>5. Stack.range = NoRange \/ Behind(Stack.range, Config.left, Stack.left, Page)
  BY <1>1, <1>2, <1>3, AllocateBefore DEF Stack
<1>6. Placed(T, Config.left)
  BY <1>1, <1>3, OneMore DEF Behind
<1>7. Stack.range # NoRange => /\ ~Adjoins(Stack.range, Stack.range)
                               /\ \A s \in T : ~Adjoins(Stack.range, s)
  BY <1>1, <1>3, <1>5, <1>6, StandsAlone
<1>8. Stack.range # NoRange => ~Adjoins(Config.range, Stack.range)
  BY <1>7 DEF Adjoins
<1>9. \A s \in taken' : s \in T \/ (s = Stack.range /\ Stack.range # NoRange)
  BY <1>2
<1>10. \A s \in T : ~Adjoins(Config.range, s)
  BY <1>4
<1> HIDE DEF T
<1> QED
  BY <1>7, <1>8, <1>9, <1>10

\* Once the logical ranges have run out, or RAM was short, it stays so.
StrayInv == Room /\ ranges \in Nat /\ StrayedOnlyWhenExhausted

LEMMA NewStrays ==
  ASSUME StrayInv, New
  PROVE  StrayedOnlyWhenExhausted'
<1> SUFFICES ASSUME ranges' # 0, ~short'
             PROVE  ~strayed'
  BY DEF StrayedOnlyWhenExhausted
<1>1. Room /\ ranges \in Nat /\ ~short
  BY DEF StrayInv, New
<1>2. ranges # 0 => ~strayed
  BY <1>1 DEF StrayInv, StrayedOnlyWhenExhausted
<1>3. CASE NoSlot
  BY <1>2, <1>3 DEF NoSlot
<1>4. CASE FailConfig
  <2>1. UNCHANGED ranges /\ UNCHANGED strayed
    BY <1>4 DEF FailConfig
  <2> QED
    BY <1>2, <2>1
<1>5. CASE FailName
  <2>1. \A s \in taken' : ~Adjoins(Config.range, s)
    BY <1>1, <1>5, ConfigStandsAlone DEF FailName
  <2>2. FreePhysical({Config.range}, taken') /\ ~strayed
    BY <1>1, <1>2, <1>5 DEF FailName
  <2> QED
    BY <2>1, <2>2 DEF FreePhysical
<1>6. CASE FailStack
  <2>1. \A s \in taken' : /\ ~Adjoins(Config.range, s)
                          /\ Stack.range # NoRange => ~Adjoins(Stack.range, s)
    BY <1>1, <1>6, BothStandAlone DEF FailStack
  <2>2. \/ FreePhysical({Config.range}, taken')
        \/ Stack.range # NoRange /\ FreePhysical({Config.range, Stack.range}, taken')
    BY <1>6 DEF FailStack
  <2>3. ~strayed
    BY <1>1, <1>2, <1>6 DEF FailStack
  <2> QED
    BY <2>1, <2>2, <2>3 DEF FreePhysical
<1>7. CASE MakeContext
  <2>1. \A s \in taken' : ~Adjoins(Config.range, s)
    BY <1>1, <1>7, BothStandAlone DEF MakeContext
  <2>2. FreePhysical({Config.range}, taken') \/ UNCHANGED strayed
    BY <1>7 DEF MakeContext, AddrInUse, Register
  <2>3. ~strayed
    BY <1>1, <1>2, <1>7 DEF MakeContext
  <2> QED
    BY <2>1, <2>2, <2>3 DEF FreePhysical
<1> QED
  BY <1>3, <1>4, <1>5, <1>6, <1>7 DEF New

LEMMA StrayStep ==
  ASSUME SpaceInv, PoolInv, StrayedOnlyWhenExhausted, [SpaceNext]_allVars
  PROVE  StrayedOnlyWhenExhausted'
<1>1. StrayInv
  BY DEF StrayInv, SpaceInv, PoolInv, TypeOK
<1>2. CASE Packets
  <2>1. UNCHANGED <<strayed, short>> /\ (ranges = 0 => ranges' = 0)
    BY <1>2 DEF Packets, TakeBack, Lend, space, Alloc, AllocEmpty, AllocUnmapped, AllocSlot,
                Free, FreeForeign
  <2> QED
    BY <2>1 DEF StrayedOnlyWhenExhausted
<1>3. CASE InitPool
  <2>1. UNCHANGED strayed /\ (short => short') /\ (ranges = 0 => ranges' = 0)
    BY <1>3 DEF InitPool
  <2> QED
    BY <2>1 DEF StrayedOnlyWhenExhausted
<1>4. CASE New
  BY <1>1, <1>4, NewStrays
<1>5. CASE \E c \in Contexts : GetArena(c)
  <2>1. /\ short => short'
        /\ UNCHANGED strayed \/ ranges' = 0
        /\ ranges = 0 => ranges' = 0
    BY <1>5 DEF GetArena
  <2> QED
    BY <2>1 DEF StrayedOnlyWhenExhausted
<1>6. CASE \E c \in Contexts : Exit(c)
  BY <1>6 DEF Exit, vars, StrayedOnlyWhenExhausted
<1>7. CASE UNCHANGED allVars
  BY <1>7 DEF allVars, vars, space, StrayedOnlyWhenExhausted
<1> QED
  BY <1>2, <1>3, <1>4, <1>5, <1>6, <1>7 DEF SpaceNext, Packets

\* PackosMemoryPhysicalRangeFree finds a neighbour of what it is given, and
\* follows a null pointer, at most when the logical ranges have run out or RAM
\* was short: the ranges that PackosContextNew gives back were padded.
THEOREM StraysOnlyWhenExhausted == SpaceSpec => []StrayedOnlyWhenExhausted
<1>1. SpaceInit => StrayedOnlyWhenExhausted /\ PoolInv
  BY InitPoolInv DEF SpaceInit, StrayedOnlyWhenExhausted
<1> QED
  BY <1>1, InitSpaceInv, NextSpaceInv, PoolInvStep, StrayStep, PTL DEF SpaceSpec
=============================================================================
