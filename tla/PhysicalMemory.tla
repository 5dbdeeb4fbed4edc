--------------------------- MODULE PhysicalMemory ---------------------------
(***************************************************************************)
(* The allocator of physical ranges (common/memory.c): what one call of    *)
(* PackosMemoryPhysicalRangeAlloc does to the list of available ranges.    *)
(*                                                                         *)
(* That list is one range of RAM.  A fragment that alignment leaves gets   *)
(* the type Invalid and never becomes the head of the list: it is gone,    *)
(* and the one range is all that can be had.  What is cut from it has the  *)
(* type Invalid as well.  Addresses and lengths are unsigned and wrap at   *)
(* Word (2^32 in the code).                                                *)
(***************************************************************************)
EXTENDS Integers

CONSTANTS Base, Size,   \* the RAM that PackosMemoryPhysicalRangeDefine defines
          Word,
          Structs       \* PHYSICAL_RANGE_POOL_SIZE

ASSUME MemoryAssumption ==
  /\ Base \in Nat \ {0} /\ Size \in Nat \ {0}
  /\ Word \in Nat /\ Base + Size < Word
  /\ Structs \in Nat \ {0}

\* PackosMemoryInit and PackosMemoryPhysicalRangeDefine: the range, and the
\* structs left in physicalRangePool.
Defined == [addr |-> Base, len |-> Size, structs |-> Structs - 1]

NoRange == [addr |-> 0, len |-> 0, type |-> "None"]
PhysicalRange(addr, len) == [addr |-> addr, len |-> len, type |-> "Invalid"]

\* How far the first address is past a multiple of align.
Misalignment(m, align) == IF align = 0 THEN 0 ELSE m.addr % align

\* "Shall we try getting our block from the end": when the end is aligned and
\* the start is not, a block is cut off there.
CutsEnd(m, align) ==
  Misalignment(m, align) # 0 /\ (m.addr + m.len) % align = 0
EndCut(m, len) == [addr |-> m.addr, len |-> m.len - len, structs |-> m.structs - 1]

\* The loop does not stop there: the block is then taken from the start, past
\* the padding, and it replaces the one from the end.  A start that was aligned
\* is padded by a whole multiple.
\* Variant to reject: an aligned start is not padded.
NoWholePadding(m, align) ==
  IF Misalignment(m, align) = 0 THEN 0 ELSE align - Misalignment(m, align)

Padding(m, align) == align - Misalignment(m, align)
FitsAtStart(m, len, align) == (m.len - Padding(m, align)) % Word >= len

\* Variant to reject: the padding is forgotten when the range is cut off.
FromStartUnpadded(m, len, align) ==
  [range |-> PhysicalRange(m.addr + Padding(m, align), len),
   left  |-> [addr |-> m.addr + len, len |-> m.len - len, structs |-> m.structs - 1]]

FromStart(m, len, align) ==
  LET pad == Padding(m, align) IN
  [range |-> PhysicalRange(m.addr + pad, len),
   left  |-> [addr |-> (m.addr + pad + len) % Word,
              len |-> (m.len - pad - len) % Word,
              structs |-> IF pad = 0 \/ m.structs = 1 THEN m.structs - 1
                          ELSE m.structs - 2]]

Whole(m) == [range |-> [PhysicalRange(m.addr, m.len) EXCEPT !.type = "RAM"],
             left |-> [m EXCEPT !.len = 0]]

\* What the loop goes on with after the end was cut, or not.
AfterCut(m, len, align, end) ==
  IF ~FitsAtStart(m, len, align) THEN [range |-> end, left |-> m]
  ELSE IF m.len = len THEN Whole(m)
  ELSE IF m.structs = 0 THEN [range |-> NoRange, left |-> m]
  ELSE FromStart(m, len, align)

\* The range a call returns, NoRange when it fails, and what is left of RAM.
Allocate(m, len, align) ==
  IF m.len < len THEN [range |-> NoRange, left |-> m]
  ELSE IF ~CutsEnd(m, align) THEN AfterCut(m, len, align, NoRange)
  ELSE IF m.structs = 0 THEN [range |-> NoRange, left |-> m]
  ELSE AfterCut(EndCut(m, len), len, align, PhysicalRange(m.addr + m.len - len, len))

\* There is room for the block, its padding, and a second block.
Ample(m, len, align) == m.len >= 2 * len + align

Apart(r, s) == r.addr + r.len <= s.addr \/ s.addr + s.len <= r.addr
Adjoins(r, s) ==
  /\ r.type = s.type
  /\ r.addr + r.len = s.addr \/ s.addr + s.len = r.addr
=============================================================================
