---------------------------- MODULE AddressSpace ----------------------------
(***************************************************************************)
(* What contexts and packets are made of: physical memory, logical ranges, *)
(* the slots for contexts and the table of addresses (common/memory.c,     *)
(* common/context.c, kernel/contextK.c, kernel/packetK.c).                 *)
(*                                                                         *)
(* PackosContextNew runs in the scheduler before any other context does,   *)
(* and PackosKernelContextGetArena with interrupts disabled: each call is  *)
(* one step.  The packet pool is module PacketPool; its counter `ranges'   *)
(* is the pool of logical ranges that everything here shares.              *)
(*                                                                         *)
(* BOUND: a machine is followed up to the first range that is asked for    *)
(* when RAM has no room for it, its padding and a block lost at the end.   *)
(***************************************************************************)
EXTENDS PacketPool, PhysicalMemory, Sequences

CONSTANTS NumContexts,  \* PACKOS_KERNEL_PACKET_MAXADDRS
          NumPairs,     \* NUM_PAIRS
          Page, ConfigSize, StackSize, ArenaSize,
          NoContext

Contexts == 0 .. NumContexts - 1

ASSUME AddressSpaceAssumption ==
  /\ NumContexts \in Nat \ {0} /\ NumPairs \in Nat \ {0}
  /\ Page \in Nat \ {0} /\ ConfigSize \in Nat \ {0}
  /\ StackSize \in Nat \ {0} /\ ArenaSize \in Nat \ {0}
  /\ NoContext \notin Contexts

VARIABLES ram,          \* what is available, and the structs for ranges
          taken,        \* physicalMemory.inUse
          slots,        \* the free slots for contexts, poolFirst at the head
          life,         \* what became of each slot
          addr,         \* addresses.self, the number in it
          table,        \* os.pageTable, the ranges that are entered in it
          arena,        \* the contexts that have fetched their arena
          pairs,        \* the context registered for each address
          nextId,
          pool,         \* packetPool.packets.physical, NoRange before initPool
          strayed,      \* a search of the ranges followed a null pointer
          short         \* a range was asked for when RAM was not ample

space == <<ram, taken, slots, life, addr, table, arena, pairs, nextId, pool, strayed, short>>
allVars == <<vars, space>>

SpaceInit ==
  /\ Init
  /\ ram = Defined
  /\ taken = {}
  /\ slots = [i \in 1 .. NumContexts |-> i - 1]
  /\ life = [c \in Contexts |-> "New"]
  /\ addr = [c \in Contexts |-> 0]
  /\ table = [c \in Contexts |-> {}]
  /\ arena = {}
  /\ pairs = [i \in 0 .. NumPairs - 1 |-> NoContext]
  /\ nextId = 1 % NumPairs
  /\ pool = NoRange
  /\ strayed = FALSE
  /\ short = FALSE

-----------------------------------------------------------------------------
(* Physical and logical ranges *)

\* PackosMemoryPhysicalRangeFree puts nothing back: it looks for neighbours of
\* the range, and when it finds one its search goes on from a null pointer.
FreePhysical(rs, use) == strayed' = (strayed \/ \E r \in rs, s \in use : Adjoins(r, s))

\* logicalRangePoolAlloc takes one of the logical ranges that are left, and
\* PackosMemoryLogicalRangeFree gives one back.
LogicalAlloc(n) == n - 1
LogicalFree(n)  == n + 1

\* LogicalRangeNew enters the range in a page table, at its physical address.
Enter(rs, r) == rs \cup {r}

\* The pool of packet pages, when the first packet is asked for.  Its range is
\* entered in the page table at the address that a null context has.
InitPool ==
  LET a == Allocate(ram, NumPackets * Page, Page) IN
  /\ pool = NoRange /\ ~halted /\ ~short
  /\ pool' = a.range
  /\ ram' = a.left
  /\ taken' = taken \cup ({a.range} \ {NoRange})
  /\ short' = (short \/ ~Ample(ram, NumPackets * Page, Page))
  /\ IF a.range = NoRange \/ ranges = 0
     THEN halted' = TRUE /\ UNCHANGED ranges
     ELSE ranges' = LogicalAlloc(ranges) /\ UNCHANGED halted
  /\ UNCHANGED <<inUse, links, error, interrupts, slots, life, addr, table, arena,
                 pairs, nextId, strayed>>

-----------------------------------------------------------------------------
(* PackosContextNew *)

Config == Allocate(ram, ConfigSize, Page)
Stack  == Allocate(Config.left, StackSize, Page)

\* Both ranges, or as many as could be had, are in use from now on.
Use(as) ==
  /\ ram' = as[Len(as)].left
  /\ taken' = taken \cup ({as[i].range : i \in 1 .. Len(as)} \ {NoRange})
  /\ short' = (short \/ ~Ample(ram, ConfigSize, Page)
                     \/ (Len(as) > 1 /\ ~Ample(Config.left, StackSize, Page)))

NoSlot ==
  /\ slots = << >>
  /\ UNCHANGED <<ranges, ram, taken, slots, life, addr, table, pairs, nextId,
                 strayed, short>>

\* A failure gives the slot back, and the logical range of the configuration.
FailConfig ==
  /\ Use(<<Config>>)
  /\ \/ /\ Config.range = NoRange
        /\ UNCHANGED strayed
     \/ /\ Config.range # NoRange /\ ranges = 0
        /\ FreePhysical({Config.range}, taken')
  /\ UNCHANGED <<ranges, slots, life, addr, table, pairs, nextId>>

FailName ==
  /\ Config.range # NoRange /\ ranges > 0
  /\ Use(<<Config>>)
  /\ FreePhysical({Config.range}, taken')
  /\ ranges' = LogicalFree(LogicalAlloc(ranges))
  /\ UNCHANGED <<slots, life, addr, table, pairs, nextId>>

FailStack ==
  /\ Config.range # NoRange /\ ranges > 0
  /\ Use(<<Config, Stack>>)
  /\ \/ /\ Stack.range = NoRange
        /\ FreePhysical({Config.range}, taken')
     \/ /\ Stack.range # NoRange /\ ranges = 1
        /\ FreePhysical({Config.range, Stack.range}, taken')
  /\ ranges' = LogicalFree(LogicalAlloc(ranges))
  /\ UNCHANGED <<slots, life, addr, table, pairs, nextId>>

\* PackosAddressGenerate.
Generate == nextId' = (nextId + 1) % NumPairs

\* The page table was emptied after the configuration was entered in it, so
\* only the stack is there.
Register(c) ==
  /\ pairs[nextId] = NoContext
  /\ pairs' = [pairs EXCEPT ![nextId] = c]
  /\ slots' = Tail(slots)
  /\ life' = [life EXCEPT ![c] = "Ready"]
  /\ addr' = [addr EXCEPT ![c] = nextId]
  /\ table' = [table EXCEPT ![c] = Enter({}, Stack.range)]
  /\ ranges' = LogicalAlloc(LogicalAlloc(ranges))
  /\ UNCHANGED strayed

\* The stack keeps its logical range although the slot goes back.
AddrInUse ==
  /\ pairs[nextId] # NoContext
  /\ FreePhysical({Config.range}, taken')
  /\ ranges' = LogicalFree(LogicalAlloc(LogicalAlloc(ranges)))
  /\ UNCHANGED <<slots, life, addr, table, pairs>>

MakeContext ==
  /\ Config.range # NoRange /\ Stack.range # NoRange /\ ranges > 1
  /\ Use(<<Config, Stack>>)
  /\ Generate
  /\ Register(Head(slots)) \/ AddrInUse

New ==
  /\ ~halted /\ ~short
  /\ NoSlot \/ (slots # << >> /\ (FailConfig \/ FailName \/ FailStack \/ MakeContext))
  /\ UNCHANGED <<inUse, links, error, interrupts, halted, arena, pool>>

-----------------------------------------------------------------------------
(* A running context *)

\* UtilArenaInit or malloc for the first time.
ArenaRange == Allocate(ram, ArenaSize, 0)

GetArena(c) ==
  /\ ~halted /\ ~short
  /\ life[c] = "Ready" /\ c \notin arena
  /\ ram' = ArenaRange.left
  /\ taken' = taken \cup ({ArenaRange.range} \ {NoRange})
  /\ short' = (short \/ ~Ample(ram, ArenaSize, 0))
  /\ \/ /\ ArenaRange.range # NoRange /\ ranges > 0
        /\ table' = [table EXCEPT ![c] = Enter(@, ArenaRange.range)]
        /\ arena' = arena \cup {c}
        /\ ranges' = LogicalAlloc(ranges)
        /\ UNCHANGED strayed
     \/ /\ ArenaRange.range # NoRange /\ ranges = 0
        /\ FreePhysical({ArenaRange.range}, taken')
        /\ UNCHANGED <<table, arena, ranges>>
     \/ /\ ArenaRange.range = NoRange
        /\ UNCHANGED <<table, arena, ranges, strayed>>
  /\ UNCHANGED <<inUse, links, error, interrupts, halted, slots, life, addr, pairs,
                 nextId, pool>>

\* PackosKernelContextExit gives back the address and nothing else, and not
\* even that when a tick takes the processor before it does.
Finish(c) ==
  /\ life[c] = "Ready"
  /\ life' = [life EXCEPT ![c] = "Finished"]
  /\ UNCHANGED pairs

Unregister(c) ==
  /\ life[c] = "Finished" /\ pairs[addr[c]] = c
  /\ pairs' = [pairs EXCEPT ![addr[c]] = NoContext]
  /\ UNCHANGED life

Exit(c) ==
  /\ ~halted
  /\ Finish(c) \/ Unregister(c)
  /\ UNCHANGED <<vars, ram, taken, slots, addr, table, arena, nextId, pool, strayed, short>>

-----------------------------------------------------------------------------
(* Packets *)

\* Variant for the runs to reject: the pages are counted from one.
PageAfter(i) == PhysicalRange(pool.addr + (i + 1) * Page, Page)

PageOf(i) == PhysicalRange(pool.addr + i * Page, Page)

\* PackosPacketAlloc enters the packet's page in the caller's page table.
Lend(c) ==
  /\ pool # NoRange /\ life[c] = "Ready"
  /\ Alloc
  /\ table' = IF inUse' = inUse THEN table
              ELSE [table EXCEPT ![c] = Enter(@, PageOf(first))]
  /\ UNCHANGED <<ram, taken, slots, life, addr, arena, pairs, nextId, pool, strayed, short>>

\* PackosPacketFree takes it out of no table.
TakeBack ==
  /\ pool # NoRange
  /\ (\E i \in Slots : Free(i)) \/ FreeForeign
  /\ UNCHANGED space

SpaceNext ==
  \/ InitPool \/ New \/ TakeBack
  \/ \E c \in Contexts : GetArena(c) \/ Exit(c) \/ Lend(c)

SpaceSpec == SpaceInit /\ [][SpaceNext]_allVars

-----------------------------------------------------------------------------
(* Properties *)

\* No byte of RAM is in two ranges: those in use lie in RAM before the range
\* that is available, apart from each other, whichever calls failed half way
\* (PackosMemoryPhysicalRangeAlloc and the error paths of its callers).
RangesApart ==
  ~short =>
    /\ \A r \in taken : Base <= r.addr /\ r.addr + r.len <= ram.addr
    /\ \A r, s \in taken : r = s \/ Apart(r, s)
    /\ ram.addr + ram.len <= Base + Size

\* What a context can address is its own: a range in its page table overlaps
\* none in another's, nor another of its own, unless both are the page of one
\* packet.  Those stay in the table of everyone who ever had the packet, and
\* the tables of contexts that have finished are never emptied
\* (LogicalRangeNew and its callers, PackosPacketFree).
OnlyPacketsShared ==
  ~short =>
    \A c, d \in Contexts : \A r \in table[c], s \in table[d] :
      \/ Apart(r, s)
      \/ r = s /\ (c = d \/ \E i \in Slots : r = PageOf(i))

\* PackosMemoryPhysicalRangeFree follows a null pointer when a neighbour of the
\* range is in use.  Only the arena has one, and its range is given back only
\* when the logical ranges have run out.
StrayedOnlyWhenExhausted == strayed => ranges = 0 \/ short
=============================================================================
