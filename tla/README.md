# PackOS in TLA+

PackOS is a small 386 microkernel whose only kernel objects are contexts and
packets. Processes talk to each other, to the scheduler and to the drivers by
sending packets over the "kernel area network" (KAN); interrupts are delivered
as UDP packets; TCP/IP, timers and process control are libraries in user space.
This directory models the parts of it whose correctness depends on the order in
which things happen.

## The system's parts

| Part | Code | State | Operations |
|---|---|---|---|
| Packet pool | `kernel/packetK.c` 264-488 | array of packets, doubly linked free list of indices in a union with the in-use pointer | `PackosPacketAlloc`, `PackosPacketFree` |
| Contexts and mailboxes | `kernel/contextK.c`, `kernel/packetK.c` 31-262 | current context, scheduler, idle context; per context a ring of 16 packets, the flags `blocking` and `finished`, saved registers | send, receive, receive-or-yield-to, yield, yield-to, exit |
| Interrupts | `kernel/interruptsK.c` | per interrupt the address and the port that registered | register, unregister, tick, IRQ |
| Memory map | `common/memory.c`, `kernel/pagingK.c` | lists of physical ranges, a pool of logical ranges, a page table per context | allocate, free, map |
| Context library, addresses | `common/context.c`, `kernel/packetK.c` 31-118 | a pool of slots; 320 (address, context) pairs | new, exit; generate, register, look up |
| Basic scheduler | `libs/scheduler/basic.c`, `contextQueue.c` | queue of contexts, count of non-daemons | the scheduling loop |
| Timer server | `libs/scheduler/timerServer.c`, client `libs/timer/timer.c` | delta list of clients | request, tick |
| Control service | `libs/scheduler/controlServer.c`, client `controlClient.c` | list of TCP clients with a partial request each; who runs, who is initialised | connect, report, close; poll |
| IP | `libs/ip/ip.c`, `iface*.c`, `packet-queue.c`, `ip-filter.c` | per interface a queue of 16 packets for other protocols; filters | send, receive on an interface, receive |
| UDP, ICMP | `libs/ip/udp.c`, `icmp.c` | bound sockets with a queue each; echo handlers | bind, receive, send; echo reply, unreachable |
| TCP | `libs/tcp/tcp.c` | sockets with a state, two byte queues of 16 KB and the numbers acknowledged each way | connect, listen, accept, send, receive, close, segment arrival, tick |
| Router, shared-memory interface | `libs/router/router.c`, `libs/iface-shm`, `aux/iface-shm-outside` | routes; a block shared with a process outside, a buffer and a signal each way, two queues | forward, receive; the two interrupts; the outside's loop and signal handler |
| File systems | `libs/file`, `aux/dumbfs-outside` | DumbFS: open Files with a position, request numbers; the server's files and open entries | open, close, read, write, delete, rename |
| PCI server, drivers | `drivers/pci/pci.c`, `libs/pci/config.c`, `drivers/rtl8139` | table of devices with owners, io windows; clients with a filter and a partial request | probe; set filter, count, get, reserve, release |
| Arena, printf, strings, boot, console, samples | `libs/utils`, `kernel/main.c`, `samples` | text, a free list inside of one context | formatting, set-up, `malloc` |

How they interact. A context calls the kernel with interrupts disabled for the
length of the call, so kernel calls are atomic except where they switch to
another context in their middle; only exit disables them no earlier than in its
last call, the yield. A send that finds its recipient waiting
switches to it at once, unless the sender asked not to (only the scheduler
does). An interrupt becomes a packet for the context that registered, and
switches to it if it waits. The scheduler is an ordinary context in this: it
waits for its tick packets in `PackosPacketReceiveOrYieldTo`, naming the
context that may run meanwhile, through the same UDP and IP library as
everybody else. All libraries keep their state in globals of the one address
space; the scheduler's `IpReceiveOn` therefore also sees packets that are for
its timer socket, for its TCP listener, or for nobody.

What is hard: a context loses the processor in the middle of a receive and gets
it back for any of four reasons (its packet, somebody's yield, an interrupt,
the scheduler's choice) and the flag the others decide by is set by one half of
the call and cleared by another context; the scheduler's own loop can be
interrupted; error paths leave the interrupt flag, a packet or an index in an
unusual state; libraries reuse a packet or a list node after handing it on.

What makes each part correct:

- pool: a packet has one borrower; a freed packet can be lent again; the list
  threads exactly the free packets;
- contexts: a packet is in one place; no lost wakeup; a context that finished is
  never run again, and what it leaves behind is nobody's;
- scheduler: no ready context is lost, queued twice or starved; the count that
  ends the system is exact; it skips only contexts that wait; it gets the
  processor back when there is a message for it;
- timers: a client is notified when its interval has passed, not earlier, and
  not after it closed; the shortest is not held up by others;
- IP/UDP: a packet reaches the socket it is for or is freed; queues hold what
  they say they hold;
- TCP: the receiver reads a prefix of what the sender wrote, in order, under
  loss, duplication and reordering; connections end;
- memory: ranges never overlap, contexts can address nothing in common but the
  packets they passed on;
- control: who reports is heard, and those that depend on it are started;
- shared memory: what comes in comes whole, once and in order, and no packet
  stays queued when all is quiet;
- file system: a call returns the server's answer to itself, and a File a
  program holds is open at the server;
- PCI: a device has one owner, windows do not overlap, clients are served.

## Modules

| Module | Models |
|---|---|
| `Pool` | what the pool promises: lend, take back, run out |
| `PacketPool` | the linked list that implements it; refines `Pool` |
| `Processor` | who has the processor, without the packets |
| `Kernel` | contexts, mailboxes, interrupts; refines `Processor` |
| `Scheduler` | `SchedulerBasic` and its receive path, composed with `Processor` |
| `Timers` | the delta list of `timerServer.c`, its requests and its failures |
| `PortQueues` | what UDP promises the programs of a context: a lossy FIFO per port |
| `Subsequences` | the members of a sequence that are in a set, for the refinement between the two |
| `UdpReceive` | several sockets of one context over one interface; refines `PortQueues` |
| `Stream` | what TCP promises: numbered bytes in order, each at most once, a bounded number missing |
| `Tcp` | clients and a listening socket over a lossy link; refines `Stream` |
| `PhysicalMemory` | the allocator of `common/memory.c`, as operators |
| `AddressSpace` | contexts and packets made of physical and logical ranges, slots and addresses; extends `PacketPool` and `PhysicalMemory` |
| `Control` | the scheduler's control service and its client |
| `PciServer` | the PCI server, its client library and its drivers; extends `Control` |
| `ShmRouter` | the router, the shared-memory interface and the process outside |
| `FileServer` | what DumbFS's server does with one request |
| `FileService` | what DumbFS promises to programs; extends `FileServer` |
| `DumbFS` | numbered requests, retries, timeouts, late datagrams; extends `FileServer`, refines `FileService` |
| `MCKernel`, `MCScheduler`, `MCTimers`, `MCUdpReceive`, `MCTcp`, `MCPciServer`, `MCDumbFS` | constants and symmetry for the runs |
| `KernelProofs`, `SchedulerProofs`, `TimerRouterProofs`, `UdpReceiveProofs`, `TcpProofs`, `AddressSpaceProofs` (with the pool), `DumbFSProofs`, `PciServerProofs` | the theorems |

`Scheduler` composes with `Processor` rather than `Kernel`: `Kernel` implements
`Processor` (checked and proved), so what `Scheduler` relies on is what the
kernel does, and the identity of the packets is not carried along. `Control` and
`PciServer` take TCP at its word, as `Stream` states it: connections are accepted
one after the other and bytes arrive in order, cut anywhere.

### PacketPool

One record of the array is an index in `Slots`; `next` and `prev` are the two
halves of the union read as links, and the constant `Pointer` stands for either
half of a pointer stored there by an allocation. `AllocUnmapped` is the path on
which the NULL of a failed mapping is stored before it is tested. `ranges`
counts the system-wide logical ranges that are left; the code takes one per
allocation and gives none back, although `packet.h` (67) says that
`PackosPacketFree` returns a packet to the pool: after enough traffic nothing can be
allocated. `AddressSpace` extends this module, so that the same counter is what
contexts and their arenas take their ranges from.

### Kernel and Processor

`current`, `blocking`, `finished`, `queue` and `handler` are the variables of
the code of those names (`os.queue` is a sequence, its ring arithmetic being
what `Take` and `Deliver` mean); `pc[c] = "recv"` says that `c` gave the
processor away between lines 249 and 251 of `packetK.c`; `enabled[c]` is the
interrupt flag in the registers saved for `c`. `held`, `free` and `lost` say
who has a pointer to a packet. `Switch` is `PackosKernelContextYieldTo` with
its three ways to stop the machine and its redirection of the scheduler's own
turn to the idle context. Calls that fail and change nothing are not actions.

`Exit` is the four statements of `PackosKernelContextExit` (`contextK.c` 364-371),
a step each (`Finish`, `Unflag`, `Unregister`, `Leave`), because interrupts are
enabled until the last: `pc[c]` says how far it is. One that comes between them
switches to the scheduler, which never resumes a context that has finished, so the
address stays registered for good and the mailbox fills. `FinishedLeavesAll` says
what may and what may not happen to such a context. In `Scheduler` and
`AddressSpace` an exit may be cut in the same way.

`Processor` is the same machine for somebody who only cares about who runs: a
mailbox is a number. Its fairness-free specification is the property
`ImplementsProcessor` of `Kernel`.

### Scheduler

`at` is the place in the loop: `test` (206), `skip` (216), `receive` (254),
`given` and `givenAgain` (suspended in the first receive and in the one after a
stray packet), `receiveAgain`, `answer` (an ICMP error is to be sent), `tick`
(277), `rotate` (354), `return`. `mail` says what each packet in the
scheduler's mailbox is; its length is `pending[Scheduler]`. `Classify` is the
way of one packet through `IpReceiveOn` and `UdpSocketReceive`. Users are any
programs that make none of the two calls that leave interrupts disabled;
`Yields` says whether they may clear the interface's flag and send without
yielding, which they may in `scheduler`. `TickBringsSchedulerBack` names what comes
of that: while the scheduler waits and another context runs, the next tick brings it
back unless a packet that was sent so is the oldest in its mailbox. It is about a
scheduler that waits; that one which is interrupted in its own code may hang is
what `scheduler_hang` shows. The scheduler
itself may: a notification that fails frees its packet twice, and the second
`PackosPacketFree` returns with interrupts disabled (`NotifyFails`).

`ChosenCanRun` says that the loop never hands the processor to a context that
cannot take it; with it, the results `ContextFinished` and `YieldedToBlocked` of
the loop's receive cannot occur. TCP connections of processes to the control
server appear as the clients that activate a dependent. At this commit their
segments do not get that far: the native interface queues what is not UDP
(`ip.c` 351-363) before a filter sees it, nobody receives it from there, and it
stays for ever. The model allows them, so that what it shows of the scheduler
does not rest on that.

### Timers

`clients` is the linked list from first to last, each client with its
`deltaTicks`; `at` is the place in `TimerServerTick` (the count-down, the loop
`sendTicks`, the receive of one request). `Insert` is `insertClient` with the
ticks of the clients behind left as they are, `DropFirst` is `removeClient` on
the first client with its ticks lost, `PutOff` is the `deltaTicks++` after a
failure. The fields `age`, `overtaken`, `putOff` and `early` are history, kept
for the properties: they say how long the timer has waited and what happened
ahead of it. An interval is the one that `timeToTicks` makes of a request, rounded to
the nearest tenth of a second: who asks for 0.14 s is notified every 0.1 s, and in
ticks that is not early. When a failure empties the list, the code goes on through a null
pointer; with paging off that writes low memory which none of the server's state
is in, so the step has no more effect here. A request to close a timer does
nothing but send an answer. The timers the UDP and TCP libraries keep for
themselves are clients like any other.

### UdpReceive and PortQueues

One context, its sockets and its interface. A call is one step up to its wait in
the kernel, and one step for each packet that ends a wait, because a context
runs alone between its waits. `to` gives each packet its destination: a port, a
protocol the library has a filter for (`Segment`: TCP and ICMP), or one it does
not know. `stray` is the interface's queue of packets of other protocols,
`queue` is each socket's queue. `AnswerNowhere` is undefined behaviour: a socket
bound to the address zero receives through `IpReceive`, which does not set the
interface that the packet came from, and the ICMP answer is then sent through an
uninitialised pointer.

`PortQueues` promises that the packets for a port are received in the order in
which they came, at most once, and at no other port. The mapping puts the
socket's queue in front of those packets of the mailbox that are for the port
(`OnTheWay`); a packet the context sends to itself goes into the queue directly
and so ahead of the mailbox, which is why the abstract `SendToSelf` inserts
anywhere. Left out: extension headers and a receive for any protocol, which
nothing here uses but the router; several interfaces in one context, of which
only the router has more than one; the filters, which run on packets of other
protocols only in a receive for any protocol.

### Tcp and Stream

An end of a connection is a client's socket or the one the listener makes for
it, and `socket[e]` is its `struct TcpSocket`: `inSeq` and `inAck` are the
`latestSequenceNumber` and `latestAckNumber` of its queue `in`, likewise `out`.
Bytes are numbers, so a queue is its length (`inLen`, `outLen`) and, for `out`,
its place in the array (`outStart`). A socket that has been deleted is `none`.
`wire[e]` holds the segments that `IpSend` accepted and the filter of `e`'s
interface has not seen. Each state of `TcpFilterMethod` is an action that takes
the first segment off; `Ignore` takes those that change nothing, among them
segments for no socket, for which the code reads through a null pointer before
it tests it. `Fire` is the tick, `Fired` the function `fire` with its two ways
to fail. `got` and `written` are history.

The handshake is the code's own: a client answers SYN-ACK with another SYN-ACK,
the accepted socket never counts its own SYN, and the client takes the number
of that SYN for that of the first byte. The two therefore agree, but the
client's `latestAckNumber` starts two below the first acknowledgement, and
`recordAck` then drops two bytes too many, if there are any. `ImplementsStream`
says that this is all that is ever missing: `Stream` allows two bytes to be
skipped in the direction from the client, none in the other.

A queue may go round the end of its array (`lapped`). `ByteQueueRead` then copies
halves of the wrong length and moves the queue's start (`tcp.c` 1100-1106), so what
it reads may be any byte: `FireData` writes 0 for it, and `Stream` allows any bytes
of that channel from there on (`Garble`), but no more of them than were written.
The next enqueue begins behind the array (1053-1063) and writes over the socket's
other fields. That has no defined meaning, so `Send` leaves out just the write that
would begin there; in `tcp_streams` none does.

What the runs show holds if segments reach the filter, which the native
interface does not see to at this commit (see Scheduler). Left out besides: resets,
SYNs that cross, and a program that uses a socket while it connects.

### PhysicalMemory and AddressSpace

`Allocate(m, len, align)` is one call of `PackosMemoryPhysicalRangeAlloc` on the
range `m` that is available: the search in the list is over one range of RAM,
because a fragment gets another type and never becomes the list's head. Three
oddities of the code are there: a block that is cut from the end is lost when
another is then cut from the start, an aligned start is padded by a whole
multiple, and the test of what is left after the padding wraps (`Word`).

`AddressSpace` makes contexts out of it: `MakeContext` is `PackosContextNew` to
its end, `NoSlot`, `FailConfig`, `FailName`, `FailStack` and `AddrInUse` are its
early returns with what each gives back and forgets. `GetArena` is the second
range of a context, `Exit` gives back the address, or not even that, and neither
slot, ranges nor packets. `taken` are the ranges in use, `table[c]` the ranges in a
page table, `pairs` the table of addresses. `Lend` is `PackosPacketAlloc`, which
enters the packet's page in the table of the context that runs (`packetK.c` 387,
`memory.c` 681-696); `TakeBack` is `PackosPacketFree`, which takes it out of none. So
a table is a set here: `contextP.h` (31) calls it sorted by address, but packets are
entered in the order in which they are allocated, and nothing reads the order.
`OnlyPacketsShared` says that the tables have nothing else in common. `strayed` notes that
`PackosMemoryPhysicalRangeFree` followed a null pointer: when a neighbour of the
range it frees is in use it assigns the wrong variable (`cur=before`, 431) and
steps on. `StrayedOnlyWhenExhausted` says that this needs an allocation to have
failed before. `short` ends a behaviour at the first request that RAM has no
ample room for, since the lengths underflow then; `RangesApart` and
`OnlyPacketsShared` are stated up to it.

### Control

`control[x]` is how far a context is with its `SchedulerControl`; `Whole` and
`Cut` say how its request arrived. A poll is one step, as no client runs
meanwhile. Of a request that arrives in parts nothing is kept, because the code
reads each part into the start of the buffer and never advances the offset: that
client waits for ever (`Lost`). `Stranger` is the poll that fails, and with it
`SchedulerBasic`, when the peer exited before it was accepted. When a reply
cannot be sent, `isInited` is set already but the dependents are not started.

### PciServer

`server` is the place in `pciDriverProcess` from the search for devices to the
loop over the clients, whose passes are walked step by step because drivers run
between them. `Bus`, `Slot`, `Found`, `Sizes` and `Entry` are `probe_bus`: what is
read back from a register (`ReadBack`), the size that is made of it in 32 bits
(`SizeOf`), where io windows are put (`Assign`, also in 32 bits), and when the tables
are full. A register may have its upper 16 bits hardwired to 0, as PCI allows: its
window seems to be nearly 4 GB, the address after it wraps, and the next such window
gets the same base. `wrapped` notes that, and `IoWindowsApart` is stated up to it. `accepted` is the
list of clients, `todo` those the current pass has yet to look at. `link[d]` is
a connection with its request, the bytes of it that came, its reply, and whether
that has left: TCP is a library in the server's context, so nothing arrives and
nothing leaves except while the server waits in a call of it (`Blocked`).
`driver[d]` is the place in `rtl8139DriverProcess`.

The loop waits in `TcpSocketReceive` for a sole client without asking whether
there are bytes, and asks first if there are several; with two accepted clients
it therefore waits in no call any more and spins (958-1119). `SoleIsServed`
states what does hold. A request with a bad number ends the server after its
connection is closed; a client that closes keeps what it reserved. When the server
has returned its address is unregistered, unless a tick cut the exit short, and a
driver that starts then gives up (`Refused`): `DriversFindServer` says that this takes
another driver that was served before, and is no matter of who starts first.

### ShmRouter

`signalled`, `sendValid`, `buff` and `pid` are the fields of the block and of the
interface's context; a pending signal is a member of `toRouter` or `toOutside`,
where a second one is lost. `main` and `handler` are the places in the outside's
main function and in its signal handler, which interrupts the former anywhere;
`Mark` and `Tell` are the two halves of `sendPacket`. Packets to the outside are
a count, packets from it are numbers, `Torn` is a buffer half written. `Crash`
ends the outside, and its next start resets its own flags but not the block's.
Which packets find their way through the router's filter is a choice.

### FileServer, FileService and DumbFS

A file is a sequence of blocks. `Perform` in `FileServer` is one request at the
server outside: an entry of `open` is an `OpenFile` with the number of the call
it was opened for. `DumbFS` puts the datagrams around it: `Attempt` sends a
request under a new number, `TimedOut` and `Resend` are the two ticks without
an answer after which the method starts over, `Receive` takes a datagram with
the number and the command it waits for and frees all others, `Serve` answers
any request sent so far, again if it likes. Datagrams are in sets and stay
there: they may be lost, repeated and late at will. A Delete or Rename that
fails makes the server return from `main` (`Exit`), which a retry of one that
was done does, too.

`FileService` is the promise: the server may do what it is asked to once, several
times or after the call returned, and a call that returns an answer returns one
that the server gave to this very call. The mapping forgets numbers, timeouts
and packets. Request numbers are not made to wrap: the code's are 16 bits wide,
and an answer 65536 calls late would be believed.

## Runs

| Run | Instance | Shows |
|---|---|---|
| `kernel` | scheduler, idle, 2 callers, 3 packets, 1 interrupt, mailboxes of 2 | packets in one place, no lost wakeup, a context cut short in its exit never goes on and loses nothing; refinement of `Processor` |
| `scheduler` | 2 users (one a daemon), clock and device, interrupts anywhere | queue, count and flags stay exact, what was chosen can run, a scheduler that waits is not kept from its tick |
| `scheduler_fair` | 3 users, one dependent on another, one a daemon, clock only outside the scheduler | nobody starves |
| `scheduler_hang` | 1 user, clock anywhere, fair | expected violation: a tick in the scheduler's own code hangs the system |
| `timers` | 2 processes, 4 timers, intervals of less than one, one, two and three ticks, all failures | no timer is early, the differences add up, nothing gets ahead of the shortest |
| `udp_receive` | 2 sockets, 2 ports, 3 packets, queues of 2, interface queue of 1, mailbox of 2 | one place per packet, own queues, loss only when full, refinement of `PortQueues`, receives return |
| `tcp` | 2 clients, one of which exchanges a byte each way, 2 segments on a wire, 1 fault | nothing leaves the server's queue unreceived, the backlog is alive, a passive close is complete |
| `tcp_streams` | 1 connection, 3 bytes from either end, queues and packets of 2, 1 fault, fair | refinement of `Stream` with overlapping resends, the two bytes missing and queues that go round; data moves while nothing is lost and there is room |
| `address_space` | 3 contexts, 2 addresses, 3 packets, 7 logical ranges, RAM of 15 pages | ranges apart, contexts share packets only, the stray search needs an exhausted pool, and the pool still refines `Pool` |
| `shm_router` | queue of 2, 3 packets each way, 1 restart, fair | what comes in is whole and in order; nothing stays queued |
| `dumbfs` | 1 client, 3 calls on 2 paths, 1 resend, 3 answers on their way | handles are open, files are whole, refinement of `FileService` |
| `pci_service` | 2 drivers, 4 machines, requests in up to 2 parts, 1 reply that fails | drivers find the server, devices have one owner, windows apart, reports heeded, a sole client served |

Why the bounds are enough. In `Kernel` every rule mentions at most two
contexts besides the scheduler and the idle context; mailboxes of two can be
empty, partly full and full with three packets, one more than fits. Nothing is
counted, so nothing new appears with larger numbers, and the theorems cover
them. In `Scheduler` two users are enough for one to be preempted
while another is suspended, exits or is at the head, and the third of
`scheduler_fair` is what starvation needs; `IfaceLen = 1` fills the interface's
queue with one stray packet. In `Timers` three clients are a first, one behind
it and one that is inserted before, between or after them, and the fourth comes
when one has failed; `MaxRequests = 4`
bounds them and `MaxAge = 3`, the longest interval, bounds the history, beyond
which a timer's age makes no difference to the properties. In `UdpReceive` two
sockets are the one received on and the other; three packets fill a queue or the
mailbox and leave one that finds it full. Users are symmetric in `Kernel` and the
packets are too; the symmetry set permutes both, as that of `Timers` does its
processes and that of `DumbFS` its paths; only safety is checked with symmetry.

In `Tcp` the second client is the one whose SYN finds the port taken or the
backlog full, and that connects after the first is gone. Numbers are modulo 16
and start at 14, so that they wrap around within two bytes, as those of the code
do after nineteen million. In `tcp_streams` three bytes are one more than a queue, a
window and a segment hold, and one more than the first acknowledgement can drop: two
are skipped and the third arrives, queues go round at either end, and what is read
then arrives, too. `OneWay` lets only one end of a connection write there, whichever
begins; both directions at once, a byte each, are in `tcp`. `WireLen`
holds the resend of a segment behind the segment; when it is full a tick waits
and an answer fails to be sent, which counts as a fault. One fault besides,
`MaxFaults`, is placed anywhere: the loss of any segment or the failure of any
send.

In `AddressSpace` three contexts for two addresses let the counter of addresses
come round to one that is taken and to one that was given back; seven logical
ranges are the pool's, and two contexts' and packets' until they run out; the
sizes are chosen so that a configuration is no multiple of a page, as in the
code, and that every cut of the allocator happens before RAM is short. Three
pool packets damage and pass on the free list's links as four do. In `ShmRouter`
a queue of two is empty, partly full and full with three packets; one restart
can come at any step of the outside, with any signal under way. In `DumbFS`
three calls are what it takes to open, to close or use, and to open again while
the first requests are still about (`MaxCalls`, `MaxResends`, `MaxReplies`). In
`PciServer` the machines have windows of sizes one, two and four in an order
that needs rounding, two functions on a card, a bus behind another, more devices
than the table holds, more busses than the server knows, and a card with two
registers of half a word, whose windows wrap.

Deadlock is not checked where the system may really stop: when the machine
halts or everything has exited (`kernel`, `scheduler*`), a program stops using
its sockets (`udp_receive`, `tcp*`), RAM is exhausted (`address_space`), the router
has ended (`shm_router`), the calls are made (`dumbfs`), or the server
has ended (`pci_service`).

Fairness. The processor executes the scheduler's next instruction when the
scheduler has the processor (`WF_vars(SchedulerNext)`), the programmable timer
keeps ticking (`WF_vars(Tick)`), and the second half of a receive is kernel code
that runs with interrupts disabled and cannot be delayed (`WF` of `Resume`).
Nothing is assumed of the users: they may compute forever, never yield and
never exit. `UdpReceive!FairSpec` assumes only that a context whose mailbox is
not empty runs (`WF(Take)`), which round robin sees to.

`Tcp!FairSpec` assumes the ticks and that each end's first segment is handled in
the end, that is, that each process goes on calling the library and IP hands the
segment over; `DataMoves` is what TCP itself adds to that, for a connection that
has lost nothing so far. Nothing is assumed of what the programs send, receive or
close.

`ShmRouter!FairSpec` assumes that both processes run on (`WF`), that the router's
loop gets round to each of its two interrupt sockets although packets keep coming
on the others (`SF`: the mailbox is in order of arrival), and that an outside that
ended is started again in the end (`SF(MainStep)`, strong because the handler
interrupts the main function). `PciServer!FairSpec` assumes that the scheduler polls
its control service, that the server runs when it has something to do (`WF`, from
`NoStarvation`), and that TCP delivers to a server that waits for it. Nothing is
assumed of the drivers.

`scheduler_hang` is expected to fail: a disagreement between the code and
a comment that is quoted in `PROJECT.json` ("findings").

## What the code does that a reader may not expect

These are in the models as they are in the code, and the properties are stated
around them:

- a short repeating timer keeps a longer one waiting for ever, because an
  insertion does not shorten the timer it is put in front of
  (`timerServer.c` 57-89); `ShortestIsNotOvertaken` and `ExactIfUndisturbed` say for
  which timers the list is right;
- a context that a tick hits between the lines 367 and 370 of `contextK.c` never
  finishes its exit: it stays registered, and its mailbox takes packets until it is
  full;
- a request for 0.14 s is notified every 0.1 s (`timerServer.c` 40-44), where
  `project.tex` has "the numbers of seconds and microseconds between ticks";
- no logical range is ever returned by `PackosPacketFree`, and no page of a packet
  ever leaves a page table, so that tables are not sorted (`contextP.h` 31);
- a byte queue of TCP that goes round its 16 KB is read from the wrong places and
  then written behind its end (`tcp.c` 1053-1063, 1096-1106);
- two io registers of half a word get overlapping windows (`pci.c` 235-239);
- nothing but UDP leaves the native interface's queue, and the 17th packet of
  another protocol ends the scheduler;
- TCP accepts one connection per port at a time (`tcp.c` 1655), which hides that
  the PCI server cannot serve two; when its sole client closes, the server's
  `TcpSocketReceive` loops for ever in CLOSE_WAIT;
- io and memory windows start again at the same address for each bus
  (`pci.c` 79); a memory window's size is computed without the complement (265);
  devices of several functions get no windows, as the loop ends early;
- `client->next` of the PCI server is never initialised (985); the model takes it
  for null, as it is in memory that nobody used before;
- `PackosContextExit` returns neither the slot nor the ranges, so a machine makes
  a fixed number of contexts in its life;
- a file's Delete or Rename that is repeated after a lost answer ends the server
  of DumbFS.

## Proofs

Each theorem holds for every value of the constants that the named assumptions
allow; TLC checks the same formulas on the instances above.

`KernelProofs` proves for every set of contexts, packets and interrupts and
every mailbox length: the type, `NoLostWakeup`, `SleepersAreKnown`,
`FinishedIsExiting`, `OnePlace`, `FinishedLeavesAll` and that `Kernel`
implements `Processor`. The invariant is the conjunction of those that are about one
state, and that the idle context does not finish (`IdleStays`);
each needs the others: that a flagged context has no packet rests on the type of
the queues, that a suspended context is known rests on who can clear its flag,
and that a context which lost the processor in its exit stays where it is rests on
its never being switched to, its flag included.

`SchedulerProofs` proves `EachQueuedOnce`, `BlockingMeansWaiting`, `ChosenCanRun`,
`AliveIsCounted` and `TickBringsSchedulerBack` for every number of users, interrupts
and every mailbox length, wherever interrupts hit.
`ChosenCanRun` is not inductive: between the search and the receive a device may
hand the processor to another context, and if that were the chosen one it could
wait or exit. `ChosenWaits` adds that it is not: interrupts switch only to
contexts that are flagged, the chosen one is not, and only the idle context runs
without. For that the flag must be right (`BlockingMeansWaiting`), the mailbox must be
what `mail` says (`MailIsPending`), and the loop and its context must agree on
whether a receive is under way (`Waits`). One lemma, `DeliverStep`, covers every packet anybody
sends; `RotateKeeps` and `DropKeeps` are the rotation. The count follows the queue:
since nobody is in it twice, the one that is dropped is counted once.

`TimerRouterProofs` is about two services that a context reaches over the kernel's
messages. For `Timers` it proves `NeverEarly`, `ExactIfUndisturbed`
and `ShortestIsNotOvertaken` for any processes, number of timers
and intervals. The invariant (`Timely`) says of every client that what it has waited
and the differences ahead of it in the list (`Ahead`) make up its interval: at least,
unless a failure made it early, and exactly, if nobody was inserted before it and
it was not put off. No due client may be left when the loop has ended (`NobodyDue`).
Sums over a list have no closed form: `SumsExist` and `SumsUnique` prove what the
recursive function computes by induction over a set of numbers (`Least`,
`Induction`, from the well-foundedness of the order), `InsertAhead`, `RestAhead` and
`ShiftAhead` how an insertion, a removal and a tick change them. For `ShmRouter` it
proves `ReceivedAsPassed` and `QuietMeansDrained` for any length of the queue and
any traffic. `Handshake` says whose turn it is at the buffer: of the program that may
send, the pending signal, the router that takes, and the signal back, there is at
most one at any time (`InTurn`), and what was passed is what arrived and at most
one more (`NothingLost`). `Awaited` lists everything that will still have the
router send what is queued (`Prompted`); no step of either process or of the handler
takes the last of them away.

`AddressSpaceProofs` proves of the pool, for any number of packets, that it
keeps its type, that the links thread the free entries as long as a range is
left (`FreeListAlwaysIntact`), and that it implements `Pool`, alone and while
contexts take their ranges from the same counter (`SpaceImplementsPool`). The
invariant adds to the type that `first` is `Nil` only when every packet is lent
and that the list, given as a sequence `s` with `IsChain`, exists; once the
ranges have run out no action changes `inUse` from free to lent, which is why
the damaged links do no harm to `Pool`. Of the contexts it proves `RangesApart`,
`OnlyPacketsShared` and `StrayedOnlyWhenExhausted` for every size of RAM,
pages, stacks and arenas, every alignment, and every number of contexts,
addresses and packets. The invariant says that whatever is in use lies before what is
available (`Room`), which one lemma about `Allocate` shows for all of its cuts as long
as RAM is ample, and that what a page table holds is in use and in no other table, or
is a page of the pool's range (`Mapped`); a new range lies behind everything in use,
so it is in no table yet, and the pages of the pool do not overlap. A range that is given back has
been padded, so that no range in use adjoins it, and the search for neighbours
ends before the null pointer.

`UdpReceiveProofs` proves for every set of packets, sockets and ports and every
capacity the type with its three limits, `QueuesAreOwn`, and `LostOnlyWhenFull`.
The invariant is `TypeOK` with `QueuesAreOwn`: that a loss for a bound port can
only be a full queue needs that no other socket has the port, else the packet
could be dropped at the other one. `PacketsStayInOnePlace` proves `OnePlace` from
the same invariant: a step moves the packet at the head of the mailbox or of a
queue, the lemmas `TakenOnce`, `QueuedOnce` and `LeavingOnce` say that it then is
nowhere else, and no other step touches more than one place. `StraysAreSegments`
strengthens it for the loss: what the interface's queue holds or leaks was never
for a port. `QueuesKeepPromise` proves the refinement of `PortQueues`. What
waits for a port is its socket's queue and behind it what the mailbox holds for
it; taking the mailbox's first packet moves the border between the two and
leaves the whole as it was (`QueueForOtherIs`), while a packet that a receive
hands out straight from the mailbox is the first of the whole because a socket whose
receive waits has nothing queued (`Receives`). A loss from the middle is one of
the promise's (`MiddleLost`), and needs `OnePlace`: a second copy elsewhere would be
lost with it. `Only` picks what is for a port; what it does to an append, a
concatenation and a tail (`OnlyAppend`, `OnlyConcat`, `OnlyTail`) is proved by an
induction over the sets of sequences that hold a statement (`SequenceInduction`).

`TcpProofs` proves `WaitingIsThere` for every set of clients and every bound: the
socket that `waitingToAccept` points at is in SYN_RECEIVED, ESTABLISHED or
CLOSE_WAIT. By itself that is not inductive: a program could close the socket,
or a SYN could replace it. The invariant adds that it is no program's yet
(`Backlog`), and for that, since a new connection takes the socket of an end,
that what a program has accepted has not gone away (`InUse`). Every action but
`Accept` and the successful `Listen` changes the state of one end, as
`MayBecome` allows or while its program gives it up, and `KeptByOne` says that
such a step keeps the invariant.

Of the bytes that are written on accepted sockets it proves `KeptUntilReceived`,
`PassiveCloseIsComplete` and that the clients receive no more than was written, and
that in order until the socket's queue goes round (`ClientsReceiveInOrder`), for any
clients, lengths of queues, segments and wires, and any losses. The first two, and the
number of bytes, hold after a queue has gone round as well, as long as no write begins
behind the array. The invariant (`Streams`) holds the types and, for each client, a
`Connection`: the two sockets, the two wires, what was written and what was received.
Before the client has synchronized (`Unsynced`) nothing is written; after it (`Synced`)
the client expects the byte behind those that it has, no segment leaves a hole
before its data (`Sound`), acknowledgements on the wire come in rising order
(`Rising`), and those the socket has not seen lie between the first byte of its queue
and what has been received (`Sending`). `Handshake` says where a SYN can be: a late
one would start the client's numbers again. An acknowledgement then drops no more
than the client has (`Recorded`), and the socket leaves LAST_ACK when its queue is empty.
The code compares numbers modulo 2^32, which says what is meant only within half of
the space: `Distance` turns a comparison into one of counts, and uses that a
connection carries fewer bytes than that (`TcpAssumption`).

`DumbFSProofs` proves `HandlesAreOpen`, `NoHoles` and that `DumbFS` implements
`FileService`, for every number of clients, paths, calls, resends and answers. A
request's number stands for one request (`Numbered`); an
entry at the server belongs to the number that opened it (`EntriesAsked`); an
answer that grants an entry says so truly until a Close for it is sent
(`GrantedIsOpen`); a Close is sent only by a program that was granted the entry in
an earlier call (`ClosesGranted`), and while it holds the File none has been
(`HeldIsGranted`). So no Close that is late is for a new entry. For `NoHoles` the
invariant adds positions (`PosInv`): every File, every read and write under way
however old (`AskedOK`), and every answer (`AnsweredOK`) is about a place that its entry's
file reaches (`InReach`), and files only grow, so that a place in reach stays in
reach. The refinement maps a request to the call it is sent for: a resend is then
a stutter (`ResendStutters`), an answer that is believed is one to this call because
the numbers of two calls differ (`FinishReturns`), and an entry that a repeated Open
finds is one that this call opened (`EntryOfCall`).

`PciServerProofs` proves `DriversFindServer`, `KeptIsOwned` and `IoWindowsApart` for
every number of drivers and any machines. The first follows the server through its start
(`ListensFirst`: a report is sent only by a server that listens, a driver is
started only by a report, and a server that was heard returns only on account of a
driver that had been told all it asked for). For the second the invariant follows each driver
through its dialogue: what it has asked for is what its place says (`Asked`), the
filter is its own from the first answer on (`Filtered`), and what was answered is
still true of the table (`Numbered`), which is why a reservation by number gets
the device that the number meant when it was looked up. For the third, the windows of
a device lie one after the other as long as no address passes 32 bits (by an
induction over their number), and the devices of a bus in the order of the table,
before the address that the search goes on from (`SpaceOK`). Nothing is assumed of the
registers: the moment an address passes 32 bits is a state of the model (`wrapped`).

The assumptions are `PoolAssumption`, `KernelAssumption`, `SchedulerAssumption`,
`TimersAssumption`, `AgeAssumption`, `UdpAssumption`, `TcpAssumption`,
`MemoryAssumption`, `AddressSpaceAssumption`, `FileServerAssumption`, `NoneAssumption`,
`ShmAssumption`, `ControlAssumption`, `PciAssumption` and `MachinesAssumption`, which TLC
evaluates on the runs' instances. Three say more than the kinds of the constants.
`TcpAssumption`: an end writes fewer bytes than half of the sequence space, so that a
count stands for one number; the code has no such limit, and what it does on a
connection that wraps its numbers is outside of these theorems.
`AgeAssumption`: the bound of the history is no shorter than an interval.
`NoneAssumption`: `None` is not an operation. What holds of TCP also leaves out, as
`Send` does, the writes that begin behind the array of a queue.

Only model-checked: liveness under fairness, which rests on `ENABLED` and is
beyond these proofs (`NoStarvation`, `ReceiveReturns`, `DataMoves`, `QueueDrains`,
`SoleIsServed`, `ReportIsHeeded`); that `Tcp` implements `Stream` in both
directions (`ClientsReceiveInOrder` is the state half of it for what accepted sockets
write); and the expected violation.

## Not modelled

Page-table entries, the TLB, registers and stacks (hardware state without
control to check); checksums, byte order and address formatting (pure data); the
console, printf and the string library; the arena of `alloc.c`, a sequential free
list inside of one context; the numbers and names of PCI devices, memory windows
and interrupt lines; boot; the file system of files linked into a program, a
lookup in a constant table; the samples. Within the parts that are modelled, what
each module leaves out is said above and in `PROJECT.json` ("components"): mainly
extension headers in IP, resets and crossing SYNs in TCP and writes that begin behind
the array of a byte queue (over other memory, so there is no behaviour to
state), intervals of years in the timers, and request numbers that wrap in
DumbFS. The shared-memory interface is modelled although the build no longer
compiles it: both of its halves are in the tree.
