----------------------------- MODULE PciServer -----------------------------
(***************************************************************************)
(* The PCI server (drivers/pci/pci.c), which finds the devices and hands   *)
(* them out to drivers, its client library (libs/pci/config.c), and the    *)
(* drivers, which do what rtl8139DriverProcess does.                       *)
(*                                                                         *)
(* The drivers depend on the server: the scheduler runs none of them until *)
(* the server has reported (Control).  Devices are told apart by a kind,   *)
(* which is what a filter asks for, and by their place in the server's     *)
(* table.  TCP is taken at its word, as in Control; but it is a library    *)
(* that runs in the server's context, so nothing arrives and no reply      *)
(* leaves except while the server waits in a call of it.  The server's     *)
(* loop is walked step by step, since drivers run between its steps.       *)
(*                                                                         *)
(* Left out are devices that are already configured, memory windows, and   *)
(* which interrupt line is whose.  A new client's next pointer, which      *)
(* nothing sets, is taken to be null, as in an arena not used before.      *)
(***************************************************************************)
EXTENDS Control, Sequences

CONSTANTS Pci,          \* the server's context
          Kinds,        \* of devices
          Any,          \* a filter of -1
          Wants,        \* each driver's filter
          Machines,     \* what a server may find: see Probe below
          MaxDevices,   \* MAX_DEVICES
          MaxBusses,    \* MAX_BUSSES
          MaxCards,     \* maxDevices of a driver
          FirstIO,      \* where io windows start: 0x8000
          Word, Half,   \* 2^32 and 2^16
          Parts         \* a request may arrive in so many parts

Drivers == Contexts \ {Pci}

ASSUME PciAssumption ==
  /\ Pci \in Contexts
  /\ DependsOn = [x \in Contexts |-> IF x = Pci THEN None ELSE Pci]
  /\ Wants \in [Drivers -> Kinds \cup {Any}]
  /\ MaxDevices \in Nat \ {0} /\ MaxBusses \in Nat /\ MaxCards \in Nat
  /\ FirstIO \in Nat /\ Parts \in Nat \ {0}
  /\ Half \in Nat \ {0} /\ Word \in Nat /\ Half < Word /\ FirstIO < Word

\* What a function's configuration says.  A register for an io window decodes a
\* block of so many bytes; its upper half may be hardwired to 0.
Registers == [decodes : 1 .. Half - 1, short : BOOLEAN]
Functions == [kind : Kinds, multi : BOOLEAN, io : Seq(Registers)]

ASSUME MachinesAssumption == Machines \subseteq Seq(Seq(Seq(Functions)))

VARIABLES server,     \* where pciDriverProcess is
          machine,    \* what there is to find
          probe,      \* the bus, device and function it is at, and nextIOAddr
          wrapped,    \* not in the code: an address passed 32 bits
          table,      \* devices, of which numDevices are used
          listening,  \* the server's socket listens, and its address is registered
          backlog,    \* the connection that the server has yet to accept
          accepted,   \* the server's list of clients
          todo,       \* those that the loop has yet to look at
          filter,     \* client->filter
          link,       \* each connection: request, its bytes here, reply, has it left
          driver,     \* where each driver is
          kept        \* devices of each driver, with the numbers it knows them by

serverVars == <<server, machine, probe, wrapped, table, listening, backlog, accepted, todo,
                filter>>
driverVars == <<link, driver, kept>>
vars       == <<controlVars, serverVars, driverVars>>

NoRequest == [op |-> "None", arg |-> None]
Idle == [request |-> NoRequest, came |-> 0, offset |-> 0, reply |-> << >>, left |-> FALSE]

Init ==
  /\ ControlInit
  /\ server = "Start"
  /\ machine \in Machines
  /\ probe = [bus |-> 1, slot |-> 1, function |-> 1, nextIO |-> FirstIO]
  /\ wrapped = FALSE
  /\ table = << >>
  /\ listening = FALSE
  /\ backlog = None
  /\ accepted = << >> /\ todo = << >>
  /\ filter = [d \in Drivers |-> Any]
  /\ link = [d \in Drivers |-> Idle]
  /\ driver = [d \in Drivers |-> [at |-> "Start", i |-> 0, n |-> 0, device |-> 0]]
  /\ kept = [d \in Drivers |-> {}]

-----------------------------------------------------------------------------
(* pciInit and probe_bus.  A machine is a sequence of busses, a bus a      *)
(* sequence of slots, a slot a sequence of functions, empty if there is    *)
(* nothing; a function has a kind, registers for its io windows, and says  *)
(* whether there are more, in the header type that says if it has windows. *)

\* What is read back after ones were written, and the size made of it.
ReadBack(r) == (IF r.short THEN Half ELSE Word) - r.decodes
SizeOf(spec) == (1 + (Word - 1 - spec)) % Word

\* Variant to reject: an address is rounded down.
RoundDown(a, size) == a - (a % size)

RoundUp(a, size) == IF a % size = 0 THEN a ELSE a + (size - (a % size))

\* The next window, what follows it, and whether that passes 32 bits.
Window(from, size) ==
  LET base == RoundUp(from, size) % Word IN
  [base |-> base, size |-> size, next |-> (base + size) % Word,
   carry |-> RoundUp(from, size) + size >= Word]

\* The windows of these sizes, one after the other.
Assign(sizes, from) ==
  LET at[k \in 1 .. Len(sizes)] ==
        Window(IF k = 1 THEN from ELSE at[k - 1].next, sizes[k])
  IN  at

After(sizes, from) ==
  IF sizes = << >> THEN from ELSE Assign(sizes, from)[Len(sizes)].next

Bus == machine[probe.bus]
Slot == Bus[probe.slot]
Present == probe.slot <= Len(Bus) /\ probe.function <= Len(Slot)
Found == Slot[probe.function]
Sizes == IF Found.multi THEN << >>
         ELSE [k \in 1 .. Len(Found.io) |-> SizeOf(ReadBack(Found.io[k]))]

NextSlot == [probe EXCEPT !.slot = @ + 1, !.function = 1]
NextBus == [bus |-> probe.bus + 1, slot |-> 1, function |-> 1, nextIO |-> FirstIO]

\* The process returns, and its context exits.  A tick may take the processor for
\* good before the address is unregistered (PackosKernelContextExit).
End ==
  /\ server' = "Ended" /\ Exit(Pci)
  /\ listening' \in {listening, FALSE}

\* pciInit of the next bus.  Without one, or without a controller that is known,
\* the search is over.
ProbeBus ==
  /\ Runs(Pci) /\ server = "Bus"
  /\ IF probe.bus > Len(machine)
     THEN server' = "Connect" /\ UNCHANGED <<controlVars, listening>>
     ELSE IF probe.bus > MaxBusses
          THEN End
          ELSE server' = "Function" /\ UNCHANGED <<controlVars, listening>>
  /\ UNCHANGED <<machine, probe, wrapped, table, backlog, accepted, todo, filter, driverVars>>

\* The device is entered, with windows of its own.
Entry ==
  [kind |-> Found.kind, bus |-> probe.bus, owner |-> None,
   io |-> [k \in 1 .. Len(Sizes) |->
             [base |-> Assign(Sizes, probe.nextIO)[k].base, size |-> Sizes[k]]]]

\* One function.  The rest of the bus is left alone when the table is full.
ProbeFunction ==
  /\ Runs(Pci) /\ server = "Function"
  /\ IF Len(table) >= MaxDevices \/ probe.slot > Len(Bus)
     THEN /\ probe' = NextBus
          /\ server' = "Bus"
          /\ UNCHANGED <<table, wrapped>>
     ELSE /\ IF ~Present
             THEN probe' = NextSlot /\ UNCHANGED <<table, wrapped>>
             ELSE /\ table' = Append(table, Entry)
                  /\ wrapped' = (wrapped \/ \E k \in 1 .. Len(Sizes) :
                                               Assign(Sizes, probe.nextIO)[k].carry)
                  /\ probe' = [(IF probe.function = 1 /\ ~Found.multi
                                THEN NextSlot ELSE [probe EXCEPT !.function = @ + 1])
                               EXCEPT !.nextIO = After(Sizes, probe.nextIO)]
          /\ UNCHANGED server
  /\ UNCHANGED <<controlVars, machine, listening, backlog, accepted, todo, filter, driverVars>>

-----------------------------------------------------------------------------
(* The rest of pciDriverProcess *)

\* Variant to reject: the drivers are started before the server listens.
ListenLater ==
  /\ Runs(Pci) /\ server = "Start"
  /\ server' = "Bus"
  /\ UNCHANGED <<controlVars, machine, probe, wrapped, table, listening, backlog, accepted, todo,
                 filter, driverVars>>

Listen ==
  /\ Runs(Pci) /\ server = "Start"
  /\ server' = "Bus"
  /\ listening' = TRUE
  /\ UNCHANGED <<controlVars, machine, probe, wrapped, table, backlog, accepted, todo, filter,
                 driverVars>>

\* The server reports, and ends if that fails.
Report ==
  /\ \/ server = "Connect" /\ server' = "Report" /\ ControlConnect(Pci)
     \/ server = "Report" /\ server' = "Reported" /\ ReportInited(Pci)
     \/ /\ server = "Reported"
        /\ IF control[Pci] = "Dropped" THEN End ELSE server' = "Close" /\ ReportReturns(Pci)
     \/ server = "Close" /\ server' = "Accept" /\ ControlClose(Pci)
  /\ server' = "Ended" \/ UNCHANGED listening
  /\ UNCHANGED <<machine, probe, wrapped, table, backlog, accepted, todo, filter, driverVars>>

TcpSocketAcceptPending == backlog # None

\* The loop starts over: a connection is accepted if there is one.  While it has
\* no client the server waits for one.
AcceptPending ==
  /\ Runs(Pci) /\ server = "Accept"
  /\ TcpSocketAcceptPending \/ accepted # << >>
  /\ IF TcpSocketAcceptPending
     THEN /\ accepted' = Append(accepted, backlog)
          /\ filter' = [filter EXCEPT ![backlog] = Any]
     ELSE UNCHANGED <<accepted, filter>>
  /\ backlog' = None
  /\ todo' = accepted'
  /\ server' = "Scan"
  /\ UNCHANGED <<controlVars, machine, probe, wrapped, table, listening, driverVars>>

Scanned ==
  /\ Runs(Pci) /\ server = "Scan" /\ todo = << >>
  /\ server' = "Accept"
  /\ UNCHANGED <<controlVars, machine, probe, wrapped, table, listening, backlog, accepted, todo,
                 filter, driverVars>>

Pending(d) == link[d].came > 0

\* Variant to reject: the loop asks of every client.
NeverSole(d) == FALSE

\* The loop does not ask whether there is anything from a sole client.
Sole(d) == d = Head(accepted) /\ d = accepted[Len(accepted)]

Skip ==
  /\ Runs(Pci) /\ server = "Scan" /\ todo # << >>
  /\ ~Sole(Head(todo)) /\ ~Pending(Head(todo))
  /\ todo' = Tail(todo)
  /\ UNCHANGED <<controlVars, server, machine, probe, wrapped, table, listening, backlog, accepted,
                 filter, driverVars>>

-----------------------------------------------------------------------------
(* TCP, while the server waits: TcpSocketAccept without a client, or       *)
(* TcpSocketReceive from the sole one.                                     *)

Blocked ==
  /\ Runs(Pci)
  /\ \/ server = "Accept" /\ backlog = None /\ accepted = << >>
     \/ server = "Scan" /\ todo # << >> /\ Sole(Head(todo)) /\ ~Pending(Head(todo))

\* A connection is made; only one may wait to be accepted.
Establish(d) ==
  /\ Blocked /\ backlog = None
  /\ driver[d].at = "Connecting"
  /\ backlog' = d
  /\ driver' = [driver EXCEPT ![d].at = "SetFilter"]
  /\ UNCHANGED <<controlVars, server, machine, probe, wrapped, table, listening, accepted, todo,
                 filter, link, kept>>

\* Some more of a request comes, in up to so many parts.
Arrive(d) ==
  /\ Blocked
  /\ link[d].request # NoRequest
  /\ \E n \in 1 .. Parts - link[d].offset - link[d].came :
       link' = [link EXCEPT ![d].came = @ + n]
  /\ UNCHANGED <<controlVars, serverVars, driver, kept>>

\* A tick: the replies leave.
SendReplies ==
  /\ Blocked
  /\ \E d \in Drivers : link[d].reply # << >> /\ ~link[d].left
  /\ link' = [d \in Drivers |-> [link[d] EXCEPT !.left = link[d].reply # << >>]]
  /\ UNCHANGED <<controlVars, serverVars, driver, kept>>

-----------------------------------------------------------------------------
(* handleRequest *)

Matching(d) == {k \in 1 .. Len(table) : filter[d] \in {Any, table[k].kind}}

\* Variant to reject: a number is a place in the table, whatever the filter is.
AnyDevice(d, number) == {k \in 1 .. Len(table) : k = number + 1}

\* seekDevice: the device that has this number for the client, if there is one.
SeekDevice(d, number) ==
  {k \in Matching(d) : Cardinality({j \in Matching(d) : j < k}) = number}

\* A reply, and the owners of the devices afterwards.
Owners == [k \in 1 .. Len(table) |-> table[k].owner]
Reply(error, value) == [error |-> error, value |-> value, owners |-> Owners]

ReserveDevice(d, number) ==
  LET found == SeekDevice(d, number) IN
  IF found = {} THEN Reply("NoSuchDevice", 0)
  ELSE IF \E k \in found : table[k].owner # None THEN Reply("ResourceInUse", 0)
  ELSE [error |-> "None", value |-> 1,
        owners |-> [k \in 1 .. Len(table) |-> IF k \in found THEN d ELSE table[k].owner]]

ReleaseDevice(d, number) ==
  LET found == SeekDevice(d, number) IN
  IF found = {} THEN Reply("NoSuchDevice", 0)
  ELSE IF \E k \in found : table[k].owner # d THEN Reply("ResourceNotInUse", 0)
  ELSE [error |-> "None", value |-> 1,
        owners |-> [k \in 1 .. Len(table) |-> IF k \in found THEN None ELSE table[k].owner]]

GetDevice(d, number) ==
  LET found == SeekDevice(d, number) IN
  IF found = {} THEN Reply("NoSuchDevice", 0) ELSE Reply("None", CHOOSE k \in found : TRUE)

Handle(d, request) ==
  CASE request.op = "SetFilter"     -> Reply("None", 0)
    [] request.op = "GetNumDevices" -> Reply("None", Cardinality(Matching(d)))
    [] request.op = "GetDevice"     -> GetDevice(d, request.arg)
    [] request.op = "ReserveDevice" -> ReserveDevice(d, request.arg)
    [] request.op = "ReleaseDevice" -> ReleaseDevice(d, request.arg)

\* An error that makes the server return.  Closing the connection sends the reply.
Fatal(request, error) ==
  error = "NoSuchDevice" /\ request.op # "GetDevice"

\* What has come is read; a complete request is handled.
Receive ==
  /\ Runs(Pci) /\ server = "Scan" /\ todo # << >>
  /\ Pending(Head(todo))
  /\ LET d == Head(todo)
         request == link[d].request
         reply == Handle(d, request)
     IN  IF link[d].offset + link[d].came < Parts
         THEN /\ link' = [link EXCEPT ![d].offset = @ + link[d].came, ![d].came = 0]
              /\ UNCHANGED <<controlVars, server, table, listening, filter>>
         ELSE /\ table' = [k \in 1 .. Len(table) |->
                             [table[k] EXCEPT !.owner = reply.owners[k]]]
              /\ filter' = IF request.op = "SetFilter"
                           THEN [filter EXCEPT ![d] = request.arg] ELSE filter
              /\ link' = [link EXCEPT ![d] =
                            [Idle EXCEPT !.reply = <<[error |-> reply.error,
                                                      value |-> reply.value]>>,
                                         !.left = Fatal(request, reply.error)]]
              /\ IF Fatal(request, reply.error)
                 THEN End ELSE UNCHANGED <<controlVars, server, listening>>
  /\ todo' = Tail(todo)
  /\ UNCHANGED <<machine, probe, wrapped, backlog, accepted, driver, kept>>

-----------------------------------------------------------------------------
(* The drivers and the client library *)

\* PCIConfigNew.  It fails if the server does not listen, or has returned: its
\* address is not registered any more, and the driver gives up.
ConnectToPci(d) ==
  /\ Runs(d) /\ driver[d].at = "Start"
  /\ driver' = [driver EXCEPT ![d].at = IF listening THEN "Connecting" ELSE "Refused"]
  /\ UNCHANGED <<controlVars, serverVars, link, kept>>

Waits(d) == link[d].request # NoRequest \/ link[d].reply # << >>

\* send: the driver's next request.  Once it has its devices it may give any
\* back, and a number is not checked.
Ask(d) ==
  /\ Runs(d) /\ ~Waits(d)
  /\ \E request \in
       CASE driver[d].at = "SetFilter"     -> {[op |-> "SetFilter", arg |-> Wants[d]]}
         [] driver[d].at = "GetNumDevices" -> {[op |-> "GetNumDevices", arg |-> 0]}
         [] driver[d].at \in {"GetDevice", "ReserveDevice"} ->
              {[op |-> driver[d].at, arg |-> driver[d].i]}
         [] driver[d].at = "Ready" ->
              {[op |-> "ReleaseDevice", arg |-> number] : number \in 0 .. driver[d].n}
         [] OTHER -> {} :
       /\ link' = [link EXCEPT ![d].request = request]
       /\ kept' = IF request.op = "ReleaseDevice"
                  THEN [kept EXCEPT ![d] = {p \in @ : p.number # request.arg}] ELSE kept
  /\ UNCHANGED <<controlVars, serverVars, driver>>

\* The loop goes on to the next device, if there is one.
NextDevice(s) == [s EXCEPT !.i = @ + 1, !.at = IF s.i + 1 < s.n THEN "GetDevice" ELSE "Ready"]

\* What a driver does with a reply: it may find that a device is of no use.
Continue(s, reply) ==
  CASE s.at = "SetFilter"     -> {[s EXCEPT !.at = "GetNumDevices"]}
    [] s.at = "GetNumDevices" ->
         LET n == IF reply.value > MaxCards THEN MaxCards ELSE reply.value
         IN  {[s EXCEPT !.n = n, !.at = IF n = 0 THEN "Ready" ELSE "GetDevice"]}
    [] s.at = "GetDevice"     ->
         IF reply.error # "None" THEN {[s EXCEPT !.at = "Ready"]}
         ELSE {[s EXCEPT !.at = "ReserveDevice", !.device = reply.value], NextDevice(s)}
    [] s.at = "ReserveDevice" -> {NextDevice(s)}
    [] s.at = "Ready"         -> {[s EXCEPT !.at = "Done"]}

\* query returns.
Answered(d) ==
  /\ Runs(d) /\ link[d].left
  /\ LET reply == Head(link[d].reply) IN
     /\ \E s \in Continue(driver[d], reply) : driver' = [driver EXCEPT ![d] = s]
     /\ kept' = IF driver[d].at = "ReserveDevice" /\ reply.error = "None"
                THEN [kept EXCEPT ![d] = @ \cup {[number |-> driver[d].i,
                                                 device |-> driver[d].device]}]
                ELSE kept
  /\ link' = [link EXCEPT ![d] = Idle]
  /\ UNCHANGED <<controlVars, serverVars>>

\* PCIConfigClose.  The server's end stays as it is.
CloseConnection(d) ==
  /\ Runs(d) /\ driver[d].at \in {"Ready", "Done"} /\ ~Waits(d)
  /\ driver' = [driver EXCEPT ![d].at = "Closed"]
  /\ UNCHANGED <<controlVars, serverVars, link, kept>>

\* The driver registers for the interrupts of its cards; some may have none, or
\* another owner.  With no card left it returns.
RegisterCards(d) ==
  /\ Runs(d) /\ driver[d].at = "Closed"
  /\ \/ kept[d] # {} /\ driver' = [driver EXCEPT ![d].at = "Serving"] /\ UNCHANGED controlVars
     \/ Exit(d) /\ UNCHANGED driver
  /\ UNCHANGED <<serverVars, link, kept>>

\* A driver that connects to the scheduler, too, or that returns.
ControlFromDriver(d) ==
  /\ driver[d].at = "Start"
  /\ ControlConnect(d) \/ Exit(d)
  /\ UNCHANGED <<serverVars, driverVars>>

-----------------------------------------------------------------------------
Boot == Listen \/ ProbeBus \/ ProbeFunction \/ Report
Serve == AcceptPending \/ Scanned \/ Skip \/ Receive \/ SendReplies
Scheduler == (Poll \/ Stranger) /\ UNCHANGED <<serverVars, driverVars>>

Next ==
  \/ Boot \/ Serve \/ Scheduler
  \/ \E d \in Drivers :
       \/ Establish(d) \/ Arrive(d)
       \/ ConnectToPci(d) \/ Ask(d) \/ Answered(d) \/ CloseConnection(d)
       \/ RegisterCards(d) \/ ControlFromDriver(d)

Spec == Init /\ [][Next]_vars

\* The scheduler polls every so often; the server is ready while there is
\* something for it to do; TCP delivers.
Fairness ==
  /\ WF_vars(Scheduler) /\ WF_vars(Serve)
  /\ \A d \in Drivers : WF_vars(Arrive(d))

FairSpec == Spec /\ Fairness

-----------------------------------------------------------------------------
(* Properties *)

\* A driver does not find the server only after the server has returned, and
\* that only on account of a driver that had been told all it asked for, and
\* gave back a number it had not: dependsOn makes drivers wait for the report,
\* which is sent when the server listens, and the rest of the dialogue asks for
\* nothing that makes the server return (pciDriverProcess, handleRequest of the
\* control server, rtl8139DriverProcess).
Told == {"Ready", "Done", "Closed", "Serving"}

DriversFindServer ==
  \A d \in Drivers : driver[d].at = "Refused" =>
    server = "Ended" /\ \E e \in Drivers : driver[e].at \in Told

\* Every device a driver keeps is one that it asked for, and it is the owner in
\* the server's table, although it knows the device by a number that depends on
\* its filter, and got and reserved it by two requests: so no two drivers keep
\* the same device (seekDevice, reserveDevice, rtl8139DriverProcess).
KeptIsOwned ==
  \A d \in Drivers : \A p \in kept[d] :
    /\ table[p.device].owner = d
    /\ Wants[d] \in {Any, table[p.device].kind}

\* No two windows that the server assigns on one bus overlap, and each is where
\* a device can decode it, until an address passes 32 bits.  A register whose
\* upper half is 0 seems to ask for so much that the first such window does, and
\* the next gets the same base (probe_bus).
Windows(bus) ==
  UNION {{[device |-> k, at |-> j, base |-> table[k].io[j].base, size |-> table[k].io[j].size] :
            j \in 1 .. Len(table[k].io)} : k \in {k \in 1 .. Len(table) : table[k].bus = bus}}

IoWindowsApart ==
  ~wrapped =>
    \A bus \in 1 .. Len(machine) : \A v, w \in Windows(bus) :
      /\ v.base % v.size = 0
      /\ v = w \/ v.base + v.size <= w.base \/ w.base + w.size <= v.base

\* The reply to a sole client's request leaves, although the server waits for
\* the bytes of such a client without asking if there are any, unless the server
\* ends or accepts another.  With two, it waits in no call of TCP's any more: no
\* request arrives and no reply leaves (the loop of pciDriverProcess).
SoleIsServed ==
  \A d \in Drivers :
    (accepted = <<d>> /\ link[d].request # NoRequest)
    ~> (link[d].left \/ Len(accepted) > 1 \/ ~Runs(Pci))
=============================================================================
