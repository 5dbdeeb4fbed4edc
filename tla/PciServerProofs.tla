-------------------------- MODULE PciServerProofs --------------------------
(***************************************************************************)
(* What the drivers may rely on, for every number of drivers, whatever     *)
(* there is on the busses, and wherever requests are cut or replies fail:  *)
(* they find the server, and what they keep is theirs.                     *)
(*                                                                         *)
(* The inductive invariant follows a driver through its dialogue: what it  *)
(* has asked for is what its place in the loop says, what was answered was *)
(* true of the table, and the table's numbers, which depend on the         *)
(* client's filter, do not change as long as the driver uses them.         *)
(* Apart from that, the windows of a bus lie in the order of the table,    *)
(* and before the address that the search goes on from.                    *)
(***************************************************************************)
EXTENDS PciServer, FiniteSetTheorems, WellFoundedInduction, TLAPS

\* A sequence of anything, and what is in a sequence.
IsSeq(s) == Len(s) \in Nat /\ s = [k \in 1 .. Len(s) |-> s[k]]
Elems(s) == {s[k] : k \in 1 .. Len(s)}

Booting == {"Start", "Bus", "Function", "Connect", "Report", "Reported", "Close"}
Unconnected == {"Start", "Connecting", "Refused"}
Talking == {"SetFilter", "GetNumDevices", "GetDevice", "ReserveDevice", "Ready"}
Places == Unconnected \cup Talking \cup Told
Operations == {"None", "SetFilter", "GetNumDevices", "GetDevice", "ReserveDevice",
               "ReleaseDevice"}
Errors == {"None", "NoSuchDevice", "ResourceInUse", "ResourceNotInUse"}
Stages == {"None", "Connected", "Whole", "Cut", "Lost", "Answered", "Dropped", "Reported",
           "Closed"}

Args == Nat \cup {None} \cup {Wants[d] : d \in Drivers}
Links == [request : [op : Operations, arg : Args], came : Nat, offset : Nat,
          reply : Seq([error : Errors, value : Nat]), left : BOOLEAN]

TypeOK ==
  /\ running \subseteq Contexts /\ queue \subseteq Contexts
  /\ control \in [Contexts -> Stages]
  /\ listening \in BOOLEAN
  /\ backlog \in Drivers \cup {None}
  /\ accepted \in Seq(Drivers) /\ todo \in Seq(Drivers)
  /\ filter \in [Drivers -> {Any} \cup {Wants[d] : d \in Drivers}]
  /\ link \in [Drivers -> Links]
  /\ driver \in [Drivers -> [at : Places, i : Nat, n : Nat, device : Nat]]
  /\ kept \in [Drivers -> SUBSET [number : Nat, device : Nat]]

\* The table holds devices.
TableOK ==
  /\ IsSeq(table)
  /\ \A k \in 1 .. Len(table) :
       table[k] = [kind |-> table[k].kind, bus |-> table[k].bus,
                   owner |-> table[k].owner, io |-> table[k].io]

Heard == {"Answered", "Reported", "Closed"}

\* The server listens until it has returned, and drivers are started by its report.
\* It has returned without one, or on account of a driver that had been told all.
ListensFirst ==
  /\ ~listening => server \in {"Start", "Ended"}
  /\ server \in {"Start", "Bus", "Function", "Connect"} => control[Pci] = "None"
  /\ \A d \in Drivers : d \in running => control[Pci] \in Heard
  /\ server = "Ended" => \/ control[Pci] \in {"None", "Dropped"}
                         \/ \E e \in Drivers : driver[e].at \in Told

\* A driver's connection waits to be accepted, or is on the list, once.
Connected ==
  /\ server \in Booting => \A d \in Drivers : driver[d].at \in Unconnected
  /\ \A d \in Drivers : driver[d].at \in Unconnected =>
       ~Waits(d) /\ d \notin Elems(accepted)
  /\ \A d \in Drivers : driver[d].at \in Unconnected \cup {"SetFilter"} => kept[d] = {}
  /\ \A d \in Drivers : backlog = d =>
       driver[d].at = "SetFilter" /\ link[d].reply = << >> /\ d \notin Elems(accepted)
  /\ Elems(todo) \subseteq Elems(accepted)

Error(d) == Head(link[d].reply).error

\* What a driver waits for is what its place in rtl8139DriverProcess says.
Asked ==
  \A d \in Drivers :
    /\ link[d].came > 0 => link[d].request # NoRequest
    /\ link[d].left => link[d].reply # << >>
    /\ Waits(d) => driver[d].at \in Talking
    /\ link[d].request # NoRequest =>
         /\ link[d].reply = << >>
         /\ link[d].request.op =
              IF driver[d].at = "Ready" THEN "ReleaseDevice" ELSE driver[d].at
         /\ driver[d].at = "SetFilter" => link[d].request.arg = Wants[d]
         /\ driver[d].at \in {"GetDevice", "ReserveDevice"} => link[d].request.arg = driver[d].i
         /\ driver[d].at = "Ready" => \A p \in kept[d] : p.number # link[d].request.arg

\* The filter is the driver's own from its first answer on.
Filtered ==
  \A d \in Drivers :
    \/ driver[d].at \in Unconnected
    \/ driver[d].at = "SetFilter" /\ link[d].reply = << >>
    \/ filter[d] = Wants[d]

\* What a driver was told of a device is true of it.
Numbered ==
  \A d \in Drivers :
    /\ driver[d].at = "GetDevice" /\ link[d].reply # << >> /\ Error(d) = "None" =>
         Head(link[d].reply).value \in SeekDevice(d, driver[d].i)
    /\ driver[d].at = "ReserveDevice" => driver[d].device \in SeekDevice(d, driver[d].i)
    /\ driver[d].at = "ReserveDevice" /\ link[d].reply # << >> /\ Error(d) = "None" =>
         table[driver[d].device].owner = d
    /\ \A p \in kept[d] : p.device \in SeekDevice(d, p.number) /\ table[p.device].owner = d

IInv == TypeOK /\ TableOK /\ ListensFirst /\ DriversFindServer
          /\ Connected /\ Asked /\ Filtered /\ Numbered

-----------------------------------------------------------------------------
(* Sequences and devices *)

LEMMA AppendSeq ==
  ASSUME NEW s, IsSeq(s), NEW e
  PROVE  /\ IsSeq(Append(s, e))
         /\ Len(Append(s, e)) = Len(s) + 1
         /\ \A k \in 1 .. Len(s) + 1 : Append(s, e)[k] = IF k = Len(s) + 1 THEN e ELSE s[k]
<1> DEFINE T == {s[k] : k \in 1 .. Len(s)} \cup {e}
<1>1. s \in Seq(T)
  BY DEF IsSeq
<1> HIDE DEF T
<1>2. e \in T
  BY DEF T
<1>3. /\ Append(s, e) \in Seq(T)
      /\ Len(Append(s, e)) = Len(s) + 1
      /\ \A k \in 1 .. Len(s) + 1 : Append(s, e)[k] = IF k = Len(s) + 1 THEN e ELSE s[k]
  BY <1>1, <1>2
<1>4. \A q \in Seq(T) : Len(q) \in Nat /\ q = [k \in 1 .. Len(q) |-> q[k]]
  OBVIOUS
<1> QED
  BY <1>3, <1>4 DEF IsSeq

LEMMA AppendElems ==
  ASSUME NEW S, NEW s \in Seq(S), NEW e \in S
  PROVE  Elems(Append(s, e)) = Elems(s) \cup {e}
<1>1. /\ Len(Append(s, e)) = Len(s) + 1 /\ Len(s) \in Nat
      /\ \A k \in 1 .. Len(s) + 1 : Append(s, e)[k] = IF k = Len(s) + 1 THEN e ELSE s[k]
  OBVIOUS
<1>2. ASSUME NEW x \in Elems(s) \cup {e} PROVE x \in Elems(Append(s, e))
  <2>1. CASE x = e
    BY <2>1, <1>1 DEF Elems
  <2>2. CASE x \in Elems(s)
    <3>1. PICK k \in 1 .. Len(s) : x = s[k]
      BY <2>2 DEF Elems
    <3>2. k \in 1 .. Len(s) + 1 /\ Append(s, e)[k] = s[k]
      BY <1>1
    <3> QED
      BY <1>1, <3>1, <3>2 DEF Elems
  <2> QED
    BY <1>2, <2>1, <2>2
<1>3. ASSUME NEW x \in Elems(Append(s, e)) PROVE x \in Elems(s) \cup {e}
  BY <1>1, <1>3 DEF Elems
<1> QED
  BY <1>2, <1>3

LEMMA TailElems ==
  ASSUME NEW S, NEW s \in Seq(S), s # << >>
  PROVE  /\ Head(s) \in Elems(s) /\ Head(s) \in S
         /\ Tail(s) \in Seq(S) /\ Elems(Tail(s)) \subseteq Elems(s)
<1>1. /\ Len(s) \in Nat /\ Len(s) > 0 /\ Head(s) = s[1] /\ Head(s) \in S
      /\ Tail(s) \in Seq(S) /\ Len(Tail(s)) = Len(s) - 1
      /\ \A k \in 1 .. Len(s) - 1 : Tail(s)[k] = s[k + 1]
  OBVIOUS
<1>2. Head(s) \in Elems(s)
  BY <1>1 DEF Elems
<1>3. ASSUME NEW x \in Elems(Tail(s)) PROVE x \in Elems(s)
  <2>1. PICK k \in 1 .. Len(s) - 1 : x = s[k + 1]
    BY <1>1 DEF Elems
  <2> QED
    BY <1>1, <2>1 DEF Elems
<1> QED
  BY <1>1, <1>2, <1>3

\* The numbers of a client's devices depend on its filter and on their kinds.
LEMMA SameNumbers ==
  ASSUME NEW d, NEW n, filter'[d] = filter[d], Len(table') = Len(table),
         \A k \in 1 .. Len(table) : table'[k].kind = table[k].kind
  PROVE  SeekDevice(d, n)' = SeekDevice(d, n)
<1>1. Matching(d)' = Matching(d)
  BY DEF Matching
<1> QED
  BY <1>1 DEF SeekDevice

\* Two numbers of one client are two devices.
LEMMA NumbersApart ==
  ASSUME NEW d, NEW m, NEW n, m # n, NEW k \in SeekDevice(d, m)
  PROVE  k \notin SeekDevice(d, n)
BY DEF SeekDevice

LEMMA SeekIsPlace ==
  ASSUME NEW d, NEW n, NEW k \in SeekDevice(d, n)
  PROVE  k \in 1 .. Len(table) /\ filter[d] \in {Any, table[k].kind}
BY DEF SeekDevice, Matching

LEMMA CountIsNatural == ASSUME IsSeq(table), NEW d PROVE Cardinality(Matching(d)) \in Nat
<1>0. 1 \in Int /\ Len(table) \in Int
  BY DEF IsSeq
<1>1. IsFiniteSet(1 .. Len(table))
  BY <1>0, FS_Interval
<1>2. IsFiniteSet(Matching(d))
  BY <1>1, FS_Subset DEF Matching
<1> QED
  BY <1>2, FS_CardinalityType

-----------------------------------------------------------------------------
(* The invariant *)

LEMMA IdleIsLink == Idle \in Links
BY DEF Idle, NoRequest, Links, Args, Operations

LEMMA InitIInv == Init => IInv
<1> SUFFICES ASSUME Init PROVE IInv
  OBVIOUS
<1> USE DEF Init, ControlInit, Idle, NoRequest
<1>1. TypeOK
  <2>1. /\ running \subseteq Contexts /\ queue \subseteq Contexts
        /\ control \in [Contexts -> Stages]
    BY ControlAssumption DEF Stages
  <2>2. /\ Idle \in Links
        /\ [at |-> "Start", i |-> 0, n |-> 0, device |-> 0]
             \in [at : Places, i : Nat, n : Nat, device : Nat]
    BY DEF Links, Args, Operations, Places, Unconnected
  <2>3. /\ link \in [Drivers -> Links]
        /\ driver \in [Drivers -> [at : Places, i : Nat, n : Nat, device : Nat]]
        /\ kept \in [Drivers -> SUBSET [number : Nat, device : Nat]]
        /\ filter \in [Drivers -> {Any} \cup {Wants[d] : d \in Drivers}]
    BY <2>2
  <2>4. listening \in BOOLEAN /\ backlog \in Drivers \cup {None}
    OBVIOUS
  <2>5. accepted \in Seq(Drivers) /\ todo \in Seq(Drivers)
    OBVIOUS
  <2> QED
    BY <2>1, <2>3, <2>4, <2>5 DEF TypeOK
<1>2. TableOK
  BY DEF TableOK, IsSeq
<1>3. ListensFirst /\ DriversFindServer
  BY PciAssumption, ControlAssumption DEF ListensFirst, DriversFindServer, Drivers
<1>4. Connected
  BY ControlAssumption DEF Connected, Waits, Elems, Unconnected, Drivers
<1>5. Asked
  BY DEF Asked, Waits
<1>6. Filtered /\ Numbered
  BY DEF Filtered, Numbered, Unconnected
<1> QED
  BY <1>1, <1>2, <1>3, <1>4, <1>5, <1>6 DEF IInv

\* Steps that leave the drivers and what the server knows of them alone.
LEMMA Frame ==
  ASSUME IInv, UNCHANGED <<table, filter, link, driver, kept>>,
         server = "Ended" => server' = "Ended"
  PROVE  TableOK' /\ DriversFindServer' /\ Asked' /\ Filtered' /\ Numbered'
<1>1. TableOK' /\ DriversFindServer'
  BY DEF IInv, TableOK, DriversFindServer
<1>2. Asked'
  BY DEF IInv, Asked, Waits
<1>3. Filtered'
  BY DEF IInv, Filtered
<1>4. ASSUME NEW d, NEW n PROVE SeekDevice(d, n)' = SeekDevice(d, n)
  BY SameNumbers
<1>5. Numbered'
  BY <1>4 DEF IInv, Numbered, Error
<1> QED
  BY <1>1, <1>2, <1>3, <1>5

-----------------------------------------------------------------------------
(* The server before it serves, and the scheduler *)

LEMMA ListenStep == IInv /\ Listen => IInv'
<1> SUFFICES ASSUME IInv, Listen PROVE IInv'
  OBVIOUS
<1> USE DEF Listen, controlVars, driverVars
<1>1. TypeOK' /\ ListensFirst'
  BY DEF IInv, TypeOK, ListensFirst
<1>2. Connected'
  BY DEF IInv, Connected, Waits, Booting
<1>3. server # "Ended"
  OBVIOUS
<1> QED
  BY <1>1, <1>2, <1>3, Frame DEF IInv

\* While the server boots there is nothing to be said of the drivers.
LEMMA StillBooting ==
  ASSUME IInv, server \in Booting, UNCHANGED <<link, driver, kept>>
  PROVE  Asked' /\ Filtered' /\ Numbered' /\ DriversFindServer'
<1>1. \A d \in Drivers : driver[d].at \in Unconnected /\ ~Waits(d) /\ kept[d] = {}
  BY DEF IInv, Connected
<1>5. \A d \in Drivers : driver[d].at # "Refused"
  BY DEF IInv, DriversFindServer, Booting
<1>2. Asked'
  BY DEF IInv, Asked, Waits
<1>3. Filtered'
  BY <1>1 DEF Filtered
<1>4. Numbered'
  BY <1>1 DEF Numbered, Unconnected
<1> QED
  BY <1>2, <1>3, <1>4, <1>5 DEF DriversFindServer

LEMMA ProbeStep == IInv /\ (ProbeBus \/ ProbeFunction) => IInv'
<1> SUFFICES ASSUME IInv, ProbeBus \/ ProbeFunction PROVE IInv'
  OBVIOUS
<1>1. server \in {"Bus", "Function"} /\ server' \in {"Connect", "Ended", "Bus", "Function"}
  BY DEF ProbeBus, ProbeFunction, End
<1>2. /\ UNCHANGED <<running, control, accepted, backlog, todo, filter, link, driver, kept>>
      /\ queue' \subseteq queue
      /\ listening' = listening \/ (listening' = FALSE /\ server' = "Ended")
  BY DEF ProbeBus, ProbeFunction, End, Exit, controlVars, driverVars
<1>3. TypeOK' /\ ListensFirst'
  <2>1. TypeOK'
    BY <1>1, <1>2 DEF IInv, TypeOK
  <2>2. control[Pci] = "None" /\ control'[Pci] = control[Pci] /\ listening
    BY <1>1, <1>2 DEF IInv, ListensFirst
  <2>3. ListensFirst'
    BY <1>1, <1>2, <2>2 DEF IInv, ListensFirst
  <2> QED
    BY <2>1, <2>3
<1>4. TableOK'
  <2>1. CASE UNCHANGED table
    BY <2>1 DEF IInv, TableOK
  <2>2. CASE table' = Append(table, Entry)
    <3>1. Entry = [kind |-> Entry.kind, bus |-> Entry.bus, owner |-> Entry.owner, io |-> Entry.io]
      BY DEF Entry
    <3> QED
      BY <2>2, <3>1, AppendSeq DEF IInv, TableOK
  <2> QED
    BY <2>1, <2>2 DEF ProbeBus, ProbeFunction
<1>5. Connected'
  BY <1>1, <1>2 DEF IInv, Connected, Waits, Booting
<1>6. server \in Booting
  BY <1>1 DEF Booting
<1> QED
  BY <1>2, <1>3, <1>4, <1>5, <1>6, StillBooting DEF IInv

\* What a context does with its control connection.
LEMMA ControlStep ==
  ASSUME IInv, NEW x \in Contexts,
         ControlConnect(x) \/ ReportInited(x) \/ ReportReturns(x) \/ ControlClose(x) \/ Exit(x)
  PROVE  /\ running' = running /\ queue' \subseteq Contexts
         /\ control' \in [Contexts -> Stages]
<1> USE PciAssumption DEF IInv, TypeOK
<1>1. CASE ControlConnect(x)
  BY <1>1 DEF ControlConnect, Stages
<1>2. CASE ReportInited(x)
  BY <1>2 DEF ReportInited, Stages
<1>3. CASE ReportReturns(x)
  BY <1>3 DEF ReportReturns, Stages
<1>4. CASE ControlClose(x)
  BY <1>4 DEF ControlClose, Stages
<1>5. CASE Exit(x)
  BY <1>5 DEF Exit
<1> QED
  BY <1>1, <1>2, <1>3, <1>4, <1>5

LEMMA ReportStep == IInv /\ Report => IInv'
<1> SUFFICES ASSUME IInv, Report PROVE IInv'
  OBVIOUS
<1>1. /\ UNCHANGED <<accepted, backlog, todo, table, filter, link, driver, kept>>
      /\ server \in Booting \ {"Start"}
      /\ server' \notin {"Start", "Bus", "Function", "Connect"}
      /\ listening' \in BOOLEAN
      /\ \/ ControlConnect(Pci) \/ ReportInited(Pci) \/ ReportReturns(Pci)
         \/ ControlClose(Pci) \/ Exit(Pci)
  BY DEF Report, End, Booting, driverVars, IInv, TypeOK
<1>2. listening /\ (~listening' => server' = "Ended")
  BY <1>1 DEF IInv, ListensFirst, Report, Booting
<1>3. /\ running' = running /\ queue' \subseteq Contexts
      /\ control' \in [Contexts -> Stages]
  BY <1>1, PciAssumption, ControlStep
<1>4. /\ control[Pci] \in Heard => control'[Pci] \in Heard
      /\ server' = "Ended" => control'[Pci] \in {"None", "Dropped"}
  <2>1. control \in [Contexts -> Stages] /\ Pci \in Contexts
    BY PciAssumption DEF IInv, TypeOK
  <2>2. CASE ControlConnect(Pci) /\ server' = "Report"
    BY <2>1, <2>2 DEF ControlConnect, Heard
  <2>3. CASE ReportInited(Pci) /\ server' = "Reported"
    BY <2>1, <2>3 DEF ReportInited, Heard
  <2>4. CASE control[Pci] = "Dropped" /\ Exit(Pci)
    BY <2>1, <2>4 DEF Exit
  <2>5. CASE ReportReturns(Pci) /\ server' = "Close"
    BY <2>1, <2>5 DEF ReportReturns, Heard
  <2>6. CASE ControlClose(Pci) /\ server' = "Accept"
    BY <2>1, <2>6 DEF ControlClose, Heard
  <2> QED
    BY <2>2, <2>3, <2>4, <2>5, <2>6 DEF Report, End
<1>5. TypeOK' /\ ListensFirst'
  BY <1>1, <1>2, <1>3, <1>4 DEF IInv, TypeOK, ListensFirst
<1>6. Connected' /\ server # "Ended"
  BY <1>1 DEF IInv, Connected, Waits, Booting
<1> QED
  BY <1>1, <1>5, <1>6, Frame DEF IInv

\* The scheduler starts drivers when the server has reported.
LEMMA SchedulerStep == IInv /\ Scheduler => IInv'
<1> SUFFICES ASSUME IInv, Scheduler PROVE IInv'
  OBVIOUS
<1>1. UNCHANGED <<serverVars, driverVars>>
  BY DEF Scheduler
<1>2. UNCHANGED <<server, listening, accepted, backlog, todo, table, filter, link, driver, kept>>
  BY <1>1 DEF serverVars, driverVars
<1>3. /\ running' \subseteq Contexts /\ queue' = queue
      /\ control' \in [Contexts -> Stages]
      /\ control'[Pci] = control[Pci] \/ control[Pci] \in {"Whole", "Cut"}
      /\ \A d \in Drivers : d \in running' => control'[Pci] \in Heard
  <2>1. CASE Stranger
    BY <2>1 DEF Stranger, IInv, TypeOK, ListensFirst
  <2>2. CASE Poll
    <3>1. queue' = queue
      BY <2>2 DEF Poll
    <3>2. PICK failed \in SUBSET Sent("Whole") : HandleRequests(failed)
      BY <2>2 DEF Poll
    <3>3. control' \in [Contexts -> Stages]
      BY <3>2 DEF HandleRequests, Stages, IInv, TypeOK
    <3>4. control'[Pci] = control[Pci] \/ control[Pci] \in {"Whole", "Cut"}
      BY <3>2, PciAssumption DEF HandleRequests, Sent
    <3>5. running' \subseteq Contexts
      BY <3>2 DEF HandleRequests, ActivateDependents, Dependents, IInv, TypeOK
    <3>6. ASSUME NEW d \in Drivers, d \in running', d \notin running
          PROVE  control'[Pci] \in Heard
      <4>1. PICK x \in Sent("Whole") \ failed : d \in Dependents(x)
        BY <3>2, <3>6 DEF HandleRequests, ActivateDependents
      <4>2. d \in Contexts /\ d # Pci /\ DependsOn[d] = x
        BY <4>1 DEF Dependents, Drivers
      <4>3. x = Pci
        BY <4>2, PciAssumption
      <4>4. control'[Pci] = "Answered"
        <5>1. Pci \in Contexts /\ Pci \in Sent("Whole") \ failed /\ Pci \notin failed
          BY <4>1, <4>3, PciAssumption
        <5>2. control' = [y \in Contexts |->
                            CASE y \in failed -> "Dropped"
                              [] y \in Sent("Whole") \ failed -> "Answered"
                              [] y \in Sent("Cut") -> "Lost"
                              [] OTHER -> control[y]]
          BY <3>2 DEF HandleRequests
        <5>3. Pci \notin Sent("Cut")
          BY <5>1 DEF Sent
        <5> QED
          BY <5>1, <5>2, <5>3
      <4> QED
        BY <4>4 DEF Heard
    <3>7. ASSUME NEW d \in Drivers, d \in running PROVE control'[Pci] \in Heard
      BY <3>4, <3>7 DEF IInv, ListensFirst, Heard
    <3> QED
      BY <3>1, <3>3, <3>4, <3>5, <3>6, <3>7 DEF IInv, TypeOK, ListensFirst
  <2> QED
    BY <2>1, <2>2 DEF Scheduler
<1>4. TypeOK' /\ ListensFirst'
  BY <1>2, <1>3 DEF IInv, TypeOK, ListensFirst
<1>5. Connected'
  BY <1>2 DEF IInv, Connected, Waits
<1> QED
  BY <1>2, <1>4, <1>5, Frame DEF IInv

-----------------------------------------------------------------------------
(* The server's loop *)

\* Steps that change the loop's own state only.
LEMMA LoopStep == IInv /\ (Scanned \/ Skip) => IInv'
<1> SUFFICES ASSUME IInv, Scanned \/ Skip PROVE IInv'
  OBVIOUS
<1>1. /\ UNCHANGED <<running, queue, control, listening, backlog, accepted, table, filter,
                     link, driver, kept>>
      /\ server' \in {"Accept", "Scan"} /\ server = "Scan"
      /\ todo' = todo \/ (todo # << >> /\ todo' = Tail(todo))
  BY DEF Scanned, Skip, controlVars, driverVars
<1>2. todo' \in Seq(Drivers) /\ Elems(todo') \subseteq Elems(todo)
  <2>1. todo \in Seq(Drivers)
    BY DEF IInv, TypeOK
  <2>2. CASE todo' = todo
    BY <2>1, <2>2 DEF Elems
  <2>3. CASE todo # << >> /\ todo' = Tail(todo)
    BY <2>1, <2>3, TailElems
  <2> QED
    BY <1>1, <2>2, <2>3
<1>3. TypeOK' /\ ListensFirst'
  BY <1>1, <1>2 DEF IInv, TypeOK, ListensFirst
<1>4. Connected'
  BY <1>1, <1>2 DEF IInv, Connected, Waits, Booting
<1> QED
  BY <1>1, <1>3, <1>4, Frame DEF IInv

LEMMA AcceptStep == IInv /\ AcceptPending => IInv'
<1> SUFFICES ASSUME IInv, AcceptPending PROVE IInv'
  OBVIOUS
<1>1. /\ UNCHANGED <<running, queue, control, listening, table, link, driver, kept>>
      /\ server = "Accept" /\ server' = "Scan"
      /\ backlog' = None /\ todo' = accepted'
  BY DEF AcceptPending, controlVars, driverVars
<1>2. CASE backlog = None
  <2>1. UNCHANGED <<accepted, filter>>
    BY <1>2 DEF AcceptPending, TcpSocketAcceptPending
  <2>2. TypeOK' /\ ListensFirst'
    BY <1>1, <2>1 DEF IInv, TypeOK, ListensFirst
  <2>3. Connected'
    BY <1>1, <2>1, ControlAssumption DEF IInv, Connected, Waits, Booting, Drivers
  <2> QED
    BY <1>1, <2>1, <2>2, <2>3, Frame DEF IInv
<1>3. CASE backlog # None
  <2>1. /\ backlog \in Drivers
        /\ accepted' = Append(accepted, backlog)
        /\ filter' = [filter EXCEPT ![backlog] = Any]
    BY <1>3 DEF AcceptPending, TcpSocketAcceptPending, IInv, TypeOK
  <2>2. /\ accepted' \in Seq(Drivers) /\ todo' \in Seq(Drivers)
        /\ Elems(accepted') = Elems(accepted) \cup {backlog}
    BY <1>1, <2>1, AppendElems DEF IInv, TypeOK
  <2>3. TypeOK' /\ ListensFirst'
    BY <1>1, <2>1, <2>2 DEF IInv, TypeOK, ListensFirst
  <2>4. /\ driver[backlog].at = "SetFilter" /\ link[backlog].reply = << >>
        /\ kept[backlog] = {}
    BY <2>1 DEF IInv, Connected
  <2>5. Connected'
    BY <1>1, <2>1, <2>2, <2>4, ControlAssumption DEF IInv, Connected, Waits, Booting, Unconnected, Drivers
  <2>6. ASSUME NEW d \in Drivers, d # backlog PROVE filter'[d] = filter[d]
    BY <2>1, <2>6 DEF IInv, TypeOK
  <2>7. Filtered'
    BY <1>1, <2>4, <2>6 DEF IInv, Filtered
  <2>8. ASSUME NEW d \in Drivers, d # backlog, NEW n PROVE SeekDevice(d, n)' = SeekDevice(d, n)
    BY <1>1, <2>6, <2>8, SameNumbers
  <2>9. Numbered'
    BY <1>1, <2>4, <2>8 DEF IInv, Numbered, Error
  <2>10. TableOK' /\ DriversFindServer' /\ Asked'
    BY <1>1 DEF IInv, TableOK, DriversFindServer, Asked, Waits
  <2> QED
    BY <2>3, <2>5, <2>7, <2>9, <2>10 DEF IInv
<1> QED
  BY <1>2, <1>3

\* Whether the reply has left.
LEMMA LinkLeft ==
  ASSUME NEW l \in Links, NEW left \in BOOLEAN
  PROVE  LET m == [l EXCEPT !.left = left]
         IN  /\ m \in Links /\ m.left = left
             /\ m.request = l.request /\ m.came = l.came /\ m.reply = l.reply
<1> DEFINE m == [l EXCEPT !.left = left]
<1>1. /\ m.left = left /\ m.offset = l.offset
      /\ m.request = l.request /\ m.came = l.came /\ m.reply = l.reply
  BY DEF Links
<1>2. m = [request |-> m.request, came |-> m.came, offset |-> m.offset, reply |-> m.reply,
           left |-> m.left]
  BY DEF Links
<1>3. /\ m.request \in [op : Operations, arg : Args] /\ m.came \in Nat /\ m.offset \in Nat
      /\ m.reply \in Seq([error : Errors, value : Nat])
      /\ m.left \in BOOLEAN
  BY <1>1 DEF Links
<1> HIDE DEF m
<1>4. m \in Links
  BY <1>2, <1>3 DEF Links
<1> QED
  BY <1>1, <1>4 DEF m

LEMMA SendRepliesStep == IInv /\ SendReplies => IInv'
<1> SUFFICES ASSUME IInv, SendReplies PROVE IInv'
  OBVIOUS
<1>1. /\ UNCHANGED <<running, queue, control, server, listening, backlog, accepted, todo, table,
                     filter, driver, kept>>
      /\ link' = [d \in Drivers |-> [link[d] EXCEPT !.left = link[d].reply # << >>]]
  BY DEF SendReplies, controlVars, serverVars
<1>2. ASSUME NEW d \in Drivers
      PROVE  /\ link'[d] \in Links
             /\ link'[d].request = link[d].request /\ link'[d].came = link[d].came
             /\ link'[d].reply = link[d].reply
             /\ link'[d].left => link[d].reply # << >>
  <2>1. link[d] \in Links
    BY DEF IInv, TypeOK
  <2>2. CASE link[d].reply = << >>
    <3>1. link'[d] = [link[d] EXCEPT !.left = FALSE]
      BY <1>1, <2>2
    <3> QED
      BY <2>1, <2>2, <3>1, LinkLeft
  <2>3. CASE link[d].reply # << >>
    <3>1. link'[d] = [link[d] EXCEPT !.left = TRUE]
      BY <1>1, <2>3
    <3> QED
      BY <2>1, <2>3, <3>1, LinkLeft
  <2> QED
    BY <2>2, <2>3
<1>3. TypeOK' /\ ListensFirst'
  BY <1>1, <1>2 DEF IInv, TypeOK, ListensFirst
<1>4. Connected'
  BY <1>1, <1>2 DEF IInv, Connected, Waits
<1>5. Asked'
  BY <1>1, <1>2 DEF IInv, Asked, Waits
<1>6. Filtered'
  BY <1>1, <1>2 DEF IInv, Filtered
<1>7. ASSUME NEW d, NEW n PROVE SeekDevice(d, n)' = SeekDevice(d, n)
  BY <1>1, SameNumbers
<1>8. Numbered'
  BY <1>1, <1>2, <1>7 DEF IInv, Numbered, Error
<1> QED
  BY <1>1, <1>3, <1>4, <1>5, <1>6, <1>8 DEF IInv, TableOK, DriversFindServer

LEMMA EstablishStep == IInv /\ (\E d \in Drivers : Establish(d)) => IInv'
<1> SUFFICES ASSUME IInv, NEW d \in Drivers, Establish(d) PROVE IInv'
  OBVIOUS
<1>1. /\ UNCHANGED <<running, queue, control, server, listening, accepted, todo, table, filter,
                     link, kept>>
      /\ server \in {"Accept", "Scan"} /\ Runs(Pci)
      /\ driver[d].at = "Connecting" /\ backlog' = d
      /\ driver' = [driver EXCEPT ![d].at = "SetFilter"]
  BY DEF Establish, Blocked, controlVars
<1>2. /\ driver' \in [Drivers -> [at : Places, i : Nat, n : Nat, device : Nat]]
      /\ driver'[d].at = "SetFilter"
      /\ \A e \in Drivers \ {d} : driver'[e] = driver[e]
  BY <1>1 DEF IInv, TypeOK, Places, Talking
<1>3. ~Waits(d) /\ kept[d] = {} /\ d \notin Elems(accepted)
  BY <1>1 DEF IInv, Connected, Unconnected
<1>4. TypeOK' /\ ListensFirst' /\ DriversFindServer'
  BY <1>1, <1>2 DEF IInv, TypeOK, ListensFirst, DriversFindServer
<1>5. Connected'
  BY <1>1, <1>2, <1>3 DEF IInv, Connected, Booting, Unconnected, Waits
<1>6. Asked'
  BY <1>1, <1>2, <1>3 DEF IInv, Asked, Waits
<1>7. Filtered'
  BY <1>1, <1>2, <1>3 DEF IInv, Filtered, Waits
<1>8. ASSUME NEW e, NEW n PROVE SeekDevice(e, n)' = SeekDevice(e, n)
  BY <1>1, SameNumbers
<1>9. Numbered'
  BY <1>1, <1>2, <1>3, <1>8 DEF IInv, Numbered, Error
<1> QED
  BY <1>1, <1>4, <1>5, <1>6, <1>7, <1>9 DEF IInv, TableOK

\* A connection whose request and reply stay what they are.
LEMMA ArriveStep == IInv /\ (\E d \in Drivers : Arrive(d)) => IInv'
<1> SUFFICES ASSUME IInv, NEW d \in Drivers, Arrive(d) PROVE IInv'
  OBVIOUS
<1>1. /\ UNCHANGED <<running, queue, control, server, listening, backlog, accepted, todo, table,
                     filter, driver, kept>>
      /\ link[d].request # NoRequest
  BY DEF Arrive, controlVars, serverVars
<1>2. PICK n \in 1 .. Parts - link[d].offset - link[d].came :
             link' = [link EXCEPT ![d].came = @ + n]
  BY DEF Arrive
<1>3. /\ link'[d] \in Links
      /\ link'[d].request = link[d].request /\ link'[d].left = link[d].left
      /\ link'[d].reply = link[d].reply
      /\ \A e \in Drivers \ {d} : link'[e] = link[e]
      /\ link' \in [Drivers -> Links]
  <2>0. link \in [Drivers -> Links] /\ link[d] \in Links
    BY DEF IInv, TypeOK
  <2>1. link[d].came \in Nat /\ link[d].offset \in Nat
    BY <2>0 DEF Links
  <2>4. link[d].came + n \in Nat
    BY <2>1, PciAssumption
  <2>2. link'[d] = [link[d] EXCEPT !.came = link[d].came + n]
    BY <1>2, <2>0
  <2>3. link'[d] \in Links
    BY <2>0, <2>2, <2>4 DEF Links
  <2> QED
    BY <1>2, <2>0, <2>2, <2>3 DEF Links
<1>4. TypeOK' /\ ListensFirst'
  BY <1>1, <1>3 DEF IInv, TypeOK, ListensFirst
<1>5. driver[d].at \notin Unconnected
  BY <1>1 DEF IInv, Connected, Waits
<1>6. Connected'
  BY <1>1, <1>3, <1>5 DEF IInv, Connected, Waits
<1>7. Asked'
  BY <1>1, <1>3 DEF IInv, Asked, Waits
<1>8. Filtered'
  BY <1>1, <1>3 DEF IInv, Filtered
<1>9. ASSUME NEW e, NEW m PROVE SeekDevice(e, m)' = SeekDevice(e, m)
  BY <1>1, SameNumbers
<1>10. Numbered'
  BY <1>1, <1>3, <1>9 DEF IInv, Numbered, Error
<1> QED
  BY <1>1, <1>4, <1>6, <1>7, <1>8, <1>10 DEF IInv, TableOK, DriversFindServer

-----------------------------------------------------------------------------
(* A request is handled *)

\* What handleRequest answers is true, and only a device that nobody has, or
\* that the client has under the number it named, changes hands.
LEMMA HandleFacts ==
  ASSUME IInv, NEW d \in Drivers, link[d].request # NoRequest
  PROVE  LET request == link[d].request
             reply == Handle(d, request)
         IN  /\ reply.error \in Errors /\ reply.value \in Nat
             /\ request.op = "GetDevice" /\ reply.error = "None" =>
                  reply.value \in SeekDevice(d, request.arg)
             /\ request.op = "ReserveDevice" /\ reply.error = "None" =>
                  \A k \in SeekDevice(d, request.arg) : reply.owners[k] = d
             /\ \A k \in 1 .. Len(table) :
                  \/ reply.owners[k] = table[k].owner
                  \/ table[k].owner = None
                  \/ /\ request.op = "ReleaseDevice" /\ table[k].owner = d
                     /\ k \in SeekDevice(d, request.arg)
<1> DEFINE request == link[d].request
           reply == Handle(d, request)
           number == request.arg
<1>0. request.op \in Operations \ {"None"} /\ IsSeq(table)
  BY DEF IInv, Asked, TableOK, Waits, Talking, Operations
<1>1. \A k \in 1 .. Len(table) : Owners[k] = table[k].owner
  BY DEF Owners
<1>2. SeekDevice(d, number) \subseteq 1 .. Len(table) /\ 1 .. Len(table) \subseteq Nat
  BY SeekIsPlace
<1>3. CASE request.op = "SetFilter"
  BY <1>1, <1>3 DEF Handle, Reply, Errors
<1>4. CASE request.op = "GetNumDevices"
  <2>1. reply = Reply("None", Cardinality(Matching(d)))
    BY <1>4 DEF Handle
  <2> QED
    BY <1>0, <1>1, <1>4, <2>1, CountIsNatural DEF Reply, Errors
<1>5. CASE request.op = "GetDevice"
  <2>1. reply = GetDevice(d, number)
    BY <1>5 DEF Handle
  <2>2. CASE SeekDevice(d, number) = {}
    BY <1>1, <1>5, <2>1, <2>2 DEF GetDevice, Reply, Errors
  <2>3. CASE SeekDevice(d, number) # {}
    <3>1. PICK k \in SeekDevice(d, number) : k = CHOOSE j \in SeekDevice(d, number) : TRUE
      BY <2>3
    <3>2. reply = Reply("None", k)
      BY <2>1, <2>3, <3>1 DEF GetDevice
    <3> QED
      BY <1>1, <1>2, <1>5, <3>1, <3>2 DEF Reply, Errors
  <2> QED
    BY <2>2, <2>3
<1>6. CASE request.op = "ReserveDevice"
  <2>1. reply = ReserveDevice(d, number)
    BY <1>6 DEF Handle
  <2> HIDE DEF reply
  <2>2. CASE SeekDevice(d, number) = {} \/ \E k \in SeekDevice(d, number) : table[k].owner # None
    <3>1. reply \in {Reply("NoSuchDevice", 0), Reply("ResourceInUse", 0)}
      BY <2>1, <2>2 DEF ReserveDevice
    <3> QED
      BY <1>1, <1>6, <3>1 DEF Reply, Errors, reply
  <2>3. CASE /\ SeekDevice(d, number) # {}
             /\ \A k \in SeekDevice(d, number) : table[k].owner = None
    <3>1. /\ reply.error = "None" /\ reply.value = 1
          /\ reply.owners = [k \in 1 .. Len(table) |-> IF k \in SeekDevice(d, number)
                                                      THEN d ELSE table[k].owner]
      BY <2>1, <2>3 DEF ReserveDevice
    <3> QED
      BY <1>2, <1>6, <2>3, <3>1 DEF Errors, reply
  <2> QED
    BY <2>2, <2>3
<1>7. CASE request.op = "ReleaseDevice"
  <2>1. reply = ReleaseDevice(d, number)
    BY <1>7 DEF Handle
  <2> HIDE DEF reply
  <2>2. CASE SeekDevice(d, number) = {} \/ \E k \in SeekDevice(d, number) : table[k].owner # d
    <3>1. reply \in {Reply("NoSuchDevice", 0), Reply("ResourceNotInUse", 0)}
      BY <2>1, <2>2 DEF ReleaseDevice
    <3> QED
      BY <1>1, <1>7, <3>1 DEF Reply, Errors, reply
  <2>3. CASE /\ SeekDevice(d, number) # {}
             /\ \A k \in SeekDevice(d, number) : table[k].owner = d
    <3>1. /\ reply.error = "None" /\ reply.value = 1
          /\ reply.owners = [k \in 1 .. Len(table) |-> IF k \in SeekDevice(d, number)
                                                      THEN None ELSE table[k].owner]
      BY <2>1, <2>3 DEF ReleaseDevice
    <3> QED
      BY <1>2, <1>7, <2>3, <3>1 DEF Errors, reply
  <2> QED
    BY <2>2, <2>3
<1> QED
  BY <1>0, <1>3, <1>4, <1>5, <1>6, <1>7 DEF Operations

\* Some of a request has come.
LEMMA ReceivePart ==
  ASSUME IInv, Receive, NEW d, d = Head(todo), link[d].offset + link[d].came < Parts
  PROVE  IInv'
<1>1. /\ UNCHANGED <<running, queue, control, server, listening, backlog, accepted, table, filter,
                     driver, kept>>
      /\ server = "Scan" /\ todo # << >> /\ todo' = Tail(todo) /\ Pending(d)
      /\ link' = [link EXCEPT ![d].offset = @ + link[d].came, ![d].came = 0]
  BY DEF Receive, controlVars
<1>2. /\ d \in Drivers /\ d \in Elems(accepted)
      /\ todo' \in Seq(Drivers) /\ Elems(todo') \subseteq Elems(accepted)
  BY <1>1, TailElems DEF IInv, TypeOK, Connected
<1>3. link[d] \in Links /\ link \in [Drivers -> Links]
  BY <1>2 DEF IInv, TypeOK
<1>4. link[d].offset + link[d].came \in Nat
  BY <1>3 DEF Links
<1>5. /\ link' \in [Drivers -> Links]
      /\ link'[d].came = 0 /\ link'[d].request = link[d].request
      /\ link'[d].reply = link[d].reply /\ link'[d].left = link[d].left
      /\ \A e \in Drivers \ {d} : link'[e] = link[e]
  <2>1. link'[d] = [link[d] EXCEPT !.offset = link[d].offset + link[d].came, !.came = 0]
    BY <1>1, <1>2, <1>3
  <2>2. link'[d] = [request |-> link[d].request, came |-> 0,
                    offset |-> link[d].offset + link[d].came,
                    reply |-> link[d].reply, left |-> link[d].left]
    BY <1>3, <2>1 DEF Links
  <2>3. link'[d] \in Links
    BY <1>3, <1>4, <2>2 DEF Links
  <2>4. /\ link'[d].came = 0 /\ link'[d].request = link[d].request
        /\ link'[d].reply = link[d].reply /\ link'[d].left = link[d].left
    BY <2>2
  <2>5. link' \in [Drivers -> Links] /\ \A e \in Drivers \ {d} : link'[e] = link[e]
    BY <1>1, <1>3, <2>3
  <2> QED
    BY <2>4, <2>5
<1>6. TypeOK' /\ ListensFirst'
  <2>1. TypeOK'
    BY ONLY IInv, <1>1, <1>2, <1>5 DEF IInv, TypeOK
  <2>2. ListensFirst'
    BY ONLY IInv, <1>1 DEF IInv, ListensFirst
  <2> QED
    BY ONLY <2>1, <2>2
<1>7. Connected'
  BY ONLY IInv, <1>1, <1>2, <1>5 DEF IInv, Connected, Waits
<1>8. Asked'
  <2>1. Asked /\ UNCHANGED <<driver, kept>>
    BY ONLY IInv, <1>1 DEF IInv
  <2>2. \A e \in Drivers :
          /\ link'[e].request = link[e].request /\ link'[e].reply = link[e].reply
          /\ link'[e].left = link[e].left
          /\ link'[e].came > 0 => link[e].came > 0
    BY ONLY <1>5
  <2> QED
    BY ONLY <2>1, <2>2 DEF Asked, Waits
<1>9. Filtered'
  BY ONLY IInv, <1>1, <1>5 DEF IInv, Filtered
<1>10. ASSUME NEW e, NEW n PROVE SeekDevice(e, n)' = SeekDevice(e, n)
  <2>1. filter'[e] = filter[e] /\ table' = table
    BY ONLY <1>1
  <2> QED
    BY ONLY <2>1, SameNumbers
<1>11. Numbered'
  <2>1. \A e \in Drivers : link'[e].reply = link[e].reply
    BY ONLY <1>5
  <2>2. \A e \in Drivers : Error(e)' = Error(e)
    BY ONLY <2>1 DEF Error
  <2>3. UNCHANGED <<table, driver, kept>>
    BY ONLY <1>1
  <2> QED
    BY ONLY IInv, <2>1, <2>2, <2>3, <1>10 DEF IInv, Numbered
<1> QED
  BY <1>1, <1>6, <1>7, <1>8, <1>9, <1>11 DEF IInv, TableOK, DriversFindServer

\* All of it has.
LEMMA ReceiveAll ==
  ASSUME IInv, Receive, NEW d, d = Head(todo), ~(link[d].offset + link[d].came < Parts)
  PROVE  IInv'
<1> DEFINE request == link[d].request
           reply == Handle(d, request)
           answer == [error |-> reply.error, value |-> reply.value]
           left == Fatal(request, reply.error)
<1>1. /\ UNCHANGED <<running, control, backlog, accepted, driver, kept>>
      /\ server = "Scan" /\ todo # << >> /\ todo' = Tail(todo) /\ Pending(d)
      /\ listening' = listening \/ (listening' = FALSE /\ server' = "Ended")
      /\ server' = "Ended" => left
      /\ table' = [k \in 1 .. Len(table) |-> [table[k] EXCEPT !.owner = reply.owners[k]]]
      /\ filter' = IF request.op = "SetFilter" THEN [filter EXCEPT ![d] = request.arg] ELSE filter
      /\ link' = [link EXCEPT ![d] = [Idle EXCEPT !.reply = <<answer>>, !.left = left]]
      /\ server' \in {"Ended", "Scan"} /\ queue' \subseteq queue
  BY DEF Receive, End, Exit, controlVars
<1>2. /\ d \in Drivers /\ d \in Elems(accepted)
      /\ todo' \in Seq(Drivers) /\ Elems(todo') \subseteq Elems(accepted)
  BY <1>1, TailElems DEF IInv, TypeOK, Connected
<1>3. link[d] \in Links /\ link \in [Drivers -> Links] /\ request # NoRequest
  BY <1>1, <1>2 DEF IInv, TypeOK, Asked, Pending
<1>4. /\ reply.error \in Errors /\ reply.value \in Nat
      /\ request.op = "GetDevice" /\ reply.error = "None" =>
           reply.value \in SeekDevice(d, request.arg)
      /\ request.op = "ReserveDevice" /\ reply.error = "None" =>
           \A k \in SeekDevice(d, request.arg) : reply.owners[k] = d
      /\ \A k \in 1 .. Len(table) :
           \/ reply.owners[k] = table[k].owner
           \/ table[k].owner = None
           \/ /\ request.op = "ReleaseDevice" /\ table[k].owner = d
              /\ k \in SeekDevice(d, request.arg)
  BY <1>2, <1>3, HandleFacts
<1>5. /\ driver[d].at \in Talking
      /\ request.op = IF driver[d].at = "Ready" THEN "ReleaseDevice" ELSE driver[d].at
      /\ driver[d].at = "SetFilter" => request.arg = Wants[d]
      /\ driver[d].at \in {"GetDevice", "ReserveDevice"} => request.arg = driver[d].i
      /\ driver[d].at = "Ready" => \A p \in kept[d] : p.number # request.arg
      /\ link[d].reply = << >>
  BY <1>2, <1>3 DEF IInv, Asked, Waits
<1> HIDE DEF reply
<1>6. /\ link' \in [Drivers -> Links]
      /\ link'[d].came = 0 /\ link'[d].request = NoRequest
      /\ link'[d].reply # << >> /\ Head(link'[d].reply) = answer
      /\ \A e \in Drivers \ {d} : link'[e] = link[e]
  <2>1. left \in BOOLEAN /\ answer \in [error : Errors, value : Nat]
    BY <1>4 DEF Fatal
  <2> HIDE DEF left, answer
  <2>2. link'[d] = [Idle EXCEPT !.reply = <<answer>>, !.left = left]
    BY <1>1, <1>2, <1>3
  <2>3. NoRequest \in [op : Operations, arg : Args]
    BY DEF NoRequest, Operations, Args
  <2>4. <<answer>> \in Seq([error : Errors, value : Nat])
    BY <2>1
  <2>5. link'[d] = [request |-> NoRequest, came |-> 0, offset |-> 0, reply |-> <<answer>>,
                    left |-> left]
    BY <2>2 DEF Idle
  <2>6. link'[d] \in Links
    BY <2>1, <2>3, <2>4, <2>5 DEF Links
  <2>7. Head(<<answer>>) = answer /\ <<answer>> # << >>
    OBVIOUS
  <2>8. link' \in [Drivers -> Links] /\ \A e \in Drivers \ {d} : link'[e] = link[e]
    BY <1>1, <1>3, <2>6
  <2> QED
    BY <2>5, <2>7, <2>8
<1> HIDE DEF answer, left
<1>7. /\ Len(table') = Len(table) /\ IsSeq(table')
      /\ \A k \in 1 .. Len(table) :
           /\ table'[k].kind = table[k].kind /\ table'[k].owner = reply.owners[k]
           /\ table'[k] = [kind |-> table'[k].kind, bus |-> table'[k].bus,
                           owner |-> table'[k].owner, io |-> table'[k].io]
  <2>1. /\ Len(table) \in Nat
        /\ \A k \in 1 .. Len(table) :
             table[k] = [kind |-> table[k].kind, bus |-> table[k].bus,
                         owner |-> table[k].owner, io |-> table[k].io]
    BY DEF IInv, TableOK, IsSeq
  <2>2. Len(table') = Len(table) /\ IsSeq(table')
    BY <1>1, <2>1 DEF IsSeq
  <2>3. ASSUME NEW k \in 1 .. Len(table)
        PROVE  table'[k] = [kind |-> table[k].kind, bus |-> table[k].bus,
                            owner |-> reply.owners[k], io |-> table[k].io]
    <3>1. table'[k] = [table[k] EXCEPT !.owner = reply.owners[k]]
      BY <1>1
    <3> QED
      BY <2>1, <3>1
  <2>4. ASSUME NEW k \in 1 .. Len(table)
        PROVE  /\ table'[k].kind = table[k].kind /\ table'[k].owner = reply.owners[k]
               /\ table'[k] = [kind |-> table'[k].kind, bus |-> table'[k].bus,
                               owner |-> table'[k].owner, io |-> table'[k].io]
    <3>1. table'[k] = [kind |-> table[k].kind, bus |-> table[k].bus,
                       owner |-> reply.owners[k], io |-> table[k].io]
      BY <2>3
    <3>2. /\ table'[k].kind = table[k].kind /\ table'[k].bus = table[k].bus
          /\ table'[k].owner = reply.owners[k] /\ table'[k].io = table[k].io
      BY ONLY <3>1
    <3> QED
      BY ONLY <3>1, <3>2
  <2> QED
    BY <2>2, <2>4
<1>8. /\ filter' \in [Drivers -> {Any} \cup {Wants[e] : e \in Drivers}]
      /\ \A e \in Drivers : e # d => filter'[e] = filter[e]
      /\ driver[d].at # "SetFilter" => filter'[d] = filter[d]
      /\ driver[d].at = "SetFilter" => filter'[d] = Wants[d]
  BY <1>1, <1>2, <1>5 DEF IInv, TypeOK
\* Only a number that a driver gives back can be none of its numbers.
<1>17. ASSUME server' = "Ended" PROVE driver[d].at \in Told
  <2>1. reply.error = "NoSuchDevice" /\ request.op # "GetDevice"
    BY <1>1, <1>17 DEF Fatal, left
  <2>2. request.op \in {"ReserveDevice", "ReleaseDevice"}
    BY <1>5, <2>1 DEF reply, Handle, Reply, Talking
  <2>3. ASSUME request.op = "ReserveDevice" PROVE FALSE
    <3>1. driver[d].at = "ReserveDevice" /\ request.arg = driver[d].i
      BY <1>5, <2>3
    <3>2. SeekDevice(d, request.arg) # {}
      BY <1>2, <3>1 DEF IInv, Numbered
    <3>3. reply = ReserveDevice(d, request.arg)
      BY <2>3 DEF reply, Handle
    <3> QED
      BY <2>1, <3>2, <3>3 DEF ReserveDevice, Reply
  <2> QED
    BY <1>5, <2>2, <2>3 DEF Told, Talking
<1>9. TypeOK' /\ ListensFirst'
  <2>1. TypeOK'
    BY <1>1, <1>2, <1>6, <1>8 DEF IInv, TypeOK
  <2>2. ListensFirst'
    BY <1>1, <1>2, <1>17 DEF IInv, ListensFirst
  <2> QED
    BY <2>1, <2>2
<1>10. Connected'
  BY <1>1, <1>2, <1>6 DEF IInv, Connected, Waits, Booting
<1>11. Asked'
  BY <1>1, <1>2, <1>5, <1>6 DEF IInv, Asked, Waits
<1>12. Filtered'
  BY <1>1, <1>2, <1>6, <1>8 DEF IInv, Filtered
<1>13. ASSUME NEW e \in Drivers, driver[e].at # "SetFilter", NEW n
       PROVE  SeekDevice(e, n)' = SeekDevice(e, n)
  <2>1. filter'[e] = filter[e]
    BY <1>8, <1>13
  <2>2. Len(table') = Len(table) /\ \A k \in 1 .. Len(table) : table'[k].kind = table[k].kind
    BY ONLY <1>7
  <2> QED
    BY ONLY <2>1, <2>2, SameNumbers
<1>14. TableOK'
  BY <1>7 DEF TableOK
\* A device that a driver has stays its own, but for one that it gives back.
<1>15. ASSUME NEW e \in Drivers, NEW n, NEW k \in SeekDevice(e, n), table[k].owner = e,
              e = d /\ request.op = "ReleaseDevice" => n # request.arg
       PROVE  table'[k].owner = e
  <2>1. k \in 1 .. Len(table) /\ e # None
    BY SeekIsPlace, ControlAssumption DEF Drivers
  <2>2. reply.owners[k] = table[k].owner
    BY <1>4, <1>15, <2>1, NumbersApart
  <2> QED
    BY <1>7, <1>15, <2>1, <2>2
<1>16. Numbered'
  <2> SUFFICES ASSUME NEW e \in Drivers
               PROVE  /\ driver[e].at = "GetDevice" /\ link'[e].reply # << >> /\ Error(e)' = "None" =>
                           Head(link'[e].reply).value \in SeekDevice(e, driver[e].i)'
                      /\ driver[e].at = "ReserveDevice" =>
                           driver[e].device \in SeekDevice(e, driver[e].i)'
                      /\ driver[e].at = "ReserveDevice" /\ link'[e].reply # << >> /\ Error(e)' = "None" =>
                           table'[driver[e].device].owner = e
                      /\ \A p \in kept[e] : p.device \in SeekDevice(e, p.number)'
                                         /\ table'[p.device].owner = e
    BY <1>1 DEF Numbered
  <2>1. driver[e].at = "ReserveDevice" => driver[e].device \in SeekDevice(e, driver[e].i)'
    BY <1>1, <1>13 DEF IInv, Numbered
  <2>2. ASSUME driver[e].at = "GetDevice", link'[e].reply # << >>, Error(e)' = "None"
        PROVE  Head(link'[e].reply).value \in SeekDevice(e, driver[e].i)'
    <3>1. CASE e = d
      BY <1>1, <1>4, <1>5, <1>6, <1>13, <2>2, <3>1 DEF Error, answer
    <3>2. CASE e # d
      BY <1>1, <1>6, <1>13, <2>2, <3>2 DEF IInv, Numbered, Error
    <3> QED
      BY <3>1, <3>2
  <2>3. ASSUME driver[e].at = "ReserveDevice", link'[e].reply # << >>, Error(e)' = "None"
        PROVE  table'[driver[e].device].owner = e
    <3>0. driver[e].device \in SeekDevice(e, driver[e].i)
      BY <2>3 DEF IInv, Numbered
    <3>1. CASE e = d
      <4>1. reply.error = "None" /\ request.op = "ReserveDevice" /\ request.arg = driver[e].i
        BY <1>5, <1>6, <2>3, <3>1 DEF Error, answer
      <4>2. reply.owners[driver[e].device] = d
        BY <1>4, <3>0, <3>1, <4>1
      <4> QED
        BY <1>7, <3>0, <3>1, <4>2, SeekIsPlace
    <3>2. CASE e # d
      <4>1. table[driver[e].device].owner = e
        BY <1>6, <2>3, <3>2 DEF IInv, Numbered, Error
      <4> QED
        BY <1>15, <3>0, <3>2, <4>1
    <3> QED
      BY <3>1, <3>2
  <2>4. ASSUME NEW p \in kept[e]
        PROVE  p.device \in SeekDevice(e, p.number)' /\ table'[p.device].owner = e
    <3>1. p.device \in SeekDevice(e, p.number) /\ table[p.device].owner = e
      BY DEF IInv, Numbered
    <3>2. driver[e].at # "SetFilter"
      BY <2>4 DEF IInv, Connected
    <3>3. e = d /\ request.op = "ReleaseDevice" => p.number # request.arg
      BY <1>5, <2>4 DEF Talking
    <3> QED
      BY <1>13, <1>15, <3>1, <3>2, <3>3
  <2> QED
    BY <2>1, <2>2, <2>3, <2>4
<1> QED
  BY <1>1, <1>9, <1>10, <1>11, <1>12, <1>14, <1>16 DEF IInv, DriversFindServer

LEMMA ReceiveStep == IInv /\ Receive => IInv'
BY ReceivePart, ReceiveAll

-----------------------------------------------------------------------------
(* The drivers *)

\* A driver that does no more than go on.
LEMMA DriverMoves ==
  ASSUME IInv, NEW d \in Drivers, NEW s, ~Waits(d),
         driver' = [driver EXCEPT ![d].at = s], s \in Places,
         s \notin {"SetFilter", "GetDevice", "ReserveDevice"},
         driver[d].at \in Told => s \in Told,
         s = "Refused" => server = "Ended" /\ \E e \in Drivers : driver[e].at \in Told,
         driver[d].at # "SetFilter", backlog # d,
         driver[d].at \in Unconnected <=> s \in Unconnected,
         UNCHANGED <<server, listening, backlog, accepted, todo, table, filter, link, kept>>,
         control' \in [Contexts -> Stages], control'[Pci] = control[Pci],
         queue' \subseteq Contexts, running' = running
  PROVE  IInv'
<1>1. /\ driver' \in [Drivers -> [at : Places, i : Nat, n : Nat, device : Nat]]
      /\ driver'[d].at = s
      /\ \A e \in Drivers \ {d} : driver'[e] = driver[e]
  BY DEF IInv, TypeOK
<1>8. \A e \in Drivers : driver[e].at \in Told => driver'[e].at \in Told
  BY <1>1
<1>2. TypeOK' /\ ListensFirst' /\ DriversFindServer'
  BY <1>1, <1>8 DEF IInv, TypeOK, ListensFirst, DriversFindServer
<1>3. Connected'
  BY <1>1 DEF IInv, Connected, Waits, Unconnected
<1>4. Asked'
  BY <1>1 DEF IInv, Asked, Waits
<1>5. Filtered'
  BY <1>1 DEF IInv, Filtered, Waits, Unconnected
<1>6. ASSUME NEW e, NEW n PROVE SeekDevice(e, n)' = SeekDevice(e, n)
  BY SameNumbers
<1>7. Numbered'
  BY <1>1, <1>6 DEF IInv, Numbered, Error
<1> QED
  BY <1>2, <1>3, <1>4, <1>5, <1>7 DEF IInv, TableOK

LEMMA ConnectStep == IInv /\ (\E d \in Drivers : ConnectToPci(d)) => IInv'
<1> SUFFICES ASSUME IInv, NEW d \in Drivers, ConnectToPci(d) PROVE IInv'
  OBVIOUS
<1>1. /\ UNCHANGED <<running, queue, control, server, listening, backlog, accepted, todo, table,
                     filter, link, kept>>
      /\ Runs(d) /\ driver[d].at = "Start"
  BY DEF ConnectToPci, controlVars, serverVars
<1>2. ~listening => server = "Ended" /\ \E e \in Drivers : driver[e].at \in Told
  BY <1>1 DEF Runs, IInv, ListensFirst, Heard
<1> DEFINE s == IF listening THEN "Connecting" ELSE "Refused"
<1>3. driver' = [driver EXCEPT ![d].at = s]
  BY DEF ConnectToPci
<1>4. ~Waits(d) /\ backlog # d
  BY <1>1 DEF IInv, Connected, Unconnected
<1>5. control' \in [Contexts -> Stages] /\ queue' \subseteq Contexts
  BY <1>1 DEF IInv, TypeOK
<1>6. /\ s \in Places /\ s \notin {"SetFilter", "GetDevice", "ReserveDevice"}
      /\ driver[d].at # "SetFilter" /\ driver[d].at \notin Told
      /\ driver[d].at \in Unconnected <=> s \in Unconnected
      /\ s = "Refused" => ~listening
  BY <1>1 DEF Places, Unconnected, Told
<1> HIDE DEF s
<1> QED
  BY <1>1, <1>2, <1>3, <1>4, <1>5, <1>6, DriverMoves

LEMMA CloseStep == IInv /\ (\E d \in Drivers : CloseConnection(d)) => IInv'
<1> SUFFICES ASSUME IInv, NEW d \in Drivers, CloseConnection(d) PROVE IInv'
  OBVIOUS
<1>1. /\ UNCHANGED <<running, queue, control, server, listening, backlog, accepted, todo, table,
                     filter, link, kept>>
      /\ driver[d].at \in {"Ready", "Done"} /\ ~Waits(d)
      /\ driver' = [driver EXCEPT ![d].at = "Closed"]
  BY DEF CloseConnection, controlVars, serverVars
<1>2. backlog # d
  BY <1>1 DEF IInv, Connected
<1>3. control' \in [Contexts -> Stages] /\ queue' \subseteq Contexts
  BY <1>1 DEF IInv, TypeOK
<1>4. /\ "Closed" \in Places /\ "Closed" \in Told
      /\ "Closed" \notin {"SetFilter", "GetDevice", "ReserveDevice"}
      /\ driver[d].at # "SetFilter"
      /\ driver[d].at \in Unconnected <=> "Closed" \in Unconnected
  BY <1>1 DEF Places, Unconnected, Told
<1> QED
  BY <1>1, <1>2, <1>3, <1>4, DriverMoves

\* What a driver does with its control connection, or its exit.
LEMMA DriverControl ==
  ASSUME IInv, NEW d \in Drivers, ControlConnect(d) \/ Exit(d)
  PROVE  /\ running' = running /\ queue' \subseteq Contexts
         /\ control' \in [Contexts -> Stages] /\ control'[Pci] = control[Pci]
<1>0. /\ queue \subseteq Contexts /\ control \in [Contexts -> Stages]
      /\ d \in Contexts /\ d # Pci /\ Pci \in Contexts
  BY PciAssumption DEF IInv, TypeOK, Drivers
<1>1. CASE ControlConnect(d)
  BY <1>0, <1>1 DEF ControlConnect, Stages
<1>2. CASE Exit(d)
  BY <1>0, <1>2 DEF Exit
<1> QED
  BY <1>1, <1>2

LEMMA RegisterStep == IInv /\ (\E d \in Drivers : RegisterCards(d)) => IInv'
<1> SUFFICES ASSUME IInv, NEW d \in Drivers, RegisterCards(d) PROVE IInv'
  OBVIOUS
<1>1. /\ UNCHANGED <<server, listening, backlog, accepted, todo, table, filter, link, kept>>
      /\ driver[d].at = "Closed"
  BY DEF RegisterCards, serverVars
<1>2. backlog # d /\ ~Waits(d)
  BY <1>1 DEF IInv, Connected, Asked, Talking
<1>3. CASE UNCHANGED controlVars /\ driver' = [driver EXCEPT ![d].at = "Serving"]
  <2>1. /\ running' = running /\ queue' \subseteq Contexts
        /\ control' \in [Contexts -> Stages] /\ control'[Pci] = control[Pci]
    BY <1>3 DEF controlVars, IInv, TypeOK
  <2>2. /\ "Serving" \in Places /\ "Serving" \in Told
        /\ "Serving" \notin {"SetFilter", "GetDevice", "ReserveDevice"}
        /\ driver[d].at # "SetFilter"
        /\ driver[d].at \in Unconnected <=> "Serving" \in Unconnected
    BY <1>1 DEF Places, Unconnected, Told
  <2> QED
    BY <1>1, <1>2, <1>3, <2>1, <2>2, DriverMoves
<1>4. CASE Exit(d) /\ UNCHANGED driver
  <2>1. TypeOK' /\ ListensFirst'
    BY <1>1, <1>4, DriverControl DEF IInv, TypeOK, ListensFirst
  <2>2. Connected'
    BY <1>1, <1>4 DEF IInv, Connected, Waits
  <2> QED
    BY <1>1, <1>4, <2>1, <2>2, Frame DEF IInv
<1> QED
  BY <1>3, <1>4 DEF RegisterCards

LEMMA DriverControlStep == IInv /\ (\E d \in Drivers : ControlFromDriver(d)) => IInv'
<1> SUFFICES ASSUME IInv, NEW d \in Drivers, ControlFromDriver(d) PROVE IInv'
  OBVIOUS
<1>1. /\ UNCHANGED <<server, listening, backlog, accepted, todo, table, filter, link, driver, kept>>
      /\ ControlConnect(d) \/ Exit(d)
  BY DEF ControlFromDriver, serverVars, driverVars
<1>2. TypeOK' /\ ListensFirst'
  BY <1>1, DriverControl DEF IInv, TypeOK, ListensFirst
<1>3. Connected'
  BY <1>1 DEF IInv, Connected, Waits
<1> QED
  BY <1>1, <1>2, <1>3, Frame DEF IInv

LEMMA AskStep == IInv /\ (\E d \in Drivers : Ask(d)) => IInv'
<1> SUFFICES ASSUME IInv, NEW d \in Drivers, Ask(d) PROVE IInv'
  OBVIOUS
<1>1. /\ UNCHANGED <<running, queue, control, server, listening, backlog, accepted, todo, table,
                     filter, driver>>
      /\ ~Waits(d)
  BY DEF Ask, controlVars, serverVars
<1>2. PICK request :
        /\ link' = [link EXCEPT ![d].request = request]
        /\ kept' = IF request.op = "ReleaseDevice"
                   THEN [kept EXCEPT ![d] = {p \in @ : p.number # request.arg}] ELSE kept
        /\ \/ /\ driver[d].at = "SetFilter"
              /\ request = [op |-> "SetFilter", arg |-> Wants[d]]
           \/ /\ driver[d].at = "GetNumDevices"
              /\ request = [op |-> "GetNumDevices", arg |-> 0]
           \/ /\ driver[d].at \in {"GetDevice", "ReserveDevice"}
              /\ request = [op |-> driver[d].at, arg |-> driver[d].i]
           \/ /\ driver[d].at = "Ready"
              /\ request.arg \in 0 .. driver[d].n
              /\ request = [op |-> "ReleaseDevice", arg |-> request.arg]
  <2>1. CASE driver[d].at = "SetFilter"
    BY <2>1 DEF Ask
  <2>2. CASE driver[d].at = "GetNumDevices"
    BY <2>2 DEF Ask
  <2>3. CASE driver[d].at \in {"GetDevice", "ReserveDevice"}
    BY <2>3 DEF Ask
  <2>4. CASE driver[d].at = "Ready"
    <3>1. PICK request \in {[op |-> "ReleaseDevice", arg |-> number] : number \in 0 .. driver[d].n} :
            /\ link' = [link EXCEPT ![d].request = request]
            /\ kept' = IF request.op = "ReleaseDevice"
                       THEN [kept EXCEPT ![d] = {p \in @ : p.number # request.arg}] ELSE kept
      BY <2>4 DEF Ask
    <3>2. /\ request.arg \in 0 .. driver[d].n
          /\ request = [op |-> "ReleaseDevice", arg |-> request.arg]
      BY <3>1
    <3> QED
      BY <2>4, <3>1, <3>2
  <2>5. CASE driver[d].at \notin Talking
    BY <2>5 DEF Ask, Talking
  <2> QED
    BY <2>1, <2>2, <2>3, <2>4, <2>5 DEF Talking
<1>3. /\ driver[d] \in [at : Places, i : Nat, n : Nat, device : Nat]
      /\ link[d] \in Links /\ link \in [Drivers -> Links]
      /\ kept \in [Drivers -> SUBSET [number : Nat, device : Nat]]
  BY DEF IInv, TypeOK
<1>4. /\ request \in [op : Operations, arg : Args] /\ request # NoRequest
      /\ driver[d].at \in Talking
      /\ request.op = IF driver[d].at = "Ready" THEN "ReleaseDevice" ELSE driver[d].at
      /\ driver[d].at = "SetFilter" => request.arg = Wants[d]
      /\ driver[d].at \in {"GetDevice", "ReserveDevice"} => request.arg = driver[d].i
  BY <1>2, <1>3 DEF Operations, Args, NoRequest, Talking
<1>5. /\ link' \in [Drivers -> Links]
      /\ link'[d].request = request /\ link'[d].came = link[d].came
      /\ link'[d].reply = link[d].reply /\ link'[d].left = link[d].left
      /\ \A e \in Drivers \ {d} : link'[e] = link[e]
  <2>1. link'[d] = [link[d] EXCEPT !.request = request]
    BY <1>2, <1>3
  <2>2. link'[d] \in Links
    BY <1>3, <1>4, <2>1 DEF Links
  <2>3. /\ link'[d].request = request /\ link'[d].came = link[d].came
        /\ link'[d].reply = link[d].reply /\ link'[d].left = link[d].left
    BY <1>3, <2>1 DEF Links
  <2> QED
    BY <1>2, <1>3, <2>2, <2>3
<1>6. /\ kept' \in [Drivers -> SUBSET [number : Nat, device : Nat]]
      /\ \A e \in Drivers : kept'[e] \subseteq kept[e]
      /\ request.op = "ReleaseDevice" => \A p \in kept'[d] : p.number # request.arg
  BY <1>2, <1>3
<1>7. TypeOK' /\ ListensFirst' /\ DriversFindServer'
  BY <1>1, <1>5, <1>6 DEF IInv, TypeOK, ListensFirst, DriversFindServer
<1>8. Connected'
  BY <1>1, <1>4, <1>5, <1>6 DEF IInv, Connected, Waits, Unconnected, Talking
<1>9. Asked'
  BY <1>1, <1>4, <1>5, <1>6 DEF IInv, Asked, Waits
<1>10. Filtered'
  BY <1>1, <1>5 DEF IInv, Filtered
<1>11. ASSUME NEW e, NEW n PROVE SeekDevice(e, n)' = SeekDevice(e, n)
  BY <1>1, SameNumbers
<1>12. Numbered'
  BY <1>1, <1>5, <1>6, <1>11 DEF IInv, Numbered, Error
<1> QED
  BY <1>1, <1>7, <1>8, <1>9, <1>10, <1>12 DEF IInv, TableOK

LEMMA AnsweredStep == IInv /\ (\E d \in Drivers : Answered(d)) => IInv'
<1> SUFFICES ASSUME IInv, NEW d \in Drivers, Answered(d) PROVE IInv'
  OBVIOUS
<1> DEFINE reply == Head(link[d].reply)
<1>1. /\ UNCHANGED <<running, queue, control, server, listening, backlog, accepted, todo, table,
                     filter>>
      /\ link[d].left
  BY DEF Answered, controlVars, serverVars
<1>20. /\ link' = [link EXCEPT ![d] = Idle]
      /\ kept' = IF driver[d].at = "ReserveDevice" /\ reply.error = "None"
                 THEN [kept EXCEPT ![d] = @ \cup {[number |-> driver[d].i,
                                                  device |-> driver[d].device]}]
                 ELSE kept
  BY DEF Answered
<1>2. PICK s \in Continue(driver[d], reply) : driver' = [driver EXCEPT ![d] = s]
  BY DEF Answered
<1> HIDE DEF reply
<1>3. /\ driver[d] \in [at : Places, i : Nat, n : Nat, device : Nat]
      /\ driver \in [Drivers -> [at : Places, i : Nat, n : Nat, device : Nat]]
      /\ link[d].reply \in Seq([error : Errors, value : Nat]) /\ link \in [Drivers -> Links]
      /\ kept \in [Drivers -> SUBSET [number : Nat, device : Nat]]
  BY DEF IInv, TypeOK, Links
<1>4. /\ link[d].reply # << >> /\ driver[d].at \in Talking /\ backlog # d
      /\ filter[d] = Wants[d]
  <2>1. link[d].reply # << >>
    BY <1>1 DEF IInv, Asked
  <2>2. driver[d].at \in Talking
    BY <2>1 DEF IInv, Asked, Waits
  <2>3. backlog # d
    BY <2>1 DEF IInv, Connected
  <2>4. filter[d] = Wants[d]
    BY <2>1, <2>2 DEF IInv, Filtered, Talking, Unconnected
  <2> QED
    BY <2>1, <2>2, <2>3, <2>4
<1>5. reply \in [error : Errors, value : Nat]
  BY <1>3, <1>4, TailElems DEF reply
<1>6. /\ s \in [at : Places, i : Nat, n : Nat, device : Nat]
      /\ s.at \in (Talking \ {"SetFilter"}) \cup {"Done"}
      /\ driver[d].at \in Told => s.at \in Told
      /\ s.at = "ReserveDevice" => /\ driver[d].at = "GetDevice" /\ reply.error = "None"
                                   /\ s.device = reply.value /\ s.i = driver[d].i
  <2>1. CASE driver[d].at = "SetFilter"
    <3>1. s = [driver[d] EXCEPT !.at = "GetNumDevices"]
      BY <1>2, <2>1 DEF Continue
    <3> QED
      BY <1>3, <2>1, <3>1 DEF Places, Talking, Told
  <2>2. CASE driver[d].at = "GetNumDevices"
    <3> DEFINE n == IF reply.value > MaxCards THEN MaxCards ELSE reply.value
    <3>1. s = [driver[d] EXCEPT !.n = n, !.at = IF n = 0 THEN "Ready" ELSE "GetDevice"]
      BY <1>2, <2>2 DEF Continue
    <3>2. n \in Nat
      BY <1>5, PciAssumption
    <3> HIDE DEF n
    <3> QED
      BY <1>3, <2>2, <3>1, <3>2 DEF Places, Talking, Told
  <2>3. ASSUME s = NextDevice(driver[d])
        PROVE  /\ s \in [at : Places, i : Nat, n : Nat, device : Nat]
               /\ s.at \in {"GetDevice", "Ready"}
    <3> DEFINE at == IF driver[d].i + 1 < driver[d].n THEN "GetDevice" ELSE "Ready"
               i == driver[d].i + 1
    <3>1. s = [driver[d] EXCEPT !.i = i, !.at = at]
      BY <2>3 DEF NextDevice
    <3>2. i \in Nat /\ at \in {"GetDevice", "Ready"}
      BY <1>3
    <3> HIDE DEF i, at
    <3>3. s = [at |-> at, i |-> i, n |-> driver[d].n, device |-> driver[d].device]
      BY <1>3, <3>1
    <3>4. at \in Places
      BY <3>2 DEF Places, Talking, Told
    <3> QED
      BY <1>3, <3>2, <3>3, <3>4
  <2>4. CASE driver[d].at = "GetDevice"
    <3>1. \/ s = [driver[d] EXCEPT !.at = "Ready"]
          \/ /\ s = [driver[d] EXCEPT !.at = "ReserveDevice", !.device = reply.value]
             /\ reply.error = "None"
          \/ s = NextDevice(driver[d])
      BY <1>2, <2>4 DEF Continue
    <3>2. CASE s = [driver[d] EXCEPT !.at = "Ready"]
      BY <1>3, <3>2 DEF Places, Talking, Told
    <3>3. CASE /\ s = [driver[d] EXCEPT !.at = "ReserveDevice", !.device = reply.value]
               /\ reply.error = "None"
      BY <1>3, <1>5, <2>4, <3>3 DEF Places, Talking, Told
    <3>4. CASE s = NextDevice(driver[d])
      BY <2>3, <2>4, <3>4 DEF Talking, Told
    <3> QED
      BY <3>1, <3>2, <3>3, <3>4
  <2>5. CASE driver[d].at = "ReserveDevice"
    <3>1. s = NextDevice(driver[d])
      BY <1>2, <2>5 DEF Continue
    <3> QED
      BY <2>3, <2>5, <3>1 DEF Talking, Told
  <2>6. CASE driver[d].at = "Ready"
    <3>1. s = [driver[d] EXCEPT !.at = "Done"]
      BY <1>2, <2>6 DEF Continue
    <3> QED
      BY <1>3, <3>1 DEF Places, Told
  <2> QED
    BY <1>4, <2>1, <2>2, <2>4, <2>5, <2>6 DEF Talking
<1>7. /\ driver' \in [Drivers -> [at : Places, i : Nat, n : Nat, device : Nat]]
      /\ driver'[d] = s /\ \A e \in Drivers \ {d} : driver'[e] = driver[e]
  BY <1>2, <1>3, <1>6
<1>8. /\ link' \in [Drivers -> Links]
      /\ link'[d] = Idle /\ \A e \in Drivers \ {d} : link'[e] = link[e]
  BY <1>3, <1>20, IdleIsLink
<1>9. /\ link'[d].request = NoRequest /\ link'[d].came = 0 /\ link'[d].reply = << >>
      /\ ~link'[d].left
  BY <1>8 DEF Idle
<1>10. /\ kept' \in [Drivers -> SUBSET [number : Nat, device : Nat]]
       /\ \A e \in Drivers \ {d} : kept'[e] = kept[e]
       /\ \A p \in kept'[d] :
            \/ p \in kept[d]
            \/ /\ driver[d].at = "ReserveDevice" /\ reply.error = "None"
               /\ p.number = driver[d].i /\ p.device = driver[d].device
  <2>1. [number |-> driver[d].i, device |-> driver[d].device] \in [number : Nat, device : Nat]
    BY <1>3
  <2> QED
    BY <1>3, <1>20, <2>1
<1>11. TypeOK' /\ ListensFirst' /\ DriversFindServer'
  <2>1. driver'[d].at # "Refused"
    BY <1>6, <1>7 DEF Talking
  <2>2. \A e \in Drivers : driver[e].at \in Told => driver'[e].at \in Told
    BY <1>6, <1>7
  <2> QED
    BY <1>1, <1>7, <1>8, <1>10, <2>1, <2>2 DEF IInv, TypeOK, ListensFirst, DriversFindServer
<1>12. s.at \notin Unconnected \cup {"SetFilter"} /\ driver[d].at \notin Unconnected
  BY <1>4, <1>6 DEF Talking, Unconnected
<1>13. Connected'
  <2>1. server' \notin Booting
    BY <1>1, <1>12 DEF IInv, Connected
  <2>2. ASSUME NEW e \in Drivers
        PROVE  /\ driver'[e].at \in Unconnected => ~Waits(e)' /\ e \notin Elems(accepted)
               /\ driver'[e].at \in Unconnected \cup {"SetFilter"} => kept'[e] = {}
               /\ backlog = e => driver'[e].at = "SetFilter" /\ link'[e].reply = << >>
                                  /\ e \notin Elems(accepted)
    <3>1. CASE e = d
      BY <1>4, <1>7, <1>12, <3>1
    <3>2. CASE e # d
      BY <1>7, <1>8, <1>10, <3>2 DEF IInv, Connected, Waits
    <3> QED
      BY <3>1, <3>2
  <2>3. Elems(todo') \subseteq Elems(accepted')
    BY <1>1 DEF IInv, Connected
  <2> QED
    BY <1>1, <2>1, <2>2, <2>3 DEF Connected
<1>14. Asked'
  <2> SUFFICES ASSUME NEW e \in Drivers
               PROVE  /\ link'[e].came > 0 => link'[e].request # NoRequest
                      /\ link'[e].left => link'[e].reply # << >>
                      /\ Waits(e)' => driver'[e].at \in Talking
                      /\ link'[e].request # NoRequest =>
                           /\ link'[e].reply = << >>
                           /\ link'[e].request.op =
                                IF driver'[e].at = "Ready" THEN "ReleaseDevice" ELSE driver'[e].at
                           /\ driver'[e].at = "SetFilter" => link'[e].request.arg = Wants[e]
                           /\ driver'[e].at \in {"GetDevice", "ReserveDevice"} =>
                                link'[e].request.arg = driver'[e].i
                           /\ driver'[e].at = "Ready" =>
                                \A p \in kept'[e] : p.number # link'[e].request.arg
    BY DEF Asked
  <2>1. CASE e = d
    BY <1>9, <2>1 DEF Waits
  <2>2. CASE e # d
    <3>1. driver'[e] = driver[e] /\ link'[e] = link[e] /\ kept'[e] = kept[e]
      BY <1>7, <1>8, <1>10, <2>2
    <3>2. Waits(e)' <=> Waits(e)
      BY <3>1 DEF Waits
    <3> QED
      BY <3>1, <3>2 DEF IInv, Asked
  <2> QED
    BY <2>1, <2>2
<1>15. Filtered'
  BY <1>1, <1>4, <1>7, <1>8 DEF IInv, Filtered
<1>16. ASSUME NEW e, NEW n PROVE SeekDevice(e, n)' = SeekDevice(e, n)
  BY <1>1, SameNumbers
<1>17. Numbered'
  <2> SUFFICES ASSUME NEW e \in Drivers
               PROVE  /\ driver'[e].at = "GetDevice" /\ link'[e].reply # << >> /\ Error(e)' = "None" =>
                           Head(link'[e].reply).value \in SeekDevice(e, driver'[e].i)
                      /\ driver'[e].at = "ReserveDevice" =>
                           driver'[e].device \in SeekDevice(e, driver'[e].i)
                      /\ driver'[e].at = "ReserveDevice" /\ link'[e].reply # << >> /\ Error(e)' = "None" =>
                           table[driver'[e].device].owner = e
                      /\ \A p \in kept'[e] : p.device \in SeekDevice(e, p.number)
                                          /\ table[p.device].owner = e
    BY <1>1, <1>16 DEF Numbered
  <2>1. CASE e # d
    <3>1. driver'[e] = driver[e] /\ link'[e] = link[e] /\ kept'[e] = kept[e]
      BY <1>7, <1>8, <1>10, <2>1
    <3> QED
      BY <3>1 DEF IInv, Numbered, Error
  <2>2. CASE e = d
    <3>1. s.at = "ReserveDevice" => s.device \in SeekDevice(d, s.i)
      BY <1>4, <1>6 DEF IInv, Numbered, Error, reply
    <3>2. ASSUME NEW p \in kept'[d]
          PROVE  p.device \in SeekDevice(d, p.number) /\ table[p.device].owner = d
      BY <1>4, <1>10 DEF IInv, Numbered, Error, reply
    <3> QED
      BY <1>7, <1>9, <2>2, <3>1, <3>2
  <2> QED
    BY <2>1, <2>2
<1> QED
  BY <1>1, <1>11, <1>13, <1>14, <1>15, <1>17 DEF IInv, TableOK

-----------------------------------------------------------------------------
(* All steps *)

LEMMA NextIInv == IInv /\ [Next]_vars => IInv'
<1> SUFFICES ASSUME IInv, [Next]_vars PROVE IInv'
  OBVIOUS
<1>1. CASE Boot
  BY <1>1, ListenStep, ProbeStep, ReportStep DEF Boot
<1>2. CASE Serve
  BY <1>2, AcceptStep, LoopStep, ReceiveStep, SendRepliesStep DEF Serve
<1>3. CASE Scheduler
  BY <1>3, SchedulerStep
<1>4. CASE \E d \in Drivers :
             \/ Establish(d) \/ Arrive(d)
             \/ ConnectToPci(d) \/ Ask(d) \/ Answered(d) \/ CloseConnection(d)
             \/ RegisterCards(d) \/ ControlFromDriver(d)
  BY <1>4, EstablishStep, ArriveStep, ConnectStep, AskStep, AnsweredStep, CloseStep,
     RegisterStep, DriverControlStep
<1>5. CASE UNCHANGED vars
  <2>1. UNCHANGED <<queue, running, control, server, table, listening, backlog, accepted, todo,
                    filter, link, driver, kept>>
    BY <1>5 DEF vars, controlVars, serverVars, driverVars
  <2>2. TypeOK' /\ ListensFirst'
    BY <2>1 DEF IInv, TypeOK, ListensFirst
  <2>3. Connected'
    BY <2>1 DEF IInv, Connected, Waits
  <2> QED
    BY <2>1, <2>2, <2>3, Frame DEF IInv
<1> QED
  BY <1>1, <1>2, <1>3, <1>4, <1>5 DEF Next

-----------------------------------------------------------------------------
\* A nonempty set of naturals has a least element.
LEMMA Least ==
  ASSUME NEW S \in SUBSET Nat, S # {}
  PROVE  \E m \in S : \A k \in S : m <= k
<1>1. PICK m \in S : \A k \in S : ~(<<k, m>> \in OpToRel(<, Nat))
  BY NatLessThanWellFounded, WFMin, Zenon
<1>2. \A k \in S : ~(k < m)
  BY <1>1 DEF OpToRel
<1> QED
  BY <1>2

\* A set of naturals that has 0 and with every number the next has them all.
LEMMA Induction ==
  ASSUME NEW S \in SUBSET Nat, 0 \in S, \A n \in S : n + 1 \in S
  PROVE  S = Nat
<1>1. SUFFICES ASSUME Nat \ S # {}
               PROVE  FALSE
  OBVIOUS
<1>2. PICK m \in Nat \ S : \A k \in Nat \ S : m <= k
  BY <1>1, Least
<1>3. m # 0 /\ m - 1 \in Nat /\ ~(m <= m - 1)
  BY <1>2
<1>4. m - 1 \in S
  BY <1>2, <1>3
<1>5. m - 1 + 1 \in S
  BY <1>4
<1> QED
  BY <1>2, <1>5

-----------------------------------------------------------------------------
(* Where the windows of a device come to lie *)

Sized == Seq(Nat \ {0})

\* A multiple of n has no remainder.
LEMMA MultipleOf ==
  ASSUME NEW q \in Int, NEW n \in Nat \ {0}, NEW x \in Nat, x = n * q
  PROVE  x % n = 0
<1>1. x % n \in 0 .. n - 1 /\ x = n * (x \div n) + (x % n) /\ x \div n \in Int
  OBVIOUS
<1> DEFINE k == q - (x \div n)
           r == x % n
<1>2. k \in Int /\ r \in 0 .. n - 1 /\ r = n * k
  BY <1>1
<1> HIDE DEF k, r
<1>3. k >= 1 => n * k >= n
  BY <1>2
<1>4. k <= -1 => n * k <= -n
  BY <1>2
<1>5. k = 0
  BY <1>2, <1>3, <1>4
<1>6. r = 0
  BY <1>2, <1>5
<1> QED
  BY <1>6 DEF r

\* RoundUp goes up, to a multiple of the size.
LEMMA RoundUpIs ==
  ASSUME NEW a \in Nat, NEW size \in Nat \ {0}
  PROVE  RoundUp(a, size) \in Nat /\ RoundUp(a, size) >= a /\ RoundUp(a, size) % size = 0
<1>1. a % size \in 0 .. size - 1 /\ a = size * (a \div size) + (a % size) /\ a \div size \in Int
  OBVIOUS
<1>2. CASE a % size = 0
  BY <1>2 DEF RoundUp
<1>3. CASE a % size # 0
  <2> DEFINE x == a + (size - (a % size))
             q == a \div size
  <2>1. RoundUp(a, size) = x
    BY <1>3 DEF RoundUp
  <2>2. x \in Nat /\ x >= a /\ q \in Int /\ x = size * q + size
    BY <1>1
  <2> HIDE DEF x, q
  <2>3. x = size * (q + 1) /\ q + 1 \in Int
    BY <2>2
  <2>4. x % size = 0
    BY <2>2, <2>3, MultipleOf
  <2> QED
    BY <2>1, <2>2, <2>4
<1> QED
  BY <1>2, <1>3

Wins == [base : Nat, size : Nat, next : Nat, carry : BOOLEAN]

\* The next window, which is where it seems to be unless it passes 32 bits.
LEMMA WindowIsBehind ==
  ASSUME NEW from \in Nat, NEW size \in Nat \ {0}
  PROVE  LET w == Window(from, size)
         IN  /\ w \in Wins
             /\ ~w.carry => /\ w.base >= from /\ w.base % size = 0
                            /\ w.next = w.base + size
<1> DEFINE r == RoundUp(from, size)
           w == Window(from, size)
<1>1. r \in Nat /\ r >= from /\ r % size = 0 /\ Word \in Nat \ {0}
  BY RoundUpIs, PciAssumption
<1>2. w = [base |-> r % Word, size |-> size, next |-> ((r % Word) + size) % Word,
           carry |-> r + size >= Word]
  BY DEF Window
<1> HIDE DEF r, w
<1>3. r % Word \in Nat /\ ((r % Word) + size) % Word \in Nat
  BY <1>1
<1>4. w \in Wins
  BY <1>2, <1>3 DEF Wins
<1>5. ASSUME ~w.carry PROVE w.base >= from /\ w.base % size = 0 /\ w.next = w.base + size
  <2>0. ~(r + size >= Word)
    BY ONLY <1>2, <1>5, Zenon
  <2>1. r + size < Word
    BY <1>1, <2>0
  <2>2. r % Word = r /\ (r + size) % Word = r + size
    BY <1>1, <2>1
  <2> QED
    BY <1>1, <1>2, <2>2
<1> QED
  BY <1>4, <1>5 DEF w

\* f gives the first n windows.
From(from, f, k) == IF k = 1 THEN from ELSE f[k - 1].next
Lies(sizes, from, n, f) ==
  f = [k \in 1 .. n |-> Window(From(from, f, k), sizes[k])]

\* There is such a function, by induction on the first n windows.
LEMMA WindowsExist ==
  ASSUME NEW sizes \in Sized, NEW from \in Nat
  PROVE  \E f \in [1 .. Len(sizes) -> Wins] : Lies(sizes, from, Len(sizes), f)
<1> DEFINE P(n) == \E f \in [1 .. n -> Wins] : Lies(sizes, from, n, f)
           S == {n \in Nat : n <= Len(sizes) => P(n)}
<1>0. Len(sizes) \in Nat /\ \A k \in 1 .. Len(sizes) : sizes[k] \in Nat \ {0}
  BY DEF Sized
<1>1. 0 \in S
  <2> DEFINE f == [k \in 1 .. 0 |-> 0]
  <2>1. f \in [1 .. 0 -> Wins]
    OBVIOUS
  <2>2. f = [k \in 1 .. 0 |-> Window(From(from, f, k), sizes[k])]
    OBVIOUS
  <2>3. Lies(sizes, from, 0, f)
    BY <2>2 DEF Lies
  <2> QED
    BY <2>1, <2>3
<1>2. ASSUME NEW n \in S
      PROVE  n + 1 \in S
  <2>1. n \in Nat /\ n + 1 \in Nat
    OBVIOUS
  <2>2. SUFFICES ASSUME n + 1 <= Len(sizes)
                 PROVE  P(n + 1)
    BY <2>1
  <2>3. PICK f \in [1 .. n -> Wins] : Lies(sizes, from, n, f)
    <3>1. n <= Len(sizes)
      BY <1>0, <2>1, <2>2
    <3>2. P(n)
      BY <3>1
    <3> QED
      BY <3>2
  <2> DEFINE last == Window(From(from, f, n + 1), sizes[n + 1])
             g == [k \in 1 .. n + 1 |-> IF k = n + 1 THEN last ELSE f[k]]
  <2>4. sizes[n + 1] \in Nat \ {0}
    BY <1>0, <2>1, <2>2
  <2>5. From(from, f, n + 1) \in Nat
    <3>1. CASE n = 0
      BY <3>1 DEF From
    <3>2. CASE n # 0
      <4>1. n \in 1 .. n /\ n + 1 # 1 /\ n + 1 - 1 = n
        BY <2>1, <3>2
      <4>2. f[n] \in Wins
        BY <4>1
      <4>3. f[n].next \in Nat
        BY <4>2 DEF Wins
      <4> QED
        BY <4>1, <4>3 DEF From
    <3> QED
      BY <3>1, <3>2
  <2>6. last \in Wins
    BY <2>4, <2>5, WindowIsBehind
  <2> HIDE DEF last
  <2>7. \A k \in 1 .. n + 1 : k = n + 1 \/ (k \in 1 .. n /\ k # n + 1)
    BY <2>1
  <2>8. g \in [1 .. n + 1 -> Wins]
    BY <2>6, <2>7
  <2>9. ASSUME NEW k \in 1 .. n + 1
        PROVE  From(from, g, k) = From(from, f, k)
    <3>1. CASE k = 1
      BY <3>1 DEF From
    <3>2. CASE k # 1
      <4>1. k - 1 \in 1 .. n + 1 /\ k - 1 # n + 1
        BY <2>1, <3>2
      <4>2. g[k - 1] = f[k - 1]
        BY <4>1
      <4> HIDE DEF g
      <4> QED
        BY <3>2, <4>2 DEF From
    <3> QED
      BY <3>1, <3>2
  <2>10. ASSUME NEW k \in 1 .. n + 1
         PROVE  g[k] = Window(From(from, g, k), sizes[k])
    <3>1. CASE k = n + 1
      <4>1. g[k] = last
        BY <3>1
      <4> HIDE DEF g
      <4> QED
        BY <2>9, <3>1, <4>1 DEF last
    <3>2. CASE k # n + 1
      <4>1. k \in 1 .. n /\ g[k] = f[k]
        BY <2>7, <3>2
      <4> HIDE DEF g
      <4>2. f[k] = Window(From(from, f, k), sizes[k])
        BY <2>3, <4>1 DEF Lies
      <4> QED
        BY <2>9, <4>1, <4>2
    <3> QED
      BY <3>1, <3>2
  <2>11. Lies(sizes, from, n + 1, g)
    <3> HIDE DEF g
    <3> QED
      BY <2>8, <2>10 DEF Lies
  <2> QED
    BY <2>8, <2>11
<1>3. S \in SUBSET Nat
  OBVIOUS
<1> HIDE DEF S
<1>4. S = Nat
  BY <1>1, <1>2, <1>3, Induction
<1>5. Len(sizes) \in S
  BY <1>0, <1>4
<1> HIDE DEF P
<1>6. P(Len(sizes))
  BY <1>0, <1>5 DEF S
<1> QED
  BY <1>6 DEF P

\* What Assign computes satisfies its equations.
LEMMA AssignLies ==
  ASSUME NEW sizes \in Sized, NEW from \in Nat
  PROVE  Lies(sizes, from, Len(sizes), Assign(sizes, from))
<1> DEFINE Eq(f) ==
      f = [k \in 1 .. Len(sizes) |->
             Window(IF k = 1 THEN from ELSE f[k - 1].next, sizes[k])]
<1>1. \E f : Eq(f)
  <2>1. PICK f : Lies(sizes, from, Len(sizes), f)
    BY WindowsExist
  <2>2. Eq(f)
    BY <2>1 DEF Lies, From
  <2> QED
    BY <2>2
<1>2. Eq(CHOOSE f : Eq(f))
  BY <1>1
<1>3. Assign(sizes, from) = CHOOSE f : Eq(f)
  BY DEF Assign
<1>4. Eq(Assign(sizes, from))
  BY <1>2, <1>3
<1> QED
  BY <1>4 DEF Lies, From

\* Each window is one, and follows from the one before.
LEMMA AssignIs ==
  ASSUME NEW sizes \in Sized, NEW from \in Nat
  PROVE  \A k \in 1 .. Len(sizes) :
           /\ Assign(sizes, from)[k] \in Wins
           /\ From(from, Assign(sizes, from), k) \in Nat
           /\ Assign(sizes, from)[k] = Window(From(from, Assign(sizes, from), k), sizes[k])
<1> DEFINE A == Assign(sizes, from)
           Good(k) == A[k] \in Wins /\ From(from, A, k) \in Nat
           S == {n \in Nat : n <= Len(sizes) => \A k \in 1 .. n : Good(k)}
<1>0. /\ Len(sizes) \in Nat /\ \A k \in 1 .. Len(sizes) : sizes[k] \in Nat \ {0}
      /\ \A k \in 1 .. Len(sizes) : A[k] = Window(From(from, A, k), sizes[k])
  <2>1. Lies(sizes, from, Len(sizes), A)
    BY AssignLies
  <2> HIDE DEF A
  <2>2. Len(sizes) \in Nat /\ \A k \in 1 .. Len(sizes) : sizes[k] \in Nat \ {0}
    BY DEF Sized
  <2> DEFINE E(k) == Window(From(from, A, k), sizes[k])
  <2>3. A = [k \in 1 .. Len(sizes) |-> E(k)]
    BY <2>1 DEF Lies
  <2> HIDE DEF E
  <2>4. \A k \in 1 .. Len(sizes) : A[k] = E(k)
    BY <2>3
  <2> QED
    BY <2>2, <2>4 DEF E
<1> HIDE DEF A
<1>1. 0 \in S
  OBVIOUS
<1>2. ASSUME NEW n \in S
      PROVE  n + 1 \in S
  <2>1. n \in Nat /\ n + 1 \in Nat
    OBVIOUS
  <2>2. SUFFICES ASSUME n + 1 <= Len(sizes)
                 PROVE  \A k \in 1 .. n + 1 : Good(k)
    BY <2>1
  <2>3. \A k \in 1 .. n : Good(k)
    BY <1>0, <2>1, <2>2
  <2>4. From(from, A, n + 1) \in Nat
    <3>1. CASE n = 0
      BY <3>1 DEF From
    <3>2. CASE n # 0
      <4>1. n \in 1 .. n /\ n + 1 # 1 /\ n + 1 - 1 = n
        BY <2>1, <3>2
      <4>2. A[n] \in Wins
        BY <2>3, <4>1
      <4>3. A[n].next \in Nat
        BY <4>2 DEF Wins
      <4> QED
        BY <4>1, <4>3 DEF From
    <3> QED
      BY <3>1, <3>2
  <2>5. A[n + 1] \in Wins
    <3>1. n + 1 \in 1 .. Len(sizes)
      BY <1>0, <2>1, <2>2
    <3> QED
      BY <1>0, <2>4, <3>1, WindowIsBehind
  <2>6. \A k \in 1 .. n + 1 : k = n + 1 \/ k \in 1 .. n
    BY <2>1
  <2>7. Good(n + 1)
    BY <2>4, <2>5
  <2> HIDE DEF Good
  <2> QED
    BY <2>3, <2>6, <2>7
<1>3. S \in SUBSET Nat
  OBVIOUS
<1> HIDE DEF S
<1>4. S = Nat
  BY <1>1, <1>2, <1>3, Induction
<1>5. Len(sizes) \in S
  BY <1>0, <1>4
<1> QED
  BY <1>0, <1>5 DEF S, A

NoCarry(sizes, from) == \A k \in 1 .. Len(sizes) : ~Assign(sizes, from)[k].carry

\* The windows of a device lie one after the other, from where it starts to what
\* is left for the next, if no address passes 32 bits.
LEMMA WindowsApart ==
  ASSUME NEW sizes \in Sized, NEW from \in Nat, NoCarry(sizes, from)
  PROVE  \A k \in 1 .. Len(sizes) :
           /\ Assign(sizes, from)[k].base \in Nat /\ Assign(sizes, from)[k].base >= from
           /\ Assign(sizes, from)[k].base % sizes[k] = 0
           /\ Assign(sizes, from)[k].next = Assign(sizes, from)[k].base + sizes[k]
           /\ \A j \in 1 .. k - 1 :
                Assign(sizes, from)[j].base + sizes[j] <= Assign(sizes, from)[k].base
<1> DEFINE A == Assign(sizes, from)
           B == [k \in 1 .. Len(sizes) |-> A[k].base]
           Good(k) == /\ B[k] >= from
                      /\ \A j \in 1 .. k - 1 : B[j] + sizes[j] <= B[k]
           S == {n \in Nat : n <= Len(sizes) => \A k \in 1 .. n : Good(k)}
<1>0. /\ Len(sizes) \in Nat /\ \A k \in 1 .. Len(sizes) : sizes[k] \in Nat \ {0}
      /\ \A k \in 1 .. Len(sizes) :
           /\ B[k] \in Nat /\ B[k] = A[k].base /\ B[k] % sizes[k] = 0
           /\ From(from, A, k) \in Nat /\ B[k] >= From(from, A, k)
           /\ A[k].next = B[k] + sizes[k]
  <2>1. Len(sizes) \in Nat /\ \A k \in 1 .. Len(sizes) : sizes[k] \in Nat \ {0}
    BY DEF Sized
  <2>2. ASSUME NEW k \in 1 .. Len(sizes)
        PROVE  /\ A[k].base \in Nat /\ A[k].base % sizes[k] = 0
               /\ From(from, A, k) \in Nat /\ A[k].base >= From(from, A, k)
               /\ A[k].next = A[k].base + sizes[k]
    <3>1. /\ A[k] \in Wins /\ From(from, A, k) \in Nat
          /\ A[k] = Window(From(from, A, k), sizes[k])
      BY AssignIs
    <3>2. ~A[k].carry
      BY DEF NoCarry
    <3> HIDE DEF A
    <3>3. sizes[k] \in Nat \ {0}
      BY <2>1
    <3>4. /\ A[k].base >= From(from, A, k) /\ A[k].base % sizes[k] = 0
          /\ A[k].next = A[k].base + sizes[k]
      BY <3>1, <3>2, <3>3, WindowIsBehind
    <3>5. A[k].base \in Nat
      BY <3>1 DEF Wins
    <3> QED
      BY <3>1, <3>4, <3>5
  <2> HIDE DEF A
  <2> QED
    BY <2>1, <2>2
<1> HIDE DEF A, B
<1>1. 0 \in S
  OBVIOUS
<1>2. ASSUME NEW n \in S
      PROVE  n + 1 \in S
  <2>1. n \in Nat /\ n + 1 \in Nat
    OBVIOUS
  <2>2. SUFFICES ASSUME n + 1 <= Len(sizes)
                 PROVE  \A k \in 1 .. n + 1 : Good(k)
    BY <2>1
  <2>3. \A k \in 1 .. n : Good(k)
    BY <1>0, <2>1, <2>2
  <2> DEFINE a == From(from, A, n + 1)
  <2>4. a \in Nat /\ a >= from /\ \A j \in 1 .. n : B[j] + sizes[j] <= a
    <3>1. CASE n = 0
      BY <3>1 DEF From
    <3>2. CASE n # 0
      <4>1. n \in 1 .. n /\ n \in 1 .. Len(sizes) /\ n + 1 # 1 /\ n + 1 - 1 = n
        BY <1>0, <2>1, <2>2, <3>2
      <4>2. a = B[n] + sizes[n]
        BY <1>0, <4>1 DEF From
      <4>3. /\ B[n] \in Nat /\ B[n] >= from /\ sizes[n] \in Nat
            /\ \A j \in 1 .. n - 1 : B[j] + sizes[j] <= B[n]
        BY <1>0, <2>3, <4>1
      <4>4. \A j \in 1 .. n : (j = n \/ j \in 1 .. n - 1) /\ j \in 1 .. Len(sizes)
        BY <1>0, <2>1, <2>2
      <4>5. \A j \in 1 .. n : B[j] \in Nat /\ sizes[j] \in Nat
        BY <1>0, <4>4
      <4> HIDE DEF a
      <4>6. a \in Nat /\ a >= from
        BY <4>2, <4>3
      <4>7. ASSUME NEW j \in 1 .. n PROVE B[j] + sizes[j] <= a
        <5>1. B[j] \in Nat /\ sizes[j] \in Nat
          BY <4>5
        <5>2. CASE j = n
          BY <4>2, <4>3, <5>2
        <5>3. CASE j # n
          <6>1. B[j] + sizes[j] <= B[n]
            BY <4>3, <4>4, <5>3
          <6> DEFINE x == B[j] + sizes[j]
                     y == B[n]
                     z == sizes[n]
          <6>2. x \in Nat
            BY <5>1
          <6>3. y \in Nat /\ z \in Nat /\ a = y + z
            BY <4>2, <4>3
          <6>4. x <= y
            BY <6>1
          <6> HIDE DEF x, y, z
          <6>5. x <= a
            BY <6>2, <6>3, <6>4
          <6> QED
            BY <6>5 DEF x
        <5> QED
          BY <5>2, <5>3
      <4> QED
        BY <4>6, <4>7
    <3> QED
      BY <2>1, <3>1, <3>2
  <2>5. B[n + 1] >= a /\ B[n + 1] \in Nat
    BY <1>0, <2>1, <2>2
  <2> HIDE DEF a
  <2>6. ASSUME NEW j \in 1 .. n + 1 - 1
        PROVE  B[j] + sizes[j] <= B[n + 1]
    <3>1. j \in 1 .. n /\ j \in 1 .. Len(sizes)
      BY <1>0, <2>1, <2>2
    <3>2. B[j] \in Nat /\ sizes[j] \in Nat
      BY <1>0, <3>1
    <3> QED
      BY <2>4, <2>5, <3>1, <3>2
  <2>7. Good(n + 1)
    BY <2>4, <2>5, <2>6
  <2>8. \A k \in 1 .. n + 1 : k = n + 1 \/ k \in 1 .. n
    BY <2>1
  <2> HIDE DEF Good
  <2> QED
    BY <2>3, <2>7, <2>8
<1>3. S \in SUBSET Nat
  OBVIOUS
<1> HIDE DEF S
<1>4. S = Nat
  BY <1>1, <1>2, <1>3, Induction
<1>5. Len(sizes) \in S
  BY <1>0, <1>4
<1>6. \A k \in 1 .. Len(sizes) : Good(k)
  BY <1>0, <1>5 DEF S
<1>7. \A k \in 1 .. Len(sizes) : \A j \in 1 .. k - 1 : j \in 1 .. Len(sizes)
  BY <1>0
<1> HIDE DEF S
<1>8. \A k \in 1 .. Len(sizes) :
        /\ A[k].base \in Nat /\ A[k].base >= from /\ A[k].base % sizes[k] = 0
        /\ A[k].next = A[k].base + sizes[k]
  BY <1>0, <1>6
<1>9. ASSUME NEW k \in 1 .. Len(sizes), NEW j \in 1 .. k - 1
      PROVE  A[j].base + sizes[j] <= A[k].base
  <2>1. B[j] + sizes[j] <= B[k]
    BY <1>6
  <2> QED
    BY <1>0, <1>7, <2>1
<1> QED
  BY <1>8, <1>9 DEF A

LEMMA AfterIsNat ==
  ASSUME NEW sizes \in Sized, NEW from \in Nat
  PROVE  After(sizes, from) \in Nat
<1>1. Len(sizes) \in Nat /\ (sizes # << >> => Len(sizes) \in 1 .. Len(sizes))
  BY DEF Sized
<1>2. sizes # << >> => Assign(sizes, from)[Len(sizes)] \in Wins
  BY <1>1, AssignIs
<1> QED
  BY <1>2 DEF After, Wins

LEMMA AfterIsBehind ==
  ASSUME NEW sizes \in Sized, NEW from \in Nat, NoCarry(sizes, from)
  PROVE  /\ After(sizes, from) >= from
         /\ \A k \in 1 .. Len(sizes) :
              Assign(sizes, from)[k].base + sizes[k] <= After(sizes, from)
<1> DEFINE B == [k \in 1 .. Len(sizes) |-> Assign(sizes, from)[k].base]
           n == Len(sizes)
<1>0. /\ n \in Nat /\ \A k \in 1 .. n : sizes[k] \in Nat \ {0}
      /\ n = 0 <=> sizes = << >>
  BY DEF Sized
<1>1. \A k \in 1 .. n :
        /\ Assign(sizes, from)[k].base \in Nat /\ Assign(sizes, from)[k].base >= from
        /\ Assign(sizes, from)[k].next = Assign(sizes, from)[k].base + sizes[k]
        /\ \A j \in 1 .. k - 1 :
             Assign(sizes, from)[j].base + sizes[j] <= Assign(sizes, from)[k].base
  BY WindowsApart
<1>2. \A k \in 1 .. n :
        /\ B[k] = Assign(sizes, from)[k].base
        /\ B[k] \in Nat /\ B[k] >= from
  BY <1>1
<1>5. ASSUME NEW k \in 1 .. n, NEW j \in 1 .. k - 1 PROVE B[j] + sizes[j] <= B[k]
  <2>1. j \in 1 .. n
    BY <1>0
  <2>2. Assign(sizes, from)[j].base + sizes[j] <= Assign(sizes, from)[k].base
    BY <1>1
  <2> QED
    BY <1>2, <2>1, <2>2
<1>6. n # 0 => After(sizes, from) = B[n] + sizes[n]
  <2> SUFFICES ASSUME n # 0 PROVE After(sizes, from) = B[n] + sizes[n]
    OBVIOUS
  <2>1. n \in 1 .. n /\ sizes # << >>
    BY <1>0
  <2>2. Assign(sizes, from)[n].next = B[n] + sizes[n]
    BY <1>1, <1>2, <2>1
  <2> QED
    BY <2>1, <2>2 DEF After
<1> HIDE DEF B, n
<1>3. CASE n = 0
  <2>1. After(sizes, from) = from
    BY <1>0, <1>3 DEF After
  <2> QED
    BY <1>3, <2>1 DEF n
<1>4. CASE n # 0
  <2>1. n \in 1 .. n
    BY <1>0, <1>4
  <2>2. B[n] \in Nat /\ B[n] >= from /\ sizes[n] \in Nat
    BY <1>0, <1>2, <2>1
  <2>3. ASSUME NEW k \in 1 .. n PROVE B[k] + sizes[k] <= B[n] + sizes[n]
    <3>1. CASE k = n
      BY <2>2, <3>1
    <3>2. CASE k # n
      <4>1. k \in 1 .. n - 1 /\ B[k] \in Nat /\ sizes[k] \in Nat
        BY <1>0, <1>2, <3>2
      <4>2. B[k] + sizes[k] <= B[n]
        BY <1>5, <2>1, <4>1
      <4> QED
        BY <2>2, <4>1, <4>2
    <3> QED
      BY <3>1, <3>2
  <2>4. After(sizes, from) >= from
    BY <1>4, <1>6, <2>2
  <2>5. ASSUME NEW k \in 1 .. Len(sizes)
        PROVE  Assign(sizes, from)[k].base + sizes[k] <= After(sizes, from)
    <3>1. k \in 1 .. n
      BY DEF n
    <3> QED
      BY <1>2, <1>4, <1>6, <2>3, <3>1
  <2> QED
    BY <2>4, <2>5
<1> QED
  BY <1>3, <1>4

-----------------------------------------------------------------------------
(* The windows that the search assigns *)

Windowed == [base : Nat, size : Nat \ {0}]

Probes == [bus : Nat \ {0}, slot : Nat \ {0}, function : Nat \ {0}, nextIO : Nat]

\* Where the search is.
ProbeOK ==
  /\ machine \in Seq(Seq(Seq(Functions)))
  /\ probe \in Probes
  /\ server = "Function" => probe.bus <= Len(machine)

\* io lies before the address a.
Before(io, a) == \A i \in 1 .. Len(io) : io[i].base + io[i].size <= a

\* The windows of a device lie one after the other, where it can decode them.
InOrder(io) ==
  /\ io \in Seq(Windowed)
  /\ \A j \in 1 .. Len(io) : io[j].base % io[j].size = 0
  /\ \A j \in 1 .. Len(io) : \A i \in 1 .. j - 1 : io[i].base + io[i].size <= io[j].base

\* The devices of a bus lie in the order of the table, before what is left, until
\* an address passes 32 bits.
SpaceOK ==
  /\ \A k \in 1 .. Len(table) :
       /\ InOrder(table[k].io)
       /\ table[k].bus \in Nat /\ table[k].bus <= probe.bus
       /\ table[k].bus = probe.bus => Before(table[k].io, probe.nextIO)
  /\ \A l \in 1 .. Len(table) : \A k \in 1 .. l - 1 :
       table[k].bus = table[l].bus =>
         \A j \in 1 .. Len(table[l].io) : Before(table[k].io, table[l].io[j].base)

Space == wrapped \/ SpaceOK

LEMMA InitSpace == Init => ProbeOK /\ Space
<1> SUFFICES ASSUME Init PROVE ProbeOK /\ Space
  OBVIOUS
<1>1. ProbeOK
  BY PciAssumption, MachinesAssumption DEF Init, ProbeOK, Probes
<1>2. Len(table) = 0
  BY DEF Init
<1> QED
  BY <1>1, <1>2 DEF SpaceOK, Space

\* What is found at the probe.
LEMMA FoundIsSized ==
  ASSUME ProbeOK, server = "Function", ~(probe.slot > Len(Bus)), Present
  PROVE  Sizes \in Sized
<1>1. /\ machine \in Seq(Seq(Seq(Functions))) /\ probe.bus \in 1 .. Len(machine)
      /\ probe.slot \in Nat \ {0} /\ probe.function \in Nat \ {0}
  BY DEF ProbeOK, Probes
<1>2. Bus \in Seq(Seq(Functions))
  BY <1>1 DEF Bus
<1>3. probe.slot \in 1 .. Len(Bus)
  BY <1>1, <1>2
<1>4. Slot \in Seq(Functions)
  BY <1>2, <1>3 DEF Slot
<1>5. probe.function \in 1 .. Len(Slot)
  BY <1>1, <1>4 DEF Present
<1>6. Found \in Functions
  BY <1>4, <1>5 DEF Found
<1>7. ASSUME NEW r \in Registers PROVE SizeOf(ReadBack(r)) \in Nat \ {0}
  <2> DEFINE d == r.decodes
             w == IF r.short THEN Half ELSE Word
  <2>1. /\ d \in Nat \ {0} /\ d < Half /\ Half \in Nat /\ Word \in Nat /\ Half < Word
        /\ w \in {Half, Word} /\ SizeOf(ReadBack(r)) = (1 + (Word - 1 - (w - d))) % Word
    BY PciAssumption DEF Registers, SizeOf, ReadBack
  <2> HIDE DEF d, w
  <2>2. CASE w = Half
    <3>1. /\ 1 + (Word - 1 - (w - d)) = Word - Half + d
          /\ Word - Half + d \in Nat \ {0} /\ Word - Half + d < Word
      BY <2>1, <2>2
    <3> QED
      BY <2>1, <3>1
  <2>3. CASE w = Word
    <3>1. 1 + (Word - 1 - (w - d)) = d /\ d < Word
      BY <2>1, <2>3
    <3> QED
      BY <2>1, <3>1
  <2> QED
    BY <2>1, <2>2, <2>3
<1>8. << >> \in Sized
  BY DEF Sized
<1>9. [k \in 1 .. Len(Found.io) |-> SizeOf(ReadBack(Found.io[k]))] \in Sized
  <2>1. Found.io \in Seq(Registers)
    BY <1>6 DEF Functions
  <2>2. Len(Found.io) \in Nat /\ \A k \in 1 .. Len(Found.io) : Found.io[k] \in Registers
    BY <2>1
  <2> QED
    BY <1>7, <2>2 DEF Sized
<1> QED
  BY <1>8, <1>9 DEF Sizes

\* The windows of the entry.
LEMMA EntryFits ==
  ASSUME Sizes \in Sized, probe.nextIO \in Nat, NoCarry(Sizes, probe.nextIO)
  PROVE  /\ InOrder(Entry.io) /\ Entry.bus = probe.bus
         /\ \A j \in 1 .. Len(Entry.io) : Entry.io[j].base >= probe.nextIO
         /\ Before(Entry.io, After(Sizes, probe.nextIO))
<1> DEFINE B == [k \in 1 .. Len(Sizes) |-> Assign(Sizes, probe.nextIO)[k].base]
           io == [k \in 1 .. Len(Sizes) |-> [base |-> B[k], size |-> Sizes[k]]]
<1>1. Entry.io = io /\ Entry.bus = probe.bus
  <2>1. Entry.io = [k \in 1 .. Len(Sizes) |->
                      [base |-> Assign(Sizes, probe.nextIO)[k].base, size |-> Sizes[k]]]
    BY DEF Entry
  <2> QED
    BY <2>1 DEF Entry
<1>2. /\ Len(Sizes) \in Nat /\ \A k \in 1 .. Len(Sizes) : Sizes[k] \in Nat \ {0}
  BY DEF Sized
<1>3. \A k \in 1 .. Len(Sizes) :
        /\ B[k] \in Nat /\ B[k] >= probe.nextIO
        /\ B[k] % Sizes[k] = 0
        /\ \A j \in 1 .. k - 1 : B[j] + Sizes[j] <= B[k]
  <2>1. \A k \in 1 .. Len(Sizes) :
          /\ B[k] = Assign(Sizes, probe.nextIO)[k].base
          /\ \A j \in 1 .. k - 1 : j \in 1 .. Len(Sizes)
    BY <1>2
  <2> HIDE DEF B
  <2> QED
    BY <2>1, WindowsApart
<1>4. \A k \in 1 .. Len(Sizes) : B[k] + Sizes[k] <= After(Sizes, probe.nextIO)
  BY AfterIsBehind
<1> HIDE DEF B
<1>5. io \in Seq(Windowed) /\ Len(io) = Len(Sizes)
  <2>1. \A k \in 1 .. Len(Sizes) : [base |-> B[k], size |-> Sizes[k]] \in Windowed
    BY <1>2, <1>3 DEF Windowed
  <2> QED
    BY <1>2, <2>1
<1>6. \A k \in 1 .. Len(Sizes) : io[k].base = B[k] /\ io[k].size = Sizes[k]
  OBVIOUS
<1> HIDE DEF io
<1>7. \A k \in 1 .. Len(Sizes) : \A j \in 1 .. k - 1 : j \in 1 .. Len(Sizes)
  BY <1>2
<1>8. InOrder(io)
  BY <1>3, <1>5, <1>6, <1>7 DEF InOrder
<1> QED
  BY <1>1, <1>3, <1>4, <1>5, <1>6, <1>8 DEF Before

\* What lies before one address lies before any behind it.
LEMMA BeforeMore ==
  ASSUME NEW io \in Seq(Windowed), NEW a \in Nat, NEW b \in Nat, a <= b, Before(io, a)
  PROVE  Before(io, b)
<1> SUFFICES ASSUME NEW i \in 1 .. Len(io) PROVE io[i].base + io[i].size <= b
  BY DEF Before
<1>1. io[i] \in Windowed
  OBVIOUS
<1>2. io[i].base \in Nat /\ io[i].size \in Nat
  BY <1>1 DEF Windowed
<1>3. io[i].base + io[i].size <= a
  BY DEF Before
<1> QED
  BY <1>2, <1>3

\* The steps of the search from slot to slot and from function to function.
LEMMA SlotProbe ==
  ASSUME probe \in Probes
  PROVE  NextSlot \in Probes /\ NextSlot.bus = probe.bus /\ NextSlot.nextIO = probe.nextIO
<1> DEFINE s == probe.slot + 1
<1> DEFINE p == [probe EXCEPT !.slot = s]
<1>1. s \in Nat \ {0} /\ NextSlot = [p EXCEPT !.function = 1]
  BY DEF NextSlot, Probes
<1> HIDE DEF s
<1>2. p \in Probes /\ p.bus = probe.bus /\ p.nextIO = probe.nextIO
  BY <1>1 DEF Probes
<1> HIDE DEF p
<1>3. [p EXCEPT !.function = 1] \in Probes
  BY <1>2 DEF Probes
<1>4. [p EXCEPT !.function = 1].bus = p.bus /\ [p EXCEPT !.function = 1].nextIO = p.nextIO
  BY <1>2 DEF Probes
<1> QED
  BY <1>1, <1>2, <1>3, <1>4

LEMMA FunctionProbe ==
  ASSUME probe \in Probes
  PROVE  /\ [probe EXCEPT !.function = @ + 1] \in Probes
         /\ [probe EXCEPT !.function = @ + 1].bus = probe.bus
<1> DEFINE f == probe.function + 1
<1>1. f \in Nat \ {0} /\ [probe EXCEPT !.function = @ + 1] = [probe EXCEPT !.function = f]
  BY DEF Probes
<1> HIDE DEF f
<1> QED
  BY <1>1 DEF Probes

LEMMA ProbeProbe == ProbeOK /\ ProbeFunction => ProbeOK'
<1> SUFFICES ASSUME ProbeOK, ProbeFunction PROVE ProbeOK'
  OBVIOUS
<1>1. machine' = machine /\ server = "Function" /\ probe \in Probes
  BY DEF ProbeFunction, ProbeOK
<1>2. CASE probe' = NextBus /\ server' = "Bus"
  BY <1>1, <1>2, PciAssumption DEF NextBus, Probes, ProbeOK
<1>3. CASE probe' = NextSlot /\ server' = server
  BY <1>1, <1>3, SlotProbe DEF ProbeOK
<1>4. CASE /\ ~(probe.slot > Len(Bus)) /\ Present /\ server' = server
           /\ probe' = [(IF probe.function = 1 /\ ~Found.multi
                         THEN NextSlot ELSE [probe EXCEPT !.function = @ + 1])
                        EXCEPT !.nextIO = After(Sizes, probe.nextIO)]
  <2> DEFINE after == After(Sizes, probe.nextIO)
             p == IF probe.function = 1 /\ ~Found.multi
                  THEN NextSlot ELSE [probe EXCEPT !.function = @ + 1]
  <2>1. Sizes \in Sized /\ probe.nextIO \in Nat
    BY <1>1, <1>4, FoundIsSized DEF Probes
  <2>2. after \in Nat
    BY <2>1, AfterIsNat
  <2>3. p \in Probes /\ p.bus = probe.bus /\ probe' = [p EXCEPT !.nextIO = after]
    BY <1>1, <1>4, SlotProbe, FunctionProbe
  <2> HIDE DEF p, after
  <2>4. probe' \in Probes /\ probe'.bus = probe.bus
    BY <2>2, <2>3 DEF Probes
  <2> QED
    BY <1>1, <1>4, <2>4 DEF ProbeOK
<1> QED
  BY <1>2, <1>3, <1>4 DEF ProbeFunction

LEMMA ProbeSpace == IInv /\ ProbeOK /\ SpaceOK /\ ProbeFunction /\ ~wrapped' => SpaceOK'
<1> SUFFICES ASSUME IInv, ProbeOK, SpaceOK, ProbeFunction, ~wrapped' PROVE SpaceOK'
  OBVIOUS
<1>1. /\ machine' = machine /\ server = "Function" /\ IsSeq(table)
      /\ probe \in Probes
  BY DEF ProbeFunction, IInv, TableOK, ProbeOK
<1>2. Len(table) \in Nat
  BY <1>1 DEF IsSeq
<1>3. CASE probe' = NextBus /\ server' = "Bus" /\ UNCHANGED table
  <2>1. /\ probe' \in Probes
        /\ probe'.bus = probe.bus + 1
    BY <1>1, <1>3, PciAssumption DEF NextBus, Probes
  <2>3. \A k \in 1 .. Len(table) :
          /\ table[k].bus \in Nat /\ table[k].bus <= probe'.bus /\ table[k].bus # probe'.bus
    <3> DEFINE bus == probe.bus
    <3>1. bus \in Nat /\ probe'.bus = bus + 1
      BY <1>1, <2>1 DEF Probes
    <3>2. \A k \in 1 .. Len(table) : table[k].bus \in Nat /\ table[k].bus <= bus
      BY DEF SpaceOK
    <3> HIDE DEF bus
    <3> QED
      BY <3>1, <3>2
  <2> QED
    BY <1>3, <2>3 DEF SpaceOK
<1>4. CASE probe' = NextSlot /\ UNCHANGED <<table, server>>
  <2>1. /\ probe' \in Probes
        /\ probe'.bus = probe.bus /\ probe'.nextIO = probe.nextIO
    BY <1>1, <1>4, SlotProbe
  <2> QED
    BY <1>1, <1>4, <2>1 DEF SpaceOK
<1>5. CASE /\ ~(probe.slot > Len(Bus)) /\ Present
           /\ table' = Append(table, Entry) /\ UNCHANGED server
           /\ NoCarry(Sizes, probe.nextIO)
           /\ probe' = [(IF probe.function = 1 /\ ~Found.multi
                         THEN NextSlot ELSE [probe EXCEPT !.function = @ + 1])
                        EXCEPT !.nextIO = After(Sizes, probe.nextIO)]
  <2>1. Sizes \in Sized /\ probe.nextIO \in Nat
    BY <1>1, <1>5, FoundIsSized DEF Probes
  <2>2. After(Sizes, probe.nextIO) \in Nat /\ After(Sizes, probe.nextIO) >= probe.nextIO
    BY <1>5, <2>1, AfterIsNat, AfterIsBehind
  <2> DEFINE after == After(Sizes, probe.nextIO)
             entry == Entry
             n == Len(table)
  <2>3. /\ InOrder(entry.io) /\ entry.bus = probe.bus
        /\ \A j \in 1 .. Len(entry.io) : entry.io[j].base >= probe.nextIO
        /\ Before(entry.io, after)
    BY <1>5, <2>1, EntryFits
  <2>4. /\ probe' \in Probes
        /\ probe'.bus = probe.bus /\ probe'.nextIO = after
    <3> DEFINE p == IF probe.function = 1 /\ ~Found.multi
                    THEN NextSlot ELSE [probe EXCEPT !.function = @ + 1]
    <3>1. p \in Probes /\ p.bus = probe.bus
      BY <1>1, SlotProbe, FunctionProbe
    <3>2. after \in Nat /\ probe' = [p EXCEPT !.nextIO = after]
      BY <1>5, <2>2
    <3> HIDE DEF p, after
    <3> QED
      BY <3>1, <3>2 DEF Probes
  <2>5. /\ Len(table') = n + 1
        /\ \A k \in 1 .. n + 1 : table'[k] = IF k = n + 1 THEN entry ELSE table[k]
    BY <1>1, <1>5, AppendSeq
  <2> HIDE DEF after, entry, n
  <2>7. n \in Nat /\ after \in Nat /\ after >= probe.nextIO /\ probe.nextIO \in Nat
    BY <1>2, <2>1, <2>2 DEF after, n
  <2>8. ASSUME NEW k \in 1 .. n
        PROVE  /\ InOrder(table[k].io) /\ table[k].io \in Seq(Windowed)
               /\ table[k].bus \in Nat /\ table[k].bus <= probe.bus
               /\ table[k].bus = probe.bus => Before(table[k].io, probe.nextIO)
    BY DEF SpaceOK, InOrder, n
  <2>9. ASSUME NEW k \in 1 .. n + 1
        PROVE  /\ InOrder(table'[k].io)
               /\ table'[k].bus \in Nat /\ table'[k].bus <= probe'.bus
               /\ table'[k].bus = probe'.bus => Before(table'[k].io, probe'.nextIO)
    <3>1. CASE k = n + 1
      <4>1. table'[k] = entry /\ probe.bus \in Nat
        BY <1>1, <2>5, <3>1 DEF Probes
      <4> QED
        BY <2>3, <2>4, <4>1
    <3>2. CASE k # n + 1
      <4>1. k \in 1 .. n /\ table'[k] = table[k]
        BY <2>5, <2>7, <3>2
      <4>2. table[k].bus = probe.bus => Before(table[k].io, after)
        BY <2>7, <2>8, <4>1, BeforeMore
      <4> QED
        BY <2>4, <2>8, <4>1, <4>2
    <3> QED
      BY <3>1, <3>2
  <2>10. ASSUME NEW l \in 1 .. n + 1, NEW k \in 1 .. l - 1, table'[k].bus = table'[l].bus,
                NEW j \in 1 .. Len(table'[l].io)
         PROVE  Before(table'[k].io, table'[l].io[j].base)
    <3>1. k \in 1 .. n /\ table'[k] = table[k]
      BY <2>5, <2>7
    <3>2. CASE l = n + 1
      <4>1. table'[l] = entry
        BY <2>5, <3>2
      <4>2. entry.io[j].base >= probe.nextIO /\ Before(table[k].io, probe.nextIO)
        BY <2>3, <2>8, <2>10, <3>1, <4>1
      <4>3. entry.io[j].base \in Nat
        <5>1. entry.io \in Seq(Windowed) /\ j \in 1 .. Len(entry.io)
          BY <2>3, <4>1 DEF InOrder
        <5>2. entry.io[j] \in Windowed
          BY <5>1
        <5> QED
          BY <5>2 DEF Windowed
      <4>4. table[k].io \in Seq(Windowed)
        BY <2>8, <3>1
      <4> QED
        BY <2>7, <3>1, <4>1, <4>2, <4>3, <4>4, BeforeMore
    <3>3. CASE l # n + 1
      <4>1. l \in 1 .. n /\ table'[l] = table[l]
        BY <2>5, <2>7, <3>3
      <4> QED
        BY <2>10, <3>1, <4>1 DEF SpaceOK, n
    <3> QED
      BY <3>2, <3>3
  <2>11. SpaceOK'
    BY <2>5, <2>9, <2>10 DEF SpaceOK
  <2> QED
    BY <2>11
<1>6. ASSUME wrapped' = (wrapped \/ \E k \in 1 .. Len(Sizes) :
                                          Assign(Sizes, probe.nextIO)[k].carry)
      PROVE  NoCarry(Sizes, probe.nextIO)
  BY <1>6 DEF NoCarry
<1> QED
  BY <1>1, <1>3, <1>4, <1>5, <1>6 DEF ProbeFunction

\* All other steps leave the search and the windows as they are: the table only
\* gets new owners.
LEMMA SameSpace ==
  ASSUME ProbeOK, Space, UNCHANGED <<machine, probe, wrapped>>,
         server' = "Function" => probe.bus <= Len(machine),
         Len(table') = Len(table),
         \A k \in 1 .. Len(table) : table'[k].bus = table[k].bus /\ table'[k].io = table[k].io
  PROVE  ProbeOK' /\ Space'
<1>1. ProbeOK'
  BY DEF ProbeOK
<1>2. ASSUME SpaceOK PROVE SpaceOK'
  <2>1. \A k \in 1 .. Len(table') :
          /\ InOrder(table'[k].io)
          /\ table'[k].bus \in Nat /\ table'[k].bus <= probe'.bus
          /\ table'[k].bus = probe'.bus => Before(table'[k].io, probe'.nextIO)
    BY <1>2 DEF SpaceOK
  <2>2. ASSUME NEW l \in 1 .. Len(table'), NEW k \in 1 .. l - 1, table'[k].bus = table'[l].bus,
               NEW j \in 1 .. Len(table'[l].io)
        PROVE  Before(table'[k].io, table'[l].io[j].base)
    <3>1. l \in 1 .. Len(table) /\ table'[l].bus = table[l].bus /\ table'[l].io = table[l].io
      OBVIOUS
    <3>2. CASE k \in 1 .. Len(table)
      BY <1>2, <2>2, <3>1, <3>2 DEF SpaceOK
    <3> QED
      BY <3>1, <3>2
  <2> QED
    BY <2>1, <2>2 DEF SpaceOK
<1> QED
  BY <1>1, <1>2 DEF Space

LEMMA StepSpace == IInv /\ ProbeOK /\ Space /\ [Next]_vars => ProbeOK' /\ Space'
<1> SUFFICES ASSUME IInv, ProbeOK, Space, [Next]_vars PROVE ProbeOK' /\ Space'
  OBVIOUS
<1> USE DEF serverVars, driverVars
<1>1. ASSUME UNCHANGED <<machine, probe, wrapped, table>>, server' = server \/ server' # "Function"
      PROVE  ProbeOK' /\ Space'
  <2>1. server' = "Function" => probe.bus <= Len(machine)
    BY <1>1 DEF ProbeOK
  <2> QED
    BY <1>1, <2>1, SameSpace
<1>2. CASE Boot
  <2>1. CASE Listen
    BY <1>1, <2>1 DEF Listen
  <2>2. CASE ProbeBus
    <3>1. server' = "Function" => ~(probe.bus > Len(machine))
      BY <2>2 DEF ProbeBus, End
    <3>2. Len(machine) \in Nat /\ probe.bus \in Nat
      BY DEF ProbeOK, Probes
    <3>3. server' = "Function" => probe.bus <= Len(machine)
      BY <3>1, <3>2
    <3> QED
      BY <2>2, <3>3, SameSpace DEF ProbeBus
  <2>3. CASE ProbeFunction
    <3>1. ~wrapped' => ~wrapped
      BY <2>3 DEF ProbeFunction
    <3> QED
      BY <2>3, <3>1, ProbeProbe, ProbeSpace DEF Space
  <2>4. CASE Report
    BY <1>1, <2>4 DEF Report, End
  <2> QED
    BY <1>2, <2>1, <2>2, <2>3, <2>4 DEF Boot
<1>3. CASE Serve
  <2>1. CASE AcceptPending \/ Scanned \/ Skip \/ SendReplies
    BY <1>1, <2>1 DEF AcceptPending, Scanned, Skip, SendReplies
  <2>2. CASE Receive
    <3>1. UNCHANGED <<machine, probe, wrapped>> /\ (server' = server \/ server' = "Ended")
      BY <2>2 DEF Receive, End
    <3>2. \/ UNCHANGED table
          \/ \E owners : table' = [k \in 1 .. Len(table) |-> [table[k] EXCEPT !.owner = owners[k]]]
      BY <2>2 DEF Receive
    <3>3. CASE UNCHANGED table
      BY <1>1, <3>1, <3>3
    <3>4. CASE ~ UNCHANGED table
      <4>1. PICK owners :
              table' = [k \in 1 .. Len(table) |-> [table[k] EXCEPT !.owner = owners[k]]]
        BY <3>2, <3>4
      <4>2. Len(table) \in Nat
        BY DEF IInv, TableOK, IsSeq
      <4>3. Len(table') = Len(table)
        BY <4>1, <4>2
      <4>4. ASSUME NEW k \in 1 .. Len(table)
            PROVE  table'[k].bus = table[k].bus /\ table'[k].io = table[k].io
        <5>1. table[k] = [kind |-> table[k].kind, bus |-> table[k].bus,
                          owner |-> table[k].owner, io |-> table[k].io]
          BY DEF IInv, TableOK
        <5>2. table'[k] = [table[k] EXCEPT !.owner = owners[k]]
          BY <4>1
        <5> QED
          BY <5>1, <5>2
      <4>5. server' = "Function" => probe.bus <= Len(machine)
        BY <3>1 DEF ProbeOK
      <4> QED
        BY <3>1, <4>3, <4>4, <4>5, SameSpace
    <3> QED
      BY <3>3, <3>4
  <2> QED
    BY <1>3, <2>1, <2>2 DEF Serve
<1>4. CASE Scheduler
  BY <1>1, <1>4 DEF Scheduler
<1>5. ASSUME NEW d \in Drivers,
             \/ Establish(d) \/ Arrive(d)
             \/ ConnectToPci(d) \/ Ask(d) \/ Answered(d) \/ CloseConnection(d)
             \/ RegisterCards(d) \/ ControlFromDriver(d)
      PROVE  ProbeOK' /\ Space'
  <2>1. UNCHANGED <<machine, probe, wrapped, table, server>>
    BY <1>5 DEF Establish, Arrive, ConnectToPci, Ask, Answered, CloseConnection, RegisterCards,
                ControlFromDriver
  <2> QED
    BY <1>1, <2>1
<1>6. CASE UNCHANGED vars
  BY <1>1, <1>6 DEF vars
<1> QED
  BY <1>2, <1>3, <1>4, <1>5, <1>6 DEF Next

LEMMA SpaceHolds == Spec => [](IInv /\ ProbeOK /\ Space)
BY InitIInv, NextIInv, InitSpace, StepSpace, PTL DEF Spec

-----------------------------------------------------------------------------
(* The theorems *)

THEOREM Invariance == Spec => []IInv
BY InitIInv, NextIInv, PTL DEF Spec

\* No driver is refused by the server, however many there are and whatever the
\* server finds before it reports, unless it has returned on account of a driver
\* that was told all it had asked for: drivers are started by the report, which is
\* sent only once the server listens (pciDriverProcess, activateDependents), and
\* until it gives back a number no driver names a device that there is not
\* (handleRequest, rtl8139DriverProcess).
THEOREM DriversAlwaysFindServer == Spec => []DriversFindServer
<1>1. IInv => DriversFindServer
  BY DEF IInv
<1> QED
  BY <1>1, Invariance, PTL

\* A device that a driver keeps is one it asked for and is its own in the
\* server's table, whatever the filters are: so no two drivers ever keep the same
\* (seekDevice, reserveDevice, releaseDevice, rtl8139DriverProcess).
THEOREM KeptStaysOwned == Spec => []KeptIsOwned
<1>1. IInv => KeptIsOwned
  <2> SUFFICES ASSUME IInv, NEW d \in Drivers, NEW p \in kept[d]
               PROVE  table[p.device].owner = d /\ Wants[d] \in {Any, table[p.device].kind}
    BY DEF KeptIsOwned
  <2>1. p.device \in SeekDevice(d, p.number) /\ table[p.device].owner = d
    BY DEF IInv, Numbered
  <2>2. filter[d] = Wants[d]
    BY DEF IInv, Filtered, Connected
  <2> QED
    BY <2>1, <2>2, SeekIsPlace
<1> QED
  BY <1>1, Invariance, PTL

\* A window of a bus is the window of a device there.
LEMMA WindowIs ==
  ASSUME NEW bus, NEW v \in Windows(bus)
  PROVE  \E k, j :
           /\ k \in 1 .. Len(table) /\ table[k].bus = bus /\ j \in 1 .. Len(table[k].io)
           /\ v = [device |-> k, at |-> j, base |-> table[k].io[j].base,
                   size |-> table[k].io[j].size]
<1> DEFINE At(k) == {[device |-> k, at |-> j, base |-> table[k].io[j].base,
                      size |-> table[k].io[j].size] : j \in 1 .. Len(table[k].io)}
<1>1. PICK k \in {k \in 1 .. Len(table) : table[k].bus = bus} : v \in At(k)
  BY DEF Windows
<1>2. PICK j \in 1 .. Len(table[k].io) :
        v = [device |-> k, at |-> j, base |-> table[k].io[j].base, size |-> table[k].io[j].size]
  BY <1>1
<1> QED
  BY <1>1, <1>2

\* The io windows that the server assigns on one bus never overlap, and each
\* starts at a multiple of its size, whatever the devices decode and wherever the
\* table is full, as long as no address has passed 32 bits (probe_bus,
\* probe_function): nothing but that can make two of them overlap.
THEOREM WindowsStayApart == Spec => []IoWindowsApart
<1>1. IInv /\ Space => IoWindowsApart
  <2> SUFFICES ASSUME IInv, SpaceOK, NEW bus \in 1 .. Len(machine),
                      NEW v \in Windows(bus), NEW w \in Windows(bus)
               PROVE  /\ v.base % v.size = 0
                      /\ v = w \/ v.base + v.size <= w.base \/ w.base + w.size <= v.base
    BY DEF IoWindowsApart, Space
  <2> DEFINE Is(k, j, x) ==
               /\ k \in 1 .. Len(table) /\ table[k].bus = bus /\ j \in 1 .. Len(table[k].io)
               /\ x = [device |-> k, at |-> j, base |-> table[k].io[j].base,
                       size |-> table[k].io[j].size]
  <2>1. PICK k, j : Is(k, j, v)
    BY WindowIs
  <2>2. PICK l, i : Is(l, i, w)
    BY WindowIs
  <2>0. Len(table) \in Nat
    BY DEF IInv, TableOK, IsSeq
  <2>3. /\ InOrder(table[k].io) /\ InOrder(table[l].io)
        /\ Len(table[k].io) \in Nat /\ Len(table[l].io) \in Nat
    <3>1. InOrder(table[k].io) /\ InOrder(table[l].io)
      BY <2>1, <2>2 DEF SpaceOK
    <3> QED
      BY <3>1 DEF InOrder
  <2>4. v.base % v.size = 0
    BY <2>1, <2>3 DEF InOrder
  <2> DEFINE a == table[k].io[j].base
             b == table[k].io[j].size
             c == table[l].io[i].base
             d == table[l].io[i].size
  <2>10. v.base = a /\ v.size = b /\ w.base = c /\ w.size = d
    BY <2>1, <2>2
  <2>5. CASE k = l /\ i = j
    BY <2>1, <2>2, <2>4, <2>5
  <2>6. CASE k = l /\ i < j
    <3>1. c + d <= a
      BY <2>1, <2>2, <2>3, <2>6 DEF InOrder
    <3> QED
      BY <2>4, <2>10, <3>1
  <2>7. CASE k = l /\ j < i
    <3>1. a + b <= c
      <4>1. j \in 1 .. i - 1 /\ i \in 1 .. Len(table[k].io)
        BY <2>1, <2>2, <2>3, <2>7
      <4> QED
        BY <2>3, <2>7, <4>1 DEF InOrder
    <3> QED
      BY <2>4, <2>10, <3>1
  <2>8. CASE k < l
    <3>1. a + b <= c
      <4>1. k \in 1 .. l - 1 /\ l \in 1 .. Len(table) /\ table[k].bus = table[l].bus
        BY <2>0, <2>1, <2>2, <2>8
      <4>2. Before(table[k].io, c)
        BY <2>2, <4>1 DEF SpaceOK
      <4> QED
        BY <2>1, <4>2 DEF Before
    <3> QED
      BY <2>4, <2>10, <3>1
  <2>9. CASE l < k
    <3>1. c + d <= a
      <4>1. l \in 1 .. k - 1 /\ k \in 1 .. Len(table) /\ table[k].bus = table[l].bus
        BY <2>0, <2>1, <2>2, <2>9
      <4>2. Before(table[l].io, a)
        BY <2>1, <4>1 DEF SpaceOK
      <4> QED
        BY <2>2, <4>2 DEF Before
    <3> QED
      BY <2>4, <2>10, <3>1
  <2> QED
    <3>1. k \in Int /\ l \in Int /\ i \in Int /\ j \in Int
      BY <2>0, <2>1, <2>2, <2>3
    <3>2. k = l \/ k < l \/ l < k
      BY <3>1
    <3>3. i = j \/ i < j \/ j < i
      BY <3>1
    <3> QED
      BY <2>5, <2>6, <2>7, <2>8, <2>9, <3>2, <3>3
<1> QED
  BY <1>1, SpaceHolds, PTL
=============================================================================
