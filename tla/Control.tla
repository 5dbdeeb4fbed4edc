------------------------------ MODULE Control ------------------------------
(***************************************************************************)
(* The scheduler's control service (libs/scheduler: controlServer.c,       *)
(* controlClient.c, contextQueue.c): a context reports over TCP that it is *)
(* initialised, and the scheduler starts the contexts that depend on it.   *)
(*                                                                         *)
(* A poll runs in the scheduler's context and no client runs meanwhile, so *)
(* it is one step.  TCP is taken at its word: connections are accepted one *)
(* after the other, bytes arrive in order, but may be cut anywhere.        *)
(***************************************************************************)
EXTENDS Naturals, FiniteSets

CONSTANTS Contexts,
          DependsOn,    \* metadata->dependsOn
          MaxFaults,    \* BOUND: replies that cannot be sent
          None

ASSUME ControlAssumption ==
  /\ None \notin Contexts
  /\ DependsOn \in [Contexts -> Contexts \cup {None}]
  /\ MaxFaults \in Nat

VARIABLES queue,      \* the contexts on the scheduler's queue
          running,    \* metadata->isRunning
          inited,     \* metadata->isInited
          control,    \* how far each context is with its SchedulerControl
          waiting,    \* the connection that the scheduler has yet to accept
          clients,    \* the contexts on the server's list
          ended,      \* the scheduler has returned
          faults

controlVars == <<queue, running, inited, control, waiting, clients, ended, faults>>

Dependents(x) == {y \in queue : DependsOn[y] = x}

\* SchedulerBasic has queued the contexts; those that depend on none run.
ControlInit ==
  /\ queue = Contexts
  /\ running = {x \in Contexts : DependsOn[x] = None}
  /\ inited = {}
  /\ control = [x \in Contexts |-> "None"]
  /\ waiting = None
  /\ clients = {}
  /\ ended = FALSE
  /\ faults = 0

Runs(x) == x \in queue \cap running /\ ~ended

-----------------------------------------------------------------------------
(* The client *)

\* SchedulerControlConnect returns.
ControlConnect(x) ==
  /\ Runs(x) /\ control[x] = "None"
  /\ waiting = None
  /\ waiting' = x
  /\ control' = [control EXCEPT ![x] = "Connected"]
  /\ UNCHANGED <<queue, running, inited, clients, ended, faults>>

\* SchedulerControlReportInited, up to its wait for the reply; the request
\* arrives whole or in parts.
ReportInited(x) ==
  /\ Runs(x) /\ control[x] = "Connected"
  /\ \E part \in {"Whole", "Cut"} : control' = [control EXCEPT ![x] = part]
  /\ UNCHANGED <<queue, running, inited, waiting, clients, ended, faults>>

\* It returns; after an error the connection is closed.
ReportReturns(x) ==
  /\ Runs(x) /\ control[x] \in {"Answered", "Dropped"}
  /\ control' = [control EXCEPT ![x] = IF @ = "Answered" THEN "Reported" ELSE "Closed"]
  /\ UNCHANGED <<queue, running, inited, waiting, clients, ended, faults>>

\* SchedulerControlClose.  The server keeps its end.
ControlClose(x) ==
  /\ Runs(x) /\ control[x] = "Reported"
  /\ control' = [control EXCEPT ![x] = "Closed"]
  /\ UNCHANGED <<queue, running, inited, waiting, clients, ended, faults>>

\* The context exits, not while it waits for a reply, and the scheduler takes it
\* off its queue.
Exit(x) ==
  /\ Runs(x) /\ control[x] \notin {"Whole", "Cut", "Lost", "Answered"}
  /\ queue' = queue \ {x}
  /\ UNCHANGED <<running, inited, control, waiting, clients, ended, faults>>

-----------------------------------------------------------------------------
(* The server *)

\* The peer's context is looked up on the queue: if it has exited since it
\* connected, the poll fails and the scheduler returns.
Stranger ==
  /\ ~ended
  /\ waiting # None /\ waiting \notin queue
  /\ ended' = TRUE
  /\ UNCHANGED <<queue, running, inited, control, waiting, clients, faults>>

\* The list once the connection is on it.
WithNewClient == IF waiting = None THEN clients ELSE clients \cup {waiting}

Sent(part) == {x \in WithNewClient : control[x] = part}

\* Variant to reject: only the first of the dependents is activated.
ActivateOne(S) ==
  running \cup {(CHOOSE y \in Dependents(x) : TRUE) : x \in {z \in S : Dependents(z) # {}}}

\* activateDependents, for every context in S.
ActivateDependents(S) == running \cup UNION {Dependents(x) : x \in S}

\* closeClient, for every one in S.
CloseClients(S) == WithNewClient \ S

\* handleRequest for every request that has come.  When the reply cannot be
\* sent, the dependents stay and the client is closed.  Of a request that comes
\* in parts nothing is kept.
HandleRequests(failed) ==
  /\ inited' = inited \cup Sent("Whole")
  /\ running' = ActivateDependents(Sent("Whole") \ failed)
  /\ clients' = CloseClients(failed)
  /\ control' = [x \in Contexts |->
                   CASE x \in failed -> "Dropped"
                     [] x \in Sent("Whole") \ failed -> "Answered"
                     [] x \in Sent("Cut") -> "Lost"
                     [] OTHER -> control[x]]

\* SchedulerControlServerPoll, when there is something for it to do.
Poll ==
  /\ ~ended
  /\ waiting # None \/ Sent("Whole") \cup Sent("Cut") # {}
  /\ waiting \in queue \cup {None}
  /\ \E failed \in SUBSET Sent("Whole") :
       /\ faults' = faults + Cardinality(failed)
       /\ faults' <= MaxFaults
       /\ HandleRequests(failed)
  /\ waiting' = None
  /\ UNCHANGED <<queue, ended>>

-----------------------------------------------------------------------------
(* Properties *)

\* A report that arrives whole is not in vain: unless its reply cannot be sent
\* or the scheduler ends, the scheduler starts every context that depends on
\* the one that reported (handleRequest, activateDependents).
ReportIsHeeded ==
  \A x \in Contexts :
    (control[x] = "Whole" /\ x \in queue)
    ~> (Dependents(x) \subseteq running \/ control[x] \in {"Dropped", "Closed"} \/ ended)
=============================================================================
