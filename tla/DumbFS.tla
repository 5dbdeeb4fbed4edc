-------------------------------- MODULE DumbFS --------------------------------
(***************************************************************************)
(* The remote file system: clients that send numbered requests in UDP      *)
(* packets, and send them again under another number when their timer      *)
(* ticks twice (libs/file/file-system-dumbfs.c), and the server outside    *)
(* (aux/dumbfs-outside/dumbfs-outside.c, module FileServer).               *)
(*                                                                         *)
(* A client is one thread: it makes one call at a time.  The network loses,*)
(* repeats and reorders datagrams: what was sent stays in a set, and each  *)
(* member may arrive at any time, any number of times, or never.           *)
(* The numbers are 16 bits wide; the model stays below their wrap.         *)
(***************************************************************************)
EXTENDS FileServer, FiniteSets

CONSTANTS MaxCalls,     \* calls of each client
          MaxResends,   \* times that one client sends a request again
          MaxReplies    \* different replies that the server gives

VARIABLES files,          \* the File objects each client holds
          calls,          \* how many calls each client has made
          call,           \* the call it is in, NoCall between calls
          nextRequestId,
          numTimeouts,    \* of the current attempt
          requests,       \* the datagrams sent to the server
          replies,        \* the datagrams sent to the clients
          openedBy        \* for each fileId the requestId of its entry

client == <<files, calls, call, nextRequestId, numTimeouts>>
vars == <<server, client, requests, replies, openedBy>>

NoCall == [id |-> 0, op |-> None]

Init ==
  /\ ServerInit
  /\ files = [c \in Clients |-> {}]
  /\ calls = [c \in Clients |-> 0]
  /\ call = [c \in Clients |-> NoCall]
  /\ nextRequestId = [c \in Clients |-> 1]
  /\ numTimeouts = [c \in Clients |-> 0]
  /\ requests = {}
  /\ replies = {}
  /\ openedBy = << >>

-----------------------------------------------------------------------------
(* The client *)

\* `call' in a datagram is the number of the call it is sent for; nothing
\* reads it.
Request(c, n, op) == [client |-> c, id |-> nextRequestId[c], call |-> n, op |-> op]

\* Variant for the runs to reject: the number is not counted up.
AttemptSameNumber(c, n, op) ==
  /\ call' = [call EXCEPT ![c] = [id |-> nextRequestId[c], op |-> op]]
  /\ numTimeouts' = [numTimeouts EXCEPT ![c] = 0]
  /\ requests' = requests \cup {Request(c, n, op)}
  /\ UNCHANGED <<server, files, nextRequestId, replies, openedBy>>

\* One turn of the outer loop: a packet, a new number, and the datagram.
Attempt(c, n, op) ==
  /\ call' = [call EXCEPT ![c] = [id |-> nextRequestId[c], op |-> op]]
  /\ nextRequestId' = [nextRequestId EXCEPT ![c] = @ + 1]
  /\ numTimeouts' = [numTimeouts EXCEPT ![c] = 0]
  /\ requests' = requests \cup {Request(c, n, op)}
  /\ UNCHANGED <<server, files, replies, openedBy>>

Begin(c, op) ==
  /\ call[c] = NoCall
  /\ calls[c] < MaxCalls
  /\ calls' = [calls EXCEPT ![c] = @ + 1]
  /\ Attempt(c, calls[c] + 1, op)

Open(c) == \E p \in Paths, m \in Modes :
  Begin(c, [cmd |-> "Open", path |-> p, mode |-> m])
Close(c) == \E f \in files[c] :
  Begin(c, [cmd |-> "Close", fileId |-> f.fileId])
Read(c) == \E f \in files[c] :
  Begin(c, [cmd |-> "Read", fileId |-> f.fileId, pos |-> f.pos])
Write(c) == \E f \in files[c], b \in Blocks :
  Begin(c, [cmd |-> "Write", fileId |-> f.fileId, pos |-> f.pos, block |-> b])
Delete(c) == \E p \in Paths :
  Begin(c, [cmd |-> "Delete", path |-> p])
Rename(c) == \E p, q \in Paths :
  Begin(c, [cmd |-> "Rename", path |-> p, to |-> q])

\* The Files the caller holds when its method returns.  FileClose frees the File
\* object whatever the method returns.
OpenReturns(held, op, ans) ==
  IF ~ans.done THEN held
  ELSE held \cup {[fileId |-> ans.fileId, path |-> op.path, mode |-> op.mode, pos |-> 0]}
CloseReturns(held, op) == {f \in held : f.fileId # op.fileId}
ReadReturns(held, op, ans) ==
  {IF f.fileId = op.fileId THEN [f EXCEPT !.pos = @ + Len(ans.blocks)] ELSE f : f \in held}

\* Variant to reject: the position moves on whatever the answer is.
WriteReturnsFurtherOn(held, op, ans) ==
  {IF f.fileId = op.fileId THEN [f EXCEPT !.pos = @ + 1] ELSE f : f \in held}

WriteReturns(held, op, ans) == ReadReturns(held, op, ans)

DeleteReturns(held) == held
RenameReturns(held) == held

Left(held, op, ans) ==
  CASE op.cmd = "Open" -> OpenReturns(held, op, ans)
    [] op.cmd = "Close" -> CloseReturns(held, op)
    [] op.cmd = "Read" -> ReadReturns(held, op, ans)
    [] op.cmd = "Write" -> WriteReturns(held, op, ans)
    [] op.cmd = "Delete" -> DeleteReturns(held)
    [] op.cmd = "Rename" -> RenameReturns(held)

Finish(c, ans) ==
  /\ files' = [files EXCEPT ![c] = Left(@, call[c].op, ans)]
  /\ call' = [call EXCEPT ![c] = NoCall]
  /\ numTimeouts' = [numTimeouts EXCEPT ![c] = 0]
  /\ UNCHANGED <<server, calls, nextRequestId, requests, replies, openedBy>>

\* A tick of the timer is found while there is no reply; the second one ends
\* the attempt, and the request is sent again.  Ticks that came between two
\* calls count as well: a tick may be there at any time.
TimedOut(c) ==
  /\ call[c] # NoCall
  /\ numTimeouts[c] = 0
  /\ numTimeouts' = [numTimeouts EXCEPT ![c] = 1]
  /\ UNCHANGED <<server, files, calls, call, nextRequestId, requests, replies, openedBy>>

Resend(c) ==
  /\ call[c] # NoCall
  /\ numTimeouts[c] = 1
  /\ nextRequestId[c] <= calls[c] + MaxResends
  /\ Attempt(c, calls[c], call[c].op)
  /\ UNCHANGED calls

\* No packet for the next attempt, or UdpSocketSend or UdpSocketReceive fails.
GiveUp(c) ==
  /\ call[c] # NoCall
  /\ Finish(c, Failed)

\* Variant to reject: any reply to a request of the same kind is taken.
IsAnyReplyTo(c, r) ==
  /\ r.client = c
  /\ r.cmd = call[c].op.cmd

\* Any other packet that arrives is freed and has no effect.
IsReplyTo(c, r) ==
  /\ r.client = c
  /\ r.cmd = call[c].op.cmd
  /\ r.id = call[c].id

Receive(c) ==
  /\ call[c] # NoCall
  /\ \E r \in replies : IsReplyTo(c, r) /\ Finish(c, r.ans)

-----------------------------------------------------------------------------
(* The server's loop *)

\* seekOpenFile compares neither the path nor anything else.
Opened(m) == {e \in open : /\ openedBy[e.fileId] = m.id
                           /\ e.mode = m.op.mode
                           /\ e.client = m.client}

ServeOpen(m, ans) ==
  /\ m.op.cmd = "Open"
  /\ \/ /\ \E e \in Opened(m) : ans = Done(e.fileId, << >>)
        /\ UNCHANGED <<server, openedBy>>
     \/ /\ Opened(m) = {}
        /\ OpenFile(m.client, m.call, m.op, ans)
        /\ openedBy' = IF nextFileId' = nextFileId THEN openedBy
                       ELSE Append(openedBy, m.id)

ServeOther(m, ans) ==
  /\ Perform(m.client, m.op, ans)
  /\ UNCHANGED openedBy

Reply(m, ans) ==
  [client |-> m.client, id |-> m.id, call |-> m.call, cmd |-> m.op.cmd, ans |-> ans]

Serve(m) == \E ans \in Answers :
  /\ ServeOpen(m, ans) \/ ServeOther(m, ans)
  /\ replies' = replies \cup {Reply(m, ans)}
  /\ Cardinality(replies') <= MaxReplies

Exit(m) ==
  /\ CannotChange(m.op)
  /\ UNCHANGED <<replies, openedBy>>

ServeNext == \E m \in requests :
  /\ up
  /\ Serve(m) \/ Exit(m)
  /\ UNCHANGED <<client, requests>>

-----------------------------------------------------------------------------
Methods(c) == Open(c) \/ Close(c) \/ Read(c) \/ Write(c) \/ Delete(c) \/ Rename(c)

Next ==
  \/ \E c \in Clients : \/ Methods(c) \/ TimedOut(c) \/ Resend(c)
                        \/ GiveUp(c) \/ Receive(c)
  \/ ServeNext

Spec == Init /\ [][Next]_vars

-----------------------------------------------------------------------------
(* Properties *)

Closing(c, i) == call[c] # NoCall /\ call[c].op.cmd = "Close" /\ call[c].op.fileId = i

\* A File that a program holds and is not closing is one that the server has
\* open for it, under the path and in the mode the program asked for: no
\* retry, late request or late answer closes it or gives it another's entry.
HandlesAreOpen ==
  \A c \in Clients : \A f \in files[c] :
    Closing(c, f.fileId)
      \/ \E e \in Entry(c, f.fileId) : e.path = f.path /\ e.mode = f.mode

\* A write carries the position it is meant for, and the position moves on with
\* an answer only, so doing a write again, or late, leaves no hole in a file.
NoHoles == \A i \in 1 .. Len(data) : \A k \in 1 .. Len(data[i]) : data[i][k] # Hole

\* The numbers and timeouts implement the service: whatever is lost, repeated
\* or late, a call returns an answer the server gave to that call.
Service == INSTANCE FileService WITH
  doing <- [c \in Clients |-> IF call[c] = NoCall THEN None ELSE call[c].op],
  asked <- {[client |-> m.client, call |-> m.call, op |-> m.op] : m \in requests},
  answers <- {[client |-> r.client, call |-> r.call, ans |-> r.ans] : r \in replies}
ImplementsService == Service!Spec
=============================================================================
