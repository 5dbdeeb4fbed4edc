----------------------------- MODULE DumbFSProofs -----------------------------
(***************************************************************************)
(* For every number of clients, calls, retries and replies, and whatever   *)
(* the network loses, repeats or delays: a File that a program holds is    *)
(* open at the server, repeated writes leave files whole, and a call gets  *)
(* an answer to itself or none.                                            *)
(*                                                                         *)
(* The numbers of requests carry the argument.  A number stands for one    *)
(* request, an entry belongs to the number that opened it, and an answer   *)
(* that grants an entry says so; the entry is there until a Close is sent, *)
(* which only a program that was granted it in an earlier call can do.     *)
(* So no Close that is under way, however late, is for a new entry.        *)
(*                                                                         *)
(* Then the positions.  Files only grow, so what was once in reach of an   *)
(* entry stays in reach: the position of every File, of every read and     *)
(* write under way however old, and the one that an answer moves its File  *)
(* on to.  That one counts from the position in the request, and the File  *)
(* is still there when the answer comes: it is the program's one call.     *)
(***************************************************************************)
EXTENDS DumbFS, TLAPS

Shape ==
  /\ files = [c \in Clients |-> files[c]]
  /\ call = [c \in Clients |-> call[c]]
  /\ calls \in [Clients -> Nat]
  /\ nextRequestId \in [Clients -> Nat \ {0}]
  /\ nextFileId \in Nat \ {0}
  /\ openedBy \in Seq(Nat) /\ Len(openedBy) = nextFileId - 1

Commands == {"Open", "Close", "Read", "Write", "Delete", "Rename"}

Numbered ==
  /\ \A m \in requests : /\ m.client \in Clients
                         /\ m.id \in Nat /\ m.id < nextRequestId[m.client]
                         /\ m.call \in Nat /\ m.call <= calls[m.client]
                         /\ m.op.cmd \in Commands
  /\ \A m, w \in requests : m.client = w.client /\ m.id = w.id => m = w

\* A call has sent a request; the latest has the number it waits for.
Pending ==
  \A c \in Clients : call[c] # NoCall =>
    \E m \in requests : /\ m.client = c /\ m.id = call[c].id
                        /\ m.call = calls[c] /\ m.op = call[c].op

AnswersAsked ==
  \A r \in replies : \E m \in requests :
    m.client = r.client /\ m.id = r.id /\ m.call = r.call /\ m.op.cmd = r.cmd

Asks(m, c, id, file) ==
  m.client = c /\ m.id = id /\ m.op.cmd = "Open" /\ m.op.path = file.path /\ m.op.mode = file.mode

EntriesAsked ==
  \A e \in open : /\ e.fileId \in 1 .. nextFileId - 1
                  /\ \E m \in requests : Asks(m, e.client, openedBy[e.fileId], e)

Granted(r) == r.cmd = "Open" /\ r.ans.done
CloseOf(m, c, i) == m.client = c /\ m.op.cmd = "Close" /\ m.op.fileId = i

\* What an Open was granted is an entry of its own number, until there is a Close.
GrantedIsOpen ==
  \A r \in replies : Granted(r) =>
    /\ r.ans.fileId \in 1 .. nextFileId - 1
    /\ openedBy[r.ans.fileId] = r.id
    /\ \/ \E m \in requests : CloseOf(m, r.client, r.ans.fileId)
       \/ \E e \in open : /\ e.client = r.client /\ e.fileId = r.ans.fileId
                          /\ \E m \in requests : Asks(m, r.client, r.id, e)

GrantedBefore(c, i, n) ==
  \E r \in replies : Granted(r) /\ r.client = c /\ r.ans.fileId = i /\ r.call < n

ClosesGranted ==
  \A m \in requests : m.op.cmd = "Close" => GrantedBefore(m.client, m.op.fileId, m.call)

HeldIsGranted ==
  \A c \in Clients : \A f \in files[c] :
    /\ \E r \in replies : /\ Granted(r) /\ r.client = c /\ r.ans.fileId = f.fileId
                          /\ \E m \in requests : Asks(m, c, r.id, f)
    /\ GrantedBefore(c, f.fileId, calls[c] + 1)
    /\ \A m \in requests : CloseOf(m, c, f.fileId) => Closing(c, f.fileId)

IInv == Shape /\ Numbered /\ Pending /\ AnswersAsked /\ EntriesAsked
          /\ GrantedIsOpen /\ ClosesGranted /\ HeldIsGranted

LEMMA InitIInv == Init => IInv
<1> SUFFICES ASSUME Init PROVE IInv
  OBVIOUS
<1> USE DEF Init, ServerInit
<1>1. Shape
  BY DEF Shape
<1>2. Numbered /\ Pending /\ AnswersAsked
  BY DEF Numbered, Pending, AnswersAsked
<1>3. EntriesAsked /\ GrantedIsOpen /\ ClosesGranted /\ HeldIsGranted
  BY DEF EntriesAsked, GrantedIsOpen, ClosesGranted, HeldIsGranted
<1> QED
  BY <1>1, <1>2, <1>3 DEF IInv

-----------------------------------------------------------------------------
(* The client *)

\* One turn of a call: n is its number, and it is a Close only for a file that
\* was granted before.
LEMMA AttemptStep ==
  ASSUME IInv, NEW c \in Clients, NEW n \in Nat, NEW op, Attempt(c, n, op),
         calls' \in [Clients -> Nat], calls'[c] = n, calls[c] <= n,
         \A d \in Clients \ {c} : calls'[d] = calls[d],
         op.cmd = "Close" => GrantedBefore(c, op.fileId, n),
         call[c] = NoCall \/ call[c].op = op, op.cmd \in Commands
  PROVE  IInv'
<1> DEFINE new == Request(c, n, op)
<1>1. /\ new.client = c /\ new.id = nextRequestId[c] /\ new.call = n /\ new.op = op
      /\ requests' = requests \cup {new}
      /\ UNCHANGED <<open, nextFileId, files, replies, openedBy>>
  BY DEF Attempt, Request, server
<1> HIDE DEF new
<1>2. /\ nextRequestId' \in [Clients -> Nat \ {0}]
      /\ nextRequestId'[c] = nextRequestId[c] + 1
      /\ \A d \in Clients : nextRequestId[d] <= nextRequestId'[d]
      /\ nextRequestId[c] \in Nat \ {0}
  BY DEF IInv, Shape, Attempt
<1>3. /\ call' = [d \in Clients |-> call'[d]]
      /\ call'[c] = [id |-> nextRequestId[c], op |-> op]
      /\ \A d \in Clients \ {c} : call'[d] = call[d]
  BY DEF IInv, Shape, Attempt
<1>4. call'[c] # NoCall /\ call'[c].id = nextRequestId[c] /\ call'[c].op = op
  BY <1>2, <1>3 DEF NoCall
<1>5. \A d \in Clients : calls[d] \in Nat /\ calls'[d] \in Nat /\ calls[d] <= calls'[d]
  <2>1. calls \in [Clients -> Nat]
    BY DEF IInv, Shape
  <2> QED
    BY <2>1
<1>6. Shape'
  BY <1>1, <1>2, <1>3 DEF IInv, Shape
<1>7. Numbered'
  <2>1. \A m \in requests' : /\ m.client \in Clients
                             /\ m.id \in Nat /\ m.id < nextRequestId'[m.client]
                             /\ m.call \in Nat /\ m.call <= calls'[m.client]
                             /\ m.op.cmd \in Commands
    <3>1. ASSUME NEW m \in requests
          PROVE  /\ m.client \in Clients
                 /\ m.id \in Nat /\ m.id < nextRequestId'[m.client]
                 /\ m.call \in Nat /\ m.call <= calls'[m.client]
                 /\ m.op.cmd \in Commands
      <4>1. /\ m.client \in Clients /\ m.id \in Nat /\ m.id < nextRequestId[m.client]
            /\ m.call \in Nat /\ m.call <= calls[m.client]
            /\ m.op.cmd \in Commands
        BY DEF IInv, Numbered
      <4>2. nextRequestId[m.client] \in Nat /\ nextRequestId'[m.client] \in Nat
        BY <1>2, <4>1 DEF IInv, Shape
      <4> QED
        BY <1>2, <1>5, <4>1, <4>2
    <3>2. /\ new.client \in Clients
          /\ new.id \in Nat /\ new.id < nextRequestId'[new.client]
          /\ new.call \in Nat /\ new.call <= calls'[new.client]
          /\ new.op.cmd \in Commands
      BY <1>1, <1>2
    <3> QED
      BY <1>1, <3>1, <3>2
  <2>2. \A m \in requests : ~(m.client = c /\ m.id = nextRequestId[c])
    BY <1>2 DEF IInv, Numbered
  <2>3. \A m, w \in requests' : m.client = w.client /\ m.id = w.id => m = w
    BY <1>1, <2>2 DEF IInv, Numbered
  <2> QED
    BY <2>1, <2>3 DEF Numbered
<1>8. Pending'
  BY <1>1, <1>3, <1>4 DEF IInv, Pending
<1>9. AnswersAsked'
  BY <1>1 DEF IInv, AnswersAsked
<1>10. EntriesAsked'
  BY <1>1 DEF IInv, EntriesAsked
<1>11. GrantedIsOpen'
  BY <1>1 DEF IInv, GrantedIsOpen
<1>12. \A d, i, k : GrantedBefore(d, i, k)' <=> GrantedBefore(d, i, k)
  BY <1>1 DEF GrantedBefore
<1>13. ClosesGranted'
  BY <1>1, <1>12 DEF IInv, ClosesGranted
<1>14. HeldIsGranted'
  <2> SUFFICES ASSUME NEW d \in Clients, NEW f \in files[d]
               PROVE  /\ \E r \in replies :
                           /\ Granted(r) /\ r.client = d /\ r.ans.fileId = f.fileId
                           /\ \E m \in requests' : Asks(m, d, r.id, f)
                      /\ GrantedBefore(d, f.fileId, calls'[d] + 1)
                      /\ \A m \in requests' : CloseOf(m, d, f.fileId) => Closing(d, f.fileId)'
    BY <1>1, <1>12 DEF HeldIsGranted
  <2>1. PICK r \in replies : /\ Granted(r) /\ r.client = d /\ r.ans.fileId = f.fileId
                             /\ \E m \in requests : Asks(m, d, r.id, f)
    BY DEF IInv, HeldIsGranted
  <2>2. GrantedBefore(d, f.fileId, calls'[d] + 1)
    <3>1. PICK q \in replies : /\ Granted(q) /\ q.client = d /\ q.ans.fileId = f.fileId
                               /\ q.call < calls[d] + 1
      BY DEF IInv, HeldIsGranted, GrantedBefore
    <3>2. q.call \in Nat
      BY DEF IInv, AnswersAsked, Numbered
    <3> QED
      BY <1>5, <3>1, <3>2 DEF GrantedBefore
  <2>3. ASSUME NEW m \in requests', CloseOf(m, d, f.fileId) PROVE Closing(d, f.fileId)'
    <3>1. CASE m = new
      BY <1>1, <1>4, <2>3, <3>1 DEF CloseOf, Closing
    <3>2. CASE m \in requests
      <4>1. Closing(d, f.fileId)
        BY <2>3, <3>2 DEF IInv, HeldIsGranted
      <4> QED
        BY <1>3, <1>4, <4>1 DEF Closing
    <3> QED
      BY <1>1, <3>1, <3>2
  <2> QED
    BY <1>1, <2>1, <2>2, <2>3
<1> QED
  BY <1>6, <1>7, <1>8, <1>9, <1>10, <1>11, <1>13, <1>14 DEF IInv

LEMMA BeginStep ==
  ASSUME IInv, NEW c \in Clients, NEW op, Begin(c, op), op.cmd \in Commands,
         op.cmd = "Close" => \E f \in files[c] : op.fileId = f.fileId
  PROVE  IInv'
<1>1. /\ calls[c] \in Nat /\ calls' \in [Clients -> Nat] /\ calls'[c] = calls[c] + 1
      /\ \A d \in Clients \ {c} : calls'[d] = calls[d]
      /\ call[c] = NoCall /\ Attempt(c, calls[c] + 1, op)
  BY DEF Begin, IInv, Shape
<1>2. op.cmd = "Close" => GrantedBefore(c, op.fileId, calls[c] + 1)
  BY DEF IInv, HeldIsGranted
<1> QED
  BY <1>1, <1>2, AttemptStep

LEMMA MethodStep == IInv /\ (\E c \in Clients : Methods(c)) => IInv'
<1> SUFFICES ASSUME IInv, NEW c \in Clients, Methods(c) PROVE IInv'
  OBVIOUS
<1>1. CASE Open(c)
  <2>1. PICK p \in Paths, m \in Modes : Begin(c, [cmd |-> "Open", path |-> p, mode |-> m])
    BY <1>1 DEF Open
  <2> QED
    BY <2>1, BeginStep DEF Commands
<1>2. CASE Close(c)
  <2>1. PICK f \in files[c] : Begin(c, [cmd |-> "Close", fileId |-> f.fileId])
    BY <1>2 DEF Close
  <2> QED
    BY <2>1, BeginStep DEF Commands
<1>3. CASE Read(c)
  <2>1. PICK f \in files[c] : Begin(c, [cmd |-> "Read", fileId |-> f.fileId, pos |-> f.pos])
    BY <1>3 DEF Read
  <2> QED
    BY <2>1, BeginStep DEF Commands
<1>4. CASE Write(c)
  <2>1. PICK f \in files[c], b \in Blocks :
          Begin(c, [cmd |-> "Write", fileId |-> f.fileId, pos |-> f.pos, block |-> b])
    BY <1>4 DEF Write
  <2> QED
    BY <2>1, BeginStep DEF Commands
<1>5. CASE Delete(c)
  <2>1. PICK p \in Paths : Begin(c, [cmd |-> "Delete", path |-> p])
    BY <1>5 DEF Delete
  <2> QED
    BY <2>1, BeginStep DEF Commands
<1>6. CASE Rename(c)
  <2>1. PICK p \in Paths, q \in Paths : Begin(c, [cmd |-> "Rename", path |-> p, to |-> q])
    BY <1>6 DEF Rename
  <2> QED
    BY <2>1, BeginStep DEF Commands
<1> QED
  BY <1>1, <1>2, <1>3, <1>4, <1>5, <1>6 DEF Methods

LEMMA ResendStep == IInv /\ (\E c \in Clients : Resend(c)) => IInv'
<1> SUFFICES ASSUME IInv, NEW c \in Clients, Resend(c) PROVE IInv'
  OBVIOUS
<1>1. /\ call[c] # NoCall /\ Attempt(c, calls[c], call[c].op) /\ calls' = calls
      /\ calls \in [Clients -> Nat] /\ calls[c] \in Nat
  BY DEF Resend, IInv, Shape
<1>2. PICK m \in requests : m.client = c /\ m.call = calls[c] /\ m.op = call[c].op
  BY <1>1 DEF IInv, Pending
<1>4. call[c].op.cmd \in Commands
  BY <1>2 DEF IInv, Numbered
<1>3. call[c].op.cmd = "Close" => GrantedBefore(c, call[c].op.fileId, calls[c])
  BY <1>2 DEF IInv, ClosesGranted
<1> QED
  BY <1>1, <1>3, <1>4, AttemptStep

\* A call returns: the caller holds what it held, or a File that it was granted
\* just now, and a file that was being closed is no longer held.
LEMMA FinishStep ==
  ASSUME IInv, NEW c \in Clients, call[c] # NoCall, NEW ans, Finish(c, ans),
         ans = Failed \/ \E r \in replies : IsReplyTo(c, r) /\ ans = r.ans
  PROVE  IInv'
<1> DEFINE op == call[c].op
<1>1. /\ UNCHANGED <<open, nextFileId, calls, nextRequestId, requests, replies, openedBy>>
      /\ files' = [files EXCEPT ![c] = Left(@, op, ans)] /\ call' = [call EXCEPT ![c] = NoCall]
  BY DEF Finish, server
<1>2. /\ files' = [d \in Clients |-> files'[d]] /\ files'[c] = Left(files[c], op, ans)
      /\ \A d \in Clients \ {c} : files'[d] = files[d]
      /\ call' = [d \in Clients |-> call'[d]] /\ call'[c] = NoCall
      /\ \A d \in Clients \ {c} : call'[d] = call[d]
  BY <1>1 DEF IInv, Shape
<1> HIDE DEF op
<1>3. Shape'
  BY <1>1, <1>2 DEF IInv, Shape
<1>4. Numbered' /\ AnswersAsked' /\ EntriesAsked' /\ GrantedIsOpen'
  BY <1>1 DEF IInv, Numbered, AnswersAsked, EntriesAsked, GrantedIsOpen
<1>5. Pending'
  BY <1>1, <1>2 DEF IInv, Pending
<1>6. \A d, i, k : GrantedBefore(d, i, k)' <=> GrantedBefore(d, i, k)
  BY <1>1 DEF GrantedBefore
<1>7. ClosesGranted'
  BY <1>1, <1>6 DEF IInv, ClosesGranted
<1>8. ASSUME NEW f \in files[c], ~Closing(c, f.fileId)
      PROVE  /\ \E r \in replies : /\ Granted(r) /\ r.client = c /\ r.ans.fileId = f.fileId
                                   /\ \E m \in requests : Asks(m, c, r.id, f)
             /\ GrantedBefore(c, f.fileId, calls[c] + 1)
             /\ \A m \in requests : ~CloseOf(m, c, f.fileId)
  BY <1>8 DEF IInv, HeldIsGranted
\* What is held afterwards: the new File, or one held before.
<1>9. ASSUME NEW g \in files'[c]
      PROVE  \/ \E f \in files[c] : /\ f.fileId = g.fileId /\ f.path = g.path /\ f.mode = g.mode
                                    /\ ~Closing(c, f.fileId)
             \/ /\ op.cmd = "Open" /\ ans.done
                /\ g = [fileId |-> ans.fileId, path |-> op.path, mode |-> op.mode, pos |-> 0]
  <2>0. op.cmd \in Commands
    BY DEF IInv, Pending, Numbered, op
  <2>1. CASE op.cmd = "Open"
    BY <1>2, <2>1, <1>9 DEF Left, OpenReturns, Closing, op
  <2>2. CASE op.cmd = "Close"
    BY <1>2, <2>2, <1>9 DEF Left, CloseReturns, Closing, op
  <2>3. CASE op.cmd \in {"Read", "Write"}
    <3>1. files'[c] = {IF f.fileId = op.fileId THEN [f EXCEPT !.pos = @ + Len(ans.blocks)] ELSE f :
                         f \in files[c]}
      BY <1>2, <2>3 DEF Left, ReadReturns, WriteReturns
    <3>2. PICK f \in files[c] :
            g = IF f.fileId = op.fileId THEN [f EXCEPT !.pos = @ + Len(ans.blocks)] ELSE f
      BY <3>1
    <3>3. g.fileId = f.fileId /\ g.path = f.path /\ g.mode = f.mode
      BY <3>2
    <3> QED
      BY <2>3, <3>3 DEF Closing, op
  <2>4. CASE op.cmd \in {"Delete", "Rename"}
    BY <1>2, <2>4, <1>9 DEF Left, DeleteReturns, RenameReturns, Closing, op
  <2> QED
    BY <2>0, <2>1, <2>2, <2>3, <2>4 DEF Commands
\* The new File: a Close for its number would have been sent in a later call.
<1>10. ASSUME op.cmd = "Open", ans.done, NEW g,
              g = [fileId |-> ans.fileId, path |-> op.path, mode |-> op.mode, pos |-> 0]
       PROVE  /\ \E r \in replies : /\ Granted(r) /\ r.client = c /\ r.ans.fileId = g.fileId
                                    /\ \E m \in requests : Asks(m, c, r.id, g)
              /\ GrantedBefore(c, g.fileId, calls[c] + 1)
              /\ \A m \in requests : ~CloseOf(m, c, g.fileId)
  <2>0. g.fileId = ans.fileId /\ g.path = op.path /\ g.mode = op.mode
    BY <1>10
  <2>1. PICK r \in replies : r.client = c /\ r.cmd = op.cmd /\ r.id = call[c].id /\ ans = r.ans
    BY <1>10 DEF Failed, IsReplyTo, op
  <2>2. Granted(r)
    BY <1>10, <2>1 DEF Granted
  <2>3. PICK m \in requests : /\ m.client = c /\ m.id = call[c].id /\ m.call = calls[c] /\ m.op = op
    BY DEF IInv, Pending, op
  <2>4. Asks(m, c, r.id, g)
    BY <1>10, <2>0, <2>1, <2>3 DEF Asks
  <2>5. ASSUME NEW q \in replies, Granted(q), q.client = c, q.ans.fileId = g.fileId
        PROVE  q.call = calls[c]
    <3>1. q.id = r.id
      BY <2>0, <2>1, <2>2, <2>5 DEF IInv, GrantedIsOpen
    <3>2. PICK w \in requests : w.client = c /\ w.id = q.id /\ w.call = q.call
      BY <2>5 DEF IInv, AnswersAsked
    <3>3. w = m
      BY <2>1, <2>3, <3>1, <3>2 DEF IInv, Numbered
    <3> QED
      BY <2>3, <3>2, <3>3
  <2>6. calls[c] \in Nat
    BY DEF IInv, Shape
  <2>7. GrantedBefore(c, g.fileId, calls[c] + 1)
    BY <2>0, <2>1, <2>2, <2>5, <2>6 DEF GrantedBefore
  <2>8. ASSUME NEW w \in requests, CloseOf(w, c, g.fileId) PROVE FALSE
    <3>1. GrantedBefore(c, g.fileId, w.call)
      BY <2>8 DEF IInv, ClosesGranted, CloseOf
    <3>2. w.call \in Nat /\ w.call <= calls[c]
      BY <2>8 DEF IInv, Numbered, CloseOf
    <3> QED
      BY <2>5, <2>6, <3>1, <3>2 DEF GrantedBefore
  <2> QED
    BY <2>0, <2>1, <2>2, <2>3, <2>4, <2>7, <2>8
<1>11. HeldIsGranted'
  <2> SUFFICES ASSUME NEW d \in Clients, NEW g \in files'[d]
               PROVE  /\ \E r \in replies :
                           /\ Granted(r) /\ r.client = d /\ r.ans.fileId = g.fileId
                           /\ \E m \in requests : Asks(m, d, r.id, g)
                      /\ GrantedBefore(d, g.fileId, calls[d] + 1)
                      /\ \A m \in requests : CloseOf(m, d, g.fileId) => Closing(d, g.fileId)'
    BY <1>1, <1>6 DEF HeldIsGranted
  <2>1. CASE d # c
    <3>1. files'[d] = files[d] /\ (Closing(d, g.fileId)' <=> Closing(d, g.fileId))
      BY <1>2, <2>1 DEF Closing
    <3> QED
      BY <3>1 DEF IInv, HeldIsGranted
  <2>2. CASE d = c
    <3>1. CASE \E f \in files[c] : /\ f.fileId = g.fileId /\ f.path = g.path /\ f.mode = g.mode
                                   /\ ~Closing(c, f.fileId)
      BY <1>8, <2>2, <3>1 DEF Asks
    <3>2. CASE /\ op.cmd = "Open" /\ ans.done
               /\ g = [fileId |-> ans.fileId, path |-> op.path, mode |-> op.mode, pos |-> 0]
      BY <1>10, <2>2, <3>2
    <3> QED
      BY <1>9, <2>2, <3>1, <3>2
  <2> QED
    BY <2>1, <2>2
<1> QED
  BY <1>3, <1>4, <1>5, <1>7, <1>11 DEF IInv

LEMMA ReturnStep == IInv /\ (\E c \in Clients : GiveUp(c) \/ Receive(c)) => IInv'
<1> SUFFICES ASSUME IInv, NEW c \in Clients, GiveUp(c) \/ Receive(c) PROVE IInv'
  OBVIOUS
<1>1. CASE GiveUp(c)
  BY <1>1, FinishStep DEF GiveUp
<1>2. CASE Receive(c)
  BY <1>2, FinishStep DEF Receive
<1> QED
  BY <1>1, <1>2

\* A tick, and what the server does to its files only.
LEMMA Frame ==
  ASSUME IInv, UNCHANGED <<files, calls, call, nextRequestId, requests, replies, openedBy,
                           open, nextFileId>>
  PROVE  IInv'
<1>1. Shape' /\ Numbered' /\ Pending' /\ AnswersAsked' /\ EntriesAsked' /\ GrantedIsOpen'
  BY DEF IInv, Shape, Numbered, Pending, AnswersAsked, EntriesAsked, GrantedIsOpen
<1>2. \A d, i, k : GrantedBefore(d, i, k)' <=> GrantedBefore(d, i, k)
  BY DEF GrantedBefore
<1>3. ClosesGranted'
  BY <1>2 DEF IInv, ClosesGranted
<1>4. HeldIsGranted'
  BY <1>2 DEF IInv, HeldIsGranted, Closing
<1> QED
  BY <1>1, <1>3, <1>4 DEF IInv

-----------------------------------------------------------------------------
(* The server *)

LEMMA Wider ==
  ASSUME NEW a \in Nat, NEW b \in Nat, a <= b, NEW i \in 1 .. a - 1
  PROVE  i \in 1 .. b - 1
OBVIOUS

\* Whatever it does, it answers m, keeps the entries that no Close was sent for,
\* and grants only entries of m's own number.
LEMMA ServedStep ==
  ASSUME IInv, NEW m \in requests, NEW ans, UNCHANGED <<client, requests>>,
         replies' = replies \cup {Reply(m, ans)},
         \A e \in open : e \in open' \/ CloseOf(m, e.client, e.fileId),
         nextFileId' \in Nat, nextFileId <= nextFileId',
         openedBy' \in Seq(Nat), Len(openedBy') = nextFileId' - 1,
         \A i \in 1 .. nextFileId - 1 : openedBy'[i] = openedBy[i],
         \A e \in open' : e \in open \/ (/\ e.fileId \in 1 .. nextFileId' - 1
                                         /\ Asks(m, e.client, openedBy'[e.fileId], e)),
         m.op.cmd = "Open" /\ ans.done =>
           /\ ans.fileId \in 1 .. nextFileId' - 1
           /\ openedBy'[ans.fileId] = m.id
           /\ \E e \in open' : e.client = m.client /\ e.fileId = ans.fileId
                               /\ \E w \in requests : Asks(w, m.client, m.id, e)
  PROVE  IInv'
<1> DEFINE new == Reply(m, ans)
<1>1. /\ new.client = m.client /\ new.id = m.id /\ new.call = m.call
      /\ new.cmd = m.op.cmd /\ new.ans = ans /\ replies' = replies \cup {new}
  BY DEF Reply
<1> HIDE DEF new
<1>2. UNCHANGED <<files, calls, call, nextRequestId, requests>>
  BY DEF client
<1>3. nextFileId \in Nat \ {0} /\ nextFileId' \in Nat \ {0}
  BY DEF IInv, Shape
<1>11. \A i \in 1 .. nextFileId - 1 : i \in 1 .. nextFileId' - 1 /\ openedBy'[i] = openedBy[i]
  <2> SUFFICES ASSUME NEW i \in 1 .. nextFileId - 1
               PROVE  i \in 1 .. nextFileId' - 1
    OBVIOUS
  <2> QED
    BY <1>3, Wider
<1>4. Shape' /\ Numbered' /\ Pending'
  BY <1>2, <1>3 DEF IInv, Shape, Numbered, Pending
<1>5. AnswersAsked'
  BY <1>1, <1>2 DEF IInv, AnswersAsked
<1>6. EntriesAsked'
  <2> SUFFICES ASSUME NEW e \in open'
               PROVE  /\ e.fileId \in 1 .. nextFileId' - 1
                      /\ \E w \in requests : Asks(w, e.client, openedBy'[e.fileId], e)
    BY <1>2 DEF EntriesAsked
  <2>1. CASE e \in open
    BY <1>11, <2>1 DEF IInv, EntriesAsked
  <2> QED
    BY <2>1
<1>7. GrantedIsOpen'
  <2> SUFFICES ASSUME NEW r \in replies', Granted(r)
               PROVE  /\ r.ans.fileId \in 1 .. nextFileId' - 1
                      /\ openedBy'[r.ans.fileId] = r.id
                      /\ \/ \E w \in requests : CloseOf(w, r.client, r.ans.fileId)
                         \/ \E e \in open' : /\ e.client = r.client /\ e.fileId = r.ans.fileId
                                             /\ \E w \in requests : Asks(w, r.client, r.id, e)
    BY <1>2 DEF GrantedIsOpen
  <2>1. CASE r = new
    BY <1>1, <2>1 DEF Granted
  <2>2. CASE r \in replies
    <3>1. /\ r.ans.fileId \in 1 .. nextFileId - 1
          /\ openedBy[r.ans.fileId] = r.id
          /\ \/ \E w \in requests : CloseOf(w, r.client, r.ans.fileId)
             \/ \E e \in open : /\ e.client = r.client /\ e.fileId = r.ans.fileId
                                /\ \E w \in requests : Asks(w, r.client, r.id, e)
      BY <2>2 DEF IInv, GrantedIsOpen
    <3>2. r.ans.fileId \in 1 .. nextFileId' - 1 /\ openedBy'[r.ans.fileId] = r.id
      BY <1>11, <3>1
    <3> QED
      BY <3>1, <3>2
  <2> QED
    BY <1>1, <2>1, <2>2
<1>8. \A d, i, k : GrantedBefore(d, i, k) => GrantedBefore(d, i, k)'
  BY <1>1 DEF GrantedBefore
<1>9. ClosesGranted'
  BY <1>2, <1>8 DEF IInv, ClosesGranted
<1>10. HeldIsGranted'
  <2> SUFFICES ASSUME NEW c \in Clients, NEW f \in files[c]
               PROVE  /\ \E r \in replies' :
                           /\ Granted(r) /\ r.client = c /\ r.ans.fileId = f.fileId
                           /\ \E w \in requests : Asks(w, c, r.id, f)
                      /\ GrantedBefore(c, f.fileId, calls[c] + 1)'
                      /\ \A w \in requests : CloseOf(w, c, f.fileId) => Closing(c, f.fileId)'
    BY <1>2 DEF HeldIsGranted, GrantedBefore
  <2>1. /\ \E r \in replies : /\ Granted(r) /\ r.client = c /\ r.ans.fileId = f.fileId
                              /\ \E w \in requests : Asks(w, c, r.id, f)
        /\ GrantedBefore(c, f.fileId, calls[c] + 1)
        /\ \A w \in requests : CloseOf(w, c, f.fileId) => Closing(c, f.fileId)
    BY DEF IInv, HeldIsGranted
  <2>2. Closing(c, f.fileId)' <=> Closing(c, f.fileId)
    BY <1>2 DEF Closing
  <2>3. GrantedBefore(c, f.fileId, calls[c] + 1)'
    BY <1>2, <2>1, <1>1 DEF GrantedBefore
  <2> QED
    BY <1>1, <2>1, <2>2, <2>3
<1> QED
  BY <1>4, <1>5, <1>6, <1>7, <1>9, <1>10 DEF IInv

LEMMA ServeStep == IInv /\ ServeNext => IInv'
<1> SUFFICES ASSUME IInv, ServeNext PROVE IInv'
  OBVIOUS
<1>1. PICK m \in requests : (Serve(m) \/ Exit(m)) /\ UNCHANGED <<client, requests>>
  BY DEF ServeNext
<1>2. CASE Exit(m)
  BY <1>1, <1>2, Frame DEF Exit, CannotChange, client
<1>3. CASE Serve(m)
  <2>1. PICK ans : /\ ServeOpen(m, ans) \/ ServeOther(m, ans)
                   /\ replies' = replies \cup {Reply(m, ans)}
    BY <1>3 DEF Serve
  <2>2. /\ m.id \in Nat /\ nextFileId \in Nat \ {0}
        /\ openedBy \in Seq(Nat) /\ Len(openedBy) = nextFileId - 1
    BY DEF IInv, Numbered, Shape
  <2>3. CASE m.op.cmd # "Open" /\ UNCHANGED <<open, nextFileId, openedBy>>
    BY <1>1, <2>1, <2>2, <2>3, ServedStep
  <2>4. CASE ServeOther(m, ans)
    <3>1. m.op.cmd # "Open" /\ UNCHANGED <<nextFileId, openedBy>>
      BY <2>4 DEF ServeOther, Perform, CloseFile, ReadFile, WriteFile, DeleteFile, RenameFile, server
    <3>2. CASE m.op.cmd = "Close"
      <4>1. open' = open \ Entry(m.client, m.op.fileId)
        BY <2>4, <3>2 DEF ServeOther, Perform, CloseFile
      <4>2. \A e \in open : e \in open' \/ CloseOf(m, e.client, e.fileId)
        BY <3>2, <4>1 DEF Entry, CloseOf
      <4>3. \A e \in open' : e \in open
        BY <4>1
      <4> QED
        BY <1>1, <2>1, <2>2, <3>1, <4>2, <4>3, ServedStep
    <3>3. CASE m.op.cmd # "Close"
      <4>1. UNCHANGED open
        BY <2>4, <3>3 DEF ServeOther, Perform, ReadFile, WriteFile, DeleteFile, RenameFile, server
      <4> QED
        BY <2>3, <3>1, <4>1
    <3> QED
      BY <3>2, <3>3
  <2>5. CASE /\ m.op.cmd = "Open" /\ UNCHANGED <<server, openedBy>>
             /\ \E e \in Opened(m) : ans = Done(e.fileId, << >>)
    <3>1. PICK e \in Opened(m) : ans = Done(e.fileId, << >>)
      BY <2>5
    <3>2. /\ e \in open /\ openedBy[e.fileId] = m.id /\ e.client = m.client
          /\ ans.fileId = e.fileId
      BY <3>1 DEF Opened, Done
    <3>3. /\ e.fileId \in 1 .. nextFileId - 1
          /\ \E w \in requests : Asks(w, m.client, m.id, e)
      BY <3>2 DEF IInv, EntriesAsked
    <3>4. UNCHANGED <<open, nextFileId, openedBy>>
      BY <2>5 DEF server
    <3> QED
      BY <1>1, <2>1, <2>2, <3>2, <3>3, <3>4, ServedStep
  <2>6. CASE m.op.cmd = "Open" /\ ans = Failed /\ UNCHANGED <<server, openedBy>>
    <3>1. ~ans.done
      BY <2>6 DEF Failed
    <3>2. UNCHANGED <<open, nextFileId, openedBy>>
      BY <2>6 DEF server
    <3> QED
      BY <1>1, <2>1, <2>2, <3>1, <3>2, ServedStep
  <2>7. CASE /\ m.op.cmd = "Open" /\ ans = Done(nextFileId, << >>)
             /\ \E file : OpenEntry(m.client, m.call, m.op, file)
             /\ openedBy' = Append(openedBy, m.id)
    <3>1. PICK file : OpenEntry(m.client, m.call, m.op, file)
      BY <2>7
    <3> DEFINE e == [client |-> m.client, call |-> m.call, path |-> m.op.path,
                     mode |-> m.op.mode, fileId |-> nextFileId, file |-> file]
    <3>2. open' = open \cup {e} /\ nextFileId' = nextFileId + 1
      BY <3>1 DEF OpenEntry
    <3>3. /\ e.client = m.client /\ e.fileId = nextFileId
          /\ e.path = m.op.path /\ e.mode = m.op.mode
      OBVIOUS
    <3> HIDE DEF e
    <3>4. /\ openedBy' \in Seq(Nat) /\ Len(openedBy') = nextFileId' - 1
          /\ openedBy'[nextFileId] = m.id
          /\ \A i \in 1 .. nextFileId - 1 : openedBy'[i] = openedBy[i]
      BY <2>2, <2>7, <3>2
    <3>5. ans.fileId = nextFileId /\ nextFileId \in 1 .. nextFileId' - 1
      BY <2>2, <2>7, <3>2 DEF Done
    <3>6. Asks(m, e.client, m.id, e) /\ Asks(m, m.client, m.id, e)
      BY <2>7, <3>3 DEF Asks
    <3>7. \A x \in open' : x \in open \/ (/\ x.fileId \in 1 .. nextFileId' - 1
                                          /\ Asks(m, x.client, openedBy'[x.fileId], x))
      BY <3>2, <3>3, <3>4, <3>5, <3>6
    <3>8. /\ ans.fileId \in 1 .. nextFileId' - 1 /\ openedBy'[ans.fileId] = m.id
          /\ \E x \in open' : x.client = m.client /\ x.fileId = ans.fileId
                              /\ \E w \in requests : Asks(w, m.client, m.id, x)
      BY <3>2, <3>3, <3>4, <3>5, <3>6
    <3>9. /\ nextFileId' \in Nat /\ nextFileId <= nextFileId'
          /\ \A x \in open : x \in open' \/ CloseOf(m, x.client, x.fileId)
      BY <2>2, <3>2
    <3> QED
      BY ONLY IInv, m \in requests, <1>1, <2>1, <3>4, <3>7, <3>8, <3>9, ServedStep
  <2>8. CASE ServeOpen(m, ans)
    <3>1. m.op.cmd = "Open"
      BY <2>8 DEF ServeOpen
    <3>2. CASE Opened(m) # {}
      BY <2>5, <2>8, <3>1, <3>2 DEF ServeOpen
    <3>3. CASE Opened(m) = {}
      <4>1. /\ OpenFile(m.client, m.call, m.op, ans)
            /\ openedBy' = IF nextFileId' = nextFileId THEN openedBy ELSE Append(openedBy, m.id)
        BY <2>8, <3>3 DEF ServeOpen
      <4>2. CASE ans = Failed /\ UNCHANGED server
        BY <2>6, <3>1, <4>1, <4>2 DEF server
      <4>3. CASE ans = Done(nextFileId, << >>) /\ \E file : OpenEntry(m.client, m.call, m.op, file)
        <5>1. nextFileId' # nextFileId
          BY <2>2, <4>3 DEF OpenEntry
        <5> QED
          BY <2>7, <3>1, <4>1, <4>3, <5>1
      <4> QED
        BY <4>1, <4>2, <4>3 DEF OpenFile
    <3> QED
      BY <3>2, <3>3
  <2> QED
    BY <2>1, <2>4, <2>8
<1> QED
  BY <1>1, <1>2, <1>3

LEMMA NextIInv == IInv /\ [Next]_vars => IInv'
<1> SUFFICES ASSUME IInv, [Next]_vars PROVE IInv'
  OBVIOUS
<1>1. CASE \E c \in Clients : TimedOut(c)
  BY <1>1, Frame DEF TimedOut, server
<1>2. CASE UNCHANGED vars
  BY <1>2, Frame DEF vars, server, client
<1> QED
  BY <1>1, <1>2, MethodStep, ResendStep, ReturnStep, ServeStep DEF Next

-----------------------------------------------------------------------------
(* Positions *)

FileRecord == [fileId : Nat, path : Paths, mode : Modes, pos : Nat]

\* The files and the entries of the outside: what a file has is what was written.
HostOK ==
  /\ data \in Seq(Seq(Blocks))
  /\ names \in [Paths -> (1 .. Len(data)) \cup {None}]
  /\ \A e \in open : e.file \in 1 .. Len(data)
  /\ \A e, x \in open : e.fileId = x.fileId => e = x

Moves(op) == op.cmd \in {"Read", "Write"}

\* The first n blocks of the file that the entry i leads to are there.
InReach(c, i, n) == \A e \in Entry(c, i) : n <= Len(data[e.file])

\* Requests are for files that were opened before.
AskedOK ==
  \A m \in requests :
    /\ m.op \in Operation
    /\ Moves(m.op) => /\ m.op.fileId < nextFileId
                      /\ InReach(m.client, m.op.fileId, m.op.pos)

\* An answer moves its caller no further than the file goes.
AnsweredOK ==
  \A r \in replies :
    /\ r.ans = Failed \/ r.ans.done
    /\ \A m \in requests : m.client = r.client /\ m.id = r.id /\ Moves(m.op) =>
         /\ Len(r.ans.blocks) \in Nat
         /\ r.ans.done => InReach(m.client, m.op.fileId, m.op.pos + Len(r.ans.blocks))

\* A program holds one File for an entry, where its call says.
HeldOK ==
  \A c \in Clients :
    /\ files[c] \subseteq FileRecord
    /\ \A f, g \in files[c] : f.fileId = g.fileId => f = g
    /\ \A f \in files[c] : f.fileId < nextFileId /\ InReach(c, f.fileId, f.pos)
    /\ call[c] # NoCall => \A f \in files[c] :
         /\ GrantedBefore(c, f.fileId, calls[c])
         /\ Moves(call[c].op) /\ f.fileId = call[c].op.fileId => f.pos = call[c].op.pos

EntryOfCall ==
  \A e \in open : \A m \in requests :
    m.client = e.client /\ m.id = openedBy[e.fileId] => m.call = e.call

PosInv == HostOK /\ AskedOK /\ AnsweredOK /\ HeldOK /\ EntryOfCall

LEMMA InitPos == Init => PosInv
<1> SUFFICES ASSUME Init PROVE PosInv
  OBVIOUS
<1>1. HostOK
  <2>1. PICK p \in Paths, b \in Blocks :
          /\ names = [q \in Paths |-> IF q = p THEN 1 ELSE None]
          /\ data = << <<b>> >>
    BY DEF Init, ServerInit
  <2>2. data \in Seq(Seq(Blocks)) /\ Len(data) = 1
    BY <2>1
  <2>3. names \in [Paths -> (1 .. Len(data)) \cup {None}]
    BY <2>1, <2>2
  <2> QED
    BY <2>2, <2>3 DEF HostOK, Init, ServerInit
<1>2. AskedOK /\ AnsweredOK /\ EntryOfCall
  BY DEF Init, ServerInit, AskedOK, AnsweredOK, EntryOfCall
<1>3. HeldOK
  <2> SUFFICES ASSUME NEW c \in Clients
               PROVE  files[c] = {} /\ call[c] = NoCall
    BY Zenon DEF HeldOK
  <2> QED
    BY DEF Init
<1> QED
  BY <1>1, <1>2, <1>3 DEF PosInv

\* What an operation consists of.
LEMMA OperationIs ==
  ASSUME NEW op \in Operation
  PROVE  /\ op.cmd \in Commands
         /\ op.cmd = "Open" => op.path \in Paths /\ op.mode \in Modes
         /\ op.cmd = "Close" => op.fileId \in Nat
         /\ Moves(op) => op.fileId \in Nat /\ op.pos \in Nat
         /\ op.cmd = "Write" => op.block \in Blocks
         /\ op.cmd = "Delete" => op.path \in Paths
         /\ op.cmd = "Rename" => op.path \in Paths /\ op.to \in Paths
BY DEF Operation, Commands, Moves

-----------------------------------------------------------------------------
(* The client and the positions *)

\* As long as the server does nothing, files reach as far as before.
LEMMA SameReach ==
  ASSUME UNCHANGED server, NEW c, NEW i, NEW n
  PROVE  InReach(c, i, n)' <=> InReach(c, i, n)
BY DEF InReach, Entry, server

LEMMA AttemptPos ==
  ASSUME IInv, PosInv, NEW c \in Clients, NEW n \in Nat, NEW op \in Operation, Attempt(c, n, op),
         calls' \in [Clients -> Nat], calls'[c] = n,
         \A d \in Clients \ {c} : calls'[d] = calls[d],
         Moves(op) => op.fileId < nextFileId /\ InReach(c, op.fileId, op.pos),
         \A f \in files[c] : /\ GrantedBefore(c, f.fileId, n)
                             /\ Moves(op) /\ f.fileId = op.fileId => f.pos = op.pos
  PROVE  PosInv'
<1> DEFINE new == Request(c, n, op)
<1>1. /\ UNCHANGED <<server, files, replies, openedBy>>
      /\ call' = [call EXCEPT ![c] = [id |-> nextRequestId[c], op |-> op]]
      /\ requests' = requests \cup {new}
      /\ new.client = c /\ new.id = nextRequestId[c] /\ new.call = n /\ new.op = op
  BY DEF Attempt, Request
<1> HIDE DEF new
<1>2. UNCHANGED <<names, data, open, nextFileId>>
  BY <1>1 DEF server
<1>3. HostOK'
  BY <1>2 DEF PosInv, HostOK
<1>4. \A d, i, k : InReach(d, i, k)' <=> InReach(d, i, k)
  BY <1>1, SameReach
<1>5. AskedOK'
  <2> SUFFICES ASSUME NEW m \in requests'
               PROVE  /\ m.op \in Operation
                      /\ Moves(m.op) => /\ m.op.fileId < nextFileId
                                        /\ InReach(m.client, m.op.fileId, m.op.pos)
    BY <1>2, <1>4 DEF AskedOK
  <2>1. CASE m \in requests
    BY <2>1 DEF PosInv, AskedOK
  <2>2. CASE m = new
    BY <1>1, <2>2
  <2> QED
    BY <1>1, <2>1, <2>2
\* The number is new: no answer and no entry is for it.
<1>6. \A m \in requests : m.client = c => m.id # nextRequestId[c]
  <2>1. nextRequestId[c] \in Nat
    BY DEF IInv, Shape
  <2> QED
    BY <2>1 DEF IInv, Numbered
<1>7. AnsweredOK'
  <2> SUFFICES ASSUME NEW r \in replies
               PROVE  /\ r.ans = Failed \/ r.ans.done
                      /\ \A m \in requests' : m.client = r.client /\ m.id = r.id /\ Moves(m.op) =>
                           /\ Len(r.ans.blocks) \in Nat
                           /\ r.ans.done => InReach(m.client, m.op.fileId,
                                                    m.op.pos + Len(r.ans.blocks))
    BY <1>1, <1>4 DEF AnsweredOK
  <2>1. ~(new.client = r.client /\ new.id = r.id)
    <3>1. PICK m \in requests : m.client = r.client /\ m.id = r.id
      BY DEF IInv, AnswersAsked
    <3> QED
      BY <1>1, <1>6, <3>1
  <2> QED
    BY <1>1, <2>1 DEF PosInv, AnsweredOK
<1>8. HeldOK'
  <2> SUFFICES ASSUME NEW d \in Clients
               PROVE  /\ files[d] \subseteq FileRecord
                      /\ \A f, g \in files[d] : f.fileId = g.fileId => f = g
                      /\ \A f \in files[d] : f.fileId < nextFileId /\ InReach(d, f.fileId, f.pos)
                      /\ call'[d] # NoCall => \A f \in files[d] :
                           /\ GrantedBefore(d, f.fileId, calls'[d])
                           /\ Moves(call'[d].op) /\ f.fileId = call'[d].op.fileId
                                => f.pos = call'[d].op.pos
    BY <1>1, <1>2, <1>4 DEF HeldOK, GrantedBefore
  <2>1. /\ files[d] \subseteq FileRecord
        /\ \A f, g \in files[d] : f.fileId = g.fileId => f = g
        /\ \A f \in files[d] : f.fileId < nextFileId /\ InReach(d, f.fileId, f.pos)
    BY DEF PosInv, HeldOK
  <2>2. CASE d = c
    <3>1. call'[d] = [id |-> nextRequestId[c], op |-> op]
      BY <1>1, <2>2 DEF IInv, Shape
    <3>2. call'[d].op = op
      BY <3>1
    <3> QED
      BY <2>1, <2>2, <3>2
  <2>3. CASE d # c
    <3>1. call'[d] = call[d] /\ calls'[d] = calls[d]
      BY <1>1, <2>3 DEF IInv, Shape
    <3> QED
      BY <2>1, <3>1 DEF PosInv, HeldOK
  <2> QED
    BY <2>2, <2>3
<1>9. EntryOfCall'
  <2> SUFFICES ASSUME NEW e \in open, NEW m \in requests',
                      m.client = e.client, m.id = openedBy[e.fileId]
               PROVE  m.call = e.call
    BY <1>1, <1>2 DEF EntryOfCall
  <2>1. PICK w \in requests : Asks(w, e.client, openedBy[e.fileId], e)
    BY DEF IInv, EntriesAsked
  <2>2. m # new
    BY <1>1, <1>6, <2>1 DEF Asks
  <2> QED
    BY <1>1, <2>2 DEF PosInv, EntryOfCall
<1> QED
  BY <1>3, <1>5, <1>7, <1>8, <1>9 DEF PosInv

\* A call begins with what the program may ask for.
LEMMA BeginPos ==
  ASSUME IInv, PosInv, NEW c \in Clients, NEW op \in Operation, Begin(c, op),
         Moves(op) => \E f \in files[c] : op.fileId = f.fileId /\ op.pos = f.pos
  PROVE  PosInv'
<1>1. /\ calls[c] \in Nat /\ calls' \in [Clients -> Nat] /\ calls'[c] = calls[c] + 1
      /\ \A d \in Clients \ {c} : calls'[d] = calls[d]
      /\ Attempt(c, calls[c] + 1, op)
  BY DEF Begin, IInv, Shape
<1>2. /\ \A f, g \in files[c] : f.fileId = g.fileId => f = g
      /\ \A f \in files[c] : f.fileId < nextFileId /\ InReach(c, f.fileId, f.pos)
  BY DEF PosInv, HeldOK
<1>3. Moves(op) => op.fileId < nextFileId /\ InReach(c, op.fileId, op.pos)
  BY <1>2
<1>4. \A f \in files[c] : Moves(op) /\ f.fileId = op.fileId => f.pos = op.pos
  BY <1>2
<1>5. \A f \in files[c] : GrantedBefore(c, f.fileId, calls[c] + 1)
  BY DEF IInv, HeldIsGranted
<1> QED
  BY <1>1, <1>3, <1>4, <1>5, AttemptPos

LEMMA MethodPos == IInv /\ PosInv /\ (\E c \in Clients : Methods(c)) => PosInv'
<1> SUFFICES ASSUME IInv, PosInv, NEW c \in Clients, Methods(c) PROVE PosInv'
  OBVIOUS
<1>0. \A f \in files[c] : f \in FileRecord /\ f.fileId \in Nat /\ f.pos \in Nat
  BY DEF PosInv, HeldOK, FileRecord
<1>1. CASE Open(c)
  <2>1. PICK p \in Paths, m \in Modes : Begin(c, [cmd |-> "Open", path |-> p, mode |-> m])
    BY <1>1 DEF Open
  <2>2. [cmd |-> "Open", path |-> p, mode |-> m] \in Operation
    BY DEF Operation
  <2> QED
    BY <2>1, <2>2, BeginPos DEF Moves
<1>2. CASE Close(c)
  <2>1. PICK f \in files[c] : Begin(c, [cmd |-> "Close", fileId |-> f.fileId])
    BY <1>2 DEF Close
  <2>2. [cmd |-> "Close", fileId |-> f.fileId] \in Operation
    BY <1>0 DEF Operation
  <2> QED
    BY <2>1, <2>2, BeginPos DEF Moves
<1>3. CASE Read(c)
  <2>1. PICK f \in files[c] : Begin(c, [cmd |-> "Read", fileId |-> f.fileId, pos |-> f.pos])
    BY <1>3 DEF Read
  <2>2. [cmd |-> "Read", fileId |-> f.fileId, pos |-> f.pos] \in Operation
    BY <1>0 DEF Operation
  <2> QED
    BY <2>1, <2>2, BeginPos
<1>4. CASE Write(c)
  <2>1. PICK f \in files[c], b \in Blocks :
          Begin(c, [cmd |-> "Write", fileId |-> f.fileId, pos |-> f.pos, block |-> b])
    BY <1>4 DEF Write
  <2>2. [cmd |-> "Write", fileId |-> f.fileId, pos |-> f.pos, block |-> b] \in Operation
    BY <1>0 DEF Operation
  <2> QED
    BY <2>1, <2>2, BeginPos
<1>5. CASE Delete(c)
  <2>1. PICK p \in Paths : Begin(c, [cmd |-> "Delete", path |-> p])
    BY <1>5 DEF Delete
  <2>2. [cmd |-> "Delete", path |-> p] \in Operation
    BY DEF Operation
  <2> QED
    BY <2>1, <2>2, BeginPos DEF Moves
<1>6. CASE Rename(c)
  <2>1. PICK p \in Paths, q \in Paths : Begin(c, [cmd |-> "Rename", path |-> p, to |-> q])
    BY <1>6 DEF Rename
  <2>2. [cmd |-> "Rename", path |-> p, to |-> q] \in Operation
    BY DEF Operation
  <2> QED
    BY <2>1, <2>2, BeginPos DEF Moves
<1> QED
  BY <1>1, <1>2, <1>3, <1>4, <1>5, <1>6 DEF Methods

LEMMA ResendPos == IInv /\ PosInv /\ (\E c \in Clients : Resend(c)) => PosInv'
<1> SUFFICES ASSUME IInv, PosInv, NEW c \in Clients, Resend(c) PROVE PosInv'
  OBVIOUS
<1>1. /\ call[c] # NoCall /\ Attempt(c, calls[c], call[c].op) /\ calls' = calls
      /\ calls \in [Clients -> Nat] /\ calls[c] \in Nat
  BY DEF Resend, IInv, Shape
<1>2. PICK m \in requests : m.client = c /\ m.op = call[c].op
  BY <1>1 DEF IInv, Pending
<1>3. /\ m.op \in Operation
      /\ Moves(m.op) => m.op.fileId < nextFileId /\ InReach(c, m.op.fileId, m.op.pos)
  BY <1>2 DEF PosInv, AskedOK
<1>4. \A f \in files[c] : /\ GrantedBefore(c, f.fileId, calls[c])
                          /\ Moves(m.op) /\ f.fileId = m.op.fileId => f.pos = m.op.pos
  BY <1>1, <1>2 DEF PosInv, HeldOK
<1> QED
  BY <1>1, <1>2, <1>3, <1>4, AttemptPos

Moved(f, ans) == [f EXCEPT !.pos = f.pos + Len(ans.blocks)]
Fresh(op, ans) == [fileId |-> ans.fileId, path |-> op.path, mode |-> op.mode, pos |-> 0]

\* What a caller holds when its call returns: what it held, further on after a
\* read or a write, or a file that was just opened.
LEMMA LeftIs ==
  ASSUME NEW held, held \subseteq FileRecord, NEW op \in Operation, NEW ans,
         NEW g \in Left(held, op, ans)
  PROVE  \/ g \in held /\ (Moves(op) => g.fileId # op.fileId)
         \/ Moves(op) /\ \E f \in held : /\ f.fileId = op.fileId
                                         /\ g = Moved(f, ans)
         \/ /\ op.cmd = "Open" /\ ans.done
            /\ g = Fresh(op, ans)
<1>0. op.cmd \in Commands
  BY OperationIs
<1>1. CASE op.cmd = "Open"
  BY <1>1 DEF Left, OpenReturns, Moves, Fresh
<1>2. CASE op.cmd = "Close"
  BY <1>2 DEF Left, CloseReturns, Moves
<1>3. CASE op.cmd = "Delete"
  BY <1>3 DEF Left, DeleteReturns, Moves
<1>4. CASE op.cmd = "Rename"
  BY <1>4 DEF Left, RenameReturns, Moves
<1>5. CASE Moves(op)
  <2>1. Left(held, op, ans) = ReadReturns(held, op, ans)
    BY <1>5 DEF Left, WriteReturns, Moves
  <2>2. PICK f \in held :
          g = IF f.fileId = op.fileId THEN [f EXCEPT !.pos = @ + Len(ans.blocks)] ELSE f
    BY <2>1 DEF ReadReturns
  <2>3. CASE f.fileId = op.fileId
    <3>1. g = Moved(f, ans)
      BY <2>2, <2>3 DEF Moved
    <3> QED
      BY <1>5, <2>3, <3>1
  <2>4. CASE f.fileId # op.fileId
    BY <1>5, <2>2, <2>4
  <2> QED
    BY <2>3, <2>4
<1> QED
  BY <1>0, <1>1, <1>2, <1>3, <1>4, <1>5 DEF Commands, Moves

LEMMA FinishPos ==
  ASSUME IInv, PosInv, NEW c \in Clients, call[c] # NoCall, NEW ans, Finish(c, ans),
         ans = Failed \/ \E r \in replies : IsReplyTo(c, r) /\ ans = r.ans
  PROVE  PosInv'
<1> DEFINE op == call[c].op
           held == files[c]
<1>1. /\ UNCHANGED <<server, calls, nextRequestId, requests, replies, openedBy>>
      /\ files' = [files EXCEPT ![c] = Left(@, op, ans)] /\ call' = [call EXCEPT ![c] = NoCall]
  BY DEF Finish
<1>2. /\ files'[c] = Left(held, op, ans)
      /\ \A d \in Clients \ {c} : files'[d] = files[d]
      /\ call'[c] = NoCall
      /\ \A d \in Clients \ {c} : call'[d] = call[d]
  BY <1>1 DEF IInv, Shape
<1> HIDE DEF op, held
<1>3. UNCHANGED <<names, data, open, nextFileId>>
  BY <1>1 DEF server
<1>4. HostOK' /\ EntryOfCall'
  BY <1>1, <1>3 DEF PosInv, HostOK, EntryOfCall
<1>5. \A d, i, k : InReach(d, i, k)' <=> InReach(d, i, k)
  BY <1>1, SameReach
<1>6. AskedOK' /\ AnsweredOK'
  BY <1>1, <1>3, <1>5 DEF PosInv, AskedOK, AnsweredOK
<1>7. PICK m \in requests : /\ m.client = c /\ m.id = call[c].id
                            /\ m.call = calls[c] /\ m.op = op
  BY DEF IInv, Pending, op
<1>8. op \in Operation
  BY <1>7 DEF PosInv, AskedOK
<1>9. /\ held \subseteq FileRecord
      /\ \A f, g \in held : f.fileId = g.fileId => f = g
      /\ \A f \in held : f.fileId < nextFileId /\ InReach(c, f.fileId, f.pos)
      /\ \A f \in held : /\ GrantedBefore(c, f.fileId, calls[c])
                         /\ Moves(op) /\ f.fileId = op.fileId => f.pos = op.pos
  BY DEF PosInv, HeldOK, op, held
<1>10. nextFileId \in Nat
  BY DEF IInv, Shape
\* The answer to a read or a write.
<1>11. ASSUME Moves(op)
       PROVE  /\ Len(ans.blocks) \in Nat
              /\ \A f \in held : f.fileId = op.fileId =>
                   InReach(c, f.fileId, f.pos + Len(ans.blocks))
  <2>1. CASE ans = Failed
    <3>1. Len(ans.blocks) = 0
      BY <2>1 DEF Failed
    <3>2. \A f \in held : f.pos + Len(ans.blocks) = f.pos
      BY <1>9, <3>1 DEF FileRecord
    <3> QED
      BY <1>9, <3>1, <3>2
  <2>2. CASE ans # Failed
    <3>1. PICK r \in replies : IsReplyTo(c, r) /\ ans = r.ans
      BY <2>2
    <3>2. m.client = r.client /\ m.id = r.id
      BY <1>7, <3>1 DEF IsReplyTo
    <3>3. /\ Len(ans.blocks) \in Nat
          /\ InReach(c, op.fileId, op.pos + Len(ans.blocks))
      BY <1>7, <1>11, <2>2, <3>1, <3>2 DEF PosInv, AnsweredOK
    <3> QED
      BY <1>9, <1>11, <3>3
  <2> QED
    BY <2>1, <2>2
\* The answer to an open: no File that is held is for the same entry.
<1>12. ASSUME op.cmd = "Open", ans.done
       PROVE  /\ ans.fileId \in Nat /\ ans.fileId < nextFileId
              /\ \A f \in held : f.fileId # ans.fileId
  <2>1. PICK r \in replies : IsReplyTo(c, r) /\ ans = r.ans
    BY <1>12 DEF Failed
  <2>2. Granted(r) /\ r.client = c /\ r.id = call[c].id
    BY <1>12, <2>1 DEF IsReplyTo, Granted, op
  <2>3. ans.fileId \in 1 .. nextFileId - 1 /\ openedBy[ans.fileId] = r.id
    BY <2>1, <2>2 DEF IInv, GrantedIsOpen
  <2>4. ASSUME NEW f \in held, f.fileId = ans.fileId
        PROVE  FALSE
    <3>1. PICK q \in replies : /\ Granted(q) /\ q.client = c /\ q.ans.fileId = ans.fileId
                               /\ q.call < calls[c]
      BY <1>9, <2>4 DEF GrantedBefore
    <3>2. q.id = r.id
      BY <2>3, <3>1 DEF IInv, GrantedIsOpen
    <3>3. PICK w \in requests : w.client = c /\ w.id = q.id /\ w.call = q.call
      BY <3>1 DEF IInv, AnswersAsked
    <3>4. w = m
      BY <1>7, <2>2, <3>2, <3>3 DEF IInv, Numbered
    <3>5. calls[c] \in Nat
      BY DEF IInv, Shape
    <3> QED
      BY <1>7, <3>1, <3>3, <3>4, <3>5
  <2> QED
    BY <1>10, <2>3, <2>4
<1>13. ASSUME NEW g \in files'[c]
       PROVE  /\ g \in FileRecord /\ g.fileId < nextFileId /\ InReach(c, g.fileId, g.pos)
              /\ \/ g \in held /\ (Moves(op) => g.fileId # op.fileId)
                 \/ Moves(op) /\ \E f \in held : /\ f.fileId = op.fileId
                                                 /\ g = Moved(f, ans)
                                                 /\ g.fileId = f.fileId
                 \/ /\ op.cmd = "Open" /\ ans.done /\ g.fileId = ans.fileId
                    /\ g = Fresh(op, ans)
  <2>1. CASE g \in held /\ (Moves(op) => g.fileId # op.fileId)
    BY <1>9, <2>1
  <2>2. ASSUME Moves(op), NEW f \in held, f.fileId = op.fileId,
               g = Moved(f, ans)
        PROVE  /\ g \in FileRecord /\ g.fileId < nextFileId /\ InReach(c, g.fileId, g.pos)
               /\ g.fileId = f.fileId
    <3> DEFINE p == f.pos + Len(ans.blocks)
    <3>1. f \in FileRecord /\ p \in Nat
      BY <1>9, <1>11, <2>2 DEF FileRecord
    <3>2. InReach(c, f.fileId, p) /\ f.fileId < nextFileId
      BY <1>9, <1>11, <2>2
    <3>3. g = [f EXCEPT !.pos = p]
      BY <2>2 DEF Moved
    <3> HIDE DEF p
    <3>4. g \in FileRecord /\ g.fileId = f.fileId /\ g.pos = p
      BY <3>1, <3>3 DEF FileRecord
    <3> QED
      BY <3>2, <3>4
  <2>3. ASSUME op.cmd = "Open", ans.done,
               g = Fresh(op, ans)
        PROVE  /\ g \in FileRecord /\ g.fileId < nextFileId /\ InReach(c, g.fileId, g.pos)
               /\ g.fileId = ans.fileId
    <3>1. op.path \in Paths /\ op.mode \in Modes /\ ans.fileId \in Nat /\ ans.fileId < nextFileId
      BY <1>8, <1>12, <2>3, OperationIs
    <3>2. g \in FileRecord /\ g.fileId = ans.fileId /\ g.pos = 0
      BY <2>3, <3>1 DEF FileRecord, Fresh
    <3>3. \A e \in open : Len(data[e.file]) \in Nat
      BY DEF PosInv, HostOK
    <3>4. InReach(c, g.fileId, 0)
      BY <3>3 DEF InReach, Entry
    <3> QED
      BY <3>1, <3>2, <3>4
  <2>4. \/ g \in held /\ (Moves(op) => g.fileId # op.fileId)
        \/ Moves(op) /\ \E f \in held : /\ f.fileId = op.fileId
                                        /\ g = Moved(f, ans)
        \/ /\ op.cmd = "Open" /\ ans.done
           /\ g = Fresh(op, ans)
    <3>1. g \in Left(held, op, ans) /\ held \subseteq FileRecord
      BY <1>2, <1>9
    <3> QED
      BY <1>8, <3>1, LeftIs
  <2> QED
    BY <2>1, <2>2, <2>3, <2>4
<1>14. ASSUME NEW g \in files'[c], NEW h \in files'[c], g.fileId = h.fileId
       PROVE  g = h
  <2>0. ~(Moves(op) /\ op.cmd = "Open")
    BY DEF Moves
  <2>1. CASE g \in held /\ (Moves(op) => g.fileId # op.fileId)
    BY <1>9, <1>12, <1>13, <1>14, <2>1
  <2>2. CASE Moves(op) /\ \E f \in held : /\ f.fileId = op.fileId
                                          /\ g = Moved(f, ans)
                                          /\ g.fileId = f.fileId
    <3>1. PICK f \in held : /\ f.fileId = op.fileId
                            /\ g = Moved(f, ans)
                            /\ g.fileId = f.fileId
      BY <2>2
    <3>2. PICK k \in held : /\ k.fileId = op.fileId
                            /\ h = Moved(k, ans)
      BY <1>13, <1>14, <2>0, <2>2, <3>1
    <3>3. f = k
      BY <1>9, <3>1, <3>2
    <3> QED
      BY <3>1, <3>2, <3>3
  <2>3. CASE /\ op.cmd = "Open" /\ ans.done /\ g.fileId = ans.fileId
             /\ g = Fresh(op, ans)
    BY <1>12, <1>13, <1>14, <2>0, <2>3
  <2> QED
    BY <1>13, <2>1, <2>2, <2>3
<1>15. HeldOK'
  <2> SUFFICES ASSUME NEW d \in Clients
               PROVE  /\ files'[d] \subseteq FileRecord
                      /\ \A f, g \in files'[d] : f.fileId = g.fileId => f = g
                      /\ \A f \in files'[d] : f.fileId < nextFileId /\ InReach(d, f.fileId, f.pos)
                      /\ call'[d] # NoCall => \A f \in files'[d] :
                           /\ GrantedBefore(d, f.fileId, calls[d])
                           /\ Moves(call'[d].op) /\ f.fileId = call'[d].op.fileId
                                => f.pos = call'[d].op.pos
    BY <1>1, <1>3, <1>5 DEF HeldOK, GrantedBefore
  <2>1. CASE d = c
    BY <1>2, <1>13, <1>14, <2>1
  <2>2. CASE d # c
    <3>1. files'[d] = files[d] /\ call'[d] = call[d]
      BY <1>2, <2>2
    <3> QED
      BY <3>1 DEF PosInv, HeldOK
  <2> QED
    BY <2>1, <2>2
<1> QED
  BY <1>4, <1>6, <1>15 DEF PosInv

\* A tick, and the end of the server.
LEMMA FramePos ==
  ASSUME PosInv, UNCHANGED <<files, calls, call, requests, replies, openedBy,
                             names, data, open, nextFileId>>
  PROVE  PosInv'
<1>1. HostOK' /\ EntryOfCall'
  BY DEF PosInv, HostOK, EntryOfCall
<1>2. \A d, i, k : InReach(d, i, k)' <=> InReach(d, i, k)
  BY DEF InReach, Entry
<1>3. \A d, i, k : GrantedBefore(d, i, k)' <=> GrantedBefore(d, i, k)
  BY DEF GrantedBefore
<1>4. AskedOK' /\ AnsweredOK'
  BY <1>2 DEF PosInv, AskedOK, AnsweredOK
<1>5. HeldOK'
  BY <1>2, <1>3 DEF PosInv, HeldOK
<1> QED
  BY <1>1, <1>4, <1>5 DEF PosInv

-----------------------------------------------------------------------------
(* The server and the positions *)

\* A block that is written where the file goes leaves it without a hole, and no
\* shorter.
LEMMA WrittenIs ==
  ASSUME NEW s \in Seq(Blocks), NEW pos \in Nat, pos <= Len(s), NEW b \in Blocks
  PROVE  /\ Written(s, pos, b) \in Seq(Blocks)
         /\ Len(s) <= Len(Written(s, pos, b)) /\ pos + 1 <= Len(Written(s, pos, b))
<1> DEFINE n == IF pos < Len(s) THEN Len(s) ELSE pos + 1
           E(k) == IF k = pos + 1 THEN b ELSE IF k <= Len(s) THEN s[k] ELSE Hole
<1>1. Len(s) \in Nat /\ \A k \in 1 .. Len(s) : s[k] \in Blocks
  OBVIOUS
<1>2. n \in Nat /\ Len(s) <= n /\ pos + 1 <= n
  BY <1>1
<1>3. ASSUME NEW k \in 1 .. n PROVE E(k) \in Blocks
  <2>1. CASE k = pos + 1
    BY <2>1
  <2>2. CASE k # pos + 1
    <3>1. k \in 1 .. Len(s)
      BY <1>1, <2>2
    <3> QED
      BY <1>1, <2>2, <3>1
  <2> QED
    BY <2>1, <2>2
<1>4. Written(s, pos, b) = [k \in 1 .. n |-> E(k)]
  BY DEF Written
<1> HIDE DEF n, E
<1>5. [k \in 1 .. n |-> E(k)] \in Seq(Blocks) /\ Len([k \in 1 .. n |-> E(k)]) = n
  BY <1>2, <1>3
<1> QED
  BY <1>2, <1>4, <1>5

\* Files only grow, and an entry is for a file that was not opened before.
Grows ==
  /\ HostOK'
  /\ nextFileId' \in Nat /\ nextFileId <= nextFileId'
  /\ Len(data) <= Len(data')
  /\ \A k \in 1 .. Len(data) : Len(data[k]) <= Len(data'[k])
  /\ \A e \in open' : e \in open \/ e.fileId = nextFileId

\* So what could be reached can be reached.
LEMMA StillInReach ==
  ASSUME HostOK, nextFileId \in Nat, Grows, NEW c, NEW i, i < nextFileId, NEW n \in Nat,
         InReach(c, i, n)
  PROVE  InReach(c, i, n)'
<1> SUFFICES ASSUME NEW e \in open', e.client = c, e.fileId = i
             PROVE  n <= Len(data'[e.file])
  BY DEF InReach, Entry
<1>1. e \in open
  <2>1. ~(nextFileId < nextFileId)
    OBVIOUS
  <2> QED
    BY <2>1 DEF Grows
<1>2. n <= Len(data[e.file]) /\ e.file \in 1 .. Len(data)
  BY <1>1 DEF InReach, Entry, HostOK
<1>3. Len(data) \in Nat /\ Len(data[e.file]) \in Nat
  BY <1>2 DEF HostOK
<1>4. e.file \in 1 .. Len(data') /\ Len(data') \in Nat
  BY DEF Grows, HostOK
<1>5. Len(data'[e.file]) \in Nat
  BY <1>4 DEF Grows, HostOK
<1>6. Len(data[e.file]) <= Len(data'[e.file])
  BY <1>2 DEF Grows
<1> QED
  BY <1>2, <1>3, <1>5, <1>6

\* It answers m with a failure, or with blocks that are there.
LEMMA ServedPos ==
  ASSUME IInv, PosInv, NEW m \in requests, NEW ans, UNCHANGED <<client, requests>>,
         replies' = replies \cup {Reply(m, ans)}, Grows,
         ans = Failed \/ ans.done,
         Moves(m.op) =>
           /\ Len(ans.blocks) \in Nat
           /\ ans.done => InReach(m.client, m.op.fileId, m.op.pos + Len(ans.blocks))',
         \A e \in open' \ open : /\ e.client = m.client /\ e.call = m.call
                                 /\ openedBy'[e.fileId] = m.id,
         \A e \in open : openedBy'[e.fileId] = openedBy[e.fileId]
  PROVE  PosInv'
<1> DEFINE new == Reply(m, ans)
<1>1. /\ new.client = m.client /\ new.id = m.id /\ new.ans = ans
      /\ replies' = replies \cup {new}
  BY DEF Reply
<1> HIDE DEF new
<1>2. UNCHANGED <<files, calls, call, nextRequestId, requests>>
  BY DEF client
<1>3. nextFileId \in Nat /\ HostOK
  BY DEF IInv, Shape, PosInv
<1>4. HostOK' /\ nextFileId' \in Nat /\ nextFileId <= nextFileId'
  BY DEF Grows
<1>5. ASSUME NEW w \in requests, Moves(w.op)
      PROVE  /\ w.op.fileId \in Nat /\ w.op.pos \in Nat
             /\ w.op.fileId < nextFileId /\ InReach(w.client, w.op.fileId, w.op.pos)
  <2>1. w.op \in Operation
    BY DEF PosInv, AskedOK
  <2>2. w.op.fileId < nextFileId /\ InReach(w.client, w.op.fileId, w.op.pos)
    BY <1>5 DEF PosInv, AskedOK
  <2> QED
    BY <1>5, <2>1, <2>2, OperationIs
<1>6. AskedOK'
  <2> SUFFICES ASSUME NEW w \in requests
               PROVE  /\ w.op \in Operation
                      /\ Moves(w.op) => /\ w.op.fileId < nextFileId'
                                        /\ InReach(w.client, w.op.fileId, w.op.pos)'
    BY <1>2 DEF AskedOK
  <2>1. w.op \in Operation
    BY DEF PosInv, AskedOK
  <2>2. ASSUME Moves(w.op) PROVE w.op.fileId < nextFileId'
    BY <1>3, <1>4, <1>5, <2>2
  <2>3. ASSUME Moves(w.op) PROVE InReach(w.client, w.op.fileId, w.op.pos)'
    BY <1>3, <1>5, <2>3, StillInReach
  <2> QED
    BY <2>1, <2>2, <2>3
<1>7. AnsweredOK'
  <2> SUFFICES ASSUME NEW r \in replies'
               PROVE  /\ r.ans = Failed \/ r.ans.done
                      /\ \A w \in requests : w.client = r.client /\ w.id = r.id /\ Moves(w.op) =>
                           /\ Len(r.ans.blocks) \in Nat
                           /\ r.ans.done => InReach(w.client, w.op.fileId,
                                                    w.op.pos + Len(r.ans.blocks))'
    BY <1>2 DEF AnsweredOK
  <2>1. CASE r = new
    <3>1. \A w \in requests : w.client = r.client /\ w.id = r.id => w = m
      BY <1>1, <2>1 DEF IInv, Numbered
    <3> QED
      BY <1>1, <2>1, <3>1
  <2>2. CASE r \in replies
    <3>1. r.ans = Failed \/ r.ans.done
      BY <2>2 DEF PosInv, AnsweredOK
    <3>2. ASSUME NEW w \in requests, w.client = r.client, w.id = r.id, Moves(w.op)
          PROVE  /\ Len(r.ans.blocks) \in Nat
                 /\ r.ans.done => InReach(w.client, w.op.fileId, w.op.pos + Len(r.ans.blocks))'
      <4> DEFINE n == w.op.pos + Len(r.ans.blocks)
      <4>1. /\ Len(r.ans.blocks) \in Nat
            /\ r.ans.done => InReach(w.client, w.op.fileId, n)
        BY <2>2, <3>2 DEF PosInv, AnsweredOK
      <4>2. n \in Nat
        BY <1>5, <3>2, <4>1
      <4>3. w.op.fileId < nextFileId
        BY <1>5, <3>2
      <4> HIDE DEF n
      <4>4. r.ans.done => InReach(w.client, w.op.fileId, n)'
        BY <1>3, <4>1, <4>2, <4>3, StillInReach
      <4> QED
        BY <4>1, <4>4 DEF n
    <3> QED
      BY <3>1, <3>2
  <2> QED
    BY <1>1, <2>1, <2>2
<1>8. \A d, i, k : GrantedBefore(d, i, k) => GrantedBefore(d, i, k)'
  BY <1>1 DEF GrantedBefore
<1>9. HeldOK'
  <2> SUFFICES ASSUME NEW d \in Clients
               PROVE  /\ files[d] \subseteq FileRecord
                      /\ \A f, g \in files[d] : f.fileId = g.fileId => f = g
                      /\ \A f \in files[d] : f.fileId < nextFileId' /\ InReach(d, f.fileId, f.pos)'
                      /\ call[d] # NoCall => \A f \in files[d] :
                           /\ GrantedBefore(d, f.fileId, calls[d])'
                           /\ Moves(call[d].op) /\ f.fileId = call[d].op.fileId
                                => f.pos = call[d].op.pos
    BY <1>2 DEF HeldOK, GrantedBefore
  <2>1. /\ files[d] \subseteq FileRecord
        /\ \A f, g \in files[d] : f.fileId = g.fileId => f = g
        /\ \A f \in files[d] : f.fileId < nextFileId /\ InReach(d, f.fileId, f.pos)
        /\ call[d] # NoCall => \A f \in files[d] :
             /\ GrantedBefore(d, f.fileId, calls[d])
             /\ Moves(call[d].op) /\ f.fileId = call[d].op.fileId => f.pos = call[d].op.pos
    BY DEF PosInv, HeldOK
  <2>2. ASSUME NEW f \in files[d]
        PROVE  f.fileId < nextFileId' /\ InReach(d, f.fileId, f.pos)'
    <3>1. f.fileId \in Nat /\ f.pos \in Nat
      BY <2>1 DEF FileRecord
    <3>2. f.fileId < nextFileId /\ InReach(d, f.fileId, f.pos)
      BY <2>1
    <3>3. InReach(d, f.fileId, f.pos)'
      BY <1>3, <3>1, <3>2, StillInReach
    <3> QED
      BY <1>3, <1>4, <3>1, <3>2, <3>3
  <2>3. ASSUME call[d] # NoCall, NEW f \in files[d]
        PROVE  GrantedBefore(d, f.fileId, calls[d])'
    <3>1. GrantedBefore(d, f.fileId, calls[d])
      BY <2>1, <2>3
    <3> QED
      BY <1>1, <1>2, <3>1 DEF GrantedBefore
  <2> QED
    BY <2>1, <2>2, <2>3
<1>10. EntryOfCall'
  <2> SUFFICES ASSUME NEW e \in open', NEW w \in requests,
                      w.client = e.client, w.id = openedBy'[e.fileId]
               PROVE  w.call = e.call
    BY <1>2 DEF EntryOfCall
  <2>1. CASE e \in open
    BY <2>1 DEF PosInv, EntryOfCall
  <2>2. CASE e \notin open
    <3>1. w = m
      BY <2>2 DEF IInv, Numbered
    <3> QED
      BY <2>2, <3>1
  <2> QED
    BY <2>1, <2>2
<1> QED
  BY <1>4, <1>6, <1>7, <1>9, <1>10 DEF PosInv

\* The server's operations, one by one.

\* What only closes or renames, or does nothing at all.
LEMMA NothingGrows ==
  ASSUME PosInv, nextFileId \in Nat, UNCHANGED <<data, nextFileId>>, open' \subseteq open,
         names' \in [Paths -> (1 .. Len(data)) \cup {None}]
  PROVE  Grows
<1>1. HostOK
  BY DEF PosInv
<1>2. HostOK'
  BY <1>1 DEF HostOK
<1>3. Len(data) \in Nat /\ \A k \in 1 .. Len(data) : Len(data[k]) \in Nat
  BY <1>1 DEF HostOK
<1> QED
  BY <1>2, <1>3 DEF Grows

LEMMA SameGrows ==
  ASSUME PosInv, nextFileId \in Nat, UNCHANGED server
  PROVE  Grows
<1>1. names \in [Paths -> (1 .. Len(data)) \cup {None}]
  BY DEF PosInv, HostOK
<1> QED
  BY <1>1, NothingGrows DEF server

LEMMA NamesGrow ==
  ASSUME PosInv, nextFileId \in Nat, NEW m \in requests, NEW ans,
         \/ DeleteFile(m.op, ans) /\ m.op.cmd = "Delete"
         \/ RenameFile(m.op, ans) /\ m.op.cmd = "Rename"
  PROVE  Grows /\ open' = open /\ ans.done
<1>1. names \in [Paths -> (1 .. Len(data)) \cup {None}]
  BY DEF PosInv, HostOK
<1>2. m.op \in Operation
  BY DEF PosInv, AskedOK
<1>3. m.op.path \in Paths
  BY <1>2, OperationIs DEF DeleteFile, RenameFile
<1>4. names' \in [Paths -> (1 .. Len(data)) \cup {None}]
  <2>1. CASE DeleteFile(m.op, ans)
    BY <1>1, <2>1 DEF DeleteFile
  <2>2. CASE RenameFile(m.op, ans)
    BY <1>1, <1>3, <2>2 DEF RenameFile
  <2> QED
    BY <2>1, <2>2
<1>5. UNCHANGED <<data, open, nextFileId>> /\ ans.done
  BY DEF DeleteFile, RenameFile, Done
<1> QED
  BY <1>4, <1>5, NothingGrows

\* A write is within reach, so it leaves no hole.
LEMMA WriteGrows ==
  ASSUME PosInv, nextFileId \in Nat, NEW m \in requests, m.op.cmd = "Write",
         NEW e \in Entry(m.client, m.op.fileId),
         data' = [data EXCEPT ![e.file] = Written(@, m.op.pos, m.op.block)],
         UNCHANGED <<names, open, nextFileId>>
  PROVE  Grows /\ InReach(m.client, m.op.fileId, m.op.pos + 1)'
<1>1. /\ data \in Seq(Seq(Blocks)) /\ e \in open /\ e.file \in 1 .. Len(data)
      /\ e.client = m.client /\ e.fileId = m.op.fileId
  BY DEF PosInv, HostOK, Entry
<1>2. m.op \in Operation /\ Moves(m.op)
  BY DEF PosInv, AskedOK, Moves
<1>3. m.op.pos \in Nat /\ m.op.block \in Blocks
  BY <1>2, OperationIs
<1>4. m.op.pos <= Len(data[e.file])
  BY <1>2 DEF PosInv, AskedOK, InReach
<1> DEFINE s == Written(data[e.file], m.op.pos, m.op.block)
<1>5. data[e.file] \in Seq(Blocks)
  BY <1>1
<1>6. s \in Seq(Blocks) /\ Len(data[e.file]) <= Len(s) /\ m.op.pos + 1 <= Len(s)
  BY <1>3, <1>4, <1>5, WrittenIs
<1>7. data' = [data EXCEPT ![e.file] = s]
  OBVIOUS
<1> HIDE DEF s
<1>8. /\ data' \in Seq(Seq(Blocks)) /\ Len(data') = Len(data)
      /\ \A k \in 1 .. Len(data) : data'[k] = IF k = e.file THEN s ELSE data[k]
  BY <1>1, <1>6, <1>7
<1>9. HostOK'
  BY <1>8 DEF PosInv, HostOK
<1>10. \A k \in 1 .. Len(data) : Len(data[k]) <= Len(data'[k])
  <2> SUFFICES ASSUME NEW k \in 1 .. Len(data) PROVE Len(data[k]) <= Len(data'[k])
    OBVIOUS
  <2>1. data[k] \in Seq(Blocks)
    BY <1>1
  <2>2. Len(data[k]) \in Nat
    BY <2>1
  <2> QED
    BY <1>6, <1>8, <2>2
<1>11. Grows
  <2>1. Len(data) \in Nat
    BY <1>1
  <2> QED
    BY <1>8, <1>9, <1>10, <2>1 DEF Grows
<1>12. InReach(m.client, m.op.fileId, m.op.pos + 1)'
  <2> SUFFICES ASSUME NEW x \in open, x.fileId = m.op.fileId
               PROVE  m.op.pos + 1 <= Len(data'[x.file])
    BY DEF InReach, Entry
  <2>1. x = e
    BY <1>1 DEF PosInv, HostOK
  <2>2. data'[e.file] = s
    BY <1>1, <1>8
  <2> QED
    BY <1>6, <2>1, <2>2
<1> QED
  BY <1>11, <1>12

\* A file that is opened is there, or is made without a block.
LEMMA OpenGrows ==
  ASSUME IInv, PosInv, NEW m \in requests, m.op.cmd = "Open", NEW ans,
         OpenFile(m.client, m.call, m.op, ans), ans # Failed \/ ~ UNCHANGED server
  PROVE  /\ Grows /\ ans = Done(nextFileId, << >>) /\ nextFileId' = nextFileId + 1
         /\ \A e \in open' \ open : e.client = m.client /\ e.call = m.call /\ e.fileId = nextFileId
<1>1. /\ data \in Seq(Seq(Blocks)) /\ Len(data) \in Nat
      /\ names \in [Paths -> (1 .. Len(data)) \cup {None}]
      /\ \A e \in open : e.file \in 1 .. Len(data)
      /\ \A e, x \in open : e.fileId = x.fileId => e = x
  BY DEF PosInv, HostOK
<1>2. nextFileId \in Nat /\ \A e \in open : e.fileId # nextFileId
  <2>1. nextFileId \in Nat /\ ~(nextFileId \in 1 .. nextFileId - 1)
    BY DEF IInv, Shape
  <2> QED
    BY <2>1 DEF IInv, EntriesAsked
<1>3. m.op.path \in Paths
  <2>1. m.op \in Operation
    BY DEF PosInv, AskedOK
  <2> QED
    BY <2>1, OperationIs
<1>4. PICK file : /\ OpenEntry(m.client, m.call, m.op, file) /\ ans = Done(nextFileId, << >>)
                  /\ file \in 1 .. Len(data') /\ data' \in Seq(Seq(Blocks))
                  /\ Len(data) <= Len(data')
                  /\ \A k \in 1 .. Len(data) : data'[k] = data[k]
                  /\ names' \in [Paths -> (1 .. Len(data')) \cup {None}]
  <2>1. CASE /\ names[m.op.path] # None
             /\ OpenEntry(m.client, m.call, m.op, names[m.op.path])
             /\ ans = Done(nextFileId, << >>)
             /\ UNCHANGED <<names, data>>
    <3>1. names[m.op.path] \in 1 .. Len(data)
      BY <1>1, <1>3, <2>1
    <3> QED
      BY <1>1, <2>1, <3>1
  <2>2. CASE /\ data' = Append(data, << >>)
             /\ names' = [names EXCEPT ![m.op.path] = Len(data')]
             /\ OpenEntry(m.client, m.call, m.op, Len(data'))
             /\ ans = Done(nextFileId, << >>)
    <3>1. << >> \in Seq(Blocks)
      OBVIOUS
    <3> DEFINE new == << >>
    <3>2. new \in Seq(Blocks) /\ data' = Append(data, new)
      BY <2>2, <3>1
    <3> HIDE DEF new
    <3>3. /\ data' \in Seq(Seq(Blocks)) /\ Len(data') = Len(data) + 1
          /\ \A k \in 1 .. Len(data) : data'[k] = data[k]
      BY <1>1, <3>2
    <3>4. Len(data') \in 1 .. Len(data') /\ Len(data) <= Len(data')
      BY <1>1, <3>3
    <3>5. \A x \in (1 .. Len(data)) \cup {None} : x \in (1 .. Len(data')) \cup {None}
      BY <1>1, <3>3
    <3>6. names' \in [Paths -> (1 .. Len(data')) \cup {None}]
      BY <1>1, <2>2, <3>4, <3>5
    <3> QED
      BY <2>2, <3>3, <3>4, <3>6
  <2> QED
    BY <2>1, <2>2 DEF OpenFile
<1> DEFINE e == [client |-> m.client, call |-> m.call, path |-> m.op.path,
                 mode |-> m.op.mode, fileId |-> nextFileId, file |-> file]
<1>5. open' = open \cup {e} /\ nextFileId' = nextFileId + 1
  BY <1>4 DEF OpenEntry
<1>6. e.client = m.client /\ e.call = m.call /\ e.fileId = nextFileId /\ e.file = file
  OBVIOUS
<1> HIDE DEF e
<1>7. \A x \in open' : x.file \in 1 .. Len(data')
  <2>1. \A k \in 1 .. Len(data) : k \in 1 .. Len(data')
    BY <1>1, <1>4
  <2> QED
    BY <1>1, <1>4, <1>5, <1>6, <2>1
<1>8. \A x, y \in open' : x.fileId = y.fileId => x = y
  BY <1>1, <1>2, <1>5, <1>6
<1>9. HostOK'
  BY <1>4, <1>7, <1>8 DEF HostOK
<1>10. \A k \in 1 .. Len(data) : Len(data[k]) <= Len(data'[k])
  <2> SUFFICES ASSUME NEW k \in 1 .. Len(data) PROVE Len(data[k]) <= Len(data'[k])
    OBVIOUS
  <2>1. data[k] \in Seq(Blocks)
    BY <1>1
  <2>2. Len(data[k]) \in Nat
    BY <2>1
  <2>3. data'[k] = data[k]
    BY <1>4
  <2> QED
    BY <2>2, <2>3
<1>11. Grows
  BY <1>2, <1>4, <1>5, <1>6, <1>9, <1>10 DEF Grows
<1> QED
  BY <1>4, <1>5, <1>6, <1>11

LEMMA ServePos == IInv /\ PosInv /\ ServeNext => PosInv'
<1> SUFFICES ASSUME IInv, PosInv, ServeNext PROVE PosInv'
  OBVIOUS
<1>1. PICK m \in requests : (Serve(m) \/ Exit(m)) /\ UNCHANGED <<client, requests>>
  BY DEF ServeNext
<1>2. nextFileId \in Nat /\ openedBy \in Seq(Nat) /\ Len(openedBy) = nextFileId - 1
  BY DEF IInv, Shape
<1>3. \A e \in open : e.fileId \in 1 .. nextFileId - 1
  BY DEF IInv, EntriesAsked
<1>4. CASE Exit(m)
  BY <1>1, <1>4, FramePos DEF Exit, CannotChange, client
<1>5. CASE Serve(m)
  <2>1. PICK ans \in Answers : /\ ServeOpen(m, ans) \/ ServeOther(m, ans)
                               /\ replies' = replies \cup {Reply(m, ans)}
    BY <1>5 DEF Serve
  <2>2. ans = Failed \/ ans.done
    BY <2>1 DEF Answers, Done
  <2>3. \A b : Len(<<b>>) = 1
    OBVIOUS
  <2>4. CASE /\ Grows /\ open' \subseteq open /\ UNCHANGED openedBy
             /\ Moves(m.op) =>
                  /\ Len(ans.blocks) \in Nat
                  /\ ans.done => InReach(m.client, m.op.fileId, m.op.pos + Len(ans.blocks))'
    BY <1>1, <2>1, <2>2, <2>4, ServedPos
  <2>5. CASE ServeOther(m, ans)
    <3>1. CASE m.op.cmd = "Close"
      <4>1. CloseFile(m.client, m.op, ans) /\ UNCHANGED openedBy
        BY <2>5, <3>1 DEF ServeOther, Perform
      <4>2. names \in [Paths -> (1 .. Len(data)) \cup {None}]
        BY DEF PosInv, HostOK
      <4>3. Grows /\ open' \subseteq open
        BY <1>2, <4>1, <4>2, NothingGrows DEF CloseFile
      <4> QED
        BY <2>4, <3>1, <4>1, <4>3 DEF Moves
    <3>2. CASE m.op.cmd = "Read"
      <4>1. ReadFile(m.client, m.op, ans) /\ UNCHANGED openedBy
        BY <2>5, <3>2 DEF ServeOther, Perform
      <4>2. Grows /\ UNCHANGED server
        BY <1>2, <4>1, SameGrows DEF ReadFile
      <4>3. open' \subseteq open
        BY <4>2 DEF server
      <4>4. CASE ans = Failed
        <5>1. Len(ans.blocks) = 0 /\ ~ans.done
          BY <4>4 DEF Failed
        <5> QED
          BY <2>4, <4>1, <4>2, <4>3, <5>1
      <4>5. CASE ans # Failed
        <5>1. PICK e \in Entry(m.client, m.op.fileId) :
                /\ m.op.pos < Len(data[e.file])
                /\ ans = Done(0, <<data[e.file][m.op.pos + 1]>>)
          BY <4>1, <4>5 DEF ReadFile
        <5>2. Len(ans.blocks) = 1
          BY <2>3, <5>1 DEF Done
        <5>3. m.op \in Operation
          BY DEF PosInv, AskedOK
        <5>4. m.op.pos \in Nat
          BY <3>2, <5>3, OperationIs DEF Moves
        <5>5. Len(data[e.file]) \in Nat /\ e \in open
          BY <5>1 DEF Entry, PosInv, HostOK
        <5>6. m.op.pos + Len(ans.blocks) <= Len(data[e.file])
          <6> DEFINE p == m.op.pos
                     l == Len(ans.blocks)
                     d == Len(data[e.file])
          <6>1. p \in Nat /\ d \in Nat /\ p < d /\ l = 1
            BY <5>1, <5>2, <5>4, <5>5
          <6> HIDE DEF p, l, d
          <6>2. p + l <= d
            BY <6>1
          <6> QED
            BY <6>2 DEF p, l, d
        <5>7. \A x \in Entry(m.client, m.op.fileId) : x = e
          BY <5>1 DEF Entry, PosInv, HostOK
        <5>8. InReach(m.client, m.op.fileId, m.op.pos + Len(ans.blocks))
          BY <5>6, <5>7 DEF InReach
        <5>9. InReach(m.client, m.op.fileId, m.op.pos + Len(ans.blocks))'
          BY <4>2, <5>8, SameReach
        <5> QED
          BY <2>4, <4>1, <4>2, <4>3, <5>2, <5>9
      <4> QED
        BY <4>4, <4>5
    <3>3. CASE m.op.cmd = "Write"
      <4>1. WriteFile(m.client, m.op, ans) /\ UNCHANGED openedBy
        BY <2>5, <3>3 DEF ServeOther, Perform
      <4>2. CASE ans = Failed /\ UNCHANGED server
        <5>1. Len(ans.blocks) = 0 /\ ~ans.done
          BY <4>2 DEF Failed
        <5>2. Grows /\ open' \subseteq open
          BY <1>2, <4>2, SameGrows DEF server
        <5> QED
          BY <2>4, <4>1, <5>1, <5>2
      <4>3. CASE ~(ans = Failed /\ UNCHANGED server)
        <5>1. PICK e \in Entry(m.client, m.op.fileId) :
                /\ data' = [data EXCEPT ![e.file] = Written(@, m.op.pos, m.op.block)]
                /\ ans \in {Failed, Done(0, <<m.op.block>>)}
                /\ UNCHANGED <<names, open, nextFileId, up>>
          BY <4>1, <4>3 DEF WriteFile
        <5>2. Grows /\ InReach(m.client, m.op.fileId, m.op.pos + 1)'
          BY <1>2, <3>3, <5>1, WriteGrows
        <5>3. Len(ans.blocks) \in Nat /\ (ans.done => Len(ans.blocks) = 1)
          BY <2>3, <5>1 DEF Done, Failed
        <5> QED
          BY <2>4, <4>1, <5>1, <5>2, <5>3
      <4> QED
        BY <4>2, <4>3
    <3>4. CASE m.op.cmd \in {"Delete", "Rename"}
      <4>1. /\ \/ DeleteFile(m.op, ans) /\ m.op.cmd = "Delete"
               \/ RenameFile(m.op, ans) /\ m.op.cmd = "Rename"
            /\ UNCHANGED openedBy
        BY <2>5, <3>4 DEF ServeOther, Perform
      <4>2. Grows /\ open' = open
        <5>1. CASE DeleteFile(m.op, ans) /\ m.op.cmd = "Delete"
          BY <1>2, <5>1, NamesGrow
        <5>2. CASE RenameFile(m.op, ans) /\ m.op.cmd = "Rename"
          BY <1>2, <5>2, NamesGrow
        <5> QED
          BY <4>1, <5>1, <5>2
      <4> QED
        BY <2>4, <3>4, <4>1, <4>2 DEF Moves
    <3> QED
      BY <2>5, <3>1, <3>2, <3>3, <3>4 DEF ServeOther, Perform
  <2>6. CASE ServeOpen(m, ans)
    <3>1. m.op.cmd = "Open" /\ ~Moves(m.op)
      BY <2>6 DEF ServeOpen, Moves
    <3>2. CASE UNCHANGED <<server, openedBy>>
      <4>1. Grows /\ open' \subseteq open
        BY <1>2, <3>2, SameGrows DEF server
      <4> QED
        BY <2>4, <3>1, <3>2, <4>1
    <3>3. CASE ~ UNCHANGED <<server, openedBy>>
      <4>1. /\ OpenFile(m.client, m.call, m.op, ans)
            /\ openedBy' = IF nextFileId' = nextFileId THEN openedBy ELSE Append(openedBy, m.id)
        BY <2>6, <3>3 DEF ServeOpen
      <4>2. ~ UNCHANGED server
        BY <3>3, <4>1 DEF server
      <4>3. /\ Grows /\ nextFileId' = nextFileId + 1
            /\ \A e \in open' \ open : e.client = m.client /\ e.call = m.call /\ e.fileId = nextFileId
        BY <3>1, <4>1, <4>2, OpenGrows
      <4>4. m.id \in Nat /\ openedBy' = Append(openedBy, m.id)
        BY <1>2, <4>1, <4>3 DEF IInv, Numbered
      <4>5. /\ openedBy'[nextFileId] = m.id
            /\ \A i \in 1 .. nextFileId - 1 : openedBy'[i] = openedBy[i]
        BY <1>2, <4>4
      <4>6. \A e \in open : openedBy'[e.fileId] = openedBy[e.fileId]
        BY <1>3, <4>5
      <4>7. \A e \in open' \ open : /\ e.client = m.client /\ e.call = m.call
                                    /\ openedBy'[e.fileId] = m.id
        BY <4>3, <4>5
      <4> QED
        BY ONLY IInv, PosInv, m \in requests, <1>1, <2>1, <2>2, <3>1, <4>3, <4>6, <4>7, ServedPos
    <3> QED
      BY <3>2, <3>3
  <2> QED
    BY <2>1, <2>5, <2>6
<1> QED
  BY <1>1, <1>4, <1>5

LEMMA NextPos == IInv /\ PosInv /\ [Next]_vars => PosInv'
<1> SUFFICES ASSUME IInv, PosInv, [Next]_vars PROVE PosInv'
  OBVIOUS
<1>1. CASE \E c \in Clients : TimedOut(c)
  BY <1>1, FramePos DEF TimedOut, server
<1>2. CASE UNCHANGED vars
  BY <1>2, FramePos DEF vars, server, client
<1>3. CASE \E c \in Clients : GiveUp(c) \/ Receive(c)
  BY <1>3, FinishPos DEF GiveUp, Receive
<1> QED
  BY <1>1, <1>2, <1>3, MethodPos, ResendPos, ServePos DEF Next

LEMMA PosHolds == Spec => [](IInv /\ PosInv)
BY InitIInv, NextIInv, InitPos, NextPos, PTL DEF Spec

-----------------------------------------------------------------------------
(* The service.  A call is known to it by what it asks for, a datagram by its *)
(* call: sending a request again is no step of the service.                   *)

Doing == [c \in Clients |-> IF call[c] = NoCall THEN None ELSE call[c].op]
Asked == {[client |-> m.client, call |-> m.call, op |-> m.op] : m \in requests}
Given == {[client |-> r.client, call |-> r.call, ans |-> r.ans] : r \in replies}

\* Between calls, and only then, nothing is asked for.
LEMMA DoingIs ==
  ASSUME IInv, PosInv, NEW c \in Clients
  PROVE  /\ call[c] = NoCall => Doing[c] = None
         /\ call[c] # NoCall => /\ Doing[c] = call[c].op /\ Doing[c] # None
                                /\ call[c].op \in Operation
<1>1. CASE call[c] = NoCall
  BY <1>1 DEF Doing
<1>2. CASE call[c] # NoCall
  <2>1. PICK m \in requests : m.op = call[c].op
    BY <1>2 DEF IInv, Pending
  <2>2. call[c].op \in Operation
    BY <2>1 DEF PosInv, AskedOK
  <2>3. call[c].op # None
    BY <2>2, NoneAssumption
  <2>4. Doing[c] = call[c].op
    BY <1>2 DEF Doing
  <2> QED
    BY <1>2, <2>2, <2>3, <2>4
<1> QED
  BY <1>1, <1>2

\* An attempt is for a call that the service knows.
LEMMA AttemptAsks ==
  ASSUME IInv, NEW c \in Clients, NEW n, NEW op, Attempt(c, n, op)
  PROVE  /\ Doing' = [Doing EXCEPT ![c] = op]
         /\ Asked' = Asked \cup {[client |-> c, call |-> n, op |-> op]}
         /\ UNCHANGED <<server, files, Given>>
<1>1. call' = [call EXCEPT ![c] = [id |-> nextRequestId[c], op |-> op]]
  BY DEF Attempt
<1>2. nextRequestId[c] \in Nat \ {0}
  BY DEF IInv, Shape
<1>3. /\ call'[c] = [id |-> nextRequestId[c], op |-> op]
      /\ \A d \in Clients \ {c} : call'[d] = call[d]
  BY <1>1 DEF IInv, Shape
<1>4. call'[c] # NoCall /\ call'[c].op = op
  BY <1>2, <1>3 DEF NoCall
<1>5. Doing' = [d \in Clients |-> IF d = c THEN op ELSE Doing[d]]
  BY <1>3, <1>4 DEF Doing
<1>6. Doing' = [Doing EXCEPT ![c] = op]
  BY <1>5 DEF Doing
<1> DEFINE new == Request(c, n, op)
<1>7. new.client = c /\ new.call = n /\ new.op = op /\ requests' = requests \cup {new}
  BY DEF Attempt, Request
<1> HIDE DEF new
<1>8. Asked' = Asked \cup {[client |-> new.client, call |-> new.call, op |-> new.op]}
  BY <1>7 DEF Asked
<1>9. UNCHANGED <<server, files, Given>>
  BY DEF Attempt, Given
<1> QED
  BY <1>6, <1>7, <1>8, <1>9

LEMMA MethodCalls ==
  ASSUME IInv, PosInv, NEW c \in Clients, Methods(c)
  PROVE  Service!Call(c)
<1>1. PICK op \in Service!Operations(files[c]) : Begin(c, op)
  <2>1. CASE Open(c)
    BY <2>1 DEF Open, Service!Operations
  <2>2. CASE Close(c)
    BY <2>2 DEF Close, Service!Operations
  <2>3. CASE Read(c)
    BY <2>3 DEF Read, Service!Operations
  <2>4. CASE Write(c)
    BY <2>4 DEF Write, Service!Operations
  <2>5. CASE Delete(c)
    BY <2>5 DEF Delete, Service!Operations
  <2>6. CASE Rename(c)
    BY <2>6 DEF Rename, Service!Operations
  <2> QED
    BY <2>1, <2>2, <2>3, <2>4, <2>5, <2>6 DEF Methods
<1>2. Doing[c] = None
  BY <1>1, DoingIs DEF Begin
<1>3. calls' = [calls EXCEPT ![c] = @ + 1] /\ calls'[c] = calls[c] + 1
  BY <1>1 DEF Begin, IInv, Shape
<1>4. Attempt(c, calls'[c], op)
  BY <1>1, <1>3 DEF Begin
<1>5. /\ Doing' = [Doing EXCEPT ![c] = op]
      /\ Asked' = Asked \cup {[client |-> c, call |-> calls'[c], op |-> op]}
      /\ UNCHANGED <<server, files, Given>>
  BY <1>4, AttemptAsks
<1> QED
  BY <1>1, <1>2, <1>3, <1>5 DEF Service!Call, Service!server, server, Doing, Asked, Given

LEMMA ResendStutters ==
  ASSUME IInv, PosInv, NEW c \in Clients, Resend(c)
  PROVE  UNCHANGED <<server, files, calls, Doing, Asked, Given>>
<1>1. call[c] # NoCall /\ calls' = calls /\ Attempt(c, calls[c], call[c].op)
  BY DEF Resend
<1>2. PICK m \in requests : m.client = c /\ m.call = calls[c] /\ m.op = call[c].op
  BY <1>1 DEF IInv, Pending
<1>3. [client |-> c, call |-> calls[c], op |-> call[c].op] \in Asked
  BY <1>2 DEF Asked
<1>4. Doing[c] = call[c].op
  BY <1>1, DoingIs
<1>5. Doing' = Doing
  <2>1. Doing = [d \in Clients |-> Doing[d]]
    BY DEF Doing
  <2>2. Doing' = [Doing EXCEPT ![c] = call[c].op]
    BY <1>1, AttemptAsks
  <2> QED
    BY <1>4, <2>1, <2>2
<1> QED
  BY <1>1, <1>3, <1>5, AttemptAsks

\* What the methods leave their callers with is the outcome of the service: an
\* answer that failed has no block to move on by.
LEMMA LeftIsOutcome ==
  ASSUME NEW held, held \subseteq FileRecord, NEW op \in Operation, NEW ans, ans = Failed \/ ans.done
  PROVE  Left(held, op, ans) = Service!Outcome(held, op, ans)
<1>0. op.cmd \in Commands
  BY OperationIs
<1>1. CASE op.cmd = "Open"
  BY <1>1 DEF Left, OpenReturns, Service!Outcome
<1>2. CASE op.cmd = "Close"
  BY <1>2 DEF Left, CloseReturns, Service!Outcome
<1>3. CASE op.cmd \in {"Delete", "Rename"}
  BY <1>3 DEF Left, DeleteReturns, RenameReturns, Service!Outcome
<1>4. CASE Moves(op) /\ ans.done
  BY <1>4 DEF Left, ReadReturns, WriteReturns, Service!Outcome, Moves
<1>5. CASE Moves(op) /\ ans = Failed
  <2>1. Len(ans.blocks) = 0 /\ ~ans.done
    BY <1>5 DEF Failed
  <2>2. \A f \in held : [f EXCEPT !.pos = @ + Len(ans.blocks)] = f
    <3> SUFFICES ASSUME NEW f \in held PROVE [f EXCEPT !.pos = @ + Len(ans.blocks)] = f
      OBVIOUS
    <3>1. f \in FileRecord /\ f.pos + 0 = f.pos
      BY DEF FileRecord
    <3> QED
      BY <2>1, <3>1 DEF FileRecord
  <2>3. ReadReturns(held, op, ans) = held
    BY <2>2 DEF ReadReturns
  <2>4. Left(held, op, ans) = held
    BY <1>5, <2>3 DEF Left, WriteReturns, Moves
  <2>5. Service!Outcome(held, op, ans) = held
    BY <1>5, <2>1 DEF Service!Outcome, Moves
  <2> QED
    BY <2>4, <2>5
<1> QED
  BY <1>0, <1>1, <1>2, <1>3, <1>4, <1>5 DEF Commands, Moves

LEMMA FinishReturns ==
  ASSUME IInv, PosInv, NEW c \in Clients, GiveUp(c) \/ Receive(c)
  PROVE  Service!Return(c)
<1>1. call[c] # NoCall /\ Doing[c] = call[c].op /\ Doing[c] # None /\ call[c].op \in Operation
  BY DoingIs DEF GiveUp, Receive
<1>2. files[c] \subseteq FileRecord
  BY DEF PosInv, HeldOK
<1>3. ASSUME NEW ans, Finish(c, ans), ans = Failed \/ ans.done
      PROVE  /\ files' = [files EXCEPT ![c] = Service!Outcome(@, Doing[c], ans)]
             /\ Doing' = [Doing EXCEPT ![c] = None]
             /\ UNCHANGED <<server, calls, Asked, Given>>
  <2>1. Left(files[c], call[c].op, ans) = Service!Outcome(files[c], call[c].op, ans)
    BY <1>1, <1>2, <1>3, LeftIsOutcome
  <2>2. files' = [files EXCEPT ![c] = Service!Outcome(@, Doing[c], ans)]
    BY <1>1, <1>3, <2>1 DEF Finish
  <2>3. call' = [call EXCEPT ![c] = NoCall]
    BY <1>3 DEF Finish
  <2>4. Doing' = [Doing EXCEPT ![c] = None]
    BY <2>3 DEF Doing, IInv, Shape
  <2>5. UNCHANGED <<server, calls, Asked, Given>>
    BY <1>3 DEF Finish, Asked, Given
  <2> QED
    BY <2>2, <2>4, <2>5
<1>4. CASE GiveUp(c)
  <2>1. Finish(c, Failed)
    BY <1>4 DEF GiveUp
  <2>2. Service!Failed = Failed
    BY DEF Failed, Service!Failed
  <2>3. /\ files' = [files EXCEPT ![c] = Service!Outcome(@, Doing[c], Failed)]
        /\ Doing' = [Doing EXCEPT ![c] = None]
        /\ UNCHANGED <<server, calls, Asked, Given>>
    BY <1>3, <2>1
  <2> QED
    BY <1>1, <2>2, <2>3 DEF Service!Return, Service!server, server, Doing, Asked, Given
<1>5. CASE Receive(c)
  <2>1. PICK r \in replies : IsReplyTo(c, r) /\ Finish(c, r.ans)
    BY <1>5 DEF Receive
  <2>2. r.ans = Failed \/ r.ans.done
    BY DEF PosInv, AnsweredOK
  <2>3. PICK m \in requests : m.client = r.client /\ m.id = r.id /\ m.call = r.call
    BY DEF IInv, AnswersAsked
  <2>4. PICK w \in requests : w.client = c /\ w.id = call[c].id /\ w.call = calls[c]
    BY <1>1 DEF IInv, Pending
  <2>5. m = w
    BY <2>1, <2>3, <2>4 DEF IInv, Numbered, IsReplyTo
  <2> DEFINE a == [client |-> r.client, call |-> r.call, ans |-> r.ans]
  <2>6. a \in Given
    BY DEF Given
  <2>7. a.client = c /\ a.call = calls[c] /\ a.ans = r.ans
    BY <2>1, <2>3, <2>4, <2>5 DEF IsReplyTo
  <2> HIDE DEF a
  <2>8. /\ files' = [files EXCEPT ![c] = Service!Outcome(@, Doing[c], a.ans)]
        /\ Doing' = [Doing EXCEPT ![c] = None]
        /\ UNCHANGED <<server, calls, Asked, Given>>
    BY <1>3, <2>1, <2>2, <2>7
  <2> QED
    BY <1>1, <2>6, <2>7, <2>8 DEF Service!Return, Service!server, server, Doing, Asked, Given
<1> QED
  BY <1>4, <1>5

\* The server does for the service what it does for the packets.
LEMMA SameServer ==
  ASSUME NEW c, NEW n, NEW op, NEW ans
  PROVE  /\ Perform(c, op, ans) => Service!Perform(c, op, ans)
         /\ OpenFile(c, n, op, ans) => Service!OpenFile(c, n, op, ans)
         /\ CannotChange(op) => Service!CannotChange(op)
<1>1. CloseFile(c, op, ans) => Service!CloseFile(c, op, ans)
  BY DEF CloseFile, Service!CloseFile, Entry, Service!Entry, Done, Service!Done
<1>2. ReadFile(c, op, ans) => Service!ReadFile(c, op, ans)
  BY DEF ReadFile, Service!ReadFile, Entry, Service!Entry, Done, Service!Done,
         Failed, Service!Failed, server, Service!server
<1>3. \A s, pos, b : Written(s, pos, b) = Service!Written(s, pos, b)
  BY DEF Written, Service!Written
<1>4. WriteFile(c, op, ans) => Service!WriteFile(c, op, ans)
  BY <1>3 DEF WriteFile, Service!WriteFile, Entry, Service!Entry, Done, Service!Done,
              Failed, Service!Failed, server, Service!server
<1>5. DeleteFile(op, ans) => Service!DeleteFile(op, ans)
  BY DEF DeleteFile, Service!DeleteFile, Done, Service!Done
<1>6. RenameFile(op, ans) => Service!RenameFile(op, ans)
  BY DEF RenameFile, Service!RenameFile, Done, Service!Done
<1>7. Perform(c, op, ans) => Service!Perform(c, op, ans)
  BY <1>1, <1>2, <1>4, <1>5, <1>6 DEF Perform, Service!Perform
<1>8. OpenFile(c, n, op, ans) => Service!OpenFile(c, n, op, ans)
  BY DEF OpenFile, Service!OpenFile, OpenEntry, Service!OpenEntry, Done, Service!Done,
         Failed, Service!Failed, server, Service!server
<1>9. CannotChange(op) => Service!CannotChange(op)
  BY DEF CannotChange, Service!CannotChange
<1> QED
  BY <1>7, <1>8, <1>9

LEMMA ServeImplements == IInv /\ PosInv /\ ServeNext => \E a \in Asked : Service!Do(a) \/ Service!Stop(a)
<1> SUFFICES ASSUME IInv, PosInv, ServeNext
             PROVE  \E a \in Asked : Service!Do(a) \/ Service!Stop(a)
  OBVIOUS
<1>1. PICK m \in requests : up /\ (Serve(m) \/ Exit(m)) /\ UNCHANGED <<client, requests>>
  BY DEF ServeNext
<1> DEFINE a == [client |-> m.client, call |-> m.call, op |-> m.op]
<1>2. a \in Asked
  BY DEF Asked
<1>3. a.client = m.client /\ a.call = m.call /\ a.op = m.op
  OBVIOUS
<1> HIDE DEF a
<1>4. UNCHANGED <<files, calls, Doing, Asked>>
  BY <1>1 DEF client, Doing, Asked
<1>5. CASE Exit(m)
  <2>1. CannotChange(a.op) /\ UNCHANGED Given
    BY <1>3, <1>5 DEF Exit, Given
  <2>2. Service!CannotChange(a.op)
    BY <2>1, SameServer
  <2>3. Service!Stop(a)
    BY <1>1, <1>4, <2>1, <2>2 DEF Service!Stop, Doing, Asked, Given
  <2> QED
    BY <1>2, <2>3
<1>6. CASE Serve(m)
  <2>1. PICK ans \in Answers : /\ ServeOpen(m, ans) \/ ServeOther(m, ans)
                               /\ replies' = replies \cup {Reply(m, ans)}
    BY <1>6 DEF Serve
  <2> DEFINE w == Reply(m, ans)
             r == [client |-> w.client, call |-> w.call, ans |-> w.ans]
  <2>2. w.client = m.client /\ w.call = m.call /\ w.ans = ans
    BY DEF Reply
  <2>3. replies' = replies \cup {w}
    BY <2>1
  <2> HIDE DEF w
  <2>4. Given' = Given \cup {r} /\ r \in Given'
    BY <2>3 DEF Given
  <2>5. r.client = a.client /\ r.call = a.call /\ r.ans = ans
    BY <1>3, <2>2
  <2> HIDE DEF r
  <2>6. \/ Service!Perform(a.client, a.op, r.ans)
        \/ a.op.cmd = "Open" /\ Service!OpenFile(a.client, a.call, a.op, r.ans)
        \/ /\ a.op.cmd = "Open"
           /\ \E e \in open : /\ e.client = a.client /\ e.call = a.call
                              /\ r.ans = Service!Done(e.fileId, << >>)
           /\ UNCHANGED server
    <3>1. CASE ServeOther(m, ans)
      <4>1. Perform(a.client, a.op, r.ans)
        BY <1>3, <2>5, <3>1 DEF ServeOther
      <4> QED
        BY <4>1, SameServer
    <3>2. CASE ServeOpen(m, ans)
      <4>1. a.op.cmd = "Open"
        BY <1>3, <3>2 DEF ServeOpen
      <4>2. CASE OpenFile(m.client, m.call, m.op, ans)
        <5>1. OpenFile(a.client, a.call, a.op, r.ans)
          BY <1>3, <2>5, <4>2
        <5> QED
          BY <4>1, <5>1, SameServer
      <4>3. CASE ~OpenFile(m.client, m.call, m.op, ans)
        <5>1. PICK e \in Opened(m) : ans = Done(e.fileId, << >>) /\ UNCHANGED server
          BY <3>2, <4>3 DEF ServeOpen, server
        <5>2. e \in open /\ e.client = m.client /\ openedBy[e.fileId] = m.id
          BY <5>1 DEF Opened
        <5>3. e.call = m.call
          BY <5>2 DEF PosInv, EntryOfCall
        <5>4. r.ans = Service!Done(e.fileId, << >>)
          BY <2>5, <5>1 DEF Done, Service!Done
        <5> QED
          BY <1>3, <4>1, <5>1, <5>2, <5>3, <5>4
      <4> QED
        BY <4>2, <4>3
    <3> QED
      BY <2>1, <3>1, <3>2
  <2>7. Service!Do(a)
    BY <1>1, <1>4, <2>4, <2>5, <2>6 DEF Service!Do, Service!server, server, Doing, Asked, Given
  <2> QED
    BY <1>2, <2>7
<1> QED
  BY <1>1, <1>5, <1>6

LEMMA ServiceStep == IInv /\ PosInv /\ [Next]_vars => [Service!Next]_<<server, files, calls, Doing, Asked, Given>>
<1> SUFFICES ASSUME IInv, PosInv, [Next]_vars
             PROVE  Service!Next \/ UNCHANGED <<server, files, calls, Doing, Asked, Given>>
  OBVIOUS
<1>1. CASE UNCHANGED vars
  BY <1>1 DEF vars, client, Doing, Asked, Given
<1>2. ASSUME NEW c \in Clients, TimedOut(c)
      PROVE  UNCHANGED <<server, files, calls, Doing, Asked, Given>>
  BY <1>2 DEF TimedOut, Doing, Asked, Given
<1>3. ASSUME NEW c \in Clients, Resend(c)
      PROVE  UNCHANGED <<server, files, calls, Doing, Asked, Given>>
  BY <1>3, ResendStutters
<1>4. ASSUME NEW c \in Clients, Methods(c) \/ GiveUp(c) \/ Receive(c)
      PROVE  Service!Next
  <2>1. Service!Call(c) \/ Service!Return(c)
    BY <1>4, MethodCalls, FinishReturns
  <2> QED
    BY <2>1 DEF Service!Next
<1>5. CASE ServeNext
  <2>1. \E a \in Asked : Service!Do(a) \/ Service!Stop(a)
    BY <1>5, ServeImplements
  <2> QED
    BY <2>1 DEF Service!Next, Asked
<1> QED
  BY <1>1, <1>2, <1>3, <1>4, <1>5 DEF Next
-----------------------------------------------------------------------------
(* The theorems *)

THEOREM Invariance == Spec => []IInv
BY InitIInv, NextIInv, PTL DEF Spec

\* A File that a program holds, and is not closing, is open for it at the server
\* under the path and in the mode it asked for, whatever is lost, repeated or
\* late (FileOpen, FileClose, getOpenFile, seekOpenFile).
THEOREM HandlesStayOpen == Spec => []HandlesAreOpen
<1>1. IInv => HandlesAreOpen
  <2> SUFFICES ASSUME IInv, NEW c \in Clients, NEW f \in files[c], ~Closing(c, f.fileId)
               PROVE  \E e \in Entry(c, f.fileId) : e.path = f.path /\ e.mode = f.mode
    BY DEF HandlesAreOpen
  <2>1. PICK r \in replies : /\ Granted(r) /\ r.client = c /\ r.ans.fileId = f.fileId
                             /\ \E m \in requests : Asks(m, c, r.id, f)
    BY DEF IInv, HeldIsGranted
  <2>2. PICK m \in requests : Asks(m, c, r.id, f)
    BY <2>1
  <2>3. \A w \in requests : ~CloseOf(w, c, f.fileId)
    BY DEF IInv, HeldIsGranted
  <2>4. PICK e \in open : /\ e.client = c /\ e.fileId = f.fileId
                          /\ \E w \in requests : Asks(w, c, r.id, e)
    BY <2>1, <2>3 DEF IInv, GrantedIsOpen
  <2>5. PICK w \in requests : Asks(w, c, r.id, e)
    BY <2>4
  <2>6. w = m
    BY <2>2, <2>5 DEF IInv, Numbered, Asks
  <2> QED
    BY <2>2, <2>4, <2>5, <2>6 DEF Asks, Entry
<1> QED
  BY <1>1, Invariance, PTL

\* Nothing but blocks that somebody wrote is in a file, however often a write is
\* done again and however late: it is where the file went when it was asked for,
\* and files only grow (FileWrite, writeFile, the handlers of dumbfs-outside).
THEOREM FilesStayWhole == Spec => []NoHoles
<1>1. PosInv => NoHoles
  <2> SUFFICES ASSUME PosInv, NEW i \in 1 .. Len(data), NEW k \in 1 .. Len(data[i])
               PROVE  data[i][k] # Hole
    BY DEF NoHoles
  <2>1. data[i] \in Seq(Blocks)
    BY DEF PosInv, HostOK
  <2>2. data[i][k] \in Blocks
    BY <2>1
  <2> QED
    BY <2>2, FileServerAssumption
<1> QED
  BY <1>1, PosHolds, PTL

\* Without the packets, the numbers and the timeouts the clients and the server
\* are the service: whatever is lost, repeated or late, a call that returns an
\* answer returns one that the server gave to this very call (the methods of
\* file-system-dumbfs.c, the loop of dumbfs-outside).
THEOREM PacketsImplementService == Spec => ImplementsService
<1>1. Init => Service!Init
  BY DEF Init, Service!Init, ServerInit, Service!ServerInit, NoCall
<1>2. IInv /\ PosInv /\ [Next]_vars => [Service!Next]_(Service!vars)
  BY ServiceStep DEF Service!vars, Service!server, server, Doing, Asked, Given
<1> QED
  BY <1>1, <1>2, PosHolds, PTL DEF Spec, ImplementsService, Service!Spec
=============================================================================
