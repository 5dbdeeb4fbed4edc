----------------------------- MODULE FileService -----------------------------
(***************************************************************************)
(* What DumbFS promises to the programs that call File* (libs/file/file.c) *)
(* without the packets, the request numbers and the timeouts that bring it *)
(* about.  A call hands the server something to do; the server may do it   *)
(* once, several times, or again after the call returned; and a call that  *)
(* returns an answer returns one that the server gave to this very call.   *)
(***************************************************************************)
EXTENDS FileServer

VARIABLES files,        \* the File objects each client holds
          calls,        \* how many calls each client has made
          doing,        \* what its current call asks for, None between calls
          asked,        \* what the server may still do
          answers       \* the answers that may still be returned

vars == <<server, files, calls, doing, asked, answers>>

Init ==
  /\ ServerInit
  /\ files = [c \in Clients |-> {}]
  /\ calls = [c \in Clients |-> 0]
  /\ doing = [c \in Clients |-> None]
  /\ asked = {}
  /\ answers = {}

\* What the caller is left with: an open file when the open succeeded, the
\* file at its next block after a read or a write, no file after a close.
Outcome(held, op, ans) ==
  CASE op.cmd = "Open" /\ ans.done ->
         held \cup {[fileId |-> ans.fileId, path |-> op.path, mode |-> op.mode, pos |-> 0]}
    [] op.cmd \in {"Read", "Write"} /\ ans.done ->
         {IF f.fileId = op.fileId THEN [f EXCEPT !.pos = @ + Len(ans.blocks)] ELSE f : f \in held}
    [] op.cmd = "Close" -> {f \in held : f.fileId # op.fileId}
    [] OTHER -> held

\* What a program can ask for, given the Files it holds.
Operations(held) ==
       [cmd : {"Open"}, path : Paths, mode : Modes]
  \cup {[cmd |-> "Close", fileId |-> f.fileId] : f \in held}
  \cup {[cmd |-> "Read", fileId |-> f.fileId, pos |-> f.pos] : f \in held}
  \cup {[cmd |-> "Write", fileId |-> f.fileId, pos |-> f.pos, block |-> b] :
          f \in held, b \in Blocks}
  \cup [cmd : {"Delete"}, path : Paths]
  \cup [cmd : {"Rename"}, path : Paths, to : Paths]

Call(c) ==
  /\ doing[c] = None
  /\ calls' = [calls EXCEPT ![c] = @ + 1]
  /\ \E op \in Operations(files[c]) :
       /\ doing' = [doing EXCEPT ![c] = op]
       /\ asked' = asked \cup {[client |-> c, call |-> calls'[c], op |-> op]}
  /\ UNCHANGED <<server, files, answers>>

\* The server does what it was asked to, or once more.  An open that is done
\* again may find what it opened the first time.
Do(a) ==
  /\ up
  /\ \E r \in answers' :
       /\ r.client = a.client /\ r.call = a.call
       /\ answers' = answers \cup {r}
       /\ \/ Perform(a.client, a.op, r.ans)
          \/ a.op.cmd = "Open" /\ OpenFile(a.client, a.call, a.op, r.ans)
          \/ /\ a.op.cmd = "Open"
             /\ \E e \in open : /\ e.client = a.client /\ e.call = a.call
                                /\ r.ans = Done(e.fileId, << >>)
             /\ UNCHANGED server
  /\ UNCHANGED <<files, calls, doing, asked>>

Stop(a) ==
  /\ up
  /\ CannotChange(a.op)
  /\ UNCHANGED <<files, calls, doing, asked, answers>>

Return(c) ==
  /\ doing[c] # None
  /\ \/ \E a \in answers : /\ a.client = c /\ a.call = calls[c]
                           /\ files' = [files EXCEPT ![c] = Outcome(@, doing[c], a.ans)]
     \/ files' = [files EXCEPT ![c] = Outcome(@, doing[c], Failed)]
  /\ doing' = [doing EXCEPT ![c] = None]
  /\ UNCHANGED <<server, calls, asked, answers>>

Next ==
  \/ \E c \in Clients : Call(c) \/ Return(c)
  \/ \E a \in asked : Do(a) \/ Stop(a)

Spec == Init /\ [][Next]_vars
=============================================================================
