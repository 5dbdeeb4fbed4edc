------------------------------ MODULE FileServer ------------------------------
(***************************************************************************)
(* What the server of DumbFS, the process outside of the simulated machine *)
(* (aux/dumbfs-outside/dumbfs-outside.c), does with one request: the files *)
(* of its host, the list of those it has open, and the answer.             *)
(*                                                                         *)
(* A file is a sequence of blocks; a read asks for one block and a write   *)
(* writes one.  Names lead to files, and a file that is open outlives its  *)
(* name, as on any Unix.                                                   *)
(***************************************************************************)
EXTENDS Integers, Sequences

CONSTANTS Clients,      \* a client is the address and port requests come from
          Paths, Blocks,
          Modes,        \* the non-empty sets of "Read" and "Write" used to open
          Hole,         \* a block that nobody wrote
          None          \* where a name leads when there is no such file

ASSUME FileServerAssumption ==
  /\ Modes \subseteq SUBSET {"Read", "Write"}
  /\ None \notin Nat
  /\ Hole \notin Blocks

\* What a DumbFSRequest asks for, but for its header.
Operation ==
       [cmd : {"Open"}, path : Paths, mode : Modes]
  \cup [cmd : {"Close"}, fileId : Nat]
  \cup [cmd : {"Read"}, fileId : Nat, pos : Nat]
  \cup [cmd : {"Write"}, fileId : Nat, pos : Nat, block : Blocks]
  \cup [cmd : {"Delete"}, path : Paths]
  \cup [cmd : {"Rename"}, path : Paths, to : Paths]

\* Where there is no call there is nothing that is asked for.
ASSUME NoneAssumption == None \notin Operation

VARIABLES names,        \* the directory: the file a path leads to
          data,         \* the blocks of each file created so far
          open,         \* openFiles, with the file and the call each entry is for
          nextFileId,
          up            \* the process has not returned from main

server == <<names, data, open, nextFileId, up>>

ServerInit ==
  /\ \E p \in Paths, b \in Blocks :
       /\ names = [q \in Paths |-> IF q = p THEN 1 ELSE None]
       /\ data = << <<b>> >>
  /\ open = {}
  /\ nextFileId = 1
  /\ up = TRUE

\* A DumbFSReply but for its header.  Every error leaves a caller with the same:
\* they are one.  On success of a read or a write nothing sets errorAsInt: it is
\* what the stack held, so a success may be answered as a failure.
Done(id, blocks) == [done |-> TRUE, fileId |-> id, blocks |-> blocks]
Failed == [done |-> FALSE, fileId |-> 0, blocks |-> << >>]

Answers == {Failed} \cup {Done(id, blocks) :
                            id \in 0 .. nextFileId,
                            blocks \in {<< >>} \cup {<<b>> : b \in Blocks \cup {Hole}}}

Entry(c, i) == {e \in open : e.client = c /\ e.fileId = i}

-----------------------------------------------------------------------------
(* getOpenFile, once no entry was found *)

OpenEntry(c, call, op, file) ==
  /\ open' = open \cup {[client |-> c, call |-> call, path |-> op.path,
                         mode |-> op.mode, fileId |-> nextFileId, file |-> file]}
  /\ nextFileId' = nextFileId + 1
  /\ UNCHANGED up

OpenFile(c, call, op, ans) ==
  \/ /\ names[op.path] # None
     /\ OpenEntry(c, call, op, names[op.path])
     /\ ans = Done(nextFileId, << >>)
     /\ UNCHANGED <<names, data>>
  \/ /\ names[op.path] = None /\ "Write" \in op.mode
     /\ data' = Append(data, << >>)
     /\ names' = [names EXCEPT ![op.path] = Len(data')]
     /\ OpenEntry(c, call, op, Len(data'))
     /\ ans = Done(nextFileId, << >>)
  \/ /\ ans = Failed
     /\ UNCHANGED server

\* The answer is the same whether or not there is such an entry.
CloseFile(c, op, ans) ==
  /\ open' = open \ Entry(c, op.fileId)
  /\ ans = Done(0, << >>)
  /\ UNCHANGED <<names, data, nextFileId, up>>

ReadFile(c, op, ans) ==
  /\ \/ ans = Failed
     \/ \E e \in Entry(c, op.fileId) :
          /\ "Read" \in e.mode
          /\ op.pos < Len(data[e.file])
          /\ ans = Done(0, <<data[e.file][op.pos + 1]>>)
  /\ UNCHANGED server

\* lseek and write: a write beyond the end leaves a hole.
Written(s, pos, b) ==
  [k \in 1 .. IF pos < Len(s) THEN Len(s) ELSE pos + 1 |->
     IF k = pos + 1 THEN b ELSE IF k <= Len(s) THEN s[k] ELSE Hole]

WriteFile(c, op, ans) ==
  \/ /\ ans = Failed
     /\ UNCHANGED server
  \/ \E e \in Entry(c, op.fileId) :
       /\ "Write" \in e.mode
       /\ data' = [data EXCEPT ![e.file] = Written(@, op.pos, op.block)]
       /\ ans \in {Failed, Done(0, <<op.block>>)}
       /\ UNCHANGED <<names, open, nextFileId, up>>

DeleteFile(op, ans) ==
  /\ names[op.path] # None
  /\ names' = [names EXCEPT ![op.path] = None]
  /\ ans = Done(0, << >>)
  /\ UNCHANGED <<data, open, nextFileId, up>>

RenameFile(op, ans) ==
  /\ names[op.path] # None
  /\ names' = [p \in Paths |-> IF p = op.to THEN names[op.path]
                               ELSE IF p = op.path THEN None ELSE names[p]]
  /\ ans = Done(0, << >>)
  /\ UNCHANGED <<data, open, nextFileId, up>>

\* A path that cannot be removed or renamed ends the process (return 0 in
\* main), before any answer is sent.
CannotChange(op) ==
  /\ op.cmd \in {"Delete", "Rename"}
  /\ up' = FALSE
  /\ UNCHANGED <<names, data, open, nextFileId>>

\* Every request but an open.
Perform(c, op, ans) ==
  \/ op.cmd = "Close" /\ CloseFile(c, op, ans)
  \/ op.cmd = "Read" /\ ReadFile(c, op, ans)
  \/ op.cmd = "Write" /\ WriteFile(c, op, ans)
  \/ op.cmd = "Delete" /\ DeleteFile(op, ans)
  \/ op.cmd = "Rename" /\ RenameFile(op, ans)
=============================================================================
