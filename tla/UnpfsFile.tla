---- MODULE UnpfsFile ----
(***************************************************************************)
(* Reads, writes and fsyncs of one file of the host through the fids of    *)
(* unpfs (src/crates/unpfs/src/main.rs:316-340, 397-407), each fid with a  *)
(* tokio::fs::File of its own behind a mutex.  tokio answers a write when  *)
(* it has copied the data: the write itself goes on in the background,     *)
(* even after the File is dropped, and what becomes of it is known to the  *)
(* next operation on the same File.  seek and sync_all keep an error for   *)
(* the next write, which reports it in the place of its own.               *)
(*                                                                         *)
(* Writes are numbered as they are acknowledged, and a block of the file   *)
(* holds the number of the write it was last written by, 0 for none.       *)
(***************************************************************************)
EXTENDS Integers, FiniteSets, SequencesExt

CONSTANTS
  Fids, Tasks,
  Offsets,      \* the blocks of the file
  MaxWrites     \* bound: acknowledged writes

ASSUME FileAssumption == Offsets \subseteq Nat /\ MaxWrites \in Nat

VARIABLES
  file,      \* of a fid: is it open, where, its write under way, its error
  queue,     \* of a fid: the tasks at its mutex, the holder first
  op,        \* of a task: its request and how far it is
  content,   \* the file
  orphans,   \* writes under way of Files that were dropped
  writes,    \* history: the writes acknowledged, where they were to go and where
             \* they go, whether a later write was told of their error, and
             \* whether the File they went through is still open
  applied,   \* history: the writes the file has seen, in order
  failed     \* history: the writes it has not
vars == <<file, queue, op, content, orphans, writes, applied, failed>>

Closed == [open |-> FALSE, pos |-> 0, busy |-> 0, err |-> 0]
Opened == [Closed EXCEPT !.open = TRUE]
Idle == [kind |-> "none", at |-> "idle"]

Init ==
  /\ file = [f \in Fids |-> Closed] /\ queue = [f \in Fids |-> <<>>]
  /\ op = [t \in Tasks |-> Idle] /\ content = [o \in Offsets |-> 0]
  /\ orphans = {} /\ writes = <<>> /\ applied = <<>> /\ failed = {}

Host == <<content, applied, failed>>
Holds(t, at) == op[t].at = at /\ Head(queue[op[t].fid]) = t
Answer(t, ok, value) ==
  /\ op' = [op EXCEPT ![t] = [@ EXCEPT !.at = "done", !.ok = ok, !.value = value]]
  /\ queue' = [queue EXCEPT ![op[t].fid] = Tail(@)]

\* The File of a fid is dropped: its write under way goes on without it.
Drops(f, new) ==
  /\ file' = [file EXCEPT ![f] = new]
  /\ orphans' = orphans \cup ({file[f].busy} \ {0})
  /\ writes' = [w \in DOMAIN writes |-> [writes[w] EXCEPT !.mine = @ /\ writes[w].fid # f]]
  /\ UNCHANGED <<queue, op, Host>>

\* A File in the place of the one before, if any, when nobody is at the mutex.
rlopen(f) == queue[f] = <<>> /\ Drops(f, Opened)

\* A client clunks a fid when no request of its own is left.
rclunk(f) == file[f].open /\ (\A t \in Tasks : op[t].at # "idle" => op[t].fid # f) /\ Drops(f, Closed)

\* lock().await, and without a File an error.
Request(t, kind, f, off) ==
  /\ op[t].at = "idle"
  /\ kind = "rwrite" => Len(writes) + Cardinality({u \in Tasks : op[u].kind = "rwrite"}) < MaxWrites
  /\ op' = [op EXCEPT ![t] =
              [kind |-> kind, fid |-> f, off |-> off, ok |-> file[f].open, value |-> 0, since |-> Len(writes),
               at |-> IF ~file[f].open THEN "done" ELSE IF kind = "rfsync" THEN "sync" ELSE "seek"]]
  /\ queue' = IF file[f].open THEN [queue EXCEPT ![f] = Append(@, t)] ELSE queue
  /\ UNCHANGED <<file, orphans, writes, Host>>

\* Mutant: the mutex is not held while the file seeks.
seek_unlocked(t) ==
  LET f == op[t].fid IN
  /\ op[t].at = "seek" /\ file[f].busy = 0
  /\ file' = [file EXCEPT ![f].pos = op[t].off]
  /\ op' = [op EXCEPT ![t].at = op[t].kind]
  /\ UNCHANGED <<queue, orphans, writes, Host>>
\* Mutant: the File goes on while its write is under way.
seek_at_once(t) ==
  LET f == op[t].fid IN
  /\ Holds(t, "seek")
  /\ file' = [file EXCEPT ![f].pos = op[t].off, ![f].busy = 0]
  /\ orphans' = orphans \cup ({file[f].busy} \ {0})
  /\ op' = [op EXCEPT ![t].at = op[t].kind]
  /\ UNCHANGED <<queue, writes, Host>>
\* seek waits for the write under way.
seek(t) ==
  LET f == op[t].fid IN
  /\ Holds(t, "seek") /\ file[f].busy = 0
  /\ file' = [file EXCEPT ![f].pos = op[t].off]
  /\ op' = [op EXCEPT ![t].at = op[t].kind]
  /\ UNCHANGED <<queue, orphans, writes, Host>>

\* A read of one block at the position of the File.
rread(t) ==
  /\ Holds(t, "rread")
  /\ Answer(t, TRUE, content[file[op[t].fid].pos])
  /\ UNCHANGED <<file, orphans, writes, Host>>

\* Mutant: the error of the write before is dropped.
rwrite_forgets(t) ==
  LET f == op[t].fid IN
  /\ Holds(t, "rwrite")
  /\ writes' = Append(writes, [fid |-> f, off |-> op[t].off, pos |-> file[f].pos, told |-> FALSE, mine |-> TRUE])
  /\ file' = [file EXCEPT ![f].busy = Len(writes) + 1, ![f].err = 0]
  /\ Answer(t, TRUE, Len(writes) + 1)
  /\ UNCHANGED <<orphans, Host>>
rwrite(t) ==
  LET f == op[t].fid IN
  /\ Holds(t, "rwrite")
  /\ IF file[f].err # 0
     THEN /\ file' = [file EXCEPT ![f].err = 0]
          /\ writes' = [writes EXCEPT ![file[f].err].told = TRUE]
          /\ Answer(t, FALSE, 0)
     ELSE /\ writes' = Append(writes, [fid |-> f, off |-> op[t].off, pos |-> file[f].pos, told |-> FALSE, mine |-> TRUE])
          /\ file' = [file EXCEPT ![f].busy = Len(writes) + 1]
          /\ Answer(t, TRUE, Len(writes) + 1)
  /\ UNCHANGED <<orphans, Host>>

\* Mutant: sync_all does not wait.
rfsync_at_once(t) ==
  Holds(t, "sync") /\ Answer(t, TRUE, 0) /\ UNCHANGED <<file, orphans, writes, Host>>
\* sync_all waits for the write under way; its error stays for the next write.
rfsync(t) ==
  /\ Holds(t, "sync") /\ file[op[t].fid].busy = 0
  /\ Answer(t, TRUE, 0)
  /\ UNCHANGED <<file, orphans, writes, Host>>

Reply(t) ==
  /\ op[t].at = "done"
  /\ op' = [op EXCEPT ![t] = Idle]
  /\ UNCHANGED <<file, queue, orphans, writes, Host>>

-----------------------------------------------------------------------------
\* The background thread of write w: the data is there, or an error.
WriteEnds(w, ok) ==
  /\ \/ /\ \E f \in Fids : file[f].busy = w
        /\ file' = [f \in Fids |-> IF file[f].busy = w
                                   THEN [file[f] EXCEPT !.busy = 0, !.err = IF ok THEN 0 ELSE w] ELSE file[f]]
        /\ UNCHANGED orphans
     \/ w \in orphans /\ orphans' = orphans \ {w} /\ UNCHANGED file
  /\ IF ok THEN content' = [content EXCEPT ![writes[w].pos] = w] /\ applied' = Append(applied, w) /\ UNCHANGED failed
     ELSE failed' = failed \cup {w} /\ UNCHANGED <<content, applied>>
  /\ UNCHANGED <<queue, op, writes>>

Next ==
  \/ \E f \in Fids : rlopen(f) \/ rclunk(f)
  \/ \E t \in Tasks, f \in Fids, o \in Offsets, k \in {"rread", "rwrite"} : Request(t, k, f, o)
  \/ \E t \in Tasks, f \in Fids : Request(t, "rfsync", f, 0)
  \/ \E t \in Tasks : seek(t) \/ rread(t) \/ rwrite(t) \/ rfsync(t) \/ Reply(t)
  \/ \E w \in 1..Len(writes), ok \in BOOLEAN : WriteEnds(w, ok)

Spec == Init /\ [][Next]_vars

-----------------------------------------------------------------------------
AtMutex(f) == {t \in Tasks : op[t].at \in {"seek", "rread", "rwrite", "sync"} /\ op[t].fid = f}
Written(f) == {w \in DOMAIN writes : writes[w].fid = f /\ writes[w].mine}

File == [open : BOOLEAN, pos : Offsets \cup {0}, busy : Nat, err : Nat]
Op == [kind : {"rread", "rwrite", "rfsync"}, at : {"seek", "rread", "rwrite", "sync", "done"},
       fid : Fids, off : Offsets \cup {0}, ok : BOOLEAN, value : Nat, since : Nat]
Write == [fid : Fids, off : Offsets, pos : Offsets, told : BOOLEAN, mine : BOOLEAN]

(* The state keeps its type; the mutex of a fid knows the tasks at it, each*)
(* once, and the one between its seek and its read or write holds it.      *)
TypeOK ==
  /\ file \in [Fids -> File] /\ op \in [Tasks -> Op \cup {Idle}] /\ queue \in [Fids -> Seq(Tasks)]
  /\ content \in [Offsets -> Nat] /\ writes \in Seq(Write) /\ applied \in Seq(Nat)
  /\ orphans \subseteq Nat /\ failed \subseteq Nat
  /\ \A f \in Fids : ToSet(queue[f]) = AtMutex(f) /\ IsInjective(queue[f])
  /\ \A t \in Tasks : op[t].at \in {"rread", "rwrite"} => Head(queue[op[t].fid]) = t

(* A write goes where its request said (main.rs:335-336): no other request *)
(* on the fid moves the File between the seek and the write.               *)
WritesLand == \A w \in DOMAIN writes : writes[w].pos = writes[w].off

(* Requests do not hold one another up (main.rs:318-322, 333-336, 399-403):*)
(* one that waits for the mutex or for its File waits for a request of the *)
(* same fid that can go on, or for a write of that File under way.         *)
GoesOn(t) ==
  \/ op[t].at = "done" \/ Holds(t, "rread") \/ Holds(t, "rwrite")
  \/ (Holds(t, "seek") \/ Holds(t, "sync")) /\ file[op[t].fid].busy \in {0} \cup DOMAIN writes
MutexPasses ==
  \A t \in Tasks : op[t].at # "idle" => \E u \in Tasks : op[u].at # "idle" /\ op[u].fid = op[t].fid /\ GoesOn(u)

(* An rread sees the last write acknowledged through its fid at its offset *)
(* (main.rs:316-340), or a write that came later, but for writes that      *)
(* failed in the background.                                               *)
ReadsOwnWrites ==
  [][\A t \in Tasks :
       op[t].at = "rread" /\ op'[t].at = "done" =>
         LET own == {w \in Written(op[t].fid) : writes[w].off = op[t].off} \ failed
         IN \A w \in own : \E i, j \in DOMAIN applied :
              applied[i] = w /\ applied[j] = op'[t].value /\ i <= j /\ writes[applied[j]].off = op[t].off]_vars

(* A write that failed after it was acknowledged makes the next rwrite of  *)
(* its fid fail (main.rs:336): its error is not lost but with the fid.     *)
FailureIsTold ==
  \A w \in failed : writes[w].told \/ ~writes[w].mine \/ file[writes[w].fid].err = w

(* When an rfsync is answered, the writes of its fid that were             *)
(* acknowledged before it have ended (main.rs:399-404).                    *)
FsyncWaits ==
  \A t \in Tasks : op[t].kind = "rfsync" /\ op[t].at = "done" /\ op[t].ok =>
    \A w \in Written(op[t].fid) : w <= op[t].since => w \in failed \cup ToSet(applied)

(* "Ensures that all modified data for the file is written to persistent   *)
(* storage" (srv.rs:356): what was acknowledged before an rfsync that      *)
(* succeeds is in the file, or its error was told.                         *)
FsyncMeansWritten ==
  \A t \in Tasks : op[t].kind = "rfsync" /\ op[t].at = "done" /\ op[t].ok =>
    \A w \in Written(op[t].fid) : w <= op[t].since => w \notin failed \/ writes[w].told
====
