---- MODULE UnpfsFileProofs ----
(***************************************************************************)
(* Proofs about the reads, writes and fsyncs of one file, for any number   *)
(* of fids, tasks, blocks and writes.                                      *)
(***************************************************************************)
EXTENDS UnpfsFile, FoldFacts

Ended(w) == w \in failed \cup ToSet(applied)

\* A task at the mutex has a File, and the one that has sought is where its
\* request said, with no write under way.
Positioned ==
  \A t \in Tasks :
    /\ op[t].at \in {"seek", "rread", "rwrite", "sync"} => file[op[t].fid].open
    /\ op[t].at \in {"seek", "rread", "rwrite"} => op[t].kind # "rfsync" /\ op[t].off \in Offsets
    /\ op[t].at \in {"rread", "rwrite"} => file[op[t].fid].pos = op[t].off /\ file[op[t].fid].busy = 0

\* A File has at most one write under way, one of its own.
UnderWay ==
  /\ \A f \in Fids :
       /\ file[f].err # 0 => file[f].busy = 0
       /\ file[f].busy # 0 =>
            /\ file[f].busy \in DOMAIN writes /\ file[f].open
            /\ writes[file[f].busy].fid = f /\ writes[file[f].busy].mine
  /\ \A w \in orphans : w \in DOMAIN writes /\ ~writes[w].mine
  /\ failed \subseteq DOMAIN writes

\* A write through a File that is still open has ended or is under way.
Accounted ==
  \A w \in DOMAIN writes :
    writes[w].mine => file[writes[w].fid].open /\ (Ended(w) \/ file[writes[w].fid].busy = w)

\* The file holds in a block the last write there.
LastWrite(o, j) ==
  /\ applied[j] = content[o] /\ writes[applied[j]].pos = o
  /\ \A i \in DOMAIN applied : writes[applied[i]].pos = o => i <= j
ContentIsLast ==
  /\ \A i \in DOMAIN applied : applied[i] \in DOMAIN writes
  /\ \A o \in Offsets :
       \/ \A i \in DOMAIN applied : writes[applied[i]].pos # o
       \/ \E j \in DOMAIN applied : LastWrite(o, j)

Synced == FsyncWaits /\ \A t \in Tasks : op[t].at # "idle" => op[t].since <= Len(writes)

FileInv ==
  /\ TypeOK /\ Positioned /\ UnderWay /\ Accounted /\ ContentIsLast
  /\ WritesLand /\ FailureIsTold /\ Synced

-----------------------------------------------------------------------------
(* Types, and who is at the mutex.                                         *)

Queues ==
  /\ op \in [Tasks -> Op \cup {Idle}] /\ queue \in [Fids -> Seq(Tasks)]
  /\ \A f \in Fids : ToSet(queue[f]) = AtMutex(f) /\ IsInjective(queue[f])
  /\ \A t \in Tasks : op[t].at \in {"rread", "rwrite"} => Head(queue[op[t].fid]) = t
Files ==
  /\ file \in [Fids -> File] /\ content \in [Offsets -> Nat] /\ writes \in Seq(Write)
  /\ applied \in Seq(Nat) /\ orphans \subseteq Nat /\ failed \subseteq Nat

LEMMA TypeParts == TypeOK <=> Queues /\ Files
BY DEF TypeOK, Queues, Files

(* A request that has been sent has its fields.                            *)
LEMMA OpFields ==
  ASSUME Queues, NEW t \in Tasks, op[t].at # "idle"
  PROVE  op[t] \in Op
BY DEF Queues, Idle

LEMMA IdleFields ==
  ASSUME Queues, NEW t \in Tasks
  PROVE  op[t].at = "idle" <=> op[t] = Idle
BY DEF Queues, Idle, Op

LEMMA SendStep ==
  ASSUME Queues, Files, NEW t \in Tasks, NEW f \in Fids, NEW off \in Offsets \cup {0},
         NEW kind \in {"rread", "rwrite", "rfsync"}, Request(t, kind, f, off)
  PROVE  Queues'
<1> DEFINE o == [kind |-> kind, fid |-> f, off |-> off, ok |-> file[f].open, value |-> 0, since |-> Len(writes),
                 at |-> IF ~file[f].open THEN "done" ELSE IF kind = "rfsync" THEN "sync" ELSE "seek"]
<1>1. file[f].open \in BOOLEAN /\ Len(writes) \in Nat
  BY DEF Files, File
<1>2. o \in Op /\ op' = [op EXCEPT ![t] = o]
  BY <1>1 DEF Op, Request
<1>3. op' \in [Tasks -> Op \cup {Idle}] /\ op'[t] = o /\ \A u \in Tasks \ {t} : op'[u] = op[u]
  BY <1>2 DEF Queues
<1>4. op[t].at = "idle"
  BY DEF Request
<1>5. o.fid = f /\ o.at \notin {"rread", "rwrite"} /\ (o.at = "done" <=> ~file[f].open) /\ o.at \in {"done", "sync", "seek"}
  BY <1>1
<1> HIDE DEF o
<1>6. \A g \in Fids : t \notin AtMutex(g)
  BY <1>4 DEF AtMutex
<1>7. CASE ~file[f].open
  <2>1. queue' = queue
    BY <1>7 DEF Request
  <2>2. \A g \in Fids : AtMutex(g)' = AtMutex(g)
    BY <1>3, <1>4, <1>5, <1>7 DEF AtMutex
  <2>3. QED
    BY <2>1, <2>2, <1>3, <1>5 DEF Queues
<1>8. CASE file[f].open
  <2>1. queue' = [queue EXCEPT ![f] = Append(@, t)]
    BY <1>8 DEF Request
  <2>2. /\ queue[f] \in Seq(Tasks) /\ IsInjective(queue[f]) /\ ToSet(queue[f]) = AtMutex(f)
    BY DEF Queues
  <2>3. /\ Append(queue[f], t) \in Seq(Tasks)
        /\ ToSet(Append(queue[f], t)) = AtMutex(f) \cup {t}
        /\ IsInjective(Append(queue[f], t))
        /\ queue[f] # <<>> => Head(Append(queue[f], t)) = Head(queue[f])
    BY <2>2, <1>6, Enqueue
  <2>4. queue' \in [Fids -> Seq(Tasks)] /\ queue'[f] = Append(queue[f], t) /\ \A g \in Fids \ {f} : queue'[g] = queue[g]
    BY <2>1, <2>3 DEF Queues
  <2>5. AtMutex(f)' = AtMutex(f) \cup {t} /\ \A g \in Fids \ {f} : AtMutex(g)' = AtMutex(g)
    BY <1>3, <1>4, <1>5, <1>8 DEF AtMutex
  <2>6. ASSUME NEW u \in Tasks, op'[u].at \in {"rread", "rwrite"}
        PROVE  Head(queue'[op'[u].fid]) = u
    <3>1. u # t /\ op'[u] = op[u]
      BY <1>3, <1>5, <2>6
    <3>2. op[u].fid \in Fids /\ Head(queue[op[u].fid]) = u /\ u \in AtMutex(op[u].fid)
      BY <2>6, <3>1, OpFields DEF Queues, AtMutex, Op
    <3>3. queue[op[u].fid] # <<>>
      BY <3>2 DEF Queues, ToSet
    <3>4. QED
      BY <2>3, <2>4, <3>1, <3>2, <3>3
  <2>7. QED
    BY <1>3, <2>2, <2>3, <2>4, <2>5, <2>6 DEF Queues
<1>9. QED
  BY <1>7, <1>8

(* The answer of the task that has the mutex.                              *)
LEMMA AnswerStep ==
  ASSUME Queues, NEW t \in Tasks, NEW at \in {"rread", "rwrite", "sync"}, Holds(t, at),
         NEW ok \in BOOLEAN, NEW value \in Nat, Answer(t, ok, value)
  PROVE  Queues'
<1> DEFINE o == [op[t] EXCEPT !.at = "done", !.ok = ok, !.value = value]
<1>0. PICK f \in Fids : f = op[t].fid
  BY OpFields DEF Holds, Op
<1>1. op[t] \in Op /\ op[t].at = at /\ f = op[t].fid
  BY <1>0, OpFields DEF Holds
<1>2. o \in Op /\ o.at = "done" /\ op' = [op EXCEPT ![t] = o] /\ queue' = [queue EXCEPT ![f] = Tail(@)]
  BY <1>1 DEF Op, Answer
<1>3. op' \in [Tasks -> Op \cup {Idle}] /\ op'[t].at = "done" /\ \A u \in Tasks \ {t} : op'[u] = op[u]
  BY <1>2 DEF Queues
<1>4. Head(queue[f]) = t /\ queue[f] \in Seq(Tasks) /\ IsInjective(queue[f]) /\ ToSet(queue[f]) = AtMutex(f)
  BY <1>1 DEF Queues, Holds
<1>5. t \in AtMutex(f)
  BY <1>1 DEF AtMutex
<1> HIDE DEF o
<1>6. queue[f] # <<>>
  BY <1>4, <1>5 DEF ToSet
<1>7. Tail(queue[f]) \in Seq(Tasks) /\ ToSet(Tail(queue[f])) = AtMutex(f) \ {t} /\ IsInjective(Tail(queue[f]))
  BY <1>4, <1>6, Dequeue
<1>8. queue' \in [Fids -> Seq(Tasks)] /\ queue'[f] = Tail(queue[f]) /\ \A g \in Fids \ {f} : queue'[g] = queue[g]
  BY <1>1, <1>2, <1>7 DEF Queues
<1>9. AtMutex(f)' = AtMutex(f) \ {t} /\ \A g \in Fids \ {f} : AtMutex(g)' = AtMutex(g)
  BY <1>1, <1>3 DEF AtMutex
<1>10. ASSUME NEW u \in Tasks, op'[u].at \in {"rread", "rwrite"}
       PROVE  Head(queue'[op'[u].fid]) = u
  <2>1. u # t /\ op'[u] = op[u]
    BY <1>3, <1>10
  <2>2. op[u].fid \in Fids /\ Head(queue[op[u].fid]) = u
    BY <1>10, <2>1, OpFields DEF Queues, Op
  <2>3. op[u].fid # f
    BY <1>4, <2>1, <2>2
  <2>4. QED
    BY <1>8, <2>1, <2>2, <2>3
<1>11. QED
  BY <1>3, <1>4, <1>7, <1>8, <1>9, <1>10 DEF Queues

LEMMA SeekStep ==
  ASSUME Queues, NEW t \in Tasks, Holds(t, "seek"), op' = [op EXCEPT ![t].at = op[t].kind], queue' = queue,
         op[t].kind \in {"rread", "rwrite"}
  PROVE  Queues'
<1>1. op[t] \in Op /\ op[t].at = "seek" /\ Head(queue[op[t].fid]) = t
  BY OpFields DEF Holds
<1>2. /\ op' \in [Tasks -> Op \cup {Idle}] /\ op'[t].at = op[t].kind /\ op'[t].fid = op[t].fid
      /\ \A u \in Tasks \ {t} : op'[u] = op[u]
  BY <1>1 DEF Queues, Op
<1>3. \A g \in Fids : AtMutex(g)' = AtMutex(g)
  BY <1>1, <1>2 DEF AtMutex
<1>4. QED
  BY <1>1, <1>2, <1>3 DEF Queues

LEMMA ReplyStep ==
  ASSUME Queues, NEW t \in Tasks, Reply(t)
  PROVE  Queues'
<1>1. /\ op' \in [Tasks -> Op \cup {Idle}] /\ op'[t].at = "idle" /\ op[t].at = "done" /\ queue' = queue
      /\ \A u \in Tasks \ {t} : op'[u] = op[u]
  BY DEF Queues, Reply, Idle
<1>2. \A g \in Fids : AtMutex(g)' = AtMutex(g)
  BY <1>1 DEF AtMutex
<1>3. QED
  BY <1>1, <1>2 DEF Queues

-----------------------------------------------------------------------------
(* The steps, one by one.                                                  *)

\* What the proofs below are about, the queues apart.
Rest ==
  /\ Files /\ Positioned /\ UnderWay /\ Accounted /\ ContentIsLast
  /\ WritesLand /\ FailureIsTold /\ Synced

LEMMA WriteFields ==
  ASSUME Files, NEW w \in DOMAIN writes
  PROVE  writes[w] \in Write /\ writes[w].fid \in Fids /\ writes[w].pos \in Offsets
<1>1. writes \in Seq(Write)
  BY DEF Files
<1>2. DOMAIN writes = 1..Len(writes)
  BY <1>1
<1>3. writes[w] \in Write
  BY <1>1, <1>2
<1>4. QED
  BY <1>3 DEF Write

\* A File that nobody waits for is dropped, by rlopen or by rclunk.
LEMMA DropStep ==
  ASSUME Queues, Rest, NEW f \in Fids, NEW new \in {Opened, Closed}, Drops(f, new), AtMutex(f) = {}
  PROVE  Queues' /\ Rest'
<1>1. /\ file' = [file EXCEPT ![f] = new] /\ new \in File
      /\ orphans' = orphans \cup ({file[f].busy} \ {0})
      /\ \A t \in Tasks : op[t].at \in {"seek", "rread", "rwrite", "sync"} => op[t].fid # f
      /\ UNCHANGED <<queue, op, content, applied, failed>>
  <2>1. \A t \in Tasks : op[t].at \in {"seek", "rread", "rwrite", "sync"} => op[t].fid # f
    BY DEF AtMutex
  <2>2. Opened \in File /\ Closed \in File
    BY DEF File, Opened, Closed
  <2>3. QED
    BY <2>1, <2>2 DEF Drops, Host
<1>2. file' \in [Fids -> File] /\ file'[f] = new /\ \A g \in Fids \ {f} : file'[g] = file[g]
  BY <1>1 DEF Rest, Files
<1>3. new.busy = 0 /\ new.err = 0
  BY DEF Opened, Closed
<1>4. writes' = [w \in DOMAIN writes |-> [writes[w] EXCEPT !.mine = @ /\ writes[w].fid # f]]
  BY DEF Drops
<1>5. /\ DOMAIN writes' = DOMAIN writes
      /\ \A w \in DOMAIN writes :
           /\ writes'[w] \in Write
           /\ writes'[w].fid = writes[w].fid /\ writes'[w].off = writes[w].off
           /\ writes'[w].pos = writes[w].pos /\ writes'[w].told = writes[w].told
           /\ writes'[w].mine <=> writes[w].mine /\ writes[w].fid # f
  BY <1>4, WriteFields DEF Write, Rest
<1>6. writes' \in Seq(Write) /\ Len(writes') = Len(writes)
  <2>1. writes \in Seq(Write) /\ DOMAIN writes = 1..Len(writes) /\ Len(writes) \in Nat
    BY DEF Rest, Files
  <2>2. writes' \in [1..Len(writes) -> Write]
    BY <1>4, <1>5, <2>1
  <2>3. QED
    BY <2>1, <2>2
<1>7. Queues'
  BY <1>1 DEF Queues, AtMutex
<1>8. Files'
  BY <1>1, <1>2, <1>6 DEF Rest, Files, File
<1>9. Positioned'
  <2>1. ASSUME NEW t \in Tasks, op[t].at \in {"seek", "rread", "rwrite", "sync"}
        PROVE  op[t].fid \in Fids \ {f}
    BY <1>1, <2>1, OpFields DEF Op
  <2>2. QED
    BY <1>1, <1>2, <2>1 DEF Rest, Positioned
<1>10. UnderWay'
  BY <1>1, <1>2, <1>3, <1>5 DEF Rest, UnderWay
<1>11. Accounted'
  BY <1>1, <1>2, <1>5, <1>3, WriteFields DEF Rest, Accounted, Ended
<1>12. ContentIsLast'
  BY <1>1, <1>5 DEF Rest, ContentIsLast, LastWrite
<1>13. WritesLand'
  BY <1>5 DEF Rest, WritesLand
<1>14. FailureIsTold'
  BY <1>1, <1>2, <1>5, WriteFields DEF Rest, FailureIsTold, UnderWay
<1>15. Synced'
  BY <1>1, <1>5, <1>6 DEF Rest, Synced, FsyncWaits, Written
<1>16. QED
  BY <1>7, <1>8, <1>9, <1>10, <1>11, <1>12, <1>13, <1>14, <1>15 DEF Rest

LEMMA RequestStep ==
  ASSUME Queues, Rest, NEW t \in Tasks, NEW f \in Fids, NEW off \in Offsets \cup {0},
         NEW kind \in {"rread", "rwrite", "rfsync"}, off \in Offsets \/ kind = "rfsync", Request(t, kind, f, off)
  PROVE  Queues' /\ Rest'
<1>1. /\ op' = [op EXCEPT ![t] =
              [kind |-> kind, fid |-> f, off |-> off, ok |-> file[f].open, value |-> 0, since |-> Len(writes),
               at |-> IF ~file[f].open THEN "done" ELSE IF kind = "rfsync" THEN "sync" ELSE "seek"]]
      /\ UNCHANGED <<file, orphans, writes, content, applied, failed>>
  BY DEF Request, Host
<1>2. /\ op'[t].kind = kind /\ op'[t].fid = f /\ op'[t].off = off /\ op'[t].ok = file[f].open
      /\ op'[t].since = Len(writes)
      /\ op'[t].at = IF ~file[f].open THEN "done" ELSE IF kind = "rfsync" THEN "sync" ELSE "seek"
      /\ \A u \in Tasks \ {t} : op'[u] = op[u]
  BY <1>1 DEF Queues
<1>3. Queues'
  BY SendStep DEF Rest
<1>4. Files' /\ UnderWay' /\ Accounted' /\ ContentIsLast' /\ WritesLand' /\ FailureIsTold'
  BY <1>1 DEF Rest, Files, UnderWay, Accounted, Ended, ContentIsLast, LastWrite, WritesLand, FailureIsTold
<1>5. Positioned'
  BY <1>1, <1>2 DEF Rest, Positioned
<1>6. Synced'
  <2>1. op'[t].since <= Len(writes) /\ (op'[t].at = "done" => ~op'[t].ok)
    BY <1>2 DEF Rest, Files
  <2>2. QED
    BY <1>1, <1>2, <2>1 DEF Rest, Synced, FsyncWaits, Written, Ended
<1>7. QED
  BY <1>3, <1>4, <1>5, <1>6 DEF Rest

LEMMA SeekRest ==
  ASSUME Queues, Rest, NEW t \in Tasks, seek(t)
  PROVE  Queues' /\ Rest'
<1>1. PICK f \in Fids : f = op[t].fid
  BY OpFields DEF seek, Holds, Op
<1>2. /\ Holds(t, "seek") /\ file[f].busy = 0
      /\ file' = [file EXCEPT ![f].pos = op[t].off]
      /\ op' = [op EXCEPT ![t].at = op[t].kind]
      /\ UNCHANGED <<queue, orphans, writes, content, applied, failed>>
  BY <1>1 DEF seek, Host
<1>3. op[t] \in Op /\ op[t].at = "seek" /\ op[t].kind \in {"rread", "rwrite"} /\ op[t].off \in Offsets
  BY <1>2, OpFields DEF Holds, Rest, Positioned, Op
<1>4. /\ op'[t].at = op[t].kind /\ op'[t].kind = op[t].kind /\ op'[t].fid = f /\ op'[t].off = op[t].off
      /\ op'[t].since = op[t].since
      /\ \A u \in Tasks \ {t} : op'[u] = op[u]
  BY <1>1, <1>2, <1>3 DEF Queues, Op
<1>5. /\ file' \in [Fids -> File] /\ file'[f].pos = op[t].off /\ file'[f].busy = file[f].busy
      /\ file'[f].err = file[f].err /\ file'[f].open = file[f].open
      /\ \A g \in Fids \ {f} : file'[g] = file[g]
  BY <1>2, <1>3 DEF Rest, Files, File
<1>6. Queues'
  BY <1>2, <1>3, SeekStep
<1>7. Files' /\ UnderWay' /\ ContentIsLast' /\ WritesLand'
  BY <1>2, <1>5 DEF Rest, Files, UnderWay, ContentIsLast, LastWrite, WritesLand
<1>8. Accounted' /\ FailureIsTold'
  BY <1>2, <1>5, WriteFields DEF Rest, Accounted, Ended, FailureIsTold, UnderWay
<1>9. Positioned'
  <2>1. ASSUME NEW u \in Tasks \ {t}, op[u].at \in {"rread", "rwrite"}
        PROVE  op[u].fid \in Fids \ {f}
    <3>1. Head(queue[op[u].fid]) = u /\ Head(queue[f]) = t
      BY <1>1, <1>2, <2>1 DEF Queues, Holds
    <3>2. QED
      BY <2>1, <3>1, OpFields DEF Op
  <2>2. \A u \in Tasks : op[u].at # "idle" => op[u].fid \in Fids
    BY OpFields DEF Op
  <2>3. QED
    BY <1>1, <1>2, <1>3, <1>4, <1>5, <2>1, <2>2 DEF Rest, Positioned
<1>10. Synced'
  BY <1>2, <1>3, <1>4 DEF Rest, Synced, FsyncWaits, Written, Op
<1>11. QED
  BY <1>6, <1>7, <1>8, <1>9, <1>10 DEF Rest

\* What an answer does to the requests.
Answered(t) ==
  /\ op'[t].at = "done" /\ op'[t].kind = op[t].kind /\ op'[t].fid = op[t].fid /\ op'[t].since = op[t].since
  /\ \A u \in Tasks \ {t} : op'[u] = op[u]

LEMMA AnswerFields ==
  ASSUME Queues, NEW t \in Tasks, op[t].at # "idle", NEW ok, NEW value, Answer(t, ok, value)
  PROVE  Answered(t) /\ op'[t].ok = ok /\ op'[t].value = value
BY OpFields DEF Answer, Answered, Queues, Op

\* The answer of a request that leaves the File alone.
LEMMA QuietAnswer ==
  ASSUME Queues, Rest, NEW t \in Tasks, NEW at \in {"rread", "rwrite", "sync"}, Holds(t, at),
         NEW ok \in BOOLEAN, NEW value \in Nat, Answer(t, ok, value), UNCHANGED <<file, orphans, writes, Host>>,
         op[t].kind = "rfsync" => file[op[t].fid].busy = 0
  PROVE  Queues' /\ Rest'
<1>1. op[t] \in Op /\ op[t].at = at /\ Answered(t)
  BY OpFields, AnswerFields DEF Holds
<1>2. UNCHANGED <<file, orphans, writes, content, applied, failed>>
  BY DEF Host
<1>3. Queues'
  BY AnswerStep
<1>4. Files' /\ UnderWay' /\ Accounted' /\ ContentIsLast' /\ WritesLand' /\ FailureIsTold'
  <2>1. Files'
    BY <1>2 DEF Rest, Files
  <2>2. UnderWay'
    BY <1>2 DEF Rest, UnderWay
  <2>3. Accounted'
    BY <1>2 DEF Rest, Accounted, Ended
  <2>4. ContentIsLast'
    BY <1>2 DEF Rest, ContentIsLast, LastWrite
  <2>5. WritesLand' /\ FailureIsTold'
    BY <1>2 DEF Rest, WritesLand, FailureIsTold
  <2>6. QED
    BY <2>1, <2>2, <2>3, <2>4, <2>5
<1>5. Positioned'
  BY <1>1, <1>2 DEF Rest, Positioned, Answered
<1>6. Synced'
  <2>1. op[t].kind = "rfsync" => \A w \in Written(op[t].fid) : Ended(w)
    <3>1. ASSUME NEW w \in Written(op[t].fid), op[t].kind = "rfsync"
          PROVE  Ended(w)
      <4>1. w \in DOMAIN writes /\ writes[w].fid = op[t].fid /\ writes[w].mine /\ file[op[t].fid].busy = 0
        BY <3>1 DEF Written
      <4>2. w # 0
        BY <4>1 DEF Rest, Files
      <4>3. QED
        BY <4>1, <4>2 DEF Rest, Accounted
    <3>2. QED
      BY <3>1
  <2>2. QED
    BY <1>1, <1>2, <2>1 DEF Rest, Synced, FsyncWaits, Written, Answered, Ended
<1>7. QED
  BY <1>3, <1>4, <1>5, <1>6 DEF Rest

LEMMA ReadStep ==
  ASSUME Queues, Rest, NEW t \in Tasks, rread(t) \/ rfsync(t)
  PROVE  Queues' /\ Rest'
<1>1. CASE rread(t)
  <2>1. op[t].at = "rread" /\ op[t].kind # "rfsync" /\ file[op[t].fid].pos = op[t].off /\ op[t].off \in Offsets
    BY <1>1 DEF rread, Holds, Rest, Positioned
  <2>2. content[file[op[t].fid].pos] \in Nat
    BY <2>1 DEF Rest, Files
  <2>3. QED
    BY <1>1, <2>1, <2>2, QuietAnswer DEF rread
<1>2. CASE rfsync(t)
  <2>1. /\ Holds(t, "sync") /\ file[op[t].fid].busy = 0 /\ Answer(t, TRUE, 0)
        /\ UNCHANGED <<file, orphans, writes, Host>>
    BY <1>2 DEF rfsync
  <2>2. 0 \in Nat /\ TRUE \in BOOLEAN /\ "sync" \in {"rread", "rwrite", "sync"}
    OBVIOUS
  <2>3. QED
    BY <2>1, <2>2, QuietAnswer
<1>3. QED
  BY <1>1, <1>2

\* The error of an earlier write is told instead of a new one being made.
LEMMA TellStep ==
  ASSUME Queues, Rest, NEW t \in Tasks, rwrite(t), file[op[t].fid].err # 0
  PROVE  Queues' /\ Rest'
<1>1. PICK f \in Fids : f = op[t].fid
  BY OpFields DEF rwrite, Holds, Op
<1>2. /\ Holds(t, "rwrite") /\ file[f].err # 0
      /\ file' = [file EXCEPT ![f].err = 0]
      /\ writes' = [writes EXCEPT ![file[f].err].told = TRUE]
      /\ Answer(t, FALSE, 0)
      /\ UNCHANGED <<orphans, content, applied, failed>>
  BY <1>1 DEF rwrite, Host
<1>3. /\ op[t] \in Op /\ op[t].at = "rwrite" /\ op[t].kind # "rfsync" /\ Answered(t) /\ ~op'[t].ok
  BY <1>2, OpFields, AnswerFields DEF Holds, Rest, Positioned
<1>4. /\ file' \in [Fids -> File] /\ file'[f].err = 0 /\ file'[f].pos = file[f].pos
      /\ file'[f].open = file[f].open /\ file'[f].busy = file[f].busy
      /\ \A g \in Fids \ {f} : file'[g] = file[g]
  BY <1>2 DEF Rest, Files, File
<1>5. /\ DOMAIN writes' = DOMAIN writes
      /\ \A w \in DOMAIN writes :
           /\ writes'[w] \in Write
           /\ writes'[w].fid = writes[w].fid /\ writes'[w].off = writes[w].off
           /\ writes'[w].pos = writes[w].pos /\ writes'[w].mine = writes[w].mine
           /\ writes[w].told \/ w = file[f].err => writes'[w].told
  BY <1>2, WriteFields DEF Write, Rest
<1>6. writes' \in Seq(Write) /\ Len(writes') = Len(writes)
  <2>1. writes \in Seq(Write) /\ DOMAIN writes = 1..Len(writes) /\ Len(writes) \in Nat
    BY DEF Rest, Files
  <2>2. writes' \in [1..Len(writes) -> Write]
    BY <1>2, <1>5, <2>1
  <2>3. QED
    BY <2>1, <2>2
<1>7. Queues'
  BY <1>2, AnswerStep
<1>8. Files'
  BY <1>2, <1>4, <1>6 DEF Rest, Files
<1>9. Positioned'
  <2>1. \A u \in Tasks : op[u].at # "idle" => op[u].fid \in Fids
    BY OpFields DEF Op
  <2>2. QED
    BY <1>1, <1>3, <1>4, <2>1 DEF Rest, Positioned, Answered
<1>10. UnderWay'
  BY <1>2, <1>4, <1>5 DEF Rest, UnderWay
<1>11. Accounted'
  BY <1>2, <1>4, <1>5, WriteFields DEF Rest, Accounted, Ended
<1>12. ContentIsLast'
  BY <1>2, <1>5 DEF Rest, ContentIsLast, LastWrite
<1>13. WritesLand'
  BY <1>5 DEF Rest, WritesLand
<1>14. FailureIsTold'
  BY <1>2, <1>4, <1>5, WriteFields DEF Rest, FailureIsTold, UnderWay
<1>15. Synced'
  BY <1>2, <1>3, <1>5, <1>6, SMTT(30) DEF Rest, Synced, FsyncWaits, Written, Answered
<1>16. QED
  BY <1>7, <1>8, <1>9, <1>10, <1>11, <1>12, <1>13, <1>14, <1>15 DEF Rest

LEMMA WriteStep ==
  ASSUME Queues, Rest, NEW t \in Tasks, rwrite(t), file[op[t].fid].err = 0
  PROVE  Queues' /\ Rest'
<1>1. PICK f \in Fids : f = op[t].fid
  BY OpFields DEF rwrite, Holds, Op
<1>0. PICK n : n = Len(writes)
  OBVIOUS
<1>a. PICK new : new = [fid |-> f, off |-> op[t].off, pos |-> file[f].pos, told |-> FALSE, mine |-> TRUE]
  OBVIOUS
<1>2. /\ Holds(t, "rwrite") /\ file[f].err = 0
      /\ writes' = Append(writes, new)
      /\ file' = [file EXCEPT ![f].busy = n + 1]
      /\ Answer(t, TRUE, n + 1)
      /\ UNCHANGED <<orphans, content, applied, failed>>
  BY <1>0, <1>1, <1>a DEF rwrite, Host
<1>3. n \in Nat /\ writes \in Seq(Write) /\ DOMAIN writes = 1..n
  BY <1>0 DEF Rest, Files
<1>4. /\ op[t] \in Op /\ op[t].at = "rwrite" /\ op[t].kind # "rfsync" /\ Answered(t)
      /\ file[f].pos = op[t].off /\ op[t].off \in Offsets /\ file[f].busy = 0 /\ file[f].open
  BY <1>1, <1>2, OpFields, AnswerFields DEF Holds, Rest, Positioned
<1>5. new \in Write
  BY <1>4, <1>a DEF Write
<1>6. new.fid = f /\ new.off = op[t].off /\ new.pos = op[t].off /\ new.mine
  BY <1>4, <1>a
<1>7. /\ file' \in [Fids -> File] /\ file'[f].err = 0 /\ file'[f].pos = file[f].pos
      /\ file'[f].open = file[f].open /\ file'[f].busy = n + 1
      /\ \A g \in Fids \ {f} : file'[g] = file[g]
  <2>1. file[f] \in File /\ file \in [Fids -> File] /\ n + 1 \in Nat
    BY <1>3 DEF Rest, Files
  <2>2. [file[f] EXCEPT !.busy = n + 1] \in File
    BY <2>1 DEF File
  <2>3. QED
    BY <1>2, <2>1, <2>2 DEF File
<1>8. /\ writes' \in Seq(Write) /\ DOMAIN writes' = 1..(n + 1) /\ Len(writes') = n + 1
      /\ writes'[n + 1] = new
      /\ \A w \in 1..n : writes'[w] = writes[w]
  BY <1>0, <1>2, <1>3, <1>5
<1>9. n + 1 # 0 /\ n + 1 \in 1..(n + 1) /\ 1..n \subseteq 1..(n + 1) /\ n + 1 \notin 1..n
      /\ \A w \in 1..(n + 1) : w = n + 1 \/ w \in 1..n
  BY <1>3
<1>10. Queues'
  <2>1. n + 1 \in Nat /\ TRUE \in BOOLEAN /\ "rwrite" \in {"rread", "rwrite", "sync"}
    BY <1>3
  <2>2. QED
    BY <1>2, <2>1, AnswerStep
<1>11. Files'
  BY <1>2, <1>7, <1>8 DEF Rest, Files
<1>12. Positioned'
  <2>1. ASSUME NEW u \in Tasks \ {t}, op[u].at \in {"rread", "rwrite"}
        PROVE  op[u].fid \in Fids \ {f}
    <3>1. Head(queue[op[u].fid]) = u /\ Head(queue[f]) = t
      BY <1>1, <1>2, <2>1 DEF Queues, Holds
    <3>2. QED
      BY <2>1, <3>1, OpFields DEF Op
  <2>2. \A u \in Tasks : op[u].at # "idle" => op[u].fid \in Fids
    BY OpFields DEF Op
  <2>3. \A g \in Fids : file'[g].pos = file[g].pos /\ (file[g].open => file'[g].open)
    BY <1>4, <1>7
  <2>4. \A g \in Fids \ {f} : file'[g].busy = file[g].busy
    BY <1>7
  <2>5. ASSUME NEW u \in Tasks \ {t}
        PROVE  /\ op'[u].at \in {"seek", "rread", "rwrite", "sync"} => file'[op'[u].fid].open
               /\ op'[u].at \in {"seek", "rread", "rwrite"} => op'[u].kind # "rfsync" /\ op'[u].off \in Offsets
               /\ op'[u].at \in {"rread", "rwrite"} => file'[op'[u].fid].pos = op'[u].off /\ file'[op'[u].fid].busy = 0
    <3>1. op'[u] = op[u]
      BY <1>4 DEF Answered
    <3>2. QED
      BY <2>1, <2>2, <2>3, <2>4, <3>1 DEF Rest, Positioned
  <2>6. op'[t].at = "done"
    BY <1>4 DEF Answered
  <2>7. QED
    BY <2>5, <2>6 DEF Positioned
<1>13. UnderWay'
  BY <1>2, <1>3, <1>4, <1>6, <1>7, <1>8, <1>9 DEF Rest, UnderWay
<1>14. Accounted'
  <2>1. ASSUME NEW w \in 1..n, writes[w].mine
        PROVE  file'[writes[w].fid].open /\ (Ended(w)' \/ file'[writes[w].fid].busy = w)
    <3>1. w \in DOMAIN writes /\ w # 0 /\ writes[w].fid \in Fids
      BY <1>3, <2>1, WriteFields DEF Rest
    <3>2. file[writes[w].fid].open /\ (Ended(w) \/ file[writes[w].fid].busy = w)
      BY <2>1, <3>1 DEF Rest, Accounted
    <3>3. QED
      BY <1>2, <1>4, <1>7, <3>1, <3>2 DEF Ended
  <2>2. QED
    BY <1>4, <1>6, <1>7, <1>8, <1>9, <2>1, ZenonT(60) DEF Accounted
<1>15. ContentIsLast'
  BY <1>2, <1>3, <1>8, <1>9 DEF Rest, ContentIsLast, LastWrite
<1>16. WritesLand'
  BY <1>3, <1>6, <1>8, <1>9 DEF Rest, WritesLand
<1>17. FailureIsTold'
  <2>1. ASSUME NEW w \in failed
        PROVE  w \in 1..n /\ writes[w].fid \in Fids
    BY <1>3, <2>1, WriteFields DEF Rest, UnderWay
  <2>2. ASSUME NEW w \in failed
        PROVE  writes'[w].told \/ ~writes'[w].mine \/ file'[writes'[w].fid].err = w
    <3>1. writes[w].told \/ ~writes[w].mine \/ file[writes[w].fid].err = w
      BY DEF Rest, FailureIsTold
    <3>2. writes'[w] = writes[w] /\ file'[writes[w].fid].err = file[writes[w].fid].err
      BY <1>2, <1>7, <1>8, <2>1
    <3>3. QED
      BY <3>1, <3>2
  <2>3. QED
    BY <1>2, <2>2 DEF FailureIsTold
<1>18. Synced'
  <2>1. ASSUME NEW u \in Tasks, op'[u].at # "idle"
        PROVE  op'[u].since \in Nat /\ op'[u].since <= n
    <3>1. op[u].at # "idle" /\ op'[u].since = op[u].since
      BY <1>4, <2>1 DEF Answered
    <3>2. QED
      BY <1>0, <3>1, OpFields DEF Rest, Synced, Op
  <2>2. ASSUME NEW u \in Tasks, op'[u].kind = "rfsync", op'[u].at = "done", op'[u].ok,
               NEW w \in DOMAIN writes', writes'[w].fid = op'[u].fid, writes'[w].mine, w <= op'[u].since
        PROVE  w \in failed' \cup ToSet(applied')
    <3>1. u # t /\ op'[u] = op[u]
      BY <1>4, <2>2 DEF Answered
    <3>2. w \in 1..(n + 1) /\ writes'[w].fid = op[u].fid /\ writes'[w].mine
      BY <1>8, <2>2, <3>1
    <3>3. w # n + 1
      <4>1. op'[u].since \in Nat /\ op'[u].since <= n
        BY <2>1, <2>2
      <4>2. QED
        BY <1>3, <2>2, <4>1
    <3>4. w \in Written(op[u].fid)
      BY <1>3, <1>8, <1>9, <3>2, <3>3 DEF Written
    <3>5. QED
      BY <1>2, <2>2, <3>1, <3>4 DEF Rest, Synced, FsyncWaits
  <2>3. FsyncWaits'
    BY <2>2 DEF FsyncWaits, Written
  <2>4. \A u \in Tasks : op'[u].at # "idle" => op'[u].since <= Len(writes')
    BY <1>3, <1>8, <2>1
  <2>5. QED
    BY <2>3, <2>4 DEF Synced
<1>19. QED
  BY <1>10, <1>11, <1>12, <1>13, <1>14, <1>15, <1>16, <1>17, <1>18 DEF Rest

LEMMA ReplyRest ==
  ASSUME Queues, Rest, NEW t \in Tasks, Reply(t)
  PROVE  Queues' /\ Rest'
<1>1. /\ op'[t] = Idle /\ \A u \in Tasks \ {t} : op'[u] = op[u]
      /\ UNCHANGED <<file, orphans, writes, content, applied, failed>>
  BY DEF Reply, Host, Queues
<1>2. Queues'
  BY ReplyStep
<1>3. Idle.at = "idle" /\ Idle.kind = "none"
  BY DEF Idle
<1>4. Files' /\ UnderWay' /\ Accounted' /\ ContentIsLast' /\ WritesLand' /\ FailureIsTold'
  BY <1>1 DEF Rest, Files, UnderWay, Accounted, Ended, ContentIsLast, LastWrite, WritesLand, FailureIsTold
<1>5. Positioned'
  BY <1>1, <1>3 DEF Rest, Positioned
<1>6. Synced'
  BY <1>1, <1>3 DEF Rest, Synced, FsyncWaits, Written
<1>7. QED
  BY <1>2, <1>4, <1>5, <1>6 DEF Rest

\* What the file holds after write w: in its block w, elsewhere what it held.
LEMMA LandStep ==
  ASSUME Rest, NEW w \in DOMAIN writes, writes' = writes,
         content' = [content EXCEPT ![writes[w].pos] = w], applied' = Append(applied, w)
  PROVE  /\ content' \in [Offsets -> Nat] /\ applied' \in Seq(Nat) /\ ContentIsLast'
         /\ ToSet(applied') = ToSet(applied) \cup {w}
<1>1. PICK n : n = Len(applied)
  OBVIOUS
<1>2. /\ n \in Nat /\ applied \in Seq(Nat) /\ DOMAIN applied = 1..n /\ w \in Nat
      /\ writes[w].pos \in Offsets /\ content \in [Offsets -> Nat]
  BY <1>1, WriteFields DEF Rest, Files
<1>3. /\ applied' \in Seq(Nat) /\ DOMAIN applied' = 1..(n + 1) /\ applied'[n + 1] = w
      /\ \A i \in 1..n : applied'[i] = applied[i]
  BY <1>1, <1>2
<1>4. /\ 1..n \subseteq 1..(n + 1) /\ n + 1 \in 1..(n + 1)
      /\ \A i \in 1..(n + 1) : (i = n + 1 \/ i \in 1..n) /\ i <= n + 1
  BY <1>2
<1>5. /\ content' \in [Offsets -> Nat] /\ content'[writes[w].pos] = w
      /\ \A o \in Offsets \ {writes[w].pos} : content'[o] = content[o]
  BY <1>2
<1>6. ToSet(applied') = ToSet(applied) \cup {w}
  BY <1>2, <1>3, <1>4 DEF ToSet
<1>7. \A i \in 1..(n + 1) : applied'[i] \in DOMAIN writes
  BY <1>2, <1>3, <1>4 DEF Rest, ContentIsLast
<1>8. ASSUME NEW o \in Offsets
      PROVE  \/ \A i \in 1..(n + 1) : writes[applied'[i]].pos # o
             \/ \E j \in 1..(n + 1) :
                  /\ applied'[j] = content'[o] /\ writes[applied'[j]].pos = o
                  /\ \A i \in 1..(n + 1) : writes[applied'[i]].pos = o => i <= j
  <2>1. CASE o = writes[w].pos
    BY <1>3, <1>4, <1>5, <2>1
  <2>2. CASE o # writes[w].pos
    <3>1. content'[o] = content[o]
      BY <1>5, <2>2
    <3>2. CASE \A i \in 1..n : writes[applied[i]].pos # o
      BY <1>3, <1>4, <2>2, <3>2
    <3>3. CASE \E j \in 1..n : LastWrite(o, j)
      <4>1. PICK j \in 1..n :
              /\ applied[j] = content[o] /\ writes[applied[j]].pos = o
              /\ \A i \in 1..n : writes[applied[i]].pos = o => i <= j
        BY <1>2, <3>3 DEF LastWrite
      <4>2. j \in 1..(n + 1) /\ applied'[j] = applied[j]
        BY <1>3, <1>4
      <4>3. \A i \in 1..(n + 1) : writes[applied'[i]].pos = o => i <= j
        BY <1>3, <1>4, <2>2, <4>1
      <4>4. QED
        BY <3>1, <4>1, <4>2, <4>3
    <3>4. QED
      BY <1>2, <3>2, <3>3 DEF Rest, ContentIsLast
  <2>3. QED
    BY <2>1, <2>2
<1>9. ContentIsLast'
  BY <1>3, <1>7, <1>8 DEF ContentIsLast, LastWrite
<1>10. QED
  BY <1>3, <1>5, <1>6, <1>9

\* The end of a write, whatever it was: of a File, or of a File that was dropped.
LEMMA EndsStep ==
  ASSUME Queues, Rest, NEW w \in 1..Len(writes), NEW ok \in BOOLEAN, WriteEnds(w, ok)
  PROVE  Queues' /\ Rest'
<1>1. /\ w \in DOMAIN writes /\ w \in Nat /\ w # 0 /\ DOMAIN writes = 1..Len(writes)
      /\ UNCHANGED <<queue, op, writes>>
  <2>1. writes \in Seq(Write)
    BY DEF Rest, Files
  <2>2. UNCHANGED <<queue, op, writes>>
    BY DEF WriteEnds
  <2>3. QED
    BY <2>1, <2>2
<1>2. /\ content' \in [Offsets -> Nat] /\ applied' \in Seq(Nat) /\ ContentIsLast'
      /\ failed' \subseteq DOMAIN writes /\ failed' \subseteq Nat
      /\ failed' \cup ToSet(applied') = failed \cup ToSet(applied) \cup {w}
      /\ failed' = IF ok THEN failed ELSE failed \cup {w}
  <2>1. CASE ok
    <3>1. content' = [content EXCEPT ![writes[w].pos] = w] /\ applied' = Append(applied, w) /\ failed' = failed
      BY <2>1 DEF WriteEnds
    <3>2. QED
      BY <1>1, <2>1, <3>1, LandStep DEF Rest, UnderWay, Files
  <2>2. CASE ~ok
    <3>1. failed' = failed \cup {w} /\ content' = content /\ applied' = applied
      BY <2>2 DEF WriteEnds
    <3>2. ContentIsLast'
      BY <1>1, <3>1 DEF Rest, ContentIsLast, LastWrite
    <3>3. QED
      BY <1>1, <2>2, <3>1, <3>2 DEF Rest, UnderWay, Files
  <2>3. QED
    BY <2>1, <2>2
<1>3. Queues'
  BY <1>1 DEF Queues, AtMutex
<1>4. WritesLand' /\ Synced'
  BY <1>1, <1>2 DEF Rest, WritesLand, Synced, FsyncWaits, Written
<1>5. CASE \E f \in Fids : file[f].busy = w
  <2>1. PICK f \in Fids : file[f].busy = w
    BY <1>5
  <2>2. file[f].open /\ writes[w].fid = f /\ writes[w].mine /\ file[f].err = 0
    BY <1>1, <2>1 DEF Rest, UnderWay
  <2>3. w \notin orphans
    BY <2>2 DEF Rest, UnderWay
  <2>4. \A g \in Fids \ {f} : file[g].busy # w
    BY <1>1, <2>2 DEF Rest, UnderWay
  <2>5. /\ file' = [g \in Fids |-> IF file[g].busy = w
                                   THEN [file[g] EXCEPT !.busy = 0, !.err = IF ok THEN 0 ELSE w] ELSE file[g]]
        /\ orphans' = orphans
    BY <2>3 DEF WriteEnds
  <2>6. /\ file' \in [Fids -> File] /\ file'[f].open = file[f].open /\ file'[f].pos = file[f].pos
        /\ file'[f].busy = 0 /\ file'[f].err = (IF ok THEN 0 ELSE w)
        /\ \A g \in Fids \ {f} : file'[g] = file[g]
    <3>1. \A g \in Fids : file[g] \in File
      BY DEF Rest, Files
    <3>2. [file[f] EXCEPT !.busy = 0, !.err = IF ok THEN 0 ELSE w] \in File
      BY <1>1, <3>1 DEF File
    <3>3. /\ file'[f] = [file[f] EXCEPT !.busy = 0, !.err = IF ok THEN 0 ELSE w]
          /\ \A g \in Fids \ {f} : file'[g] = file[g]
      BY <2>1, <2>4, <2>5
    <3>4. file' \in [Fids -> File]
      BY <2>5, <3>1, <3>2, <3>3
    <3>5. QED
      BY <3>1, <3>3, <3>4 DEF File
  <2>7. Files'
    BY <1>1, <1>2, <2>5, <2>6 DEF Rest, Files
  <2>8. Positioned'
    <3>1. \A u \in Tasks : op[u].at # "idle" => op[u].fid \in Fids
      BY OpFields DEF Op
    <3>2. \A g \in Fids : file'[g].pos = file[g].pos /\ file'[g].open = file[g].open /\ (file[g].busy = 0 => file'[g].busy = 0)
      BY <2>6
    <3>3. QED
      BY <1>1, <3>1, <3>2 DEF Rest, Positioned
  <2>9. UnderWay'
    <3>1. ASSUME NEW g \in Fids
          PROVE  /\ file'[g].err # 0 => file'[g].busy = 0
                 /\ file'[g].busy # 0 =>
                      /\ file'[g].busy \in DOMAIN writes /\ file'[g].open
                      /\ writes[file'[g].busy].fid = g /\ writes[file'[g].busy].mine
      <4>1. CASE g = f
        BY <2>6, <4>1
      <4>2. CASE g # f
        BY <2>6, <4>2 DEF Rest, UnderWay
      <4>3. QED
        BY <4>1, <4>2
    <3>2. \A x \in orphans : x \in DOMAIN writes /\ ~writes[x].mine
      BY DEF Rest, UnderWay
    <3>3. QED
      BY <1>1, <1>2, <2>5, <3>1, <3>2 DEF UnderWay
  <2>10. Accounted'
    <3>1. ASSUME NEW x \in DOMAIN writes, writes[x].mine
          PROVE  file'[writes[x].fid].open /\ (x \in failed' \cup ToSet(applied') \/ file'[writes[x].fid].busy = x)
      <4>1. file[writes[x].fid].open /\ (Ended(x) \/ file[writes[x].fid].busy = x) /\ writes[x].fid \in Fids
        BY <3>1, WriteFields DEF Rest, Accounted
      <4>2. CASE writes[x].fid = f
        BY <1>2, <2>1, <2>6, <4>1, <4>2 DEF Ended
      <4>3. CASE writes[x].fid # f
        BY <1>2, <2>6, <4>1, <4>3 DEF Ended
      <4>4. QED
        BY <4>2, <4>3
    <3>2. QED
      BY <1>1, <3>1 DEF Accounted, Ended
  <2>11. FailureIsTold'
    <3>1. ASSUME NEW x \in failed'
          PROVE  writes[x].told \/ ~writes[x].mine \/ file'[writes[x].fid].err = x
      <4>1. CASE x = w /\ ~ok
        BY <2>2, <2>6, <4>1
      <4>2. CASE x \in failed
        <5>1. (writes[x].told \/ ~writes[x].mine \/ file[writes[x].fid].err = x) /\ writes[x].fid \in Fids /\ x # 0
          BY <1>1, <4>2, WriteFields DEF Rest, FailureIsTold, UnderWay
        <5>2. QED
          BY <2>2, <2>6, <5>1
      <4>3. QED
        BY <1>2, <3>1, <4>1, <4>2
    <3>2. QED
      BY <1>1, <3>1 DEF FailureIsTold
  <2>12. QED
    BY <1>2, <1>3, <1>4, <2>7, <2>8, <2>9, <2>10, <2>11 DEF Rest
<1>6. CASE ~\E f \in Fids : file[f].busy = w
  <2>1. w \in orphans /\ orphans' = orphans \ {w} /\ file' = file
    BY <1>6 DEF WriteEnds
  <2>2. ~writes[w].mine
    BY <2>1 DEF Rest, UnderWay
  <2>3. Files' /\ Positioned' /\ UnderWay'
    BY <1>1, <1>2, <2>1 DEF Rest, Files, Positioned, UnderWay
  <2>4. Accounted' /\ FailureIsTold'
    BY <1>1, <1>2, <2>1, <2>2 DEF Rest, Accounted, Ended, FailureIsTold
  <2>5. QED
    BY <1>2, <1>3, <1>4, <2>3, <2>4 DEF Rest
<1>7. QED
  BY <1>5, <1>6

LEMMA Parts == FileInv <=> Queues /\ Rest
BY TypeParts DEF FileInv, Rest

LEMMA FirstState == Init => Queues /\ Rest
<1> SUFFICES ASSUME Init PROVE Queues /\ Rest
  OBVIOUS
<1>1. Closed \in File /\ ~Closed.open /\ Closed.busy = 0 /\ Closed.err = 0 /\ Idle.at = "idle" /\ Idle.kind = "none"
  BY DEF Closed, File, Idle
<1>2. /\ file \in [Fids -> File] /\ \A f \in Fids : file[f] = Closed /\ queue[f] = <<>>
      /\ \A t \in Tasks : op[t] = Idle
      /\ writes = <<>> /\ applied = <<>> /\ orphans = {} /\ failed = {}
  BY <1>1 DEF Init
<1>3. DOMAIN writes = {} /\ DOMAIN applied = {} /\ ToSet(<<>>) = {} /\ IsInjective(<<>>)
  BY <1>2 DEF ToSet, IsInjective
<1>4. Queues
  <2>1. \A f \in Fids : AtMutex(f) = {}
    BY <1>1, <1>2 DEF AtMutex
  <2>2. op \in [Tasks -> Op \cup {Idle}] /\ queue \in [Fids -> Seq(Tasks)]
    BY DEF Init
  <2>3. QED
    BY <1>1, <1>2, <1>3, <2>1, <2>2 DEF Queues
<1>5. Files
  BY <1>2 DEF Init, Files
<1>6. Positioned /\ UnderWay /\ Accounted /\ ContentIsLast /\ WritesLand /\ FailureIsTold /\ Synced
  BY <1>1, <1>2, <1>3 DEF Positioned, UnderWay, Accounted, ContentIsLast, WritesLand, FailureIsTold, Synced, FsyncWaits
<1>7. QED
  BY <1>4, <1>5, <1>6 DEF Rest

LEMMA EveryStep == Queues /\ Rest /\ [Next]_vars => Queues' /\ Rest'
<1> SUFFICES ASSUME Queues, Rest, [Next]_vars
             PROVE  Queues' /\ Rest'
  OBVIOUS
<1>1. ASSUME NEW f \in Fids, rlopen(f) \/ rclunk(f)
      PROVE  Queues' /\ Rest'
  <2>1. CASE rlopen(f)
    <3>1. AtMutex(f) = {}
      BY <2>1 DEF rlopen, Queues, ToSet
    <3>2. QED
      BY <2>1, <3>1, DropStep DEF rlopen
  <2>2. CASE rclunk(f)
    <3>1. AtMutex(f) = {}
      BY <2>2 DEF rclunk, AtMutex
    <3>2. QED
      BY <2>2, <3>1, DropStep DEF rclunk
  <2>3. QED
    BY <1>1, <2>1, <2>2
<1>2. ASSUME NEW t \in Tasks, NEW f \in Fids, NEW o \in Offsets, NEW k \in {"rread", "rwrite"}, Request(t, k, f, o)
      PROVE  Queues' /\ Rest'
  BY <1>2, RequestStep
<1>3. ASSUME NEW t \in Tasks, NEW f \in Fids, Request(t, "rfsync", f, 0)
      PROVE  Queues' /\ Rest'
  BY <1>3, RequestStep
<1>4. ASSUME NEW t \in Tasks, seek(t)
      PROVE  Queues' /\ Rest'
  BY <1>4, SeekRest
<1>5. ASSUME NEW t \in Tasks, rread(t) \/ rfsync(t)
      PROVE  Queues' /\ Rest'
  BY <1>5, ReadStep
<1>6. ASSUME NEW t \in Tasks, rwrite(t)
      PROVE  Queues' /\ Rest'
  BY <1>6, TellStep, WriteStep
<1>7. ASSUME NEW t \in Tasks, Reply(t)
      PROVE  Queues' /\ Rest'
  BY <1>7, ReplyRest
<1>8. ASSUME NEW w \in 1..Len(writes), NEW ok \in BOOLEAN, WriteEnds(w, ok)
      PROVE  Queues' /\ Rest'
  BY <1>8, EndsStep
<1>9. CASE UNCHANGED vars
  BY <1>9 DEF vars, Queues, AtMutex, Rest, Files, Positioned, UnderWay, Accounted, Ended, ContentIsLast, LastWrite,
     WritesLand, FailureIsTold, Synced, FsyncWaits, Written
<1>10. QED
  BY <1>1, <1>2, <1>3, <1>4, <1>5, <1>6, <1>7, <1>8, <1>9 DEF Next

(* The invariant from which the theorems below follow.                     *)
THEOREM FileInvHolds == Spec => []FileInv
<1>1. Init => FileInv
  BY FirstState, Parts
<1>2. FileInv /\ [Next]_vars => FileInv'
  <2>1. FileInv' <=> Queues' /\ Rest'
    BY Parts, PTL
  <2>2. QED
    BY <2>1, EveryStep, Parts
<1>3. QED
  BY <1>1, <1>2, PTL DEF Spec

-----------------------------------------------------------------------------
(* The properties.                                                         *)

(* The state keeps its type, the mutex of a File (main.rs:318, 333, 399)   *)
(* knows the tasks that are at it, each once, and a task that has sought   *)
(* holds it until its read or write is answered.                           *)
THEOREM Typing == Spec => []TypeOK
BY FileInvHolds, PTL DEF FileInv

(* However many requests on a fid are in progress, a write goes where its  *)
(* request said: main.rs:333-336 keeps the lock from the seek to the write.*)
THEOREM WritesLandWhereAsked == Spec => []WritesLand
BY FileInvHolds, PTL DEF FileInv

(* The error of a write that failed in the background after its RWrite     *)
(* stays in its File until a later rwrite (main.rs:336) tells it, or goes  *)
(* with the File: no seek, read, fsync or other fid takes it away.         *)
THEOREM FailuresAreTold == Spec => []FailureIsTold
BY FileInvHolds, PTL DEF FileInv

(* When an rfsync is answered (main.rs:397-407), the writes of its fid     *)
(* acknowledged before it was sent are over, written or failed.            *)
THEOREM FsyncWaitsForWrites == Spec => []FsyncWaits
BY FileInvHolds, PTL DEF FileInv, Synced

(* No request waits behind one that cannot go on: the mutex (main.rs:318,  *)
(* 333, 399) is with somebody who can, and a File waits for nothing but a  *)
(* write of its own under way.                                             *)
THEOREM TheMutexPasses == Spec => []MutexPasses
<1>1. FileInv => MutexPasses
  <2> SUFFICES ASSUME FileInv, NEW t \in Tasks, op[t].at # "idle"
               PROVE  \E u \in Tasks : op[u].at # "idle" /\ op[u].fid = op[t].fid /\ GoesOn(u)
    BY DEF MutexPasses
  <2>1. Queues /\ Files
    BY TypeParts DEF FileInv
  <2>2. op[t] \in Op
    BY <2>1, OpFields
  <2>3. CASE op[t].at = "done"
    BY <2>3 DEF GoesOn
  <2>4. CASE op[t].at # "done"
    <3>1. PICK f \in Fids : f = op[t].fid /\ t \in AtMutex(f)
      BY <2>2, <2>4 DEF Op, AtMutex
    <3>2. queue[f] \in Seq(Tasks) /\ t \in ToSet(queue[f]) /\ ToSet(queue[f]) = AtMutex(f)
      BY <2>1, <3>1 DEF Queues
    <3>3. queue[f] # <<>>
      BY <3>2 DEF ToSet
    <3>4. Head(queue[f]) \in ToSet(queue[f])
      BY <3>2, <3>3 DEF ToSet
    <3>5. PICK h \in Tasks : h = Head(queue[f]) /\ op[h].fid = f /\ op[h].at \in {"seek", "rread", "rwrite", "sync"}
      BY <3>2, <3>4 DEF AtMutex
    <3>6. file[f].busy \in {0} \cup DOMAIN writes
      BY DEF FileInv, UnderWay
    <3>7. GoesOn(h)
      BY <3>5, <3>6 DEF GoesOn, Holds
    <3>8. QED
      BY <3>1, <3>5, <3>7
  <2>5. QED
    BY <2>3, <2>4
<1>2. QED
  BY <1>1, FileInvHolds, PTL

\* Only rread answers a task that has sought in order to read.
LEMMA OnlyReadAnswers ==
  ASSUME FileInv, [Next]_vars, NEW t \in Tasks, op[t].at = "rread", op'[t].at = "done"
  PROVE  rread(t)
<1>0. op \in [Tasks -> Op \cup {Idle}]
  BY DEF FileInv, TypeOK
<1>1. ASSUME NEW u \in Tasks, NEW a \in {"idle", "seek", "rwrite", "sync", "done"}, op[u].at = a,
             \A v \in Tasks \ {u} : op'[v] = op[v]
      PROVE  FALSE
  BY <1>1
<1>2. ASSUME op' = op
      PROVE  FALSE
  BY <1>2
<1>3. ASSUME NEW u \in Tasks, NEW k, NEW f, NEW o, Request(u, k, f, o)
      PROVE  FALSE
  <2>1. op[u].at = "idle" /\ \A v \in Tasks \ {u} : op'[v] = op[v]
    BY <1>0, <1>3 DEF Request
  <2>2. QED
    BY <1>1, <2>1
<1>4. ASSUME NEW u \in Tasks, seek(u)
      PROVE  FALSE
  <2>1. op[u].at = "seek" /\ \A v \in Tasks \ {u} : op'[v] = op[v]
    BY <1>0, <1>4 DEF seek, Holds
  <2>2. QED
    BY <1>1, <2>1
<1>5. ASSUME NEW u \in Tasks, rwrite(u)
      PROVE  FALSE
  <2>1. op[u].at = "rwrite" /\ \A v \in Tasks \ {u} : op'[v] = op[v]
    BY <1>0, <1>5 DEF rwrite, Holds, Answer
  <2>2. QED
    BY <1>1, <2>1
<1>6. ASSUME NEW u \in Tasks, rfsync(u)
      PROVE  FALSE
  <2>1. op[u].at = "sync" /\ \A v \in Tasks \ {u} : op'[v] = op[v]
    BY <1>0, <1>6 DEF rfsync, Holds, Answer
  <2>2. QED
    BY <1>1, <2>1
<1>7. ASSUME NEW u \in Tasks, Reply(u)
      PROVE  FALSE
  <2>1. op[u].at = "done" /\ \A v \in Tasks \ {u} : op'[v] = op[v]
    BY <1>0, <1>7 DEF Reply
  <2>2. QED
    BY <1>1, <2>1
<1>8. ASSUME NEW u \in Tasks, rread(u)
      PROVE  rread(t)
  <2>1. \A v \in Tasks \ {u} : op'[v] = op[v]
    BY <1>0, <1>8 DEF rread, Answer
  <2>2. QED
    BY <1>8, <2>1
<1>9. CASE \E f \in Fids : rlopen(f) \/ rclunk(f)
  BY <1>2, <1>9 DEF rlopen, rclunk, Drops
<1>10. CASE \E w \in 1..Len(writes), ok \in BOOLEAN : WriteEnds(w, ok)
  BY <1>2, <1>10 DEF WriteEnds
<1>11. CASE UNCHANGED vars
  BY <1>2, <1>11 DEF vars
<1>12. QED
  BY <1>3, <1>4, <1>5, <1>6, <1>7, <1>8, <1>9, <1>10, <1>11 DEF Next

\* What rread answers is the last write in the file at its offset.
LEMMA ReadIsLast ==
  ASSUME FileInv, NEW t \in Tasks, rread(t), NEW w \in Written(op[t].fid) \ failed, writes[w].off = op[t].off
  PROVE  \E i, j \in DOMAIN applied :
           applied[i] = w /\ applied[j] = op'[t].value /\ i <= j /\ writes[applied[j]].off = op[t].off
<1>1. Queues /\ Rest
  BY Parts
<1>2. op[t].at = "rread" /\ Answer(t, TRUE, content[file[op[t].fid].pos])
  BY DEF rread, Holds
<1>3. op'[t].value = content[op[t].off] /\ op[t].off \in Offsets /\ file[op[t].fid].busy = 0
  BY <1>1, <1>2, AnswerFields DEF Rest, Positioned
<1>4. w \in DOMAIN writes /\ writes[w].mine /\ writes[w].fid = op[t].fid /\ w # 0
  BY <1>1 DEF Written, Rest, Files
<1>5. w \in ToSet(applied)
  BY <1>1, <1>3, <1>4 DEF Rest, Accounted, Ended
<1>6. PICK i \in DOMAIN applied : applied[i] = w
  BY <1>5 DEF ToSet
<1>7. writes[applied[i]].pos = op[t].off
  BY <1>1, <1>4, <1>6 DEF Rest, WritesLand
<1>8. PICK j \in DOMAIN applied : LastWrite(op[t].off, j)
  BY <1>1, <1>3, <1>6, <1>7 DEF Rest, ContentIsLast
<1>9. /\ applied[j] = content[op[t].off] /\ writes[applied[j]].pos = op[t].off /\ i <= j
      /\ applied[j] \in DOMAIN writes
  BY <1>1, <1>6, <1>7, <1>8 DEF Rest, ContentIsLast, LastWrite
<1>10. writes[applied[j]].off = op[t].off
  BY <1>1, <1>9 DEF Rest, WritesLand
<1>11. QED
  BY <1>3, <1>6, <1>9, <1>10

(* An rread (main.rs:316-326) answers with the last write acknowledged     *)
(* through its fid at its offset, or with one that came later: it waits    *)
(* for the write under way of its File, and no other request on the fid    *)
(* comes between its seek and its read.                                    *)
THEOREM ReadsSeeOwnWrites == Spec => ReadsOwnWrites
<1> DEFINE Sees == \A t \in Tasks :
             op[t].at = "rread" /\ op'[t].at = "done" =>
               LET own == {w \in Written(op[t].fid) : writes[w].off = op[t].off} \ failed
               IN \A w \in own : \E i, j \in DOMAIN applied :
                    applied[i] = w /\ applied[j] = op'[t].value /\ i <= j /\ writes[applied[j]].off = op[t].off
<1>1. FileInv /\ [Next]_vars => [Sees]_vars
  <2>1. ASSUME FileInv, [Next]_vars, NEW t \in Tasks, op[t].at = "rread", op'[t].at = "done",
               NEW w \in {w \in Written(op[t].fid) : writes[w].off = op[t].off} \ failed
        PROVE  \E i, j \in DOMAIN applied :
                 applied[i] = w /\ applied[j] = op'[t].value /\ i <= j /\ writes[applied[j]].off = op[t].off
    BY <2>1, OnlyReadAnswers, ReadIsLast
  <2>2. QED
    BY <2>1
<1>2. QED
  BY <1>1, FileInvHolds, PTL DEF Spec, ReadsOwnWrites
====
