---- MODULE Session ----
(***************************************************************************)
(* One connection of the server: `dispatch` and `dispatch_once` of         *)
(* src/crates/rs9p/src/srv.rs.  The reader loop decodes one message after  *)
(* another and spawns a task for each; the tasks share the fid table       *)
(* behind a tokio RwLock and the framed writer behind a tokio Mutex.       *)
(*                                                                         *)
(* A tag names a request from the moment its message is read until its     *)
(* reply is sent; the client then uses the tag again.  The code copies the *)
(* tag into the reply and looks at it nowhere else.                        *)
(***************************************************************************)
EXTENDS Protocol, Naturals, Sequences, SequencesExt

CONSTANTS
  Tags,          \* tags a client uses, one outstanding request for each
  Outcomes,      \* how a method of the Filesystem may end
  Awaits,        \* <<a, b>>: a method of type a returns only after one of type b
  Disciplined    \* does the client wait for the replies it depends on?

\* "ok": the reply of the request.  "notR": Ok with a message that is no reply.
\* "tooBig": a reply the frame codec refuses.  "err": an Err.  "panic": the
\* method unwinds, and its task with it.
AllOutcomes == {"ok", "err", "notR", "tooBig", "panic"}

ASSUME OutcomesAssumption == Outcomes \subseteq AllOutcomes
ASSUME AwaitsAssumption == Awaits \subseteq Types \X Types
ASSUME DisciplinedAssumption == Disciplined \in BOOLEAN

-----------------------------------------------------------------------------
VARIABLES
  reader,   \* the loop of dispatch: "open" or "ended"
  peer,     \* what writing to the socket does: "up" or "gone"
  pc,       \* pc[t]: how far the task of request t has come
  msg,      \* msg[t]: the message of request t
  result,   \* result[t]: how the request ended, "none" until it has
  waiting,  \* tasks whose method waits for another request
  fids,     \* the keys of the fid table
  lockQ,    \* tasks waiting for the RwLock of the table, first come first
  sendQ,    \* tasks waiting for the writer mutex; the first holds it
  view      \* the fids the replies sent so far give the client

vars == <<reader, peer, pc, msg, result, waiting, fids, lockQ, sendQ, view>>

Stages == {"idle", "spawned", "readWait", "reading", "calling", "unlocked",
           "writeWait", "writing", "replying", "sending", "silent"}

Fields ==
  /\ reader \in {"open", "ended"}
  /\ peer \in {"up", "gone"}
  /\ pc \in [Tags -> Stages]
  /\ msg \in [Tags -> Messages \cup {NoMessage}]
  /\ result \in [Tags -> AllOutcomes \cup {"none"}]
  /\ waiting \subseteq Tags
  /\ fids \subseteq Fids
  /\ lockQ \in Seq(Tags)
  /\ sendQ \in Seq(Tags)
  /\ view \subseteq Fids

Waiters == {t \in Tags : pc[t] \in {"readWait", "writeWait"}}
Senders == {t \in Tags : pc[t] = "sending"}
Awaiting(t) == pc[t] = "calling" /\ \E b \in Types : <<msg[t].typ, b>> \in Awaits

\* Who waits for a lock is in its queue, once, and who is in it waits; a method
\* that waits for another request is of a type that does.
Queued ==
  /\ ToSet(lockQ) = Waiters /\ IsInjective(lockQ)
  /\ ToSet(sendQ) = Senders /\ IsInjective(sendQ)
  /\ \A t \in waiting : Awaiting(t)

(* The state keeps its type, and the queues of the two locks hold the      *)
(* tasks that wait for them and no other (srv.rs:668, 709, 714, 776-781):  *)
(* no task ends with a place in a queue.                                   *)
TypeOK == Fields /\ Queued

Init ==
  /\ reader = "open"
  /\ peer = "up"
  /\ pc = [t \in Tags |-> "idle"]
  /\ msg = [t \in Tags |-> NoMessage]
  /\ result = [t \in Tags |-> "none"]
  /\ waiting = {}
  /\ fids = {}
  /\ lockQ = <<>>
  /\ sendQ = <<>>
  /\ view = {}

-----------------------------------------------------------------------------
(* The RwLock of tokio: one queue, served in order, so that a waiting      *)
(* writer holds back every reader that comes after it.                     *)

\* Mutant: the read guard lives to the end of dispatch_once.
ReadLockedToTheEnd(t) == pc[t] \in {"reading", "calling", "unlocked", "writeWait"}
ReadLocked(t) == pc[t] \in {"reading", "calling"}
WriteLocked(t) == pc[t] = "writing"

\* Mutants: a writer that does not wait for the readers; a lock with no queue.
GrantBesideReaders(t) ==
  /\ lockQ # <<>> /\ Head(lockQ) = t
  /\ \A u \in Tags : ~WriteLocked(u)
  /\ pc' = [pc EXCEPT ![t] = IF pc[t] = "readWait" THEN "reading" ELSE "writing"]
  /\ lockQ' = Tail(lockQ)
  /\ UNCHANGED <<reader, peer, msg, result, waiting, fids, sendQ, view>>
GrantInAnyOrder(t) ==
  /\ \A u \in Tags : ~WriteLocked(u)
  /\ \/ /\ pc[t] = "readWait"
        /\ pc' = [pc EXCEPT ![t] = "reading"]
     \/ /\ pc[t] = "writeWait"
        /\ \A u \in Tags : ~ReadLocked(u)
        /\ pc' = [pc EXCEPT ![t] = "writing"]
  /\ lockQ' = SelectSeq(lockQ, LAMBDA u : u # t)
  /\ UNCHANGED <<reader, peer, msg, result, waiting, fids, sendQ, view>>

Grant(t) ==
  /\ lockQ # <<>> /\ Head(lockQ) = t
  /\ \A u \in Tags : ~WriteLocked(u)
  /\ \/ /\ pc[t] = "readWait"
        /\ pc' = [pc EXCEPT ![t] = "reading"]
     \/ /\ pc[t] = "writeWait"
        /\ \A u \in Tags : ~ReadLocked(u)
        /\ pc' = [pc EXCEPT ![t] = "writing"]
  /\ lockQ' = Tail(lockQ)
  /\ UNCHANGED <<reader, peer, msg, result, waiting, fids, sendQ, view>>

-----------------------------------------------------------------------------
(* The reader loop of dispatch.                                            *)

\* A disciplined client leaves a fid alone while a request that makes or
\* clunks it is unanswered, and makes or clunks only a fid it is not using.
Polite(m) ==
  \A u \in Tags : pc[u] # "idle" =>
    /\ Changes(m) \cap Touches(msg[u]) = {}
    /\ Touches(m) \cap Changes(msg[u]) = {}

Receive(t, m) ==
  /\ reader = "open"
  /\ pc[t] = "idle"
  /\ Disciplined => Polite(m)
  /\ pc' = [pc EXCEPT ![t] = "spawned"]
  /\ msg' = [msg EXCEPT ![t] = m]
  /\ UNCHANGED <<reader, peer, result, waiting, fids, lockQ, sendQ, view>>

\* The end of the stream, a frame or message that does not decode, or an I/O
\* error: the loop ends and the tasks it spawned carry on.
EndReader ==
  /\ reader = "open"
  /\ reader' = "ended"
  /\ UNCHANGED <<peer, pc, msg, result, waiting, fids, lockQ, sendQ, view>>

\* The client is gone: nothing can be written to it any more.
PeerGone ==
  /\ peer = "up"
  /\ peer' = "gone"
  /\ UNCHANGED <<reader, pc, msg, result, waiting, fids, lockQ, sendQ, view>>

-----------------------------------------------------------------------------
(* The task of a request: dispatch_once.                                   *)

WantRead(t) ==
  /\ pc[t] = "spawned"
  /\ pc' = [pc EXCEPT ![t] = "readWait"]
  /\ lockQ' = Append(lockQ, t)
  /\ UNCHANGED <<reader, peer, msg, result, waiting, fids, sendQ, view>>

\* Mutant: a request whose fid is unknown is answered as if it were done.
LookupFailsQuietly(t) ==
  /\ pc[t] = "reading"
  /\ ~Valid(msg[t], fids)
  /\ pc' = [pc EXCEPT ![t] = "replying"]
  /\ result' = [result EXCEPT ![t] = "ok"]
  /\ UNCHANGED <<reader, peer, msg, waiting, fids, lockQ, sendQ, view>>

\* Unknown fid (EBADF) or message (EOPNOTSUPP): `?` drops the read guard.
LookupFails(t) ==
  /\ pc[t] = "reading"
  /\ ~Valid(msg[t], fids)
  /\ pc' = [pc EXCEPT ![t] = "replying"]
  /\ result' = [result EXCEPT ![t] = "err"]
  /\ UNCHANGED <<reader, peer, msg, waiting, fids, lockQ, sendQ, view>>

\* The method runs under the read guard.
CallMethod(t) ==
  /\ pc[t] = "reading"
  /\ Valid(msg[t], fids)
  /\ pc' = [pc EXCEPT ![t] = "calling"]
  /\ waiting' = IF \E b \in Types : <<msg[t].typ, b>> \in Awaits
                THEN waiting \cup {t} ELSE waiting
  /\ UNCHANGED <<reader, peer, msg, result, fids, lockQ, sendQ, view>>

\* Mutants: the `?` is forgotten, the new fid is forgotten.
MethodReturnsAnyway(t, outcome) ==
  /\ pc[t] = "calling"
  /\ t \notin waiting
  /\ outcome # "panic"
  /\ result' = [result EXCEPT ![t] = outcome]
  /\ pc' = [pc EXCEPT ![t] = IF Changes(msg[t]) # {} THEN "unlocked" ELSE "replying"]
  /\ waiting' = {u \in waiting : <<msg[u].typ, msg[t].typ>> \notin Awaits}
  /\ UNCHANGED <<reader, peer, msg, fids, lockQ, sendQ, view>>
MethodReturnsNoInsert(t, outcome) ==
  /\ pc[t] = "calling"
  /\ t \notin waiting
  /\ outcome # "panic"
  /\ result' = [result EXCEPT ![t] = outcome]
  /\ pc' = [pc EXCEPT ![t] = IF outcome # "err" /\ Drops(msg[t]) # {}
                             THEN "unlocked" ELSE "replying"]
  /\ waiting' = {u \in waiting : <<msg[u].typ, msg[t].typ>> \notin Awaits}
  /\ UNCHANGED <<reader, peer, msg, fids, lockQ, sendQ, view>>

\* `fut.await?`: both ways out of the block drop the read guard.
MethodReturns(t, outcome) ==
  /\ pc[t] = "calling"
  /\ t \notin waiting
  /\ outcome # "panic"
  /\ result' = [result EXCEPT ![t] = outcome]
  /\ pc' = [pc EXCEPT ![t] = IF outcome # "err" /\ Changes(msg[t]) # {}
                             THEN "unlocked" ELSE "replying"]
  /\ waiting' = {u \in waiting : <<msg[u].typ, msg[t].typ>> \notin Awaits}
  /\ UNCHANGED <<reader, peer, msg, fids, lockQ, sendQ, view>>

\* The method panics: tokio ends its task alone, which drops the read guard (the
\* RwLock knows no poison) and leaves the table as it is and the client waiting.
MethodPanics(t) ==
  /\ pc[t] = "calling"
  /\ t \notin waiting
  /\ "panic" \in Outcomes
  /\ result' = [result EXCEPT ![t] = "panic"]
  /\ pc' = [pc EXCEPT ![t] = "silent"]
  /\ UNCHANGED <<reader, peer, msg, waiting, fids, lockQ, sendQ, view>>

WantWrite(t) ==
  /\ pc[t] = "unlocked"
  /\ pc' = [pc EXCEPT ![t] = "writeWait"]
  /\ lockQ' = Append(lockQ, t)
  /\ UNCHANGED <<reader, peer, msg, result, waiting, fids, sendQ, view>>

\* Mutant: the clunked fid stays in the table.
ApplyKeepsClunked(t) ==
  /\ pc[t] = "writing"
  /\ fids' = fids \cup msg[t].makes
  /\ pc' = [pc EXCEPT ![t] = "replying"]
  /\ UNCHANGED <<reader, peer, msg, result, waiting, lockQ, sendQ, view>>

\* remove for a TClunk, insert for a request that names a new fid.
Apply(t) ==
  /\ pc[t] = "writing"
  /\ fids' = Effect(msg[t], fids)
  /\ pc' = [pc EXCEPT ![t] = "replying"]
  /\ UNCHANGED <<reader, peer, msg, result, waiting, lockQ, sendQ, view>>

-----------------------------------------------------------------------------
(* The rest of the task: the reply.                                        *)

WantSend(t) ==
  /\ pc[t] = "replying"
  /\ result[t] # "notR"
  /\ pc' = [pc EXCEPT ![t] = "sending"]
  /\ sendQ' = Append(sendQ, t)
  /\ UNCHANGED <<reader, peer, msg, result, waiting, fids, lockQ, view>>

\* `is_r()` is false: the task ends and the client hears nothing.
NoReply(t) ==
  /\ pc[t] = "replying"
  /\ result[t] = "notR"
  /\ pc' = [pc EXCEPT ![t] = "silent"]
  /\ UNCHANGED <<reader, peer, msg, result, waiting, fids, lockQ, sendQ, view>>

Sendable(t) == peer = "up" /\ result[t] # "tooBig"

Send(t) ==
  /\ pc[t] = "sending"
  /\ sendQ # <<>> /\ Head(sendQ) = t
  /\ Sendable(t)
  /\ view' = IF result[t] = "ok" THEN Effect(msg[t], view) ELSE view
  /\ pc' = [pc EXCEPT ![t] = "idle"]
  /\ msg' = [msg EXCEPT ![t] = NoMessage]
  /\ result' = [result EXCEPT ![t] = "none"]
  /\ sendQ' = Tail(sendQ)
  /\ UNCHANGED <<reader, peer, waiting, fids, lockQ>>

\* Mutant: the task returns with the writer locked.
SendFailsLocked(t) ==
  /\ pc[t] = "sending"
  /\ sendQ # <<>> /\ Head(sendQ) = t
  /\ ~Sendable(t)
  /\ pc' = [pc EXCEPT ![t] = "silent"]
  /\ UNCHANGED <<reader, peer, msg, result, waiting, fids, lockQ, sendQ, view>>

SendFails(t) ==
  /\ pc[t] = "sending"
  /\ sendQ # <<>> /\ Head(sendQ) = t
  /\ ~Sendable(t)
  /\ pc' = [pc EXCEPT ![t] = "silent"]
  /\ sendQ' = Tail(sendQ)
  /\ UNCHANGED <<reader, peer, msg, result, waiting, fids, lockQ, view>>

-----------------------------------------------------------------------------
TaskStep(t) ==
  \/ WantRead(t) \/ Grant(t)
  \/ LookupFails(t) \/ CallMethod(t)
  \/ \E outcome \in Outcomes : MethodReturns(t, outcome)
  \/ MethodPanics(t)
  \/ WantWrite(t) \/ Apply(t)
  \/ WantSend(t) \/ NoReply(t) \/ Send(t) \/ SendFails(t)

Finished == \A t \in Tags : pc[t] \in {"idle", "silent"}

\* The last task has dropped its share of the table and of the socket.
Closed == reader = "ended" /\ Finished /\ UNCHANGED vars

Next ==
  \/ \E t \in Tags : TaskStep(t) \/ \E m \in Messages : Receive(t, m)
  \/ EndReader \/ PeerGone \/ Closed

Spec == Init /\ [][Next]_vars

\* Every task is scheduled again and again and every method comes to an end;
\* the client is free to send nothing more.
FairSpec == Spec /\ \A t \in Tags : WF_vars(TaskStep(t))
====
