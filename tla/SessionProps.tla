---- MODULE SessionProps ----
(***************************************************************************)
(* The properties of a connection.                                         *)
(***************************************************************************)
EXTENDS Session

\* The request has changed the table (or would have, had it named a fid to
\* make or clunk) and its reply has not been sent.
Took(t) == pc[t] \in {"replying", "sending", "silent"} /\ result[t] \notin {"err", "panic"}

(* The read guard dispatch_once holds across `fut.await` (srv.rs:668-705)  *)
(* does its work: the FIds handed to a method stay in the table until the  *)
(* method returns, whatever TClunk and TWalk do meanwhile.                 *)
OperandsStayBound ==
  \A t \in Tags : pc[t] = "calling" => msg[t].uses \subseteq fids

(* Nor is one of them replaced: TAttach and TWalk may make a fid that is   *)
(* in use (srv.rs:707-717), but not under a method that works on it.       *)
OperandsNotReplaced ==
  [][\A t, u \in Tags : Apply(t) /\ pc[u] = "calling" => Changes(msg[t]) \cap msg[u].uses = {}]_vars

(* A reply means what it says (srv.rs:707-718): for a client that waits    *)
(* for the replies it depends on, the fids it knows of and the keys of the *)
(* table are the same, except for a fid whose change has been made and not *)
(* yet been answered.  So no fid it holds is ever EBADF, and none it has   *)
(* clunked lingers.                                                        *)
ViewAgrees ==
  \A f \in Fids :
    (\A t \in Tags : Took(t) => f \notin Changes(msg[t]))
      => (f \in fids <=> f \in view)

(* A fid leaves the table only when a TClunk of it succeeds, and enters it *)
(* only when a request that makes it succeeds (srv.rs:704-716): a failed   *)
(* request leaves the table alone.                                         *)
TableChangesOnSuccess ==
  [][\A f \in Fids : (f \in fids) # (f \in fids') =>
       \E t \in Tags : f \in Changes(msg[t]) /\ result[t] \notin {"err", "panic"} /\ pc[t] # pc'[t]]_vars

(* A fid the client knows of and leaves alone is there (srv.rs:669): only  *)
(* a request naming a fid it has no claim to is answered EBADF.            *)
NoUnjustEBADF ==
  [][\A t \in Tags : LookupFails(t) =>
       msg[t].typ \in Unsupported \/ ~(msg[t].uses \subseteq view)]_vars

(* A connection never stands still with work left but for methods that     *)
(* wait for other requests (srv.rs:668-718, 776): as long as a task has    *)
(* not ended, some task can go on, whoever holds or wants the locks and    *)
(* however others ended, without a reply or by a panic of their method.    *)
Ready(t) ==
  \/ pc[t] \in {"spawned", "reading", "unlocked", "writing", "replying"}
  \/ pc[t] = "calling" /\ t \notin waiting
  \/ /\ pc[t] \in {"readWait", "writeWait"}
     /\ lockQ # <<>> /\ Head(lockQ) = t
     /\ \A u \in Tags : ~WriteLocked(u) /\ (pc[t] = "writeWait" => ~ReadLocked(u))
  \/ pc[t] = "sending" /\ sendQ # <<>> /\ Head(sendQ) = t
NoStandstill == Finished \/ \E t \in Tags : Ready(t) \/ Awaiting(t)

(* Every message read is dealt with, however many later ones arrive        *)
(* (srv.rs:754-784): the lock is served in order, so neither a stream of   *)
(* readers nor one of writers keeps a task waiting for ever.               *)
EveryTaskEnds == \A t \in Tags : pc[t] = "spawned" ~> pc[t] \in {"idle", "silent"}

(* Once the reader loop has ended the tasks run out and, with the last of  *)
(* them, the shares of the table and of the socket (srv.rs:744-788).       *)
Drains == (reader = "ended") ~> [](Finished)

-----------------------------------------------------------------------------
(* The inductive invariant behind ViewAgrees and Linearizable, for a       *)
(* disciplined client.                                                     *)

\* Each stage of a task knows what it may of the result.
StageResult ==
  \A t \in Tags :
    /\ pc[t] \in {"idle", "spawned", "readWait", "reading", "calling"} => result[t] = "none"
    /\ pc[t] \in {"unlocked", "writeWait", "writing"} => result[t] \in AllOutcomes \ {"err", "panic"}
    /\ pc[t] \in {"replying", "sending"} => result[t] \in AllOutcomes \ {"panic"}
    /\ pc[t] = "silent" => result[t] \in AllOutcomes
    /\ pc[t] = "sending" => result[t] # "notR"

\* What one unanswered request changes no other one names.
Exclusive ==
  \A t, u \in Tags :
    t # u /\ pc[t] # "idle" /\ pc[u] # "idle" => Changes(msg[t]) \cap Touches(msg[u]) = {}

\* From the lookup until the change is made, the change is a valid one.
StaysValid ==
  \A t \in Tags :
    pc[t] \in {"calling", "unlocked", "writeWait", "writing"} => Valid(msg[t], fids)

\* Once made, the change is there to see until it is answered.
TookEffect ==
  \A t \in Tags :
    Took(t) => \A f \in Changes(msg[t]) : f \in fids <=> f \in msg[t].makes

ClientInv ==
  TypeOK /\ StageResult /\ Exclusive /\ StaysValid /\ TookEffect /\ ViewAgrees

-----------------------------------------------------------------------------
(* What the documentation says and the code does not do.                   *)

(* "Multiple methods may run concurrently" (filesystem-trait-guide.md:164):*)
(* a request does not wait for ever for the method of another to return.   *)
MethodsRunConcurrently ==
  \A t \in Tags : pc[t] = "readWait" ~> pc[t] # "readWait"

-----------------------------------------------------------------------------
(* What the client may take the connection to be.                          *)

\* Where a task stands for the client: asked, done but not answered, or lost.
StageOf(t) ==
  CASE pc[t] = "idle" -> "idle"
    [] pc[t] \in {"replying", "sending"} -> "done"
    [] pc[t] = "silent" -> "lost"
    [] OTHER -> "asked"
AnswerOf(t) ==
  IF pc[t] \notin {"replying", "sending", "silent"} \/ result[t] = "panic" THEN "none"
  ELSE IF result[t] \in {"notR", "tooBig"} THEN "mute" ELSE result[t]

Service == INSTANCE FidService WITH
  open <- reader = "open",
  stage <- [t \in Tags |-> StageOf(t)],
  asked <- msg,
  answer <- [t \in Tags |-> AnswerOf(t)],
  table <- fids

(* The locks make one atomic step of each request (srv.rs:652-719): a      *)
(* client that waits for the replies it depends on cannot tell the         *)
(* connection from a table on which every request takes effect at once.    *)
Linearizable == Service!Spec
====
