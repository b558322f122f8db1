---- MODULE SessionProofs ----
(***************************************************************************)
(* Proofs about a connection, for any tags, fids, message types, outcomes  *)
(* and dependencies between methods.                                       *)
(***************************************************************************)
EXTENDS SessionProps, FoldFacts

(* A message has the fields the dispatcher reads.                          *)
LEMMA MessageType ==
  ASSUME NEW m \in Messages \cup {NoMessage}
  PROVE  /\ m = [typ |-> m.typ, uses |-> m.uses, makes |-> m.makes]
         /\ m.uses \subseteq Fids
         /\ m.makes \subseteq Fids
         /\ Changes(m) \subseteq Fids
BY DEF Messages, NoMessage, Message, Changes, Drops

(* The variables keep their types in every behaviour of a connection.      *)
LEMMA FieldStep == Fields /\ [Next]_vars => Fields'
<1> SUFFICES ASSUME Fields, [Next]_vars
             PROVE  Fields'
  OBVIOUS
<1> USE DEF Fields, Stages
<1>1. ASSUME NEW t \in Tags, TaskStep(t)
      PROVE  Fields'
  <2>1. CASE WantRead(t)
    BY <2>1 DEF WantRead
  <2>2. CASE Grant(t)
    BY <2>2 DEF Grant
  <2>3. CASE LookupFails(t)
    BY <2>3 DEF LookupFails, AllOutcomes
  <2>4. CASE CallMethod(t)
    BY <2>4 DEF CallMethod
  <2>5. CASE \E outcome \in Outcomes : MethodReturns(t, outcome)
    BY <2>5, OutcomesAssumption DEF MethodReturns
  <2>6. CASE WantWrite(t)
    BY <2>6 DEF WantWrite
  <2>7. CASE Apply(t)
    <3>1. msg[t].makes \subseteq Fids
      BY MessageType
    <3>2. QED
      BY <2>7, <3>1 DEF Apply, Effect
  <2>8. CASE WantSend(t)
    BY <2>8 DEF WantSend
  <2>9. CASE NoReply(t)
    BY <2>9 DEF NoReply
  <2>10. CASE Send(t)
    <3>1. msg[t].makes \subseteq Fids
      BY MessageType
    <3>2. QED
      BY <2>10, <3>1 DEF Send, Effect
  <2>11. CASE SendFails(t)
    BY <2>11 DEF SendFails
  <2>12. CASE MethodPanics(t)
    BY <2>12 DEF MethodPanics, AllOutcomes
  <2>13. QED
    BY <1>1, <2>1, <2>2, <2>3, <2>4, <2>5, <2>6, <2>7, <2>8, <2>9, <2>10, <2>11, <2>12
       DEF TaskStep
<1>2. ASSUME NEW t \in Tags, NEW m \in Messages, Receive(t, m)
      PROVE  Fields'
  BY <1>2 DEF Receive
<1>3. CASE EndReader
  BY <1>3 DEF EndReader
<1>4. CASE PeerGone
  BY <1>4 DEF PeerGone
<1>5. CASE UNCHANGED vars
  BY <1>5 DEF vars
<1>6. QED
  BY <1>1, <1>2, <1>3, <1>4, <1>5 DEF Next, Closed

(* A task joins a queue as it begins to wait and leaves it as it is served *)
(* or gives up: none is forgotten, and none is left behind.                *)
LEMMA QueuedStep == Fields /\ Queued /\ [Next]_vars => Queued'
<1> SUFFICES ASSUME Fields, Queued, [Next]_vars
             PROVE  Queued'
  OBVIOUS
<1> DEFINE Locks == ToSet(lockQ) = Waiters /\ IsInjective(lockQ)
           Sends == ToSet(sendQ) = Senders /\ IsInjective(sendQ)
           Calls == \A t \in waiting : Awaiting(t)
<1>1. ASSUME NEW t \in Tags, TaskStep(t)
      PROVE  Locks' /\ Sends' /\ Calls'
  <2>1. ASSUME pc[t] \notin {"readWait", "writeWait"}, pc'[t] \in {"readWait", "writeWait"},
               \A u \in Tags \ {t} : pc'[u] = pc[u], lockQ' = Append(lockQ, t)
        PROVE  Locks'
    <3>1. t \notin ToSet(lockQ) /\ lockQ \in Seq(Tags) /\ IsInjective(lockQ)
      BY <2>1 DEF Queued, Waiters, Fields
    <3>2. ToSet(lockQ') = ToSet(lockQ) \cup {t} /\ IsInjective(lockQ')
      BY <2>1, <3>1, Enqueue
    <3>3. Waiters' = Waiters \cup {t}
      BY <2>1 DEF Waiters
    <3>4. QED
      BY <3>2, <3>3 DEF Queued
  <2>2. ASSUME pc[t] \notin {"readWait", "writeWait"}, pc'[t] \notin {"readWait", "writeWait"},
               \A u \in Tags \ {t} : pc'[u] = pc[u], lockQ' = lockQ
        PROVE  Locks'
    <3>1. Waiters' = Waiters
      BY <2>2 DEF Waiters
    <3>2. QED
      BY <2>2, <3>1 DEF Queued
  <2>3. ASSUME pc[t] # "sending", pc'[t] # "sending",
               \A u \in Tags \ {t} : pc'[u] = pc[u], sendQ' = sendQ
        PROVE  Sends'
    <3>1. Senders' = Senders
      BY <2>3 DEF Senders
    <3>2. QED
      BY <2>3, <3>1 DEF Queued
  <2>4. ASSUME pc[t] = "sending", pc'[t] # "sending", sendQ # <<>>, Head(sendQ) = t,
               \A u \in Tags \ {t} : pc'[u] = pc[u], sendQ' = Tail(sendQ)
        PROVE  Sends'
    <3>1. ToSet(sendQ') = ToSet(sendQ) \ {t} /\ IsInjective(sendQ')
      <4>1. sendQ \in Seq(Tags) /\ IsInjective(sendQ)
        BY DEF Queued, Fields
      <4>2. QED
        BY <2>4, <4>1, Dequeue
    <3>2. Senders' = Senders \ {t}
      BY <2>4 DEF Senders
    <3>3. QED
      BY <3>1, <3>2 DEF Queued
  <2>5. ASSUME pc[t] # "calling", waiting' = waiting, msg' = msg \/ pc'[t] = "idle",
               \A u \in Tags \ {t} : pc'[u] = pc[u] /\ msg'[u] = msg[u]
        PROVE  Calls'
    BY <2>5 DEF Queued, Awaiting, Fields
  <2> DEFINE Moves(a, b) == pc[t] = a /\ pc'[t] = b /\ \A u \in Tags \ {t} : pc'[u] = pc[u]
  <2>6. CASE WantRead(t)
    <3>1. Moves("spawned", "readWait") /\ lockQ' = Append(lockQ, t)
      BY <2>6 DEF WantRead, Fields
    <3>2. QED
      BY <2>1, <2>3, <2>5, <2>6, <3>1 DEF WantRead
  <2>7. CASE Grant(t)
    <3>1. /\ pc[t] \in {"readWait", "writeWait"} /\ pc'[t] \in {"reading", "writing"}
          /\ \A u \in Tags \ {t} : pc'[u] = pc[u]
      BY <2>7 DEF Grant, Fields
    <3>2. ToSet(lockQ') = ToSet(lockQ) \ {t} /\ IsInjective(lockQ')
      <4>1. lockQ \in Seq(Tags) /\ IsInjective(lockQ)
        BY DEF Queued, Fields
      <4>2. QED
        BY <2>7, <4>1, Dequeue DEF Grant
    <3>3. Waiters' = Waiters \ {t}
      BY <3>1 DEF Waiters
    <3>4. Locks'
      BY <3>2, <3>3 DEF Queued
    <3>5. QED
      BY <2>3, <2>5, <2>7, <3>1, <3>4 DEF Grant
  <2>8. CASE LookupFails(t)
    <3>1. Moves("reading", "replying")
      BY <2>8 DEF LookupFails, Fields
    <3>2. QED
      BY <2>2, <2>3, <2>5, <2>8, <3>1 DEF LookupFails
  <2>9. CASE CallMethod(t)
    <3>1. Moves("reading", "calling")
      BY <2>9 DEF CallMethod, Fields
    <3>2. Calls'
      <4>1. msg' = msg /\ \A u \in waiting : u # t
        BY <2>9, <3>1 DEF CallMethod, Queued, Awaiting
      <4>2. \A u \in waiting : u \in Tags /\ Awaiting(u)'
        BY <3>1, <4>1 DEF Queued, Awaiting, Fields
      <4>3. QED
        BY <2>9, <3>1, <4>1, <4>2 DEF CallMethod, Awaiting
    <3>3. QED
      BY <2>2, <2>3, <2>9, <3>1, <3>2 DEF CallMethod
  <2>10. CASE \E outcome \in Outcomes : MethodReturns(t, outcome)
    <3>1. PICK outcome \in Outcomes : MethodReturns(t, outcome)
      BY <2>10
    <3>2. /\ pc[t] = "calling" /\ pc'[t] \in {"unlocked", "replying"}
          /\ \A u \in Tags \ {t} : pc'[u] = pc[u]
      BY <3>1 DEF MethodReturns, Fields
    <3>3. Calls'
      <4>1. msg' = msg /\ t \notin waiting /\ waiting' \subseteq waiting
        BY <3>1 DEF MethodReturns
      <4>2. QED
        BY <3>2, <4>1 DEF Queued, Awaiting, Fields
    <3>4. QED
      BY <2>2, <2>3, <3>1, <3>2, <3>3 DEF MethodReturns
  <2>11. CASE WantWrite(t)
    <3>1. Moves("unlocked", "writeWait")
      BY <2>11 DEF WantWrite, Fields
    <3>2. QED
      BY <2>1, <2>3, <2>5, <2>11, <3>1 DEF WantWrite
  <2>12. CASE Apply(t)
    <3>1. Moves("writing", "replying")
      BY <2>12 DEF Apply, Fields
    <3>2. QED
      BY <2>2, <2>3, <2>5, <2>12, <3>1 DEF Apply
  <2>13. CASE WantSend(t)
    <3>1. Moves("replying", "sending")
      BY <2>13 DEF WantSend, Fields
    <3>2. ToSet(sendQ') = ToSet(sendQ) \cup {t} /\ IsInjective(sendQ')
      <4>1. t \notin ToSet(sendQ) /\ sendQ \in Seq(Tags) /\ IsInjective(sendQ)
        BY <3>1 DEF Queued, Senders, Fields
      <4>2. QED
        BY <2>13, <4>1, Enqueue DEF WantSend
    <3>3. Senders' = Senders \cup {t}
      BY <3>1 DEF Senders
    <3>4. Sends'
      BY <3>2, <3>3 DEF Queued
    <3>5. QED
      BY <2>2, <2>5, <2>13, <3>1, <3>4 DEF WantSend
  <2>14. CASE NoReply(t)
    <3>1. Moves("replying", "silent")
      BY <2>14 DEF NoReply, Fields
    <3>2. QED
      BY <2>2, <2>3, <2>5, <2>14, <3>1 DEF NoReply
  <2>15. CASE Send(t)
    <3>1. Moves("sending", "idle") /\ \A u \in Tags \ {t} : msg'[u] = msg[u]
      BY <2>15 DEF Send, Fields
    <3>2. QED
      BY <2>2, <2>4, <2>5, <2>15, <3>1 DEF Send
  <2>16. CASE SendFails(t)
    <3>1. Moves("sending", "silent")
      BY <2>16 DEF SendFails, Fields
    <3>2. QED
      BY <2>2, <2>4, <2>5, <2>16, <3>1 DEF SendFails
  <2>17. CASE MethodPanics(t)
    <3>1. Moves("calling", "silent") /\ msg' = msg /\ t \notin waiting
      BY <2>17 DEF MethodPanics, Fields
    <3>2. Calls'
      BY <2>17, <3>1 DEF MethodPanics, Queued, Awaiting, Fields
    <3>3. QED
      BY <2>2, <2>3, <2>17, <3>1, <3>2 DEF MethodPanics
  <2>18. QED
    BY <1>1, <2>6, <2>7, <2>8, <2>9, <2>10, <2>11, <2>12, <2>13, <2>14, <2>15, <2>16, <2>17 DEF TaskStep
<1>2. ASSUME NEW t \in Tags, NEW m \in Messages, Receive(t, m)
      PROVE  Locks' /\ Sends' /\ Calls'
  <2>1. /\ pc[t] = "idle" /\ pc'[t] = "spawned"
        /\ \A u \in Tags \ {t} : pc'[u] = pc[u] /\ msg'[u] = msg[u]
    BY <1>2 DEF Receive, Fields
  <2>2. Waiters' = Waiters /\ Senders' = Senders
    BY <2>1 DEF Waiters, Senders
  <2>3. lockQ' = lockQ /\ sendQ' = sendQ /\ waiting' = waiting
    BY <1>2 DEF Receive
  <2>4. Calls'
    BY <2>1, <2>3 DEF Queued, Awaiting, Fields
  <2>5. QED
    BY <2>2, <2>3, <2>4 DEF Queued
<1>3. CASE UNCHANGED <<pc, msg, waiting, lockQ, sendQ>>
  BY <1>3 DEF Queued, Waiters, Senders, Awaiting
<1>4. QED
  BY <1>1, <1>2, <1>3 DEF Next, Closed, EndReader, PeerGone, vars, Queued

(* The type is kept.                                                       *)
LEMMA TypeStep == TypeOK /\ [Next]_vars => TypeOK'
BY FieldStep, QueuedStep DEF TypeOK

(* At first there is nothing.                                              *)
LEMMA TypeInit == Init => TypeOK
<1> SUFFICES ASSUME Init
             PROVE  Fields /\ Queued
  BY DEF TypeOK
<1>1. lockQ = <<>> /\ sendQ = <<>> /\ waiting = {} /\ Waiters = {} /\ Senders = {}
  BY DEF Init, Waiters, Senders
<1>2. ToSet(<<>>) = {} /\ IsInjective(<<>>)
  BY DEF ToSet, IsInjective
<1>3. QED
  BY <1>1, <1>2 DEF Queued, Init, Fields, Stages

(* Typing of the tasks, the table, the queues and the client's view.       *)
THEOREM Typing == Spec => []TypeOK
BY TypeInit, TypeStep, PTL DEF Spec

-----------------------------------------------------------------------------
(* The fids of a running method.                                           *)

\* The RwLock: a writer is alone.
WriterAlone ==
  \A t, u \in Tags : WriteLocked(t) /\ t # u => ~WriteLocked(u) /\ ~ReadLocked(u)

LockInv == TypeOK /\ WriterAlone /\ OperandsStayBound

(* Nothing but Apply changes the table, and Apply is alone with the lock.  *)
LEMMA LockStep == LockInv /\ [Next]_vars => LockInv'
<1> SUFFICES ASSUME LockInv, [Next]_vars
             PROVE  WriterAlone' /\ OperandsStayBound'
  BY TypeStep DEF LockInv
<1> USE DEF LockInv, TypeOK, Fields, WriterAlone, OperandsStayBound, WriteLocked, ReadLocked
<1>1. ASSUME NEW t \in Tags, TaskStep(t)
      PROVE  WriterAlone' /\ OperandsStayBound'
  <2>1. CASE WantRead(t)
    BY <2>1 DEF WantRead
  <2>2. CASE Grant(t)
    BY <2>2 DEF Grant
  <2>3. CASE LookupFails(t)
    BY <2>3 DEF LookupFails
  <2>4. CASE CallMethod(t)
    BY <2>4 DEF CallMethod, Valid
  <2>5. CASE \E outcome \in Outcomes : MethodReturns(t, outcome)
    BY <2>5 DEF MethodReturns
  <2>6. CASE WantWrite(t)
    BY <2>6 DEF WantWrite
  <2>7. CASE Apply(t)
    <3>1. \A u \in Tags : pc'[u] # "calling"
      BY <2>7 DEF Apply
    <3>2. QED
      BY <2>7, <3>1 DEF Apply
  <2>8. CASE WantSend(t)
    BY <2>8 DEF WantSend
  <2>9. CASE NoReply(t)
    BY <2>9 DEF NoReply
  <2>10. CASE Send(t)
    BY <2>10 DEF Send
  <2>11. CASE SendFails(t)
    BY <2>11 DEF SendFails
  <2>12. CASE MethodPanics(t)
    BY <2>12 DEF MethodPanics
  <2>13. QED
    BY <1>1, <2>1, <2>2, <2>3, <2>4, <2>5, <2>6, <2>7, <2>8, <2>9, <2>10, <2>11, <2>12
       DEF TaskStep
<1>2. ASSUME NEW t \in Tags, NEW m \in Messages, Receive(t, m)
      PROVE  WriterAlone' /\ OperandsStayBound'
  BY <1>2 DEF Receive
<1>3. CASE UNCHANGED <<pc, msg, fids>>
  BY <1>3
<1>4. QED
  BY <1>1, <1>2, <1>3 DEF Next, Closed, EndReader, PeerGone, vars

(* The FIds handed to a method stay in the table until it returns, for     *)
(* every client: the read guard of srv.rs:668 excludes the writers of      *)
(* srv.rs:709 and 714.                                                     *)
THEOREM OperandsBound == Spec => []OperandsStayBound
<1>1. Init => LockInv
  BY TypeInit DEF Init, LockInv, Fields, Stages, WriterAlone, OperandsStayBound, WriteLocked
<1>2. LockInv => OperandsStayBound
  BY DEF LockInv
<1>3. QED
  BY <1>1, <1>2, LockStep, PTL DEF Spec

(* No FId is replaced under the method that works on it: a task that       *)
(* changes the table is alone with it.                                     *)
THEOREM OperandsKept == Spec => OperandsNotReplaced
<1>1. Init => LockInv
  BY TypeInit DEF Init, LockInv, Fields, Stages, WriterAlone, OperandsStayBound, WriteLocked
<1>2. ASSUME LockInv, NEW t \in Tags, NEW u \in Tags, Apply(t), pc[u] = "calling"
      PROVE  Changes(msg[t]) \cap msg[u].uses = {}
  BY <1>2 DEF LockInv, WriterAlone, WriteLocked, ReadLocked, Apply
<1>3. LockInv /\ [Next]_vars =>
        [\A t, u \in Tags : Apply(t) /\ pc[u] = "calling" => Changes(msg[t]) \cap msg[u].uses = {}]_vars
  BY <1>2
<1>4. QED
  BY <1>1, <1>3, LockStep, PTL DEF Spec, OperandsNotReplaced

-----------------------------------------------------------------------------
(* What a client may rely on.                                              *)

(* A task has a result from the moment its method or its lookup ends.      *)
LEMMA StageStep == TypeOK /\ StageResult /\ [Next]_vars => StageResult'
<1> SUFFICES ASSUME TypeOK, StageResult, [Next]_vars
             PROVE  StageResult'
  OBVIOUS
<1> USE DEF TypeOK, Fields, StageResult, AllOutcomes
<1>1. ASSUME NEW t \in Tags, TaskStep(t)
      PROVE  StageResult'
  <2>1. CASE WantRead(t) \/ Grant(t) \/ CallMethod(t) \/ WantWrite(t) \/ Apply(t)
    BY <2>1 DEF WantRead, Grant, CallMethod, WantWrite, Apply
  <2>2. CASE LookupFails(t)
    BY <2>2 DEF LookupFails
  <2>3. CASE \E outcome \in Outcomes : MethodReturns(t, outcome)
    BY <2>3, OutcomesAssumption DEF MethodReturns
  <2>4. CASE WantSend(t) \/ NoReply(t)
    BY <2>4 DEF WantSend, NoReply
  <2>5. CASE Send(t) \/ SendFails(t)
    BY <2>5 DEF Send, SendFails
  <2>6. CASE MethodPanics(t)
    BY <2>6 DEF MethodPanics
  <2>7. QED
    BY <1>1, <2>1, <2>2, <2>3, <2>4, <2>5, <2>6 DEF TaskStep
<1>2. ASSUME NEW t \in Tags, NEW m \in Messages, Receive(t, m)
      PROVE  StageResult'
  BY <1>2 DEF Receive
<1>3. CASE UNCHANGED <<pc, result>>
  BY <1>3
<1>4. QED
  BY <1>1, <1>2, <1>3 DEF Next, Closed, EndReader, PeerGone, vars

(* A disciplined client never has two requests of which one changes what   *)
(* the other names.                                                        *)
LEMMA ExclusiveStep ==
  ASSUME Disciplined, TypeOK, Exclusive, [Next]_vars
  PROVE  Exclusive'
<1> USE DEF TypeOK, Fields, Exclusive, Stages
<1>1. ASSUME NEW t \in Tags, TaskStep(t)
      PROVE  Exclusive'
  <2>1. \A u \in Tags : pc'[u] # "idle" => pc[u] # "idle" /\ msg'[u] = msg[u]
    <3>1. CASE MethodPanics(t) \/ WantRead(t) \/ LookupFails(t) \/ CallMethod(t) \/ WantWrite(t) \/ Apply(t)
               \/ (\E outcome \in Outcomes : MethodReturns(t, outcome))
      BY <3>1 DEF MethodPanics, WantRead, LookupFails, CallMethod, WantWrite, Apply, MethodReturns
    <3>2. CASE Grant(t) \/ WantSend(t) \/ NoReply(t) \/ SendFails(t)
      BY <3>2 DEF Grant, WantSend, NoReply, SendFails
    <3>3. CASE Send(t)
      BY <3>3 DEF Send
    <3>4. QED
      BY <1>1, <3>1, <3>2, <3>3 DEF TaskStep
  <2>2. QED
    BY <2>1
<1>2. ASSUME NEW t \in Tags, NEW m \in Messages, Receive(t, m)
      PROVE  Exclusive'
  <2>1. \A u \in Tags : pc[u] # "idle" =>
          Changes(m) \cap Touches(msg[u]) = {} /\ Touches(m) \cap Changes(msg[u]) = {}
    BY <1>2 DEF Receive, Polite
  <2>2. \A u \in Tags : u # t => pc'[u] = pc[u] /\ msg'[u] = msg[u]
    BY <1>2 DEF Receive
  <2>3. msg'[t] = m
    BY <1>2 DEF Receive
  <2>4. QED
    BY <2>1, <2>2, <2>3
<1>3. CASE UNCHANGED <<pc, msg>>
  BY <1>3
<1>4. QED
  BY <1>1, <1>2, <1>3 DEF Next, Closed, EndReader, PeerGone, vars

(* Only Apply changes the table, and only at the fids its request changes. *)
LEMMA TableStep ==
  ASSUME TypeOK, NEW t \in Tags, TaskStep(t)
  PROVE  \/ UNCHANGED fids
         \/ /\ Apply(t)
            /\ \A f \in Fids \ Changes(msg[t]) : f \in fids' <=> f \in fids
            /\ \A f \in Changes(msg[t]) : f \in fids' <=> f \in msg[t].makes
<1>1. CASE Apply(t)
  BY <1>1 DEF Apply, Effect, Changes, Drops
<1>2. CASE ~Apply(t)
  BY <1>2 DEF TaskStep, WantRead, Grant, LookupFails, CallMethod, MethodReturns, MethodPanics,
              WantWrite, WantSend, NoReply, Send, SendFails
<1>3. QED
  BY <1>1, <1>2

(* What was valid at the lookup is valid when the change is made: the lock *)
(* keeps writers out while the method runs, and the client keeps off after *)
(* that.                                                                   *)
LEMMA StaysValidStep ==
  ASSUME TypeOK, Exclusive, StaysValid, [Next]_vars
  PROVE  StaysValid'
<1> USE DEF TypeOK, Fields, StaysValid, Valid
<1>1. ASSUME NEW t \in Tags, TaskStep(t)
      PROVE  StaysValid'
  <2>1. CASE UNCHANGED fids
    <3>1. CASE WantRead(t) \/ Grant(t) \/ LookupFails(t) \/ CallMethod(t)
      BY <2>1, <3>1 DEF WantRead, Grant, LookupFails, CallMethod
    <3>2. CASE \E outcome \in Outcomes : MethodReturns(t, outcome)
      BY <2>1, <3>2 DEF MethodReturns
    <3>3. CASE WantWrite(t) \/ Apply(t) \/ WantSend(t) \/ NoReply(t)
      BY <2>1, <3>3 DEF WantWrite, Apply, WantSend, NoReply
    <3>4. CASE Send(t) \/ SendFails(t)
      BY <2>1, <3>4 DEF Send, SendFails
    <3>5. CASE MethodPanics(t)
      BY <2>1, <3>5 DEF MethodPanics
    <3>6. QED
      BY <1>1, <3>1, <3>2, <3>3, <3>4, <3>5 DEF TaskStep
  <2>2. CASE Apply(t) /\ \A f \in Fids \ Changes(msg[t]) : f \in fids' <=> f \in fids
    <3> SUFFICES ASSUME NEW u \in Tags,
                        pc'[u] \in {"calling", "unlocked", "writeWait", "writing"}
                 PROVE  Valid(msg[u], fids)'
      OBVIOUS
    <3>1. u # t /\ pc[u] = pc'[u] /\ msg'[u] = msg[u]
      BY <2>2 DEF Apply
    <3>2. Changes(msg[t]) \cap msg[u].uses = {}
      BY <2>2, <3>1 DEF Exclusive, Apply, Touches
    <3>3. msg[u].uses \subseteq Fids
      BY MessageType
    <3>4. QED
      BY <2>2, <3>1, <3>2, <3>3
  <2>3. QED
    BY <1>1, <2>1, <2>2, TableStep
<1>2. ASSUME NEW t \in Tags, NEW m \in Messages, Receive(t, m)
      PROVE  StaysValid'
  BY <1>2 DEF Receive
<1>3. CASE UNCHANGED <<pc, msg, fids>>
  BY <1>3
<1>4. QED
  BY <1>1, <1>2, <1>3 DEF Next, Closed, EndReader, PeerGone, vars

(* The change of a request is not undone before the client hears of it.    *)
LEMMA TookEffectStep ==
  ASSUME TypeOK, StageResult, Exclusive, TookEffect, [Next]_vars
  PROVE  TookEffect'
<1> USE DEF TypeOK, Fields, TookEffect, Took
<1>1. ASSUME NEW t \in Tags, TaskStep(t)
      PROVE  TookEffect'
  <2>1. CASE UNCHANGED fids /\ ~Apply(t)
    <3>1. CASE WantRead(t) \/ Grant(t) \/ LookupFails(t) \/ CallMethod(t) \/ WantWrite(t)
      BY <2>1, <3>1 DEF WantRead, Grant, LookupFails, CallMethod, WantWrite
    <3>2. CASE \E outcome \in Outcomes : MethodReturns(t, outcome)
      BY <2>1, <3>2 DEF MethodReturns
    <3>3. CASE WantSend(t) \/ NoReply(t)
      BY <2>1, <3>3 DEF WantSend, NoReply
    <3>4. CASE Send(t) \/ SendFails(t)
      BY <2>1, <3>4 DEF Send, SendFails
    <3>5. CASE MethodPanics(t)
      BY <2>1, <3>5 DEF MethodPanics
    <3>6. QED
      BY <1>1, <2>1, <3>1, <3>2, <3>3, <3>4, <3>5 DEF TaskStep
  <2>2. CASE Apply(t)
    <3>1. /\ \A f \in Fids \ Changes(msg[t]) : f \in fids' <=> f \in fids
          /\ \A f \in Changes(msg[t]) : f \in fids' <=> f \in msg[t].makes
      BY <2>2, MessageType DEF Apply, Effect, Changes, Drops
    <3> SUFFICES ASSUME NEW u \in Tags, Took(u)', NEW f \in Changes(msg[u])'
                 PROVE  f \in fids' <=> f \in msg'[u].makes
      OBVIOUS
    <3>2. msg' = msg
      BY <2>2 DEF Apply
    <3>3. CASE u = t
      BY <3>1, <3>2, <3>3
    <3>4. CASE u # t
      <4>1. Took(u)
        BY <2>2, <3>4 DEF Apply
      <4>2. f \in Fids
        BY <3>2, MessageType
      <4>3. f \notin Changes(msg[t])
        BY <2>2, <3>2, <3>4, <4>1 DEF Exclusive, Touches, Changes, Drops, Apply
      <4>4. QED
        BY <3>1, <3>2, <4>1, <4>2, <4>3
    <3>5. QED
      BY <3>3, <3>4
  <2>3. QED
    BY <1>1, <2>1, <2>2, TableStep
<1>2. ASSUME NEW t \in Tags, NEW m \in Messages, Receive(t, m)
      PROVE  TookEffect'
  BY <1>2 DEF Receive
<1>3. CASE UNCHANGED <<pc, msg, result, fids>>
  BY <1>3
<1>4. QED
  BY <1>1, <1>2, <1>3 DEF Next, Closed, EndReader, PeerGone, vars

(* The reply brings the client's view up to date with the table.           *)
LEMMA ViewStep ==
  ASSUME TypeOK, StageResult, Exclusive, TookEffect, ViewAgrees, [Next]_vars
  PROVE  ViewAgrees'
<1> USE DEF TypeOK, Fields, ViewAgrees, Took
<1>1. ASSUME NEW t \in Tags, TaskStep(t)
      PROVE  ViewAgrees'
  <2>1. CASE WantRead(t) \/ Grant(t) \/ LookupFails(t) \/ CallMethod(t) \/ WantWrite(t)
    BY <2>1 DEF WantRead, Grant, LookupFails, CallMethod, WantWrite
  <2>2. CASE \E outcome \in Outcomes : MethodReturns(t, outcome)
    BY <2>2 DEF MethodReturns
  <2>3. CASE Apply(t)
    <3> SUFFICES ASSUME NEW f \in Fids,
                        \A u \in Tags : Took(u)' => f \notin Changes(msg'[u])
                 PROVE  f \in fids' <=> f \in view'
      OBVIOUS
    <3>1. pc'[t] = "replying" /\ result'[t] \notin {"err", "panic"} /\ msg' = msg
      BY <2>3 DEF Apply, StageResult
    <3>2. f \notin Changes(msg[t])
      BY <3>1
    <3>3. f \in fids' <=> f \in fids
      BY <2>3, <3>2 DEF Apply, Effect, Changes
    <3>4. \A u \in Tags : Took(u) => f \notin Changes(msg[u])
      BY <2>3, <3>1 DEF Apply
    <3>5. QED
      BY <2>3, <3>3, <3>4 DEF Apply
  <2>4. CASE WantSend(t) \/ NoReply(t) \/ SendFails(t)
    BY <2>4 DEF WantSend, NoReply, SendFails
  <2>5. CASE Send(t)
    <3> SUFFICES ASSUME NEW f \in Fids,
                        \A u \in Tags : Took(u)' => f \notin Changes(msg'[u])
                 PROVE  f \in fids' <=> f \in view'
      OBVIOUS
    <3>1. \A u \in Tags : u # t /\ Took(u) => f \notin Changes(msg[u])
      BY <2>5 DEF Send
    <3>2. result[t] \in {"ok", "err"}
      BY <2>5 DEF Send, Sendable, StageResult, AllOutcomes
    <3>3. CASE result[t] = "ok" /\ f \in Changes(msg[t])
      <4>1. f \in fids <=> f \in msg[t].makes
        BY <2>5, <3>3 DEF Send, TookEffect
      <4>2. f \in view' <=> f \in msg[t].makes
        BY <2>5, <3>3 DEF Send, Effect, Changes
      <4>3. QED
        BY <2>5, <4>1, <4>2 DEF Send
    <3>4. CASE result[t] = "ok" /\ f \notin Changes(msg[t])
      <4>1. f \in fids <=> f \in view
        BY <3>1, <3>4
      <4>2. f \in view' <=> f \in view
        BY <2>5, <3>4 DEF Send, Effect, Changes
      <4>3. QED
        BY <2>5, <4>1, <4>2 DEF Send
    <3>5. CASE result[t] = "err"
      <4>1. f \in fids <=> f \in view
        BY <3>1, <3>5
      <4>2. QED
        BY <2>5, <3>5, <4>1 DEF Send
    <3>6. QED
      BY <3>2, <3>3, <3>4, <3>5
  <2>6. CASE MethodPanics(t)
    BY <2>6 DEF MethodPanics
  <2>7. QED
    BY <1>1, <2>1, <2>2, <2>3, <2>4, <2>5, <2>6 DEF TaskStep
<1>2. ASSUME NEW t \in Tags, NEW m \in Messages, Receive(t, m)
      PROVE  ViewAgrees'
  BY <1>2 DEF Receive
<1>3. CASE UNCHANGED <<pc, msg, result, fids, view>>
  BY <1>3
<1>4. QED
  BY <1>1, <1>2, <1>3 DEF Next, Closed, EndReader, PeerGone, vars

LEMMA ClientInit == Init => ClientInv
<1> SUFFICES ASSUME Init
             PROVE  ClientInv
  OBVIOUS
<1>1. TypeOK
  BY TypeInit
<1>2. \A t \in Tags : pc[t] = "idle" /\ result[t] = "none"
  BY DEF Init
<1>3. StageResult /\ Exclusive /\ StaysValid /\ TookEffect
  BY <1>2 DEF StageResult, Exclusive, StaysValid, TookEffect, Took
<1>4. ViewAgrees
  BY DEF Init, ViewAgrees
<1>5. QED
  BY <1>1, <1>3, <1>4 DEF ClientInv

(* ClientInv is inductive for a disciplined client.                        *)
LEMMA ClientStep ==
  ASSUME Disciplined
  PROVE  ClientInv /\ [Next]_vars => ClientInv'
BY TypeStep, StageStep, ExclusiveStep, StaysValidStep, TookEffectStep, ViewStep
   DEF ClientInv

LEMMA ClientInvariant == ASSUME Disciplined PROVE Spec => []ClientInv
BY ClientInit, ClientStep, PTL DEF Spec

(* A client that waits for the replies it depends on knows the fid table:  *)
(* RWalk, RAttach and RClunk mean what they say.                           *)
THEOREM ViewIsRight == ASSUME Disciplined PROVE Spec => []ViewAgrees
<1>1. ClientInv => ViewAgrees
  BY DEF ClientInv
<1>2. QED
  BY <1>1, ClientInvariant, PTL

(* EBADF is only for a fid the client has no claim to.                     *)
THEOREM EBADFIsJust == ASSUME Disciplined PROVE Spec => NoUnjustEBADF
<1>1. ASSUME ClientInv, [Next]_vars
      PROVE  [\A t \in Tags : LookupFails(t) =>
                msg[t].typ \in Unsupported \/ ~(msg[t].uses \subseteq view)]_vars
  <2> SUFFICES ASSUME NEW t \in Tags, LookupFails(t), msg[t].typ \notin Unsupported
               PROVE  ~(msg[t].uses \subseteq view)
    OBVIOUS
  <2>1. PICK f \in msg[t].uses : f \notin fids
    BY DEF LookupFails, Valid
  <2>2. f \in Fids
    BY <1>1, <2>1, MessageType DEF ClientInv, TypeOK, Fields
  <2>3. \A u \in Tags : Took(u) => f \notin Changes(msg[u])
    BY <1>1, <2>1 DEF ClientInv, Exclusive, Touches, LookupFails, Took
  <2>4. QED
    BY <1>1, <2>1, <2>2, <2>3 DEF ClientInv, ViewAgrees
<1>2. QED
  BY <1>1, ClientInvariant, PTL DEF Spec, NoUnjustEBADF

-----------------------------------------------------------------------------
(* Failures, for every client.                                             *)

(* Only a request that succeeds changes the table.                         *)
THEOREM TableChanges == Spec => TableChangesOnSuccess
<1> DEFINE Inv == TypeOK /\ StageResult
           Good == \A f \in Fids : (f \in fids) # (f \in fids') =>
                     \E t \in Tags : f \in Changes(msg[t]) /\ result[t] \notin {"err", "panic"} /\ pc[t] # pc'[t]
<1>1. Init => Inv
  BY TypeInit DEF Init, StageResult
<1>2. Inv /\ [Next]_vars => Inv'
  BY TypeStep, StageStep
<1>3. ASSUME Inv, [Next]_vars
      PROVE  [Good]_vars
  <2>1. ASSUME NEW t \in Tags, TaskStep(t)
        PROVE  Good
    <3>1. CASE UNCHANGED fids
      BY <3>1
    <3>2. CASE /\ Apply(t)
               /\ \A f \in Fids \ Changes(msg[t]) : f \in fids' <=> f \in fids
      <4>1. result[t] \notin {"err", "panic"} /\ pc[t] # pc'[t]
        BY <1>3, <3>2 DEF Apply, StageResult, TypeOK, Fields
      <4>2. QED
        BY <3>2, <4>1
    <3>3. QED
      BY <1>3, <2>1, <3>1, <3>2, TableStep
  <2>2. CASE UNCHANGED fids
    BY <2>2
  <2>3. QED
    BY <1>3, <2>1, <2>2 DEF Next, Closed, EndReader, PeerGone, Receive, vars
<1>4. QED
  BY <1>1, <1>2, <1>3, PTL DEF Spec, TableChangesOnSuccess

-----------------------------------------------------------------------------
(* A connection implements FidService for a disciplined client.            *)
(* The steps of a task before the method returns, and those that only wait *)
(* for a lock, are invisible to the client.                                *)
LEMMA Invisible ==
  ASSUME TypeOK, NEW t \in Tags,
         WantRead(t) \/ Grant(t) \/ CallMethod(t) \/ WantWrite(t) \/ WantSend(t)
  PROVE  UNCHANGED Service!vars
<1>1. UNCHANGED <<reader, msg, result, fids, view>>
  BY DEF WantRead, Grant, CallMethod, WantWrite, WantSend
<1>2. \A u \in Tags : StageOf(u)' = StageOf(u) /\ AnswerOf(u)' = AnswerOf(u)
  BY <1>1 DEF WantRead, Grant, CallMethod, WantWrite, WantSend, StageOf, AnswerOf, TypeOK, Fields
<1>3. QED
  BY <1>1, <1>2 DEF Service!vars

LEMMA InitRefines == Init => Service!Init
BY DEF Init, Service!Init, StageOf, AnswerOf, NoMessage, Message,
       Service!NoMessage, Service!Message

LEMMA StepRefines == ClientInv /\ [Next]_vars => [Service!Next]_(Service!vars)
<1> SUFFICES ASSUME ClientInv, [Next]_vars
             PROVE  Service!Next \/ UNCHANGED Service!vars
  OBVIOUS
<1> USE DEF ClientInv, TypeOK, Fields
<1>1. ASSUME NEW t \in Tags, TaskStep(t)
      PROVE  Service!Next \/ UNCHANGED Service!vars
  <2>1. CASE WantRead(t) \/ Grant(t) \/ CallMethod(t) \/ WantWrite(t) \/ WantSend(t)
    BY <2>1, Invisible
  <2>2. CASE LookupFails(t)
    <3>1. Service!Fail(t)
      BY <2>2 DEF LookupFails, Service!Fail, StageOf, AnswerOf
    <3>2. QED
      BY <3>1 DEF Service!Next
  <2>3. ASSUME NEW outcome \in Outcomes, MethodReturns(t, outcome)
        PROVE  Service!Next \/ UNCHANGED Service!vars
    <3>1. CASE outcome = "err"
      <4>1. Service!Fail(t)
        BY <2>3, <3>1 DEF MethodReturns, Service!Fail, StageOf, AnswerOf
      <4>2. QED
        BY <4>1 DEF Service!Next
    <3>2. CASE outcome # "err" /\ Changes(msg[t]) # {}
      BY <2>3, <3>2 DEF MethodReturns, StageOf, AnswerOf, Service!vars
    <3>3. CASE outcome # "err" /\ Changes(msg[t]) = {}
      <4>1. outcome \in {"ok", "notR", "tooBig"}
        BY <2>3, <3>3, OutcomesAssumption DEF AllOutcomes, MethodReturns
      <4>2. Valid(msg[t], fids) /\ Effect(msg[t], fids) = fids
        BY <2>3, <3>3 DEF StaysValid, MethodReturns, Effect, Changes
      <4>3. Service!Succeed(t)
        BY <2>3, <3>3, <4>1, <4>2
           DEF MethodReturns, Service!Succeed, StageOf, AnswerOf, Valid, Effect, Drops,
               Service!Valid, Service!Effect, Service!Drops, Unsupported, Service!Unsupported
      <4>4. QED
        BY <4>3 DEF Service!Next
    <3>4. QED
      BY <3>1, <3>2, <3>3
  <2>4. CASE Apply(t)
    <3>1. result[t] \in {"ok", "notR", "tooBig"}
      BY <2>4 DEF Apply, StageResult, AllOutcomes
    <3>2. Valid(msg[t], fids)
      BY <2>4 DEF Apply, StaysValid
    <3>3. Service!Succeed(t)
      BY <2>4, <3>1, <3>2
         DEF Apply, Service!Succeed, StageOf, AnswerOf, Valid, Effect, Drops,
             Service!Valid, Service!Effect, Service!Drops, Unsupported, Service!Unsupported
    <3>4. QED
      BY <3>3 DEF Service!Next
  <2>5. CASE NoReply(t) \/ SendFails(t)
    <3>1. Service!Lose(t)
      BY <2>5 DEF NoReply, SendFails, Service!Lose, StageOf, AnswerOf
    <3>2. QED
      BY <3>1 DEF Service!Next
  <2>6. CASE Send(t)
    <3>1. result[t] \in {"ok", "err"}
      BY <2>6 DEF Send, Sendable, StageResult, AllOutcomes
    <3>2. Service!Answer(t)
      BY <2>6, <3>1
         DEF Send, Service!Answer, StageOf, AnswerOf, Effect, Drops, NoMessage, Message,
             Service!Effect, Service!Drops, Service!NoMessage, Service!Message
    <3>3. QED
      BY <3>2 DEF Service!Next
  <2>7. CASE MethodPanics(t)
    <3>1. Service!Lose(t)
      BY <2>7 DEF MethodPanics, Service!Lose, StageOf, AnswerOf
    <3>2. QED
      BY <3>1 DEF Service!Next
  <2>8. QED
    BY <1>1, <2>1, <2>2, <2>3, <2>4, <2>5, <2>6, <2>7 DEF TaskStep
<1>2. ASSUME NEW t \in Tags, NEW m \in Messages, Receive(t, m)
      PROVE  Service!Next
  <2>1. Service!Ask(t, m)
    BY <1>2 DEF Receive, Service!Ask, StageOf, AnswerOf
  <2>2. m \in Service!Messages
    BY DEF Messages, Message, OneFid, TwoFids, Walks, Attaches, NoFid, Unsupported,
           Service!Messages, Service!Message, Service!OneFid, Service!TwoFids,
           Service!Walks, Service!Attaches, Service!NoFid, Service!Unsupported
  <2>3. QED
    BY <2>1, <2>2 DEF Service!Next
<1>3. CASE EndReader
  <2>1. Service!Shut
    BY <1>3 DEF EndReader, Service!Shut, StageOf, AnswerOf
  <2>2. QED
    BY <2>1 DEF Service!Next
<1>4. CASE PeerGone
  BY <1>4 DEF PeerGone, Service!vars, StageOf, AnswerOf
<1>5. CASE UNCHANGED vars
  BY <1>5 DEF vars, Service!vars, StageOf, AnswerOf
<1>6. QED
  BY <1>1, <1>2, <1>3, <1>4, <1>5 DEF Next, Closed

(* A client that waits for the replies it depends on cannot tell the       *)
(* connection, with its tasks, its two locks and its separate write of the *)
(* table, from a service on which each request takes effect at once.       *)
THEOREM ConnectionIsLinearizable == ASSUME Disciplined PROVE Spec => Linearizable
BY InitRefines, StepRefines, ClientInvariant, PTL DEF Spec, Linearizable, Service!Spec

-----------------------------------------------------------------------------
(* A connection goes on until its work is done, for any client and any     *)
(* dependencies between methods: only methods that wait for other requests *)
(* can stop it.  The guards of srv.rs:668, 709 and 714 and the writer's    *)
(* mutex of srv.rs:776 are always handed on.                               *)
THEOREM NeverStandsStill == Spec => []NoStandstill
<1>1. TypeOK => NoStandstill
  <2> SUFFICES ASSUME Fields, Queued, NEW s \in Tags, pc[s] \notin {"idle", "silent"}
               PROVE  \E t \in Tags : Ready(t) \/ Awaiting(t)
    BY DEF NoStandstill, Finished, TypeOK
  <2>1. ASSUME NEW t \in Tags, pc[t] \in {"spawned", "reading", "calling", "unlocked", "writing", "replying"}
        PROVE  Ready(t) \/ Awaiting(t)
    BY <2>1 DEF Ready, Queued
  <2>2. CASE pc[s] = "sending"
    <3>1. s \in ToSet(sendQ) /\ sendQ \in Seq(Tags)
      BY <2>2 DEF Queued, Senders, Fields
    <3>2. sendQ # <<>>
      BY <3>1 DEF ToSet
    <3>3. Head(sendQ) \in Tags /\ Head(sendQ) \in ToSet(sendQ)
      BY <3>1, <3>2 DEF ToSet
    <3>4. PICK h \in Tags : h = Head(sendQ) /\ pc[h] = "sending"
      BY <3>3 DEF Queued, Senders
    <3>5. QED
      BY <3>2, <3>4 DEF Ready
  <2>3. CASE pc[s] \in {"readWait", "writeWait"}
    <3>1. s \in ToSet(lockQ) /\ lockQ \in Seq(Tags)
      BY <2>3 DEF Queued, Waiters, Fields
    <3>2. lockQ # <<>>
      BY <3>1 DEF ToSet
    <3>3. Head(lockQ) \in Tags /\ Head(lockQ) \in ToSet(lockQ)
      BY <3>1, <3>2 DEF ToSet
    <3>4. PICK h \in Tags : h = Head(lockQ) /\ pc[h] \in {"readWait", "writeWait"}
      BY <3>3 DEF Queued, Waiters
    <3>5. CASE \E u \in Tags : WriteLocked(u) \/ ReadLocked(u)
      BY <2>1, <3>5 DEF WriteLocked, ReadLocked
    <3>6. CASE \A u \in Tags : ~WriteLocked(u) /\ ~ReadLocked(u)
      BY <3>2, <3>4, <3>6 DEF Ready
    <3>7. QED
      BY <3>5, <3>6
  <2>4. QED
    BY <2>1, <2>2, <2>3 DEF TypeOK, Fields, Stages
<1>2. QED
  BY <1>1, Typing, PTL
====
