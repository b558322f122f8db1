---- MODULE UnpfsAttrProofs ----
(***************************************************************************)
(* Proofs about rsetattr, for any number of requests and any masks.        *)
(***************************************************************************)
EXTENDS UnpfsAttr, FiniteSetTheorems, TLAPS

Files == [Attributes -> Values]

\* The second half of TypeOK.
OpOK ==
  /\ op \in [Requests -> Op]
  /\ \A t \in Requests : ~op[t].ok => op[t].at = "done"
  /\ refused \subseteq {t \in Requests : op[t].at = "done" /\ op[t].ok}

LEMMA FileType ==
  ASSUME NEW f \in Files, NEW g \in Cleared(f)
  PROVE  g \in Files
BY DEF Files, Cleared, Attributes, Values

(* A step that goes on, and touches no request but its own.                *)
LEMMA OpStep ==
  ASSUME TypeOK, NEW t \in Requests, NEW o \in Op, o.ok \/ o.at = "done", op[t].at # "done",
         op' = [op EXCEPT ![t] = o], refused' = refused
  PROVE  OpOK'
BY DEF TypeOK, Op, OpOK

LEMMA GoesStep ==
  ASSUME TypeOK, NEW t \in Requests, op[t].at # "done", refused' = refused,
         NEW at \in {"mode", "owner", "size", "times", "set_times", "done"}, Goes(t, at)
  PROVE  OpOK'
<1>1. op[t] \in Op
  BY DEF TypeOK, Op
<1> DEFINE o == [op[t] EXCEPT !.at = at]
<1>2. o \in Op /\ o.ok
  BY <1>1 DEF Op, TypeOK
<1>3. op' = [op EXCEPT ![t] = o]
  BY DEF Goes
<1> HIDE DEF o
<1>4. QED
  BY <1>2, <1>3, OpStep

(* The state keeps its type (main.rs:164-224).                             *)
LEMMA TypeStep == TypeOK /\ [Next]_vars => TypeOK'
<1> SUFFICES ASSUME TypeOK, [Next]_vars
             PROVE  TypeOK'
  OBVIOUS
<1>0. attr \in Files /\ landed \subseteq {"write", "read"} /\ op \in [Requests -> Op] /\ OpOK
  BY DEF TypeOK, Files, OpOK
<1>1. ASSUME attr' \in Files, landed' \subseteq {"write", "read"}, OpOK'
      PROVE  TypeOK'
  BY <1>1 DEF TypeOK, Files, OpOK
<1>2. ASSUME NEW t \in Requests, Step(t)
      PROVE  TypeOK'
  <2>0. op[t] \in Op /\ (op[t].at # "done" => op[t].ok)
    BY <1>0 DEF TypeOK
  <2>1. ASSUME NEW valid \in Valids, rsetattr(t, valid)
        PROVE  TypeOK'
    <3> DEFINE o == [op[t] EXCEPT !.at = "mode", !.valid = valid]
    <3>1. o \in Op /\ o.ok
      BY <2>0, <2>1, AttrAssumption DEF Op, rsetattr
    <3>2. op' = [op EXCEPT ![t] = o] /\ op[t].at # "done"
      BY <2>1 DEF rsetattr
    <3> HIDE DEF o
    <3>3. QED
      BY <2>1, <3>1, <3>2, <1>0, <1>1, OpStep DEF rsetattr
  <2>2. CASE set_mode(t)
    <3>1. attr' \in Files
      BY <2>2, <1>0 DEF set_mode, Files, Values, Attributes
    <3>2. QED
      BY <2>2, <3>1, <1>0, <1>1, GoesStep DEF set_mode
  <2>3. CASE chown(t)
    <3>1. [attr EXCEPT !.uid = IF Has(t, {"UID"}) THEN t ELSE @,
                       !.gid = IF Has(t, {"GID"}) THEN t ELSE @] \in Files
      BY <1>0 DEF Files, Attributes, Values
    <3>2. attr' \in Files
      BY <2>3, <3>1, FileType DEF chown
    <3>3. QED
      BY <2>3, <3>2, <1>0, <1>1, GoesStep DEF chown
  <2>4. CASE set_len(t)
    <3>1. [attr EXCEPT !.size = t, !.mtime = "now"] \in Files
      BY <1>0 DEF Files, Attributes, Values
    <3>2. attr' \in Files
      BY <2>4, <3>1, FileType DEF set_len
    <3>3. QED
      BY <2>4, <3>2, <1>0, <1>1, GoesStep DEF set_len
  <2>5. CASE read_times(t)
    <3> DEFINE o == [op[t] EXCEPT
            !.at = "set_times",
            !.atime = IF Has(t, {"ATIME_SET"}) THEN t ELSE attr.atime,
            !.mtime = IF Has(t, {"MTIME_SET"}) THEN t ELSE attr.mtime]
    <3>1. attr.atime \in Values /\ attr.mtime \in Values /\ t \in Values
      BY <1>0 DEF Files, Attributes, Values
    <3>2. o \in Op /\ o.ok
      BY <2>0, <2>5, <3>1 DEF Op, read_times
    <3>3. op' = [op EXCEPT ![t] = o] /\ op[t].at # "done"
      BY <2>5 DEF read_times
    <3> HIDE DEF o
    <3>4. QED
      BY <2>5, <3>2, <3>3, <1>0, <1>1, OpStep DEF read_times
  <2>6. CASE set_times(t)
    <3>1. attr' \in Files
      BY <2>6, <1>0 DEF set_times, Files, Op, Attributes
    <3>2. OpOK'
      BY <2>6, <2>0, <1>0 DEF set_times, Goes, Op, OpOK, TypeOK
    <3>3. QED
      BY <2>6, <3>1, <3>2, <1>0, <1>1 DEF set_times
  <2>7. ASSUME op[t].at # "done", Fails(t), UNCHANGED <<attr, landed, refused>>
        PROVE  TypeOK'
    <3> DEFINE o == [op[t] EXCEPT !.at = "done", !.ok = FALSE]
    <3>1. o \in Op /\ o.at = "done"
      BY <2>0 DEF Op
    <3>2. op' = [op EXCEPT ![t] = o]
      BY <2>7 DEF Fails
    <3> HIDE DEF o
    <3>3. QED
      BY <2>7, <3>1, <3>2, <1>0, <1>1, OpStep
  <2>8. ASSUME op[t].at # "done", NEW next \in {"owner", "size", "times", "done"}, Goes(t, next),
               UNCHANGED <<attr, landed, refused>>
        PROVE  TypeOK'
    BY <2>8, <1>0, <1>1, GoesStep
  <2>9. QED
    BY <1>2, <2>1, <2>2, <2>3, <2>4, <2>5, <2>6, <2>7, <2>8 DEF Step, Passes, FailsAt
<1>3. CASE WriteLands
  <2>1. [attr EXCEPT !.size = "write", !.mtime = "now"] \in Files
    BY <1>0 DEF Files, Attributes, Values
  <2>2. attr' \in Files
    BY <1>3, <2>1, FileType DEF WriteLands
  <2>3. QED
    BY <1>3, <2>2, <1>0, <1>1 DEF WriteLands, OpOK
<1>4. CASE ReadLands
  <2>1. attr' \in Files
    BY <1>4, <1>0 DEF ReadLands, Files, Attributes, Values
  <2>2. QED
    BY <1>4, <2>1, <1>0, <1>1 DEF ReadLands, OpOK
<1>5. CASE UNCHANGED vars
  BY <1>5 DEF vars, TypeOK
<1>6. QED
  BY <1>2, <1>3, <1>4, <1>5 DEF Next

(* The state keeps its type, for any number of requests and any masks.     *)
THEOREM Typing == Spec => []TypeOK
<1>1. Init => TypeOK
  BY DEF Init, TypeOK, Op, Unasked, Values
<1>2. QED
  BY <1>1, TypeStep, PTL DEF Spec

-----------------------------------------------------------------------------
(* What a step does to the masks and to the file.                          *)

\* A request that was not sent asks for nothing.
NotSent == \A t \in Requests : op[t].at = "idle" => op[t].valid = {}

\* What the calls of t may change.
Reach(t) == Asked(t) \cup AlsoBy(op[t].valid)

LEMMA ReachGrows ==
  ASSUME NEW v, NEW w, v \subseteq w
  PROVE  AskedBy(v) \subseteq AskedBy(w) /\ AskedBy(v) \cup AlsoBy(v) \subseteq AskedBy(w) \cup AlsoBy(w)
BY DEF AskedBy, AlsoBy

(* A mask is set once, when the request comes in.                          *)
LEMMA MaskStep ==
  ASSUME TypeOK, NotSent, [Next]_vars
  PROVE  /\ NotSent' /\ landed \subseteq landed' /\ refused \subseteq refused'
         /\ \A t \in Requests : op[t].valid \subseteq op'[t].valid
         /\ \A t \in Requests : op[t].at # "idle" => op'[t].valid = op[t].valid
<1> USE DEF TypeOK, NotSent
<1>1. ASSUME NEW t \in Requests, Step(t)
      PROVE  /\ NotSent' /\ landed \subseteq landed' /\ refused \subseteq refused'
             /\ \A u \in Requests : op[u].valid \subseteq op'[u].valid
             /\ \A u \in Requests : op[u].at # "idle" => op'[u].valid = op[u].valid
  <2>1. CASE \E valid \in Valids : rsetattr(t, valid)
    BY <2>1 DEF rsetattr, Op
  <2>2. CASE set_mode(t) \/ chown(t) \/ set_len(t) \/ set_times(t)
    BY <2>2 DEF set_mode, chown, set_len, set_times, Goes, Op
  <2>3. CASE read_times(t)
    BY <2>3 DEF read_times, Op
  <2>4. ASSUME op[t].at # "idle", Fails(t), UNCHANGED <<attr, landed, refused>>
        PROVE  /\ NotSent' /\ landed \subseteq landed' /\ refused \subseteq refused'
               /\ \A u \in Requests : op[u].valid \subseteq op'[u].valid
               /\ \A u \in Requests : op[u].at # "idle" => op'[u].valid = op[u].valid
    BY <2>4 DEF Fails, Op
  <2>5. ASSUME op[t].at # "idle", NEW next \in {"owner", "size", "times", "done"}, Goes(t, next),
               UNCHANGED <<attr, landed, refused>>
        PROVE  /\ NotSent' /\ landed \subseteq landed' /\ refused \subseteq refused'
               /\ \A u \in Requests : op[u].valid \subseteq op'[u].valid
               /\ \A u \in Requests : op[u].at # "idle" => op'[u].valid = op[u].valid
    BY <2>5 DEF Goes, Op
  <2>6. QED
    BY <1>1, <2>1, <2>2, <2>3, <2>4, <2>5 DEF Step, Passes, FailsAt
<1>2. CASE WriteLands \/ ReadLands \/ UNCHANGED vars
  BY <1>2 DEF WriteLands, ReadLands, vars
<1>3. QED
  BY <1>1, <1>2 DEF Next

(* Who disturbs a request goes on to disturb it.                           *)
LEMMA DisturbanceLasts ==
  ASSUME TypeOK, NotSent, [Next]_vars, NEW t \in Requests, NEW a
  PROVE  Undisturbed(t, a)' => Undisturbed(t, a)
<1>1. \A u \in Requests : Reach(u) \subseteq Reach(u)'
  BY MaskStep, ReachGrows DEF Reach, Asked
<1>2. ByOthers(t) \subseteq ByOthers(t)'
  BY <1>1 DEF ByOthers, Reach, Asked
<1>3. ByData \subseteq ByData'
  BY MaskStep DEF ByData
<1>4. QED
  BY <1>2, <1>3 DEF Undisturbed

\* At its last call a request has the times it asked for.
TimesRead ==
  \A t \in Requests :
    op[t].at = "set_times" =>
      /\ Has(t, Times)
      /\ "ATIME_SET" \in op[t].valid => op[t].atime = t
      /\ "MTIME_SET" \in op[t].valid => op[t].mtime = t

LEMMA TimesReadStep ==
  ASSUME TypeOK, TimesRead, [Next]_vars
  PROVE  TimesRead'
<1> USE DEF TypeOK, TimesRead, Has
<1>1. ASSUME NEW t \in Requests, Step(t)
      PROVE  TimesRead'
  <2>1. CASE \E valid \in Valids : rsetattr(t, valid)
    BY <2>1 DEF rsetattr, Op
  <2>2. CASE set_mode(t) \/ chown(t) \/ set_len(t) \/ set_times(t)
    BY <2>2 DEF set_mode, chown, set_len, set_times, Goes, Op
  <2>3. CASE read_times(t)
    BY <2>3 DEF read_times, Op
  <2>4. CASE Fails(t)
    BY <2>4 DEF Fails, Op
  <2>5. ASSUME NEW next \in {"owner", "size", "times", "done"}, Goes(t, next)
        PROVE  TimesRead'
    BY <2>5 DEF Goes, Op
  <2>6. QED
    BY <1>1, <2>1, <2>2, <2>3, <2>4, <2>5 DEF Step, Passes, FailsAt
<1>2. CASE WriteLands \/ ReadLands \/ UNCHANGED vars
  BY <1>2 DEF WriteLands, ReadLands, vars
<1>3. QED
  BY <1>1, <1>2 DEF Next

(* The new attributes, one by one.                                         *)
LEMMA StepSets ==
  ASSUME TypeOK, NEW t \in Requests, Step(t), NEW a \in Attributes
  PROVE  \/ attr'[a] = attr[a]
         \/ set_mode(t) /\ a \in {"mode", "suid"} /\ "MODE" \in op[t].valid /\ attr'[a] = t
         \/ chown(t) /\ a = "uid" /\ "UID" \in op[t].valid /\ attr'[a] = t
         \/ chown(t) /\ a = "gid" /\ "GID" \in op[t].valid /\ attr'[a] = t
         \/ (chown(t) \/ set_len(t)) /\ a = "suid" /\ attr'[a] = "cleared"
            /\ op[t].valid \cap {"UID", "GID", "SIZE"} # {}
         \/ set_len(t) /\ a = "size" /\ "SIZE" \in op[t].valid /\ attr'[a] = t
         \/ set_len(t) /\ a = "mtime" /\ "SIZE" \in op[t].valid /\ attr'[a] = "now"
         \/ set_times(t) /\ a = "atime" /\ attr'[a] = op[t].atime
         \/ set_times(t) /\ a = "mtime" /\ attr'[a] = op[t].mtime
<1> USE DEF TypeOK
<1>1. CASE set_mode(t)
  BY <1>1 DEF set_mode, Has, Mode, Attributes
<1>2. CASE chown(t)
  <2> DEFINE f == [attr EXCEPT !.uid = IF Has(t, {"UID"}) THEN t ELSE @,
                               !.gid = IF Has(t, {"GID"}) THEN t ELSE @]
  <2>1. attr' = f \/ attr' = [f EXCEPT !.suid = "cleared"]
    BY <1>2 DEF chown, Cleared
  <2>2. a \notin {"uid", "gid"} => f[a] = attr[a]
    BY DEF Attributes
  <2>3. /\ f["uid"] = IF "UID" \in op[t].valid THEN t ELSE attr["uid"]
        /\ f["gid"] = IF "GID" \in op[t].valid THEN t ELSE attr["gid"]
        /\ f \in [Attributes -> Values]
    BY DEF Has, Attributes, Values
  <2>4. op[t].valid \cap {"UID", "GID", "SIZE"} # {}
    BY <1>2 DEF chown, Has, Owner
  <2> HIDE DEF f
  <2>5. QED
    BY <1>2, <2>1, <2>2, <2>3, <2>4 DEF Attributes
<1>3. CASE set_len(t)
  <2> DEFINE f == [attr EXCEPT !.size = t, !.mtime = "now"]
  <2>1. attr' = f \/ attr' = [f EXCEPT !.suid = "cleared"]
    BY <1>3 DEF set_len, Cleared
  <2>2. a \notin {"size", "mtime"} => f[a] = attr[a]
    BY DEF Attributes
  <2>3. f["size"] = t /\ f["mtime"] = "now" /\ f \in [Attributes -> Values]
    BY DEF Attributes, Values
  <2>4. "SIZE" \in op[t].valid
    BY <1>3 DEF set_len, Has, Len
  <2> HIDE DEF f
  <2>5. QED
    BY <1>3, <2>1, <2>2, <2>3, <2>4 DEF Attributes
<1>4. CASE set_times(t)
  BY <1>4 DEF set_times, Attributes
<1>5. CASE attr' = attr
  BY <1>5
<1>6. QED
  BY <1>1, <1>2, <1>3, <1>4, <1>5 DEF Step, rsetattr, read_times, Passes, FailsAt

LEMMA AskedIsSet ==
  ASSUME TypeOK, NEW t \in Requests
  PROVE  /\ chown(t) /\ "UID" \in op[t].valid => attr'["uid"] = t
         /\ chown(t) /\ "GID" \in op[t].valid => attr'["gid"] = t
         /\ set_len(t) => attr'["size"] = t
<1> USE DEF TypeOK
<1>1. CASE chown(t)
  <2> DEFINE f == [attr EXCEPT !.uid = IF Has(t, {"UID"}) THEN t ELSE @,
                               !.gid = IF Has(t, {"GID"}) THEN t ELSE @]
  <2>1. attr' = f \/ attr' = [f EXCEPT !.suid = "cleared"]
    BY <1>1 DEF chown, Cleared
  <2>2. /\ f["uid"] = IF "UID" \in op[t].valid THEN t ELSE attr["uid"]
        /\ f["gid"] = IF "GID" \in op[t].valid THEN t ELSE attr["gid"]
        /\ f \in [Attributes -> Values]
    BY DEF Has, Attributes, Values
  <2> HIDE DEF f
  <2>3. QED
    BY <1>1, <2>1, <2>2 DEF Attributes, set_len, chown
<1>2. CASE set_len(t)
  <2> DEFINE f == [attr EXCEPT !.size = t, !.mtime = "now"]
  <2>1. attr' = f \/ attr' = [f EXCEPT !.suid = "cleared"]
    BY <1>2 DEF set_len, Cleared
  <2>2. f["size"] = t /\ f \in [Attributes -> Values]
    BY DEF Attributes, Values
  <2> HIDE DEF f
  <2>3. QED
    BY <1>2, <2>1, <2>2 DEF Attributes, set_len, chown
<1>3. QED
  BY <1>1, <1>2

LEMMA DataSets ==
  ASSUME TypeOK, WriteLands \/ ReadLands, NEW a \in Attributes
  PROVE  \/ attr'[a] = attr[a]
         \/ a \in ByData' /\ attr'[a] \in {"write", "now", "cleared"}
<1> USE DEF TypeOK
<1>1. CASE WriteLands
  <2> DEFINE f == [attr EXCEPT !.size = "write", !.mtime = "now"]
  <2>1. attr' = f \/ attr' = [f EXCEPT !.suid = "cleared"]
    BY <1>1 DEF WriteLands, Cleared
  <2>2. a \notin {"size", "mtime"} => f[a] = attr[a]
    BY DEF Attributes
  <2>3. f["size"] = "write" /\ f["mtime"] = "now" /\ f \in [Attributes -> Values]
    BY DEF Attributes, Values
  <2>4. "write" \in landed'
    BY <1>1 DEF WriteLands
  <2> HIDE DEF f
  <2>5. QED
    BY <2>1, <2>2, <2>3, <2>4 DEF Attributes, ByData
<1>2. CASE ReadLands
  BY <1>2 DEF ReadLands, Attributes, ByData
<1>3. QED
  BY <1>1, <1>2

(* A request stays within its reach.                                       *)
LEMMA StepReaches ==
  ASSUME TypeOK, TimesRead, NEW t \in Requests, Step(t), NEW a \in Attributes \ Reach(t)
  PROVE  attr'[a] = attr[a]
<1>1. set_times(t) => op[t].valid \cap Times # {}
  BY DEF set_times, TimesRead, Has
<1>2. QED
  BY <1>1, StepSets DEF Reach, Asked, AskedBy, AlsoBy

-----------------------------------------------------------------------------
(* Whose values the attributes have.                                       *)

\* A time that bears the name of t, in the file or read by another request,
\* is there because t asked for it and has succeeded.
TimeOf(t, value, bit) ==
  value = t => op[t].at = "done" /\ op[t].ok /\ t \notin refused /\ bit \in op[t].valid
TimesOwned ==
  \A t \in Requests :
    /\ op[t].atime = t => "ATIME_SET" \in op[t].valid
    /\ op[t].mtime = t => "MTIME_SET" \in op[t].valid
    /\ TimeOf(t, attr.atime, "ATIME_SET") /\ TimeOf(t, attr.mtime, "MTIME_SET")
    /\ \A u \in Requests \ {t} : TimeOf(t, op[u].atime, "ATIME_SET") /\ TimeOf(t, op[u].mtime, "MTIME_SET")

\* What bears the name of t was asked for by t.
Owned == \A a \in Attributes : \A t \in Requests : attr[a] = t => a \in Asked(t)

\* What is not the host's is in somebody's reach.
Reached == \A a \in Attributes : attr[a] # "host" => a \in ByData \cup UNION {Reach(t) : t \in Requests}

Base == TypeOK /\ NotSent /\ TimesRead /\ TimesOwned /\ Owned /\ Reached

(* A request that has succeeded stays so.                                  *)
LEMMA DoneStays ==
  ASSUME TypeOK, [Next]_vars, NEW t \in Requests, op[t].at = "done"
  PROVE  op'[t] = op[t] /\ (t \notin refused => t \notin refused')
<1> USE DEF TypeOK
<1>1. ASSUME NEW u \in Requests, Step(u)
      PROVE  op'[t] = op[t] /\ (t \notin refused => t \notin refused')
  BY <1>1 DEF Step, rsetattr, set_mode, chown, set_len, read_times, set_times, Passes, FailsAt, Fails, Goes
<1>2. CASE WriteLands \/ ReadLands \/ UNCHANGED vars
  BY <1>2 DEF WriteLands, ReadLands, vars
<1>3. QED
  BY <1>1, <1>2 DEF Next

(* The times in the file and those read are somebody's, one after another. *)
LEMMA TimesOwnedStep ==
  ASSUME Base, [Next]_vars
  PROVE  TimesOwned'
<1> USE DEF Base, TypeOK
<1> SUFFICES ASSUME NEW t \in Requests
             PROVE  /\ op'[t].atime = t => "ATIME_SET" \in op'[t].valid
                    /\ op'[t].mtime = t => "MTIME_SET" \in op'[t].valid
                    /\ TimeOf(t, attr.atime, "ATIME_SET")' /\ TimeOf(t, attr.mtime, "MTIME_SET")'
                    /\ \A u \in Requests \ {t} :
                         TimeOf(t, op[u].atime, "ATIME_SET")' /\ TimeOf(t, op[u].mtime, "MTIME_SET")'
  BY DEF TimesOwned
<1> DEFINE Good(bit) == op[t].at = "done" /\ op[t].ok /\ t \notin refused /\ bit \in op[t].valid
<1>1. ASSUME NEW bit, Good(bit)
      PROVE  Good(bit)'
  BY <1>1, DoneStays
<1>2. /\ attr.atime = t => Good("ATIME_SET")
      /\ attr.mtime = t => Good("MTIME_SET")
      /\ \A u \in Requests \ {t} :
           /\ op[u].atime = t => Good("ATIME_SET")
           /\ op[u].mtime = t => Good("MTIME_SET")
  BY DEF TimesOwned, TimeOf
<1>3. t \notin {"host", "now", "cleared", "write"}
  BY AttrAssumption
<1>4. ASSUME NEW u \in Requests, op'[u] # op[u]
      PROVE  \/ op'[u].atime = op[u].atime /\ op'[u].mtime = op[u].mtime
             \/ /\ op[u].at = "times" /\ op'[u].valid = op[u].valid
                /\ op'[u].atime = IF Has(u, {"ATIME_SET"}) THEN u ELSE attr.atime
                /\ op'[u].mtime = IF Has(u, {"MTIME_SET"}) THEN u ELSE attr.mtime
  <2>1. ~(WriteLands \/ ReadLands \/ UNCHANGED vars)
    BY <1>4 DEF WriteLands, ReadLands, vars
  <2>2. PICK v \in Requests : Step(v)
    BY <2>1 DEF Next
  <2>3. CASE read_times(v)
    BY <1>4, <2>3 DEF read_times, Op
  <2>4. CASE \E valid \in Valids : rsetattr(v, valid)
    BY <1>4, <2>4 DEF rsetattr, Op
  <2>5. CASE Fails(v)
    BY <1>4, <2>5 DEF Fails, Op
  <2>6. ASSUME NEW next \in {"owner", "size", "times", "done"}, Goes(v, next)
        PROVE  op'[u].atime = op[u].atime /\ op'[u].mtime = op[u].mtime
    BY <1>4, <2>6 DEF Goes, Op
  <2>7. QED
    BY <2>2, <2>3, <2>4, <2>5, <2>6 DEF Step, set_mode, chown, set_len, set_times, Passes, FailsAt
<1>5. /\ op'[t].atime = t => "ATIME_SET" \in op'[t].valid
      /\ op'[t].mtime = t => "MTIME_SET" \in op'[t].valid
  BY <1>2, <1>4, MaskStep DEF TimesOwned, Has
<1>6. ASSUME NEW u \in Requests \ {t}
      PROVE  /\ op'[u].atime = t => Good("ATIME_SET")'
             /\ op'[u].mtime = t => Good("MTIME_SET")'
  <2> HIDE DEF Good
  <2>1. QED
    BY <1>1, <1>2, <1>4
<1>7. /\ attr'.atime = t => Good("ATIME_SET")'
      /\ attr'.mtime = t => Good("MTIME_SET")'
  <2>1. CASE attr' = attr
    <3> HIDE DEF Good
    <3>1. QED
      BY <1>1, <1>2, <2>1
  <2>2. CASE WriteLands \/ ReadLands
    <3>1. \A a \in Attributes : attr'[a] = t => attr'[a] = attr[a]
      BY <1>3, <2>2, DataSets
    <3> HIDE DEF Good
    <3>2. QED
      BY <1>1, <1>2, <3>1 DEF Attributes
  <2>3. ASSUME NEW u \in Requests, Step(u), attr' # attr
        PROVE  /\ attr'.atime = t => Good("ATIME_SET")'
               /\ attr'.mtime = t => Good("MTIME_SET")'
    <3>1. CASE set_times(u) /\ u = t
      <4>1. attr'.atime = op[t].atime /\ attr'.mtime = op[t].mtime
        BY <2>3, <3>1 DEF set_times, Attributes
      <4>2. op'[t].at = "done" /\ op'[t].ok /\ op'[t].valid = op[t].valid /\ t \notin refused'
        BY <2>3, <3>1 DEF set_times, Goes, Op
      <4>3. QED
        BY <4>1, <4>2 DEF TimesOwned
    <3>2. CASE set_times(u) /\ u # t
      <4>1. attr'.atime = op[u].atime /\ attr'.mtime = op[u].mtime
        BY <2>3, <3>2 DEF set_times, Attributes
      <4> HIDE DEF Good
      <4>2. QED
        BY <1>1, <1>2, <3>2, <4>1
    <3>3. CASE ~set_times(u)
      <4>1. attr'["atime"] = attr["atime"] /\ attr'["mtime"] \in {attr["mtime"], "now"}
        BY <2>3, <3>3, StepSets DEF Attributes
      <4> HIDE DEF Good
      <4>2. QED
        BY <1>1, <1>2, <1>3, <4>1
    <3>4. QED
      BY <3>1, <3>2, <3>3
  <2>4. QED
    BY <2>1, <2>2, <2>3 DEF Next, vars
<1>8. QED
  BY <1>5, <1>6, <1>7 DEF TimeOf

(* Nobody gives an attribute the name of another, but for a time.          *)
LEMMA OwnedStep ==
  ASSUME Base, [Next]_vars
  PROVE  Owned'
<1> SUFFICES ASSUME NEW a \in Attributes, NEW t \in Requests, attr'[a] = t
             PROVE  a \in Asked(t)'
  BY DEF Owned
<1> USE DEF Base
<1>1. Asked(t) \subseteq Asked(t)'
  BY MaskStep, ReachGrows DEF Asked
<1>2. CASE attr'[a] = attr[a]
  BY <1>1, <1>2 DEF Owned
<1>3. CASE WriteLands \/ ReadLands
  BY <1>2, <1>3, DataSets, AttrAssumption
<1>4. ASSUME NEW u \in Requests, Step(u), attr'[a] # attr[a]
      PROVE  a \in Asked(t)'
  <2>1. CASE a \in {"atime", "mtime"}
    <3>1. a \in Asked(t)' \/ attr'[a] # t
      BY <2>1, TimesOwnedStep DEF TimesOwned, TimeOf, Asked, AskedBy
    <3>2. QED
      BY <3>1
  <2>2. CASE a \notin {"atime", "mtime"}
    <3>1. u = t /\ a \in Asked(t)
      BY <1>4, <2>2, StepSets, AttrAssumption DEF Asked, AskedBy
    <3>2. QED
      BY <1>1, <3>1
  <2>3. QED
    BY <2>1, <2>2
<1>5. QED
  BY <1>2, <1>3, <1>4 DEF Next, vars

LEMMA ReachedStep ==
  ASSUME Base, [Next]_vars
  PROVE  Reached'
<1> SUFFICES ASSUME NEW a \in Attributes, attr'[a] # "host"
             PROVE  a \in ByData' \/ \E t \in Requests : a \in Reach(t)'
  BY DEF Reached
<1> USE DEF Base
<1>1. \A t \in Requests : Reach(t) \subseteq Reach(t)'
  BY MaskStep, ReachGrows DEF Reach, Asked
<1>2. ByData \subseteq ByData'
  BY MaskStep DEF ByData
<1>3. CASE attr'[a] = attr[a]
  BY <1>1, <1>2, <1>3 DEF Reached
<1>4. CASE WriteLands \/ ReadLands
  BY <1>3, <1>4, DataSets
<1>5. ASSUME NEW t \in Requests, Step(t)
      PROVE  a \in ByData' \/ \E u \in Requests : a \in Reach(u)'
  BY <1>1, <1>3, <1>5, StepReaches
<1>6. QED
  BY <1>3, <1>4, <1>5 DEF Next, vars

LEMMA BaseInvariant == Spec => []Base
<1>1. Init => Base
  <2> SUFFICES ASSUME Init
               PROVE  Base
    OBVIOUS
  <2>1. TypeOK
    BY DEF Init, TypeOK, Op, Unasked, Values
  <2>2. NotSent /\ TimesRead /\ Reached
    BY DEF Init, NotSent, TimesRead, Reached, Unasked
  <2>3. TimesOwned /\ Owned
    BY AttrAssumption DEF Init, TimesOwned, TimeOf, Owned, Unasked, Attributes
  <2>4. QED
    BY <2>1, <2>2, <2>3 DEF Base
<1>2. Base /\ [Next]_vars => Base'
  BY TypeStep, MaskStep, TimesReadStep, TimesOwnedStep, OwnedStep, ReachedStep DEF Base
<1>3. QED
  BY <1>1, <1>2, PTL DEF Spec

(* Nothing is changed that no mask brings a value for, but by the data and *)
(* by the calls the values need (main.rs:179-189, 203-215); ATIME, MTIME   *)
(* and CTIME alone change nothing.                                         *)
THEOREM NothingElseChanges == Spec => []OnlyAsked
<1>1. Base => OnlyAsked
  BY DEF Base, Owned, Reached, Reach, OnlyAsked
<1>2. QED
  BY <1>1, BaseInvariant, PTL

-----------------------------------------------------------------------------
(* What a request has done is there to see.                                *)

\* The set-user-ID bit is the one attribute a request may spoil itself.
Keeps(t, a) == a = "suid" => op[t].valid \cap {"UID", "GID", "SIZE"} = {}

\* Request t is past the call that sets a.
Past(t, a) ==
  \/ op[t].at = "done" /\ op[t].ok /\ (a \in {"atime", "mtime"} => t \notin refused)
  \/ a \in {"mode", "suid"} /\ op[t].at \in {"owner", "size", "times", "set_times"}
  \/ a \in {"uid", "gid"} /\ op[t].at \in {"size", "times", "set_times"}
  \/ a = "size" /\ op[t].at \in {"times", "set_times"}

Shown ==
  \A t \in Requests : \A a \in Asked(t) : Past(t, a) /\ Undisturbed(t, a) /\ Keeps(t, a) => attr[a] = t

LEMMA AskedBits ==
  ASSUME NEW t \in Requests, NEW a \in Asked(t)
  PROVE  /\ a \in Attributes
         /\ a \in {"mode", "suid"} => "MODE" \in op[t].valid
         /\ a = "uid" => "UID" \in op[t].valid
         /\ a = "gid" => "GID" \in op[t].valid
         /\ a = "size" => "SIZE" \in op[t].valid
         /\ a = "atime" => "ATIME_SET" \in op[t].valid
         /\ a = "mtime" => "MTIME_SET" \in op[t].valid
BY DEF Asked, AskedBy, Attributes

(* Nobody else's step changes what is undisturbed.                         *)
LEMMA OthersKeep ==
  ASSUME Base, [Next]_vars, NEW t \in Requests, NEW a \in Attributes, Undisturbed(t, a)',
         ~Step(t)
  PROVE  attr'[a] = attr[a]
<1> USE DEF Base
<1>1. CASE WriteLands \/ ReadLands
  BY <1>1, DataSets DEF Undisturbed
<1>2. ASSUME NEW u \in Requests, Step(u)
      PROVE  attr'[a] = attr[a]
  <2>1. u # t /\ a \notin Reach(u)
    BY <1>2, DisturbanceLasts DEF Undisturbed, ByOthers, Reach
  <2>2. QED
    BY <1>2, <2>1, StepReaches
<1>3. QED
  BY <1>1, <1>2 DEF Next, vars

(* The step of a request past the call for a makes it show.                *)
LEMMA OwnStepShows ==
  ASSUME Base, Shown, [Next]_vars, NEW t \in Requests, Step(t), NEW a \in Asked(t)', Past(t, a)',
         Undisturbed(t, a)', Keeps(t, a)'
  PROVE  attr'[a] = t
<1> USE DEF Base, TypeOK
<1>1. CASE \E valid \in Valids : rsetattr(t, valid)
  BY <1>1 DEF rsetattr, Past, Op
<1>2. CASE Fails(t)
  BY <1>2 DEF Fails, Past, Op
<1>3. op[t].at # "idle" => a \in Asked(t) /\ Keeps(t, a) /\ Undisturbed(t, a) /\ op'[t].valid = op[t].valid
  BY MaskStep, DisturbanceLasts DEF Asked, Keeps
<1>4. ASSUME op[t].at # "idle", Past(t, a), attr'[a] = attr[a]
      PROVE  attr'[a] = t
  BY <1>3, <1>4 DEF Shown
<1>5. ASSUME op[t].at # "idle"
      PROVE  /\ a \in Attributes
             /\ a \in {"mode", "suid"} => "MODE" \in op[t].valid
             /\ a = "uid" => "UID" \in op[t].valid
             /\ a = "gid" => "GID" \in op[t].valid
             /\ a = "size" => "SIZE" \in op[t].valid
             /\ a = "atime" => "ATIME_SET" \in op[t].valid
             /\ a = "mtime" => "MTIME_SET" \in op[t].valid
  BY <1>3, <1>5, AskedBits
<1>6. ASSUME NEW next, Goes(t, next)
      PROVE  op'[t].at = next /\ op'[t].ok = op[t].ok
  BY <1>6 DEF Goes, Op
<1> HIDE DEF Base, TypeOK
<1>0. TypeOK /\ TimesRead /\ attr \in [Attributes -> Values] /\ (op[t].at # "done" => op[t].ok)
  BY DEF Base, TypeOK
<1>7. CASE set_mode(t)
  <2>1. a \in {"mode", "suid"}
    BY <1>6, <1>7 DEF set_mode, Past
  <2>2. QED
    BY <1>0, <1>7, <2>1 DEF set_mode, Attributes
<1>8. CASE chown(t)
  <2>1. op[t].at = "owner" /\ op'[t].at = "size"
    BY <1>6, <1>8 DEF chown
  <2>2. CASE a \in {"uid", "gid"}
    BY <1>0, <1>5, <1>8, <2>1, <2>2, AskedIsSet
  <2>3. CASE a \notin {"uid", "gid"}
    <3>1. a \in {"mode", "suid"} /\ Past(t, a)
      BY <2>1, <2>3 DEF Past
    <3>2. attr'[a] = attr[a]
      BY <1>0, <1>3, <1>8, <2>1, <3>1, StepSets DEF Keeps, Attributes, set_mode, set_len, set_times
    <3>3. QED
      BY <1>4, <2>1, <3>1, <3>2
  <2>4. QED
    BY <2>2, <2>3
<1>9. CASE set_len(t)
  <2>1. op[t].at = "size" /\ op'[t].at = "times"
    BY <1>6, <1>9 DEF set_len
  <2>2. CASE a = "size"
    BY <1>0, <1>9, <2>2, AskedIsSet
  <2>3. CASE a # "size"
    <3>1. a \in {"mode", "suid", "uid", "gid"} /\ Past(t, a)
      BY <2>1, <2>3 DEF Past
    <3>2. attr'[a] = attr[a]
      BY <1>0, <1>3, <1>9, <2>1, <3>1, StepSets, ZenonT(60) DEF Keeps, Attributes, set_mode, chown, set_times
    <3>3. QED
      BY <1>4, <2>1, <3>1, <3>2
  <2>4. QED
    BY <2>2, <2>3
<1>10. CASE read_times(t)
  <2>1. Past(t, a) /\ attr'[a] = attr[a]
    BY <1>0, <1>10 DEF read_times, Past, Op, TypeOK
  <2>2. QED
    BY <1>4, <1>10, <2>1 DEF read_times
<1>11. CASE set_times(t)
  <2>1. op[t].at = "set_times" /\ op'[t].at = "done"
    BY <1>6, <1>11 DEF set_times
  <2>2. CASE a \in {"atime", "mtime"}
    <3>1. t \notin refused'
      BY <2>1, <2>2 DEF Past
    <3>2. attr'["atime"] = op[t].atime /\ attr'["mtime"] = op[t].mtime
      BY <1>0, <1>11, <3>1 DEF set_times, Attributes
    <3>3. QED
      BY <1>0, <1>5, <2>1, <2>2, <3>2 DEF TimesRead
  <2>3. CASE a \notin {"atime", "mtime"}
    <3>1. Past(t, a)
      BY <1>5, <2>1, <2>3 DEF Past, Attributes
    <3>2. attr'[a] = attr[a]
      BY <1>0, <1>5, <1>11, <2>1, <2>3 DEF set_times
    <3>3. QED
      BY <1>4, <2>1, <3>1, <3>2
  <2>4. QED
    BY <2>2, <2>3
<1>12. ASSUME NEW at, NEW bits, NEW next, Passes(t, at, bits, next), at # "idle",
              \/ at = "mode" /\ bits = Mode /\ next = "owner"
              \/ at = "owner" /\ bits = Owner /\ next = "size"
              \/ at = "size" /\ bits = Len /\ next = "times"
              \/ at = "times" /\ bits = Times /\ next = "done"
       PROVE  attr'[a] = t
  <2>1. op[t].at = at /\ op'[t].at = next /\ attr'[a] = attr[a] /\ refused' = refused
    BY <1>6, <1>12 DEF Passes
  <2>2. op[t].valid \cap bits = {}
    BY <1>12 DEF Passes, Has
  <2>3. Past(t, a)
    <3>1. op[t].ok /\ op'[t].ok
      BY <1>0, <1>6, <1>12, <2>1 DEF Passes
    <3>2. CASE at = "mode"
      BY <1>5, <1>12, <2>1, <2>2, <3>2 DEF Past, Mode
    <3>3. CASE at = "owner"
      BY <1>5, <1>12, <2>1, <2>2, <3>3 DEF Past, Owner
    <3>4. CASE at = "size"
      BY <1>5, <1>12, <2>1, <2>2, <3>4 DEF Past, Len
    <3>5. CASE at = "times"
      BY <1>5, <1>12, <2>1, <2>2, <3>5 DEF Past, Times, Attributes
    <3>6. QED
      BY <1>12, <3>2, <3>3, <3>4, <3>5
  <2>4. QED
    BY <1>4, <1>12, <2>1, <2>3
<1>13. CASE \/ Passes(t, "mode", Mode, "owner") \/ Passes(t, "owner", Owner, "size")
            \/ Passes(t, "size", Len, "times") \/ Passes(t, "times", Times, "done")
  BY <1>12, <1>13
<1>14. QED
  BY <1>1, <1>2, <1>7, <1>8, <1>9, <1>10, <1>11, <1>13 DEF Step, FailsAt

LEMMA ShownStep ==
  ASSUME Base, Shown, [Next]_vars
  PROVE  Shown'
<1> SUFFICES ASSUME NEW t \in Requests, NEW a \in Asked(t)', Past(t, a)', Undisturbed(t, a)', Keeps(t, a)'
             PROVE  attr'[a] = t
  BY DEF Shown
<1>1. CASE Step(t)
  BY <1>1, OwnStepShows
<1>2. CASE ~Step(t)
  <2>1. op'[t] = op[t] /\ (t \in refused => t \in refused')
    <3>1. ASSUME NEW u \in Requests \ {t}, Step(u)
          PROVE  op'[t] = op[t] /\ (t \in refused => t \in refused')
      BY <3>1 DEF Base, TypeOK, Step, rsetattr, set_mode, chown, set_len, read_times, set_times, Passes, FailsAt,
                  Fails, Goes
    <3>2. CASE WriteLands \/ ReadLands \/ UNCHANGED vars
      BY <3>2 DEF WriteLands, ReadLands, vars
    <3>3. QED
      BY <1>2, <3>1, <3>2 DEF Next
  <2>2. a \in Asked(t) /\ Past(t, a) /\ Keeps(t, a)
    BY <2>1 DEF Asked, Past, Keeps
  <2>3. Undisturbed(t, a)
    BY DisturbanceLasts DEF Base
  <2>4. attr'[a] = attr[a]
    BY <1>2, <2>2, AskedBits, OthersKeep
  <2>5. QED
    BY <2>2, <2>3, <2>4 DEF Shown
<1>3. QED
  BY <1>1, <1>2

LEMMA ShownInvariant == Spec => [](Base /\ Shown)
<1>1. Init => Shown
  BY DEF Init, Shown, Past, Unasked
<1>2. QED
  BY <1>1, BaseInvariant, ShownStep, PTL DEF Spec

(* After RSetAttr what the mask brings a value for is there                *)
(* (main.rs:175-221), as long as nobody else changes it, set_file_times is *)
(* not refused, and the request does not itself take the set-user-ID bit   *)
(* away again.                                                             *)
THEOREM SuccessShows == Spec => []AskedShows
<1>1. Shown => AskedShows
  BY DEF Shown, Past, Keeps, AskedShows
<1>2. QED
  BY <1>1, ShownInvariant, PTL

-----------------------------------------------------------------------------
(* The order of the changes.                                               *)

(* When the value of t comes to be in b, t is past what comes before b.    *)
LEMMA SetIsPast ==
  ASSUME Base, [Next]_vars, NEW t \in Requests, NEW a \in Attributes, NEW b \in Attributes,
         attr'[b] = t, attr[b] # t, Rank[a] < Rank[b]
  PROVE  Past(t, a)'
<1>1. t \notin {"host", "now", "cleared", "write"}
  BY AttrAssumption
<1>2. PICK u \in Requests : Step(u)
  <2>1. ~(WriteLands \/ ReadLands)
    BY <1>1, DataSets DEF Base
  <2>2. QED
    BY <2>1 DEF Next, vars
<1>3. CASE b \in {"atime", "mtime"}
  <2>1. op'[t].at = "done" /\ op'[t].ok /\ t \notin refused'
    BY <1>3, TimesOwnedStep DEF TimesOwned, TimeOf
  <2>2. QED
    BY <2>1 DEF Past
<1>4. CASE b \notin {"atime", "mtime"}
  <2>1. u = t
    BY <1>1, <1>2, <1>4, StepSets DEF Base
  <2>2. ASSUME NEW next, Goes(t, next)
        PROVE  op'[t].at = next
    BY <2>2 DEF Goes, Base, TypeOK, Op
  <2>3. \/ set_mode(t) /\ b \in {"mode", "suid"}
        \/ chown(t) /\ b \in {"uid", "gid"}
        \/ set_len(t) /\ b = "size"
    BY <1>1, <1>2, <1>4, <2>1, StepSets DEF Base
  <2>4. CASE set_mode(t) /\ b \in {"mode", "suid"}
    BY <2>4 DEF Rank, Attributes
  <2>5. CASE chown(t) /\ b \in {"uid", "gid"}
    <3>1. a \in {"mode", "suid"}
      BY <2>5 DEF Rank, Attributes
    <3>2. QED
      BY <2>2, <2>5, <3>1 DEF chown, Past
  <2>6. CASE set_len(t) /\ b = "size"
    <3>1. a \in {"mode", "suid", "uid", "gid"}
      BY <2>6 DEF Rank, Attributes
    <3>2. QED
      BY <2>2, <2>6, <3>1 DEF set_len, Past
  <2>7. QED
    BY <2>3, <2>4, <2>5, <2>6
<1>5. QED
  BY <1>3, <1>4

LEMMA InOrderStep ==
  ASSUME Base, Shown, InOrder, [Next]_vars
  PROVE  InOrder'
<1> SUFFICES ASSUME NEW t \in Requests, NEW a \in Asked(t)', NEW b \in Asked(t)',
                    attr'[b] = t, Rank[a] < Rank[b], Undisturbed(t, a)', Keeps(t, a)'
             PROVE  attr'[a] = t
  BY DEF InOrder, Keeps
<1>0. a \in Attributes /\ b \in Attributes
  BY DEF Asked, AskedBy, Attributes
<1>1. CASE attr[b] # t
  <2>1. Past(t, a)'
    BY <1>0, <1>1, SetIsPast
  <2>2. QED
    BY <2>1, ShownStep DEF Shown
<1>2. CASE attr[b] = t
  <2>1. b \in Asked(t)
    BY <1>0, <1>2 DEF Base, Owned
  <2>2. op[t].at # "idle"
    BY <2>1 DEF Base, NotSent, Asked, AskedBy
  <2>3. op'[t].valid = op[t].valid
    BY <2>2, MaskStep DEF Base
  <2>4. a \in Asked(t) /\ Keeps(t, a) /\ Undisturbed(t, a)
    BY <2>3, DisturbanceLasts DEF Asked, Keeps, Base
  <2>5. attr[a] = t
    BY <1>2, <2>1, <2>4 DEF InOrder, Keeps
  <2>6. CASE ~Step(t)
    BY <1>0, <2>5, <2>6, OthersKeep
  <2>7. CASE Step(t)
    <3>1. a \notin {"atime", "mtime"}
      BY <1>0 DEF Rank, Attributes
    <3>2. attr'[a] \in {attr[a], t}
      BY <1>0, <2>4, <2>7, <3>1, StepSets DEF Base, Keeps
    <3>3. QED
      BY <2>5, <3>2
  <2>8. QED
    BY <2>6, <2>7
<1>3. QED
  BY <1>1, <1>2

(* An error ends the calls of rsetattr where they are (the `?` of          *)
(* main.rs:176-204): at any time a request has done the first few of what  *)
(* it was asked for, in order, and none after.                             *)
THEOREM ChangesAreInOrder == Spec => []InOrder
<1>1. Init => InOrder
  BY AttrAssumption DEF Init, InOrder, Asked, AskedBy, Unasked
<1>2. QED
  BY <1>1, ShownInvariant, InOrderStep, PTL DEF Spec

-----------------------------------------------------------------------------
(* A change of a time is undone only by a request for the other time, which*)
(* gives back what its fs::metadata read (main.rs:204-219).                *)
THEOREM TimesComeBackFromRequests == Spec => TimeComesBack
<1>1. ASSUME Base, [Next]_vars, NEW a \in {"atime", "mtime"}, attr[a] # "host", attr'[a] = "host"
      PROVE  \E t \in Requests : Cardinality(op[t].valid \cap Times) = 1 /\ a \notin Asked(t)
                            /\ op[t].at = "set_times" /\ op'[t].at = "done"
  <2>1. PICK t \in Requests : Step(t)
    BY <1>1, DataSets DEF Next, vars, Base, Attributes
  <2>2. t # "host"
    BY AttrAssumption
  <2>3. /\ set_times(t)
        /\ \/ a = "atime" /\ op[t].atime = "host"
           \/ a = "mtime" /\ op[t].mtime = "host"
    BY <1>1, <2>1, <2>2, StepSets DEF Base, Attributes
  <2>4. op[t].valid \cap Times = {IF a = "atime" THEN "MTIME_SET" ELSE "ATIME_SET"}
    BY <1>1, <2>2, <2>3 DEF set_times, Base, TimesRead, Has, Times
  <2>5. Cardinality(op[t].valid \cap Times) = 1
    BY <2>4, FS_Singleton
  <2>6. a \notin Asked(t)
    BY <2>4, <1>1, AskedBits DEF Times
  <2>7. op[t].at = "set_times" /\ op'[t].at = "done"
    BY <1>1, <2>3 DEF set_times, Goes, Base, TypeOK, Op
  <2>8. QED
    BY <2>5, <2>6, <2>7
<1>2. Base /\ [Next]_vars =>
        [\A a \in {"atime", "mtime"} : attr[a] # "host" /\ attr'[a] = "host" =>
           \E t \in Requests : Cardinality(op[t].valid \cap Times) = 1 /\ a \notin Asked(t)
                             /\ op[t].at = "set_times" /\ op'[t].at = "done"]_vars
  BY <1>1
<1>3. QED
  BY <1>2, BaseInvariant, PTL DEF Spec, TimeComesBack
====
