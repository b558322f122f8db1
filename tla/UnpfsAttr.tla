---- MODULE UnpfsAttr ----
(***************************************************************************)
(* rsetattr of unpfs (src/crates/unpfs/src/main.rs:164-224): up to five    *)
(* system calls on the path of a fid, one after the other, each of which   *)
(* may fail, with other requests on the same file in between and reads and *)
(* writes that were asked for before and land at any time.                 *)
(*                                                                         *)
(* An attribute of the file holds the name of who gave it its value: a     *)
(* request, "host" for what was there before, "write" for a write, "now"   *)
(* for the host's clock, "cleared" for a set-user-ID bit the host took     *)
(* away.  The path denotes one file all the time.                          *)
(***************************************************************************)
EXTENDS Naturals, FiniteSets

CONSTANTS
  Requests,    \* the TSetAttr requests, each sent once
  Valids       \* the masks a client sends

Bits == {"MODE", "UID", "GID", "SIZE", "ATIME", "MTIME", "CTIME", "ATIME_SET", "MTIME_SET"}
Attributes == {"mode", "suid", "uid", "gid", "size", "atime", "mtime"}

ASSUME AttrAssumption ==
  Valids \subseteq SUBSET Bits /\ Requests \cap {"host", "now", "cleared", "write"} = {}

VARIABLES
  attr,      \* the attributes of the file
  op,        \* op[t]: how far request t is, its mask, the times it has read
  landed,    \* history: has a write landed, has a read?
  refused    \* history: the requests whose set_file_times failed unnoticed
vars == <<attr, op, landed, refused>>

Values == Requests \cup {"host", "now", "cleared", "write"}

Unasked == [at |-> "idle", valid |-> {}, atime |-> "host", mtime |-> "host", ok |-> TRUE]

Init ==
  /\ attr = [a \in Attributes |-> "host"]
  /\ op = [t \in Requests |-> Unasked]
  /\ landed = {} /\ refused = {}

-----------------------------------------------------------------------------
\* What the host takes away with a change of the owner or of the data, should
\* the server not be allowed to keep it.
Cleared(f) == {f, [f EXCEPT !.suid = "cleared"]}

Has(t, bits) == op[t].valid \cap bits # {}
Goes(t, at) == op' = [op EXCEPT ![t].at = at]

\* Mutant: the error is kept for the end.
FailsLate(t) == op' = [op EXCEPT ![t] = [@ EXCEPT !.at = "size", !.ok = FALSE]]
Fails(t) == op' = [op EXCEPT ![t] = [@ EXCEPT !.at = "done", !.ok = FALSE]]

\* A step that the mask does not ask for, and one whose system call fails.
Passes(t, at, bits, next) ==
  /\ op[t].at = at /\ ~Has(t, bits)
  /\ Goes(t, next)
  /\ UNCHANGED <<attr, landed, refused>>
FailsAt(t, at, bits) ==
  /\ op[t].at = at /\ Has(t, bits)
  /\ Fails(t)
  /\ UNCHANGED <<attr, landed, refused>>

rsetattr(t, valid) ==
  /\ op[t].at = "idle"
  /\ op' = [op EXCEPT ![t] = [@ EXCEPT !.at = "mode", !.valid = valid]]
  /\ UNCHANGED <<attr, landed, refused>>

\* fs::set_permissions.
Mode == {"MODE"}
set_mode(t) ==
  /\ op[t].at = "mode" /\ Has(t, Mode)
  /\ attr' = [attr EXCEPT !.mode = t, !.suid = t]
  /\ Goes(t, "owner")
  /\ UNCHANGED <<landed, refused>>

\* chown: None leaves the owner or the group alone.
Owner == {"UID", "GID"}
\* Mutant: both are Some.
chown_both(t) ==
  /\ op[t].at = "owner" /\ Has(t, Owner)
  /\ attr' \in Cleared([attr EXCEPT !.uid = t, !.gid = t])
  /\ Goes(t, "size")
  /\ UNCHANGED <<landed, refused>>
chown(t) ==
  /\ op[t].at = "owner" /\ Has(t, Owner)
  /\ attr' \in Cleared([attr EXCEPT !.uid = IF Has(t, {"UID"}) THEN t ELSE @,
                                    !.gid = IF Has(t, {"GID"}) THEN t ELSE @])
  /\ Goes(t, "size")
  /\ UNCHANGED <<landed, refused>>

\* open for writing without O_CREAT, then set_len.
Len == {"SIZE"}
set_len(t) ==
  /\ op[t].at = "size" /\ Has(t, Len)
  /\ attr' \in Cleared([attr EXCEPT !.size = t, !.mtime = "now"])
  /\ Goes(t, "times")
  /\ UNCHANGED <<landed, refused>>

\* fs::metadata, for the time that is not asked for.  ATIME, MTIME and CTIME, the
\* clock of the server without SET (fcall.rs:261), are not looked at.
Times == {"ATIME_SET", "MTIME_SET"}
\* Mutants: the bit of the other time is looked at; mtime is always read.
read_times_swapped(t) ==
  /\ op[t].at = "times" /\ Has(t, Times)
  /\ op' = [op EXCEPT ![t] = [@ EXCEPT
            !.at = "set_times",
            !.atime = IF Has(t, {"MTIME_SET"}) THEN t ELSE attr.atime,
            !.mtime = IF Has(t, {"ATIME_SET"}) THEN t ELSE attr.mtime]]
  /\ UNCHANGED <<attr, landed, refused>>
read_times_always(t) ==
  /\ op[t].at = "times" /\ Has(t, Times)
  /\ op' = [op EXCEPT ![t] = [@ EXCEPT
            !.at = "set_times",
            !.atime = IF Has(t, {"ATIME_SET"}) THEN t ELSE attr.atime,
            !.mtime = attr.mtime]]
  /\ UNCHANGED <<attr, landed, refused>>
read_times(t) ==
  /\ op[t].at = "times" /\ Has(t, Times)
  /\ op' = [op EXCEPT ![t] = [@ EXCEPT
            !.at = "set_times",
            !.atime = IF Has(t, {"ATIME_SET"}) THEN t ELSE attr.atime,
            !.mtime = IF Has(t, {"MTIME_SET"}) THEN t ELSE attr.mtime]]
  /\ UNCHANGED <<attr, landed, refused>>

\* set_file_times on a thread of its own, whose error is dropped.
set_times(t) ==
  /\ op[t].at = "set_times"
  /\ \/ attr' = [attr EXCEPT !.atime = op[t].atime, !.mtime = op[t].mtime] /\ UNCHANGED refused
     \/ refused' = refused \cup {t} /\ UNCHANGED attr
  /\ Goes(t, "done")
  /\ UNCHANGED landed

-----------------------------------------------------------------------------
\* A write acknowledged some time ago reaches the file; a read.
WriteLands ==
  /\ attr' \in Cleared([attr EXCEPT !.size = "write", !.mtime = "now"])
  /\ landed' = landed \cup {"write"}
  /\ UNCHANGED <<op, refused>>

ReadLands ==
  /\ attr' = [attr EXCEPT !.atime = "now"]
  /\ landed' = landed \cup {"read"}
  /\ UNCHANGED <<op, refused>>

Step(t) ==
  \/ \E valid \in Valids : rsetattr(t, valid)
  \/ set_mode(t) \/ FailsAt(t, "mode", Mode) \/ Passes(t, "mode", Mode, "owner")
  \/ chown(t) \/ FailsAt(t, "owner", Owner) \/ Passes(t, "owner", Owner, "size")
  \/ set_len(t) \/ FailsAt(t, "size", Len) \/ Passes(t, "size", Len, "times")
  \/ read_times(t) \/ FailsAt(t, "times", Times) \/ Passes(t, "times", Times, "done")
  \/ set_times(t)

Next == (\E t \in Requests : Step(t)) \/ WriteLands \/ ReadLands

Spec == Init /\ [][Next]_vars

-----------------------------------------------------------------------------
\* What a mask brings a value for, and what else the calls it leads to may change.
AskedBy(valid) ==
  (IF "MODE" \in valid THEN {"mode", "suid"} ELSE {}) \cup (IF "UID" \in valid THEN {"uid"} ELSE {})
  \cup (IF "GID" \in valid THEN {"gid"} ELSE {}) \cup (IF "SIZE" \in valid THEN {"size"} ELSE {})
  \cup (IF "ATIME_SET" \in valid THEN {"atime"} ELSE {}) \cup (IF "MTIME_SET" \in valid THEN {"mtime"} ELSE {})
AlsoBy(valid) ==
  (IF valid \cap {"UID", "GID", "SIZE"} # {} THEN {"suid"} ELSE {})
  \cup (IF "SIZE" \in valid THEN {"mtime"} ELSE {})
  \cup (IF valid \cap Times # {} THEN {"atime", "mtime"} ELSE {})
Asked(t) == AskedBy(op[t].valid)
ByOthers(t) == UNION {Asked(u) \cup AlsoBy(op[u].valid) : u \in Requests \ {t}}
ByData ==
  (IF "write" \in landed THEN {"size", "mtime", "suid"} ELSE {})
  \cup (IF "read" \in landed THEN {"atime"} ELSE {})

\* Nobody else has to do with attribute a.
Undisturbed(t, a) == a \notin ByOthers(t) \cup ByData

(* The state keeps its type; a request that has failed has ended, with its *)
(* error (the `?` of main.rs:176-204), and one whose times were refused    *)
(* ended well (main.rs:217-223).                                           *)
Op == [at : {"idle", "mode", "owner", "size", "times", "set_times", "done"},
       valid : SUBSET Bits, atime : Values, mtime : Values, ok : BOOLEAN]
TypeOK ==
  /\ attr \in [Attributes -> Values] /\ landed \subseteq {"write", "read"}
  /\ op \in [Requests -> Op]
  /\ \A t \in Requests : ~op[t].ok => op[t].at = "done"
  /\ refused \subseteq {t \in Requests : op[t].at = "done" /\ op[t].ok}

(* After RSetAttr every attribute that the mask brings a value for has it  *)
(* (main.rs:175-221), each after the calls that would spoil it: the times  *)
(* after the length.  Not so for times that set_file_times refused, whose  *)
(* error is dropped, nor for a set-user-ID bit, set first and gone with    *)
(* the change of the owner or of the length; and a time asked for without  *)
(* a value, from the clock of the server, is not set at all (OnlyAsked).   *)
AskedShows ==
  \A t \in Requests : \A a \in Asked(t) :
    /\ op[t].at = "done" /\ op[t].ok /\ Undisturbed(t, a)
    /\ a \in {"atime", "mtime"} => t \notin refused
    /\ a = "suid" => op[t].valid \cap {"UID", "GID", "SIZE"} = {}
    => attr[a] = t

(* What no mask brings a value for is left alone (main.rs:179-189,         *)
(* 203-215), ATIME, MTIME and CTIME included: nobody but the data and the  *)
(* calls that the values need changes it.                                  *)
OnlyAsked ==
  \A a \in Attributes :
    /\ attr[a] \in Requests => a \in Asked(attr[a])
    /\ attr[a] # "host" => a \in ByData \cup UNION {Asked(t) \cup AlsoBy(op[t].valid) : t \in Requests}

(* The changes of a request are made in the order mode, owner, size, times,*)
(* and an error ends them (the `?` of main.rs:176-204): a request that     *)
(* failed, or is under way, has done the first few and none after.         *)
Rank == [mode |-> 1, suid |-> 1, uid |-> 2, gid |-> 2, size |-> 3, atime |-> 4, mtime |-> 4]
InOrder ==
  \A t \in Requests : \A a, b \in Asked(t) :
    /\ attr[b] = t /\ Rank[a] < Rank[b] /\ Undisturbed(t, a)
    /\ a = "suid" => op[t].valid \cap {"UID", "GID", "SIZE"} = {}
    => attr[a] = t

(* A change of a time is undone (main.rs:204-219) only by a request that   *)
(* asks for the other time, between its metadata and its set_file_times.   *)
TimeComesBack ==
  [][\A a \in {"atime", "mtime"} : attr[a] # "host" /\ attr'[a] = "host" =>
       \E t \in Requests : Cardinality(op[t].valid \cap Times) = 1 /\ a \notin Asked(t)
                         /\ op[t].at = "set_times" /\ op'[t].at = "done"]_vars
====
