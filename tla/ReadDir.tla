---- MODULE ReadDir ----
(***************************************************************************)
(* rreaddir of unpfs (src/crates/unpfs/src/main.rs:237-264): a client      *)
(* reads a directory page by page, giving back the offset of the last      *)
(* entry it took, while entries are made and removed.  A request opens the *)
(* directory anew and goes to its place by counting entries.               *)
(*                                                                         *)
(* An entry is a number, and the host lists entries in the order of their  *)
(* numbers.  Requests on other fids share nothing with this scan but the   *)
(* directory.                                                              *)
(***************************************************************************)
EXTENDS Integers, FiniteSets, SequencesExt

CONSTANTS
  Entries,      \* entries the directory may have
  NameLen,      \* NameLen[e]: the length of the name of e
  Counts,       \* values of count a client sends
  MaxChanges    \* bound: entries made or removed during a scan

Dot == -1
DotDot == 0

ASSUME ReadDirAssumption ==
  /\ Entries \subseteq Nat \ {0} /\ IsFiniteSet(Entries)
  /\ NameLen \in [Entries -> Nat \ {0}]
  /\ Counts \subseteq Nat /\ MaxChanges \in Nat

VARIABLES
  dir,       \* the entries of the directory
  pos, got,  \* of the client: the offset it goes on from, the names it took since 0
  ended,     \* has the client had an empty reply, which it takes for the end?
  op,        \* the rreaddir that is running
  added, removed,   \* history: the entries made and removed
  short      \* history: was a reply empty because count is below one entry?
vars == <<dir, pos, got, ended, op, added, removed, short>>

Client == <<pos, got, ended>>
History == <<added, removed>>

-----------------------------------------------------------------------------
\* DirEntry::size: the qid, the offset, the type and the name with its length.
Size(name) == 13 + 8 + 1 + 2 + (CASE name = Dot -> 1 [] name = DotDot -> 2 [] OTHER -> NameLen[name])
SizeOf(data) == FoldLeft(LAMBDA n, dirent : n + Size(dirent.name), 0, data)
Dirent(name, offset) == [name |-> name, offset |-> offset]
Dots == <<Dirent(Dot, 0), Dirent(DotDot, 1)>>

\* Mutants: the dots are not left out; the first page is not told apart.
OffsetOfLast(off) == off
OffsetBefore(off) == off - 1
\* How many entries to skip: "." and ".." are not entries of the listing.
Offset(off) == IF off = 0 THEN 0 ELSE off - 1

DirentOffset(i) == 2 + i

\* Mutant: only what is there is looked at, not what comes.
FitsBefore(data, name, count) == SizeOf(data) <= count
Fits(data, name, count) == SizeOf(data) + Size(name) <= count

Ahead(after) == {e \in dir : e > after}

\* The stream of tokio::fs::read_dir, which fills its buffer with the entries
\* that come next, as many as it likes; remain is FALSE when it saw the end.
Fills(o) ==
  \E c \in Ahead(o.cursor) \cup {o.cursor}, r \in BOOLEAN :
    /\ c = o.cursor => ~r
    /\ ~r => Ahead(c) = {}
    /\ op' = [o EXCEPT !.buf = Ahead(o.cursor) \ Ahead(c), !.cursor = c, !.remain = r]

Idle == [at |-> "idle", off |-> 0, count |-> 0, left |-> 0, i |-> 0, data |-> <<>>,
         buf |-> {}, cursor |-> 0, remain |-> FALSE, lost |-> {}, ok |-> TRUE]

Init ==
  /\ dir \in SUBSET Entries
  /\ pos = 0 /\ got = <<>> /\ ended = FALSE
  /\ op = Idle
  /\ added = {} /\ removed = {} /\ short = FALSE

-----------------------------------------------------------------------------
\* Mutant: entries are numbered from the start of the page.
rreaddir_from_zero(count) ==
  /\ op.at = "idle" /\ ~ended
  /\ Fills([Idle EXCEPT !.at = "list", !.off = pos, !.count = count, !.left = Offset(pos),
                                 !.data = IF pos = 0 THEN Dots ELSE <<>>])
  /\ UNCHANGED <<dir, Client, History, short>>
\* Up to the loop: the dots, the directory opened with its first entries read.
rreaddir(count) ==
  /\ op.at = "idle" /\ ~ended
  /\ Fills([Idle EXCEPT !.at = "list", !.off = pos, !.count = count, !.left = Offset(pos),
                                 !.i = Offset(pos), !.data = IF pos = 0 THEN Dots ELSE <<>>])
  /\ UNCHANGED <<dir, Client, History, short>>

fill ==
  /\ op.at = "list" /\ op.buf = {} /\ op.remain
  /\ Fills(op)
  /\ UNCHANGED <<dir, Client, History, short>>

skip_next ==
  /\ op.at = "list" /\ op.buf # {} /\ op.left > 0
  /\ op' = [op EXCEPT !.buf = @ \ {Min(@)}, !.left = @ - 1]
  /\ UNCHANGED <<dir, Client, History, short>>

Listed(o) ==
  LET name == Min(o.buf)
  IN CASE name \notin dir -> [o EXCEPT !.at = "done", !.ok = FALSE]
       [] name \in dir /\ ~Fits(o.data, name, o.count) -> [o EXCEPT !.at = "done"]
       [] OTHER -> [o EXCEPT !.data = Append(@, Dirent(name, DirentOffset(o.i))), !.i = @ + 1, !.buf = @ \ {name}]

\* Mutant: an entry that does not fit is an error.
list_next_fails ==
  /\ op.at = "list" /\ op.buf # {} /\ op.left = 0
  /\ op' = IF Listed(op).at = "done" THEN [Listed(op) EXCEPT !.ok = FALSE] ELSE Listed(op)
  /\ UNCHANGED <<dir, Client, History, short>>
\* A turn of the loop: the attributes of the next entry are read, by its name.
list_next ==
  /\ op.at = "list" /\ op.buf # {} /\ op.left = 0
  /\ op' = Listed(op)
  /\ short' = (short \/ (op'.at = "done" /\ op'.ok /\ op'.data = <<>>))
  /\ UNCHANGED <<dir, Client, History>>

list_end ==
  /\ op.at = "list" /\ op.buf = {} /\ ~op.remain
  /\ op' = [op EXCEPT !.at = "done"]
  /\ UNCHANGED <<dir, Client, History, short>>

\* The reply.  The client takes the entries of the page, all or the first few,
\* and goes on from the offset of the last: "." carries 0, where a scan begins
\* anew.  It takes an empty page for the end and asks again after an error.
Reply ==
  /\ op.at = "done"
  /\ op' = Idle
  /\ IF op.ok /\ op.data # <<>>
     THEN \E n \in 1..Len(op.data) :
            /\ pos' = op.data[n].offset
            /\ got' = IF pos' = 0 THEN <<>> ELSE got \o [k \in 1..n |-> op.data[k].name]
            /\ UNCHANGED ended
     ELSE ended' = op.ok /\ UNCHANGED <<got, pos>>
  /\ UNCHANGED <<dir, History, short>>

-----------------------------------------------------------------------------
\* Other requests.
Changes == Cardinality(added) + Cardinality(removed)

MakeEntry(e) ==
  /\ ~ended /\ Changes < MaxChanges /\ e \notin dir \cup added
  /\ dir' = dir \cup {e} /\ added' = added \cup {e}
  /\ UNCHANGED <<Client, op, removed, short>>

RemoveEntry(e) ==
  /\ ~ended /\ Changes < MaxChanges /\ e \in dir \ removed
  /\ dir' = dir \ {e} /\ removed' = removed \cup {e}
  /\ op' = [op EXCEPT !.lost = @ \cup {e}]
  /\ UNCHANGED <<Client, added, short>>

Ended == ended /\ UNCHANGED vars

Scan ==
  \/ \E count \in Counts : rreaddir(count)
  \/ fill \/ skip_next \/ list_next \/ list_end \/ Reply

Next == Scan \/ (\E e \in Entries : MakeEntry(e) \/ RemoveEntry(e)) \/ Ended

Spec == Init /\ [][Next]_vars

\* The server answers and the client goes on to the end of the directory.
FairSpec == Spec /\ WF_vars(Scan)

-----------------------------------------------------------------------------
(* The state keeps its type, the number of entries to skip among it, which *)
(* is unsigned in the code (main.rs:240-246).                              *)
TypeOK ==
  /\ dir \subseteq Entries /\ pos \in Nat /\ got \in Seq(Entries \cup {Dot, DotDot})
  /\ op.left \in Nat /\ op.i \in Nat /\ op.count \in Counts \cup {0}
  /\ op.buf \subseteq Entries /\ op.at \in {"idle", "list", "done"}

(* A client that reads to the end has seen every entry that was there all  *)
(* the time (main.rs:240-261), when nothing was removed meanwhile and its  *)
(* counts have room for an entry.                                          *)
NothingMissed ==
  ended /\ ~short /\ removed = {} => dir \ added \subseteq ToSet(got)

(* No entry is given twice (main.rs:253-260), when nothing was made        *)
(* meanwhile, not even if pages fail or are taken in part.  Only a client  *)
(* that stops after "." gets it again, with all that follows, of which it  *)
(* has nothing: that offset is the beginning of the scan (main.rs:241).    *)
NothingTwice ==
  added = {} => \A j, k \in DOMAIN got : got[j] = got[k] => j = k

(* A request fails only when an entry goes away between the listing and    *)
(* the look at its attributes (main.rs:255).                               *)
FailureIsDue == op.at = "done" /\ ~op.ok => op.lost # {}

(* A page with an entry of the directory in it has no more than count      *)
(* bytes, the dots before it included (main.rs:256).  A page of the dots   *)
(* alone may have more: see PageWithinCount.                               *)
EntriesFit ==
  op.at = "done" /\ op.ok /\ (\E k \in DOMAIN op.data : op.data[k].name \in Entries) =>
    SizeOf(op.data) <= op.count

(* A client that goes on comes to an empty page (main.rs:241, 255-263),    *)
(* for whatever it takes of the pages before, unless it stops after "."    *)
(* again and again: the offset of any other entry leads past it, and no    *)
(* page fails for ever.  The empty page need not be the end: it is also    *)
(* the answer to a count below the size of one entry (see short).          *)
StopsAtDot == Reply /\ op.ok /\ op.data # <<>> /\ pos' = 0
ScanEnds == <>ended \/ []<><<StopsAtDot>>_vars

-----------------------------------------------------------------------------
(* What the documentation says and the code does not do.                   *)

(* "Maximum number of bytes to return" (srv.rs:346): no page has more than *)
(* count bytes.                                                            *)
PageWithinCount == op.at = "done" /\ op.ok => SizeOf(op.data) <= op.count
====
