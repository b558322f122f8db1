---- MODULE Unpfs ----
(***************************************************************************)
(* The name space of unpfs (src/crates/unpfs/src/main.rs): the fids, which *)
(* hold a path, a depth and an open file, over the tree of the host, which *)
(* requests change between the system calls of one another.                *)
(*                                                                         *)
(* An action is a method up to its first await that another request can    *)
(* tell, or from one such await to the next.  The client waits for the     *)
(* replies it depends on, so that a fid appears or disappears with the     *)
(* reply of the method (Session shows why).  made counts the rlcreates a   *)
(* path has seen, tree changes mark the requests that run meanwhile as     *)
(* stirred and moved holds what was renamed: history, read by the          *)
(* properties only.                                                        *)
(***************************************************************************)
EXTENDS HostTree, Integers

CONSTANTS
  Fids, Tasks,
  realroot,      \* the path of the exported directory from the root of the host
  Host,          \* the tree when the server starts
  WalkNames,     \* the wnames a client sends
  max_depth,     \* --max-depth
  MaxPath        \* bound: components of a path

ASSUME UnpfsAssumption ==
  /\ WalkNames \subseteq Seq(PathNames) /\ max_depth \in Nat /\ MaxPath \in Nat
  /\ realroot \in Seq(PathNames) /\ IsTree(Host)

\* unpfs_main exports a directory, and makes it if it is not there.
ASSUME ExportAssumption == IsDir(Host, Resolve(Host, realroot))

VARIABLES tree, fids, op, moved
vars == <<tree, fids, op, moved>>

Unbound == [path |-> <<>>, depth |-> -1, file |-> NoIno, made |-> 0]
UnpfsFId == [path : Seq(PathNames), depth : 0..max_depth, file : Inos \cup {NoIno}, made : Nat]
Idle == [kind |-> "none", at |-> "idle"]

\* A request at step at: the fids it uses, those it makes or changes, and locals.
Task(kind, at, uses, owns, aux) ==
  [kind |-> kind, at |-> at, uses |-> uses, owns |-> owns, aux |-> aux,
   wnames |-> <<>>, qids |-> <<>>, fd |-> NoIno, changed |-> FALSE, stirred |-> FALSE, ok |-> TRUE]

Init == tree = Host /\ fids = [f \in Fids |-> Unbound] /\ op = [t \in Tasks |-> Idle] /\ moved = {}

-----------------------------------------------------------------------------
Running(t) == op[t].at # "idle"
Owned == UNION {op[t].owns : t \in {u \in Tasks : Running(u)}}
Used == UNION {op[t].uses : t \in {u \in Tasks : Running(u)}}

\* The client waits for what changes a fid before it uses the fid, and has one
\* such request on a fid at a time.  A fid in use may be made again.
MayUse(f) == fids[f] # Unbound /\ f \notin Owned
MayOwn(f) == f \notin Owned \cup Used

\* Task t goes on as o, having made of the tree what it says.
Goes(t, o, newtree) ==
  /\ tree' = newtree
  /\ op' = [u \in Tasks |->
              IF u = t THEN [o EXCEPT !.changed = @ \/ newtree # tree]
              ELSE IF Running(u) /\ newtree # tree THEN [op[u] EXCEPT !.stirred = TRUE]
              ELSE op[u]]
Fails(o) == [o EXCEPT !.at = "done", !.ok = FALSE]
Done(o) == [o EXCEPT !.at = "done"]

Unused == {i \in Inos : ~Alive(tree, i)} \ ({fids[f].file : f \in Fids} \cup {op[t].fd : t \in {u \in Tasks : Running(u)}})
PathOf(f, name) == Append(fids[f].path, name)
Dir(path) == Resolve(tree, Front(path))
Qid(path) == Resolve(tree, path)

\* open(2) without O_EXCL, which UNIX_FLAGS takes away: an inode, NoIno for an
\* error, and the tree.  A directory opens for reading only; a host without an
\* unused inode is full.
Opened(path, creat) ==
  CASE Qid(path) # NoIno ->
         (IF IsDir(tree, Qid(path)) THEN {<<NoIno, tree>>} ELSE {})
           \cup (IF creat /\ IsDir(tree, Qid(path)) THEN {} ELSE {<<Qid(path), tree>>})
    [] Qid(path) = NoIno /\ creat /\ path # <<>> /\ Last(path) \in Names /\ IsDir(tree, Dir(path)) ->
         IF Unused = {} THEN {<<NoIno, tree>>}
         ELSE {<<i, tree \cup {[up |-> Dir(path), name |-> Last(path), ino |-> i, dir |-> FALSE]}>> : i \in Unused}
    [] OTHER -> {<<NoIno, tree>>}

-----------------------------------------------------------------------------
\* Requests that make a fid.
rattach(t, f) ==
  LET qid == Qid(realroot)
      o == Task("rattach", "done", {}, {f}, [path |-> realroot, depth |-> 0, file |-> NoIno, made |-> 0])
  IN /\ ~Running(t) /\ MayOwn(f)
     /\ Goes(t, IF qid = NoIno THEN Fails(o) ELSE [o EXCEPT !.qids = <<qid>>], tree)
     /\ UNCHANGED <<fids, moved>>

rwalk(t, f, newfid, wnames) ==
  /\ ~Running(t) /\ MayUse(f) /\ MayOwn(newfid)
  /\ Len(fids[f].path) + Len(wnames) <= MaxPath
  /\ Goes(t, [Task("rwalk", "walk", {f}, {newfid}, [fids[f] EXCEPT !.file = NoIno])
              EXCEPT !.wnames = wnames], tree)
  /\ UNCHANGED <<fids, moved>>

\* Mutant: wrapping_sub, in a word of 16 bits.
DepthAfterWraps(depth, name) ==
  IF name = ".." THEN (depth - 1) % 2^16 ELSE IF name = "." THEN depth ELSE depth + 1
\* saturating_sub: the path goes on above the export, the depth stays at 0.
DepthAfter(depth, name) ==
  CASE name = ".." -> IF depth = 0 THEN 0 ELSE depth - 1
    [] name = "." -> depth
    [] OTHER -> depth + 1

\* Mutant: one more.
TooDeepByOne(name, new) == name \notin {".", ".."} /\ new > max_depth + 1
\* The limit is looked at only on the way down.
TooDeep(name, new) == name \notin {".", ".."} /\ new > max_depth

\* Mutant: the qid of the component before.
QidStepLate(path) == Qid(Front(path))
QidStep(path) == Qid(path)

\* A component of a walk.  One that is not there ends the walk: an error if it
\* is the first, else a success, with its name and its depth kept.
rwalk_next(t) ==
  LET o == op[t]
      name == o.wnames[Len(o.qids) + 1]
      depth == DepthAfter(o.aux.depth, name)
      path == Append(o.aux.path, name)
      walked == [o EXCEPT !.aux.path = path, !.aux.depth = depth]
      qid == QidStep(path)
  IN /\ o.at = "walk" /\ Len(o.qids) < Len(o.wnames)
     /\ Goes(t, IF TooDeep(name, depth) \/ (qid = NoIno /\ o.qids = <<>>) THEN Fails(o)
                ELSE IF qid = NoIno THEN Done(walked)
                ELSE [walked EXCEPT !.qids = Append(@, qid)], tree)
     /\ UNCHANGED <<fids, moved>>

rwalk_end(t) ==
  /\ op[t].at = "walk" /\ Len(op[t].qids) = Len(op[t].wnames)
  /\ Goes(t, Done(op[t]), tree)
  /\ UNCHANGED <<fids, moved>>

-----------------------------------------------------------------------------
\* Requests that open the file of a fid.  A directory is not opened.
rlopen(t, f, creat) ==
  LET path == fids[f].path
      o == [Task("rlopen", "open", {}, {f}, [path |-> path, creat |-> creat]) EXCEPT !.qids = <<Qid(path)>>]
  IN /\ ~Running(t) /\ MayUse(f) /\ MayOwn(f)
     /\ Goes(t, CASE Qid(path) = NoIno -> [Fails(o) EXCEPT !.qids = <<>>]
                  [] Qid(path) # NoIno /\ IsDir(tree, Qid(path)) -> Done(o)
                  [] OTHER -> o, tree)
     /\ UNCHANGED <<fids, moved>>

rlopen_open(t) ==
  LET o == op[t] IN
  /\ o.at = "open"
  /\ \E r \in Opened(o.aux.path, o.aux.creat) :
       /\ Goes(t, IF r[1] = NoIno THEN Fails(o) ELSE [Done(o) EXCEPT !.fd = r[1]], r[2])
       /\ fids' = IF r[1] = NoIno THEN fids ELSE [f \in Fids |-> IF f \in o.owns THEN [fids[f] EXCEPT !.file = r[1]] ELSE fids[f]]
  /\ UNCHANGED moved

rlcreate(t, f, name, creat) ==
  LET path == PathOf(f, name)
      o == Task("rlcreate", "qid", {}, {f}, [path |-> path])
  IN /\ ~Running(t) /\ MayUse(f) /\ MayOwn(f) /\ Len(path) <= MaxPath
     /\ \E r \in Opened(path, creat) :
          Goes(t, IF r[1] = NoIno THEN Fails(o) ELSE [o EXCEPT !.fd = r[1]], r[2])
     /\ UNCHANGED <<fids, moved>>

\* Mutant: the name without its directory.
created_qid_of_name(t) ==
  LET o == op[t]
      qid == Qid(<<Last(o.aux.path)>>)
  IN /\ o.at = "qid"
     /\ Goes(t, IF qid = NoIno THEN Fails(o)
                ELSE [o EXCEPT !.qids = <<qid>>, !.at = IF o.kind = "rlcreate" THEN "path" ELSE "done"], tree)
     /\ UNCHANGED <<fids, moved>>
\* get_qid of what rlcreate opened or rmkdir made: an error if it has gone.
created_qid(t) ==
  LET o == op[t] IN
  /\ o.at = "qid"
  /\ Goes(t, IF Qid(o.aux.path) = NoIno THEN Fails(o)
             ELSE [o EXCEPT !.qids = <<Qid(o.aux.path)>>, !.at = IF o.kind = "rlcreate" THEN "path" ELSE "done"],
          tree)
  /\ UNCHANGED <<fids, moved>>

\* Mutant: the fid stays where it was.
rlcreate_path_kept(t) ==
  /\ op[t].at = "path"
  /\ Goes(t, [op[t] EXCEPT !.at = "file"], tree)
  /\ UNCHANGED <<fids, moved>>
rlcreate_path(t) ==
  LET o == op[t] IN
  /\ o.at = "path"
  /\ fids' = [f \in Fids |-> IF f \in o.owns THEN [fids[f] EXCEPT !.path = o.aux.path, !.made = @ + 1] ELSE fids[f]]
  /\ Goes(t, [o EXCEPT !.at = "file"], tree)
  /\ UNCHANGED moved

rlcreate_file(t) ==
  LET o == op[t] IN
  /\ o.at = "file"
  /\ fids' = [f \in Fids |-> IF f \in o.owns THEN [fids[f] EXCEPT !.file = o.fd] ELSE fids[f]]
  /\ Goes(t, Done(o), tree)
  /\ UNCHANGED moved

-----------------------------------------------------------------------------
\* Requests that change the tree.
rmkdir(t, f, name) ==
  LET path == PathOf(f, name)
      o == Task("rmkdir", "qid", {f}, {}, [path |-> path])
  IN /\ ~Running(t) /\ MayUse(f) /\ Len(path) <= MaxPath
     /\ IF IsDir(tree, Dir(path)) /\ Qid(path) = NoIno /\ Unused # {}
        THEN \E i \in Unused :
               Goes(t, [o EXCEPT !.fd = i],
                    tree \cup {[up |-> Dir(path), name |-> name, ino |-> i, dir |-> TRUE]})
        ELSE Goes(t, Fails(o), tree)
     /\ UNCHANGED <<fids, moved>>

rrenameat(t, olddir, oldname, newdir, newname) ==
  LET o == Task("rrenameat", "done", {olddir, newdir}, {}, [path |-> <<>>])
      old == At(tree, Resolve(tree, fids[olddir].path), oldname)
      dir == Resolve(tree, fids[newdir].path)
      same == old # {} /\ old = At(tree, dir, newname)
      may == \E l \in old : MayMove(tree, l, dir, newname)
  IN /\ ~Running(t) /\ MayUse(olddir) /\ MayUse(newdir)
     /\ IF may /\ ~same
        THEN \E l \in old : Goes(t, o, Moved(tree, l, dir, newname)) /\ moved' = (moved \ {m.ino : m \in At(tree, dir, newname)}) \cup {l.ino}
        ELSE Goes(t, IF same THEN o ELSE Fails(o), tree) /\ UNCHANGED moved
     /\ UNCHANGED fids

\* symlink_metadata decides between remove_dir and remove_file.
runlinkat(t, f, name) ==
  LET path == PathOf(f, name)
      o == Task("runlinkat", IF IsDir(tree, Qid(path)) THEN "remove_dir" ELSE "remove_file", {f}, {}, [path |-> path])
  IN /\ ~Running(t) /\ MayUse(f) /\ Len(path) <= MaxPath
     /\ Goes(t, IF Qid(path) = NoIno THEN Fails(o) ELSE o, tree)
     /\ UNCHANGED <<fids, moved>>

runlinkat_remove(t) ==
  LET o == op[t]
      links == {l \in At(tree, Dir(o.aux.path), Last(o.aux.path)) :
                  IF o.at = "remove_dir" THEN l.dir /\ IsEmpty(tree, l.ino) ELSE ~l.dir}
  IN /\ o.at \in {"remove_dir", "remove_file"}
     /\ Goes(t, IF links = {} THEN Fails(o) ELSE Done(o), tree \ links)
     /\ moved' = moved \ {l.ino : l \in links}
     /\ UNCHANGED fids

-----------------------------------------------------------------------------
rclunk(t, f) ==
  /\ ~Running(t) /\ MayUse(f) /\ MayOwn(f)
  /\ Goes(t, Task("rclunk", "done", {}, {f}, Unbound), tree)
  /\ UNCHANGED <<fids, moved>>

\* The reply, and with it what dispatch_once does to the table of fids.
Reply(t) ==
  /\ op[t].at = "done"
  /\ fids' = IF op[t].ok /\ op[t].kind \in {"rattach", "rwalk", "rclunk"}
             THEN [f \in Fids |-> IF f \in op[t].owns THEN op[t].aux ELSE fids[f]]
             ELSE fids
  /\ op' = [op EXCEPT ![t] = Idle]
  /\ UNCHANGED <<tree, moved>>

Next ==
  \E t \in Tasks :
    \/ \E f \in Fids : rattach(t, f) \/ rclunk(t, f)
    \/ \E f, g \in Fids, w \in WalkNames : rwalk(t, f, g, w)
    \/ rwalk_next(t) \/ rwalk_end(t)
    \/ \E f \in Fids, c \in BOOLEAN : rlopen(t, f, c)
    \/ rlopen_open(t)
    \/ \E f \in Fids, n \in Names, c \in BOOLEAN : rlcreate(t, f, n, c)
    \/ created_qid(t) \/ rlcreate_path(t) \/ rlcreate_file(t)
    \/ \E f \in Fids, n \in Names : rmkdir(t, f, n) \/ runlinkat(t, f, n)
    \/ runlinkat_remove(t)
    \/ \E f, g \in Fids, n, m \in Names : rrenameat(t, f, n, g, m)
    \/ Reply(t)

Spec == Init /\ [][Next]_vars

-----------------------------------------------------------------------------
Bound == {f \in Fids : fids[f] # Unbound}

(* The state keeps its type: no fid is half made, its depth is within the  *)
(* limit (main.rs:118) and no inode is in two places.                      *)
TypeOK ==
  /\ tree \subseteq Links
  /\ \A f \in Bound : fids[f] \in UnpfsFId
  /\ \A f \in Fids \ Bound : fids[f] = Unbound
  /\ \A i \in Inos : Cardinality({l \in tree : l.ino = i}) <= 1
  /\ moved \subseteq Inos

(* The depth is kept beside the path and never looked up in it             *)
(* (main.rs:107-121): through all walks, with dots before, between and     *)
(* after names and above the export, and through rlcreate, which leaves it *)
(* as it is (main.rs:297-307), a fid is never less deep in the host than   *)
(* its depth says, nor deeper than the export, its depth and what rlcreate *)
(* appended.  So no walk leads further below the export than the limit.    *)
(* It may lead above: the depth is 0 there too.                            *)
DepthBounds ==
  \A f \in Bound :
    Len(Normal(fids[f].path)) \in fids[f].depth..(Len(Normal(realroot)) + fids[f].depth + fids[f].made)

(* A fid has a path for rgetattr, rwalk and rmkdir and an open file for    *)
(* rread and rwrite (main.rs:53-54), set one after the other.  When no      *)
(* request changes the fid, and as long as the file is there and neither   *)
(* it nor a directory above it was renamed, the path does not denote       *)
(* another file than the one that is open.                                 *)
HandleNeverOther ==
  \A f \in Bound \ Owned :
    LET file == fids[f].file IN
    file # NoIno /\ Alive(tree, file) /\ Above(tree, file) \cap moved = {} =>
      Resolve(tree, fids[f].path) \in {NoIno, file}

(* A qid is read by path, before (rlopen, rwalk) or after (rlcreate,       *)
(* rmkdir) the call it is about: unless the tree changed meanwhile, it is  *)
(* the qid of the file that was opened or made, and that of a whole walk   *)
(* is the qid of what newfid denotes.                                      *)
QidIsFile ==
  \A t \in Tasks :
    op[t].at = "done" =>
      LET o == op[t] IN
      o.ok /\ ~o.stirred /\ o.qids # <<>> =>
        /\ o.fd # NoIno => Last(o.qids) = o.fd
        /\ o.kind = "rwalk" /\ Len(o.qids) = Len(o.wnames) =>
             Last(o.qids) = Resolve(tree, o.aux.path)

(* A request that changed the tree and reports an error (main.rs:303, 357) *)
(* was disturbed by another one: alone, a request does all or nothing.     *)
ErrorAfterChange ==
  \A t \in Tasks : op[t].at = "done" => (~op[t].ok /\ op[t].changed => op[t].stirred)

(* "Creates a new fid representing the final destination" (srv.rs:548): a  *)
(* walk that succeeds, and that nobody disturbs, makes a fid of a file.    *)
WalkRepresents ==
  \A t \in Tasks :
    op[t].at = "done" =>
      (op[t].kind = "rwalk" /\ op[t].ok /\ ~op[t].stirred => Resolve(tree, op[t].aux.path) # NoIno)
====
