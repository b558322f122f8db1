---- MODULE HostTree ----
(***************************************************************************)
(* The directory tree of the host, as the system calls behind tokio::fs    *)
(* and nix see it: a set of links, each from a directory by a name to an   *)
(* inode.  Root is the "/" of the host, its own parent; the directory that *)
(* unpfs exports is somewhere below it.  There are neither symbolic nor    *)
(* hard links, and a call fails only when the tree says so: permissions    *)
(* and I/O errors are left out.                                            *)
(***************************************************************************)
EXTENDS Sequences, Folds, SequencesExt

CONSTANTS
  Root, Inos, NoIno,
  Names          \* of directory entries

ASSUME HostAssumption == Root \in Inos /\ NoIno \notin Inos /\ Names \cap {".", ".."} = {}

PathNames == Names \cup {".", ".."}
Links == [up : Inos, name : Names, ino : Inos \ {Root}, dir : BOOLEAN]

Alive(tree, i) == i = Root \/ \E l \in tree : l.ino = i
IsDir(tree, i) == i = Root \/ \E l \in tree : l.ino = i /\ l.dir
IsEmpty(tree, i) == ~\E l \in tree : l.up = i
Parent(tree, i) == IF i = Root THEN Root ELSE (CHOOSE l \in tree : l.ino = i).up
\* An inode is in one place, a name of a directory is taken once, and what holds
\* an entry is a directory.
IsTree(tree) ==
  /\ tree \subseteq Links
  /\ \A l, m \in tree : l.ino = m.ino \/ (l.up = m.up /\ l.name = m.name) => l = m
  /\ \A l \in tree : IsDir(tree, l.up)
At(tree, dir, name) == {l \in tree : l.up = dir /\ l.name = name}

\* One component of a path: only a directory leads anywhere, "." and ".." too.
Step(tree, i, name) ==
  CASE ~IsDir(tree, i) -> NoIno
    [] IsDir(tree, i) /\ name = "." -> i
    [] IsDir(tree, i) /\ name = ".." -> Parent(tree, i)
    [] OTHER -> IF At(tree, i, name) = {} THEN NoIno
                ELSE (CHOOSE l \in At(tree, i, name) : TRUE).ino

Resolve(tree, path) == FoldLeft(LAMBDA i, name : Step(tree, i, name), Root, path)

\* A path without "." and "..".
NormalStep(acc, name) ==
  CASE name = "." -> acc
    [] name = ".." -> IF acc = <<>> THEN acc ELSE Front(acc)
    [] OTHER -> Append(acc, name)
Normal(path) == FoldLeft(NormalStep, <<>>, path)

\* What is above i, and i: no less than i and what each link to one of them is in.
Above(tree, i) ==
  {j \in Inos : \A S \in SUBSET Inos : i \in S /\ (\A l \in tree : l.ino \in S => l.up \in S) => j \in S}

\* rename(2): over nothing, over a file or an empty directory like what moves,
\* and never into what moves.
MayMove(tree, old, dir, name) ==
  /\ IsDir(tree, dir)
  /\ old.ino \notin Above(tree, dir)
  /\ \A l \in At(tree, dir, name) : l.dir = old.dir /\ IsEmpty(tree, l.ino)
Moved(tree, old, dir, name) ==
  (tree \ ({old} \cup At(tree, dir, name))) \cup {[old EXCEPT !.up = dir, !.name = name]}
====
