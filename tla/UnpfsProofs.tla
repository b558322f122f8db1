---- MODULE UnpfsProofs ----
(***************************************************************************)
(* The name space of unpfs, for every host, every number of fids and of    *)
(* requests under way; first the lemmas about the directory tree: where a  *)
(* path leads, what a new or a lost entry changes about it, and what is    *)
(* above a file.                                                           *)
(***************************************************************************)
EXTENDS Unpfs, FoldFacts, FiniteSetTheorems

-----------------------------------------------------------------------------
(* The directory tree.                                                     *)

Place == Inos \cup {NoIno}

\* A component of a path leads to an inode of the host or nowhere.
LEMMA StepType ==
  ASSUME NEW host \in SUBSET Links, NEW i \in Place, NEW name
  PROVE  Step(host, i, name) \in Place
<1>1. CASE ~IsDir(host, i)
  BY <1>1 DEF Step, Place
<1>2. CASE IsDir(host, i) /\ name = "."
  BY <1>2 DEF Step, Place
<1>3. CASE IsDir(host, i) /\ name = ".."
  <2>1. CASE i = Root
    BY <1>3, <2>1, HostAssumption DEF Step, Place, Parent
  <2>2. CASE i # Root
    <3>1. \E l \in host : l.ino = i
      BY <1>3, <2>2 DEF IsDir
    <3>2. (CHOOSE l \in host : l.ino = i) \in Links
      BY <3>1
    <3>3. Parent(host, i) \in Inos
      BY <2>2, <3>2 DEF Parent, Links
    <3>4. Step(host, i, name) = Parent(host, i)
      BY <1>3 DEF Step
    <3>5. QED
      BY <3>3, <3>4 DEF Place
  <2>3. QED
    BY <2>1, <2>2
<1>4. CASE IsDir(host, i) /\ name # "." /\ name # ".."
  <2>1. Step(host, i, name) = IF At(host, i, name) = {} THEN NoIno ELSE (CHOOSE l \in At(host, i, name) : TRUE).ino
    BY <1>4 DEF Step
  <2>2. At(host, i, name) # {} => (CHOOSE l \in At(host, i, name) : TRUE) \in Links
    BY DEF At
  <2>3. QED
    BY <2>1, <2>2 DEF Place, Links
<1>5. QED
  BY <1>1, <1>2, <1>3, <1>4

\* Step as a function.
Steps(host) == [c \in Place \X PathNames |-> Step(host, c[1], c[2])]

\* Resolve passes through one inode for each component.
LEMMA ResolveRun ==
  ASSUME NEW host \in SUBSET Links, NEW p \in Seq(PathNames)
  PROVE  \E at : Run(at, Place, Root, Steps(host), p) /\ Resolve(host, p) = at[Len(p)]
<1> DEFINE Chosen(iter) == iter = [s \in SUBSET DOMAIN p |->
                             IF s = {} THEN Root ELSE Step(host, iter[s \ {Max(s)}], p[Max(s)])]
           iter == CHOOSE iter : Chosen(iter)
<1>1. Root \in Place /\ Len(p) \in Nat /\ DOMAIN p = 1..Len(p)
  BY HostAssumption DEF Place
<1>2. Steps(host) \in [Place \X PathNames -> Place]
  BY StepType DEF Steps
<1>3. PICK it : IsIter(it, Place, Root, Steps(host), p)
  BY <1>1, <1>2, FoldExists
<1>4. Chosen(it)
  <2>1. ASSUME NEW s \in SUBSET (1..Len(p)), s # {}
        PROVE  it[s] = Step(host, it[s \ {Max(s)}], p[Max(s)])
    <3>1. Max(s) \in 1..Len(p)
      BY <1>1, <2>1, Largest
    <3>2. p[Max(s)] \in PathNames /\ it[s \ {Max(s)}] \in Place
      <4>1. s \ {Max(s)} \in SUBSET (1..Len(p))
        OBVIOUS
      <4>2. QED
        BY <1>1, <1>3, <3>1, <4>1 DEF IsIter
    <3>3. QED
      BY <1>3, <2>1, <3>2 DEF IsIter, Steps
  <2>2. \A s \in SUBSET (1..Len(p)) :
          it[s] = IF s = {} THEN Root ELSE Step(host, it[s \ {Max(s)}], p[Max(s)])
    BY <1>3, <2>1 DEF IsIter
  <2>3. QED
    BY <1>1, <1>3, <2>2 DEF IsIter
<1>5. Chosen(iter)
  <2> HIDE DEF Chosen
  <2>1. QED
    BY <1>4
<1>6. Resolve(host, p) = iter[1..Len(p)]
  BY <1>1 DEF Resolve, FoldLeft, MapThenFoldSet
<1>7. iter[{}] = Root
  BY <1>1, <1>5
<1>8. ASSUME NEW k \in 0..(Len(p) - 1), iter[1..k] \in Place
      PROVE  iter[1..(k + 1)] = Steps(host)[<<iter[1..k], p[k + 1]>>]
  <2>1. k \in Nat /\ p[k + 1] \in PathNames /\ 1..(k + 1) \in SUBSET (1..Len(p))
    BY <1>1
  <2>2. 1..(k + 1) # {} /\ Max(1..(k + 1)) = k + 1 /\ (1..(k + 1)) \ {k + 1} = 1..k
    BY <2>1, IntervalMax
  <2>3. iter[1..(k + 1)] = Step(host, iter[(1..(k + 1)) \ {Max(1..(k + 1))}], p[Max(1..(k + 1))])
    BY <1>1, <1>5, <2>1, <2>2
  <2>4. iter[1..(k + 1)] = Step(host, iter[1..k], p[k + 1])
    BY <2>2, <2>3
  <2> HIDE DEF iter
  <2>5. QED
    BY <1>8, <2>1, <2>4 DEF Steps
<1> HIDE DEF iter, Chosen
<1>9. Run([k \in 0..Len(p) |-> iter[1..k]], Place, Root, Steps(host), p)
  BY <1>1, <1>2, <1>7, <1>8, IterRuns, ZenonT(60)
<1>10. [k \in 0..Len(p) |-> iter[1..k]][Len(p)] = iter[1..Len(p)]
  BY <1>1
<1>11. QED
  BY <1>6, <1>9, <1>10

(* A path leads to an inode of the host or nowhere.                        *)
LEMMA ResolveType ==
  ASSUME NEW host \in SUBSET Links, NEW p \in Seq(PathNames)
  PROVE  Resolve(host, p) \in Place
<1>1. PICK at : Run(at, Place, Root, Steps(host), p) /\ Resolve(host, p) = at[Len(p)]
  BY ResolveRun
<1>2. Len(p) \in 0..Len(p)
  OBVIOUS
<1>3. QED
  BY <1>1, <1>2 DEF Run

(* A path is followed one component after the other.                       *)
LEMMA ResolveAppend ==
  ASSUME NEW host \in SUBSET Links, NEW p \in Seq(PathNames), NEW x \in PathNames
  PROVE  Resolve(host, Append(p, x)) = Step(host, Resolve(host, p), x)
<1>1. PICK a : Run(a, Place, Root, Steps(host), p) /\ Resolve(host, p) = a[Len(p)]
  BY ResolveRun
<1>2. Append(p, x) \in Seq(PathNames) /\ Len(Append(p, x)) = Len(p) + 1
  OBVIOUS
<1>3. PICK b : Run(b, Place, Root, Steps(host), Append(p, x)) /\ Resolve(host, Append(p, x)) = b[Len(p) + 1]
  BY <1>2, ResolveRun
<1>4. Root \in Place
  BY HostAssumption DEF Place
<1>5. b[Len(p) + 1] = Steps(host)[<<a[Len(p)], x>>]
  BY <1>1, <1>3, <1>4, RunAppend
<1>6. Resolve(host, p) \in Place
  BY ResolveType
<1>7. QED
  BY <1>1, <1>3, <1>5, <1>6 DEF Steps

\* No component leads to the export.
LEMMA ResolveEmpty ==
  ASSUME NEW host \in SUBSET Links
  PROVE  Resolve(host, <<>>) = Root
<1>1. <<>> \in Seq(PathNames) /\ Len(<<>>) = 0
  OBVIOUS
<1>2. QED
  BY <1>1, ResolveRun DEF Run

-----------------------------------------------------------------------------
(* What makes the links of the host a tree.                                *)

\* "." stays and ".." goes up, but not out of the host.
LEMMA StepDots ==
  ASSUME NEW host, IsTree(host), NEW i, IsDir(host, i)
  PROVE  /\ Step(host, i, ".") = i
         /\ Step(host, Root, "..") = Root
         /\ \A l \in host : i = l.ino => Step(host, i, "..") = l.up
<1>1. Step(host, i, ".") = i
  BY DEF Step
<1>2. Step(host, Root, "..") = Root
  BY DEF Step, IsDir, Parent
<1>3. ASSUME NEW l \in host, i = l.ino
      PROVE  Step(host, i, "..") = l.up
  <2>1. (CHOOSE m \in host : m.ino = i) = l
    BY <1>3 DEF IsTree
  <2>2. i # Root
    BY <1>3 DEF IsTree, Links
  <2>3. QED
    BY <1>3, <2>1, <2>2 DEF Step, Parent
<1>4. QED
  BY <1>1, <1>2, <1>3

\* A name leads along a link.
LEMMA StepName ==
  ASSUME NEW host, IsTree(host), NEW i, NEW name \in Names
  PROVE  /\ \A l \in host : l.up = i /\ l.name = name => Step(host, i, name) = l.ino /\ l.ino # NoIno
         /\ Step(host, i, name) # NoIno => \E l \in host : l.up = i /\ l.name = name /\ l.ino = Step(host, i, name)
<1>1. name # "." /\ name # ".."
  BY HostAssumption
<1>2. IsDir(host, i) =>
        Step(host, i, name) = IF At(host, i, name) = {} THEN NoIno ELSE (CHOOSE l \in At(host, i, name) : TRUE).ino
  BY <1>1 DEF Step
<1>3. ~IsDir(host, i) => Step(host, i, name) = NoIno
  BY DEF Step
<1>4. ASSUME NEW l \in host, l.up = i, l.name = name
      PROVE  Step(host, i, name) = l.ino /\ l.ino # NoIno
  <2>1. IsDir(host, i) /\ At(host, i, name) = {l}
    BY <1>4 DEF IsTree, At
  <2>2. l.ino # NoIno
    BY HostAssumption DEF IsTree, Links
  <2>3. QED
    BY <1>2, <2>1, <2>2
<1>5. ASSUME Step(host, i, name) # NoIno
      PROVE  \E l \in host : l.up = i /\ l.name = name /\ l.ino = Step(host, i, name)
  <2>1. IsDir(host, i) /\ At(host, i, name) # {}
    BY <1>2, <1>3, <1>5
  <2>2. (CHOOSE l \in At(host, i, name) : TRUE) \in At(host, i, name)
    BY <2>1
  <2>3. QED
    BY <1>2, <2>1, <2>2 DEF At
<1>6. QED
  BY <1>4, <1>5

\* From nowhere a path leads nowhere.
LEMMA StepNowhere ==
  ASSUME NEW host, IsTree(host), NEW name
  PROVE  Step(host, NoIno, name) = NoIno
BY HostAssumption DEF Step, IsDir, IsTree, Links

\* Only a directory leads anywhere, and only to what is there.
LEMMA StepAlive ==
  ASSUME NEW host, IsTree(host), NEW i, NEW name \in PathNames, Step(host, i, name) # NoIno
  PROVE  Alive(host, Step(host, i, name)) /\ IsDir(host, i)
<1>1. IsDir(host, i)
  BY DEF Step
<1>2. CASE name = "."
  BY <1>1, <1>2, StepDots DEF Alive, IsDir
<1>3. CASE name = ".."
  <2>1. i = Root \/ \E l \in host : i = l.ino
    BY <1>1 DEF IsDir
  <2>2. CASE i = Root
    BY <1>1, <1>3, <2>2, StepDots DEF Alive
  <2>3. ASSUME NEW l \in host, i = l.ino
        PROVE  Alive(host, Step(host, i, name))
    <3>1. Step(host, i, name) = l.up /\ IsDir(host, l.up)
      BY <1>1, <1>3, <2>3, StepDots, ZenonT(60) DEF IsTree
    <3>2. QED
      BY <3>1 DEF Alive, IsDir
  <2>4. QED
    BY <1>1, <2>1, <2>2, <2>3
<1>4. CASE name \in Names
  BY <1>1, <1>4, StepName DEF Alive
<1>5. QED
  BY <1>2, <1>3, <1>4 DEF PathNames

\* A path leads to what is there.
LEMMA ResolveAlive ==
  ASSUME NEW host, IsTree(host), NEW p \in Seq(PathNames), Resolve(host, p) # NoIno
  PROVE  Alive(host, Resolve(host, p))
<1> DEFINE Q == {q \in Seq(PathNames) : Resolve(host, q) # NoIno => Alive(host, Resolve(host, q))}
<1>1. host \in SUBSET Links
  BY DEF IsTree
<1>2. <<>> \in Q
  BY <1>1, ResolveEmpty DEF Alive
<1>3. ASSUME NEW q \in Seq(PathNames), NEW x \in PathNames
      PROVE  Append(q, x) \in Q
  <2>1. Resolve(host, Append(q, x)) = Step(host, Resolve(host, q), x)
    BY <1>1, ResolveAppend
  <2>2. Append(q, x) \in Seq(PathNames)
    OBVIOUS
  <2>3. QED
    BY <2>1, <2>2, StepAlive
<1> HIDE DEF Q
<1>4. Seq(PathNames) \subseteq Q
  BY <1>2, <1>3, SeqSets
<1>5. QED
  BY <1>4 DEF Q

(* A sequence is its front and its last element.                           *)
LEMMA FrontLast ==
  ASSUME NEW S, NEW p \in Seq(S), p # <<>>
  PROVE  Front(p) \in Seq(S) /\ Last(p) \in S /\ p = Append(Front(p), Last(p))
<1>1. Len(p) \in Nat \ {0} /\ p[Len(p)] \in S /\ p \in [1..Len(p) -> S]
  OBVIOUS
<1>2. Last(p) = p[Len(p)] /\ Front(p) = SubSeq(p, 1, Len(p) - 1)
  BY DEF Last, Front
<1>3. Front(p) \in Seq(S) /\ Len(Front(p)) = Len(p) - 1 /\ \A i \in 1..(Len(p) - 1) : Front(p)[i] = p[i]
  BY <1>1, <1>2
<1>4. p = Append(Front(p), Last(p))
  BY <1>1, <1>2, <1>3
<1>5. QED
  BY <1>1, <1>2, <1>3, <1>4

-----------------------------------------------------------------------------
\* A link to a new inode, by a name that was not taken.
Grows(host, new) ==
  /\ new \in Links /\ ~Alive(host, new.ino) /\ IsDir(host, new.up) /\ At(host, new.up, new.name) = {}

\* A new entry leaves a tree.
LEMMA GrownTree ==
  ASSUME NEW host, IsTree(host), NEW new, Grows(host, new)
  PROVE  IsTree(host \cup {new})
BY DEF IsTree, Grows, IsDir, Alive, At

(* A new entry leaves where it was what could be reached.                  *)
LEMMA GrownStep ==
  ASSUME NEW host, IsTree(host), NEW new, Grows(host, new), NEW i, NEW name \in PathNames, Step(host, i, name) # NoIno
  PROVE  Step(host \cup {new}, i, name) = Step(host, i, name)
<1>0. PICK grown : grown = host \cup {new}
  OBVIOUS
<1> SUFFICES Step(grown, i, name) = Step(host, i, name)
  BY <1>0
<1>1. IsTree(grown) /\ host \subseteq grown
  BY <1>0, GrownTree
<1>2. IsDir(host, i) /\ IsDir(grown, i)
  <2>1. IsDir(host, i)
    BY DEF Step
  <2>2. QED
    BY <1>1, <2>1 DEF IsDir
<1>3. CASE name = "."
  BY <1>1, <1>2, <1>3, StepDots
<1>4. CASE name = ".."
  <2>1. CASE i = Root
    BY <1>1, <1>2, <1>4, <2>1, StepDots
  <2>2. ASSUME NEW l \in host, i = l.ino
        PROVE  Step(grown, i, name) = Step(host, i, name)
    <3>1. Step(host, i, "..") = l.up
      BY <1>2, <2>2, StepDots
    <3>2. Step(grown, i, "..") = l.up
      BY <1>1, <1>2, <2>2, StepDots
    <3>3. QED
      BY <1>4, <3>1, <3>2
  <2>3. QED
    BY <1>2, <2>1, <2>2 DEF IsDir
<1>5. CASE name \in Names
  <2>1. PICK l \in host : l.up = i /\ l.name = name /\ l.ino = Step(host, i, name)
    BY <1>5, StepName
  <2>2. Step(grown, i, name) = l.ino
    BY <1>1, <1>5, <2>1, StepName
  <2>3. QED
    BY <2>1, <2>2
<1>6. QED
  BY <1>3, <1>4, <1>5 DEF PathNames

\* So a path that led somewhere leads there still.
LEMMA GrownResolve ==
  ASSUME NEW host, IsTree(host), NEW new, Grows(host, new), NEW p \in Seq(PathNames), Resolve(host, p) # NoIno
  PROVE  Resolve(host \cup {new}, p) = Resolve(host, p)
<1> DEFINE grown == host \cup {new}
           Q == {q \in Seq(PathNames) : Resolve(host, q) # NoIno => Resolve(grown, q) = Resolve(host, q)}
<1>1. host \in SUBSET Links /\ grown \in SUBSET Links
  BY DEF IsTree, Grows
<1>2. <<>> \in Q
  BY <1>1, ResolveEmpty
<1>3. ASSUME NEW q \in Seq(PathNames), NEW x \in PathNames, q \in Q
      PROVE  Append(q, x) \in Q
  <2> HIDE DEF grown
  <2>1. Resolve(host, Append(q, x)) = Step(host, Resolve(host, q), x)
    BY <1>1, ResolveAppend
  <2>2. Resolve(grown, Append(q, x)) = Step(grown, Resolve(grown, q), x)
    BY <1>1, ResolveAppend
  <2>3. Append(q, x) \in Seq(PathNames)
    OBVIOUS
  <2>4. ASSUME Resolve(host, Append(q, x)) # NoIno
        PROVE  Resolve(grown, Append(q, x)) = Resolve(host, Append(q, x))
    <3>1. Resolve(host, q) # NoIno
      BY <2>1, <2>4, StepNowhere
    <3>2. Step(grown, Resolve(host, q), x) = Step(host, Resolve(host, q), x)
      BY <2>1, <2>4, GrownStep DEF grown
    <3>3. QED
      BY <1>3, <2>1, <2>2, <3>1, <3>2
  <2>5. QED
    BY <2>3, <2>4
<1> HIDE DEF Q
<1>4. Seq(PathNames) \subseteq Q
  BY <1>2, <1>3, SeqSets
<1>5. QED
  BY <1>4 DEF Q

(* What a new entry is found by.                                           *)
LEMMA GrownFinds ==
  ASSUME NEW host, IsTree(host), NEW new, Grows(host, new), NEW d \in Seq(PathNames),
         Resolve(host, d) = new.up, new.name \in Names
  PROVE  Resolve(host \cup {new}, Append(d, new.name)) = new.ino
<1> DEFINE grown == host \cup {new}
<1>1. IsTree(grown) /\ grown \in SUBSET Links /\ new \in grown
  BY GrownTree DEF IsTree
<1>2. new.up # NoIno
  BY HostAssumption DEF Grows, Links
<1>3. Resolve(grown, d) = new.up
  BY <1>2, GrownResolve
<1> HIDE DEF grown
<1>4. new.name \in PathNames
  BY DEF PathNames
<1>5. Resolve(grown, Append(d, new.name)) = Step(grown, new.up, new.name)
  BY <1>1, <1>3, <1>4, ResolveAppend
<1>6. QED
  BY <1>1, <1>5, StepName DEF grown

-----------------------------------------------------------------------------
(* Paths without dots.                                                     *)
NormalSteps == [c \in Seq(Names) \X PathNames |-> NormalStep(c[1], c[2])]

\* No dot is added.
LEMMA NormalStepType ==
  ASSUME NEW q \in Seq(Names), NEW x \in PathNames
  PROVE  NormalStep(q, x) \in Seq(Names)
<1>1. x \notin {".", ".."} => x \in Names
  BY DEF PathNames
<1>2. q # <<>> => Front(q) \in Seq(Names)
  BY FrontLast
<1>3. QED
  BY <1>1, <1>2 DEF NormalStep

\* Normal passes through one path for each component.
LEMMA NormalRun ==
  ASSUME NEW p \in Seq(PathNames)
  PROVE  \E at : Run(at, Seq(Names), <<>>, NormalSteps, p) /\ Normal(p) = at[Len(p)]
<1> DEFINE Chosen(iter) == iter = [s \in SUBSET DOMAIN p |->
                             IF s = {} THEN <<>> ELSE NormalStep(iter[s \ {Max(s)}], p[Max(s)])]
           iter == CHOOSE iter : Chosen(iter)
<1>1. <<>> \in Seq(Names) /\ Len(p) \in Nat /\ DOMAIN p = 1..Len(p)
  OBVIOUS
<1>2. NormalSteps \in [Seq(Names) \X PathNames -> Seq(Names)]
  BY NormalStepType DEF NormalSteps
<1>3. PICK it : IsIter(it, Seq(Names), <<>>, NormalSteps, p)
  BY <1>1, <1>2, FoldExists
<1>4. Chosen(it)
  <2>1. ASSUME NEW s \in SUBSET (1..Len(p)), s # {}
        PROVE  it[s] = NormalStep(it[s \ {Max(s)}], p[Max(s)])
    <3>1. Max(s) \in 1..Len(p)
      BY <1>1, <2>1, Largest
    <3>2. p[Max(s)] \in PathNames /\ it[s \ {Max(s)}] \in Seq(Names)
      <4>1. s \ {Max(s)} \in SUBSET (1..Len(p))
        OBVIOUS
      <4>2. QED
        BY <1>1, <1>3, <3>1, <4>1 DEF IsIter
    <3>3. NormalSteps[<<it[s \ {Max(s)}], p[Max(s)]>>] = NormalStep(it[s \ {Max(s)}], p[Max(s)])
      BY <3>2 DEF NormalSteps
    <3>4. QED
      BY <1>3, <2>1, <3>3 DEF IsIter
  <2>2. \A s \in SUBSET (1..Len(p)) :
          it[s] = IF s = {} THEN <<>> ELSE NormalStep(it[s \ {Max(s)}], p[Max(s)])
    BY <1>3, <2>1 DEF IsIter
  <2>3. QED
    BY <1>1, <1>3, <2>2 DEF IsIter
<1>5. Chosen(iter)
  <2> HIDE DEF Chosen
  <2>1. QED
    BY <1>4
<1>6. Normal(p) = iter[1..Len(p)]
  BY <1>1 DEF Normal, FoldLeft, MapThenFoldSet
<1>7. iter[{}] = <<>>
  BY <1>1, <1>5
<1>8. ASSUME NEW k \in 0..(Len(p) - 1), iter[1..k] \in Seq(Names)
      PROVE  iter[1..(k + 1)] = NormalSteps[<<iter[1..k], p[k + 1]>>]
  <2>1. k \in Nat /\ p[k + 1] \in PathNames /\ 1..(k + 1) \in SUBSET (1..Len(p))
    BY <1>1
  <2>2. 1..(k + 1) # {} /\ Max(1..(k + 1)) = k + 1 /\ (1..(k + 1)) \ {k + 1} = 1..k
    BY <2>1, IntervalMax
  <2>3. iter[1..(k + 1)] = NormalStep(iter[(1..(k + 1)) \ {Max(1..(k + 1))}], p[Max(1..(k + 1))])
    BY <1>1, <1>5, <2>1, <2>2
  <2>4. iter[1..(k + 1)] = NormalStep(iter[1..k], p[k + 1])
    BY <2>2, <2>3
  <2> HIDE DEF iter
  <2>5. QED
    BY <1>8, <2>1, <2>4 DEF NormalSteps
<1> HIDE DEF iter, Chosen
<1>9. Run([k \in 0..Len(p) |-> iter[1..k]], Seq(Names), <<>>, NormalSteps, p)
  <2>1. PICK none \in Seq(Names) : none = <<>>
    BY <1>1
  <2>2. iter[{}] = none
    BY <1>7, <2>1
  <2>3. \A k \in 0..(Len(p) - 1) :
          iter[1..k] \in Seq(Names) => iter[1..(k + 1)] = NormalSteps[<<iter[1..k], p[k + 1]>>]
    BY <1>8
  <2>4. Run([k \in 0..Len(p) |-> iter[1..k]], Seq(Names), none, NormalSteps, p)
    BY <1>2, <2>2, <2>3, IterRuns, ZenonT(60)
  <2>5. QED
    BY <2>1, <2>4
<1>10. [k \in 0..Len(p) |-> iter[1..k]][Len(p)] = iter[1..Len(p)]
  BY <1>1
<1>11. QED
  BY <1>6, <1>9, <1>10

\* There is no dot left.
LEMMA NormalType ==
  ASSUME NEW p \in Seq(PathNames)
  PROVE  Normal(p) \in Seq(Names)
<1>1. PICK at : Run(at, Seq(Names), <<>>, NormalSteps, p) /\ Normal(p) = at[Len(p)]
  BY NormalRun
<1>2. Len(p) \in 0..Len(p)
  OBVIOUS
<1>3. QED
  BY <1>1, <1>2 DEF Run

\* The dots are taken out one component after the other.
LEMMA NormalAppend ==
  ASSUME NEW p \in Seq(PathNames), NEW x \in PathNames
  PROVE  Normal(Append(p, x)) = NormalStep(Normal(p), x)
<1>1. PICK a : Run(a, Seq(Names), <<>>, NormalSteps, p) /\ Normal(p) = a[Len(p)]
  BY NormalRun
<1>2. Append(p, x) \in Seq(PathNames) /\ Len(Append(p, x)) = Len(p) + 1
  OBVIOUS
<1>3. PICK b : Run(b, Seq(Names), <<>>, NormalSteps, Append(p, x)) /\ Normal(Append(p, x)) = b[Len(p) + 1]
  BY <1>2, NormalRun
<1>4. PICK none \in Seq(Names) : none = <<>>
  <2>1. <<>> \in Seq(Names)
    OBVIOUS
  <2>2. QED
    BY <2>1
<1>5. b[Len(p) + 1] = NormalSteps[<<a[Len(p)], x>>]
  <2>1. Run(a, Seq(Names), none, NormalSteps, p) /\ Run(b, Seq(Names), none, NormalSteps, Append(p, x))
    BY <1>1, <1>3, <1>4
  <2>2. QED
    BY <2>1, RunAppend
<1>6. Normal(p) \in Seq(Names)
  BY NormalType
<1>7. QED
  BY <1>1, <1>3, <1>5, <1>6 DEF NormalSteps

\* No component stays none.
LEMMA NormalEmpty == Normal(<<>>) = <<>>
<1>1. <<>> \in Seq(PathNames) /\ Len(<<>>) = 0
  OBVIOUS
<1>2. QED
  BY <1>1, NormalRun DEF Run

\* A name is not a dot.
LEMMA NormalName ==
  ASSUME NEW p \in Seq(PathNames), NEW x \in Names
  PROVE  Normal(Append(p, x)) = Append(Normal(p), x)
<1>1. x \in PathNames /\ x # "." /\ x # ".."
  BY HostAssumption DEF PathNames
<1>2. QED
  BY <1>1, NormalAppend DEF NormalStep

(* The dots of a path may keep it from leading anywhere, but they do not   *)
(* make it lead anywhere else.                                             *)
LEMMA ResolveNormal ==
  ASSUME NEW host, IsTree(host), NEW p \in Seq(PathNames), Resolve(host, p) # NoIno
  PROVE  Resolve(host, Normal(p)) = Resolve(host, p)
<1> DEFINE Q == {q \in Seq(PathNames) : Resolve(host, q) # NoIno => Resolve(host, Normal(q)) = Resolve(host, q)}
<1>1. host \in SUBSET Links /\ Names \subseteq PathNames
  BY DEF IsTree, PathNames
<1>2. <<>> \in Q
  BY NormalEmpty
<1>3. ASSUME NEW q \in Seq(PathNames), NEW x \in PathNames, q \in Q
      PROVE  Append(q, x) \in Q
  <2>1. Append(q, x) \in Seq(PathNames) /\ Normal(q) \in Seq(Names) /\ Normal(q) \in Seq(PathNames)
    BY <1>1, NormalType
  <2>2. Resolve(host, Append(q, x)) = Step(host, Resolve(host, q), x)
    BY <1>1, ResolveAppend
  <2>3. Normal(Append(q, x)) = NormalStep(Normal(q), x)
    BY NormalAppend
  <2>4. ASSUME Resolve(host, Append(q, x)) # NoIno
        PROVE  Resolve(host, Normal(Append(q, x))) = Resolve(host, Append(q, x))
    <3> DEFINE i == Resolve(host, q)
    <3>1. i # NoIno /\ IsDir(host, i)
      BY <2>2, <2>4, StepNowhere, StepAlive
    <3>2. Resolve(host, Normal(q)) = i
      BY <1>3, <3>1
    <3>3. CASE x = "."
      BY <2>2, <2>3, <3>1, <3>2, <3>3, StepDots DEF NormalStep
    <3>4. CASE x = ".." /\ Normal(q) = <<>>
      <4>1. i = Root
        BY <1>1, <3>2, <3>4, ResolveEmpty
      <4>2. Normal(Append(q, x)) = <<>>
        BY <2>3, <3>4 DEF NormalStep
      <4>3. QED
        BY <1>1, <2>2, <3>1, <3>4, <4>1, <4>2, ResolveEmpty, StepDots
    <3>5. CASE x = ".." /\ Normal(q) # <<>>
      <4>1. PICK f \in Seq(Names), n \in Names : Normal(q) = Append(f, n) /\ f = Front(Normal(q))
        BY <2>1, <3>5, FrontLast
      <4>2. Normal(Append(q, x)) = f
        BY <2>3, <3>5, <4>1 DEF NormalStep
      <4>3. f \in Seq(PathNames) /\ n \in PathNames
        BY <1>1
      <4>4. i = Step(host, Resolve(host, f), n)
        BY <1>1, <3>2, <4>1, <4>3, ResolveAppend
      <4>5. PICK l \in host : l.up = Resolve(host, f) /\ l.name = n /\ l.ino = i
        BY <3>1, <4>4, StepName
      <4>6. Step(host, i, "..") = l.up
        BY <3>1, <4>5, StepDots
      <4>7. QED
        BY <2>2, <3>5, <4>2, <4>5, <4>6
    <3>6. CASE x \in Names
      <4>1. Normal(Append(q, x)) = Append(Normal(q), x)
        BY <3>6, NormalName
      <4>2. QED
        BY <1>1, <2>1, <2>2, <3>2, <4>1, ResolveAppend
    <3>7. QED
      BY <3>3, <3>4, <3>5, <3>6 DEF PathNames
  <2>5. QED
    BY <2>1, <2>4
<1> HIDE DEF Q
<1>4. Seq(PathNames) \subseteq Q
  BY <1>2, <1>3, SeqSets
<1>5. QED
  BY <1>4 DEF Q

-----------------------------------------------------------------------------
(* What is above an inode: the inode, and what its links are in.           *)
LEMMA AboveSelf ==
  ASSUME NEW host, NEW i \in Inos
  PROVE  i \in Above(host, i)
BY DEF Above

\* What is above the directory of an inode is above the inode.
LEMMA AboveUp ==
  ASSUME NEW host, IsTree(host), NEW l \in host
  PROVE  /\ l.ino \in Above(host, l.ino)
         /\ Above(host, l.up) \subseteq Above(host, l.ino)
         /\ \A i \in Inos : l.ino \in Above(host, i) => l.up \in Above(host, i)
BY DEF Above, IsTree, Links

\* Above is the least of the closed sets.
LEMMA AboveLeast ==
  ASSUME NEW host, NEW i, NEW S \in SUBSET Inos, i \in S, \A l \in host : l.ino \in S => l.up \in S
  PROVE  Above(host, i) \subseteq S
BY DEF Above

\* But for the inode itself, what is above it holds something above it.
LEMMA AboveChild ==
  ASSUME NEW host, IsTree(host), NEW i \in Inos, NEW j \in Above(host, i), j # i
  PROVE  \E l \in host : l.up = j /\ l.ino \in Above(host, i)
<1> SUFFICES ASSUME ~\E l \in host : l.up = j /\ l.ino \in Above(host, i)
             PROVE  FALSE
  OBVIOUS
<1> DEFINE S == Above(host, i) \ {j}
<1>1. S \in SUBSET Inos /\ i \in S
  BY AboveSelf DEF Above
<1>2. \A l \in host : l.ino \in S => l.up \in S
  BY AboveUp
<1>3. Above(host, i) \subseteq S
  <2> HIDE DEF S
  <2>1. QED
    BY <1>1, <1>2, AboveLeast
<1>4. QED
  BY <1>3

-----------------------------------------------------------------------------
\* The links from the inodes outside X are the same.
Keeps(old, new, X) == \A l \in old : l.ino \notin X => l \in new

(* A path without dots leads where it led when nothing on the way is in X. *)
LEMMA KeptResolve ==
  ASSUME NEW old, IsTree(old), NEW new, IsTree(new), NEW X, Keeps(old, new, X),
         NEW p \in Seq(Names), Resolve(old, p) # NoIno, Above(old, Resolve(old, p)) \cap X = {}
  PROVE  Resolve(new, p) = Resolve(old, p)
<1> DEFINE Q == {q \in Seq(Names) : Resolve(old, q) # NoIno /\ Above(old, Resolve(old, q)) \cap X = {} =>
                                      Resolve(new, q) = Resolve(old, q)}
<1>1. old \in SUBSET Links /\ new \in SUBSET Links /\ Names \subseteq PathNames
  BY DEF IsTree, PathNames
<1>2. <<>> \in Q
  BY <1>1, ResolveEmpty
<1>3. ASSUME NEW q \in Seq(Names), NEW x \in Names, q \in Q
      PROVE  Append(q, x) \in Q
  <2>1. Append(q, x) \in Seq(Names) /\ q \in Seq(PathNames) /\ x \in PathNames
    BY <1>1
  <2>2. Resolve(old, Append(q, x)) = Step(old, Resolve(old, q), x)
    BY <1>1, <2>1, ResolveAppend
  <2>3. Resolve(new, Append(q, x)) = Step(new, Resolve(new, q), x)
    BY <1>1, <2>1, ResolveAppend
  <2>4. ASSUME Resolve(old, Append(q, x)) # NoIno, Above(old, Resolve(old, Append(q, x))) \cap X = {}
        PROVE  Resolve(new, Append(q, x)) = Resolve(old, Append(q, x))
    <3>1. PICK l \in old : l.up = Resolve(old, q) /\ l.name = x /\ l.ino = Resolve(old, Append(q, x))
      BY <2>2, <2>4, StepName
    <3>2. l.ino \notin X /\ Above(old, l.up) \cap X = {}
      BY <2>4, <3>1, AboveUp
    <3>3. l \in new /\ l.up # NoIno
      BY <1>1, <3>2, HostAssumption DEF Keeps, Links
    <3>4. Resolve(new, q) = l.up
      BY <1>3, <3>1, <3>2, <3>3
    <3>5. QED
      BY <2>3, <3>1, <3>3, <3>4, StepName
  <2>5. QED
    BY <2>1, <2>4
<1> HIDE DEF Q
<1>4. Seq(Names) \subseteq Q
  BY <1>2, <1>3, SeqSets
<1>5. QED
  BY <1>4 DEF Q

(* What is above an inode now was above it before, when none of it is in X. *)
LEMMA AboveBefore ==
  ASSUME NEW old, NEW new, IsTree(new), NEW X, Keeps(old, new, X), NEW i \in Inos, Above(new, i) \cap X = {}
  PROVE  Above(old, i) \subseteq Above(new, i)
<1>1. Above(new, i) \in SUBSET Inos /\ i \in Above(new, i)
  BY AboveSelf DEF Above
<1>2. \A l \in old : l.ino \in Above(new, i) => l.up \in Above(new, i)
  BY AboveUp DEF Keeps
<1>3. QED
  BY <1>1, <1>2, AboveLeast

-----------------------------------------------------------------------------
(* remove_file and remove_dir leave a tree, and lose nothing else.         *)
Prunes(host, links) == links \subseteq host /\ \A l \in links : IsEmpty(host, l.ino)

\* What is left loses nothing of what is above it.
LEMMA PrunedTree ==
  ASSUME NEW host, IsTree(host), NEW links, Prunes(host, links)
  PROVE  /\ IsTree(host \ links)
         /\ Keeps(host, host \ links, {l.ino : l \in links})
         /\ \A i \in Inos : Alive(host \ links, i) => /\ Alive(host, i)
                                                     /\ Above(host \ links, i) \cap {l.ino : l \in links} = {}
<1> DEFINE X == {l.ino : l \in links}
<1>0. PICK new : new = host \ links
  OBVIOUS
<1> SUFFICES /\ IsTree(new)
             /\ Keeps(host, new, X)
             /\ \A i \in Inos : Alive(new, i) => Alive(host, i) /\ Above(new, i) \cap X = {}
  BY <1>0
<1>1. \A l \in new : l \in host /\ l.ino \notin X
  BY <1>0 DEF IsTree, Prunes
<1>2. \A l \in host : IsDir(new, l.up)
  <2>1. ASSUME NEW l \in host, l.up # Root
        PROVE  IsDir(new, l.up)
    <3>1. PICK m \in host : m.ino = l.up /\ m.dir
      BY <2>1 DEF IsTree, IsDir
    <3>2. m \in new
      BY <1>0, <3>1 DEF Prunes, IsEmpty
    <3>3. QED
      BY <3>1, <3>2 DEF IsDir
  <2>2. QED
    BY <2>1 DEF IsDir
<1>3. IsTree(new)
  BY <1>1, <1>2 DEF IsTree
<1>4. Keeps(host, new, X)
  BY <1>0 DEF Keeps
<1>5. ASSUME NEW i \in Inos, Alive(new, i)
      PROVE  Alive(host, i) /\ Above(new, i) \cap X = {}
  <2>1. Alive(host, i)
    BY <1>1, <1>5 DEF Alive
  <2>2. ASSUME NEW l \in links, l.ino \in Above(new, i)
        PROVE  FALSE
    <3>1. l.ino # i
      BY <1>1, <1>5, <2>2 DEF Alive, IsTree, Prunes, Links
    <3>2. \E m \in new : m.up = l.ino
      BY <1>3, <2>2, <3>1, AboveChild
    <3>3. QED
      BY <1>1, <2>2, <3>2 DEF Prunes, IsEmpty
  <2>3. QED
    BY <2>1, <2>2
<1>6. QED
  BY <1>3, <1>4, <1>5

(* And so does a rename of l, with X: what moved, and what it replaced.    *)
LEMMA MovedTree ==
  ASSUME NEW host, IsTree(host), NEW old \in host, NEW dir, NEW name \in Names, MayMove(host, old, dir, name),
         old \notin At(host, dir, name)
  PROVE  LET X == {m.ino : m \in At(host, dir, name)} \cup {old.ino}
         IN /\ IsTree(Moved(host, old, dir, name))
            /\ Keeps(host, Moved(host, old, dir, name), X)
            /\ \A i \in Inos : Alive(Moved(host, old, dir, name), i) =>
                 /\ Alive(host, i)
                 /\ old.ino \notin Above(Moved(host, old, dir, name), i) =>
                      Above(Moved(host, old, dir, name), i) \cap X = {}
<1>0. PICK new, link, gone : /\ new = Moved(host, old, dir, name) /\ link = [old EXCEPT !.up = dir, !.name = name]
                             /\ gone = At(host, dir, name)
  OBVIOUS
<1> DEFINE X == {m.ino : m \in gone} \cup {old.ino}
<1> SUFFICES /\ IsTree(new)
             /\ Keeps(host, new, X)
             /\ \A i \in Inos : Alive(new, i) =>
                  Alive(host, i) /\ (old.ino \notin Above(new, i) => Above(new, i) \cap X = {})
  BY <1>0
<1>1. /\ dir \in Inos /\ IsDir(host, dir)
      /\ link \in Links /\ link.up = dir /\ link.name = name /\ link.ino = old.ino /\ link.dir = old.dir
  BY <1>0, HostAssumption DEF MayMove, IsDir, IsTree, Links
<1>2. /\ gone \subseteq host /\ old \notin gone /\ \A l \in host : l \in gone <=> l.up = dir /\ l.name = name
      /\ \A l \in gone : IsEmpty(host, l.ino)
  BY <1>0 DEF At, MayMove
<1>3. \A l : l \in new <=> l = link \/ (l \in host /\ l # old /\ l \notin gone)
  BY <1>0 DEF Moved
<1>4. \A l \in host : IsDir(new, l.up)
  <2>1. ASSUME NEW l \in host, l.up # Root
        PROVE  IsDir(new, l.up)
    <3>1. PICK m \in host : m.ino = l.up /\ m.dir
      BY <2>1 DEF IsTree, IsDir
    <3>2. m \notin gone
      BY <1>2, <3>1 DEF IsEmpty
    <3>3. QED
      BY <1>1, <1>3, <3>1, <3>2 DEF IsDir
  <2>2. QED
    BY <2>1 DEF IsDir
<1>5. IsDir(new, dir)
  <2>1. ASSUME dir # Root
        PROVE  IsDir(new, dir)
    <3>1. PICK m \in host : m.ino = dir /\ m.dir
      BY <1>1, <2>1 DEF IsDir
    <3>2. m \notin gone
      BY <1>2, <3>1 DEF IsEmpty
    <3>3. QED
      BY <1>1, <1>3, <3>1, <3>2 DEF IsDir
  <2>2. QED
    BY <2>1 DEF IsDir
<1>6. IsTree(new)
  <2>1. new \in SUBSET Links
    BY <1>1, <1>3 DEF IsTree
  <2>2. \A l, m \in new : l.ino = m.ino => l = m
    BY <1>1, <1>3 DEF IsTree
  <2>3. \A l, m \in new : l.up = m.up /\ l.name = m.name => l = m
    BY <1>1, <1>2, <1>3 DEF IsTree
  <2>4. \A l \in new : IsDir(new, l.up)
    BY <1>1, <1>3, <1>4, <1>5
  <2>5. QED
    BY <2>1, <2>2, <2>3, <2>4 DEF IsTree
<1>7. Keeps(host, new, X)
  BY <1>3 DEF Keeps
<1>8. ASSUME NEW i \in Inos, Alive(new, i)
      PROVE  Alive(host, i) /\ (old.ino \notin Above(new, i) => Above(new, i) \cap X = {})
  <2>1. Alive(host, i)
    BY <1>1, <1>3, <1>8 DEF Alive
  <2>2. ASSUME NEW m \in gone, m.ino \in Above(new, i), old.ino \notin Above(new, i)
        PROVE  FALSE
    <3>1. CASE m.ino = i
      BY <1>1, <1>2, <1>3, <1>8, <3>1 DEF Alive, IsTree, Links
    <3>2. CASE m.ino # i
      <4>1. PICK k \in new : k.up = m.ino /\ k.ino \in Above(new, i)
        BY <1>6, <2>2, <3>2, AboveChild
      <4>2. k \in host
        BY <1>1, <1>3, <2>2, <4>1
      <4>3. QED
        BY <1>2, <4>1, <4>2 DEF IsEmpty
    <3>3. QED
      BY <3>1, <3>2
  <2>3. QED
    BY <2>1, <2>2
<1>9. QED
  BY <1>6, <1>7, <1>8

-----------------------------------------------------------------------------
(* The requests under way.                                                 *)

Auxes == UnpfsFId \cup {Unbound} \cup [path : Seq(PathNames), creat : BOOLEAN] \cup [path : Seq(PathNames)]
Kinds == {"rattach", "rwalk", "rlopen", "rlcreate", "rmkdir", "rrenameat", "runlinkat", "rclunk"}
Ats == {"walk", "open", "qid", "path", "file", "remove_dir", "remove_file", "done"}
Stages == {<<"rattach", "done">>, <<"rwalk", "walk">>, <<"rwalk", "done">>, <<"rlopen", "open">>, <<"rlopen", "done">>,
           <<"rlcreate", "qid">>, <<"rlcreate", "path">>, <<"rlcreate", "file">>, <<"rlcreate", "done">>,
           <<"rmkdir", "qid">>, <<"rmkdir", "done">>, <<"rrenameat", "done">>, <<"rclunk", "done">>,
           <<"runlinkat", "remove_dir">>, <<"runlinkat", "remove_file">>, <<"runlinkat", "done">>}
Op == [kind : Kinds, at : Ats, uses : SUBSET Fids, owns : SUBSET Fids, aux : Auxes, wnames : Seq(PathNames),
       qids : Seq(Inos), fd : Place, changed : BOOLEAN, stirred : BOOLEAN, ok : BOOLEAN]

\* The depth of a fid against its path.
Deep(fid) == Len(Normal(fid.path)) \in fid.depth..(Len(Normal(realroot)) + fid.depth + fid.made)

\* A request under way: where it is, and what it holds.
Shape(o) ==
  /\ o \in Op
  /\ <<o.kind, o.at>> \in Stages
  /\ o.kind \in {"rattach", "rwalk"} => o.aux \in UnpfsFId /\ o.aux.file = NoIno /\ Deep(o.aux) /\ o.fd = NoIno
  /\ o.kind = "rclunk" => o.aux = Unbound
  /\ o.kind = "rlopen" => o.aux \in [path : Seq(PathNames), creat : BOOLEAN]
  /\ o.at \in {"walk", "open", "remove_dir", "remove_file"} => ~o.changed
  /\ o.at \in {"qid", "path", "file"} => o.fd # NoIno
  /\ o.kind = "runlinkat" => o.fd = NoIno
  /\ o.at # "done" => o.ok

\* What it found out still holds, unless the tree changed meanwhile.
Settled(o, host) ==
  ~o.stirred =>
    /\ o.at = "walk" /\ o.qids # <<>> => Last(o.qids) = Resolve(host, o.aux.path)
    /\ o.at = "open" => o.qids = <<Resolve(host, o.aux.path)>>
    /\ o.at = "qid" => Resolve(host, o.aux.path) = o.fd
    /\ o.at \in {"path", "file"} => o.qids = <<o.fd>>
    /\ o.at = "done" /\ ~o.ok => ~o.changed
    /\ o.at = "done" /\ o.ok /\ o.qids # <<>> =>
         /\ o.fd # NoIno => Last(o.qids) = o.fd
         /\ o.kind = "rwalk" /\ Len(o.qids) = Len(o.wnames) => Last(o.qids) = Resolve(host, o.aux.path)

\* As long as i is there and nothing above it was renamed, the path, without
\* its dots, leads to i.
Leads(host, renamed, path, i) ==
  Alive(host, i) /\ Above(host, i) \cap renamed = {} => Resolve(host, Normal(path)) = i

Created(o, host, renamed) == o.at \in {"qid", "path", "file"} => Leads(host, renamed, o.aux.path, o.fd)

\* A fid and the request that is to change it.
Holds(o, fid) ==
  /\ o.kind \in {"rlopen", "rlcreate"} => fid \in UnpfsFId
  /\ o.at \in {"open", "file"} => fid.path = o.aux.path
  /\ o.at \in {"qid", "path"} => \E name \in Names : o.aux.path = Append(fid.path, name)

\* rlcreate has set the path of the fid and not yet its file.
HalfMade(f) == \E t \in Tasks : op[t].at = "file" /\ f \in op[t].owns

UnpfsInv ==
  /\ IsTree(tree)
  /\ moved \in SUBSET Inos
  /\ fids \in [Fids -> UnpfsFId \cup {Unbound}]
  /\ op \in [Tasks -> Op \cup {Idle}]
  /\ \A f \in Fids : fids[f] # Unbound => Deep(fids[f])
  /\ \A t \in Tasks : Running(t) => Shape(op[t]) /\ Settled(op[t], tree) /\ Created(op[t], tree, moved)
  /\ \A t \in Tasks : Running(t) => \A f \in op[t].owns : Holds(op[t], fids[f])
  /\ \A t, u \in Tasks : Running(t) /\ Running(u) /\ t # u => op[t].owns \cap op[u].owns = {}
  /\ \A f \in Fids : fids[f].file # NoIno /\ ~HalfMade(f) => Leads(tree, moved, fids[f].path, fids[f].file)

\* Whatever a request keeps as its new fid or its path, it has a path.
LEMMA AuxPath ==
  ASSUME NEW o \in Op
  PROVE  o.aux.path \in Seq(PathNames)
<1>1. PICK a : a = o.aux /\ a \in Auxes
  BY DEF Op
<1>2. CASE a \in UnpfsFId
  BY <1>1, <1>2 DEF UnpfsFId
<1>3. CASE a = Unbound
  <2>1. <<>> \in Seq(PathNames) /\ a.path = <<>>
    BY <1>3 DEF Unbound
  <2>2. QED
    BY <1>1, <2>1
<1>4. CASE a \in [path : Seq(PathNames), creat : BOOLEAN]
  BY <1>1, <1>4
<1>5. CASE a \in [path : Seq(PathNames)]
  BY <1>1, <1>5
<1>6. QED
  BY <1>1, <1>2, <1>3, <1>4, <1>5 DEF Auxes

-----------------------------------------------------------------------------
\* What goes on with the fids, the requests and the tree, in the state after.
Good(o, host, renamed) == Shape(o) /\ Settled(o, host) /\ Created(o, host, renamed)
Known == {fids[f].file : f \in Fids} \cup {op[t].fd : t \in {u \in Tasks : Running(u)}}

\* The tree changes outside of what is above the inodes in known, or renames it.
Evolves(old, oldmoved, new, newmoved, known) ==
  \E X : /\ Keeps(old, new, X)
         /\ oldmoved \subseteq newmoved \cup X
         /\ \A i \in known \cap Inos :
              Alive(new, i) => /\ Alive(old, i)
                               /\ Above(new, i) \cap newmoved = {} => Above(new, i) \cap X = {}

(* A path that leads to a file goes on leading to it.                      *)
LEMMA Still ==
  ASSUME NEW old, NEW oldmoved, NEW new, NEW newmoved, NEW known, IsTree(old), IsTree(new),
         Evolves(old, oldmoved, new, newmoved, known),
         NEW i \in known \cap Inos, NEW path \in Seq(PathNames), Leads(old, oldmoved, path, i)
  PROVE  Leads(new, newmoved, path, i)
<1> SUFFICES ASSUME Alive(new, i), Above(new, i) \cap newmoved = {}
             PROVE  Resolve(new, Normal(path)) = i
  BY DEF Leads
<1>1. PICK X : /\ Keeps(old, new, X)
               /\ oldmoved \subseteq newmoved \cup X
               /\ Alive(old, i)
               /\ Above(new, i) \cap X = {}
  BY DEF Evolves
<1>2. Above(old, i) \subseteq Above(new, i)
  BY <1>1, AboveBefore
<1>3. Resolve(old, Normal(path)) = i
  BY <1>1, <1>2 DEF Leads
<1>4. Normal(path) \in Seq(Names) /\ i # NoIno /\ Above(old, i) \cap X = {}
  BY <1>1, <1>2, NormalType, HostAssumption
<1>5. QED
  BY <1>1, <1>3, <1>4, KeptResolve

\* What a path leads to it leads to without its dots.
LEMMA LeadsNow ==
  ASSUME NEW host, IsTree(host), NEW renamed, NEW path \in Seq(PathNames), Resolve(host, path) # NoIno
  PROVE  Leads(host, renamed, path, Resolve(host, path))
BY ResolveNormal DEF Leads

-----------------------------------------------------------------------------
(* Another request changed the tree while o was under way.                 *)
LEMMA Stirs ==
  ASSUME NEW o, Shape(o), NEW host
  PROVE  LET x == [o EXCEPT !.stirred = TRUE]
         IN /\ x \in Op /\ Shape(x) /\ Settled(x, host)
            /\ x.kind = o.kind /\ x.at = o.at /\ x.owns = o.owns /\ x.aux = o.aux /\ x.fd = o.fd
<1>0. PICK x : x = [o EXCEPT !.stirred = TRUE]
  OBVIOUS
<1>1. o \in Op
  BY DEF Shape
<1>2. /\ x \in Op /\ x.stirred
      /\ x.kind = o.kind /\ x.at = o.at /\ x.owns = o.owns /\ x.aux = o.aux /\ x.fd = o.fd /\ x.changed = o.changed
      /\ x.ok = o.ok
  BY <1>0, <1>1 DEF Op
<1>3. Shape(x)
  BY <1>2 DEF Shape
<1>4. Settled(x, host)
  BY <1>2 DEF Settled
<1>5. QED
  BY <1>0, <1>2, <1>3, <1>4

\* What a step of t has to establish, whatever the others do.
LEMMA StepKeeps ==
  ASSUME UnpfsInv, NEW t \in Tasks,
         op' \in [Tasks -> Op \cup {Idle}],
         \A u \in Tasks \ {t} :
           op'[u] = IF Running(u) /\ tree' # tree THEN [op[u] EXCEPT !.stirred = TRUE] ELSE op[u],
         Running(t)' => /\ Good(op[t], tree, moved)'
                        /\ \A f \in op'[t].owns : Holds(op[t], fids[f])'
                        /\ IF Running(t) THEN op'[t].owns \subseteq op[t].owns ELSE op'[t].owns \cap Owned = {},
         IsTree(tree)', moved' \in SUBSET Inos,
         Evolves(tree, moved, tree', moved', Known),
         fids' \in [Fids -> UnpfsFId \cup {Unbound}],
         \A f \in Fids :
           \/ fids'[f] = fids[f] /\ ~(op[t].at = "file" /\ f \in op[t].owns)
           \/ /\ Running(t) /\ f \in op[t].owns
              /\ fids'[f] # Unbound => Deep(fids[f])'
              /\ \/ op'[t].at = "file" /\ f \in op'[t].owns
                 \/ fids'[f].file = NoIno
                 \/ Leads(tree, moved, fids[f].path, fids[f].file)'
  PROVE  UnpfsInv'
<1>1. IsTree(tree) /\ IsTree(tree')
  BY DEF UnpfsInv
<1>2. ASSUME NEW u \in Tasks, u # t, Running(u)
      PROVE  /\ Running(u)' /\ op'[u].at = op[u].at /\ op'[u].owns = op[u].owns
             /\ op'[u].kind = op[u].kind /\ op'[u].aux = op[u].aux
             /\ Good(op[u], tree, moved)'
  <2>1. Shape(op[u]) /\ Settled(op[u], tree) /\ Created(op[u], tree, moved)
    BY <1>2 DEF UnpfsInv
  <2>2. /\ op'[u].kind = op[u].kind /\ op'[u].at = op[u].at /\ op'[u].owns = op[u].owns
        /\ op'[u].aux = op[u].aux /\ op'[u].fd = op[u].fd
        /\ Shape(op[u])' /\ Settled(op[u], tree)'
    <3>1. CASE tree' = tree
      <4>1. op'[u] = op[u]
        BY <1>2, <3>1
      <4>2. QED
        BY <2>1, <3>1, <4>1
    <3>2. CASE tree' # tree
      <4>1. op'[u] = [op[u] EXCEPT !.stirred = TRUE]
        BY <1>2, <3>2
      <4>2. QED
        BY <2>1, <4>1, Stirs
    <3>3. QED
      BY <3>1, <3>2
  <2>3. Created(op[u], tree, moved)'
    <3>1. ASSUME op[u].at \in {"qid", "path", "file"}
          PROVE  Leads(tree', moved', op[u].aux.path, op[u].fd)
      <4>1. op[u].fd \in Known \cap Inos
        BY <1>2, <2>1, <3>1 DEF Known, Shape, Op, Place
      <4>2. op[u].aux.path \in Seq(PathNames)
        BY <2>1, AuxPath DEF Shape
      <4>3. Leads(tree, moved, op[u].aux.path, op[u].fd)
        BY <2>1, <3>1 DEF Created
      <4>4. QED
        BY <1>1, <4>1, <4>2, <4>3, Still
    <3>2. QED
      BY <2>2, <3>1 DEF Created
  <2>4. Running(u)'
    BY <1>2, <2>2 DEF Running
  <2>5. QED
    BY <2>2, <2>3, <2>4 DEF Good
<1>3. ASSUME NEW u \in Tasks, u # t, ~Running(u)
      PROVE  ~Running(u)'
  BY <1>3 DEF Running
<1>4. \A u \in Tasks : Running(u)' => Shape(op[u])' /\ Settled(op[u], tree)' /\ Created(op[u], tree, moved)'
  BY <1>2, <1>3 DEF Good
<1>5. \A f \in Fids : fids'[f] # Unbound => Deep(fids[f])'
  BY DEF UnpfsInv, Deep
<1>6. ASSUME NEW u \in Tasks, Running(u)', NEW f \in op'[u].owns
      PROVE  Holds(op[u], fids[f])'
  <2>1. CASE u = t
    BY <1>6, <2>1
  <2>2. CASE u # t
    <3>1. Running(u) /\ f \in op[u].owns /\ f \in Fids
      BY <1>2, <1>3, <1>4, <1>6, <2>2 DEF Shape, Op
    <3>2. Holds(op[u], fids[f])
      BY <3>1 DEF UnpfsInv
    <3>3. ~(Running(t) /\ f \in op[t].owns)
      BY <2>2, <3>1 DEF UnpfsInv
    <3>4. fids'[f] = fids[f]
      BY <3>1, <3>3
    <3>5. QED
      BY <1>2, <2>2, <3>1, <3>2, <3>4 DEF Holds
  <2>3. QED
    BY <2>1, <2>2
<1>7. ASSUME NEW u \in Tasks, NEW v \in Tasks, Running(u)', Running(v)', u # v
      PROVE  op'[u].owns \cap op'[v].owns = {}
  <2>1. \A w \in Tasks \ {t} : Running(w)' => Running(w) /\ op'[w].owns = op[w].owns
    BY <1>2, <1>3
  <2>2. \A w \in Tasks \ {t} : Running(t)' /\ Running(w) => op'[t].owns \cap op[w].owns = {}
    <3>1. CASE Running(t)
      BY <3>1 DEF UnpfsInv
    <3>2. CASE ~Running(t)
      BY <3>2 DEF Owned
    <3>3. QED
      BY <3>1, <3>2
  <2>3. CASE u = t
    BY <1>7, <2>1, <2>2, <2>3
  <2>4. CASE v = t
    BY <1>7, <2>1, <2>2, <2>4
  <2>5. CASE u # t /\ v # t
    BY <1>7, <2>1, <2>5 DEF UnpfsInv
  <2>6. QED
    BY <2>3, <2>4, <2>5
<1>8. ASSUME NEW f \in Fids, fids'[f].file # NoIno, ~HalfMade(f)'
      PROVE  Leads(tree', moved', fids'[f].path, fids'[f].file)
  <2>1. CASE fids'[f] = fids[f] /\ ~(op[t].at = "file" /\ f \in op[t].owns)
    <3>1. ~HalfMade(f)
      <4>1. ASSUME NEW u \in Tasks, op[u].at = "file", f \in op[u].owns
            PROVE  FALSE
        <5>1. u # t /\ Running(u)
          BY <2>1, <4>1 DEF Running
        <5>2. op'[u].at = "file" /\ f \in op'[u].owns
          BY <1>2, <4>1, <5>1
        <5>3. QED
          BY <1>8, <5>2 DEF HalfMade
      <4>2. QED
        BY <4>1 DEF HalfMade
    <3>2. Leads(tree, moved, fids[f].path, fids[f].file)
      BY <1>8, <2>1, <3>1 DEF UnpfsInv
    <3>3. fids[f].path \in Seq(PathNames) /\ fids[f].file \in Known \cap Inos
      <4>1. fids[f] \in UnpfsFId
        BY <1>8, <2>1 DEF UnpfsInv, Unbound
      <4>2. QED
        BY <1>8, <2>1, <4>1 DEF UnpfsFId, Known
    <3>4. QED
      BY <1>1, <2>1, <3>2, <3>3, Still
  <2>2. CASE Leads(tree, moved, fids[f].path, fids[f].file)'
    BY <2>2
  <2>3. CASE op'[t].at = "file" /\ f \in op'[t].owns
    BY <1>8, <2>3 DEF HalfMade
  <2>4. QED
    BY <1>8, <2>1, <2>2, <2>3
<1>9. QED
  <2> HIDE DEF UnpfsInv
  <2>1. UnpfsInv' <=>
          /\ IsTree(tree)' /\ moved' \in SUBSET Inos
          /\ fids' \in [Fids -> UnpfsFId \cup {Unbound}]
          /\ op' \in [Tasks -> Op \cup {Idle}]
          /\ \A f \in Fids : fids'[f] # Unbound => Deep(fids[f])'
          /\ \A u \in Tasks : Running(u)' => Shape(op[u])' /\ Settled(op[u], tree)' /\ Created(op[u], tree, moved)'
          /\ \A u \in Tasks : Running(u)' => \A f \in op'[u].owns : Holds(op[u], fids[f])'
          /\ \A u, v \in Tasks : Running(u)' /\ Running(v)' /\ u # v => op'[u].owns \cap op'[v].owns = {}
          /\ \A f \in Fids : fids'[f].file # NoIno /\ ~HalfMade(f)' => Leads(tree, moved, fids[f].path, fids[f].file)'
    BY DEF UnpfsInv
  <2>2. QED
    BY <1>4, <1>5, <1>6, <1>7, <1>8, <2>1

-----------------------------------------------------------------------------
(* What the system calls do to the tree.                                   *)
LEMMA EvolvesSame ==
  ASSUME NEW host, NEW renamed, NEW known
  PROVE  Evolves(host, renamed, host, renamed, known)
<1>1. Keeps(host, host, {}) /\ renamed \subseteq renamed \cup {}
  BY DEF Keeps
<1>2. QED
  BY <1>1 DEF Evolves

\* open(2) and mkdir(2) make an inode that no fid and no request knew.
LEMMA EvolvesGrown ==
  ASSUME NEW host, IsTree(host), NEW renamed, NEW known, NEW new, Grows(host, new), new.ino \notin known
  PROVE  Evolves(host, renamed, host \cup {new}, renamed, known)
<1>1. Keeps(host, host \cup {new}, {}) /\ renamed \subseteq renamed \cup {}
  BY DEF Keeps
<1>2. \A i \in known : Alive(host \cup {new}, i) => Alive(host, i)
  BY DEF Alive
<1>3. QED
  BY <1>1, <1>2 DEF Evolves

\* unlink(2) and rmdir(2) take away what nothing is in.
LEMMA EvolvesPruned ==
  ASSUME NEW host, IsTree(host), NEW renamed, NEW known, NEW links, Prunes(host, links)
  PROVE  Evolves(host, renamed, host \ links, renamed \ {l.ino : l \in links}, known)
<1> DEFINE X == {l.ino : l \in links}
<1>1. /\ Keeps(host, host \ links, X)
      /\ \A i \in Inos : Alive(host \ links, i) => Alive(host, i) /\ Above(host \ links, i) \cap X = {}
  BY PrunedTree
<1>2. renamed \subseteq (renamed \ X) \cup X
  OBVIOUS
<1> HIDE DEF X
<1>3. QED
  BY <1>1, <1>2 DEF Evolves, X

\* rename(2) changes where the inode leads that moves, and what is under it.
LEMMA EvolvesMoved ==
  ASSUME NEW host, IsTree(host), NEW renamed, NEW known,
         NEW old \in host, NEW dir, NEW name \in Names, MayMove(host, old, dir, name), old \notin At(host, dir, name)
  PROVE  Evolves(host, renamed, Moved(host, old, dir, name),
                 (renamed \ {m.ino : m \in At(host, dir, name)}) \cup {old.ino}, known)
<1>1. PICK X, new, newmoved : /\ X = {m.ino : m \in At(host, dir, name)} \cup {old.ino}
                              /\ new = Moved(host, old, dir, name)
                              /\ newmoved = (renamed \ {m.ino : m \in At(host, dir, name)}) \cup {old.ino}
  OBVIOUS
<1>2. /\ Keeps(host, new, X)
      /\ \A i \in Inos : Alive(new, i) => Alive(host, i) /\ (old.ino \notin Above(new, i) => Above(new, i) \cap X = {})
  BY <1>1, MovedTree
<1>3. renamed \subseteq newmoved \cup X /\ old.ino \in newmoved
  BY <1>1
<1>4. \A i \in Inos : Above(new, i) \cap newmoved = {} => old.ino \notin Above(new, i)
  BY <1>3
<1>5. Evolves(host, renamed, new, newmoved, known)
  BY <1>2, <1>3, <1>4 DEF Evolves
<1>6. QED
  BY <1>1, <1>5

-----------------------------------------------------------------------------
\* A step of a request that goes on, whatever it does.
LEMMA Proceeds ==
  ASSUME UnpfsInv, NEW t \in Tasks, NEW o, NEW newtree, Goes(t, o, newtree),
         NEW x \in Op, x = [o EXCEPT !.changed = @ \/ newtree # tree],
         Good(x, newtree, moved'), \A f \in x.owns : Holds(x, fids'[f]),
         IF Running(t) THEN x.owns \subseteq op[t].owns ELSE x.owns \cap Owned = {},
         IsTree(newtree), moved' \in SUBSET Inos, Evolves(tree, moved, newtree, moved', Known),
         fids' \in [Fids -> UnpfsFId \cup {Unbound}],
         \A f \in Fids :
           \/ fids'[f] = fids[f] /\ ~(op[t].at = "file" /\ f \in op[t].owns)
           \/ /\ Running(t) /\ f \in op[t].owns
              /\ fids'[f] # Unbound => Deep(fids'[f])
              /\ \/ x.at = "file" /\ f \in x.owns
                 \/ fids'[f].file = NoIno
                 \/ Leads(newtree, moved', fids'[f].path, fids'[f].file)
  PROVE  UnpfsInv'
<1>1. /\ tree' = newtree
      /\ op' = [u \in Tasks |->
                  IF u = t THEN x
                  ELSE IF Running(u) /\ newtree # tree THEN [op[u] EXCEPT !.stirred = TRUE]
                  ELSE op[u]]
  BY DEF Goes
<1>2. \A u \in Tasks : Running(u) => Shape(op[u])
  BY DEF UnpfsInv
<1>3. \A u \in Tasks \ {t} :
        op'[u] = IF Running(u) /\ tree' # tree THEN [op[u] EXCEPT !.stirred = TRUE] ELSE op[u]
  BY <1>1
<1>4. op' \in [Tasks -> Op \cup {Idle}]
  <2>1. \A u \in Tasks : op[u] \in Op \cup {Idle}
    BY DEF UnpfsInv
  <2>2. \A u \in Tasks : Running(u) => [op[u] EXCEPT !.stirred = TRUE] \in Op
    BY <1>2, Stirs
  <2>3. QED
    BY <1>1, <2>1, <2>2
<1>5. op'[t] = x
  BY <1>1
<1>6. /\ Good(op[t], tree, moved)'
      /\ \A f \in op'[t].owns : Holds(op[t], fids[f])'
      /\ IF Running(t) THEN op'[t].owns \subseteq op[t].owns ELSE op'[t].owns \cap Owned = {}
  BY <1>1, <1>5
<1>7. IsTree(tree)' /\ Evolves(tree, moved, tree', moved', Known)
  BY <1>1
<1>8. \A f \in Fids :
        \/ fids'[f] = fids[f] /\ ~(op[t].at = "file" /\ f \in op[t].owns)
        \/ /\ Running(t) /\ f \in op[t].owns
           /\ fids'[f] # Unbound => Deep(fids[f])'
           /\ \/ op'[t].at = "file" /\ f \in op'[t].owns
              \/ fids'[f].file = NoIno
              \/ Leads(tree, moved, fids[f].path, fids[f].file)'
  BY <1>1, <1>5
<1>9. QED
  BY <1>3, <1>4, <1>6, <1>7, <1>8, StepKeeps

\* One that leaves the fids alone.
LEMMA Continues ==
  ASSUME UnpfsInv, NEW t \in Tasks, NEW o, NEW newtree, Goes(t, o, newtree), UNCHANGED fids, op[t].at # "file",
         NEW x \in Op, x = [o EXCEPT !.changed = @ \/ newtree # tree],
         Good(x, newtree, moved'), \A f \in x.owns : Holds(x, fids[f]),
         IF Running(t) THEN x.owns \subseteq op[t].owns ELSE x.owns \cap Owned = {},
         IsTree(newtree), moved' \in SUBSET Inos, Evolves(tree, moved, newtree, moved', Known)
  PROVE  UnpfsInv'
<1>1. fids' \in [Fids -> UnpfsFId \cup {Unbound}]
  BY DEF UnpfsInv
<1>2. \A f \in x.owns : Holds(x, fids'[f])
  OBVIOUS
<1>3. \A f \in Fids : fids'[f] = fids[f] /\ ~(op[t].at = "file" /\ f \in op[t].owns)
  OBVIOUS
<1>4. QED
  BY <1>1, <1>2, <1>3, Proceeds

\* And the tree.
LEMMA Stays ==
  ASSUME UnpfsInv, NEW t \in Tasks, NEW o \in Op, Goes(t, o, tree), UNCHANGED <<fids, moved>>, op[t].at # "file",
         Shape(o), Settled(o, tree), Created(o, tree, moved),
         \A f \in o.owns : Holds(o, fids[f]),
         IF Running(t) THEN o.owns \subseteq op[t].owns ELSE o.owns \cap Owned = {}
  PROVE  UnpfsInv'
<1>1. o = [o EXCEPT !.changed = @ \/ tree # tree]
  BY DEF Op
<1>2. Good(o, tree, moved') /\ Evolves(tree, moved, tree, moved', Known)
  BY EvolvesSame DEF Good
<1>3. IsTree(tree) /\ moved' \in SUBSET Inos
  BY DEF UnpfsInv
<1>4. QED
  BY <1>1, <1>2, <1>3, Continues

\* A request starts as one.
LEMMA TaskOp ==
  ASSUME NEW kind \in Kinds, NEW at \in Ats, NEW uses \in SUBSET Fids, NEW owns \in SUBSET Fids, NEW aux \in Auxes
  PROVE  Task(kind, at, uses, owns, aux) \in Op
<1>1. <<>> \in Seq(PathNames) /\ <<>> \in Seq(Inos)
  OBVIOUS
<1>2. QED
  BY <1>1 DEF Task, Op, Place

\* The export is as deep in the host as its path without dots.
LEMMA ExportDepth == Len(Normal(realroot)) \in Nat
<1>1. Normal(realroot) \in Seq(Names)
  BY UnpfsAssumption, NormalType
<1>2. QED
  BY <1>1

\* rattach makes a fid of the export itself, or fails if it has gone.
LEMMA rattachKeeps ==
  ASSUME UnpfsInv, NEW t \in Tasks, NEW f \in Fids, rattach(t, f)
  PROVE  UnpfsInv'
<1> DEFINE aux == [path |-> realroot, depth |-> 0, file |-> NoIno, made |-> 0]
           k == Task("rattach", "done", {}, {f}, aux)
<1>1. aux \in UnpfsFId /\ aux.file = NoIno /\ Deep(aux)
  <2>1. 0 \in 0..max_depth
    BY UnpfsAssumption
  <2>2. QED
    BY <2>1, ExportDepth, UnpfsAssumption DEF UnpfsFId, Deep
<1>2. k \in Op
  <2> HIDE DEF aux
  <2>1. aux \in Auxes /\ "rattach" \in Kinds /\ "done" \in Ats
    BY <1>1 DEF Auxes, Kinds, Ats
  <2>2. QED
    BY <2>1, TaskOp
<1>3. PICK o : /\ o = (IF Qid(realroot) = NoIno THEN Fails(k) ELSE [k EXCEPT !.qids = <<Qid(realroot)>>])
               /\ Goes(t, o, tree)
  BY DEF rattach
<1>4. /\ k.kind = "rattach" /\ k.at = "done" /\ k.owns = {f} /\ k.aux = aux /\ k.fd = NoIno /\ k.ok
      /\ ~k.changed
  BY DEF Task
<1> HIDE DEF k, aux
<1>5. /\ o \in Op /\ o.kind = "rattach" /\ o.at = "done" /\ o.owns = {f} /\ o.aux = aux /\ o.fd = NoIno
      /\ ~o.changed
  <2>1. CASE Qid(realroot) = NoIno
    BY <1>2, <1>3, <1>4, <2>1 DEF Fails, Op
  <2>2. CASE Qid(realroot) # NoIno
    <3>1. Qid(realroot) \in Place
      BY UnpfsAssumption, ResolveType DEF Qid, UnpfsInv, IsTree
    <3>2. <<Qid(realroot)>> \in Seq(Inos)
      BY <2>2, <3>1 DEF Place
    <3>3. QED
      BY <1>2, <1>3, <1>4, <2>2, <3>2 DEF Op
  <2>3. QED
    BY <2>1, <2>2
<1>6. Shape(o) /\ Settled(o, tree) /\ Created(o, tree, moved)
  BY <1>1, <1>5 DEF Shape, Stages, Settled, Created
<1>7. \A g \in o.owns : Holds(o, fids[g])
  BY <1>5 DEF Holds
<1>8. UNCHANGED <<fids, moved>> /\ ~Running(t) /\ o.owns \cap Owned = {} /\ op[t].at # "file"
  BY <1>5 DEF rattach, MayOwn, Running
<1>9. QED
  BY <1>3, <1>5, <1>6, <1>7, <1>8, Stays

\* rclunk takes a fid away with its reply.
LEMMA rclunkKeeps ==
  ASSUME UnpfsInv, NEW t \in Tasks, NEW f \in Fids, rclunk(t, f)
  PROVE  UnpfsInv'
<1> DEFINE o == Task("rclunk", "done", {}, {f}, Unbound)
<1>1. o \in Op
  <2>1. Unbound \in Auxes /\ "rclunk" \in Kinds /\ "done" \in Ats
    BY DEF Auxes, Kinds, Ats
  <2>2. QED
    BY <2>1, TaskOp
<1>2. o.kind = "rclunk" /\ o.at = "done" /\ o.owns = {f} /\ o.aux = Unbound /\ o.fd = NoIno /\ o.ok /\ o.qids = <<>>
  BY DEF Task
<1> HIDE DEF o
<1>3. Shape(o) /\ Settled(o, tree) /\ Created(o, tree, moved)
  BY <1>1, <1>2 DEF Shape, Stages, Settled, Created
<1>4. \A g \in o.owns : Holds(o, fids[g])
  BY <1>2 DEF Holds
<1>5. Goes(t, o, tree) /\ UNCHANGED <<fids, moved>> /\ ~Running(t) /\ o.owns \cap Owned = {} /\ op[t].at # "file"
  BY <1>2 DEF rclunk, o, MayOwn, Running
<1>6. QED
  BY <1>1, <1>3, <1>4, <1>5, Stays

\* rwalk starts from the path and the depth of a fid.
LEMMA rwalkKeeps ==
  ASSUME UnpfsInv, NEW t \in Tasks, NEW f \in Fids, NEW newfid \in Fids, NEW wnames \in WalkNames,
         rwalk(t, f, newfid, wnames)
  PROVE  UnpfsInv'
<1> DEFINE aux == [fids[f] EXCEPT !.file = NoIno]
           k == Task("rwalk", "walk", {f}, {newfid}, aux)
           o == [k EXCEPT !.wnames = wnames]
<1>1. fids[f] \in UnpfsFId /\ Deep(fids[f])
  BY DEF rwalk, MayUse, UnpfsInv
<1>2. aux \in UnpfsFId /\ aux.file = NoIno /\ Deep(aux)
  BY <1>1 DEF UnpfsFId, Deep
<1>3. k \in Op
  <2> HIDE DEF aux
  <2>1. aux \in Auxes /\ "rwalk" \in Kinds /\ "walk" \in Ats
    BY <1>2 DEF Auxes, Kinds, Ats
  <2>2. QED
    BY <2>1, TaskOp
<1>4. o \in Op
  BY <1>3, UnpfsAssumption DEF Op
<1>5. /\ o.kind = "rwalk" /\ o.at = "walk" /\ o.owns = {newfid} /\ o.aux = aux /\ o.fd = NoIno
      /\ o.qids = <<>> /\ ~o.changed /\ o.ok
  BY DEF Task
<1> HIDE DEF o, k, aux
<1>6. Shape(o) /\ Settled(o, tree) /\ Created(o, tree, moved)
  BY <1>2, <1>4, <1>5 DEF Shape, Stages, Settled, Created
<1>7. \A g \in o.owns : Holds(o, fids[g])
  BY <1>5 DEF Holds
<1>8. Goes(t, o, tree) /\ UNCHANGED <<fids, moved>> /\ ~Running(t) /\ o.owns \cap Owned = {} /\ op[t].at # "file"
  BY <1>5 DEF rwalk, o, k, aux, MayOwn, Running
<1>9. QED
  BY <1>4, <1>6, <1>7, <1>8, Stays

\* A request under way keeps to its kind until it is done.
LEMMA RunningShape ==
  ASSUME UnpfsInv, NEW t \in Tasks, Running(t)
  PROVE  /\ op[t] \in Op /\ Shape(op[t]) /\ Settled(op[t], tree) /\ Created(op[t], tree, moved)
         /\ \A f \in op[t].owns : f \in Fids /\ Holds(op[t], fids[f])
         /\ <<op[t].kind, "done">> \in Stages
BY DEF UnpfsInv, Shape, Op, Stages

\* A request that gives up.
LEMMA FailsKeeps ==
  ASSUME UnpfsInv, NEW t \in Tasks, Running(t), Goes(t, Fails(op[t]), tree), UNCHANGED <<fids, moved>>,
         op[t].at # "file", op[t].stirred \/ ~op[t].changed
  PROVE  UnpfsInv'
<1> DEFINE o == Fails(op[t])
<1>1. /\ op[t] \in Op /\ Shape(op[t]) /\ <<op[t].kind, "done">> \in Stages
      /\ \A f \in op[t].owns : Holds(op[t], fids[f])
  BY RunningShape
<1>2. /\ o \in Op /\ o.kind = op[t].kind /\ o.at = "done" /\ ~o.ok /\ o.owns = op[t].owns /\ o.aux = op[t].aux
      /\ o.fd = op[t].fd /\ o.stirred = op[t].stirred /\ o.changed = op[t].changed
  BY <1>1 DEF Fails, Op, Ats
<1> HIDE DEF o
<1>3. Shape(o)
  BY <1>1, <1>2 DEF Shape
<1>4. Settled(o, tree) /\ Created(o, tree, moved)
  BY <1>2 DEF Settled, Created
<1>5. \A f \in o.owns : Holds(o, fids[f])
  BY <1>1, <1>2 DEF Holds
<1>6. QED
  BY <1>2, <1>3, <1>4, <1>5, Stays DEF o

\* A walk that came to its end.
LEMMA rwalk_endKeeps ==
  ASSUME UnpfsInv, NEW t \in Tasks, rwalk_end(t)
  PROVE  UnpfsInv'
<1> DEFINE o == Done(op[t])
<1>0. Goes(t, o, tree) /\ UNCHANGED <<fids, moved>> /\ Running(t) /\ op[t].at = "walk"
  BY DEF rwalk_end, Running
<1>1. /\ op[t] \in Op /\ Shape(op[t]) /\ Settled(op[t], tree) /\ <<op[t].kind, "done">> \in Stages
      /\ \A f \in op[t].owns : Holds(op[t], fids[f])
  BY <1>0, RunningShape
<1>2. op[t].kind = "rwalk"
  BY <1>0, <1>1 DEF Shape, Stages
<1>3. /\ o \in Op /\ o.kind = "rwalk" /\ o.at = "done" /\ o.owns = op[t].owns /\ o.aux = op[t].aux /\ o.ok = op[t].ok
      /\ o.fd = op[t].fd /\ o.stirred = op[t].stirred /\ o.changed = op[t].changed /\ o.qids = op[t].qids
  BY <1>1, <1>2 DEF Done, Op, Ats
<1> HIDE DEF o
<1>4. Shape(o)
  BY <1>1, <1>2, <1>3 DEF Shape
<1>5. Settled(o, tree) /\ Created(o, tree, moved)
  BY <1>0, <1>1, <1>2, <1>3 DEF Settled, Created, Shape
<1>6. \A f \in o.owns : Holds(o, fids[f])
  BY <1>3 DEF Holds
<1>7. QED
  BY <1>0, <1>3, <1>4, <1>5, <1>6, Stays

\* get_qid after the file or the directory was made.
LEMMA created_qidKeeps ==
  ASSUME UnpfsInv, NEW t \in Tasks, created_qid(t)
  PROVE  UnpfsInv'
<1> DEFINE p == op[t]
           qid == Resolve(tree, p.aux.path)
           o == [p EXCEPT !.qids = <<qid>>, !.at = IF p.kind = "rlcreate" THEN "path" ELSE "done"]
<1>0. UNCHANGED <<fids, moved>> /\ Running(t) /\ p.at = "qid"
  BY DEF created_qid, Running
<1>1. /\ p \in Op /\ Shape(p) /\ Settled(p, tree) /\ Created(p, tree, moved) /\ <<p.kind, "done">> \in Stages
      /\ \A f \in p.owns : Holds(p, fids[f])
  BY <1>0, RunningShape
<1>2. p.kind \in {"rlcreate", "rmkdir"} /\ p.fd # NoIno
  BY <1>0, <1>1 DEF Shape, Stages
<1>3. CASE qid = NoIno
  <2>1. Goes(t, Fails(op[t]), tree)
    BY <1>3 DEF created_qid, Qid
  <2>2. p.stirred
    BY <1>0, <1>1, <1>2, <1>3 DEF Settled
  <2>3. QED
    BY <1>0, <2>1, <2>2, FailsKeeps
<1>4. CASE qid # NoIno
  <2>1. Goes(t, o, tree)
    BY <1>4 DEF created_qid, Qid
  <2>2. qid \in Inos /\ p.aux.path \in Seq(PathNames)
    BY <1>1, <1>4, AuxPath, ResolveType DEF UnpfsInv, IsTree, Place
  <2>3. o \in Op
    <3>1. <<qid>> \in Seq(Inos)
      BY <2>2
    <3> HIDE DEF qid
    <3>2. QED
      BY <1>1, <3>1 DEF Op, Ats
  <2>4. /\ o.kind = p.kind /\ o.at = (IF p.kind = "rlcreate" THEN "path" ELSE "done") /\ o.owns = p.owns
        /\ o.aux = p.aux /\ o.fd = p.fd /\ o.stirred = p.stirred /\ o.changed = p.changed /\ o.qids = <<qid>>
        /\ o.ok
    BY <1>0, <1>1 DEF Op, Shape
  <2>5. ~p.stirred => o.qids = <<p.fd>>
    BY <1>0, <1>1, <2>4 DEF Settled
  <2> HIDE DEF o, qid
  <2>6. Shape(o)
    BY <1>0, <1>1, <1>2, <2>3, <2>4 DEF Shape, Stages
  <2>7. Settled(o, tree)
    <3>1. ASSUME ~o.stirred
          PROVE  o.qids = <<o.fd>> /\ Last(o.qids) = o.fd
      <4>1. o.qids = <<o.fd>>
        BY <2>4, <2>5, <3>1
      <4>2. QED
        BY <4>1 DEF Last
    <3>2. o.at \in {"path", "done"} /\ o.kind # "rwalk" /\ o.ok
      BY <1>2, <2>4
    <3>3. QED
      BY <3>1, <3>2 DEF Settled
  <2>8. Created(o, tree, moved)
    BY <1>0, <1>1, <2>4 DEF Created
  <2>9. \A f \in o.owns : Holds(o, fids[f])
    BY <1>0, <1>1, <1>2, <2>4 DEF Holds
  <2>10. QED
    BY <1>0, <2>1, <2>3, <2>4, <2>6, <2>7, <2>8, <2>9, Stays
<1>5. QED
  BY <1>3, <1>4

(* The depth goes with the components of a path.                           *)
LEMMA DeepStep ==
  ASSUME NEW fid \in UnpfsFId, Deep(fid), NEW name \in PathNames
  PROVE  /\ DepthAfter(fid.depth, name) \in Nat
         /\ Len(Normal(Append(fid.path, name))) \in
              DepthAfter(fid.depth, name)..(Len(Normal(realroot)) + DepthAfter(fid.depth, name) + fid.made)
         /\ ~TooDeep(name, DepthAfter(fid.depth, name)) => DepthAfter(fid.depth, name) \in 0..max_depth
<1>1. PICK n, d, m, r, q : /\ q = Normal(fid.path) /\ n = Len(q) /\ d = fid.depth /\ m = fid.made
                           /\ r = Len(Normal(realroot)) /\ q \in Seq(Names)
  BY NormalType DEF UnpfsFId
<1>2. /\ n \in Nat /\ d \in Nat /\ m \in Nat /\ r \in Nat /\ max_depth \in Nat
      /\ d <= n /\ n <= r + d + m /\ d <= max_depth
  BY <1>1, ExportDepth, UnpfsAssumption DEF Deep, UnpfsFId
<1>3. Normal(Append(fid.path, name)) = NormalStep(q, name)
  BY <1>1, NormalAppend DEF UnpfsFId
<1>4. CASE name = "."
  <2>1. DepthAfter(d, name) = d /\ NormalStep(q, name) = q
    BY <1>4 DEF DepthAfter, NormalStep
  <2>2. QED
    BY <1>1, <1>2, <1>3, <2>1 DEF TooDeep
<1>5. CASE name = ".."
  <2>1. DepthAfter(d, name) = (IF d = 0 THEN 0 ELSE d - 1) /\ NormalStep(q, name) = (IF q = <<>> THEN q ELSE Front(q))
    BY <1>5 DEF DepthAfter, NormalStep
  <2>2. Len(NormalStep(q, name)) = IF n = 0 THEN 0 ELSE n - 1
    <3>1. CASE q = <<>>
      <4>1. n = 0 /\ NormalStep(q, name) = q
        BY <1>1, <2>1, <3>1
      <4>2. QED
        BY <1>1, <4>1
    <3>2. CASE q # <<>>
      <4>1. PICK f \in Seq(Names), x \in Names : f = Front(q) /\ q = Append(f, x)
        BY <1>1, <3>2, FrontLast
      <4>2. n = Len(f) + 1 /\ NormalStep(q, name) = f /\ Len(f) \in Nat
        BY <1>1, <2>1, <3>2, <4>1
      <4>3. QED
        BY <4>2
    <3>3. QED
      BY <3>1, <3>2
  <2>3. QED
    BY <1>1, <1>2, <1>3, <2>1, <2>2 DEF TooDeep
<1>6. CASE name # "." /\ name # ".."
  <2>1. DepthAfter(d, name) = d + 1 /\ NormalStep(q, name) = Append(q, name) /\ name \in Names
    BY <1>6 DEF DepthAfter, NormalStep, PathNames
  <2>2. Len(NormalStep(q, name)) = n + 1
    BY <1>1, <2>1
  <2>3. d + 1 \in Nat /\ n + 1 \in (d + 1)..(r + (d + 1) + m)
    BY <1>2
  <2>4. ~TooDeep(name, d + 1) => d + 1 \in 0..max_depth
    BY <1>2, <1>6 DEF TooDeep
  <2>5. QED
    BY <1>1, <1>3, <2>1, <2>2, <2>3, <2>4
<1>7. QED
  BY <1>4, <1>5, <1>6

\* The last element is the one that was appended.
LEMMA LastAppended ==
  ASSUME NEW S, NEW s \in Seq(S), NEW x \in S
  PROVE  \E r \in Seq(S) : r = Append(s, x) /\ Last(r) = x
<1>1. Append(s, x) \in Seq(S) /\ Last(Append(s, x)) = x
  BY DEF Last
<1>2. QED
  BY <1>1

\* A component of a walk: too deep, not there, or one qid more.
LEMMA rwalk_nextKeeps ==
  ASSUME UnpfsInv, NEW t \in Tasks, rwalk_next(t)
  PROVE  UnpfsInv'
<1> DEFINE p == op[t]
           name == p.wnames[Len(p.qids) + 1]
           depth == DepthAfter(p.aux.depth, name)
           path == Append(p.aux.path, name)
           walked == [p EXCEPT !.aux.path = path, !.aux.depth = depth]
           qid == Resolve(tree, path)
           found == [walked EXCEPT !.qids = Append(@, qid)]
<1>0. /\ UNCHANGED <<fids, moved>> /\ Running(t) /\ p.at = "walk" /\ Len(p.qids) < Len(p.wnames)
      /\ Goes(t, IF TooDeep(name, depth) \/ (qid = NoIno /\ p.qids = <<>>) THEN Fails(p)
                 ELSE IF qid = NoIno THEN Done(walked)
                 ELSE found, tree)
  BY DEF rwalk_next, Running, QidStep, Qid
<1>1. /\ p \in Op /\ Shape(p) /\ Settled(p, tree) /\ <<p.kind, "done">> \in Stages
      /\ \A f \in p.owns : Holds(p, fids[f])
  BY <1>0, RunningShape
<1>2. /\ p.kind = "rwalk" /\ p.aux \in UnpfsFId /\ p.aux.file = NoIno /\ Deep(p.aux) /\ p.fd = NoIno
      /\ ~p.changed /\ p.ok
  BY <1>0, <1>1 DEF Shape, Stages
<1>3. name \in PathNames /\ path \in Seq(PathNames) /\ qid \in Place
  <2>1. p.wnames \in Seq(PathNames) /\ p.qids \in Seq(Inos) /\ p.aux.path \in Seq(PathNames)
    BY <1>1, <1>2 DEF Op, UnpfsFId
  <2>2. name \in PathNames
    BY <1>0, <2>1
  <2>3. path \in Seq(PathNames)
    BY <2>1, <2>2
  <2>4. QED
    BY <2>2, <2>3, ResolveType DEF UnpfsInv, IsTree
<1>4. CASE TooDeep(name, depth) \/ (qid = NoIno /\ p.qids = <<>>)
  <2>1. Goes(t, Fails(op[t]), tree)
    BY <1>0, <1>4
  <2>2. QED
    BY <1>0, <1>2, <2>1, FailsKeeps
<1>5. CASE ~(TooDeep(name, depth) \/ (qid = NoIno /\ p.qids = <<>>))
  <2> DEFINE aux == [p.aux EXCEPT !.path = path, !.depth = depth]
  <2>1. depth \in 0..max_depth /\ Len(Normal(path)) \in depth..(Len(Normal(realroot)) + depth + p.aux.made)
    BY <1>2, <1>3, <1>5, DeepStep
  <2>2. aux \in UnpfsFId /\ aux.file = NoIno /\ Deep(aux) /\ aux.path = path
    <3> HIDE DEF path, depth
    <3>1. QED
      BY <1>2, <1>3, <2>1 DEF UnpfsFId, Deep
  <2>3. aux \in Auxes
    BY <2>2 DEF Auxes
  <2>4. walked = [p EXCEPT !.aux = aux]
    BY <1>1, <1>2 DEF Op, UnpfsFId
  <2> HIDE DEF aux, walked, path, depth, qid
  <2>5. /\ walked \in Op /\ walked.kind = "rwalk" /\ walked.at = "walk" /\ walked.owns = p.owns /\ walked.aux = aux
        /\ walked.fd = NoIno /\ walked.qids = p.qids /\ walked.wnames = p.wnames
        /\ walked.stirred = p.stirred /\ ~walked.changed /\ walked.ok
    BY <1>0, <1>1, <1>2, <2>3, <2>4 DEF Op
  <2>6. CASE qid = NoIno
    <3> DEFINE o == Done(walked)
    <3>1. /\ o \in Op /\ o.kind = "rwalk" /\ o.at = "done" /\ o.owns = p.owns /\ o.aux = aux
          /\ o.fd = NoIno /\ o.qids = p.qids /\ o.wnames = p.wnames /\ o.ok /\ ~o.changed
      BY <2>5 DEF Op, Done, Ats
    <3>2. Goes(t, o, tree)
      BY <1>0, <1>5, <2>6
    <3> HIDE DEF o
    <3>3. Shape(o)
      BY <2>2, <3>1 DEF Shape, Stages
    <3>4. Len(o.qids) # Len(o.wnames)
      BY <1>0, <1>1, <3>1 DEF Op
    <3>5. Settled(o, tree) /\ Created(o, tree, moved) /\ \A f \in o.owns : Holds(o, fids[f])
      BY <3>1, <3>4 DEF Settled, Created, Holds
    <3>6. QED
      BY <1>0, <3>1, <3>2, <3>3, <3>5, Stays
  <2>7. CASE qid # NoIno
    <3>1. p.qids \in Seq(Inos) /\ qid \in Inos
      BY <1>1, <1>3, <2>7 DEF Op, Place
    <3>2. PICK qids \in Seq(Inos) : qids = Append(p.qids, qid) /\ Last(qids) = qid
      BY <3>1, LastAppended
    <3>4. found = [walked EXCEPT !.qids = qids]
      BY <2>5, <3>2
    <3> HIDE DEF found
    <3>5. /\ found \in Op /\ found.kind = "rwalk" /\ found.at = "walk" /\ found.owns = p.owns /\ found.aux = aux
          /\ found.fd = NoIno /\ found.qids = qids /\ ~found.changed /\ found.ok
      BY <2>5, <3>4 DEF Op
    <3>6. Goes(t, found, tree)
      BY <1>0, <1>5, <2>7
    <3>7. Shape(found)
      BY <2>2, <3>5 DEF Shape, Stages
    <3>8. Settled(found, tree) /\ Created(found, tree, moved) /\ \A f \in found.owns : Holds(found, fids[f])
      BY <2>2, <3>2, <3>5 DEF Settled, Created, Holds, qid
    <3>9. QED
      BY <1>0, <3>5, <3>6, <3>7, <3>8, Stays
  <2>8. QED
    BY <2>6, <2>7
<1>6. QED
  BY <1>4, <1>5

-----------------------------------------------------------------------------
(* open(2): what it opens is what the path leads to then.                  *)
LEMMA OpenedIs ==
  ASSUME UnpfsInv, NEW path \in Seq(PathNames), NEW creat, NEW r \in Opened(path, creat)
  PROVE  /\ r[1] = NoIno => r[2] = tree
         /\ r[1] # NoIno => r[1] \in Inos /\ Resolve(r[2], path) = r[1]
         /\ IsTree(r[2])
         /\ Evolves(tree, moved, r[2], moved, Known)
         /\ Qid(path) # NoIno => r[2] = tree /\ r[1] \in {NoIno, Qid(path)}
<1>1. IsTree(tree) /\ Qid(path) \in Place
  BY ResolveType DEF UnpfsInv, IsTree, Qid
<1>2. CASE Qid(path) # NoIno
  <2>1. r[2] = tree /\ r[1] \in {NoIno, Qid(path)}
    BY <1>2 DEF Opened
  <2>2. QED
    BY <1>1, <1>2, <2>1, EvolvesSame DEF Qid, Place
<1>3. CASE Qid(path) = NoIno /\ r[1] = NoIno /\ r[2] = tree
  BY <1>1, <1>3, EvolvesSame
<1>4. CASE Qid(path) = NoIno /\ ~(r[1] = NoIno /\ r[2] = tree)
  <2>1. /\ path # <<>> /\ Last(path) \in Names /\ IsDir(tree, Dir(path))
        /\ \E i \in Unused :
             r = <<i, tree \cup {[up |-> Dir(path), name |-> Last(path), ino |-> i, dir |-> FALSE]}>>
    <3>1. CASE creat /\ path # <<>> /\ Last(path) \in Names /\ IsDir(tree, Dir(path))
      BY <1>4, <3>1 DEF Opened
    <3>2. CASE ~(creat /\ path # <<>> /\ Last(path) \in Names /\ IsDir(tree, Dir(path)))
      BY <1>4, <3>2 DEF Opened
    <3>3. QED
      BY <3>1, <3>2
  <2>2. PICK i \in Unused :
          r = <<i, tree \cup {[up |-> Dir(path), name |-> Last(path), ino |-> i, dir |-> FALSE]}>>
    BY <2>1
  <2>3. PICK new : new = [up |-> Dir(path), name |-> Last(path), ino |-> i, dir |-> FALSE]
    OBVIOUS
  <2>4. r = <<i, tree \cup {new}>>
    BY <2>2, <2>3
  <2>5. /\ new = [up |-> Dir(path), name |-> Last(path), ino |-> r[1], dir |-> FALSE]
        /\ r[1] \in Unused /\ r[2] = tree \cup {new}
    BY <2>2, <2>3, <2>4
  <2>6. r[1] \in Inos /\ ~Alive(tree, r[1]) /\ r[1] \notin Known
    BY <2>5 DEF Unused, Known
  <2>7. Front(path) \in Seq(PathNames) /\ path = Append(Front(path), Last(path)) /\ Last(path) \in PathNames
    BY <2>1, FrontLast
  <2>8. Qid(path) = Step(tree, Dir(path), Last(path))
    BY <1>1, <2>7, ResolveAppend DEF Qid, Dir, IsTree
  <2>9. Grows(tree, new)
    <3>1. At(tree, new.up, new.name) = {}
      BY <1>1, <1>4, <2>1, <2>5, <2>8, StepName DEF At
    <3>2. new.up \in Inos /\ r[1] # Root
      BY <1>1, <2>1, <2>5, <2>6, HostAssumption DEF IsDir, Alive, IsTree, Links
    <3>3. QED
      BY <2>1, <2>5, <2>6, <3>1, <3>2 DEF Grows, Links
  <2>10. IsTree(r[2]) /\ Evolves(tree, moved, r[2], moved, Known)
    <3>1. IsTree(tree \cup {new})
      BY <1>1, <2>9, GrownTree
    <3>2. new.ino \notin Known
      BY <2>5, <2>6
    <3>3. Evolves(tree, moved, tree \cup {new}, moved, Known)
      BY <1>1, <2>9, <3>2, EvolvesGrown
    <3>4. QED
      BY <2>5, <3>1, <3>3
  <2>11. Resolve(r[2], Append(Front(path), Last(path))) = r[1]
    <3>1. PICK d : d = Front(path)
      OBVIOUS
    <3>2. d \in Seq(PathNames) /\ Resolve(tree, d) = new.up /\ new.name \in Names
      BY <2>1, <2>5, <2>7, <3>1 DEF Dir
    <3>3. Resolve(tree \cup {new}, Append(d, new.name)) = new.ino
      BY <1>1, <2>9, <3>2, GrownFinds
    <3>4. QED
      BY <2>5, <3>1, <3>3
  <2>12. r[1] # NoIno
    BY <2>6, HostAssumption
  <2>13. QED
    BY <1>4, <2>6, <2>7, <2>10, <2>11, <2>12
<1>5. QED
  BY <1>2, <1>3, <1>4

\* rlopen asks for the qid first, and is done with a directory.
LEMMA rlopenKeeps ==
  ASSUME UnpfsInv, NEW t \in Tasks, NEW f \in Fids, NEW creat \in BOOLEAN, rlopen(t, f, creat)
  PROVE  UnpfsInv'
<1> DEFINE path == fids[f].path
           aux == [path |-> path, creat |-> creat]
           k == Task("rlopen", "open", {}, {f}, aux)
           qid == Resolve(tree, path)
           p == [k EXCEPT !.qids = <<qid>>]
           none == [Fails(p) EXCEPT !.qids = <<>>]
<1>0. /\ UNCHANGED <<fids, moved>> /\ ~Running(t) /\ op[t].at # "file" /\ {f} \cap Owned = {}
      /\ Goes(t, CASE qid = NoIno -> none [] qid # NoIno /\ IsDir(tree, qid) -> Done(p) [] OTHER -> p, tree)
  BY DEF rlopen, Running, Qid, MayOwn
<1>1. fids[f] \in UnpfsFId /\ path \in Seq(PathNames)
  BY DEF rlopen, MayUse, UnpfsInv, UnpfsFId
<1>2. aux \in [path : Seq(PathNames), creat : BOOLEAN] /\ aux \in Auxes
  BY <1>1 DEF Auxes
<1>3. qid \in Place
  BY <1>1, ResolveType DEF UnpfsInv, IsTree
<1>4. /\ k \in Op /\ k.kind = "rlopen" /\ k.at = "open" /\ k.owns = {f} /\ k.aux = aux /\ k.fd = NoIno
      /\ k.qids = <<>> /\ ~k.changed /\ ~k.stirred /\ k.ok
  <2> HIDE DEF aux
  <2>1. "rlopen" \in Kinds /\ "open" \in Ats
    BY DEF Kinds, Ats
  <2>2. k \in Op
    BY <1>2, <2>1, TaskOp
  <2>3. QED
    BY <2>2 DEF Task
<1>5. /\ aux.path = path
      /\ <<"rlopen", "open">> \in Stages /\ <<"rlopen", "done">> \in Stages
  BY DEF Stages
<1>6. ASSUME NEW o \in Op, Goes(t, o, tree), o.kind = "rlopen", o.owns = {f}, o.aux = aux, ~o.changed,
             \/ o.at = "open" /\ o.qids = <<qid>> /\ o.ok
             \/ o.at = "done" /\ o.fd = NoIno
      PROVE  UnpfsInv'
  <2> HIDE DEF aux, path
  <2>1. Shape(o)
    BY <1>2, <1>5, <1>6 DEF Shape
  <2>2. Settled(o, tree) /\ Created(o, tree, moved)
    BY <1>5, <1>6 DEF Settled, Created
  <2>3. \A g \in o.owns : Holds(o, fids[g])
    BY <1>1, <1>5, <1>6 DEF Holds, path
  <2>4. QED
    BY <1>0, <1>6, <2>1, <2>2, <2>3, Stays
<1> HIDE DEF aux, k, qid, path
<1>7. CASE qid = NoIno
  <2>1. Goes(t, none, tree)
    BY <1>0, <1>7
  <2>2. <<>> \in Seq(Inos)
    OBVIOUS
  <2>3. none \in Op /\ none.kind = "rlopen" /\ none.owns = {f} /\ none.aux = aux /\ ~none.changed
        /\ none.at = "done" /\ none.fd = NoIno
    BY <1>4, <2>2 DEF Op, Fails, Ats
  <2>4. QED
    BY <1>6, <2>1, <2>3
<1>8. CASE qid # NoIno
  <2>1. <<qid>> \in Seq(Inos)
    BY <1>3, <1>8 DEF Place
  <2>2. /\ p \in Op /\ p.kind = "rlopen" /\ p.owns = {f} /\ p.aux = aux /\ ~p.changed
        /\ p.at = "open" /\ p.qids = <<qid>> /\ p.fd = NoIno /\ p.ok
    BY <1>4, <2>1 DEF Op
  <2> HIDE DEF p
  <2>3. CASE IsDir(tree, qid)
    <3>1. Goes(t, Done(p), tree)
      BY <1>0, <1>8, <2>3
    <3>2. Done(p) \in Op /\ Done(p).kind = "rlopen" /\ Done(p).owns = {f} /\ Done(p).aux = aux /\ ~Done(p).changed
          /\ Done(p).at = "done" /\ Done(p).fd = NoIno
      BY <2>2 DEF Op, Done, Ats
    <3>3. QED
      BY <1>6, <3>1, <3>2
  <2>4. CASE ~IsDir(tree, qid)
    <3>1. Goes(t, p, tree)
      BY <1>0, <1>8, <2>4
    <3>2. QED
      BY <1>6, <2>2, <3>1
  <2>5. QED
    BY <2>3, <2>4
<1>9. QED
  BY <1>7, <1>8

\* rlopen opens the path, which may be another file than it asked about.
LEMMA rlopen_openKeeps ==
  ASSUME UnpfsInv, NEW t \in Tasks, rlopen_open(t)
  PROVE  UnpfsInv'
<1> DEFINE p == op[t]
<1>0. p.at = "open" /\ Running(t) /\ moved' = moved
  BY DEF rlopen_open, Running
<1>1. /\ p \in Op /\ Shape(p) /\ Settled(p, tree)
      /\ \A f \in p.owns : f \in Fids /\ Holds(p, fids[f])
  BY <1>0, RunningShape
<1>2. p.kind = "rlopen" /\ ~p.changed /\ p.ok /\ p.aux.path \in Seq(PathNames) /\ <<"rlopen", "done">> \in Stages
  BY <1>0, <1>1, AuxPath DEF Shape, Stages
<1>3. PICK r \in Opened(p.aux.path, p.aux.creat) :
        /\ Goes(t, IF r[1] = NoIno THEN Fails(p) ELSE [Done(p) EXCEPT !.fd = r[1]], r[2])
        /\ fids' = IF r[1] = NoIno THEN fids
                   ELSE [f \in Fids |-> IF f \in p.owns THEN [fids[f] EXCEPT !.file = r[1]] ELSE fids[f]]
  BY DEF rlopen_open
<1>4. PICK ino, newtree : ino = r[1] /\ newtree = r[2]
  OBVIOUS
<1>5. /\ ino = NoIno => newtree = tree
      /\ ino # NoIno => ino \in Inos /\ Resolve(newtree, p.aux.path) = ino
      /\ IsTree(newtree)
      /\ Evolves(tree, moved, newtree, moved, Known)
      /\ Qid(p.aux.path) # NoIno => ino \in {NoIno, Qid(p.aux.path)}
  BY <1>2, <1>4, OpenedIs
<1>6. CASE ino = NoIno
  BY <1>0, <1>2, <1>3, <1>4, <1>5, <1>6, FailsKeeps
<1>7. CASE ino # NoIno
  <2> DEFINE o == [Done(p) EXCEPT !.fd = ino]
             x == [o EXCEPT !.changed = @ \/ newtree # tree]
  <2>1. Goes(t, o, newtree)
    BY <1>3, <1>4, <1>7
  <2>2. /\ x \in Op /\ x.kind = "rlopen" /\ x.at = "done" /\ x.owns = p.owns /\ x.aux = p.aux /\ x.fd = ino
        /\ x.qids = p.qids /\ x.ok /\ x.stirred = p.stirred
    BY <1>1, <1>2, <1>5, <1>7 DEF Op, Done, Ats, Place
  <2>3. x = [o EXCEPT !.changed = @ \/ newtree # tree]
    OBVIOUS
  <2> HIDE DEF o, x
  <2>4. Shape(x)
    BY <1>1, <1>2, <2>2 DEF Shape
  <2>5. Settled(x, newtree)
    <3>1. ASSUME ~p.stirred
          PROVE  Last(p.qids) = ino
      <4>1. p.qids = <<Qid(p.aux.path)>> /\ p.qids \in Seq(Inos)
        BY <1>0, <1>1, <3>1 DEF Settled, Qid, Op
      <4>2. Last(p.qids) = Qid(p.aux.path)
        BY <4>1 DEF Last
      <4>3. Qid(p.aux.path) \in Inos
        BY <4>1
      <4>4. QED
        BY <1>5, <1>7, <4>2, <4>3, HostAssumption
    <3>2. QED
      BY <2>2, <3>1 DEF Settled
  <2>6. Good(x, newtree, moved')
    BY <2>2, <2>4, <2>5 DEF Good, Created
  <2>7. \A f \in p.owns : fids[f] \in UnpfsFId /\ fids[f].path = p.aux.path
    BY <1>0, <1>1, <1>2 DEF Holds
  <2>8. fids \in [Fids -> UnpfsFId \cup {Unbound}] /\ \A f \in Fids : fids[f] # Unbound => Deep(fids[f])
    BY DEF UnpfsInv
  <2>9. fids' = [f \in Fids |-> IF f \in p.owns THEN [fids[f] EXCEPT !.file = ino] ELSE fids[f]]
    BY <1>3, <1>4, <1>7
  <2>10. \A f \in p.owns : /\ fids'[f] \in UnpfsFId /\ fids'[f].path = p.aux.path /\ fids'[f].file = ino
                           /\ fids'[f].depth = fids[f].depth /\ fids'[f].made = fids[f].made
    BY <1>1, <1>5, <1>7, <2>7, <2>9 DEF UnpfsFId
  <2>11. fids' \in [Fids -> UnpfsFId \cup {Unbound}]
    <3>1. \A f \in Fids \ p.owns : fids'[f] = fids[f]
      BY <2>9
    <3>2. \A f \in Fids : fids'[f] \in UnpfsFId \cup {Unbound}
      BY <2>8, <2>10, <3>1
    <3>3. QED
      BY <2>9, <3>2
  <2>12. \A f \in x.owns : Holds(x, fids'[f])
    BY <2>2, <2>10 DEF Holds
  <2>13. \A f \in p.owns : Deep(fids'[f]) /\ Leads(newtree, moved', fids'[f].path, fids'[f].file)
    <3>1. Leads(newtree, moved, p.aux.path, ino)
      BY <1>2, <1>5, <1>7, LeadsNow
    <3>2. \A f \in p.owns : Deep(fids[f])
      BY <1>1, <2>7, <2>8 DEF UnpfsFId, Unbound
    <3>3. QED
      BY <1>0, <2>7, <2>10, <3>1, <3>2 DEF Deep
  <2>14. \A f \in Fids :
           \/ fids'[f] = fids[f] /\ ~(op[t].at = "file" /\ f \in op[t].owns)
           \/ /\ Running(t) /\ f \in op[t].owns
              /\ fids'[f] # Unbound => Deep(fids'[f])
              /\ \/ x.at = "file" /\ f \in x.owns
                 \/ fids'[f].file = NoIno
                 \/ Leads(newtree, moved', fids'[f].path, fids'[f].file)
    BY <1>0, <2>9, <2>13
  <2>15. /\ IF Running(t) THEN x.owns \subseteq op[t].owns ELSE x.owns \cap Owned = {}
         /\ moved' \in SUBSET Inos /\ Evolves(tree, moved, newtree, moved', Known)
    BY <1>0, <1>5, <2>2 DEF UnpfsInv
  <2>16. QED
    BY <1>5, <2>1, <2>2, <2>3, <2>6, <2>11, <2>12, <2>14, <2>15, Proceeds
<1>8. QED
  BY <1>6, <1>7

\* rlcreate gives the fid the path of the new file, one component deeper.
LEMMA rlcreate_pathKeeps ==
  ASSUME UnpfsInv, NEW t \in Tasks, rlcreate_path(t)
  PROVE  UnpfsInv'
<1> DEFINE p == op[t]
           o == [p EXCEPT !.at = "file"]
<1>0. p.at = "path" /\ Running(t) /\ moved' = moved /\ Goes(t, o, tree)
  BY DEF rlcreate_path, Running
<1>1. /\ p \in Op /\ Shape(p) /\ Settled(p, tree) /\ Created(p, tree, moved)
      /\ \A f \in p.owns : f \in Fids /\ Holds(p, fids[f])
  BY <1>0, RunningShape
<1>2. p.kind = "rlcreate" /\ p.ok /\ p.aux.path \in Seq(PathNames) /\ <<"rlcreate", "file">> \in Stages
  BY <1>0, <1>1, AuxPath DEF Shape, Stages
<1>3. /\ o \in Op /\ o.kind = "rlcreate" /\ o.at = "file" /\ o.owns = p.owns /\ o.aux = p.aux /\ o.fd = p.fd
      /\ o.qids = p.qids /\ o.ok /\ o.stirred = p.stirred /\ o.changed = p.changed
  BY <1>1, <1>2 DEF Op, Ats
<1>4. o = [o EXCEPT !.changed = @ \/ tree # tree]
  BY <1>3 DEF Op
<1>5. fids' = [f \in Fids |-> IF f \in p.owns THEN [fids[f] EXCEPT !.path = p.aux.path, !.made = @ + 1] ELSE fids[f]]
  BY DEF rlcreate_path
<1> HIDE DEF o
<1>6. Good(o, tree, moved')
  BY <1>0, <1>1, <1>2, <1>3 DEF Good, Shape, Settled, Created
<1>7. \A f \in p.owns : /\ fids[f] \in UnpfsFId /\ Deep(fids[f])
                        /\ \E name \in Names : p.aux.path = Append(fids[f].path, name)
  BY <1>0, <1>1, <1>2 DEF Holds, UnpfsInv, UnpfsFId, Unbound
<1>8. \A f \in p.owns : /\ fids'[f] \in UnpfsFId /\ fids'[f].path = p.aux.path
                        /\ fids'[f].depth = fids[f].depth /\ fids'[f].made = fids[f].made + 1
  <2>1. ASSUME NEW f \in p.owns
        PROVE  /\ fids'[f] \in UnpfsFId /\ fids'[f].path = p.aux.path
               /\ fids'[f].depth = fids[f].depth /\ fids'[f].made = fids[f].made + 1
    <3>1. PICK fid, path : fid = fids[f] /\ path = p.aux.path
      OBVIOUS
    <3>2. fid \in UnpfsFId /\ path \in Seq(PathNames) /\ fids'[f] = [fid EXCEPT !.path = path, !.made = @ + 1]
      BY <1>1, <1>2, <1>5, <1>7, <3>1
    <3>3. fid.made + 1 \in Nat
      BY <3>2 DEF UnpfsFId
    <3>4. fids'[f] = [path |-> path, depth |-> fid.depth, file |-> fid.file, made |-> fid.made + 1]
      BY <3>2 DEF UnpfsFId
    <3>5. QED
      BY <3>1, <3>2, <3>3, <3>4 DEF UnpfsFId
  <2>2. QED
    BY <2>1
<1>9. \A f \in p.owns : Deep(fids'[f])
  <2>1. ASSUME NEW f \in p.owns
        PROVE  Deep(fids'[f])
    <3>1. PICK name \in Names : p.aux.path = Append(fids[f].path, name)
      BY <1>7
    <3>2. Normal(p.aux.path) = Append(Normal(fids[f].path), name) /\ Normal(fids[f].path) \in Seq(Names)
      BY <1>7, <3>1, NormalName, NormalType DEF UnpfsFId
    <3>3. Len(Normal(p.aux.path)) = Len(Normal(fids[f].path)) + 1
      BY <3>2
    <3>4. fids[f].depth \in Nat /\ fids[f].made \in Nat /\ Len(Normal(fids[f].path)) \in Nat
      BY <1>7, <3>2, UnpfsAssumption DEF UnpfsFId
    <3>5. QED
      <4>1. PICK d, m, r, n : /\ d = fids[f].depth /\ m = fids[f].made /\ n = Len(Normal(fids[f].path))
                              /\ r = Len(Normal(realroot)) /\ r \in Nat
        BY ExportDepth
      <4>2. n \in d..(r + d + m) /\ d \in Nat /\ m \in Nat /\ n \in Nat
        BY <1>7, <3>4, <4>1 DEF Deep
      <4>3. n + 1 \in d..(r + d + (m + 1))
        BY <4>1, <4>2
      <4>4. fids'[f].depth = d /\ fids'[f].made = m + 1 /\ Len(Normal(fids'[f].path)) = n + 1
        BY <1>8, <3>3, <4>1
      <4>5. QED
        BY <4>1, <4>3, <4>4 DEF Deep
  <2>2. QED
    BY <2>1
<1>10. fids' \in [Fids -> UnpfsFId \cup {Unbound}]
  <2>1. \A f \in Fids \ p.owns : fids'[f] = fids[f]
    BY <1>5
  <2>2. \A f \in Fids : fids'[f] \in UnpfsFId \cup {Unbound}
    BY <1>8, <2>1 DEF UnpfsInv
  <2>3. QED
    BY <1>5, <2>2
<1>11. \A f \in o.owns : Holds(o, fids'[f])
  BY <1>3, <1>8 DEF Holds
<1>12. \A f \in Fids :
         \/ fids'[f] = fids[f] /\ ~(op[t].at = "file" /\ f \in op[t].owns)
         \/ /\ Running(t) /\ f \in op[t].owns
            /\ fids'[f] # Unbound => Deep(fids'[f])
            /\ \/ o.at = "file" /\ f \in o.owns
               \/ fids'[f].file = NoIno
               \/ Leads(tree, moved', fids'[f].path, fids'[f].file)
  BY <1>0, <1>3, <1>5, <1>9
<1>13. /\ IF Running(t) THEN o.owns \subseteq op[t].owns ELSE o.owns \cap Owned = {}
       /\ IsTree(tree) /\ moved' \in SUBSET Inos /\ Evolves(tree, moved, tree, moved', Known)
  BY <1>0, <1>3, EvolvesSame DEF UnpfsInv
<1>14. QED
  BY <1>0, <1>3, <1>4, <1>6, <1>10, <1>11, <1>12, <1>13, Proceeds

\* rlcreate gives the fid the new file: path and file agree again.
LEMMA rlcreate_fileKeeps ==
  ASSUME UnpfsInv, NEW t \in Tasks, rlcreate_file(t)
  PROVE  UnpfsInv'
<1> DEFINE p == op[t]
           o == Done(p)
<1>0. p.at = "file" /\ Running(t) /\ moved' = moved /\ Goes(t, o, tree)
  BY DEF rlcreate_file, Running
<1>1. /\ p \in Op /\ Shape(p) /\ Settled(p, tree) /\ Created(p, tree, moved)
      /\ \A f \in p.owns : f \in Fids /\ Holds(p, fids[f])
  BY <1>0, RunningShape
<1>2. /\ p.kind = "rlcreate" /\ p.ok /\ p.fd \in Inos /\ <<"rlcreate", "done">> \in Stages
      /\ ~p.stirred => Last(p.qids) = p.fd
  <2>1. p.kind = "rlcreate" /\ p.ok /\ p.fd \in Inos /\ <<"rlcreate", "done">> \in Stages
    BY <1>0, <1>1 DEF Shape, Stages, Op, Place
  <2>2. ~p.stirred => p.qids = <<p.fd>>
    BY <1>0, <1>1 DEF Settled
  <2>3. ASSUME ~p.stirred
        PROVE  Last(p.qids) = p.fd
    <3>1. PICK fd : fd = p.fd
      OBVIOUS
    <3>2. p.qids = <<fd>>
      BY <2>2, <2>3, <3>1
    <3>3. QED
      BY <3>1, <3>2 DEF Last
  <2>4. QED
    BY <2>1, <2>3
<1>3. /\ o \in Op /\ o.kind = "rlcreate" /\ o.at = "done" /\ o.owns = p.owns /\ o.aux = p.aux /\ o.fd = p.fd
      /\ o.qids = p.qids /\ o.ok /\ o.stirred = p.stirred /\ o.changed = p.changed
  BY <1>1, <1>2 DEF Op, Ats, Done
<1>4. o = [o EXCEPT !.changed = @ \/ tree # tree]
  BY <1>3 DEF Op
<1>5. fids' = [f \in Fids |-> IF f \in p.owns THEN [fids[f] EXCEPT !.file = p.fd] ELSE fids[f]]
  BY DEF rlcreate_file
<1> HIDE DEF o
<1>6. Good(o, tree, moved')
  BY <1>0, <1>1, <1>2, <1>3 DEF Good, Shape, Settled, Created
<1>7. \A f \in p.owns : fids[f] \in UnpfsFId /\ Deep(fids[f]) /\ fids[f].path = p.aux.path
  BY <1>0, <1>1, <1>2 DEF Holds, UnpfsInv, UnpfsFId, Unbound
<1>8. \A f \in p.owns : /\ fids'[f] \in UnpfsFId /\ fids'[f].path = p.aux.path /\ fids'[f].file = p.fd
                        /\ fids'[f].depth = fids[f].depth /\ fids'[f].made = fids[f].made
  BY <1>1, <1>2, <1>5, <1>7 DEF UnpfsFId
<1>9. \A f \in p.owns : Deep(fids'[f]) /\ Leads(tree, moved', fids'[f].path, fids'[f].file)
  BY <1>0, <1>1, <1>7, <1>8 DEF Deep, Created
<1>10. fids' \in [Fids -> UnpfsFId \cup {Unbound}]
  <2>1. \A f \in Fids \ p.owns : fids'[f] = fids[f]
    BY <1>5
  <2>2. \A f \in Fids : fids'[f] \in UnpfsFId \cup {Unbound}
    BY <1>8, <2>1 DEF UnpfsInv
  <2>3. QED
    BY <1>5, <2>2
<1>11. \A f \in o.owns : Holds(o, fids'[f])
  BY <1>3, <1>8 DEF Holds
<1>12. \A f \in Fids :
         \/ fids'[f] = fids[f] /\ ~(op[t].at = "file" /\ f \in op[t].owns)
         \/ /\ Running(t) /\ f \in op[t].owns
            /\ fids'[f] # Unbound => Deep(fids'[f])
            /\ \/ o.at = "file" /\ f \in o.owns
               \/ fids'[f].file = NoIno
               \/ Leads(tree, moved', fids'[f].path, fids'[f].file)
  BY <1>0, <1>5, <1>9
<1>13. /\ IF Running(t) THEN o.owns \subseteq op[t].owns ELSE o.owns \cap Owned = {}
       /\ IsTree(tree) /\ moved' \in SUBSET Inos /\ Evolves(tree, moved, tree, moved', Known)
  BY <1>0, <1>3, EvolvesSame DEF UnpfsInv
<1>14. QED
  BY <1>0, <1>3, <1>4, <1>6, <1>10, <1>11, <1>12, <1>13, Proceeds

-----------------------------------------------------------------------------
\* A request on an entry of a directory, as it starts.
Fresh(k, kind, at, owns, path) ==
  /\ k \in Op /\ k.kind = kind /\ k.at = at /\ k.owns = owns /\ k.aux = [path |-> path] /\ k.fd = NoIno
  /\ k.qids = <<>> /\ ~k.changed /\ ~k.stirred /\ k.ok

\* Task, for those requests.
LEMMA EntryTask ==
  ASSUME NEW kind \in {"rlcreate", "rmkdir", "rrenameat", "runlinkat"}, NEW at \in Ats,
         NEW uses \in SUBSET Fids, NEW owns \in SUBSET Fids, NEW path \in Seq(PathNames)
  PROVE  Fresh(Task(kind, at, uses, owns, [path |-> path]), kind, at, owns, path)
<1> DEFINE aux == [path |-> path]
<1>1. aux \in Auxes /\ kind \in Kinds
  BY DEF Auxes, Kinds
<1> HIDE DEF aux
<1>2. Task(kind, at, uses, owns, aux) \in Op
  BY <1>1, TaskOp
<1>3. QED
  BY <1>2 DEF Task, aux, Fresh

\* What a path was before its last component.
LEMMA AppendedTo ==
  ASSUME NEW d \in Seq(PathNames), NEW e \in Seq(PathNames), NEW x \in PathNames, NEW y \in PathNames,
         Append(d, x) = Append(e, y)
  PROVE  d = e
<1>1. Len(Append(d, x)) = Len(d) + 1 /\ Len(Append(e, y)) = Len(e) + 1 /\ Len(d) \in Nat /\ Len(e) \in Nat
  OBVIOUS
<1>2. (\A j \in 1..Len(d) : Append(d, x)[j] = d[j]) /\ (\A j \in 1..Len(e) : Append(e, y)[j] = e[j])
  OBVIOUS
<1>3. Len(d) = Len(e) /\ \A j \in 1..Len(d) : d[j] = e[j]
  BY <1>1, <1>2
<1>4. QED
  BY <1>3

\* One that fails at once.
LEMMA EntryFails ==
  ASSUME UnpfsInv, NEW t \in Tasks, ~Running(t), UNCHANGED <<fids, moved>>,
         NEW k \in Op, k.kind \in {"rlcreate", "rmkdir", "rrenameat", "runlinkat"}, ~k.changed, k.fd = NoIno,
         Goes(t, Fails(k), tree), k.owns \cap Owned = {},
         \A f \in k.owns : k.kind = "rlcreate" => fids[f] \in UnpfsFId
  PROVE  UnpfsInv'
<1> DEFINE o == Fails(k)
<1>1. /\ o \in Op /\ o.kind = k.kind /\ o.at = "done" /\ ~o.ok /\ o.owns = k.owns /\ o.aux = k.aux
      /\ o.fd = NoIno /\ ~o.changed
  BY DEF Fails, Op, Ats
<1>2. Goes(t, o, tree) /\ op[t].at # "file"
  BY DEF Running
<1> HIDE DEF o
<1>3. Shape(o)
  BY <1>1 DEF Shape, Stages
<1>4. Settled(o, tree) /\ Created(o, tree, moved) /\ \A f \in o.owns : Holds(o, fids[f])
  BY <1>1 DEF Settled, Created, Holds
<1>5. QED
  BY <1>1, <1>2, <1>3, <1>4, Stays

\* One that has made the inode its path leads to.
LEMMA EntryMakes ==
  ASSUME UnpfsInv, NEW t \in Tasks, ~Running(t), UNCHANGED <<fids, moved>>,
         NEW k \in Op, k.kind \in {"rlcreate", "rmkdir"}, k.at = "qid", k.qids = <<>>, k.ok,
         NEW ino \in Inos, NEW newtree, Goes(t, [k EXCEPT !.fd = ino], newtree), k.owns \cap Owned = {},
         Resolve(newtree, k.aux.path) = ino, IsTree(newtree), Evolves(tree, moved, newtree, moved, Known),
         \A f \in k.owns : /\ fids[f] \in UnpfsFId
                           /\ \E name \in Names : k.aux.path = Append(fids[f].path, name)
  PROVE  UnpfsInv'
<1> DEFINE o == [k EXCEPT !.fd = ino]
           x == [o EXCEPT !.changed = @ \/ newtree # tree]
<1>1. /\ x \in Op /\ x.kind = k.kind /\ x.at = "qid" /\ x.ok /\ x.owns = k.owns /\ x.aux = k.aux
      /\ x.fd = ino /\ x.qids = <<>>
  BY DEF Op, Place
<1>2. Goes(t, o, newtree) /\ op[t].at # "file" /\ x = [o EXCEPT !.changed = @ \/ newtree # tree]
  BY DEF Running
<1> HIDE DEF o, x
<1>3. ino # NoIno /\ k.aux.path \in Seq(PathNames)
  BY AuxPath, HostAssumption
<1>4. Shape(x)
  BY <1>1, <1>3 DEF Shape, Stages
<1>5. Settled(x, newtree)
  BY <1>1 DEF Settled
<1>6. Created(x, newtree, moved)
  BY <1>1, <1>3, LeadsNow DEF Created
<1>7. Good(x, newtree, moved') /\ \A f \in x.owns : Holds(x, fids[f])
  BY <1>1, <1>4, <1>5, <1>6 DEF Good, Holds
<1>8. /\ IF Running(t) THEN x.owns \subseteq op[t].owns ELSE x.owns \cap Owned = {}
      /\ moved' \in SUBSET Inos /\ Evolves(tree, moved, newtree, moved', Known) /\ UNCHANGED fids
  BY <1>1 DEF UnpfsInv
<1>9. QED
  BY <1>1, <1>2, <1>7, <1>8, Continues

\* rlcreate opens what may be there already.
LEMMA rlcreateKeeps ==
  ASSUME UnpfsInv, NEW t \in Tasks, NEW f \in Fids, NEW name \in Names, NEW creat \in BOOLEAN,
         rlcreate(t, f, name, creat)
  PROVE  UnpfsInv'
<1>1. PICK path, k : path = PathOf(f, name) /\ k = Task("rlcreate", "qid", {}, {f}, [path |-> path])
  OBVIOUS
<1>2. fids[f] \in UnpfsFId /\ {f} \cap Owned = {}
  BY DEF rlcreate, MayUse, MayOwn, UnpfsInv
<1>3. path \in Seq(PathNames) /\ path = Append(fids[f].path, name)
  BY <1>1, <1>2 DEF PathOf, UnpfsFId, PathNames
<1>4. /\ k \in Op /\ k.kind = "rlcreate" /\ k.at = "qid" /\ k.owns = {f} /\ k.aux = [path |-> path] /\ k.fd = NoIno
      /\ k.qids = <<>> /\ ~k.changed /\ ~k.stirred /\ k.ok
  <2>1. "qid" \in Ats /\ "rlcreate" \in {"rlcreate", "rmkdir", "rrenameat", "runlinkat"}
    BY DEF Ats
  <2>2. Fresh(k, "rlcreate", "qid", {f}, path)
    BY <1>1, <1>3, <2>1, EntryTask
  <2>3. QED
    BY <2>2 DEF Fresh
<1>5. PICK r \in Opened(path, creat) :
        Goes(t, IF r[1] = NoIno THEN Fails(k) ELSE [k EXCEPT !.fd = r[1]], r[2])
  BY <1>1 DEF rlcreate
<1>6. ~Running(t) /\ UNCHANGED <<fids, moved>>
  BY DEF rlcreate
<1>7. PICK ino, newtree : ino = r[1] /\ newtree = r[2]
  OBVIOUS
<1>8. /\ ino = NoIno => newtree = tree
      /\ ino # NoIno => ino \in Inos /\ Resolve(newtree, path) = ino
      /\ IsTree(newtree)
      /\ Evolves(tree, moved, newtree, moved, Known)
  BY <1>3, <1>7, OpenedIs
<1>9. CASE ino = NoIno
  <2>1. Goes(t, Fails(k), tree)
    BY <1>5, <1>7, <1>8, <1>9
  <2>2. QED
    BY <1>2, <1>4, <1>6, <2>1, EntryFails
<1>10. CASE ino # NoIno
  <2>1. Goes(t, [k EXCEPT !.fd = ino], newtree) /\ Resolve(newtree, k.aux.path) = ino
    BY <1>4, <1>5, <1>7, <1>8, <1>10
  <2>2. \A g \in k.owns : fids[g] \in UnpfsFId /\ \E n \in Names : k.aux.path = Append(fids[g].path, n)
    BY <1>2, <1>3, <1>4
  <2>3. k.kind \in {"rlcreate", "rmkdir"} /\ k.owns \cap Owned = {} /\ ino \in Inos
    BY <1>2, <1>4, <1>8, <1>10
  <2>4. QED
    BY <1>4, <1>6, <1>8, <2>1, <2>2, <2>3, EntryMakes
<1>11. QED
  BY <1>9, <1>10

\* rmkdir makes a directory where nothing was.
LEMMA rmkdirKeeps ==
  ASSUME UnpfsInv, NEW t \in Tasks, NEW f \in Fids, NEW name \in Names, rmkdir(t, f, name)
  PROVE  UnpfsInv'
<1>1. PICK path, d, k : /\ path = PathOf(f, name) /\ d = fids[f].path
                        /\ k = Task("rmkdir", "qid", {f}, {}, [path |-> path])
  OBVIOUS
<1>2. fids[f] \in UnpfsFId
  BY DEF rmkdir, MayUse, UnpfsInv
<1>3. d \in Seq(PathNames) /\ path \in Seq(PathNames) /\ path = Append(d, name) /\ name \in PathNames
  BY <1>1, <1>2 DEF PathOf, UnpfsFId, PathNames
<1>4. /\ k \in Op /\ k.kind = "rmkdir" /\ k.at = "qid" /\ k.owns = {} /\ k.aux = [path |-> path] /\ k.fd = NoIno
      /\ k.qids = <<>> /\ ~k.changed /\ ~k.stirred /\ k.ok
  <2>1. "qid" \in Ats /\ "rmkdir" \in {"rlcreate", "rmkdir", "rrenameat", "runlinkat"}
    BY DEF Ats
  <2>2. Fresh(k, "rmkdir", "qid", {}, path)
    BY <1>1, <1>3, <2>1, EntryTask
  <2>3. QED
    BY <2>2 DEF Fresh
<1>5. ~Running(t) /\ UNCHANGED <<fids, moved>>
  BY DEF rmkdir
<1>6. IF IsDir(tree, Dir(path)) /\ Qid(path) = NoIno /\ Unused # {}
      THEN \E i \in Unused :
             Goes(t, [k EXCEPT !.fd = i], tree \cup {[up |-> Dir(path), name |-> name, ino |-> i, dir |-> TRUE]})
      ELSE Goes(t, Fails(k), tree)
  BY <1>1 DEF rmkdir
<1>7. CASE ~(IsDir(tree, Dir(path)) /\ Qid(path) = NoIno /\ Unused # {})
  BY <1>4, <1>5, <1>6, <1>7, EntryFails
<1>8. CASE IsDir(tree, Dir(path)) /\ Qid(path) = NoIno /\ Unused # {}
  <2>1. PICK i \in Unused :
          Goes(t, [k EXCEPT !.fd = i], tree \cup {[up |-> Dir(path), name |-> name, ino |-> i, dir |-> TRUE]})
    BY <1>6, <1>8
  <2>2. PICK new : new = [up |-> Dir(path), name |-> name, ino |-> i, dir |-> TRUE]
    OBVIOUS
  <2>3. i \in Inos /\ ~Alive(tree, i) /\ i \notin Known
    BY DEF Unused, Known
  <2>4. Front(path) = d
    <3>1. path # <<>> /\ Len(path) = Len(d) + 1
      BY <1>3
    <3>2. PICK e \in Seq(PathNames), x \in PathNames : e = Front(path) /\ path = Append(e, x)
      BY <1>3, <3>1, FrontLast
    <3>3. Append(d, name) = Append(e, x)
      BY <1>3, <3>2
    <3>4. d = e
      BY <1>3, <3>3, AppendedTo
    <3>5. QED
      BY <3>2, <3>4
  <2>5. Resolve(tree, d) = new.up /\ IsDir(tree, new.up) /\ IsTree(tree)
    BY <1>8, <2>2, <2>4 DEF Dir, UnpfsInv
  <2>6. Grows(tree, new)
    <3>1. Qid(path) = Step(tree, new.up, name)
      BY <1>3, <2>5, ResolveAppend DEF Qid, IsTree
    <3>2. At(tree, new.up, new.name) = {}
      BY <1>8, <2>2, <2>5, <3>1, StepName DEF At
    <3>3. new.up \in Inos /\ i # Root
      BY <2>3, <2>5, HostAssumption DEF IsDir, Alive, IsTree, Links
    <3>4. QED
      BY <2>2, <2>3, <2>5, <3>2, <3>3 DEF Grows, Links
  <2>7. PICK newtree : newtree = tree \cup {new}
    OBVIOUS
  <2>8. IsTree(newtree)
    BY <2>5, <2>6, <2>7, GrownTree
  <2>9. Evolves(tree, moved, newtree, moved, Known)
    <3>1. new.ino \notin Known
      BY <2>2, <2>3
    <3>2. QED
      BY <2>5, <2>6, <2>7, <3>1, EvolvesGrown
  <2>10. Resolve(newtree, k.aux.path) = i
    <3>1. new.name = name /\ new.ino = i
      BY <2>2
    <3>2. Resolve(tree \cup {new}, Append(d, new.name)) = new.ino
      BY <1>3, <2>5, <2>6, <3>1, GrownFinds
    <3>3. QED
      BY <1>3, <1>4, <2>7, <3>1, <3>2
  <2>11. Goes(t, [k EXCEPT !.fd = i], newtree)
    BY <2>1, <2>2, <2>7
  <2>12. QED
    BY <1>4, <1>5, <2>3, <2>8, <2>9, <2>10, <2>11, EntryMakes
<1>9. QED
  BY <1>7, <1>8

\* One that goes on, or is done, without a change.
LEMMA EntryGoesOn ==
  ASSUME UnpfsInv, NEW t \in Tasks, ~Running(t), UNCHANGED <<fids, moved>>, NEW k \in Op, Goes(t, k, tree),
         <<k.kind, k.at>> \in {<<"rrenameat", "done">>, <<"runlinkat", "remove_dir">>, <<"runlinkat", "remove_file">>},
         k.owns = {}, k.fd = NoIno, ~k.changed, k.ok, k.qids = <<>>
  PROVE  UnpfsInv'
<1>1. Shape(k)
  BY DEF Shape, Stages
<1>2. Settled(k, tree) /\ Created(k, tree, moved) /\ \A f \in k.owns : Holds(k, fids[f])
  BY DEF Settled, Created, Holds
<1>3. op[t].at # "file"
  BY DEF Running
<1>4. QED
  BY <1>1, <1>2, <1>3, Stays

\* rrenameat moves an entry, over nothing or over what it may replace.
LEMMA rrenameatKeeps ==
  ASSUME UnpfsInv, NEW t \in Tasks, NEW olddir \in Fids, NEW oldname \in Names,
         NEW newdir \in Fids, NEW newname \in Names, rrenameat(t, olddir, oldname, newdir, newname)
  PROVE  UnpfsInv'
<1>1. PICK old, dir, k :
        /\ old = At(tree, Resolve(tree, fids[olddir].path), oldname)
        /\ dir = Resolve(tree, fids[newdir].path)
        /\ k = Task("rrenameat", "done", {olddir, newdir}, {}, [path |-> <<>>])
  OBVIOUS
<1> DEFINE same == old # {} /\ old = At(tree, dir, newname)
           may == \E l \in old : MayMove(tree, l, dir, newname)
<1>2. Fresh(k, "rrenameat", "done", {}, <<>>)
  <2>1. "done" \in Ats /\ "rrenameat" \in {"rlcreate", "rmkdir", "rrenameat", "runlinkat"} /\ <<>> \in Seq(PathNames)
    BY DEF Ats
  <2>2. PICK none : none = <<>>
    OBVIOUS
  <2>3. Fresh(k, "rrenameat", "done", {}, none)
    BY <1>1, <2>1, <2>2, EntryTask
  <2>4. QED
    BY <2>2, <2>3
<1>3. /\ k \in Op /\ k.kind = "rrenameat" /\ k.at = "done" /\ k.owns = {} /\ k.fd = NoIno
      /\ k.qids = <<>> /\ ~k.changed /\ ~k.stirred /\ k.ok
  BY <1>2 DEF Fresh
<1>4. /\ ~Running(t) /\ UNCHANGED fids
      /\ IF may /\ ~same
         THEN \E l \in old : /\ Goes(t, k, Moved(tree, l, dir, newname))
                             /\ moved' = (moved \ {m.ino : m \in At(tree, dir, newname)}) \cup {l.ino}
         ELSE Goes(t, IF same THEN k ELSE Fails(k), tree) /\ UNCHANGED moved
  BY <1>1 DEF rrenameat
<1>5. CASE may /\ ~same
  <2>1. PICK l \in old : /\ Goes(t, k, Moved(tree, l, dir, newname))
                         /\ moved' = (moved \ {m.ino : m \in At(tree, dir, newname)}) \cup {l.ino}
    BY <1>4, <1>5
  <2>2. /\ IsTree(tree) /\ l \in tree /\ old = {l}
    BY <1>1 DEF UnpfsInv, IsTree, At
  <2>3. MayMove(tree, l, dir, newname)
    BY <1>5, <2>2
  <2>4. l \notin At(tree, dir, newname)
    <3>1. ASSUME l \in At(tree, dir, newname)
          PROVE  At(tree, dir, newname) = {l}
      BY <2>2, <3>1 DEF At, IsTree
    <3>2. QED
      BY <1>5, <2>2, <3>1
  <2>5. PICK newtree : newtree = Moved(tree, l, dir, newname)
    OBVIOUS
  <2>6. IsTree(newtree)
    BY <2>2, <2>3, <2>4, <2>5, MovedTree
  <2>7. Evolves(tree, moved, newtree, moved', Known)
    BY <2>1, <2>2, <2>3, <2>4, <2>5, EvolvesMoved
  <2>8. moved' \in SUBSET Inos
    BY <2>1, <2>2 DEF UnpfsInv, IsTree, Links
  <2> DEFINE x == [k EXCEPT !.changed = @ \/ newtree # tree]
  <2>9. /\ x \in Op /\ x.kind = "rrenameat" /\ x.at = "done" /\ x.owns = {} /\ x.qids = <<>> /\ x.ok
        /\ x = [k EXCEPT !.changed = @ \/ newtree # tree]
    BY <1>3 DEF Op
  <2> HIDE DEF x
  <2>10. Shape(x)
    BY <2>9 DEF Shape, Stages
  <2>11. Good(x, newtree, moved') /\ \A f \in x.owns : Holds(x, fids[f])
    BY <2>9, <2>10 DEF Good, Settled, Created
  <2>12. Goes(t, k, newtree) /\ op[t].at # "file"
    BY <1>4, <2>1, <2>5 DEF Running
  <2>13. QED
    BY <1>4, <2>6, <2>7, <2>8, <2>9, <2>11, <2>12, Continues
<1>6. CASE ~(may /\ ~same) /\ same
  BY <1>3, <1>4, <1>6, EntryGoesOn
<1>7. CASE ~(may /\ ~same) /\ ~same
  BY <1>3, <1>4, <1>7, EntryFails
<1>8. QED
  BY <1>5, <1>6, <1>7

\* runlinkat looks at what it is to remove.
LEMMA runlinkatKeeps ==
  ASSUME UnpfsInv, NEW t \in Tasks, NEW f \in Fids, NEW name \in Names, runlinkat(t, f, name)
  PROVE  UnpfsInv'
<1>1. PICK path, at, k :
        /\ path = PathOf(f, name)
        /\ at = IF IsDir(tree, Qid(path)) THEN "remove_dir" ELSE "remove_file"
        /\ k = Task("runlinkat", at, {f}, {}, [path |-> path])
  OBVIOUS
<1>2. path \in Seq(PathNames)
  BY <1>1 DEF runlinkat, MayUse, UnpfsInv, PathOf, UnpfsFId, PathNames
<1>3. Fresh(k, "runlinkat", at, {}, path)
  <2>1. at \in Ats /\ "runlinkat" \in {"rlcreate", "rmkdir", "rrenameat", "runlinkat"}
    BY <1>1 DEF Ats
  <2>2. QED
    BY <1>1, <1>2, <2>1, EntryTask
<1>4. /\ k \in Op /\ k.kind = "runlinkat" /\ k.at \in {"remove_dir", "remove_file"} /\ k.owns = {} /\ k.fd = NoIno
      /\ k.qids = <<>> /\ ~k.changed /\ ~k.stirred /\ k.ok
  BY <1>1, <1>3 DEF Fresh
<1>5. ~Running(t) /\ UNCHANGED <<fids, moved>> /\ Goes(t, IF Qid(path) = NoIno THEN Fails(k) ELSE k, tree)
  BY <1>1 DEF runlinkat
<1>6. CASE Qid(path) = NoIno
  BY <1>4, <1>5, <1>6, EntryFails
<1>7. CASE Qid(path) # NoIno
  BY <1>4, <1>5, <1>7, EntryGoesOn
<1>8. QED
  BY <1>6, <1>7

\* runlinkat removes it, unless it has become something else.
LEMMA runlinkat_removeKeeps ==
  ASSUME UnpfsInv, NEW t \in Tasks, runlinkat_remove(t)
  PROVE  UnpfsInv'
<1> DEFINE p == op[t]
<1>1. PICK links : links = {l \in At(tree, Dir(p.aux.path), Last(p.aux.path)) :
                              IF p.at = "remove_dir" THEN l.dir /\ IsEmpty(tree, l.ino) ELSE ~l.dir}
  OBVIOUS
<1>2. /\ p.at \in {"remove_dir", "remove_file"} /\ UNCHANGED fids
      /\ Goes(t, IF links = {} THEN Fails(p) ELSE Done(p), tree \ links)
      /\ moved' = moved \ {l.ino : l \in links}
  BY <1>1 DEF runlinkat_remove
<1>3. Running(t) /\ op[t].at # "file" /\ IsTree(tree)
  BY <1>2 DEF Running, UnpfsInv
<1>4. p \in Op /\ Shape(p) /\ Settled(p, tree)
  BY <1>3, RunningShape
<1>5. /\ p.kind = "runlinkat" /\ ~p.changed /\ p.ok
  BY <1>2, <1>4 DEF Shape, Stages
<1>6. CASE links = {}
  <2>1. tree \ links = tree /\ moved' = moved
    BY <1>2, <1>6
  <2>2. Goes(t, Fails(op[t]), tree)
    BY <1>2, <1>6, <2>1
  <2>3. QED
    BY <1>2, <1>3, <1>5, <2>1, <2>2, FailsKeeps
<1>7. CASE links # {}
  <2>1. Prunes(tree, links)
    <3>1. ASSUME NEW l \in links, ~l.dir
          PROVE  IsEmpty(tree, l.ino)
      BY <1>1, <1>3, <3>1 DEF IsTree, IsDir, IsEmpty, At, Links
    <3>2. QED
      BY <1>1, <1>2, <3>1 DEF Prunes, At
  <2>2. PICK newtree : newtree = tree \ links
    OBVIOUS
  <2>3. IsTree(newtree) /\ Evolves(tree, moved, newtree, moved', Known) /\ moved' \in SUBSET Inos
    <3>1. IsTree(newtree)
      BY <1>3, <2>1, <2>2, PrunedTree
    <3>2. Evolves(tree, moved, newtree, moved', Known)
      BY <1>2, <1>3, <2>1, <2>2, EvolvesPruned
    <3>3. QED
      BY <1>2, <3>1, <3>2 DEF UnpfsInv
  <2> DEFINE o == Done(p)
             x == [o EXCEPT !.changed = @ \/ newtree # tree]
  <2>4. /\ x \in Op /\ x.kind = "runlinkat" /\ x.at = "done" /\ x.owns = p.owns /\ x.qids = p.qids /\ x.ok
        /\ x.fd = p.fd /\ x.stirred = p.stirred
    <3>1. o \in Op /\ o = [p EXCEPT !.at = "done"]
      BY <1>4 DEF Op, Done, Ats
    <3> HIDE DEF o
    <3>2. QED
      BY <1>4, <1>5, <3>1 DEF Op
  <2>5. x = [o EXCEPT !.changed = @ \/ newtree # tree] /\ Goes(t, o, newtree)
    BY <1>2, <1>7, <2>2
  <2>6. p.fd = NoIno
    BY <1>4, <1>5 DEF Shape
  <2> HIDE DEF o, x
  <2>7. Shape(x)
    BY <2>4, <2>6 DEF Shape, Stages
  <2>8. Good(x, newtree, moved') /\ \A f \in x.owns : Holds(x, fids[f])
    BY <2>4, <2>6, <2>7 DEF Good, Settled, Created, Holds
  <2>9. IF Running(t) THEN x.owns \subseteq op[t].owns ELSE x.owns \cap Owned = {}
    BY <1>3, <2>4
  <2>10. QED
    BY <1>2, <1>3, <2>3, <2>4, <2>5, <2>8, <2>9, Continues
<1>8. QED
  BY <1>6, <1>7

\* The reply: dispatch_once gives the fid what the method made.
LEMMA ReplyKeeps ==
  ASSUME UnpfsInv, NEW t \in Tasks, Reply(t)
  PROVE  UnpfsInv'
<1> DEFINE p == op[t]
           binds == p.ok /\ p.kind \in {"rattach", "rwalk", "rclunk"}
<1>1. /\ p.at = "done" /\ Running(t) /\ tree' = tree /\ moved' = moved /\ op' = [op EXCEPT ![t] = Idle]
      /\ fids' = IF binds THEN [f \in Fids |-> IF f \in p.owns THEN p.aux ELSE fids[f]] ELSE fids
  BY DEF Reply, Running
<1>2. p \in Op /\ Shape(p)
  BY <1>1, RunningShape
<1>3. binds => /\ p.aux \in UnpfsFId \cup {Unbound} /\ p.aux.file = NoIno
               /\ p.aux # Unbound => Deep(p.aux)
  BY <1>2 DEF Shape, Unbound
<1>4. /\ op' \in [Tasks -> Op \cup {Idle}]
      /\ \A u \in Tasks \ {t} :
           op'[u] = IF Running(u) /\ tree' # tree THEN [op[u] EXCEPT !.stirred = TRUE] ELSE op[u]
      /\ ~Running(t)'
  BY <1>1 DEF UnpfsInv, Running, Idle
<1>5. fids' \in [Fids -> UnpfsFId \cup {Unbound}]
  BY <1>1, <1>3 DEF UnpfsInv
<1>6. \A f \in Fids :
        \/ fids'[f] = fids[f] /\ ~(op[t].at = "file" /\ f \in op[t].owns)
        \/ /\ Running(t) /\ f \in op[t].owns
           /\ fids'[f] # Unbound => Deep(fids'[f])
           /\ fids'[f].file = NoIno
  BY <1>1, <1>3
<1>7. \A f \in Fids :
        \/ fids'[f] = fids[f] /\ ~(op[t].at = "file" /\ f \in op[t].owns)
        \/ /\ Running(t) /\ f \in op[t].owns
           /\ fids'[f] # Unbound => Deep(fids[f])'
           /\ \/ op'[t].at = "file" /\ f \in op'[t].owns
              \/ fids'[f].file = NoIno
              \/ Leads(tree, moved, fids[f].path, fids[f].file)'
  BY <1>6
<1>8. IsTree(tree)' /\ moved' \in SUBSET Inos /\ Evolves(tree, moved, tree', moved', Known)
  BY <1>1, EvolvesSame DEF UnpfsInv
<1>9. QED
  BY <1>4, <1>5, <1>7, <1>8, StepKeeps

-----------------------------------------------------------------------------
\* At first there is no fid, no request and the tree of the host.
LEMMA Starts == Init => UnpfsInv
<1> SUFFICES ASSUME Init
             PROVE  UnpfsInv
  OBVIOUS
<1>1. tree = Host /\ fids = [f \in Fids |-> Unbound] /\ op = [t \in Tasks |-> Idle] /\ moved = {}
  BY DEF Init
<1>2. IsTree(tree)
  BY <1>1, UnpfsAssumption
<1>3. \A t \in Tasks : ~Running(t)
  BY <1>1 DEF Running, Idle
<1>4. \A f \in Fids : fids[f] = Unbound /\ fids[f].file = NoIno
  BY <1>1 DEF Unbound
<1>5. QED
  BY <1>1, <1>2, <1>3, <1>4 DEF UnpfsInv

\* Every step of every request keeps the invariant.
LEMMA NextKeeps == UnpfsInv /\ [Next]_vars => UnpfsInv'
<1> SUFFICES ASSUME UnpfsInv, [Next]_vars
             PROVE  UnpfsInv'
  OBVIOUS
<1>1. CASE UNCHANGED vars
  <2>1. UNCHANGED <<tree, fids, op, moved>>
    BY <1>1 DEF vars
  <2>2. QED
    BY <2>1 DEF UnpfsInv, IsTree, Deep, Running, Shape, Settled, Created, Holds, HalfMade, Leads
<1>2. ASSUME NEW t \in Tasks, NEW f \in Fids, rattach(t, f) \/ rclunk(t, f)
      PROVE  UnpfsInv'
  BY <1>2, rattachKeeps, rclunkKeeps
<1>3. ASSUME NEW t \in Tasks, NEW f \in Fids, NEW g \in Fids, NEW w \in WalkNames, rwalk(t, f, g, w)
      PROVE  UnpfsInv'
  BY <1>3, rwalkKeeps
<1>4. ASSUME NEW t \in Tasks, rwalk_next(t) \/ rwalk_end(t)
      PROVE  UnpfsInv'
  BY <1>4, rwalk_nextKeeps, rwalk_endKeeps
<1>5. ASSUME NEW t \in Tasks, NEW f \in Fids, NEW c \in BOOLEAN, rlopen(t, f, c)
      PROVE  UnpfsInv'
  BY <1>5, rlopenKeeps
<1>6. ASSUME NEW t \in Tasks, rlopen_open(t)
      PROVE  UnpfsInv'
  BY <1>6, rlopen_openKeeps
<1>7. ASSUME NEW t \in Tasks, NEW f \in Fids, NEW n \in Names, NEW c \in BOOLEAN, rlcreate(t, f, n, c)
      PROVE  UnpfsInv'
  BY <1>7, rlcreateKeeps
<1>8. ASSUME NEW t \in Tasks, created_qid(t) \/ rlcreate_path(t) \/ rlcreate_file(t)
      PROVE  UnpfsInv'
  BY <1>8, created_qidKeeps, rlcreate_pathKeeps, rlcreate_fileKeeps
<1>9. ASSUME NEW t \in Tasks, NEW f \in Fids, NEW n \in Names, rmkdir(t, f, n) \/ runlinkat(t, f, n)
      PROVE  UnpfsInv'
  BY <1>9, rmkdirKeeps, runlinkatKeeps
<1>10. ASSUME NEW t \in Tasks, runlinkat_remove(t)
       PROVE  UnpfsInv'
  BY <1>10, runlinkat_removeKeeps
<1>11. ASSUME NEW t \in Tasks, NEW f \in Fids, NEW g \in Fids, NEW n \in Names, NEW m \in Names,
              rrenameat(t, f, n, g, m)
       PROVE  UnpfsInv'
  BY <1>11, rrenameatKeeps
<1>12. ASSUME NEW t \in Tasks, Reply(t)
       PROVE  UnpfsInv'
  BY <1>12, ReplyKeeps
<1>13. CASE Next
  BY <1>13, <1>2, <1>3, <1>4, <1>5, <1>6, <1>7, <1>8, <1>9, <1>10, <1>11, <1>12 DEF Next
<1>14. QED
  BY <1>1, <1>13

(* The invariant: the tree is one, a fid is changed by one request at a    *)
(* time, a request keeps what it found out until another changes the tree, *)
(* and the path of an open file, without dots, leads to it.                *)
THEOREM UnpfsInvHolds == Spec => []UnpfsInv
<1>1. Init => UnpfsInv
  BY Starts
<1>2. UnpfsInv /\ [Next]_vars => UnpfsInv'
  BY NextKeeps
<1>3. QED
  BY <1>1, <1>2, PTL DEF Spec

-----------------------------------------------------------------------------
(* No fid is half made, its depth is within the limit and no inode is in   *)
(* two places, whatever the requests do at once.                           *)
THEOREM UnpfsTyping == Spec => []TypeOK
<1>1. UnpfsInv => TypeOK
  <2> SUFFICES ASSUME UnpfsInv
               PROVE  TypeOK
    OBVIOUS
  <2>1. \A f \in Fids : IF f \in Bound THEN fids[f] \in UnpfsFId ELSE fids[f] = Unbound
    BY DEF UnpfsInv, Bound
  <2>2. ASSUME NEW i \in Inos
        PROVE  Cardinality({l \in tree : l.ino = i}) <= 1
    <3>1. CASE {l \in tree : l.ino = i} = {}
      BY <3>1, FS_EmptySet
    <3>2. ASSUME NEW m \in {l \in tree : l.ino = i}
          PROVE  Cardinality({l \in tree : l.ino = i}) <= 1
      <4>1. {l \in tree : l.ino = i} = {m}
        BY <3>2 DEF UnpfsInv, IsTree
      <4>2. Cardinality({m}) = 1
        BY FS_Singleton
      <4>3. QED
        BY <4>1, <4>2
    <3>3. QED
      BY <3>1, <3>2
  <2>3. QED
    BY <2>1, <2>2 DEF TypeOK, UnpfsInv, IsTree, Bound
<1>2. QED
  BY <1>1, UnpfsInvHolds, PTL

(* A fid is no less deep in the host than its depth says, and no deeper    *)
(* than the export, the depth and what rlcreate appended, for every walk,  *)
(* every limit and every place of the export.                              *)
THEOREM DepthFollowsPath == Spec => []DepthBounds
<1>1. UnpfsInv => DepthBounds
  BY DEF UnpfsInv, DepthBounds, Bound, Deep
<1>2. QED
  BY <1>1, UnpfsInvHolds, PTL

(* The path of a fid with an open file does not denote another file, as    *)
(* long as no request changes the fid and nothing on the way was renamed.  *)
THEOREM PathAndHandleAgree == Spec => []HandleNeverOther
<1>1. UnpfsInv => HandleNeverOther
  <2> SUFFICES ASSUME UnpfsInv, NEW f \in Bound \ Owned, fids[f].file # NoIno,
                      Alive(tree, fids[f].file), Above(tree, fids[f].file) \cap moved = {}
               PROVE  Resolve(tree, fids[f].path) \in {NoIno, fids[f].file}
    BY DEF HandleNeverOther
  <2>1. f \in Fids /\ fids[f] \in UnpfsFId /\ IsTree(tree)
    BY DEF UnpfsInv, Bound
  <2>2. ~HalfMade(f)
    BY DEF HalfMade, Owned, Running
  <2>3. Resolve(tree, Normal(fids[f].path)) = fids[f].file
    BY <2>1, <2>2 DEF UnpfsInv, Leads
  <2>4. fids[f].path \in Seq(PathNames)
    BY <2>1 DEF UnpfsFId
  <2>5. QED
    BY <2>1, <2>3, <2>4, ResolveNormal
<1>2. QED
  BY <1>1, UnpfsInvHolds, PTL

(* The qid of a reply is that of the file that was opened or made, and     *)
(* that of a whole walk is the qid of what newfid denotes, unless another  *)
(* request changed the tree meanwhile.                                     *)
THEOREM QidsAreTrue == Spec => []QidIsFile
<1>1. UnpfsInv => QidIsFile
  <2> SUFFICES ASSUME UnpfsInv, NEW t \in Tasks, op[t].at = "done", op[t].ok, ~op[t].stirred, op[t].qids # <<>>
               PROVE  /\ op[t].fd # NoIno => Last(op[t].qids) = op[t].fd
                      /\ op[t].kind = "rwalk" /\ Len(op[t].qids) = Len(op[t].wnames) =>
                           Last(op[t].qids) = Resolve(tree, op[t].aux.path)
    BY DEF QidIsFile
  <2>1. Settled(op[t], tree)
    BY DEF UnpfsInv, Running
  <2>2. QED
    BY <2>1 DEF Settled
<1>2. QED
  BY <1>1, UnpfsInvHolds, PTL

(* A request that reports an error and yet changed the tree was disturbed  *)
(* by another request.                                                     *)
THEOREM ErrorsChangeNothingAlone == Spec => []ErrorAfterChange
<1>1. UnpfsInv => ErrorAfterChange
  <2> SUFFICES ASSUME UnpfsInv, NEW t \in Tasks, op[t].at = "done", ~op[t].ok, op[t].changed
               PROVE  op[t].stirred
    BY DEF ErrorAfterChange
  <2>1. Settled(op[t], tree)
    BY DEF UnpfsInv, Running
  <2>2. QED
    BY <2>1 DEF Settled
<1>2. QED
  BY <1>1, UnpfsInvHolds, PTL
====
