---- MODULE ReadDirProofs ----
(***************************************************************************)
(* The scan of a directory, for every directory, every length of names and *)
(* every count, with any number of entries made and removed during it.     *)
(***************************************************************************)
EXTENDS ReadDir, FoldFacts, FiniteSetTheorems

\* The entries of a page, and a request.
Dirents == [name : Entries \cup {Dot, DotDot}, offset : Nat]
Op == [at : {"idle", "list", "done"}, off : Nat, count : Counts \cup {0}, left : Nat, i : Nat, data : Seq(Dirents),
       buf : SUBSET Entries, cursor : Nat, remain : BOOLEAN, lost : SUBSET Entries, ok : BOOLEAN]

\* The members of s up to n.
Upto(s, n) == {e \in s : e <= n}
\* What the client has last, and what it has of a page.
LastGot == IF got = <<>> THEN Dot - 1 ELSE got[Len(got)]
Taken(n) == {op.data[j].name : j \in 1..n}
\* What the loop has not come to, and what was there from the beginning.
Pending == op.buf \cup Ahead(op.cursor)
Kept == dir \ added

\* The state, by its types.
Typed ==
  /\ dir \in SUBSET Entries /\ added \in SUBSET Entries /\ removed \in SUBSET Entries
  /\ pos \in Nat /\ got \in Seq(Entries \cup {Dot, DotDot}) /\ ended \in BOOLEAN /\ short \in BOOLEAN
  /\ op \in Op
  /\ pos = 0 => got = <<>>

\* A request under way.
Request ==
  /\ ~ended /\ op.off = pos /\ op.lost \subseteq removed
  /\ op.at = "list" => op.ok
  /\ op.ok \/ op.lost # {}
  /\ \A j \in 1..Len(op.data) : op.data[j].offset = 0 => j = 1 /\ pos = 0
Listing ==
  /\ \A u \in op.buf : u <= op.cursor
  /\ op.buf \subseteq dir \cup op.lost
  /\ op.left <= op.i /\ (op.left > 0 => op.data = <<>>)
Fitting == SizeOf(op.data) <= op.count \/ op.data = Dots \/ (op.at = "list" /\ op.data = <<>>)

\* The entries the loop has passed, which it counts.
Passed ==
  \E Q \in SUBSET Entries :
    /\ Cardinality(Q) = op.i - op.left
    /\ \A q \in Q : q <= op.cursor /\ \A u \in op.buf : q < u
    /\ added = {} => Upto(dir, op.cursor) \subseteq Q \cup op.buf
    /\ removed = {} => Q \subseteq dir

\* No offset leads before the entry it was given with.
OnceGot ==
  /\ \A j, k \in 1..Len(got) : j < k => got[j] < got[k]
  /\ Cardinality(Upto(dir, LastGot)) <= Offset(pos)
OncePage ==
  /\ \A j, k \in 1..Len(op.data) : j < k => op.data[j].name < op.data[k].name
  /\ \A j \in 1..Len(op.data) : LastGot < op.data[j].name
  /\ \A j \in 1..Len(op.data) : Cardinality(Upto(dir, op.data[j].name)) <= Offset(op.data[j].offset)
OnceListing ==
  /\ Cardinality(Upto(Pending, LastGot)) <= op.left
  /\ \A j \in 1..Len(op.data), u \in Pending : op.data[j].name < u

\* No offset leads past an entry that is not yet given.
AllGot ==
  /\ Offset(pos) <= Cardinality(Upto(dir, LastGot))
  /\ Upto(Kept, LastGot) \subseteq ToSet(got)
  /\ ended /\ ~short => Kept \subseteq ToSet(got)
AllPage ==
  /\ \A j \in 1..Len(op.data) : Offset(op.data[j].offset) <= Cardinality(Upto(dir, op.data[j].name))
  /\ \A j \in 1..Len(op.data) : Upto(Kept, op.data[j].name) \subseteq ToSet(got) \cup Taken(j)
  /\ op.at = "done" /\ op.ok /\ op.data = <<>> /\ ~short => Kept \subseteq ToSet(got)
AllListing ==
  /\ op.left <= Cardinality(Upto(Pending, LastGot))
  /\ Kept \subseteq ToSet(got) \cup Taken(Len(op.data)) \cup Pending
  /\ op.remain \/ Kept \cap Ahead(op.cursor) = {}

ReadDirInv ==
  /\ Typed
  /\ op.at # "idle" => Request /\ Fitting
  /\ op.at = "list" => Listing /\ Passed
  /\ added = {} => OnceGot /\ (op.at # "idle" => OncePage) /\ (op.at = "list" => OnceListing)
  /\ removed = {} => AllGot /\ (op.at # "idle" => AllPage) /\ (op.at = "list" => AllListing)

-----------------------------------------------------------------------------
(* The least of some numbers.                                              *)
LEMMA Least ==
  ASSUME NEW s \in SUBSET Nat, s # {}
  PROVE  Min(s) \in s /\ \A y \in s : Min(s) <= y
<1>1. PICK R : IsWellFoundedOn(R, Nat) /\ \A x, y \in Nat : x < y => <<x, y>> \in R
  <2>1. \A x, y \in Nat : x < y => <<x, y>> \in OpToRel(<, Nat)
    BY DEF OpToRel
  <2>2. QED
    BY <2>1, NatLessThanWellFounded DEF OpToRel
<1>2. PICK x \in s : \A y \in s : ~ (<<y, x>> \in R)
  <2>1. PICK u : u = Nat \ s
    OBVIOUS
  <2>2. Nat \ u # {} /\ Nat \ u \subseteq Nat
    BY <2>1
  <2>3. PICK x \in Nat \ u : \A y \in Nat \ u : ~ (<<y, x>> \in R)
    BY <1>1, <2>2, WFMin
  <2>4. QED
    BY <2>1, <2>3
<1>3. \A y \in s : x <= y
  <2>1. \A y \in s : x \in Nat /\ y \in Nat /\ ~ (y < x)
    BY <1>1, <1>2
  <2>2. QED
    BY <2>1
<1>4. QED
  BY <1>2, <1>3 DEF Min

(* Entries are numbers, and there are finitely many.                       *)
LEMMA EntryNumbers ==
  /\ \A e \in Entries : e \in Nat /\ e > 0
  /\ \A s \in SUBSET Entries : IsFiniteSet(s) /\ Cardinality(s) \in Nat
<1>1. \A e \in Entries : e \in Nat /\ e > 0
  BY ReadDirAssumption
<1>2. ASSUME NEW s \in SUBSET Entries
      PROVE  IsFiniteSet(s) /\ Cardinality(s) \in Nat
  BY ReadDirAssumption, FS_Subset, FS_CardinalityType
<1>3. QED
  BY <1>1, <1>2

(* A part of a set has no more elements.                                   *)
LEMMA CountWithin ==
  ASSUME NEW t \in SUBSET Entries, NEW s \in SUBSET t
  PROVE  Cardinality(s) <= Cardinality(t)
BY EntryNumbers, FS_Subset

(* An element more or less is one more or less.                            *)
LEMMA CountOne ==
  ASSUME NEW s \in SUBSET Entries, NEW x \in Entries
  PROVE  /\ x \in s => Cardinality(s \ {x}) = Cardinality(s) - 1
         /\ x \notin s => Cardinality(s \cup {x}) = Cardinality(s) + 1
<1>1. IsFiniteSet(s)
  BY EntryNumbers
<1>2. Cardinality(s \ {x}) = IF x \in s THEN Cardinality(s) - 1 ELSE Cardinality(s)
  BY <1>1, FS_RemoveElement
<1>3. Cardinality(s \cup {x}) = IF x \in s THEN Cardinality(s) ELSE Cardinality(s) + 1
  BY <1>1, FS_AddElement
<1>4. QED
  BY <1>2, <1>3

(* A set with an element has one at least.                                 *)
LEMMA CountNone ==
  ASSUME NEW s \in SUBSET Entries
  PROVE  Cardinality(s) > 0 <=> s # {}
BY EntryNumbers, FS_EmptySet

-----------------------------------------------------------------------------
\* The size of an entry as it is added up.
Bytes == Nat
None == 0
Adds == [c \in Bytes \X Dirents |-> c[1] + Size(c[2].name)]

(* A name adds a number of bytes.                                         *)
LEMMA SizeType ==
  ASSUME NEW name \in Entries \cup {Dot, DotDot}
  PROVE  Size(name) \in Nat
<1>1. name \in Entries => NameLen[name] \in Nat
  BY ReadDirAssumption
<1>2. (CASE name = Dot -> 1 [] name = DotDot -> 2 [] OTHER -> NameLen[name]) \in Nat
  <2>1. CASE name = Dot
    BY <2>1 DEF DotDot, Dot
  <2>2. CASE name # Dot /\ name = DotDot
    BY <2>2 DEF DotDot, Dot
  <2>3. CASE name # Dot /\ name # DotDot
    BY <1>1, <2>3
  <2>4. QED
    BY <2>1, <2>2, <2>3
<1>3. QED
  BY <1>2 DEF Size

(* The size of a page is added up one entry after the other.               *)
LEMMA SizeRun ==
  ASSUME NEW p \in Seq(Dirents)
  PROVE  \E at : Run(at, Bytes, None, Adds, p) /\ SizeOf(p) = at[Len(p)]
<1> DEFINE Chosen(iter) == iter = [s \in SUBSET DOMAIN p |->
                             IF s = {} THEN None ELSE iter[s \ {Max(s)}] + Size(p[Max(s)].name)]
           iter == CHOOSE iter : Chosen(iter)
<1>1. None \in Bytes /\ Len(p) \in Nat /\ DOMAIN p = 1..Len(p)
  BY DEF None, Bytes
<1>2. Adds \in [Bytes \X Dirents -> Bytes]
  <2>1. \A d \in Dirents : Size(d.name) \in Nat
    BY SizeType DEF Dirents
  <2>2. QED
    BY <2>1 DEF Adds, Bytes
<1>3. PICK it : IsIter(it, Bytes, None, Adds, p)
  BY <1>1, <1>2, FoldExists
<1>4. Chosen(it)
  <2>1. ASSUME NEW s \in SUBSET (1..Len(p)), s # {}
        PROVE  it[s] = it[s \ {Max(s)}] + Size(p[Max(s)].name)
    <3>1. Max(s) \in 1..Len(p)
      BY <1>1, <2>1, Largest
    <3>2. p[Max(s)] \in Dirents /\ it[s \ {Max(s)}] \in Bytes
      <4>1. s \ {Max(s)} \in SUBSET (1..Len(p))
        OBVIOUS
      <4>2. QED
        BY <1>1, <1>3, <3>1, <4>1 DEF IsIter
    <3>3. QED
      BY <1>3, <2>1, <3>2 DEF IsIter, Adds
  <2>2. \A s \in SUBSET (1..Len(p)) :
          it[s] = IF s = {} THEN None ELSE it[s \ {Max(s)}] + Size(p[Max(s)].name)
    BY <1>3, <2>1 DEF IsIter
  <2>3. QED
    BY <1>1, <1>3, <2>2 DEF IsIter
<1>5. Chosen(iter)
  <2> HIDE DEF Chosen
  <2>1. QED
    BY <1>4
<1>6. SizeOf(p) = iter[1..Len(p)]
  BY <1>1 DEF SizeOf, FoldLeft, MapThenFoldSet, None
<1>7. iter[{}] = None
  BY <1>1, <1>5
<1>8. ASSUME NEW k \in 0..(Len(p) - 1), iter[1..k] \in Bytes
      PROVE  iter[1..(k + 1)] = Adds[<<iter[1..k], p[k + 1]>>]
  <2>1. k \in Nat /\ p[k + 1] \in Dirents /\ 1..(k + 1) \in SUBSET (1..Len(p))
    BY <1>1
  <2>2. 1..(k + 1) # {} /\ Max(1..(k + 1)) = k + 1 /\ (1..(k + 1)) \ {k + 1} = 1..k
    BY <2>1, IntervalMax
  <2>3. iter[1..(k + 1)] = iter[(1..(k + 1)) \ {Max(1..(k + 1))}] + Size(p[Max(1..(k + 1))].name)
    BY <1>1, <1>5, <2>1, <2>2
  <2>4. iter[1..(k + 1)] = iter[1..k] + Size(p[k + 1].name)
    BY <2>2, <2>3
  <2> HIDE DEF iter
  <2>5. QED
    BY <1>8, <2>1, <2>4 DEF Adds
<1> HIDE DEF iter, Chosen
<1>9. Run([k \in 0..Len(p) |-> iter[1..k]], Bytes, None, Adds, p)
  BY <1>1, <1>2, <1>7, <1>8, IterRuns, ZenonT(60)
<1>10. [k \in 0..Len(p) |-> iter[1..k]][Len(p)] = iter[1..Len(p)]
  BY <1>1
<1>11. QED
  BY <1>6, <1>9, <1>10

(* An entry more adds its own size; an empty page has none.                *)
LEMMA SizeAppend ==
  ASSUME NEW p \in Seq(Dirents)
  PROVE  /\ SizeOf(p) \in Nat
         /\ p = <<>> => SizeOf(p) = 0
         /\ \A x \in Dirents : SizeOf(Append(p, x)) = SizeOf(p) + Size(x.name)
<1>1. PICK a : Run(a, Bytes, None, Adds, p) /\ SizeOf(p) = a[Len(p)]
  BY SizeRun
<1>2. SizeOf(p) \in Nat
  <2>1. Len(p) \in 0..Len(p)
    OBVIOUS
  <2>2. QED
    BY <1>1, <2>1 DEF Run, Bytes
<1>3. p = <<>> => SizeOf(p) = 0
  BY <1>1 DEF Run, None
<1>4. ASSUME NEW x \in Dirents
      PROVE  SizeOf(Append(p, x)) = SizeOf(p) + Size(x.name)
  <2>0. None \in Bytes
    BY DEF None, Bytes
  <2>1. Append(p, x) \in Seq(Dirents) /\ Len(Append(p, x)) = Len(p) + 1
    OBVIOUS
  <2>2. PICK b : Run(b, Bytes, None, Adds, Append(p, x)) /\ SizeOf(Append(p, x)) = b[Len(p) + 1]
    BY <2>1, SizeRun
  <2>3. b[Len(p) + 1] = Adds[<<a[Len(p)], x>>]
    BY <1>1, <2>2, <2>0, RunAppend
  <2>4. QED
    BY <1>1, <1>2, <2>2, <2>3 DEF Adds, Bytes
<1>5. QED
  BY <1>2, <1>3, <1>4

-----------------------------------------------------------------------------
\* What the type says of the parts of the state.
LEMMA Fields ==
  ASSUME Typed
  PROVE  /\ op.at \in {"idle", "list", "done"} /\ op.off \in Nat /\ op.count \in Nat /\ op.count \in Counts \cup {0}
         /\ op.left \in Nat /\ op.i \in Nat /\ op.data \in Seq(Dirents) /\ op.buf \in SUBSET Entries
         /\ op.cursor \in Nat /\ op.remain \in BOOLEAN /\ op.lost \in SUBSET Entries /\ op.ok \in BOOLEAN
         /\ Len(op.data) \in Nat /\ Len(got) \in Nat
         /\ \A j \in 1..Len(op.data) : /\ op.data[j].name \in Entries \cup {Dot, DotDot}
                                       /\ op.data[j].name \in Int /\ op.data[j].offset \in Nat
         /\ \A j \in 1..Len(got) : got[j] \in Entries \cup {Dot, DotDot} /\ got[j] \in Int
         /\ LastGot \in Int
         /\ \A s \in SUBSET Entries, n \in Int : Upto(s, n) \in SUBSET Entries /\ Cardinality(Upto(s, n)) \in Nat
         /\ Pending \in SUBSET Entries
<1>1. op \in Op /\ got \in Seq(Entries \cup {Dot, DotDot})
  BY DEF Typed
<1>2. /\ op.at \in {"idle", "list", "done"} /\ op.off \in Nat /\ op.count \in Counts \cup {0}
      /\ op.left \in Nat /\ op.i \in Nat /\ op.data \in Seq(Dirents) /\ op.buf \in SUBSET Entries
      /\ op.cursor \in Nat /\ op.remain \in BOOLEAN /\ op.lost \in SUBSET Entries /\ op.ok \in BOOLEAN
  BY <1>1 DEF Op
<1>3. op.count \in Nat
  <2>1. Counts \cup {0} \subseteq Nat
    BY ReadDirAssumption
  <2>2. QED
    BY <1>2, <2>1
<1>4. Len(op.data) \in Nat /\ Len(got) \in Nat /\ \A j \in 1..Len(op.data) : op.data[j] \in Dirents
  BY <1>1, <1>2
<1>5. \A x \in Entries \cup {Dot, DotDot} : x \in Int
  BY EntryNumbers DEF Dot, DotDot
<1>6. \A j \in 1..Len(got) : got[j] \in Entries \cup {Dot, DotDot} /\ got[j] \in Int
  BY <1>1, <1>4, <1>5
<1>7. \A j \in 1..Len(op.data) : /\ op.data[j].name \in Entries \cup {Dot, DotDot}
                                 /\ op.data[j].name \in Int /\ op.data[j].offset \in Nat
  BY <1>4, <1>5 DEF Dirents
<1>8. LastGot \in Int
  <2>1. CASE got = <<>>
    BY <2>1 DEF LastGot, Dot
  <2>2. CASE got # <<>>
    <3>1. Len(got) \in 1..Len(got)
      BY <1>1, <2>2
    <3>2. QED
      BY <1>6, <2>2, <3>1 DEF LastGot
  <2>3. QED
    BY <2>1, <2>2
<1>9. \A s \in SUBSET Entries, n \in Int : Upto(s, n) \in SUBSET Entries /\ Cardinality(Upto(s, n)) \in Nat
  BY EntryNumbers DEF Upto
<1>10. Pending \in SUBSET Entries
  BY <1>2 DEF Pending, Ahead, Typed
<1>11. QED
  BY <1>2, <1>3, <1>4, <1>6, <1>7, <1>8, <1>9, <1>10

\* Where an offset leads.
LEMMA OffsetType ==
  /\ \A off \in Nat : Offset(off) \in Nat
  /\ Offset(0) = 0 /\ Offset(1) = 0
  /\ \A i \in Nat : DirentOffset(i) \in Nat /\ DirentOffset(i) # 0 /\ Offset(DirentOffset(i)) = i + 1
BY DEF Offset, DirentOffset

\* An entry goes away: fewer are there up to any place.
LEMMA RemoveKeeps ==
  ASSUME ReadDirInv, NEW e \in Entries, RemoveEntry(e)
  PROVE  ReadDirInv'
<1> USE DEF ReadDirInv
<1>1. /\ dir' = dir \ {e} /\ removed' = removed \cup {e} /\ e \in dir
      /\ pos' = pos /\ got' = got /\ ended' = ended /\ added' = added /\ short' = short
      /\ op' = [op EXCEPT !.lost = @ \cup {e}]
  BY DEF RemoveEntry, Client
<1>2. op \in Op
  BY DEF Typed
<1>3. /\ op' \in Op /\ op'.lost = op.lost \cup {e}
      /\ op'.at = op.at /\ op'.off = op.off /\ op'.count = op.count /\ op'.left = op.left /\ op'.i = op.i
      /\ op'.data = op.data /\ op'.buf = op.buf /\ op'.cursor = op.cursor /\ op'.remain = op.remain /\ op'.ok = op.ok
  BY <1>1, <1>2 DEF Op
<1>4. LastGot' = LastGot /\ Pending' \subseteq Pending
  BY <1>1, <1>3 DEF LastGot, Pending, Ahead
<1>5. dir \in SUBSET Entries /\ added \in SUBSET Entries /\ removed \in SUBSET Entries
  BY DEF Typed
<1>6. \A n \in Int : /\ Upto(dir', n) \subseteq Upto(dir, n)
                     /\ Cardinality(Upto(dir', n)) \in Nat /\ Cardinality(Upto(dir', n)) <= Cardinality(Upto(dir, n))
  <2>1. ASSUME NEW n \in Int
        PROVE  Upto(dir', n) \in SUBSET Upto(dir, n) /\ Upto(dir, n) \in SUBSET Entries
    BY <1>1, <1>5 DEF Upto
  <2>2. QED
    BY <2>1, CountWithin, EntryNumbers
<1>7. Typed'
  BY <1>1, <1>3, <1>5 DEF Typed
<1>8. op'.at # "idle" => Request' /\ Fitting'
  BY <1>1, <1>3 DEF Request, Fitting
<1>9. op'.at = "list" => Listing'
  BY <1>1, <1>3 DEF Listing
<1>10. ASSUME op'.at = "list"
       PROVE  Passed'
  <2>1. PICK Q \in SUBSET Entries :
          /\ Cardinality(Q) = op.i - op.left
          /\ \A q \in Q : q <= op.cursor /\ \A u \in op.buf : q < u
          /\ added = {} => Upto(dir, op.cursor) \subseteq Q \cup op.buf
          /\ removed = {} => Q \subseteq dir
    BY <1>3, <1>10 DEF Passed
  <2>2. added = {} => Upto(dir', op.cursor) \subseteq Q \cup op.buf
    BY <1>1, <2>1 DEF Upto
  <2>3. removed' # {}
    BY <1>1
  <2>4. QED
    BY <1>1, <1>3, <2>1, <2>2, <2>3 DEF Passed
<1>11. added' = {} => OnceGot' /\ (op'.at # "idle" => OncePage') /\ (op'.at = "list" => OnceListing')
  <2>0. Offset(pos) \in Nat /\ op.left \in Nat /\ LastGot \in Int
    BY OffsetType, Fields DEF Typed
  <2>1. added = {} => OnceGot'
    <3>1. Cardinality(Upto(dir, LastGot)) \in Nat
      BY <1>5, <2>0, Fields
    <3>2. Cardinality(Upto(dir', LastGot)) \in Nat /\ Cardinality(Upto(dir', LastGot)) <= Cardinality(Upto(dir, LastGot))
      BY <1>6, <2>0
    <3>3. added = {} => Cardinality(Upto(dir', LastGot)) <= Offset(pos)
      BY <2>0, <3>1, <3>2 DEF OnceGot
    <3>4. QED
      BY <1>1, <1>4, <3>3 DEF OnceGot
  <2>2. added = {} /\ op.at # "idle" => OncePage'
    <3>1. \A j \in 1..Len(op.data) : op.data[j].name \in Int /\ Offset(op.data[j].offset) \in Nat
      BY Fields, OffsetType
    <3>2. added = {} /\ op.at # "idle" => OncePage
      OBVIOUS
    <3>3. \A j \in 1..Len(op.data) : Cardinality(Upto(dir, op.data[j].name)) \in Nat
      BY <1>5, <3>1, Fields
    <3>4. ASSUME added = {}, op.at # "idle", NEW j \in 1..Len(op.data)
          PROVE  Cardinality(Upto(dir', op.data[j].name)) <= Offset(op.data[j].offset)
      <4>1. Cardinality(Upto(dir, op.data[j].name)) <= Offset(op.data[j].offset)
        BY <3>2, <3>4 DEF OncePage
      <4>2. /\ Cardinality(Upto(dir', op.data[j].name)) \in Nat
            /\ Cardinality(Upto(dir', op.data[j].name)) <= Cardinality(Upto(dir, op.data[j].name))
        BY <1>6, <3>1
      <4>3. QED
        BY <3>1, <3>3, <4>1, <4>2
    <3>5. QED
      BY <1>3, <1>4, <3>2, <3>4 DEF OncePage
  <2>3. added = {} /\ op.at = "list" => OnceListing'
    <3>1. Upto(Pending', LastGot) \in SUBSET Upto(Pending, LastGot) /\ Upto(Pending, LastGot) \in SUBSET Entries
      BY <1>4, Fields DEF Upto
    <3>2. /\ Cardinality(Upto(Pending', LastGot)) <= Cardinality(Upto(Pending, LastGot))
          /\ Cardinality(Upto(Pending', LastGot)) \in Nat /\ Cardinality(Upto(Pending, LastGot)) \in Nat
      BY <3>1, CountWithin, EntryNumbers
    <3>3. added = {} /\ op.at = "list" => OnceListing
      OBVIOUS
    <3>4. QED
      BY <1>3, <1>4, <2>0, <3>2, <3>3 DEF OnceListing
  <2>4. QED
    BY <1>1, <1>3, <2>1, <2>2, <2>3
<1>12. removed' # {}
  BY <1>1
<1>13. QED
  BY <1>7, <1>8, <1>9, <1>10, <1>11, <1>12

\* An entry is made: more are there up to any place, and it is none of those
\* that were there from the beginning.
LEMMA MakeKeeps ==
  ASSUME ReadDirInv, NEW e \in Entries, MakeEntry(e)
  PROVE  ReadDirInv'
<1> USE DEF ReadDirInv
<1>1. /\ dir' = dir \cup {e} /\ added' = added \cup {e} /\ e \notin dir /\ ~ended
      /\ pos' = pos /\ got' = got /\ ended' = ended /\ removed' = removed /\ short' = short /\ op' = op
  BY DEF MakeEntry, Client
<1>2. LastGot' = LastGot /\ Pending \subseteq Pending' /\ Pending' \in SUBSET Entries /\ Kept' = Kept
  <2>1. LastGot' = LastGot
    BY <1>1 DEF LastGot
  <2>2. Pending \subseteq Pending' /\ Pending' \in SUBSET Entries
    BY <1>1, Fields DEF Pending, Ahead, Typed
  <2>3. Kept' = Kept
    BY <1>1 DEF Kept
  <2>4. QED
    BY <2>1, <2>2, <2>3
<1>3. dir \in SUBSET Entries /\ dir' \in SUBSET Entries /\ added \in SUBSET Entries /\ removed \in SUBSET Entries
  BY <1>1 DEF Typed
<1>4. \A n \in Int : /\ Cardinality(Upto(dir, n)) <= Cardinality(Upto(dir', n))
                     /\ Cardinality(Upto(dir', n)) \in Nat /\ Cardinality(Upto(dir, n)) \in Nat
  <2>1. ASSUME NEW n \in Int
        PROVE  Upto(dir, n) \in SUBSET Upto(dir', n) /\ Upto(dir', n) \in SUBSET Entries
    BY <1>1, <1>3 DEF Upto
  <2>2. QED
    BY <2>1, CountWithin, EntryNumbers
<1>5. Typed'
  BY <1>1, <1>3 DEF Typed
<1>6. /\ op'.at # "idle" => Request' /\ Fitting'
      /\ op'.at = "list" => Listing'
  BY <1>1 DEF Request, Fitting, Listing
<1>7. ASSUME op'.at = "list"
      PROVE  Passed'
  <2>1. PICK Q \in SUBSET Entries :
          /\ Cardinality(Q) = op.i - op.left
          /\ \A q \in Q : q <= op.cursor /\ \A u \in op.buf : q < u
          /\ added = {} => Upto(dir, op.cursor) \subseteq Q \cup op.buf
          /\ removed = {} => Q \subseteq dir
    BY <1>1, <1>7 DEF Passed
  <2>2. added' # {}
    BY <1>1
  <2>3. QED
    BY <1>1, <2>1, <2>2 DEF Passed
<1>8. removed' = {} => AllGot' /\ (op'.at # "idle" => AllPage') /\ (op'.at = "list" => AllListing')
  <2>0. Offset(pos) \in Nat /\ op.left \in Nat /\ LastGot \in Int
    BY OffsetType, Fields DEF Typed
  <2>1. removed = {} => AllGot'
    <3>1. removed = {} => AllGot
      OBVIOUS
    <3>2. removed = {} => Offset(pos) <= Cardinality(Upto(dir', LastGot))
      BY <1>4, <2>0, <3>1 DEF AllGot
    <3>3. QED
      BY <1>1, <1>2, <3>1, <3>2 DEF AllGot
  <2>2. removed = {} /\ op.at # "idle" => AllPage'
    <3>1. \A j \in 1..Len(op.data) : op.data[j].name \in Int /\ Offset(op.data[j].offset) \in Nat
      BY Fields, OffsetType
    <3>2. removed = {} /\ op.at # "idle" => AllPage
      OBVIOUS
    <3>3. removed = {} /\ op.at # "idle" =>
            \A j \in 1..Len(op.data) : Offset(op.data[j].offset) <= Cardinality(Upto(dir', op.data[j].name))
      <4>1. ASSUME removed = {}, op.at # "idle", NEW j \in 1..Len(op.data)
            PROVE  Offset(op.data[j].offset) <= Cardinality(Upto(dir', op.data[j].name))
        <5>1. Offset(op.data[j].offset) <= Cardinality(Upto(dir, op.data[j].name))
          BY <3>2, <4>1 DEF AllPage
        <5>2. /\ Cardinality(Upto(dir', op.data[j].name)) \in Nat /\ Cardinality(Upto(dir, op.data[j].name)) \in Nat
              /\ Cardinality(Upto(dir, op.data[j].name)) <= Cardinality(Upto(dir', op.data[j].name))
          BY <1>4, <3>1
        <5>3. QED
          BY <3>1, <5>1, <5>2
      <4>2. QED
        BY <4>1
    <3>4. \A j \in 1..Len(op.data) : Taken(j)' = Taken(j)
      BY <1>1 DEF Taken
    <3>5. QED
      BY <1>1, <1>2, <3>2, <3>3, <3>4 DEF AllPage
  <2>3. removed = {} /\ op.at = "list" => AllListing'
    <3>1. Upto(Pending, LastGot) \in SUBSET Upto(Pending', LastGot) /\ Upto(Pending', LastGot) \in SUBSET Entries
      BY <1>2, Fields DEF Upto
    <3>2. /\ Cardinality(Upto(Pending, LastGot)) <= Cardinality(Upto(Pending', LastGot))
          /\ Cardinality(Upto(Pending', LastGot)) \in Nat /\ Cardinality(Upto(Pending, LastGot)) \in Nat
      BY <3>1, CountWithin, EntryNumbers
    <3>3. removed = {} /\ op.at = "list" => AllListing
      OBVIOUS
    <3>4. Taken(Len(op.data))' = Taken(Len(op.data))
      BY <1>1 DEF Taken
    <3>5. Kept \cap Ahead(op.cursor) = {} => Kept' \cap Ahead(op.cursor)' = {}
      BY <1>1, <1>2 DEF Ahead, Kept
    <3>6. removed = {} /\ op.at = "list" => op.left <= Cardinality(Upto(Pending', LastGot))
      BY <2>0, <3>2, <3>3 DEF AllListing
    <3>7. QED
      BY <1>1, <1>2, <3>3, <3>4, <3>5, <3>6 DEF AllListing
  <2>4. QED
    BY <1>1, <2>1, <2>2, <2>3
<1>9. added' # {}
  BY <1>1
<1>10. QED
  BY <1>5, <1>6, <1>7, <1>8, <1>9

-----------------------------------------------------------------------------
\* What the steps of a request leave alone.
Around == UNCHANGED <<dir, Client, History>> /\ short' \in BOOLEAN /\ (short => short')

\* So what they say of the client goes on being true.
LEMMA AroundKeeps ==
  ASSUME ReadDirInv, Around
  PROVE  /\ dir' = dir /\ pos' = pos /\ got' = got /\ ended' = ended /\ added' = added /\ removed' = removed
         /\ LastGot' = LastGot /\ Kept' = Kept
         /\ added' = {} => OnceGot'
         /\ removed' = {} => AllGot'
         /\ op' \in Op => Typed'
<1>1. /\ dir' = dir /\ pos' = pos /\ got' = got /\ ended' = ended /\ added' = added /\ removed' = removed
      /\ short' \in BOOLEAN /\ (short => short')
  BY DEF Around, Client, History
<1>2. LastGot' = LastGot /\ Kept' = Kept
  BY <1>1 DEF LastGot, Kept
<1>3. added' = {} => OnceGot'
  BY <1>1, <1>2 DEF ReadDirInv, OnceGot
<1>4. removed' = {} => AllGot'
  BY <1>1, <1>2 DEF ReadDirInv, AllGot
<1>5. op' \in Op => Typed'
  BY <1>1 DEF ReadDirInv, Typed
<1>6. QED
  BY <1>1, <1>2, <1>3, <1>4, <1>5

\* The buffer is filled with what comes next.
Filled(o) ==
  /\ op' \in Op
  /\ op'.at = o.at /\ op'.off = o.off /\ op'.count = o.count /\ op'.left = o.left /\ op'.i = o.i
  /\ op'.data = o.data /\ op'.lost = o.lost /\ op'.ok = o.ok
  /\ o.cursor <= op'.cursor /\ op'.buf \subseteq dir
  /\ op'.buf \cup Ahead(op'.cursor) = Ahead(o.cursor)
  /\ \A u \in op'.buf : o.cursor < u /\ u <= op'.cursor
  /\ op'.remain \/ Ahead(op'.cursor) = {}

\* A buffer that is filled holds what comes next, and the rest is ahead of it.
LEMMA FillsIs ==
  ASSUME dir \in SUBSET Entries, NEW o \in Op, Fills(o)
  PROVE  Filled(o)
<1>1. PICK c \in Ahead(o.cursor) \cup {o.cursor}, r \in BOOLEAN :
        /\ ~r => Ahead(c) = {}
        /\ op' = [o EXCEPT !.buf = Ahead(o.cursor) \ Ahead(c), !.cursor = c, !.remain = r]
  BY DEF Fills
<1>2. o.cursor \in Nat /\ dir \in SUBSET Nat
  BY EntryNumbers DEF Op
<1>3. c \in Nat /\ o.cursor <= c
  BY <1>1, <1>2 DEF Ahead
<1> DEFINE buf == Ahead(o.cursor) \ Ahead(c)
<1>4. /\ buf \in SUBSET Entries /\ buf \subseteq dir /\ buf \cup Ahead(c) = Ahead(o.cursor)
      /\ \A u \in buf : o.cursor < u /\ u <= c
  <2>1. Ahead(c) \subseteq Ahead(o.cursor) /\ Ahead(o.cursor) \subseteq dir
    <3>1. ASSUME NEW e \in dir, e > c
          PROVE  e > o.cursor
      <4>1. e \in Nat
        BY <1>2
      <4>2. QED
        BY <1>2, <1>3, <3>1, <4>1
    <3>2. QED
      BY <3>1 DEF Ahead
  <2>2. \A u \in buf : u \in dir /\ o.cursor < u /\ u <= c
    BY <1>2, <1>3 DEF Ahead
  <2>3. QED
    BY <2>1, <2>2
<1> HIDE DEF buf
<1>5. op' = [o EXCEPT !.buf = buf, !.cursor = c, !.remain = r]
  BY <1>1 DEF buf
<1>6. /\ op' \in Op /\ op'.buf = buf /\ op'.cursor = c /\ op'.remain = r
      /\ op'.at = o.at /\ op'.off = o.off /\ op'.count = o.count /\ op'.left = o.left /\ op'.i = o.i
      /\ op'.data = o.data /\ op'.lost = o.lost /\ op'.ok = o.ok
  BY <1>3, <1>4, <1>5 DEF Op
<1>7. QED
  BY <1>1, <1>3, <1>4, <1>6 DEF Filled

\* The loop has to wait for the directory: what it has not come to is the same.
LEMMA fillKeeps ==
  ASSUME ReadDirInv, fill
  PROVE  ReadDirInv'
<1> USE DEF ReadDirInv
<1>1. op.at = "list" /\ op.buf = {} /\ Fills(op) /\ Around
  BY DEF fill, Around, Typed
<1>2. Filled(op)
  BY <1>1, FillsIs DEF Typed
<1>3. op' \in Op /\ op'.at = "list"
  BY <1>1, <1>2 DEF Filled
<1>4. /\ Typed' /\ dir' = dir /\ pos' = pos /\ got' = got /\ ended' = ended /\ added' = added /\ removed' = removed
      /\ LastGot' = LastGot /\ Kept' = Kept /\ (added' = {} => OnceGot') /\ (removed' = {} => AllGot')
  BY <1>1, <1>3, AroundKeeps
<1>5. Pending' = Pending
  BY <1>1, <1>2, <1>4 DEF Filled, Pending, Ahead
<1>6. Request' /\ Fitting'
  BY <1>1, <1>2, <1>4 DEF Request, Fitting, Filled
<1>7. Listing'
  BY <1>1, <1>2, <1>4 DEF Listing, Filled
<1>8. Passed'
  <2>1. PICK Q \in SUBSET Entries :
          /\ Cardinality(Q) = op.i - op.left
          /\ \A q \in Q : q <= op.cursor /\ \A u \in op.buf : q < u
          /\ added = {} => Upto(dir, op.cursor) \subseteq Q \cup op.buf
          /\ removed = {} => Q \subseteq dir
    BY <1>1 DEF Passed
  <2>2. op.cursor \in Nat /\ op'.cursor \in Nat /\ Entries \subseteq Nat /\ dir \subseteq Entries /\ op'.buf \subseteq Entries
    BY <1>3, EntryNumbers DEF Op, Typed
  <2>3. \A q \in Q : q <= op'.cursor /\ \A u \in op'.buf : q < u
    <3>1. op.cursor <= op'.cursor /\ \A u \in op'.buf : op.cursor < u
      BY <1>2 DEF Filled
    <3>2. \A q \in Q : q \in Nat /\ q <= op.cursor
      BY <2>1, <2>2
    <3>3. \A u \in op'.buf : u \in Nat
      BY <2>2
    <3>4. QED
      BY <2>2, <3>1, <3>2, <3>3
  <2>4. added = {} => Upto(dir, op'.cursor) \subseteq Q \cup op'.buf
    <3>1. ASSUME added = {}, NEW e \in dir, e <= op'.cursor
          PROVE  e \in Q \cup op'.buf
      <4>1. CASE e <= op.cursor
        BY <1>1, <2>1, <3>1, <4>1 DEF Upto
      <4>2. CASE ~ (e <= op.cursor)
        <5>1. e \in Ahead(op.cursor) /\ e \notin Ahead(op'.cursor)
          BY <2>2, <3>1, <4>2 DEF Ahead
        <5>2. QED
          BY <1>2, <5>1 DEF Filled
      <4>3. QED
        BY <4>1, <4>2
    <3>2. QED
      BY <3>1 DEF Upto
  <2>5. op'.i = op.i /\ op'.left = op.left
    BY <1>2 DEF Filled
  <2>6. QED
    BY <1>4, <2>1, <2>3, <2>4, <2>5 DEF Passed
<1>9. added' = {} => OncePage' /\ OnceListing'
  BY <1>1, <1>2, <1>4, <1>5 DEF OncePage, OnceListing, Filled
<1>10. removed' = {} => AllPage' /\ AllListing'
  <2>1. op'.data = op.data /\ op'.left = op.left
    BY <1>2 DEF Filled
  <2>2. \A j \in 1..Len(op.data) : Taken(j)' = Taken(j)
    BY <2>1 DEF Taken
  <2>3. Taken(Len(op.data))' = Taken(Len(op.data))
    BY <2>1 DEF Taken
  <2>4. op'.remain \/ (Kept \cap Ahead(op.cursor) = {})'
    BY <1>2, <1>4 DEF Filled, Ahead, Kept
  <2>5. removed = {} => AllPage /\ AllListing
    BY <1>1
  <2>6. removed = {} => AllPage'
    BY <1>3, <1>4, <2>1, <2>2, <2>5 DEF AllPage
  <2>7. removed = {} => AllListing'
    BY <1>4, <1>5, <2>1, <2>3, <2>4, <2>5 DEF AllListing
  <2>8. QED
    BY <1>4, <2>6, <2>7
<1>11. QED
  BY <1>3, <1>4, <1>6, <1>7, <1>8, <1>9, <1>10

\* The dots are before all entries.
LEMMA DotsAre ==
  /\ Dots \in Seq(Dirents) /\ Len(Dots) = 2
  /\ \A j \in 1..Len(Dots) : (j = 1 /\ Dots[j].name = -1 /\ Dots[j].offset = 0) \/ (j = 2 /\ Dots[j].name = 0 /\ Dots[j].offset = 1)
<1>1. Dirent(Dot, 0) \in Dirents /\ Dirent(DotDot, 1) \in Dirents
  BY DEF Dirent, Dirents
<1>2. /\ Dirent(Dot, 0).name = -1 /\ Dirent(Dot, 0).offset = 0
      /\ Dirent(DotDot, 1).name = 0 /\ Dirent(DotDot, 1).offset = 1
  BY DEF Dirent, Dot, DotDot
<1>3. PICK d, e : d = Dirent(Dot, 0) /\ e = Dirent(DotDot, 1)
  OBVIOUS
<1>4. Dots = <<d, e>> /\ d \in Dirents /\ e \in Dirents
  BY <1>1, <1>3 DEF Dots
<1>5. Dots \in Seq(Dirents) /\ Len(Dots) = 2 /\ Dots[1] = d /\ Dots[2] = e
  BY <1>4
<1>6. \A j \in 1..Len(Dots) : (j = 1 /\ Dots[j] = d) \/ (j = 2 /\ Dots[j] = e)
  <2>1. 1..Len(Dots) = 1..2
    BY <1>5
  <2>2. \A j \in 1..2 : j = 1 \/ j = 2
    OBVIOUS
  <2>3. QED
    BY <1>5, <2>1, <2>2
<1>7. d.name = -1 /\ d.offset = 0 /\ e.name = 0 /\ e.offset = 1
  BY <1>2, <1>3
<1>8. \A j \in 1..Len(Dots) : (j = 1 /\ Dots[j].name = -1 /\ Dots[j].offset = 0) \/ (j = 2 /\ Dots[j].name = 0 /\ Dots[j].offset = 1)
  BY <1>6, <1>7
<1>9. QED
  BY <1>5, <1>8

\* No entry is at a dot or before it.
LEMMA NoneUpto ==
  ASSUME NEW s \in SUBSET Entries, NEW n \in Int, n <= 0
  PROVE  Upto(s, n) = {} /\ Cardinality(Upto(s, n)) = 0
<1>1. Upto(s, n) = {}
  BY EntryNumbers DEF Upto
<1>2. QED
  BY <1>1, FS_EmptySet

\* A page begins with the dots or with nothing.
LEMMA FirstPage ==
  ASSUME NEW data, data = (IF pos = 0 THEN Dots ELSE <<>>)
  PROVE  /\ data \in Seq(Dirents) /\ (data = <<>> \/ data = Dots) /\ (pos # 0 => Len(data) = 0)
         /\ \A j \in 1..Len(data) :
              /\ pos = 0 /\ data[j].name \in Int /\ data[j].name <= 0 /\ Dot <= data[j].name
              /\ Offset(data[j].offset) = 0 /\ (data[j].offset = 0 => j = 1)
         /\ \A j, k \in 1..Len(data) : j < k => data[j].name < data[k].name
<1>1. CASE pos = 0
  <2>1. data = Dots
    BY <1>1
  <2>2. /\ data \in Seq(Dirents) /\ Len(data) = 2
    BY <2>1, DotsAre
  <2>3. \A j \in 1..Len(data) : (j = 1 /\ data[j].name = -1 /\ data[j].offset = 0) \/ (j = 2 /\ data[j].name = 0 /\ data[j].offset = 1)
    BY <2>1, DotsAre
  <2>4. \A j \in 1..Len(data) : /\ data[j].name \in Int /\ data[j].name <= 0 /\ Dot <= data[j].name
                                /\ Offset(data[j].offset) = 0 /\ (data[j].offset = 0 => j = 1)
    <3>1. ASSUME NEW j \in 1..Len(data)
          PROVE  /\ data[j].name \in Int /\ data[j].name <= 0 /\ Dot <= data[j].name
                 /\ Offset(data[j].offset) = 0 /\ (data[j].offset = 0 => j = 1)
      <4>1. CASE j = 1 /\ data[j].name = -1 /\ data[j].offset = 0
        <5>1. PICK name, offset : name = data[j].name /\ offset = data[j].offset
          OBVIOUS
        <5>2. name \in Int /\ name <= 0 /\ Dot <= name /\ Offset(offset) = 0 /\ (offset = 0 => j = 1)
          BY <4>1, <5>1, OffsetType DEF Dot
        <5>3. QED
          BY <5>1, <5>2
      <4>2. CASE j = 2 /\ data[j].name = 0 /\ data[j].offset = 1
        <5>1. PICK name, offset : name = data[j].name /\ offset = data[j].offset
          OBVIOUS
        <5>2. name \in Int /\ name <= 0 /\ Dot <= name /\ Offset(offset) = 0 /\ (offset = 0 => j = 1)
          BY <4>2, <5>1, OffsetType DEF Dot
        <5>3. QED
          BY <5>1, <5>2
      <4>3. QED
        BY <2>3, <4>1, <4>2
    <3>2. QED
      BY <3>1
  <2>5. \A j, k \in 1..Len(data) : j < k => data[j].name < data[k].name
    <3>1. ASSUME NEW j \in 1..Len(data), NEW k \in 1..Len(data), j < k
          PROVE  data[j].name < data[k].name
      <4>1. j = 1 /\ data[j].name = -1
        BY <2>3, <3>1
      <4>2. k = 2 /\ data[k].name = 0
        BY <2>3, <3>1
      <4>3. QED
        BY <4>1, <4>2
    <3>2. QED
      BY <3>1
  <2>6. QED
    BY <1>1, <2>1, <2>2, <2>4, <2>5
<1>2. CASE pos # 0
  <2>1. data = <<>>
    BY <1>2
  <2>2. Len(data) = 0
    BY <2>1
  <2>3. 1..Len(data) = {}
    BY <2>2
  <2>4. <<>> \in Seq(Dirents)
    OBVIOUS
  <2>5. QED
    BY <1>2, <2>1, <2>2, <2>3, <2>4
<1>3. QED
  BY <1>1, <1>2

\* A request begins: what it is to skip is what the client has.
LEMMA rreaddirKeeps ==
  ASSUME ReadDirInv, NEW count \in Counts, rreaddir(count)
  PROVE  ReadDirInv'
<1> USE DEF ReadDirInv
<1>1. PICK data : data = (IF pos = 0 THEN Dots ELSE <<>>)
  OBVIOUS
<1>2. PICK k : k = Offset(pos)
  OBVIOUS
<1> DEFINE o == [Idle EXCEPT !.at = "list", !.off = pos, !.count = count, !.left = k, !.i = k, !.data = data]
<1>3. ~ended /\ Fills(o) /\ Around
  BY <1>1, <1>2 DEF rreaddir, Around, Typed
<1>4. pos \in Nat /\ dir \in SUBSET Entries /\ (pos = 0 => got = <<>>) /\ k \in Nat
  BY <1>2, OffsetType DEF Typed
<1>5. /\ data \in Seq(Dirents) /\ (data = <<>> \/ data = Dots) /\ (pos # 0 => Len(data) = 0)
      /\ \A j \in 1..Len(data) :
           /\ pos = 0 /\ data[j].name \in Int /\ data[j].name <= 0 /\ Dot <= data[j].name
           /\ Offset(data[j].offset) = 0 /\ (data[j].offset = 0 => j = 1)
      /\ \A i, j \in 1..Len(data) : i < j => data[i].name < data[j].name
  BY <1>1, FirstPage
<1>6. /\ o \in Op /\ o.at = "list" /\ o.off = pos /\ o.count = count /\ o.left = k /\ o.i = k /\ o.data = data
      /\ o.cursor = 0 /\ o.lost = {} /\ o.ok = TRUE
  BY <1>4, <1>5 DEF Idle, Op
<1> HIDE DEF o
<1>7. Filled(o)
  BY <1>3, <1>4, <1>6, FillsIs
<1>8. /\ op' \in Op /\ op'.at = "list" /\ op'.off = pos /\ op'.count = count /\ op'.left = k /\ op'.i = k
      /\ op'.data = data /\ op'.lost = {} /\ op'.ok = TRUE /\ op'.buf \subseteq dir
      /\ op'.buf \cup Ahead(op'.cursor) = Ahead(0)
      /\ \A u \in op'.buf : u <= op'.cursor
      /\ op'.remain \/ Ahead(op'.cursor) = {}
  BY <1>6, <1>7 DEF Filled
<1>9. /\ Typed' /\ dir' = dir /\ pos' = pos /\ got' = got /\ ended' = ended /\ added' = added /\ removed' = removed
      /\ LastGot' = LastGot /\ Kept' = Kept /\ (added' = {} => OnceGot') /\ (removed' = {} => AllGot')
  BY <1>3, <1>8, AroundKeeps
<1>10. Ahead(0) = dir
  BY <1>4, EntryNumbers DEF Ahead
<1>11. Pending' = dir
  BY <1>8, <1>9, <1>10 DEF Pending, Ahead
<1>12. Request'
  BY <1>3, <1>5, <1>8, <1>9 DEF Request
<1>13. Fitting'
  BY <1>5, <1>8 DEF Fitting
<1>14. Listing'
  <2>1. k > 0 => data = <<>>
    BY <1>1, <1>2, OffsetType
  <2>2. QED
    BY <1>4, <1>8, <1>9, <2>1 DEF Listing
<1>15. Passed'
  <2>1. \A e \in dir : e <= op'.cursor => e \in op'.buf
    <3>1. op'.cursor \in Nat /\ dir \subseteq Nat
      BY <1>4, <1>8, EntryNumbers DEF Op
    <3>2. QED
      BY <1>8, <1>10, <3>1 DEF Ahead
  <2>2. Upto(dir, op'.cursor) \subseteq {} \cup op'.buf
    BY <2>1 DEF Upto
  <2>3. Cardinality({}) = op'.i - op'.left
    BY <1>4, <1>8, FS_EmptySet
  <2>4. QED
    BY <1>9, <2>2, <2>3 DEF Passed
<1>16. LastGot \in Int /\ (pos = 0 => LastGot < Dot)
  BY <1>4, Fields DEF LastGot, Dot
<1>17. added' = {} => OncePage' /\ OnceListing'
  <2>1. \A j \in 1..Len(data) : LastGot < data[j].name
    BY <1>5, <1>16 DEF Dot
  <2>2. ASSUME NEW j \in 1..Len(data)
        PROVE  Cardinality(Upto(dir, data[j].name)) = 0 /\ Offset(data[j].offset) = 0
    BY <1>4, <1>5, NoneUpto
  <2>3. OncePage'
    BY <1>5, <1>8, <1>9, <2>1, <2>2 DEF OncePage
  <2>4. \A j \in 1..Len(data), u \in dir : data[j].name < u
    BY <1>4, <1>5, EntryNumbers
  <2>5. added = {} => Cardinality(Upto(dir, LastGot)) <= k
    BY <1>2 DEF OnceGot
  <2>6. added = {} => OnceListing'
    BY <1>8, <1>9, <1>11, <2>4, <2>5 DEF OnceListing
  <2>7. QED
    BY <1>9, <2>3, <2>6
<1>18. removed' = {} => AllPage' /\ AllListing'
  <2>1. ASSUME NEW j \in 1..Len(data)
        PROVE  Cardinality(Upto(dir, data[j].name)) = 0 /\ Offset(data[j].offset) = 0
    BY <1>4, <1>5, NoneUpto
  <2>2. \A j \in 1..Len(data) : Upto(Kept, data[j].name) = {}
    <3>1. Kept \in SUBSET Entries
      BY <1>4 DEF Kept
    <3>2. QED
      BY <1>5, <3>1, NoneUpto
  <2>3. AllPage'
    <3>1. \A j \in 1..Len(op'.data) : Offset(op'.data[j].offset) <= Cardinality(Upto(dir', op'.data[j].name))
      BY <1>8, <1>9, <2>1
    <3>2. \A j \in 1..Len(op'.data) : Upto(Kept', op'.data[j].name) = {}
      BY <1>8, <1>9, <2>2
    <3>3. op'.at # "done"
      BY <1>8
    <3>4. QED
      BY <3>1, <3>2, <3>3 DEF AllPage
  <2>4. removed = {} => k <= Cardinality(Upto(dir, LastGot))
    BY <1>2 DEF AllGot
  <2>5. Kept \subseteq dir
    BY DEF Kept
  <2>6. op'.remain \/ (Kept \cap Ahead(op.cursor) = {})'
    BY <1>8, <1>9 DEF Ahead, Kept
  <2>7. removed = {} => AllListing'
    BY <1>8, <1>9, <1>11, <2>4, <2>5, <2>6 DEF AllListing
  <2>8. QED
    BY <1>9, <2>3, <2>7
<1>19. QED
  BY <1>8, <1>9, <1>12, <1>13, <1>14, <1>15, <1>17, <1>18

\* The loop comes to the end of the directory.
LEMMA list_endKeeps ==
  ASSUME ReadDirInv, list_end
  PROVE  ReadDirInv'
<1> USE DEF ReadDirInv
<1>1. op.at = "list" /\ op.buf = {} /\ ~op.remain /\ op' = [op EXCEPT !.at = "done"] /\ Around /\ short' = short
  BY DEF list_end, Around, Typed
<1>2. op \in Op
  BY DEF Typed
<1>3. /\ op' \in Op /\ op'.at = "done" /\ op'.off = op.off /\ op'.count = op.count /\ op'.data = op.data
      /\ op'.lost = op.lost /\ op'.ok = op.ok
  BY <1>1, <1>2 DEF Op
<1>4. /\ Typed' /\ dir' = dir /\ pos' = pos /\ got' = got /\ ended' = ended /\ added' = added /\ removed' = removed
      /\ LastGot' = LastGot /\ Kept' = Kept /\ (added' = {} => OnceGot') /\ (removed' = {} => AllGot')
  BY <1>1, <1>3, AroundKeeps
<1>5. Request'
  BY <1>1, <1>3, <1>4 DEF Request
<1>6. Fitting'
  <2>1. op.data = <<>> => SizeOf(op.data) <= op.count
    <3>1. op.data \in Seq(Dirents) /\ op.count \in Nat
      BY Fields
    <3>2. op.data = <<>> => SizeOf(op.data) = 0
      BY <3>1, SizeAppend
    <3>3. QED
      BY <3>1, <3>2
  <2>2. QED
    BY <1>1, <1>3, <2>1 DEF Fitting
<1>7. added' = {} => OncePage'
  BY <1>1, <1>3, <1>4 DEF OncePage
<1>8. removed' = {} => AllPage'
  <2>1. \A j \in 1..Len(op.data) : Taken(j)' = Taken(j)
    BY <1>3 DEF Taken
  <2>2. removed = {} /\ op.data = <<>> => Kept \subseteq ToSet(got)
    <3>1. op.data = <<>> => Taken(Len(op.data)) = {}
      BY DEF Taken
    <3>2. Pending = Ahead(op.cursor)
      BY <1>1 DEF Pending
    <3>3. removed = {} => AllListing
      BY <1>1
    <3>4. QED
      BY <1>1, <3>1, <3>2, <3>3 DEF AllListing
  <2>3. removed = {} => AllPage
    BY <1>1
  <2>4. QED
    BY <1>1, <1>3, <1>4, <2>1, <2>2, <2>3 DEF AllPage
<1>9. QED
  BY <1>3, <1>4, <1>5, <1>6, <1>7, <1>8

-----------------------------------------------------------------------------
\* The next entry in the buffer is the least of all that are still to come.
LEMMA NextEntry ==
  ASSUME ReadDirInv, op.at = "list", op.buf # {}, NEW m, m = Min(op.buf)
  PROVE  /\ m \in op.buf /\ m \in Entries /\ m \in Nat /\ m > 0 /\ m <= op.cursor
         /\ \A u \in Pending : u \in Nat /\ m <= u
         /\ (op.buf \ {m}) \cup Ahead(op.cursor) = Pending \ {m}
<1>1. op.buf \in SUBSET Entries /\ op.cursor \in Nat /\ dir \in SUBSET Entries
  BY Fields DEF ReadDirInv, Typed
<1>2. op.buf \in SUBSET Nat /\ dir \in SUBSET Nat
  BY <1>1, EntryNumbers
<1>3. m \in op.buf /\ \A u \in op.buf : m <= u
  BY <1>2, Least
<1>4. \A u \in op.buf : u <= op.cursor
  BY DEF ReadDirInv, Listing
<1>5. m \in Entries /\ m \in Nat /\ m > 0 /\ m <= op.cursor
  BY <1>1, <1>3, <1>4, EntryNumbers
<1>6. \A u \in Ahead(op.cursor) : u \in Nat /\ m < u
  BY <1>1, <1>2, <1>5 DEF Ahead
<1>7. \A u \in Pending : u \in Nat /\ m <= u
  BY <1>2, <1>3, <1>5, <1>6 DEF Pending
<1>8. m \notin Ahead(op.cursor)
  BY <1>5, <1>6
<1>9. QED
  BY <1>3, <1>5, <1>7, <1>8 DEF Pending

\* What is to come up to some place, without the next entry.
LEMMA PendingLess ==
  ASSUME ReadDirInv, op.at = "list", op.buf # {}, NEW m, m = Min(op.buf), NEW n \in Int
  PROVE  /\ Cardinality(Upto(Pending, n)) \in Nat /\ Cardinality(Upto(Pending \ {m}, n)) \in Nat
         /\ m <= n => Cardinality(Upto(Pending \ {m}, n)) = Cardinality(Upto(Pending, n)) - 1
         /\ ~ (m <= n) => Cardinality(Upto(Pending, n)) = 0 /\ Cardinality(Upto(Pending \ {m}, n)) = 0
<1>1. m \in op.buf /\ m \in Entries /\ m \in Nat /\ \A u \in Pending : u \in Nat /\ m <= u
  BY NextEntry
<1>2. Pending \in SUBSET Entries /\ m \in Pending
  BY <1>1, Fields DEF ReadDirInv, Pending
<1>3. Upto(Pending, n) \in SUBSET Entries /\ Upto(Pending \ {m}, n) \in SUBSET Entries
  BY <1>2 DEF Upto
<1>4. ASSUME m <= n
      PROVE  Cardinality(Upto(Pending \ {m}, n)) = Cardinality(Upto(Pending, n)) - 1
  <2>1. m \in Upto(Pending, n) /\ Upto(Pending \ {m}, n) = Upto(Pending, n) \ {m}
    BY <1>2, <1>4 DEF Upto
  <2>2. QED
    BY <1>1, <1>3, <2>1, CountOne
<1>5. ASSUME ~ (m <= n)
      PROVE  Cardinality(Upto(Pending, n)) = 0 /\ Cardinality(Upto(Pending \ {m}, n)) = 0
  <2>1. Upto(Pending, n) = {} /\ Upto(Pending \ {m}, n) = {}
    BY <1>1, <1>5 DEF Upto
  <2>2. QED
    BY <2>1, FS_EmptySet
<1>6. QED
  BY <1>3, <1>4, <1>5, EntryNumbers

\* The loop passes one entry: it has counted as many as there are up to it, if
\* none was made or none was removed no fewer or no more.
LEMMA PassesOne ==
  ASSUME ReadDirInv, op.at = "list", op.buf # {}, NEW m, m = Min(op.buf)
  PROVE  \E Q \in SUBSET Entries :
           /\ Cardinality(Q) = op.i - op.left + 1
           /\ \A q \in Q : q <= op.cursor /\ \A u \in op.buf \ {m} : q < u
           /\ added = {} => Upto(dir, op.cursor) \subseteq Q \cup (op.buf \ {m})
           /\ removed = {} => Q \subseteq dir
           /\ added = {} => Cardinality(Upto(dir, m)) <= op.i - op.left + 1
           /\ removed = {} => op.i - op.left + 1 <= Cardinality(Upto(dir, m)) /\ m \in dir
<1>1. PICK Q \in SUBSET Entries :
        /\ Cardinality(Q) = op.i - op.left
        /\ \A q \in Q : q <= op.cursor /\ \A u \in op.buf : q < u
        /\ added = {} => Upto(dir, op.cursor) \subseteq Q \cup op.buf
        /\ removed = {} => Q \subseteq dir
  BY DEF ReadDirInv, Passed
<1>2. /\ m \in op.buf /\ m \in Entries /\ m \in Nat /\ m <= op.cursor
      /\ \A u \in op.buf : u \in Nat /\ m <= u
  BY NextEntry DEF Pending
<1>3. dir \in SUBSET Entries /\ op.cursor \in Nat /\ op.i \in Nat /\ op.left \in Nat /\ Entries \subseteq Nat
  BY Fields, EntryNumbers DEF ReadDirInv, Typed
<1>4. removed = {} => m \in dir
  BY <1>2 DEF ReadDirInv, Listing, Request
<1>5. m \notin Q
  BY <1>1, <1>2
<1> DEFINE R == Q \cup {m}
<1>6. R \in SUBSET Entries /\ Cardinality(R) = op.i - op.left + 1
  BY <1>1, <1>2, <1>5, CountOne
<1>7. \A q \in R : q <= op.cursor /\ \A u \in op.buf \ {m} : q < u
  <2>1. \A u \in op.buf \ {m} : m < u
    <3>1. ASSUME NEW u \in op.buf \ {m}
          PROVE  m < u
      <4>1. u \in Nat /\ m <= u /\ u # m
        BY <1>2
      <4>2. QED
        BY <1>2, <4>1
    <3>2. QED
      BY <3>1
  <2>2. QED
    BY <1>1, <1>2, <2>1
<1>8. added = {} => Upto(dir, op.cursor) \subseteq R \cup (op.buf \ {m})
  BY <1>1
<1>9. removed = {} => R \subseteq dir
  BY <1>1, <1>4
<1>10. Upto(dir, m) \in SUBSET Entries /\ Cardinality(Upto(dir, m)) \in Nat
  BY <1>2, Fields, <1>3 DEF ReadDirInv
<1>11. added = {} => Cardinality(Upto(dir, m)) <= op.i - op.left + 1
  <2>1. ASSUME added = {}, NEW e \in dir, e <= m
        PROVE  e \in R
    <3>1. e \in Nat /\ e <= op.cursor
      BY <1>2, <1>3, <2>1
    <3>2. e \in Q \cup op.buf
      BY <1>1, <2>1, <3>1 DEF Upto
    <3>3. e \in op.buf => e = m
      BY <1>2, <2>1, <3>1
    <3>4. QED
      BY <3>2, <3>3
  <2>2. added = {} => Upto(dir, m) \in SUBSET R
    BY <2>1 DEF Upto
  <2> HIDE DEF R
  <2>3. QED
    BY <1>6, <2>2, CountWithin
<1>12. removed = {} => op.i - op.left + 1 <= Cardinality(Upto(dir, m))
  <2>1. removed = {} => R \in SUBSET Upto(dir, m)
    <3>1. ASSUME NEW q \in R
          PROVE  q <= m
      <4>1. CASE q = m
        BY <1>2, <4>1
      <4>2. CASE q \in Q
        <5>1. q \in Nat /\ q < m
          BY <1>1, <1>2, <1>3, <4>2
        <5>2. QED
          BY <1>2, <5>1
      <4>3. QED
        BY <4>1, <4>2
    <3>2. QED
      BY <1>9, <3>1 DEF Upto
  <2> HIDE DEF R
  <2>2. QED
    BY <1>6, <1>10, <2>1, CountWithin
<1> HIDE DEF R
<1>13. QED
  BY <1>4, <1>6, <1>7, <1>8, <1>9, <1>11, <1>12

\* An entry is skipped.
LEMMA skip_nextKeeps ==
  ASSUME ReadDirInv, skip_next
  PROVE  ReadDirInv'
<1> USE DEF ReadDirInv
<1>1. PICK m : m = Min(op.buf)
  OBVIOUS
<1>2. /\ op.at = "list" /\ op.buf # {} /\ op.left > 0 /\ Around
      /\ op' = [op EXCEPT !.buf = op.buf \ {m}, !.left = op.left - 1]
  BY <1>1 DEF skip_next, Around, Typed
<1>3. op \in Op /\ op.left \in Nat /\ op.i \in Nat /\ op.left <= op.i /\ op.data = <<>>
  BY <1>2, Fields DEF Typed, Listing
<1>4. op.left - 1 \in Nat
  BY <1>2, <1>3
<1>5. /\ op' \in Op /\ op'.at = "list" /\ op'.off = op.off /\ op'.count = op.count /\ op'.left = op.left - 1
      /\ op'.i = op.i /\ op'.data = op.data /\ op'.buf = op.buf \ {m} /\ op'.cursor = op.cursor
      /\ op'.remain = op.remain /\ op'.lost = op.lost /\ op'.ok = op.ok
  BY <1>2, <1>3, <1>4 DEF Op
<1>6. /\ Typed' /\ dir' = dir /\ pos' = pos /\ got' = got /\ ended' = ended /\ added' = added /\ removed' = removed
      /\ LastGot' = LastGot /\ Kept' = Kept /\ (added' = {} => OnceGot') /\ (removed' = {} => AllGot')
  BY <1>2, <1>5, AroundKeeps
<1>7. Pending' = Pending \ {m}
  <2>1. (op.buf \ {m}) \cup Ahead(op.cursor) = Pending \ {m}
    BY <1>1, <1>2, NextEntry
  <2>2. QED
    BY <1>5, <1>6, <2>1 DEF Pending, Ahead
<1>8. Request' /\ Fitting'
  BY <1>2, <1>5, <1>6 DEF Request, Fitting
<1>9. Listing'
  BY <1>2, <1>3, <1>5, <1>6 DEF Listing
<1>10. Passed'
  <2>1. PICK Q \in SUBSET Entries :
          /\ Cardinality(Q) = op.i - op.left + 1
          /\ \A q \in Q : q <= op.cursor /\ \A u \in op.buf \ {m} : q < u
          /\ added = {} => Upto(dir, op.cursor) \subseteq Q \cup (op.buf \ {m})
          /\ removed = {} => Q \subseteq dir
    BY <1>1, <1>2, PassesOne
  <2>2. op'.i - op'.left = op.i - op.left + 1
    BY <1>3, <1>5
  <2>3. QED
    BY <1>5, <1>6, <2>1, <2>2 DEF Passed
<1>11. LastGot \in Int
  BY Fields
<1>12. /\ Cardinality(Upto(Pending, LastGot)) \in Nat /\ Cardinality(Upto(Pending \ {m}, LastGot)) \in Nat
       /\ m <= LastGot => Cardinality(Upto(Pending \ {m}, LastGot)) = Cardinality(Upto(Pending, LastGot)) - 1
       /\ ~ (m <= LastGot) => /\ Cardinality(Upto(Pending, LastGot)) = 0
                              /\ Cardinality(Upto(Pending \ {m}, LastGot)) = 0
  BY <1>1, <1>2, <1>11, PendingLess
<1>13. added' = {} => OncePage' /\ OnceListing'
  <2>1. added = {} => Cardinality(Upto(Pending \ {m}, LastGot)) <= op.left - 1
    BY <1>2, <1>3, <1>12 DEF OnceListing
  <2>2. QED
    BY <1>2, <1>5, <1>6, <1>7, <2>1 DEF OncePage, OnceListing
<1>14. removed' = {} => AllPage' /\ AllListing'
  <2>1. removed = {} => AllPage /\ AllListing
    BY <1>2
  <2>2. removed = {} => m <= LastGot /\ op.left - 1 <= Cardinality(Upto(Pending \ {m}, LastGot))
    BY <1>2, <1>3, <1>12, <2>1 DEF AllListing
  <2>3. removed = {} /\ m \in Kept => m \in ToSet(got)
    BY <2>2 DEF AllGot, Upto
  <2>4. \A j \in 1..Len(op.data) : Taken(j)' = Taken(j)
    BY <1>5 DEF Taken
  <2>5. Taken(Len(op.data))' = Taken(Len(op.data))
    BY <1>5 DEF Taken
  <2>6. removed = {} => AllPage'
    BY <1>2, <1>5, <1>6, <2>1, <2>4 DEF AllPage
  <2>7. Ahead(op.cursor)' = Ahead(op.cursor)
    BY <1>5, <1>6 DEF Ahead
  <2>8. removed = {} => AllListing'
    BY <1>5, <1>6, <1>7, <2>1, <2>2, <2>3, <2>5, <2>7 DEF AllListing
  <2>9. QED
    BY <1>6, <2>6, <2>8
<1>15. QED
  BY <1>5, <1>6, <1>8, <1>9, <1>10, <1>13, <1>14

\* The page is full, or the entry is gone.
LEMMA ListDone ==
  ASSUME ReadDirInv, list_next, op'.at = "done"
  PROVE  ReadDirInv'
<1> USE DEF ReadDirInv
<1>1. PICK m : m = Min(op.buf)
  OBVIOUS
<1>2. op \in Op /\ op.at = "list" /\ op.buf # {} /\ op.ok /\ op.data \in Seq(Dirents) /\ op.count \in Nat
  BY Fields DEF list_next, Typed, Request
<1>3. /\ op' \in Op /\ op'.off = op.off /\ op'.count = op.count /\ op'.data = op.data /\ op'.lost = op.lost
      /\ (op'.ok <=> m \in dir)
  <2>1. CASE m \notin dir
    <3>1. op' = [op EXCEPT !.at = "done", !.ok = FALSE]
      BY <1>1, <2>1 DEF list_next, Listed
    <3>2. QED
      BY <1>2, <2>1, <3>1 DEF Op
  <2>2. CASE m \in dir /\ ~Fits(op.data, m, op.count)
    <3>1. op' = [op EXCEPT !.at = "done"]
      BY <1>1, <2>2 DEF list_next, Listed
    <3>2. QED
      BY <1>2, <2>2, <3>1 DEF Op
  <2>3. CASE m \in dir /\ Fits(op.data, m, op.count)
    <3>1. op' = [op EXCEPT !.data = Append(@, Dirent(m, DirentOffset(op.i))), !.i = @ + 1, !.buf = @ \ {m}]
      BY <1>1, <2>3 DEF list_next, Listed
    <3>2. op'.at = op.at
      BY <1>2, <3>1 DEF Op
    <3>3. QED
      BY <1>2, <3>2
  <2>4. QED
    BY <2>1, <2>2, <2>3
<1>4. Around /\ (op'.ok /\ op'.data = <<>> => short')
  BY DEF list_next, Around, Typed
<1>5. /\ Typed' /\ dir' = dir /\ pos' = pos /\ got' = got /\ ended' = ended /\ added' = added /\ removed' = removed
      /\ LastGot' = LastGot /\ Kept' = Kept /\ (added' = {} => OnceGot') /\ (removed' = {} => AllGot')
  BY <1>3, <1>4, AroundKeeps
<1>6. Request'
  <2>1. m \in op.buf /\ op.buf \subseteq dir \cup op.lost
    BY <1>1, <1>2, NextEntry DEF Listing
  <2>2. op'.ok \/ op'.lost # {}
    BY <1>3, <2>1
  <2>3. QED
    BY <1>2, <1>3, <1>5, <2>2 DEF Request
<1>7. Fitting'
  <2>1. op.data = <<>> => SizeOf(op.data) <= op.count
    <3>1. op.data = <<>> => SizeOf(op.data) = 0
      BY <1>2, SizeAppend
    <3>2. QED
      BY <1>2, <3>1
  <2>2. QED
    BY <1>2, <1>3, <2>1 DEF Fitting
<1>8. added' = {} => OncePage'
  BY <1>2, <1>3, <1>5 DEF OncePage
<1>9. removed' = {} => AllPage'
  <2>1. \A j \in 1..Len(op.data) : Taken(j)' = Taken(j)
    BY <1>3 DEF Taken
  <2>2. removed = {} => AllPage
    BY <1>2
  <2>3. QED
    BY <1>3, <1>4, <1>5, <2>1, <2>2 DEF AllPage
<1>10. QED
  BY <1>5, <1>6, <1>7, <1>8, <1>9

\* One element more at the end of a page.
LEMMA OneMore ==
  ASSUME NEW data \in Seq(Dirents), NEW d \in Dirents
  PROVE  /\ Append(data, d) \in Seq(Dirents) /\ Len(Append(data, d)) = Len(data) + 1
         /\ \A j \in 1..Len(Append(data, d)) : \/ j \in 1..Len(data) /\ Append(data, d)[j] = data[j]
                                               \/ j = Len(data) + 1 /\ Append(data, d)[j] = d
         /\ \A j \in 1..Len(data) : Append(data, d)[j] = data[j]
         /\ Append(data, d)[Len(data) + 1] = d
OBVIOUS

\* An entry is put on the page.
LEMMA ListMore ==
  ASSUME ReadDirInv, list_next, op'.at # "done"
  PROVE  ReadDirInv'
<1> USE DEF ReadDirInv
<1>1. PICK m : m = Min(op.buf)
  OBVIOUS
<1>2. /\ op \in Op /\ op.at = "list" /\ op.buf # {} /\ op.ok /\ op.left = 0
      /\ op.data \in Seq(Dirents) /\ op.count \in Nat /\ op.i \in Nat
  BY Fields DEF list_next, Typed, Request
<1>3. /\ m \in op.buf /\ m \in Entries /\ m \in Nat /\ m > 0 /\ m <= op.cursor
      /\ \A u \in Pending : u \in Nat /\ m <= u
      /\ (op.buf \ {m}) \cup Ahead(op.cursor) = Pending \ {m}
  BY <1>1, <1>2, NextEntry
<1>4. PICK d : d = Dirent(m, DirentOffset(op.i))
  OBVIOUS
<1>5. d \in Dirents /\ d.name = m /\ d.offset \in Nat /\ d.offset # 0 /\ Offset(d.offset) = op.i + 1
  <2>1. DirentOffset(op.i) \in Nat /\ DirentOffset(op.i) # 0 /\ Offset(DirentOffset(op.i)) = op.i + 1
    BY <1>2, OffsetType
  <2>2. d.name = m /\ d.offset = DirentOffset(op.i) /\ d \in Dirents
    BY <1>3, <1>4, <2>1 DEF Dirent, Dirents
  <2>3. QED
    BY <2>1, <2>2
<1>6. PICK page : page = Append(op.data, d)
  OBVIOUS
<1>7. PICK n \in Nat : n = Len(op.data)
  BY <1>2
<1>8. /\ page \in Seq(Dirents) /\ Len(page) = n + 1
      /\ \A j \in 1..(n + 1) : (j \in 1..n /\ page[j] = op.data[j]) \/ (j = n + 1 /\ page[j] = d)
      /\ \A j \in 1..n : page[j] = op.data[j]
      /\ page[n + 1] = d
  BY <1>2, <1>5, <1>6, <1>7, OneMore
<1>9. Fits(op.data, m, op.count) /\ op' = [op EXCEPT !.data = page, !.i = op.i + 1, !.buf = op.buf \ {m}]
  <2>1. m \in dir /\ Fits(op.data, m, op.count)
    <3>1. CASE m \notin dir
      <4>1. op' = [op EXCEPT !.at = "done", !.ok = FALSE]
        BY <1>1, <3>1 DEF list_next, Listed
      <4>2. QED
        BY <1>2, <4>1 DEF Op
    <3>2. CASE m \in dir /\ ~Fits(op.data, m, op.count)
      <4>1. op' = [op EXCEPT !.at = "done"]
        BY <1>1, <3>2 DEF list_next, Listed
      <4>2. QED
        BY <1>2, <4>1 DEF Op
    <3>3. QED
      BY <3>1, <3>2
  <2>2. op' = [op EXCEPT !.data = Append(@, Dirent(m, DirentOffset(op.i))), !.i = @ + 1, !.buf = @ \ {m}]
    BY <1>1, <2>1 DEF list_next, Listed
  <2>3. QED
    BY <1>4, <1>6, <2>1, <2>2
<1>10. /\ op' \in Op /\ op'.at = "list" /\ op'.off = op.off /\ op'.count = op.count /\ op'.left = 0
       /\ op'.i = op.i + 1 /\ op'.data = page /\ op'.buf = op.buf \ {m} /\ op'.cursor = op.cursor
       /\ op'.remain = op.remain /\ op'.lost = op.lost /\ op'.ok = op.ok
  <2>1. PICK i, buf : i = op.i + 1 /\ buf = op.buf \ {m}
    OBVIOUS
  <2>2. i \in Nat /\ buf \in SUBSET Entries
    BY <1>2, <2>1 DEF Op
  <2>3. op' = [op EXCEPT !.data = page, !.i = i, !.buf = buf]
    BY <1>9, <2>1
  <2>4. /\ op' \in Op /\ op'.at = op.at /\ op'.off = op.off /\ op'.count = op.count /\ op'.left = op.left
        /\ op'.i = i /\ op'.data = page /\ op'.buf = buf /\ op'.cursor = op.cursor
        /\ op'.remain = op.remain /\ op'.lost = op.lost /\ op'.ok = op.ok
    BY <1>2, <1>8, <2>2, <2>3 DEF Op
  <2>5. QED
    BY <1>2, <2>1, <2>4
<1>11. Around
  BY DEF list_next, Around, Typed
<1>12. /\ Typed' /\ dir' = dir /\ pos' = pos /\ got' = got /\ ended' = ended /\ added' = added /\ removed' = removed
       /\ LastGot' = LastGot /\ Kept' = Kept /\ (added' = {} => OnceGot') /\ (removed' = {} => AllGot')
  BY <1>10, <1>11, AroundKeeps
<1>13. Pending' = Pending \ {m} /\ m \in Pending /\ \A u \in Pending \ {m} : m < u
  <2>1. Pending' = Pending \ {m}
    BY <1>3, <1>10, <1>12 DEF Pending, Ahead
  <2>2. \A u \in Pending \ {m} : m < u
    <3>1. ASSUME NEW u \in Pending \ {m}
          PROVE  m < u
      <4>1. u \in Nat /\ m <= u /\ u # m
        BY <1>3
      <4>2. QED
        BY <1>3, <4>1
    <3>2. QED
      BY <3>1
  <2>3. QED
    BY <1>3, <2>1, <2>2 DEF Pending
<1>14. Request'
  <2>1. \A j \in 1..Len(page) : page[j].offset = 0 => j = 1 /\ pos = 0
    BY <1>2, <1>5, <1>7, <1>8 DEF Request
  <2>2. QED
    BY <1>2, <1>10, <1>12, <2>1 DEF Request
<1>15. Fitting'
  <2>1. SizeOf(page) = SizeOf(op.data) + Size(d.name)
    BY <1>2, <1>5, <1>6, SizeAppend
  <2>2. SizeOf(page) <= op.count
    BY <1>5, <1>9, <2>1 DEF Fits
  <2>3. QED
    BY <1>10, <2>2 DEF Fitting
<1>16. Listing'
  BY <1>2, <1>10, <1>12 DEF Listing
<1>17. PICK Q \in SUBSET Entries :
         /\ Cardinality(Q) = op.i - op.left + 1
         /\ \A q \in Q : q <= op.cursor /\ \A u \in op.buf \ {m} : q < u
         /\ added = {} => Upto(dir, op.cursor) \subseteq Q \cup (op.buf \ {m})
         /\ removed = {} => Q \subseteq dir
         /\ added = {} => Cardinality(Upto(dir, m)) <= op.i - op.left + 1
         /\ removed = {} => op.i - op.left + 1 <= Cardinality(Upto(dir, m)) /\ m \in dir
  BY <1>1, <1>2, PassesOne
<1>18. Passed'
  <2>1. op'.i - op'.left = op.i - op.left + 1
    BY <1>2, <1>10
  <2>2. QED
    BY <1>10, <1>12, <1>17, <2>1 DEF Passed
<1>19. LastGot \in Int
  BY Fields
<1>20. /\ Cardinality(Upto(Pending, LastGot)) \in Nat /\ Cardinality(Upto(Pending \ {m}, LastGot)) \in Nat
       /\ m <= LastGot => Cardinality(Upto(Pending \ {m}, LastGot)) = Cardinality(Upto(Pending, LastGot)) - 1
       /\ ~ (m <= LastGot) => /\ Cardinality(Upto(Pending, LastGot)) = 0
                              /\ Cardinality(Upto(Pending \ {m}, LastGot)) = 0
  BY <1>1, <1>2, <1>19, PendingLess
<1>21. added' = {} => OncePage' /\ OnceListing'
  <2> SUFFICES ASSUME added = {}
               PROVE  OncePage' /\ OnceListing'
    BY <1>12
  <2>1. OncePage /\ OnceListing
    BY <1>2
  <2>2. LastGot < m /\ Cardinality(Upto(Pending \ {m}, LastGot)) = 0
    <3>1. Cardinality(Upto(Pending, LastGot)) <= 0
      BY <1>2, <2>1 DEF OnceListing
    <3>2. ~ (m <= LastGot)
      BY <1>20, <3>1
    <3>3. QED
      BY <1>3, <1>19, <1>20, <3>2
  <2>3. ASSUME NEW j \in 1..(n + 1), NEW k \in 1..(n + 1), j < k
        PROVE  page[j].name < page[k].name
    <3>1. j \in 1..n /\ page[j] = op.data[j]
      BY <1>8, <2>3
    <3>2. CASE k \in 1..n /\ page[k] = op.data[k]
      BY <1>7, <2>1, <2>3, <3>1, <3>2 DEF OncePage
    <3>3. CASE k = n + 1 /\ page[k] = d
      BY <1>5, <1>7, <1>13, <2>1, <3>1, <3>3 DEF OnceListing
    <3>4. QED
      BY <1>8, <3>2, <3>3
  <2>4. \A j \in 1..(n + 1) : LastGot < page[j].name
    BY <1>5, <1>7, <1>8, <2>1, <2>2 DEF OncePage
  <2>5. \A j \in 1..(n + 1) : Cardinality(Upto(dir, page[j].name)) <= Offset(page[j].offset)
    <3>1. Cardinality(Upto(dir, d.name)) <= Offset(d.offset)
      BY <1>2, <1>5, <1>17
    <3>2. QED
      BY <1>7, <1>8, <2>1, <3>1 DEF OncePage
  <2>6. OncePage'
    BY <1>8, <1>10, <1>12, <2>3, <2>4, <2>5 DEF OncePage
  <2>7. \A j \in 1..(n + 1), u \in Pending \ {m} : page[j].name < u
    BY <1>5, <1>7, <1>8, <1>13, <2>1 DEF OnceListing
  <2>8. OnceListing'
    BY <1>8, <1>10, <1>12, <1>13, <2>2, <2>7 DEF OnceListing
  <2>9. QED
    BY <2>6, <2>8
<1>22. removed' = {} => AllPage' /\ AllListing'
  <2> SUFFICES ASSUME removed = {}
               PROVE  AllPage' /\ AllListing'
    BY <1>12
  <2>1. AllPage /\ AllListing
    BY <1>2
  <2>2. \A j \in 1..n : Taken(j)' = Taken(j)
    <3>1. ASSUME NEW j \in 1..n
          PROVE  \A k \in 1..j : op'.data[k] = op.data[k]
      BY <1>8, <1>10, <3>1
    <3>2. QED
      BY <3>1 DEF Taken
  <2>3. Taken(n + 1)' = Taken(n) \cup {m}
    <3>1. Taken(n + 1)' = {page[j].name : j \in 1..(n + 1)}
      BY <1>10 DEF Taken
    <3>2. \A j \in 1..n : j \in 1..(n + 1) /\ page[j].name = op.data[j].name
      BY <1>8
    <3>3. n + 1 \in 1..(n + 1) /\ page[n + 1].name = m
      BY <1>5, <1>8
    <3>4. \A j \in 1..(n + 1) : (j \in 1..n /\ page[j].name = op.data[j].name) \/ page[j].name = m
      BY <1>5, <1>8
    <3>5. QED
      BY <3>1, <3>2, <3>3, <3>4 DEF Taken
  <2>4. \A j \in 1..(n + 1) : Offset(page[j].offset) <= Cardinality(Upto(dir, page[j].name))
    <3>1. Offset(d.offset) <= Cardinality(Upto(dir, d.name))
      BY <1>2, <1>5, <1>17
    <3>2. QED
      BY <1>7, <1>8, <2>1, <3>1 DEF AllPage
  <2>5. Kept \subseteq ToSet(got) \cup Taken(n) \cup Pending
    BY <1>7, <2>1 DEF AllListing
  <2>6. Upto(Kept, m) \subseteq ToSet(got) \cup Taken(n + 1)'
    <3>1. \A e \in Pending : e <= m => e = m
      BY <1>3
    <3>2. QED
      BY <2>3, <2>5, <3>1 DEF Upto
  <2>7. ASSUME NEW j \in 1..(n + 1)
        PROVE  Upto(Kept, page[j].name) \subseteq ToSet(got) \cup Taken(j)'
    <3>1. CASE j \in 1..n /\ page[j] = op.data[j]
      BY <1>7, <2>1, <2>2, <3>1 DEF AllPage
    <3>2. CASE j = n + 1 /\ page[j] = d
      BY <1>5, <2>6, <3>2
    <3>3. QED
      BY <1>8, <3>1, <3>2
  <2>8. AllPage'
    BY <1>8, <1>10, <1>12, <2>4, <2>7 DEF AllPage
  <2>9. Kept \subseteq ToSet(got) \cup Taken(n + 1)' \cup Pending'
    BY <1>13, <2>3, <2>5
  <2>10. Ahead(op.cursor)' = Ahead(op.cursor)
    BY <1>10, <1>12 DEF Ahead
  <2>11. op'.left <= Cardinality(Upto(Pending \ {m}, LastGot))
    BY <1>10, <1>20
  <2>12. Taken(Len(op.data))' = Taken(n + 1)'
    BY <1>8, <1>10
  <2>13. AllListing'
    BY <1>10, <1>12, <1>13, <2>1, <2>9, <2>10, <2>11, <2>12 DEF AllListing
  <2>14. QED
    BY <2>8, <2>13
<1>23. QED
  BY <1>10, <1>12, <1>14, <1>15, <1>16, <1>18, <1>21, <1>22

\* What the client has of a page follows what it had.
LEMMA GotMore ==
  ASSUME Typed, NEW n \in 1..Len(op.data), got' = got \o [k \in 1..n |-> op.data[k].name]
  PROVE  /\ got' \in Seq(Entries \cup {Dot, DotDot}) /\ Len(got') = Len(got) + n /\ got' # <<>>
         /\ \A j \in 1..Len(got) : got'[j] = got[j]
         /\ \A j \in 1..n : Len(got) + j \in 1..Len(got') /\ got'[Len(got) + j] = op.data[j].name
         /\ \A j \in 1..Len(got') : j \in 1..Len(got) \/ (j - Len(got) \in 1..n /\ got'[j] = op.data[j - Len(got)].name)
         /\ ToSet(got') = ToSet(got) \cup Taken(n)
<1>1. /\ got \in Seq(Entries \cup {Dot, DotDot}) /\ Len(got) \in Nat /\ Len(op.data) \in Nat /\ n \in Nat
      /\ \A j \in 1..n : op.data[j].name \in Entries \cup {Dot, DotDot}
  BY Fields DEF Typed
<1> DEFINE names == [k \in 1..n |-> op.data[k].name]
<1>2. names \in Seq(Entries \cup {Dot, DotDot}) /\ Len(names) = n /\ \A j \in 1..n : names[j] = op.data[j].name
  BY <1>1
<1> HIDE DEF names
<1>3. got' = got \o names
  BY DEF names
<1>4. /\ got' \in Seq(Entries \cup {Dot, DotDot}) /\ Len(got') = Len(got) + n
      /\ \A j \in 1..Len(got) : got'[j] = got[j]
  BY <1>1, <1>2, <1>3
<1>5. \A j \in 1..n : Len(got) + j \in 1..Len(got') /\ got'[Len(got) + j] = op.data[j].name
  BY <1>1, <1>2, <1>3, <1>4
<1>6. ASSUME NEW j \in 1..Len(got'), j \notin 1..Len(got)
      PROVE  j - Len(got) \in 1..n /\ got'[j] = op.data[j - Len(got)].name
  <2>1. PICK i : i = j - Len(got)
    OBVIOUS
  <2>2. i \in 1..n /\ Len(got) + i = j
    BY <1>1, <1>4, <1>6, <2>1
  <2>3. QED
    BY <1>5, <2>1, <2>2
<1>7. got' # <<>>
  <2>1. Len(got') # 0
    BY <1>1, <1>4
  <2>2. QED
    BY <2>1
<1>8. ToSet(got') = ToSet(got) \cup Taken(n)
  <2>1. ToSet(got) = {got[j] : j \in 1..Len(got)} /\ ToSet(got') = {got'[j] : j \in 1..Len(got')}
    <3>1. DOMAIN got = 1..Len(got) /\ DOMAIN got' = 1..Len(got')
      BY <1>1, <1>4
    <3>2. QED
      BY <3>1 DEF ToSet
  <2>2. ASSUME NEW x \in ToSet(got')
        PROVE  x \in ToSet(got) \cup Taken(n)
    <3>1. PICK j \in 1..Len(got') : x = got'[j]
      BY <2>1
    <3>2. CASE j \in 1..Len(got)
      BY <1>4, <2>1, <3>1, <3>2
    <3>3. CASE j \notin 1..Len(got)
      BY <1>6, <3>1, <3>3 DEF Taken
    <3>4. QED
      BY <3>2, <3>3
  <2>3. \A x \in ToSet(got) : x \in ToSet(got')
    <3>1. \A j \in 1..Len(got) : j \in 1..Len(got')
      BY <1>1, <1>4
    <3>2. QED
      BY <1>4, <2>1, <3>1
  <2>4. \A x \in Taken(n) : x \in ToSet(got')
    BY <1>5, <2>1 DEF Taken
  <2>5. QED
    BY <2>2, <2>3, <2>4
<1>9. QED
  BY <1>4, <1>5, <1>6, <1>7, <1>8

\* The client takes the page, or some of it, or nothing.
LEMMA ReplyKeeps ==
  ASSUME ReadDirInv, Reply
  PROVE  ReadDirInv'
<1> USE DEF ReadDirInv
<1>1. /\ op.at = "done" /\ op' = Idle
      /\ dir' = dir /\ added' = added /\ removed' = removed /\ short' = short
  BY DEF Reply, History
<1>2. Idle \in Op /\ Idle.at = "idle"
  BY DEF Idle, Op
<1>3. /\ dir \in SUBSET Entries /\ added \in SUBSET Entries /\ removed \in SUBSET Entries /\ short \in BOOLEAN
      /\ pos \in Nat /\ got \in Seq(Entries \cup {Dot, DotDot}) /\ op \in Op
      /\ ~ended /\ op.off = pos /\ Kept' = Kept
  BY <1>1 DEF Typed, Request, Kept
<1>4. ASSUME op.ok, op.data # <<>>, NEW n \in 1..Len(op.data), op.data[n].offset # 0,
             got' = got \o [k \in 1..n |-> op.data[k].name],
             pos' = op.data[n].offset, ended' = ended
      PROVE  ReadDirInv'
  <2>1. /\ got' = got \o [k \in 1..n |-> op.data[k].name]
        /\ pos' = op.data[n].offset
        /\ ended' = ended
    BY <1>4
  <2>2. n \in 1..Len(op.data) /\ n \in Nat /\ Len(op.data) \in Nat /\ Len(got) \in Nat
    BY Fields
  <2>3. /\ got' \in Seq(Entries \cup {Dot, DotDot}) /\ Len(got') = Len(got) + n /\ got' # <<>>
        /\ \A j \in 1..Len(got) : got'[j] = got[j]
        /\ \A j \in 1..n : Len(got) + j \in 1..Len(got') /\ got'[Len(got) + j] = op.data[j].name
        /\ \A j \in 1..Len(got') : j \in 1..Len(got) \/ (j - Len(got) \in 1..n /\ got'[j] = op.data[j - Len(got)].name)
        /\ ToSet(got') = ToSet(got) \cup Taken(n)
    BY <2>1, <2>2, GotMore
  <2>4. pos' \in Nat /\ pos' # 0
    BY <1>4, <2>2, Fields
  <2>5. Typed'
    BY <1>1, <1>2, <1>3, <2>1, <2>3, <2>4 DEF Typed
  <2>6. LastGot' = op.data[n].name
    <3>1. n \in 1..n /\ got'[Len(got')] = op.data[n].name
      BY <2>2, <2>3
    <3>2. QED
      BY <2>3, <3>1 DEF LastGot
  <2>7. added' = {} => OnceGot'
    <3> SUFFICES ASSUME added = {}
                 PROVE  OnceGot'
      BY <1>1
    <3>1. OnceGot /\ OncePage
      BY <1>1
    <3>2. ASSUME NEW j \in 1..Len(got)
          PROVE  got[j] <= LastGot
      <4>1. got # <<>> /\ LastGot = got[Len(got)] /\ Len(got) \in 1..Len(got)
        BY <1>3, <2>2, <3>2 DEF LastGot
      <4>2. got[j] \in Int /\ got[Len(got)] \in Int
        BY <3>2, <4>1, Fields
      <4>3. CASE j = Len(got)
        BY <4>1, <4>2, <4>3
      <4>4. CASE j # Len(got)
        <5>1. j < Len(got)
          BY <2>2, <4>4
        <5>2. got[j] < got[Len(got)]
          BY <3>1, <4>1, <5>1 DEF OnceGot
        <5>3. QED
          BY <4>1, <4>2, <5>2
      <4>5. QED
        BY <4>3, <4>4
    <3>3. ASSUME NEW j \in 1..Len(got'), NEW k \in 1..Len(got'), j < k
          PROVE  got'[j] < got'[k]
      <4>1. CASE k \in 1..Len(got)
        <5>1. j \in 1..Len(got) /\ got'[j] = got[j] /\ got'[k] = got[k]
          BY <2>2, <2>3, <3>3, <4>1
        <5>2. QED
          BY <3>1, <3>3, <4>1, <5>1 DEF OnceGot
      <4>2. CASE k \notin 1..Len(got) /\ j \in 1..Len(got)
        <5>1. PICK i : i = k - Len(got)
          OBVIOUS
        <5>2. i \in 1..n /\ got'[k] = op.data[i].name /\ got'[j] = got[j] /\ i \in 1..Len(op.data)
          BY <2>2, <2>3, <3>3, <4>2, <5>1
        <5>3. got[j] \in Int /\ LastGot \in Int /\ op.data[i].name \in Int
          BY <4>2, <5>2, Fields
        <5>4. got[j] <= LastGot /\ LastGot < op.data[i].name
          BY <3>1, <3>2, <4>2, <5>2 DEF OncePage
        <5>5. QED
          BY <5>2, <5>3, <5>4
      <4>3. CASE k \notin 1..Len(got) /\ j \notin 1..Len(got)
        <5>1. PICK h, i : h = j - Len(got) /\ i = k - Len(got)
          OBVIOUS
        <5>2. h \in 1..n /\ i \in 1..n /\ got'[j] = op.data[h].name /\ got'[k] = op.data[i].name
          BY <2>3, <3>3, <4>3, <5>1
        <5>3. h \in 1..Len(op.data) /\ i \in 1..Len(op.data) /\ h < i
          BY <2>2, <3>3, <5>1, <5>2
        <5>4. QED
          BY <3>1, <5>2, <5>3 DEF OncePage
      <4>4. QED
        BY <4>1, <4>2, <4>3
    <3>4. Cardinality(Upto(dir, op.data[n].name)) <= Offset(op.data[n].offset)
      BY <2>2, <3>1 DEF OncePage
    <3>5. QED
      BY <1>1, <2>1, <2>6, <3>3, <3>4 DEF OnceGot
  <2>8. removed' = {} => AllGot'
    <3> SUFFICES ASSUME removed = {}
                 PROVE  AllGot'
      BY <1>1
    <3>1. AllPage
      BY <1>1
    <3>2. /\ Offset(op.data[n].offset) <= Cardinality(Upto(dir, op.data[n].name))
          /\ Upto(Kept, op.data[n].name) \subseteq ToSet(got) \cup Taken(n)
      BY <2>2, <3>1 DEF AllPage
    <3>3. QED
      BY <1>1, <1>3, <2>1, <2>3, <2>6, <3>2 DEF AllGot
  <2>9. QED
    BY <1>1, <1>2, <2>5, <2>7, <2>8
<1>5. ASSUME got' = got, pos' = pos, ended' \in BOOLEAN, ended' => op.data = <<>> /\ op.ok
      PROVE  ReadDirInv'
  <2>1. got' = got /\ pos' = pos
    BY <1>5
  <2>2. ended' \in BOOLEAN
    BY <1>5
  <2>3. Typed'
    BY <1>1, <1>2, <1>3, <2>1, <2>2 DEF Typed
  <2>4. LastGot' = LastGot
    BY <2>1 DEF LastGot
  <2>5. added' = {} => OnceGot'
    BY <1>1, <2>1, <2>4 DEF OnceGot
  <2>6. removed' = {} => AllGot'
    <3>1. removed = {} => AllGot /\ AllPage
      BY <1>1
    <3>2. QED
      BY <1>1, <1>3, <1>5, <2>1, <2>4, <3>1 DEF AllGot, AllPage
  <2>7. QED
    BY <1>1, <1>2, <2>3, <2>5, <2>6
<1>6. CASE op.ok /\ op.data # <<>>
  <2>1. PICK n \in 1..Len(op.data) :
          /\ pos' = op.data[n].offset
          /\ got' = IF pos' = 0 THEN <<>> ELSE got \o [k \in 1..n |-> op.data[k].name]
          /\ ended' = ended
    BY <1>6 DEF Reply
  <2>2. CASE op.data[n].offset # 0
    BY <1>4, <1>6, <2>1, <2>2
  <2>3. CASE op.data[n].offset = 0
    <3>1. pos = 0
      BY <1>1, <2>1, <2>3 DEF Request
    <3>2. got = <<>> /\ got' = <<>> /\ pos' = 0
      BY <2>1, <2>3, <3>1 DEF Typed
    <3>3. ended \in BOOLEAN /\ ended' = FALSE
      BY <1>3, <2>1 DEF Typed
    <3>4. QED
      BY <1>5, <3>1, <3>2, <3>3
  <2>4. QED
    BY <2>2, <2>3
<1>7. CASE ~ (op.ok /\ op.data # <<>>)
  <2>1. ended' = op.ok /\ got' = got /\ pos' = pos
    BY <1>7 DEF Reply
  <2>2. op.ok \in BOOLEAN
    BY Fields
  <2>3. QED
    BY <1>5, <1>7, <2>1, <2>2
<1>8. QED
  BY <1>6, <1>7

-----------------------------------------------------------------------------
\* A scan begins with nothing taken.
LEMMA ScanStarts == Init => ReadDirInv
<1> SUFFICES ASSUME Init
             PROVE  ReadDirInv
  OBVIOUS
<1>1. /\ dir \in SUBSET Entries /\ pos = 0 /\ got = <<>> /\ ended = FALSE /\ op = Idle
      /\ added = {} /\ removed = {} /\ short = FALSE
  BY DEF Init
<1>2. Idle \in Op /\ Idle.at = "idle"
  BY DEF Idle, Op
<1>3. <<>> \in Seq(Entries \cup {Dot, DotDot})
  OBVIOUS
<1>4. Typed
  BY <1>1, <1>2, <1>3 DEF Typed
<1>5. LastGot = Dot - 1 /\ LastGot \in Int /\ LastGot <= 0
  BY <1>1 DEF LastGot, Dot
<1>6. \A s \in SUBSET Entries : Upto(s, LastGot) = {} /\ Cardinality(Upto(s, LastGot)) = 0
  BY <1>5, NoneUpto
<1>7. Offset(pos) = 0
  BY <1>1, OffsetType
<1>8. Cardinality(Upto(dir, LastGot)) = 0 /\ Upto(Kept, LastGot) = {}
  BY <1>1, <1>6 DEF Kept
<1>9. OnceGot
  <2>1. \A j, k \in 1..Len(got) : j < k => got[j] < got[k]
    BY <1>1
  <2>2. QED
    BY <1>7, <1>8, <2>1 DEF OnceGot
<1>10. AllGot
  BY <1>1, <1>7, <1>8 DEF AllGot
<1>11. QED
  BY <1>1, <1>2, <1>4, <1>9, <1>10 DEF ReadDirInv

\* Every step keeps the invariant.
LEMMA ScanKeeps == ReadDirInv /\ [Next]_vars => ReadDirInv'
<1> SUFFICES ASSUME ReadDirInv, [Next]_vars
             PROVE  ReadDirInv'
  OBVIOUS
<1>1. CASE \E count \in Counts : rreaddir(count)
  BY <1>1, rreaddirKeeps
<1>2. CASE fill
  BY <1>2, fillKeeps
<1>3. CASE skip_next
  BY <1>3, skip_nextKeeps
<1>4. CASE list_next
  BY <1>4, ListDone, ListMore
<1>5. CASE list_end
  BY <1>5, list_endKeeps
<1>6. CASE Reply
  BY <1>6, ReplyKeeps
<1>7. CASE \E e \in Entries : MakeEntry(e) \/ RemoveEntry(e)
  BY <1>7, MakeKeeps, RemoveKeeps
<1>8. CASE UNCHANGED vars
  <2>1. /\ dir' = dir /\ pos' = pos /\ got' = got /\ ended' = ended /\ op' = op
        /\ added' = added /\ removed' = removed /\ short' = short
    BY <1>8 DEF vars
  <2>2. /\ Typed' = Typed /\ Request' = Request /\ Fitting' = Fitting /\ Listing' = Listing /\ Passed' = Passed
    BY <2>1 DEF Typed, Request, Fitting, Listing, Passed
  <2>3. LastGot' = LastGot /\ Pending' = Pending /\ Kept' = Kept
    BY <2>1 DEF LastGot, Pending, Kept, Ahead
  <2>4. OnceGot' = OnceGot /\ OncePage' = OncePage /\ OnceListing' = OnceListing
    BY <2>1, <2>3 DEF OnceGot, OncePage, OnceListing
  <2>5. AllGot' = AllGot /\ AllPage' = AllPage /\ AllListing' = AllListing
    BY <2>1, <2>3 DEF AllGot, AllPage, AllListing, Taken, Ahead
  <2>6. QED
    BY <2>1, <2>2, <2>4, <2>5 DEF ReadDirInv
<1>9. QED
  BY <1>1, <1>2, <1>3, <1>4, <1>5, <1>6, <1>7, <1>8 DEF Next, Scan, Ended

\* ReadDirInv is inductive.
THEOREM ReadDirInvHolds == Spec => []ReadDirInv
<1>1. Init => ReadDirInv
  BY ScanStarts
<1>2. ReadDirInv /\ [Next]_vars => ReadDirInv'
  BY ScanKeeps
<1>3. QED
  BY <1>1, <1>2, PTL DEF Spec

(* The number of entries to skip, which is unsigned in the code, is never  *)
(* less than none (main.rs:240-246), for any directory and any counts.     *)
THEOREM ReadDirTyping == Spec => []TypeOK
<1>1. ReadDirInv => TypeOK
  <2> SUFFICES ASSUME ReadDirInv
               PROVE  TypeOK
    OBVIOUS
  <2>1. op \in Op /\ Typed
    BY DEF ReadDirInv, Typed
  <2>2. op.at \in {"idle", "list", "done"}
    BY <2>1, Fields
  <2>3. QED
    BY <2>1, <2>2, Fields DEF TypeOK, Typed
<1>2. QED
  BY <1>1, ReadDirInvHolds, PTL

(* A scan to the end gives every entry that was there all the time         *)
(* (main.rs:240-261), when nothing was removed, however many entries are   *)
(* made and however the pages are cut.                                     *)
THEOREM ScanMissesNothing == Spec => []NothingMissed
<1>1. ReadDirInv => NothingMissed
  BY DEF ReadDirInv, NothingMissed, AllGot, Kept
<1>2. QED
  BY <1>1, ReadDirInvHolds, PTL

(* A scan gives no entry twice (main.rs:253-260), when nothing was made,   *)
(* however many entries are removed and however the pages are cut.         *)
THEOREM ScanGivesNothingTwice == Spec => []NothingTwice
<1>1. ReadDirInv => NothingTwice
  <2> SUFFICES ASSUME ReadDirInv, added = {}, NEW j \in DOMAIN got, NEW k \in DOMAIN got, got[j] = got[k]
               PROVE  j = k
    BY DEF NothingTwice
  <2>1. DOMAIN got = 1..Len(got) /\ Len(got) \in Nat
    BY DEF ReadDirInv, Typed
  <2>2. j \in 1..Len(got) /\ k \in 1..Len(got) /\ got[j] \in Int /\ got[k] \in Int
    BY <2>1, Fields DEF ReadDirInv
  <2>3. (j < k => got[j] < got[k]) /\ (k < j => got[k] < got[j])
    BY <2>2 DEF ReadDirInv, OnceGot
  <2>4. ~ (j < k) /\ ~ (k < j)
    BY <2>2, <2>3
  <2>5. QED
    BY <2>1, <2>2, <2>4
<1>2. QED
  BY <1>1, ReadDirInvHolds, PTL

(* A page fails only for an entry that went away between the listing and   *)
(* the look at its attributes (main.rs:255).                               *)
THEOREM PagesFailForAReason == Spec => []FailureIsDue
<1>1. ReadDirInv => FailureIsDue
  BY DEF ReadDirInv, FailureIsDue, Request
<1>2. QED
  BY <1>1, ReadDirInvHolds, PTL

(* A page with an entry of the directory in it keeps to count             *)
(* (main.rs:241-242, 256), for all lengths of names and all counts.        *)
THEOREM PagesKeepToCount == Spec => []EntriesFit
<1>1. ReadDirInv => EntriesFit
  <2> SUFFICES ASSUME ReadDirInv, op.at = "done", NEW k \in DOMAIN op.data, op.data[k].name \in Entries
               PROVE  SizeOf(op.data) <= op.count
    BY DEF EntriesFit
  <2>1. CASE op.data = Dots
    <3>1. DOMAIN Dots = 1..Len(Dots)
      BY DotsAre
    <3>2. op.data[k].name \in {-1, 0}
      BY <2>1, <3>1, DotsAre
    <3>3. QED
      BY <3>2, EntryNumbers
  <2>2. QED
    BY <2>1 DEF ReadDirInv, Fitting
<1>2. QED
  BY <1>1, ReadDirInvHolds, PTL
====
