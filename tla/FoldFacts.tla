---- MODULE FoldFacts ----
(***************************************************************************)
(* Induction over numbers and sequences, stated for sets, and what         *)
(* FoldLeft computes, stated for functions: the provers take a set or a    *)
(* function for a parameter where they do not take an operator.  At the    *)
(* end, queues that hold nothing twice.                                    *)
(***************************************************************************)
EXTENDS Integers, SequencesExt, WellFoundedInduction, TLAPS

(* A set of numbers with 0 and the successor of each member has them all.  *)
LEMMA NatSets ==
  ASSUME NEW S \in SUBSET Nat, 0 \in S, \A n \in S : n + 1 \in S
  PROVE  S = Nat
<1>1. PICK R : IsWellFoundedOn(R, Nat) /\ \A x, y \in Nat : x < y => <<x, y>> \in R
  <2>1. \A x, y \in Nat : x < y => <<x, y>> \in OpToRel(<, Nat)
    BY DEF OpToRel
  <2>2. QED
    BY <2>1, NatLessThanWellFounded DEF OpToRel
<1>2. ASSUME Nat \ S # {}
      PROVE  FALSE
  <2>1. PICK x \in Nat \ S : \A y \in Nat \ S : ~ (<<y, x>> \in R)
    BY <1>1, <1>2, WFMin
  <2>2. x - 1 \in Nat /\ x - 1 < x /\ (x - 1) + 1 = x
    BY <2>1
  <2>3. x - 1 \in S
    BY <1>1, <2>1, <2>2
  <2>4. QED
    BY <2>1, <2>2, <2>3
<1>3. QED
  BY <1>2

(* The same for the numbers up to n.                                       *)
LEMMA Intervals ==
  ASSUME NEW n \in Nat, NEW S, 0 \in S, \A k \in 0..(n - 1) : k \in S => k + 1 \in S
  PROVE  0..n \subseteq S
<1> DEFINE T == {k \in Nat : k <= n => k \in S}
<1>1. 0 \in T
  OBVIOUS
<1>2. ASSUME NEW k \in T
      PROVE  k + 1 \in T
  <2>1. CASE k + 1 <= n
    BY <2>1
  <2>2. CASE ~ (k + 1 <= n)
    BY <2>2
  <2>3. QED
    BY <2>1, <2>2
<1>3. T = Nat
  <2> HIDE DEF T
  <2>1. T \in SUBSET Nat
    BY DEF T
  <2>2. QED
    BY <1>1, <1>2, <2>1, NatSets
<1>4. QED
  BY <1>3

(* A set of sequences with the empty one and each of its members with one  *)
(* more element has them all.                                              *)
LEMMA SeqSets ==
  ASSUME NEW N, NEW Q, <<>> \in Q, \A p \in Seq(N), x \in N : p \in Q => Append(p, x) \in Q
  PROVE  Seq(N) \subseteq Q
<1> DEFINE T == {n \in Nat : \A p \in Seq(N) : Len(p) = n => p \in Q}
<1>1. 0 \in T
  OBVIOUS
<1>2. ASSUME NEW n \in T
      PROVE  n + 1 \in T
  <2>1. ASSUME NEW p \in Seq(N), Len(p) = n + 1
        PROVE  p \in Q
    <3>1. n \in Nat /\ n + 1 \in 1..Len(p)
      BY <2>1
    <3> DEFINE q == [i \in 1..n |-> p[i]]
               r == Append(q, p[n + 1])
    <3>2. q \in Seq(N) /\ Len(q) = n /\ p[n + 1] \in N /\ \A i \in 1..n : q[i] = p[i]
      BY <2>1, <3>1
    <3> HIDE DEF q
    <3>3. r \in Seq(N) /\ Len(r) = Len(p) /\ \A i \in 1..Len(p) : r[i] = p[i]
      BY <2>1, <3>1, <3>2
    <3>4. r = p
      BY <3>3
    <3>5. r \in Q
      BY <1>2, <3>1, <3>2
    <3>6. QED
      BY <3>4, <3>5
  <2>2. QED
    BY <2>1
<1>3. T = Nat
  <2> HIDE DEF T
  <2>1. T \in SUBSET Nat
    BY DEF T
  <2>2. QED
    BY <1>1, <1>2, <2>1, NatSets
<1>4. QED
  BY <1>3

(* The largest of some numbers up to n.                                    *)
LEMMA Largest ==
  ASSUME NEW n \in Nat, NEW s \in SUBSET (1..n), s # {}
  PROVE  Max(s) \in s /\ \A y \in s : y <= Max(s)
<1> DEFINE T == {k \in 0..n : s \cap 1..k # {} => \E x \in s : \A y \in s \cap 1..k : y <= x}
<1>1. 0 \in T
  OBVIOUS
<1>2. ASSUME NEW k \in 0..(n - 1), k \in T
      PROVE  k + 1 \in T
  <2>1. CASE k + 1 \in s
    BY <2>1
  <2>2. CASE k + 1 \notin s
    <3>1. s \cap 1..(k + 1) = s \cap 1..k
      BY <2>2
    <3>2. QED
      BY <1>2, <3>1
  <2>3. QED
    BY <2>1, <2>2
<1>3. n \in T
  <2> HIDE DEF T
  <2>1. 0..n \subseteq T
    BY <1>1, <1>2, Intervals
  <2>2. QED
    BY <2>1
<1>4. PICK x \in s : \A y \in s : y <= x
  BY <1>3
<1>5. \A y \in s : x >= y
  BY <1>4
<1>6. QED
  BY <1>5 DEF Max

\* What FoldLeft computes of the sets of places of p.
IsIter(iter, S, base, step, p) ==
  /\ iter \in [SUBSET (1..Len(p)) -> S]
  /\ \A s \in SUBSET (1..Len(p)) :
       iter[s] = IF s = {} THEN base ELSE step[<<iter[s \ {Max(s)}], p[Max(s)]>>]

(* There is such a function.                                               *)
LEMMA FoldExists ==
  ASSUME NEW S, NEW N, NEW base \in S, NEW step \in [S \X N -> S], NEW p \in Seq(N)
  PROVE  \E iter : IsIter(iter, S, base, step, p)
<1> DEFINE Runs(iter, m) ==
             \A s \in SUBSET (1..m) :
               iter[s] = IF s = {} THEN base ELSE step[<<iter[s \ {Max(s)}], p[Max(s)]>>]
           T == {m \in 0..Len(p) : \E iter \in [SUBSET (1..m) -> S] : Runs(iter, m)}
<1>1. Len(p) \in Nat
  OBVIOUS
<1>2. 0 \in T
  <2>1. SUBSET (1..0) = {{}}
    OBVIOUS
  <2>2. Runs([s \in SUBSET (1..0) |-> base], 0)
    BY <2>1
  <2>3. [s \in SUBSET (1..0) |-> base] \in [SUBSET (1..0) -> S] /\ 0 \in 0..Len(p)
    BY <1>1
  <2> HIDE DEF Runs
  <2>4. QED
    BY <2>2, <2>3
<1>3. ASSUME NEW m \in 0..(Len(p) - 1), m \in T
      PROVE  m + 1 \in T
  <2>1. PICK iter \in [SUBSET (1..m) -> S] : Runs(iter, m)
    BY <1>3
  <2> DEFINE new == [s \in SUBSET (1..(m + 1)) |->
                      IF m + 1 \in s THEN step[<<iter[s \ {m + 1}], p[m + 1]>>] ELSE iter[s]]
  <2>2. m \in Nat /\ m + 1 \in 1..Len(p) /\ p[m + 1] \in N
    BY <1>1, <1>3
  <2>3. \A s \in SUBSET (1..(m + 1)) : s \ {m + 1} \in SUBSET (1..m) /\ (m + 1 \notin s => s \in SUBSET (1..m))
    BY <2>2
  <2>4. new \in [SUBSET (1..(m + 1)) -> S]
    BY <2>2, <2>3
  <2>5. ASSUME NEW s \in SUBSET (1..(m + 1))
        PROVE  new[s] = IF s = {} THEN base ELSE step[<<new[s \ {Max(s)}], p[Max(s)]>>]
    <3>1. CASE m + 1 \in s
      <4>1. m + 1 \in Nat /\ s # {}
        BY <2>2, <3>1
      <4>2. Max(s) \in s /\ m + 1 <= Max(s)
        BY <3>1, <4>1, Largest
      <4>3. Max(s) = m + 1
        <5>1. Max(s) \in 1..(m + 1)
          BY <4>2
        <5>2. QED
          BY <2>2, <4>2, <5>1
      <4>4. new[s \ {m + 1}] = iter[s \ {m + 1}]
        BY <2>3
      <4>5. QED
        BY <3>1, <4>3, <4>4
    <3>2. CASE m + 1 \notin s
      <4>1. new[s] = iter[s] /\ s \in SUBSET (1..m)
        BY <2>3, <3>2
      <4>2. CASE s = {}
        BY <2>1, <4>1, <4>2
      <4>3. CASE s # {}
        <5>1. s \ {Max(s)} \in SUBSET (1..(m + 1)) /\ m + 1 \notin s \ {Max(s)}
          BY <3>2
        <5>2. new[s \ {Max(s)}] = iter[s \ {Max(s)}]
          BY <5>1
        <5>3. QED
          BY <2>1, <4>1, <4>3, <5>2
      <4>4. QED
        BY <4>2, <4>3
    <3>3. QED
      BY <3>1, <3>2
  <2>6. Runs(new, m + 1)
    BY <2>5
  <2> HIDE DEF new, Runs
  <2>7. m + 1 \in 0..Len(p)
    BY <2>2
  <2>8. QED
    BY <2>4, <2>6, <2>7
<1> HIDE DEF T
<1>4. 0..Len(p) \subseteq T
  BY <1>1, <1>2, <1>3, Intervals
<1>5. Len(p) \in T
  BY <1>1, <1>4
<1>6. QED
  BY <1>5 DEF T, IsIter

\* The values a fold goes through from the first element of p to the last.
Run(at, S, base, step, p) ==
  /\ at \in [0..Len(p) -> S] /\ at[0] = base
  /\ \A k \in 0..(Len(p) - 1) : at[k + 1] = step[<<at[k], p[k + 1]>>]

\* The largest of the first numbers is the last of them.
LEMMA IntervalMax ==
  ASSUME NEW k \in Nat
  PROVE  1..(k + 1) # {} /\ Max(1..(k + 1)) = k + 1 /\ (1..(k + 1)) \ {k + 1} = 1..k
<1>1. 1..(k + 1) # {} /\ k + 1 \in 1..(k + 1) /\ (1..(k + 1)) \ {k + 1} = 1..k
  OBVIOUS
<1>2. Max(1..(k + 1)) \in 1..(k + 1) /\ k + 1 <= Max(1..(k + 1))
  <2>1. PICK n \in Nat : n = k + 1
    OBVIOUS
  <2>2. 1..n \in SUBSET (1..n) /\ 1..n # {} /\ n \in 1..n
    BY <2>1
  <2>3. Max(1..n) \in 1..n /\ n <= Max(1..n)
    BY <2>2, Largest
  <2>4. QED
    BY <2>1, <2>3
<1>3. QED
  BY <1>1, <1>2

\* An iteration over the first numbers passes through one value for each.
LEMMA IterRuns ==
  ASSUME NEW S, NEW N, NEW base \in S, NEW step \in [S \X N -> S], NEW p \in Seq(N), NEW iter, iter[{}] = base,
         \A k \in 0..(Len(p) - 1) : iter[1..k] \in S => iter[1..(k + 1)] = step[<<iter[1..k], p[k + 1]>>]
  PROVE  Run([k \in 0..Len(p) |-> iter[1..k]], S, base, step, p)
<1> DEFINE at == [k \in 0..Len(p) |-> iter[1..k]]
           T == {k \in 0..Len(p) : iter[1..k] \in S}
<1>1. Len(p) \in Nat /\ 1..0 = {} /\ \A k \in 0..(Len(p) - 1) : p[k + 1] \in N
  OBVIOUS
<1>2. 0 \in T
  BY <1>1
<1>3. ASSUME NEW k \in 0..(Len(p) - 1), k \in T
      PROVE  k + 1 \in T
  <2>1. p[k + 1] \in N /\ iter[1..k] \in S /\ k + 1 \in 0..Len(p)
    BY <1>1, <1>3
  <2>2. iter[1..(k + 1)] = step[<<iter[1..k], p[k + 1]>>]
    BY <2>1
  <2>3. QED
    BY <2>1, <2>2
<1>4. \A k \in 0..Len(p) : iter[1..k] \in S
  <2> HIDE DEF T
  <2>1. 0..Len(p) \subseteq T
    BY <1>1, <1>2, <1>3, Intervals
  <2>2. QED
    BY <2>1 DEF T
<1>5. at \in [0..Len(p) -> S] /\ at[0] = base
  BY <1>1, <1>4
<1>6. \A k \in 0..(Len(p) - 1) : at[k + 1] = step[<<at[k], p[k + 1]>>]
  BY <1>1, <1>4
<1>7. QED
  BY <1>5, <1>6 DEF Run

(* One more element is one more step.                                      *)
LEMMA RunAppend ==
  ASSUME NEW S, NEW N, NEW base \in S, NEW step, NEW p \in Seq(N), NEW x \in N, NEW a, NEW b,
         Run(a, S, base, step, p), Run(b, S, base, step, Append(p, x))
  PROVE  b[Len(p) + 1] = step[<<a[Len(p)], x>>]
<1> DEFINE T == {k \in 0..Len(p) : a[k] = b[k]}
           q == Append(p, x)
<1>1. /\ Len(p) \in Nat /\ Len(q) = Len(p) + 1 /\ q[Len(p) + 1] = x
      /\ \A k \in 0..(Len(p) - 1) : q[k + 1] = p[k + 1]
  OBVIOUS
<1>2. /\ a[0] = base /\ b[0] = base
      /\ \A k \in 0..(Len(p) - 1) : a[k + 1] = step[<<a[k], p[k + 1]>>]
      /\ \A k \in 0..Len(p) : b[k + 1] = step[<<b[k], q[k + 1]>>]
  BY <1>1 DEF Run
<1> HIDE DEF q
<1>3. 0 \in T
  BY <1>1, <1>2
<1>4. ASSUME NEW k \in 0..(Len(p) - 1), k \in T
      PROVE  k + 1 \in T
  <2>1. k \in 0..Len(p) /\ k + 1 \in 0..Len(p) /\ a[k] = b[k]
    BY <1>1, <1>4
  <2>2. b[k + 1] = step[<<b[k], p[k + 1]>>] /\ a[k + 1] = step[<<a[k], p[k + 1]>>]
    BY <1>1, <1>2, <2>1
  <2>3. QED
    BY <2>1, <2>2
<1>5. Len(p) \in T
  <2> HIDE DEF T
  <2>1. 0..Len(p) \subseteq T
    BY <1>1, <1>3, <1>4, Intervals
  <2>2. QED
    BY <1>1, <2>1
<1>6. QED
  BY <1>1, <1>2, <1>5

-----------------------------------------------------------------------------
(* Queues.                                                                 *)

(* A task that was not in a queue joins it at the end.                     *)
LEMMA Enqueue ==
  ASSUME NEW S, NEW q \in Seq(S), NEW x \in S, x \notin ToSet(q), IsInjective(q)
  PROVE  /\ Append(q, x) \in Seq(S)
         /\ ToSet(Append(q, x)) = ToSet(q) \cup {x}
         /\ IsInjective(Append(q, x))
         /\ q # <<>> => Head(Append(q, x)) = Head(q)
<1> DEFINE r == Append(q, x)
<1>1. r \in Seq(S) /\ Len(r) = Len(q) + 1 /\ r[Len(q) + 1] = x /\ \A i \in 1..Len(q) : r[i] = q[i]
  OBVIOUS
<1>2. DOMAIN r = 1..(Len(q) + 1) /\ DOMAIN q = 1..Len(q) /\ Len(q) \in Nat
  BY <1>1
<1>3. ToSet(r) = ToSet(q) \cup {x}
  <2>1. ASSUME NEW i \in 1..(Len(q) + 1)
        PROVE  r[i] \in ToSet(q) \cup {x}
    <3>1. CASE i = Len(q) + 1
      BY <1>1, <3>1
    <3>2. CASE i \in 1..Len(q)
      BY <1>1, <1>2, <3>2 DEF ToSet
    <3>3. QED
      BY <1>2, <2>1, <3>1, <3>2
  <2>2. ASSUME NEW y \in ToSet(q) \cup {x}
        PROVE  \E i \in 1..(Len(q) + 1) : r[i] = y
    <3>1. CASE y = x
      BY <1>1, <1>2, <3>1
    <3>2. CASE y # x
      <4>1. PICK i \in 1..Len(q) : q[i] = y
        BY <1>2, <2>2, <3>2 DEF ToSet
      <4>2. i \in 1..(Len(q) + 1) /\ r[i] = y
        BY <1>1, <1>2, <4>1
      <4>3. QED
        BY <4>2
    <3>3. QED
      BY <3>1, <3>2
  <2>3. QED
    BY <1>2, <2>1, <2>2 DEF ToSet
<1>4. IsInjective(r)
  <2>1. ASSUME NEW i \in 1..(Len(q) + 1), NEW j \in 1..(Len(q) + 1), r[i] = r[j]
        PROVE  i = j
    <3>1. \A k \in 1..Len(q) : q[k] # x
      BY <1>2 DEF ToSet
    <3>2. \A k, l \in 1..Len(q) : q[k] = q[l] => k = l
      BY <1>2 DEF IsInjective
    <3>3. QED
      BY <1>1, <1>2, <2>1, <3>1, <3>2
  <2>2. QED
    BY <1>2, <2>1 DEF IsInjective
<1>5. q # <<>> => Head(r) = Head(q)
  BY <1>1
<1>6. QED
  BY <1>1, <1>3, <1>4, <1>5

(* The first of a queue leaves it.                                         *)
LEMMA Dequeue ==
  ASSUME NEW S, NEW q \in Seq(S), q # <<>>, IsInjective(q)
  PROVE  /\ Tail(q) \in Seq(S)
         /\ ToSet(Tail(q)) = ToSet(q) \ {Head(q)}
         /\ IsInjective(Tail(q))
<1> DEFINE r == Tail(q)
<1>1. r \in Seq(S) /\ Len(r) = Len(q) - 1 /\ \A i \in 1..(Len(q) - 1) : r[i] = q[i + 1]
  OBVIOUS
<1>2. DOMAIN r = 1..(Len(q) - 1) /\ DOMAIN q = 1..Len(q) /\ Len(q) \in Nat \ {0} /\ Head(q) = q[1]
  BY <1>1
<1>3. \A k, l \in 1..Len(q) : q[k] = q[l] => k = l
  BY <1>2 DEF IsInjective
<1> HIDE DEF r
<1>4. ToSet(r) = ToSet(q) \ {q[1]}
  <2>1. ASSUME NEW i \in 1..(Len(q) - 1)
        PROVE  r[i] \in ToSet(q) \ {q[1]}
    <3>1. i + 1 \in 1..Len(q) /\ i + 1 # 1 /\ 1 \in 1..Len(q)
      BY <1>2
    <3>2. QED
      BY <1>1, <1>2, <1>3, <3>1 DEF ToSet
  <2>2. ASSUME NEW y \in ToSet(q) \ {q[1]}
        PROVE  \E i \in 1..(Len(q) - 1) : r[i] = y
    <3>1. PICK i \in 1..Len(q) : q[i] = y
      BY <1>2 DEF ToSet
    <3>2. i - 1 \in 1..(Len(q) - 1) /\ (i - 1) + 1 = i
      BY <1>2, <3>1
    <3>3. r[i - 1] = y
      BY <1>1, <3>1, <3>2
    <3>4. QED
      BY <3>2, <3>3
  <2>3. ToSet(r) = {r[i] : i \in 1..(Len(q) - 1)}
    BY <1>2 DEF ToSet
  <2>4. QED
    BY <2>1, <2>2, <2>3
<1>5. IsInjective(r)
  BY <1>1, <1>2, <1>3 DEF IsInjective
<1>6. QED
  BY <1>1, <1>2, <1>4, <1>5 DEF r
====
