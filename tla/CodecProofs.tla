---- MODULE CodecProofs ----
(***************************************************************************)
(* What is written is read, for messages of every length: proofs about     *)
(* Codec.                                                                  *)
(***************************************************************************)
EXTENDS Codec, FoldFacts

-----------------------------------------------------------------------------
(* Numbers and their bytes.                                                *)

\* What High goes through: n, and one byte less with each step.
Shifts(f, n, m) == f = [k \in 0..m |-> IF k = 0 THEN n ELSE f[k - 1] \div Base]

\* High is the last number that its steps go through.
LEMMA HighRun ==
  ASSUME NEW n, NEW i \in Nat
  PROVE  \E at : High(n, i) = at[i] /\ Shifts(at, n, i)
<1> DEFINE T == {m \in 0..i : \E f : Shifts(f, n, m)}
<1>1. 0 \in T
  <2>1. Shifts([k \in 0..0 |-> n], n, 0)
    BY DEF Shifts
  <2>2. QED
    BY <2>1
<1>2. ASSUME NEW m \in 0..(i - 1), m \in T
      PROVE  m + 1 \in T
  <2>1. PICK f : Shifts(f, n, m)
    BY <1>2
  <2> DEFINE g == [k \in 0..(m + 1) |-> IF k = m + 1 THEN f[m] \div Base ELSE f[k]]
  <2>2. ASSUME NEW k \in 0..(m + 1)
        PROVE  g[k] = IF k = 0 THEN n ELSE g[k - 1] \div Base
    BY <2>1, <2>2 DEF Shifts
  <2>3. Shifts(g, n, m + 1)
    BY <2>2 DEF Shifts
  <2> HIDE DEF g
  <2>4. QED
    BY <1>2, <2>3
<1>3. i \in T
  <2> HIDE DEF T
  <2>1. 0..i \subseteq T
    BY <1>1, <1>2, Intervals
  <2>2. QED
    BY <2>1
<1> DEFINE at == CHOOSE f : Shifts(f, n, i)
<1>4. Shifts(at, n, i)
  BY <1>3
<1>5. High(n, i) = at[i]
  BY DEF High, Shifts
<1> HIDE DEF at
<1>6. QED
  BY <1>4, <1>5

\* Each step takes off one more byte.
LEMMA HighSteps ==
  ASSUME NEW n \in Nat, NEW i \in Nat
  PROVE  High(n, 0) = n /\ High(n, i) \in Nat /\ High(n, i + 1) = High(n, i) \div Base
<1>1. PICK j \in Nat : j = i + 1
  OBVIOUS
<1>2. PICK z : High(n, 0) = z[0] /\ Shifts(z, n, 0)
  BY HighRun
<1>3. PICK a : High(n, i) = a[i] /\ Shifts(a, n, i)
  BY HighRun
<1>4. PICK b : High(n, j) = b[j] /\ Shifts(b, n, j)
  BY HighRun
<1> DEFINE T == {k \in 0..i : a[k] = b[k] /\ a[k] \in Nat}
<1>5. 0 \in T
  BY <1>1, <1>3, <1>4 DEF Shifts
<1>6. ASSUME NEW k \in 0..(i - 1), k \in T
      PROVE  k + 1 \in T
  <2>1. k + 1 \in 0..i /\ k + 1 \in 0..j /\ k + 1 # 0 /\ (k + 1) - 1 = k
    BY <1>1
  <2>2. a[k + 1] = a[k] \div Base /\ b[k + 1] = b[k] \div Base
    BY <1>3, <1>4, <2>1 DEF Shifts
  <2>3. \A x \in Nat : x \div Base \in Nat
    BY BaseAssumption
  <2>4. QED
    BY <1>6, <2>1, <2>2, <2>3
<1>7. i \in T
  <2> HIDE DEF T
  <2>1. 0..i \subseteq T
    BY <1>5, <1>6, Intervals
  <2>2. QED
    BY <2>1
<1>8. b[j] = b[i] \div Base
  BY <1>1, <1>4 DEF Shifts
<1>9. z[0] = n
  BY <1>2 DEF Shifts
<1>10. QED
  BY <1>1, <1>2, <1>3, <1>4, <1>7, <1>8, <1>9

\* As many bytes as asked for.
LEMMA BytesType ==
  ASSUME NEW n \in Nat, NEW w \in Nat
  PROVE  Bytes(n, w) \in Seq(Byte) /\ Len(Bytes(n, w)) = w
<1>1. ASSUME NEW i \in 1..w
      PROVE  High(n, i - 1) % Base \in Byte
  <2>1. High(n, i - 1) \in Nat
    BY HighSteps
  <2>2. \A x \in Nat : x % Base \in Byte
    BY BaseAssumption DEF Byte
  <2>3. QED
    BY <2>1, <2>2
<1>2. QED
  BY <1>1 DEF Bytes

\* What Number goes through: a byte from the end with each step.
Sums(f, s, m) == f = [k \in 0..m |-> IF k = 0 THEN 0 ELSE s[Len(s) + 1 - k] + Base * f[k - 1]]

\* Number is the last sum that its steps go through.
LEMMA NumberRun ==
  ASSUME NEW s, Len(s) \in Nat
  PROVE  \E at : Number(s) = at[Len(s)] /\ Sums(at, s, Len(s))
<1> DEFINE T == {m \in 0..Len(s) : \E f : Sums(f, s, m)}
<1>1. 0 \in T
  <2>1. Sums([k \in 0..0 |-> 0], s, 0)
    BY DEF Sums
  <2>2. QED
    BY <2>1
<1>2. ASSUME NEW m \in 0..(Len(s) - 1), m \in T
      PROVE  m + 1 \in T
  <2>1. PICK f : Sums(f, s, m)
    BY <1>2
  <2> DEFINE g == [k \in 0..(m + 1) |-> IF k = m + 1 THEN s[Len(s) + 1 - (m + 1)] + Base * f[m] ELSE f[k]]
  <2>2. ASSUME NEW k \in 0..(m + 1)
        PROVE  g[k] = IF k = 0 THEN 0 ELSE s[Len(s) + 1 - k] + Base * g[k - 1]
    BY <2>1, <2>2 DEF Sums
  <2>3. Sums(g, s, m + 1)
    BY <2>2 DEF Sums
  <2> HIDE DEF g
  <2>4. QED
    BY <1>2, <2>3
<1>3. Len(s) \in T
  <2> HIDE DEF T
  <2>1. 0..Len(s) \subseteq T
    BY <1>1, <1>2, Intervals
  <2>2. QED
    BY <2>1
<1> DEFINE at == CHOOSE f : Sums(f, s, Len(s))
<1>4. Sums(at, s, Len(s))
  BY <1>3
<1>5. Number(s) = at[Len(s)]
  BY DEF Number, Sums
<1> HIDE DEF at
<1>6. QED
  BY <1>4, <1>5

(* A number that fits its bytes is the number of its bytes.                *)
LEMMA NumberOfBytes ==
  ASSUME NEW n \in Nat, NEW w \in Nat, InBytes(n, w),
         NEW s, Len(s) = w, \A i \in 1..w : s[i] = Bytes(n, w)[i]
  PROVE  Number(s) = n
<1>1. PICK at : Number(s) = at[w] /\ Sums(at, s, w)
  BY NumberRun
<1> DEFINE T == {k \in 0..w : at[k] = High(n, w - k)}
<1>2. 0 \in T
  BY <1>1 DEF InBytes, Sums
<1>3. ASSUME NEW k \in 0..(w - 1), k \in T
      PROVE  k + 1 \in T
  <2>1. PICK i \in Nat : i = w - (k + 1) /\ i + 1 = w - k /\ i + 1 \in 1..w /\ i + 1 = w + 1 - (k + 1)
    BY <1>3
  <2>2. at[k + 1] = s[i + 1] + Base * at[k]
    BY <1>1, <1>3, <2>1 DEF Sums
  <2>3. s[i + 1] = High(n, i) % Base
    BY <2>1 DEF Bytes
  <2>4. High(n, i) \in Nat /\ High(n, i + 1) = High(n, i) \div Base
    BY HighSteps
  <2>5. \A x \in Nat : (x % Base) + Base * (x \div Base) = x
    BY BaseAssumption
  <2>6. at[k + 1] = High(n, i)
    BY <1>3, <2>1, <2>2, <2>3, <2>4, <2>5
  <2>7. QED
    BY <1>3, <2>1, <2>6
<1>4. w \in T
  <2> HIDE DEF T
  <2>1. 0..w \subseteq T
    BY <1>2, <1>3, Intervals
  <2>2. QED
    BY <2>1
<1>5. High(n, 0) = n
  BY HighSteps
<1>6. QED
  BY <1>1, <1>4, <1>5

-----------------------------------------------------------------------------
(* Sequences one after the other.                                          *)

\* One sequence after another: its length and its members.
LEMMA Concat ==
  ASSUME NEW X, NEW a \in Seq(X), NEW b \in Seq(X), NEW c, c = a \o b
  PROVE  /\ c \in Seq(X) /\ Len(c) = Len(a) + Len(b)
         /\ \A i \in 1..Len(a) : c[i] = a[i]
         /\ \A j \in 1..Len(b) : c[Len(a) + j] = b[j]
  OBVIOUS

\* Sequences with the same members are the same.
LEMMA SameSeq ==
  ASSUME NEW X, NEW s \in Seq(X), NEW t \in Seq(X), Len(s) = Len(t), \A i \in 1..Len(s) : s[i] = t[i]
  PROVE  s = t
  OBVIOUS

\* What FlattenSeq goes through: one more sequence with each step.
Joins(f, s, m) == f = [k \in 1..m |-> IF k = 1 THEN s[k] ELSE f[k - 1] \o s[k]]

\* FlattenSeq is the last sequence that its steps go through.
LEMMA FlattenRun ==
  ASSUME NEW s, NEW n \in Nat \ {0}, Len(s) = n
  PROVE  \E at : FlattenSeq(s) = at[n] /\ Joins(at, s, n)
<1> DEFINE T == {m \in 0..n : \E f : Joins(f, s, m)}
<1>1. 0 \in T
  <2>1. Joins([k \in 1..0 |-> s], s, 0)
    BY DEF Joins
  <2>2. QED
    BY <2>1
<1>2. ASSUME NEW m \in 0..(n - 1), m \in T
      PROVE  m + 1 \in T
  <2>1. PICK f : Joins(f, s, m)
    BY <1>2
  <2> DEFINE g == [k \in 1..(m + 1) |-> IF k = m + 1 THEN IF k = 1 THEN s[k] ELSE f[m] \o s[k] ELSE f[k]]
  <2>2. ASSUME NEW k \in 1..(m + 1)
        PROVE  g[k] = IF k = 1 THEN s[k] ELSE g[k - 1] \o s[k]
    <3>1. CASE k = m + 1
      BY <3>1
    <3>2. CASE k # m + 1
      <4>1. k \in 1..m /\ g[k] = f[k] /\ (k # 1 => g[k - 1] = f[k - 1])
        BY <3>2
      <4>2. QED
        BY <2>1, <4>1 DEF Joins
    <3>3. QED
      BY <3>1, <3>2
  <2>3. Joins(g, s, m + 1)
    BY <2>2 DEF Joins
  <2> HIDE DEF g
  <2>4. QED
    BY <1>2, <2>3
<1>3. n \in T
  <2> HIDE DEF T
  <2>1. 0..n \subseteq T
    BY <1>1, <1>2, Intervals
  <2>2. QED
    BY <2>1
<1> DEFINE at == CHOOSE f : Joins(f, s, n)
<1>4. Joins(at, s, n)
  BY <1>3
<1>5. FlattenSeq(s) = at[n]
  BY DEF FlattenSeq, Joins
<1> HIDE DEF at
<1>6. QED
  BY <1>4, <1>5

\* Where each of the sequences begins and ends.
Places(off, s) ==
  /\ off \in [0..Len(s) -> Nat] /\ off[0] = 0
  /\ \A k \in 1..Len(s) : off[k] = off[k - 1] + Len(s[k])

\* flat is made of the members of s, one after the other.
IsFlat(flat, off, s) ==
  /\ Places(off, s) /\ Len(flat) = off[Len(s)]
  /\ \A k \in 1..Len(s) : off[k] <= Len(flat)
  /\ \A k \in 1..Len(s), j \in Nat : j \in 1..Len(s[k]) => flat[off[k - 1] + j] = s[k][j]

\* The members of FlattenSeq are those of its sequences, each at its place.
LEMMA FlattenPlaces ==
  ASSUME NEW X, NEW s \in Seq(Seq(X))
  PROVE  FlattenSeq(s) \in Seq(X) /\ \E off : IsFlat(FlattenSeq(s), off, s)
<1>1. PICK n \in Nat : n = Len(s)
  OBVIOUS
<1>2. CASE n = 0
  <2>1. s = <<>>
    <3>1. PICK Y : Y = Seq(X)
      OBVIOUS
    <3>2. s \in Seq(Y) /\ Len(s) = 0
      BY <1>1, <1>2, <3>1
    <3>3. QED
      BY <3>2
  <2>2. FlattenSeq(s) = <<>>
    BY <2>1, <1>1, <1>2 DEF FlattenSeq
  <2>3. Len(s) = 0 /\ Len(<<>>) = 0
    BY <1>1, <1>2
  <2>4. IsFlat(<<>>, [k \in 0..0 |-> 0], s)
    BY <2>3 DEF IsFlat, Places
  <2>5. QED
    BY <2>2, <2>4
<1>3. CASE n # 0
  <2>1. PICK at : FlattenSeq(s) = at[n] /\ Joins(at, s, n)
    <3>1. n \in Nat \ {0}
      BY <1>3
    <3>2. QED
      BY <1>1, <3>1, FlattenRun
  <2>2. \A k \in 1..n : s[k] \in Seq(X) /\ Len(s[k]) \in Nat
    BY <1>1
  <2>3. at[1] = s[1] /\ \A k \in 1..(n - 1) : at[k + 1] = at[k] \o s[k + 1]
    <3>1. \A k \in 1..(n - 1) : k + 1 \in 1..n /\ k + 1 # 1 /\ (k + 1) - 1 = k
      OBVIOUS
    <3>2. 1 \in 1..n
      BY <1>3
    <3>3. QED
      BY <2>1, <3>1, <3>2 DEF Joins
  <2>4. \A k \in 1..n : at[k] \in Seq(X) /\ Len(at[k]) \in Nat
    <3> DEFINE T == {k \in 0..n : k # 0 => at[k] \in Seq(X)}
    <3>1. 0 \in T
      OBVIOUS
    <3>2. ASSUME NEW k \in 0..(n - 1), k \in T
          PROVE  k + 1 \in T
      <4>1. CASE k = 0
        BY <2>2, <2>3, <4>1
      <4>2. CASE k # 0
        <5>1. k \in 1..(n - 1) /\ k + 1 \in 1..n /\ at[k] \in Seq(X)
          BY <3>2, <4>2
        <5>2. at[k + 1] = at[k] \o s[k + 1] /\ s[k + 1] \in Seq(X)
          BY <2>2, <2>3, <5>1
        <5>3. at[k] \o s[k + 1] \in Seq(X)
          BY <5>1, <5>2, Concat
        <5>4. at[k + 1] \in Seq(X)
          BY <5>2, <5>3, Zenon
        <5>5. k + 1 \in 0..n
          BY <5>1
        <5>6. QED
          BY <5>4, <5>5
      <4>3. QED
        BY <4>1, <4>2
    <3>3. 0..n \subseteq T
      <4> HIDE DEF T
      <4>1. QED
        BY <3>1, <3>2, Intervals
    <3>4. QED
      BY <3>3
  <2>5. PICK off : off \in [0..n -> Nat] /\ off[0] = 0 /\ \A k \in 1..n : off[k] = Len(at[k])
    <3> DEFINE off == [k \in 0..n |-> IF k = 0 THEN 0 ELSE Len(at[k])]
    <3>1. off \in [0..n -> Nat] /\ off[0] = 0 /\ \A k \in 1..n : off[k] = Len(at[k])
      BY <2>4
    <3> HIDE DEF off
    <3>2. QED
      BY <3>1
  <2>6. ASSUME NEW k \in 1..n
        PROVE  /\ off[k] = off[k - 1] + Len(s[k])
               /\ \A j \in 1..Len(s[k]) : at[k][off[k - 1] + j] = s[k][j]
               /\ \A i \in 1..off[k - 1] : at[k][i] = at[k - 1][i]
    <3>1. CASE k = 1
      BY <1>3, <2>2, <2>3, <2>5, <3>1
    <3>2. CASE k # 1
      <4>1. PICK h \in 1..(n - 1) : h = k - 1 /\ h + 1 = k /\ h \in 1..n
        BY <3>2
      <4>2. /\ at[k] = at[h] \o s[k] /\ at[h] \in Seq(X) /\ s[k] \in Seq(X)
            /\ off[h] = Len(at[h]) /\ off[k] = Len(at[k])
        BY <2>2, <2>3, <2>4, <2>5, <4>1
      <4>3. /\ off[k] = off[h] + Len(s[k])
            /\ \A j \in 1..Len(s[k]) : at[k][off[h] + j] = s[k][j]
            /\ \A i \in 1..off[h] : at[k][i] = at[h][i]
        <5>1. PICK a \in Seq(X), b \in Seq(X) : a = at[h] /\ b = s[k]
          BY <4>2
        <5>2. PICK c : c = a \o b
          OBVIOUS
        <5>3. /\ Len(c) = Len(a) + Len(b)
              /\ \A i \in 1..Len(a) : c[i] = a[i]
              /\ \A j \in 1..Len(b) : c[Len(a) + j] = b[j]
          BY <5>2, Concat
        <5>4. c = at[k]
          BY <4>2, <5>1, <5>2, Zenon
        <5>5. QED
          BY <4>2, <5>1, <5>3, <5>4
      <4>4. QED
        BY <4>1, <4>3
    <3>3. QED
      BY <3>1, <3>2
  <2> DEFINE T(k) == {m \in 0..n : k <= m => off[k] <= off[m] /\ \A i \in 1..off[k] : at[m][i] = at[k][i]}
  <2>7. ASSUME NEW k \in 1..n
        PROVE  n \in T(k)
    <3>1. 0 \in T(k)
      OBVIOUS
    <3>2. ASSUME NEW m \in 0..(n - 1), m \in T(k)
          PROVE  m + 1 \in T(k)
      <4>1. PICK l \in 1..n : l = m + 1 /\ l - 1 = m
        OBVIOUS
      <4>2. /\ off[l] = off[m] + Len(s[l]) /\ Len(s[l]) \in Nat /\ off[m] \in Nat /\ off[k] \in Nat
            /\ \A i \in 1..off[m] : at[l][i] = at[m][i]
        BY <2>2, <2>5, <2>6, <4>1
      <4>3. CASE k = l
        BY <4>1, <4>2, <4>3
      <4>4. CASE k < l
        <5>1. off[k] <= off[m] /\ \A i \in 1..off[k] : at[m][i] = at[k][i]
          BY <3>2, <4>1, <4>4
        <5>2. off[k] <= off[l] /\ \A i \in 1..off[k] : at[l][i] = at[k][i]
          BY <4>2, <5>1
        <5>3. QED
          BY <4>1, <5>2
      <4>5. CASE k > l
        BY <4>1, <4>5
      <4>6. QED
        BY <4>1, <4>3, <4>4, <4>5
    <3>3. 0..n \subseteq T(k)
      <4> HIDE DEF T
      <4>1. QED
        BY <3>1, <3>2, Intervals
    <3>4. QED
      BY <3>3
  <2>8. \A k \in 1..n : off[k] <= off[n] /\ \A i \in 1..off[k] : at[n][i] = at[k][i]
    BY <2>7
  <2>9. n \in 1..n /\ at[n] \in Seq(X) /\ Len(at[n]) = off[n]
    BY <1>3, <2>4, <2>5
  <2>10. ASSUME NEW k \in 1..n, NEW j \in Nat, j \in 1..Len(s[k])
         PROVE  at[n][off[k - 1] + j] = s[k][j]
    <3>1. off[k - 1] \in Nat /\ off[k] = off[k - 1] + Len(s[k]) /\ Len(s[k]) \in Nat
      BY <2>2, <2>5, <2>6
    <3>2. off[k - 1] + j \in 1..off[k]
      BY <2>10, <3>1
    <3>3. QED
      BY <2>6, <2>8, <2>10, <3>2
  <2>11. Places(off, s)
    BY <1>1, <2>5, <2>6 DEF Places
  <2>12. IsFlat(at[n], off, s)
    BY <1>1, <2>8, <2>9, <2>10, <2>11 DEF IsFlat
  <2>13. QED
    BY <2>1, <2>9, <2>12
<1>4. QED
  BY <1>2, <1>3

-----------------------------------------------------------------------------
(* One step of a decoder after the other.                                  *)

\* As far as there are bytes after pos, they are those of e.
Agrees(bytes, pos, e) == \A j \in 1..Len(e) : pos + j <= Len(bytes) => bytes[pos + j] = e[j]

\* d has read v, of which the bytes are e, or has found that they end before e does.
Outcome(d, bytes, pos, vals, e, v) ==
  d = IF pos + Len(e) <= Len(bytes) THEN Reader(bytes, pos + Len(e), Append(vals, v)) ELSE Stuck

\* The same for a decoder that started with no values.
Whole(d, bytes, pos, e, val) ==
  d = IF pos + Len(e) <= Len(bytes) THEN Reader(bytes, pos + Len(e), val) ELSE Stuck

\* The first k of some values.
First(val, k) == [i \in 1..k |-> val[i]]

\* One more value after the first k.
LEMMA FirstAppend ==
  ASSUME NEW val, NEW k \in Nat
  PROVE  Append(First(val, k), val[k + 1]) = First(val, k + 1) /\ First(val, 0) = <<>>
<1>1. PICK X : X = {val[i] : i \in 1..(k + 1)}
  OBVIOUS
<1>2. First(val, k) \in Seq(X) /\ Len(First(val, k)) = k /\ \A i \in 1..k : First(val, k)[i] = val[i]
  BY <1>1 DEF First
<1>3. PICK a \in Seq(X), x \in X : a = First(val, k) /\ x = val[k + 1]
  <2>1. k + 1 \in 1..(k + 1)
    OBVIOUS
  <2>2. val[k + 1] \in X
    BY <1>1, <2>1
  <2>3. QED
    BY <1>2, <2>2
<1>4. PICK b : b = Append(a, x)
  OBVIOUS
<1>5. b \in Seq(X) /\ Len(b) = k + 1 /\ b[k + 1] = x /\ \A i \in 1..k : b[i] = a[i]
  BY <1>2, <1>3, <1>4
<1>6. \A i \in 1..(k + 1) : b[i] = val[i]
  BY <1>2, <1>3, <1>5
<1>7. b = [i \in 1..(k + 1) |-> val[i]]
  BY <1>5, <1>6
<1>8. First(val, 0) = <<>>
  BY DEF First
<1>9. QED
  BY <1>3, <1>4, <1>7, <1>8 DEF First

\* Each step of a decoder reads what one step of an encoder wrote.
Follows(at, bytes, enc, val, n) ==
  /\ \A k \in 1..n : at[k - 1] = Stuck => at[k] = Stuck
  /\ \A k \in 1..n, p \in 0..Len(bytes) :
       at[k - 1] = Reader(bytes, p, First(val, k - 1)) /\ Agrees(bytes, p, enc[k])
         => Outcome(at[k], bytes, p, First(val, k - 1), enc[k], val[k])

(* A decoder each step of which reads what one step of an encoder wrote    *)
(* reads all that the encoder wrote; where the bytes end it is stuck.      *)
LEMMA ReadAll ==
  ASSUME NEW bytes \in Seq(Byte), NEW pos \in 0..Len(bytes), NEW n \in Nat,
         NEW enc \in Seq(Seq(Byte)), Len(enc) = n, NEW val, NEW at,
         at[0] = Reader(bytes, pos, <<>>), Follows(at, bytes, enc, val, n),
         Agrees(bytes, pos, FlattenSeq(enc))
  PROVE  Whole(at[n], bytes, pos, FlattenSeq(enc), First(val, n))
<1>1. PICK flat : flat = FlattenSeq(enc)
  OBVIOUS
<1>2. PICK off : flat \in Seq(Byte) /\ IsFlat(flat, off, enc)
  BY <1>1, FlattenPlaces
<1>3. /\ Len(bytes) \in Nat /\ pos \in Nat /\ Len(flat) \in Nat
      /\ \A k \in 1..n : enc[k] \in Seq(Byte) /\ Len(enc[k]) \in Nat
  BY <1>2
<1>4. /\ off[0] = 0 /\ off[n] = Len(flat) /\ \A k \in 0..n : off[k] \in Nat
      /\ \A k \in 1..n : off[k] = off[k - 1] + Len(enc[k]) /\ off[k] <= Len(flat)
      /\ \A k \in 1..n, j \in Nat : j \in 1..Len(enc[k]) => flat[off[k - 1] + j] = enc[k][j]
  BY <1>2 DEF IsFlat, Places
<1> DEFINE Here(k) == at[k] = IF pos + off[k] <= Len(bytes)
                              THEN Reader(bytes, pos + off[k], First(val, k)) ELSE Stuck
           T == {k \in 0..n : Here(k)}
<1>5. Here(0)
  <2>1. First(val, 0) = <<>> /\ pos + off[0] = pos /\ pos <= Len(bytes)
    BY <1>3, <1>4, FirstAppend
  <2>2. QED
    BY <2>1
<1>6. ASSUME NEW m \in 0..(n - 1), m \in T
      PROVE  m + 1 \in T
  <2>1. PICK k \in 1..n : k = m + 1 /\ k - 1 = m
    OBVIOUS
  <2>2. off[k] = off[m] + Len(enc[k]) /\ off[m] \in Nat /\ Len(enc[k]) \in Nat
    <3>1. m \in 0..n
      BY <1>6
    <3>2. off[k] = off[k - 1] + Len(enc[k])
      BY <1>4
    <3>3. Len(enc[k]) \in Nat /\ off[m] \in Nat
      BY <1>3, <1>4, <3>1
    <3>4. QED
      BY <2>1, <3>2, <3>3
  <2>3. CASE pos + off[m] <= Len(bytes)
    <3>1. PICK p \in 0..Len(bytes) : p = pos + off[m]
      BY <1>3, <2>2, <2>3
    <3>2. at[k - 1] = Reader(bytes, p, First(val, k - 1))
      BY <1>6, <2>1, <2>3, <3>1
    <3>3. ASSUME NEW j \in 1..Len(enc[k]), p + j <= Len(bytes)
          PROVE  bytes[p + j] = enc[k][j]
      <4>1. PICK i : i = off[m] + j
        OBVIOUS
      <4>2. i \in Nat /\ pos + i = p + j /\ i \in 1..Len(flat)
        <5>1. PICK l \in Nat : l = Len(enc[k])
          BY <2>2
        <5>2. PICK a \in Nat : a = off[m]
          BY <2>2
        <5>3. j \in 1..l /\ a + l <= Len(flat) /\ p = pos + a /\ i = a + j
          BY <1>4, <2>1, <2>2, <3>1, <4>1, <5>1, <5>2
        <5>4. QED
          BY <1>3, <5>3
      <4>3. flat[i] = enc[k][j]
        <5>1. j \in Nat /\ j \in 1..Len(enc[k]) /\ off[k - 1] = off[m]
          BY <2>1, <2>2
        <5>2. flat[off[k - 1] + j] = enc[k][j]
          BY <1>4, <5>1
        <5>3. QED
          BY <4>1, <5>1, <5>2
      <4>4. bytes[pos + i] = flat[i]
        BY <1>1, <3>3, <4>2, <4>3 DEF Agrees
      <4>5. QED
        BY <4>2, <4>3, <4>4
    <3>4. Outcome(at[k], bytes, p, First(val, k - 1), enc[k], val[k])
      BY <3>2, <3>3 DEF Agrees, Follows
    <3>5. Append(First(val, k - 1), val[k]) = First(val, k)
      <4>1. m \in Nat
        BY <1>6
      <4>2. Append(First(val, m), val[m + 1]) = First(val, m + 1)
        BY <4>1, FirstAppend
      <4>3. QED
        BY <2>1, <4>2
    <3>6. p + Len(enc[k]) = pos + off[k]
      BY <1>3, <2>2, <3>1
    <3>7. Here(k)
      BY <3>4, <3>5, <3>6 DEF Outcome
    <3>8. QED
      BY <2>1, <3>7
  <2>4. CASE ~(pos + off[m] <= Len(bytes))
    <3>1. at[k] = Stuck
      BY <1>6, <2>1, <2>4 DEF Follows
    <3>2. ~(pos + off[k] <= Len(bytes))
      BY <1>3, <2>2, <2>4
    <3>3. QED
      BY <2>1, <3>1, <3>2
  <2>5. QED
    BY <2>3, <2>4
<1>7. Here(n)
  <2>1. 0 \in T
    BY <1>5
  <2> HIDE DEF T
  <2>2. 0..n \subseteq T
    BY <1>6, <2>1, Intervals
  <2>3. n \in T
    BY <2>2
  <2>4. QED
    BY <2>3 DEF T
<1>8. QED
  BY <1>1, <1>4, <1>7 DEF Whole

-----------------------------------------------------------------------------
(* Integers, strings and data.                                             *)

IntKinds == {"u8", "u16", "u32", "u64", "mask8", "mask32", "mask64", "pad"}
Scalars == IntKinds \cup {"str"}

\* An integer is a byte wide at least.
LEMMA Widths ==
  ASSUME NEW kind \in IntKinds
  PROVE  Width[kind] \in Nat \ {0} /\ kind # "str"
BY DEF IntKinds, Width

\* What a scalar is, kind by kind.
LEMMA IntegerValues ==
  ASSUME NEW kind \in IntKinds, NEW v, IsScalar(kind, v)
  PROVE  v \in Nat /\ InBytes(v, Width[kind]) /\ (kind \in Masks => v % Known = v)
<1>1. CASE kind \in Masks
  <2>1. v \in 0..(Known - 1) /\ InBytes(v, Width[kind])
    BY <1>1 DEF IsScalar, Masks
  <2>2. v \in Nat /\ v < Known /\ Known \in Nat
    BY <2>1, BaseAssumption
  <2>3. v % Known = v
    BY <2>2
  <2>4. QED
    BY <2>1, <2>2, <2>3
<1>2. CASE kind \notin Masks
  BY <1>2, Widths DEF IsScalar
<1>3. QED
  BY <1>1, <1>2

\* A scalar is written as bytes, one at least.
LEMMA ScalarType ==
  ASSUME NEW kind \in Scalars, NEW v, IsScalar(kind, v)
  PROVE  EncScalar(kind, v) \in Seq(Byte) /\ Len(EncScalar(kind, v)) >= 1
<1>1. CASE kind = "str"
  <2>1. PICK a : a = Bytes(Len(v), 2)
    OBVIOUS
  <2>2. v \in Seq(Byte) /\ Len(v) \in Nat
    BY <1>1 DEF IsScalar, Masks
  <2>3. a \in Seq(Byte)
    BY <2>1, <2>2, BytesType
  <2>4. PICK c : c = a \o v
    OBVIOUS
  <2>5. c \in Seq(Byte) /\ Len(c) = Len(a) + Len(v) /\ Len(a) = 2
    <3>1. c \in Seq(Byte) /\ Len(c) = Len(a) + Len(v)
      BY <2>2, <2>3, <2>4, Concat
    <3>2. QED
      BY <2>1, <2>2, <3>1, BytesType
  <2>6. EncScalar(kind, v) = c
    BY <1>1, <2>1, <2>4 DEF EncScalar
  <2>7. QED
    BY <2>2, <2>3, <2>5, <2>6
<1>2. CASE kind \in IntKinds
  <2>1. v \in Nat /\ Width[kind] \in Nat \ {0} /\ kind # "str"
    BY <1>2, IntegerValues, Widths
  <2>2. EncScalar(kind, v) = Bytes(v, Width[kind])
    BY <2>1 DEF EncScalar
  <2>3. QED
    BY <2>1, <2>2, BytesType
<1>3. QED
  BY <1>1, <1>2 DEF Scalars

(* A number that is all there is read.                                     *)
LEMMA PeekNumber ==
  ASSUME NEW bytes \in Seq(Byte), NEW pos \in 0..Len(bytes), NEW vals, NEW n \in Nat, NEW w \in Nat \ {0},
         InBytes(n, w), Agrees(bytes, pos, Bytes(n, w)), pos + w <= Len(bytes)
  PROVE  Peek(Reader(bytes, pos, vals), w) = n
<1>1. PICK s : s = SubSeq(bytes, pos + 1, pos + w)
  OBVIOUS
<1>2. Len(bytes) \in Nat /\ pos \in Nat /\ Len(Bytes(n, w)) = w
  BY BytesType
<1>3. Len(s) = w /\ \A i \in 1..w : s[i] = bytes[pos + i]
  BY <1>1, <1>2
<1>4. \A i \in 1..w : s[i] = Bytes(n, w)[i]
  BY <1>2, <1>3 DEF Agrees
<1>5. Number(s) = n
  BY <1>3, <1>4, NumberOfBytes
<1>6. QED
  BY <1>1, <1>5 DEF Peek, Reader

(* A length of w bytes and as many bytes are read, or their end is found.  *)
LEMMA BytesRead ==
  ASSUME NEW bytes \in Seq(Byte), NEW pos \in 0..Len(bytes), NEW vals, NEW w \in Nat \ {0},
         NEW v \in Seq(Byte), InBytes(Len(v), w), Agrees(bytes, pos, Bytes(Len(v), w) \o v)
  PROVE  Outcome(DecBytes(Reader(bytes, pos, vals), w), bytes, pos, vals, Bytes(Len(v), w) \o v, v)
<1>1. PICK d : d = Reader(bytes, pos, vals)
  OBVIOUS
<1>2. d.ok /\ d.bytes = bytes /\ d.pos = pos /\ d.vals = vals
  BY <1>1 DEF Reader
<1>3. PICK n \in Nat : n = Len(v)
  OBVIOUS
<1>4. PICK a, e : a = Bytes(n, w) /\ e = a \o v
  OBVIOUS
<1>5. /\ Len(a) = w /\ Len(e) = w + n
      /\ \A i \in 1..w : e[i] = a[i]
      /\ \A i \in 1..n : e[w + i] = v[i]
  <2>1. a \in Seq(Byte)
    BY <1>4, BytesType
  <2>2. /\ Len(e) = Len(a) + Len(v)
        /\ \A i \in 1..Len(a) : e[i] = a[i]
        /\ \A i \in 1..Len(v) : e[Len(a) + i] = v[i]
    BY <1>4, <2>1, Concat
  <2>3. Len(a) = w
    BY <1>4, BytesType
  <2>4. QED
    BY <1>3, <2>2, <2>3
<1>6. Len(bytes) \in Nat /\ pos \in Nat
  OBVIOUS
<1>7. Agrees(bytes, pos, e) /\ Agrees(bytes, pos, a)
  <2>1. Agrees(bytes, pos, e)
    BY <1>3, <1>4
  <2>2. QED
    BY <1>5, <2>1 DEF Agrees
<1>8. CASE pos + w > Len(bytes)
  <2>1. ~Has(d, w)
    BY <1>2, <1>6, <1>8 DEF Has
  <2>2. DecBytes(d, w) = Stuck
    BY <2>1 DEF DecBytes
  <2>3. ~(pos + Len(e) <= Len(bytes))
    BY <1>5, <1>6, <1>8
  <2>4. QED
    BY <1>1, <1>3, <1>4, <2>2, <2>3 DEF Outcome
<1>9. CASE pos + w <= Len(bytes)
  <2>1. Peek(d, w) = n
    BY <1>1, <1>3, <1>4, <1>7, <1>9, PeekNumber
  <2>2. Has(d, w) /\ (Has(d, w + n) <=> pos + (w + n) <= Len(bytes))
    BY <1>2, <1>9 DEF Has
  <2>3. CASE pos + (w + n) <= Len(bytes)
    <3>1. PICK s : s = SubSeq(bytes, pos + w + 1, pos + w + n)
      OBVIOUS
    <3>2. s \in Seq(Byte) /\ Len(s) = n /\ \A i \in 1..n : s[i] = bytes[pos + w + i]
      <4>1. PICK l, h \in Nat : l = pos + w /\ h = l + n /\ h <= Len(bytes) /\ l \in Nat
        BY <1>6, <2>3
      <4>2. s = SubSeq(bytes, l + 1, h)
        BY <3>1, <4>1
      <4>3. s \in Seq(Byte) /\ Len(s) = h - l /\ \A i \in 1..(h - l) : s[i] = bytes[l + i]
        BY <1>6, <4>1, <4>2
      <4>4. h - l = n
        BY <4>1
      <4>5. QED
        BY <4>1, <4>3, <4>4
    <3>3. ASSUME NEW i \in 1..n
          PROVE  s[i] = v[i]
      <4>1. PICK j \in 1..(w + n) : j = w + i /\ pos + j = pos + w + i /\ pos + j <= Len(bytes)
        BY <1>6, <2>3
      <4>2. bytes[pos + j] = e[j]
        BY <1>5, <1>7, <4>1 DEF Agrees
      <4>3. QED
        BY <1>5, <3>2, <4>1, <4>2
    <3>4. s = v
      BY <1>3, <3>2, <3>3
    <3>5. DecBytes(d, w) = Got(d, s, w + n)
      BY <1>2, <2>1, <2>2, <2>3, <3>1 DEF DecBytes
    <3>6. Got(d, s, w + n) = Reader(bytes, pos + (w + n), Append(vals, s))
      BY <1>2 DEF Got
    <3>7. QED
      BY <1>1, <1>3, <1>4, <1>5, <2>3, <3>4, <3>5, <3>6 DEF Outcome
  <2>4. CASE ~(pos + (w + n) <= Len(bytes))
    <3>1. DecBytes(d, w) = Stuck
      BY <2>1, <2>2, <2>4 DEF DecBytes
    <3>2. QED
      BY <1>1, <1>3, <1>4, <1>5, <2>4, <3>1 DEF Outcome
  <2>5. QED
    BY <2>3, <2>4
<1>10. QED
  BY <1>6, <1>8, <1>9

\* A string is at most what two bytes can count.
ScalarFits(kind, v) == kind = "str" => InBytes(Len(v), 2)

(* A scalar is read as it was written.                                     *)
LEMMA ScalarRead ==
  ASSUME NEW bytes \in Seq(Byte), NEW pos \in 0..Len(bytes), NEW vals, NEW kind \in Scalars, NEW v,
         IsScalar(kind, v), ScalarFits(kind, v), Agrees(bytes, pos, EncScalar(kind, v))
  PROVE  Outcome(DecScalar(Reader(bytes, pos, vals), kind), bytes, pos, vals, EncScalar(kind, v), v)
<1>1. PICK d : d = Reader(bytes, pos, vals)
  OBVIOUS
<1>2. d.ok /\ d.bytes = bytes /\ d.pos = pos /\ d.vals = vals
  BY <1>1 DEF Reader
<1>3. CASE kind = "str"
  <2>1. v \in Seq(Byte) /\ InBytes(Len(v), 2)
    BY <1>3 DEF IsScalar, ScalarFits, Masks
  <2>2. EncScalar(kind, v) = Bytes(Len(v), 2) \o v /\ DecScalar(d, kind) = DecBytes(d, 2)
    BY <1>3 DEF EncScalar, DecScalar
  <2>3. PICK w \in Nat \ {0} : w = 2
    OBVIOUS
  <2>4. Outcome(DecBytes(d, w), bytes, pos, vals, Bytes(Len(v), w) \o v, v)
    BY <1>1, <2>1, <2>2, <2>3, BytesRead
  <2>5. QED
    BY <1>1, <2>2, <2>3, <2>4
<1>4. CASE kind \in IntKinds
  <2>1. PICK w \in Nat \ {0} : w = Width[kind] /\ kind # "str"
    BY <1>4, Widths
  <2>2. v \in Nat /\ InBytes(v, w) /\ (kind \in Masks => v % Known = v)
    BY <1>4, <2>1, IntegerValues
  <2>3. EncScalar(kind, v) = Bytes(v, w) /\ Len(Bytes(v, w)) = w
    BY <2>1, <2>2, BytesType DEF EncScalar
  <2>4. CASE pos + w <= Len(bytes)
    <3>1. Peek(d, w) = v /\ Has(d, w)
      BY <1>1, <1>2, <2>2, <2>3, <2>4, PeekNumber DEF Has
    <3>2. DecScalar(d, kind) = Got(d, v, w)
      BY <2>1, <2>2, <3>1 DEF DecScalar
    <3>3. Got(d, v, w) = Reader(bytes, pos + w, Append(vals, v))
      BY <1>2 DEF Got
    <3>4. QED
      BY <1>1, <2>3, <2>4, <3>2, <3>3 DEF Outcome
  <2>5. CASE ~(pos + w <= Len(bytes))
    <3>1. DecScalar(d, kind) = Stuck
      BY <1>2, <2>1, <2>5 DEF DecScalar, Has
    <3>2. QED
      BY <1>1, <2>3, <2>5, <3>1 DEF Outcome
  <2>6. QED
    BY <2>4, <2>5
<1>5. QED
  BY <1>3, <1>4 DEF Scalars

-----------------------------------------------------------------------------
(* Structures: one scalar after the other.                                 *)

\* What DecFields goes through: one more field with each step.
FieldSteps(f, d, layout, m) == f = [k \in 0..m |-> IF k = 0 THEN d ELSE DecScalar(f[k - 1], layout[k])]

\* There are such steps, however many fields.
LEMMA FieldStepsExist ==
  ASSUME NEW d, NEW layout, NEW n \in Nat
  PROVE  \E f : FieldSteps(f, d, layout, n)
<1> DEFINE T == {m \in 0..n : \E f : FieldSteps(f, d, layout, m)}
<1>1. 0 \in T
  <2>1. FieldSteps([k \in 0..0 |-> d], d, layout, 0)
    BY DEF FieldSteps
  <2>2. QED
    BY <2>1
<1>2. ASSUME NEW m \in 0..(n - 1), m \in T
      PROVE  m + 1 \in T
  <2>1. PICK f : FieldSteps(f, d, layout, m)
    BY <1>2
  <2> DEFINE g == [k \in 0..(m + 1) |-> IF k = m + 1 THEN DecScalar(f[m], layout[k]) ELSE f[k]]
  <2>2. ASSUME NEW k \in 0..(m + 1)
        PROVE  g[k] = IF k = 0 THEN d ELSE DecScalar(g[k - 1], layout[k])
    BY <2>1, <2>2 DEF FieldSteps
  <2>3. FieldSteps(g, d, layout, m + 1)
    BY <2>2 DEF FieldSteps
  <2> HIDE DEF g
  <2>4. QED
    BY <1>2, <2>3
<1>3. n \in T
  <2> HIDE DEF T
  <2>1. 0..n \subseteq T
    BY <1>1, <1>2, Intervals
  <2>2. QED
    BY <2>1
<1>4. QED
  BY <1>3

\* DecFields is the last decoder that its steps go through.
LEMMA FieldsRun ==
  ASSUME NEW d, NEW layout, NEW n \in Nat, n = Len(layout)
  PROVE  \E at : DecFields(d, layout) = at[n] /\ FieldSteps(at, d, layout, n)
<1> DEFINE at == CHOOSE f : FieldSteps(f, d, layout, n)
<1>1. FieldSteps(at, d, layout, n)
  BY FieldStepsExist
<1>2. DecFields(d, layout) = at[n]
  BY DEF DecFields, FieldSteps
<1> HIDE DEF at
<1>3. QED
  BY <1>1, <1>2

\* An error stays.
LEMMA ScalarStuck ==
  ASSUME NEW kind
  PROVE  DecScalar(Stuck, kind) = Stuck
<1>1. \A n : ~Has(Stuck, n)
  BY DEF Has, Stuck
<1>2. QED
  BY <1>1 DEF DecScalar, DecBytes

\* The bytes of the fields, field by field.
EncEach(layout, x) == [i \in DOMAIN layout |-> EncScalar(layout[i], x[i])]

\* The bytes of each field are those of a scalar.
LEMMA EachType ==
  ASSUME NEW layout \in Seq(Scalars), NEW x, IsItem(layout, x)
  PROVE  /\ EncEach(layout, x) \in Seq(Seq(Byte)) /\ Len(EncEach(layout, x)) = Len(layout)
         /\ \A i \in 1..Len(layout) :
              /\ layout[i] \in Scalars /\ IsScalar(layout[i], x[i])
              /\ EncEach(layout, x)[i] = EncScalar(layout[i], x[i])
              /\ Len(EncEach(layout, x)[i]) >= 1
<1>1. DOMAIN layout = 1..Len(layout) /\ Len(layout) \in Nat
  OBVIOUS
<1>2. ASSUME NEW i \in 1..Len(layout)
      PROVE  /\ layout[i] \in Scalars /\ IsScalar(layout[i], x[i])
             /\ EncScalar(layout[i], x[i]) \in Seq(Byte) /\ Len(EncScalar(layout[i], x[i])) >= 1
  <2>1. layout[i] \in Scalars /\ IsScalar(layout[i], x[i])
    BY <1>1 DEF IsItem
  <2>2. QED
    BY <2>1, ScalarType
<1>3. PICK Y : Y = Seq(Byte)
  OBVIOUS
<1>4. EncEach(layout, x) = [i \in 1..Len(layout) |-> EncScalar(layout[i], x[i])]
  BY <1>1 DEF EncEach
<1>5. EncEach(layout, x) \in Seq(Y) /\ Len(EncEach(layout, x)) = Len(layout)
  BY <1>1, <1>2, <1>3, <1>4
<1>6. QED
  BY <1>1, <1>2, <1>3, <1>4, <1>5

\* A structure is written as bytes, one at least.
LEMMA FieldsType ==
  ASSUME NEW layout \in Seq(Scalars), NEW x, IsItem(layout, x), Len(layout) >= 1
  PROVE  EncFields(layout, x) \in Seq(Byte) /\ Len(EncFields(layout, x)) >= 1
<1>1. PICK enc \in Seq(Seq(Byte)) : enc = EncEach(layout, x)
  BY EachType
<1>2. EncFields(layout, x) = FlattenSeq(enc)
  BY <1>1 DEF EncFields, EncEach
<1>3. PICK off : FlattenSeq(enc) \in Seq(Byte) /\ IsFlat(FlattenSeq(enc), off, enc)
  BY FlattenPlaces
<1>4. 1 \in 1..Len(enc) /\ Len(enc[1]) >= 1 /\ Len(enc[1]) \in Nat
  <2>1. Len(enc) = Len(layout) /\ 1 \in 1..Len(layout)
    BY <1>1, EachType
  <2>2. Len(enc[1]) >= 1
    BY <1>1, <2>1, EachType
  <2>3. QED
    BY <1>1, <2>1, <2>2
<1>5. off[1] = off[0] + Len(enc[1]) /\ off[0] = 0 /\ off[1] <= Len(FlattenSeq(enc))
  <2>1. off[1] = off[1 - 1] + Len(enc[1]) /\ off[0] = 0 /\ off[1] <= Len(FlattenSeq(enc))
    BY <1>3, <1>4 DEF IsFlat, Places
  <2>2. QED
    BY <2>1
<1>6. Len(FlattenSeq(enc)) >= 1
  BY <1>3, <1>4, <1>5
<1>7. QED
  BY <1>2, <1>3, <1>6

\* Its strings are at most what two bytes can count.
ItemFits(layout, x) == \A i \in DOMAIN layout : ScalarFits(layout[i], x[i])

\* An item is its fields.
LEMMA ItemIsFirst ==
  ASSUME NEW s, IsSeq(s)
  PROVE  Len(s) \in Nat /\ DOMAIN s = 1..Len(s) /\ First(s, Len(s)) = s
BY DEF IsSeq, First

(* The fields of a structure are read as they were written.                *)
LEMMA FieldsRead ==
  ASSUME NEW bytes \in Seq(Byte), NEW pos \in 0..Len(bytes), NEW layout \in Seq(Scalars), NEW x,
         IsItem(layout, x), ItemFits(layout, x), Agrees(bytes, pos, EncFields(layout, x))
  PROVE  Whole(DecFields(Reader(bytes, pos, <<>>), layout), bytes, pos, EncFields(layout, x), x)
<1>1. PICK n \in Nat : n = Len(layout)
  OBVIOUS
<1>2. PICK enc \in Seq(Seq(Byte)) : enc = EncEach(layout, x)
  BY EachType
<1>3. EncFields(layout, x) = FlattenSeq(enc)
  BY <1>2 DEF EncFields, EncEach
<1>4. PICK d : d = Reader(bytes, pos, <<>>)
  OBVIOUS
<1>5. PICK at : DecFields(d, layout) = at[n] /\ FieldSteps(at, d, layout, n)
  BY <1>1, FieldsRun
<1>6. at[0] = Reader(bytes, pos, <<>>) /\ \A k \in 1..n : at[k] = DecScalar(at[k - 1], layout[k])
  BY <1>4, <1>5 DEF FieldSteps
<1>7. \A k \in 1..n : at[k - 1] = Stuck => at[k] = Stuck
  BY <1>6, ScalarStuck
<1>8. ASSUME NEW k \in 1..n, NEW p \in 0..Len(bytes),
             at[k - 1] = Reader(bytes, p, First(x, k - 1)), Agrees(bytes, p, enc[k])
      PROVE  Outcome(at[k], bytes, p, First(x, k - 1), enc[k], x[k])
  <2>1. layout[k] \in Scalars /\ IsScalar(layout[k], x[k]) /\ enc[k] = EncScalar(layout[k], x[k])
    BY <1>1, <1>2, EachType
  <2>2. ScalarFits(layout[k], x[k])
    BY <1>1 DEF ItemFits
  <2>3. PICK vals : vals = First(x, k - 1)
    OBVIOUS
  <2>4. Outcome(DecScalar(Reader(bytes, p, vals), layout[k]), bytes, p, vals, EncScalar(layout[k], x[k]), x[k])
    BY <1>8, <2>1, <2>2, ScalarRead
  <2>5. QED
    BY <1>6, <1>8, <2>1, <2>3, <2>4
<1>9. Len(enc) = n /\ Agrees(bytes, pos, FlattenSeq(enc))
  BY <1>1, <1>2, <1>3, EachType
<1>10. Whole(at[n], bytes, pos, FlattenSeq(enc), First(x, n))
  <2>1. Follows(at, bytes, enc, x, n)
    BY <1>7, <1>8 DEF Follows
  <2>2. at[0] = Reader(bytes, pos, <<>>)
    BY <1>6
  <2>3. QED
    BY <1>9, <2>1, <2>2, ReadAll
<1>11. First(x, n) = x
  <2>1. IsSeq(x) /\ DOMAIN x = 1..n
    BY <1>1 DEF IsItem
  <2>2. Len(x) = n
    BY <1>1, <2>1, ItemIsFirst
  <2>3. QED
    BY <2>1, <2>2, ItemIsFirst
<1>12. QED
  BY <1>3, <1>4, <1>5, <1>10, <1>11

-----------------------------------------------------------------------------
(* Vectors: a count and as many structures.                                *)

\* What DecItems goes through: one more item with each step.
ItemSteps(f, d, layout, m) == f = [k \in 0..m |-> IF k = 0 THEN d ELSE DecItem(f[k - 1], layout)]

\* There are such steps, however many items.
LEMMA ItemStepsExist ==
  ASSUME NEW d, NEW layout, NEW n \in Nat
  PROVE  \E f : ItemSteps(f, d, layout, n)
<1> DEFINE T == {m \in 0..n : \E f : ItemSteps(f, d, layout, m)}
<1>1. 0 \in T
  <2>1. ItemSteps([k \in 0..0 |-> d], d, layout, 0)
    BY DEF ItemSteps
  <2>2. QED
    BY <2>1
<1>2. ASSUME NEW m \in 0..(n - 1), m \in T
      PROVE  m + 1 \in T
  <2>1. PICK f : ItemSteps(f, d, layout, m)
    BY <1>2
  <2> DEFINE g == [k \in 0..(m + 1) |-> IF k = m + 1 THEN DecItem(f[m], layout) ELSE f[k]]
  <2>2. ASSUME NEW k \in 0..(m + 1)
        PROVE  g[k] = IF k = 0 THEN d ELSE DecItem(g[k - 1], layout)
    BY <2>1, <2>2 DEF ItemSteps
  <2>3. ItemSteps(g, d, layout, m + 1)
    BY <2>2 DEF ItemSteps
  <2> HIDE DEF g
  <2>4. QED
    BY <1>2, <2>3
<1>3. n \in T
  <2> HIDE DEF T
  <2>1. 0..n \subseteq T
    BY <1>1, <1>2, Intervals
  <2>2. QED
    BY <2>1
<1>4. QED
  BY <1>3

\* DecItems takes what the last of its steps has read.
LEMMA ItemsRun ==
  ASSUME NEW d, NEW w, NEW layout, NEW n \in Nat, Has(d, w), Peek(d, w) = n, Has(d, w + n)
  PROVE  \E at : /\ ItemSteps(at, Reader(d.bytes, d.pos + w, <<>>), layout, n)
                 /\ DecItems(d, w, layout) =
                      IF at[n].ok THEN Reader(d.bytes, at[n].pos, Append(d.vals, at[n].vals)) ELSE Stuck
<1>1. PICK r : r = Reader(d.bytes, d.pos + w, <<>>)
  OBVIOUS
<1> DEFINE at == CHOOSE f : ItemSteps(f, r, layout, n)
<1>2. ItemSteps(at, r, layout, n)
  BY ItemStepsExist
<1>3. DecItems(d, w, layout) =
        IF at[n].ok THEN Reader(d.bytes, at[n].pos, Append(d.vals, at[n].vals)) ELSE Stuck
  BY <1>1 DEF DecItems, ItemSteps
<1> HIDE DEF at
<1>4. QED
  BY <1>1, <1>2, <1>3

\* The bytes of the items, item by item.
EncItems(layout, v) == [i \in DOMAIN v |-> EncFields(layout, v[i])]

\* The bytes of each item are those of a structure.
LEMMA ItemsType ==
  ASSUME NEW layout \in Seq(Scalars), Len(layout) >= 1, NEW v, IsVec(layout, v)
  PROVE  /\ EncItems(layout, v) \in Seq(Seq(Byte)) /\ Len(EncItems(layout, v)) = Len(v)
         /\ Len(v) \in Nat /\ DOMAIN v = 1..Len(v)
         /\ \A i \in 1..Len(v) :
              /\ IsItem(layout, v[i])
              /\ EncItems(layout, v)[i] = EncFields(layout, v[i])
              /\ Len(EncItems(layout, v)[i]) >= 1
<1>1. DOMAIN v = 1..Len(v) /\ Len(v) \in Nat
  BY ItemIsFirst DEF IsVec
<1>2. ASSUME NEW i \in 1..Len(v)
      PROVE  /\ IsItem(layout, v[i])
             /\ EncFields(layout, v[i]) \in Seq(Byte) /\ Len(EncFields(layout, v[i])) >= 1
  <2>1. IsItem(layout, v[i])
    BY <1>1 DEF IsVec
  <2>2. QED
    BY <2>1, FieldsType
<1>3. PICK Y : Y = Seq(Byte)
  OBVIOUS
<1>4. EncItems(layout, v) = [i \in 1..Len(v) |-> EncFields(layout, v[i])]
  BY <1>1 DEF EncItems
<1>5. EncItems(layout, v) \in Seq(Y) /\ Len(EncItems(layout, v)) = Len(v)
  BY <1>1, <1>2, <1>3, <1>4
<1>6. QED
  BY <1>1, <1>2, <1>3, <1>4, <1>5

\* There are at least as many bytes as items.
LEMMA FlatIsLonger ==
  ASSUME NEW enc \in Seq(Seq(Byte)), \A k \in 1..Len(enc) : Len(enc[k]) >= 1
  PROVE  FlattenSeq(enc) \in Seq(Byte) /\ Len(FlattenSeq(enc)) >= Len(enc)
<1>1. PICK n \in Nat : n = Len(enc)
  OBVIOUS
<1>2. PICK off : FlattenSeq(enc) \in Seq(Byte) /\ IsFlat(FlattenSeq(enc), off, enc)
  BY FlattenPlaces
<1>3. /\ off[0] = 0 /\ off[n] = Len(FlattenSeq(enc)) /\ \A k \in 0..n : off[k] \in Nat
      /\ \A k \in 1..n : off[k] = off[k - 1] + Len(enc[k])
  BY <1>1, <1>2 DEF IsFlat, Places
<1>4. \A k \in 1..n : Len(enc[k]) \in Nat /\ Len(enc[k]) >= 1
  BY <1>1
<1> DEFINE T == {k \in 0..n : off[k] >= k}
<1>5. 0 \in T
  BY <1>3
<1>6. ASSUME NEW m \in 0..(n - 1), m \in T
      PROVE  m + 1 \in T
  <2>1. PICK k \in 1..n : k = m + 1 /\ k - 1 = m
    OBVIOUS
  <2>2. off[k] = off[m] + Len(enc[k])
    BY <1>3, <2>1
  <2>3. off[m] >= m /\ off[m] \in Nat /\ Len(enc[k]) \in Nat /\ Len(enc[k]) >= 1
    BY <1>3, <1>4, <1>6
  <2>4. off[k] >= k
    BY <2>1, <2>2, <2>3
  <2>5. QED
    BY <2>1, <2>4
<1>7. n \in T
  <2> HIDE DEF T
  <2>1. 0..n \subseteq T
    BY <1>5, <1>6, Intervals
  <2>2. QED
    BY <2>1
<1>8. QED
  BY <1>1, <1>2, <1>3, <1>7

(* An item is read as it was written.                                      *)
LEMMA ItemRead ==
  ASSUME NEW bytes \in Seq(Byte), NEW pos \in 0..Len(bytes), NEW vals, NEW layout \in Seq(Scalars), NEW x,
         IsItem(layout, x), ItemFits(layout, x), Agrees(bytes, pos, EncFields(layout, x))
  PROVE  Outcome(DecItem(Reader(bytes, pos, vals), layout), bytes, pos, vals, EncFields(layout, x), x)
<1>1. PICK d : d = Reader(bytes, pos, vals)
  OBVIOUS
<1>2. d.ok /\ d.bytes = bytes /\ d.pos = pos /\ d.vals = vals
  BY <1>1 DEF Reader
<1>3. PICK item : item = DecFields(Reader(bytes, pos, <<>>), layout)
  OBVIOUS
<1>4. Whole(item, bytes, pos, EncFields(layout, x), x)
  BY <1>3, FieldsRead
<1>5. DecItem(d, layout) = IF item.ok THEN Reader(bytes, item.pos, Append(vals, item.vals)) ELSE Stuck
  BY <1>2, <1>3 DEF DecItem
<1>6. QED
  BY <1>1, <1>4, <1>5 DEF Whole, Outcome, Reader, Stuck

\* An error stays, in an item.
LEMMA ItemStuck ==
  ASSUME NEW layout
  PROVE  DecItem(Stuck, layout) = Stuck
BY DEF DecItem, Stuck

(* A count and the items are read, or their end is found.                  *)
LEMMA ItemsRead ==
  ASSUME NEW bytes \in Seq(Byte), NEW pos \in 0..Len(bytes), NEW vals, NEW w \in Nat \ {0},
         NEW layout \in Seq(Scalars), Len(layout) >= 1, NEW v, IsVec(layout, v), InBytes(Len(v), w),
         \A i \in DOMAIN v : ItemFits(layout, v[i]),
         NEW e, e = Bytes(Len(v), w) \o FlattenSeq(EncItems(layout, v)), Agrees(bytes, pos, e)
  PROVE  Outcome(DecItems(Reader(bytes, pos, vals), w, layout), bytes, pos, vals, e, v)
<1>1. PICK d : d = Reader(bytes, pos, vals)
  OBVIOUS
<1>2. d.ok /\ d.bytes = bytes /\ d.pos = pos /\ d.vals = vals
  BY <1>1 DEF Reader
<1>3. PICK n \in Nat : n = Len(v) /\ DOMAIN v = 1..n
  BY ItemsType
<1>4. PICK enc \in Seq(Seq(Byte)) : enc = EncItems(layout, v)
  BY ItemsType
<1>5. /\ Len(enc) = n
      /\ \A i \in 1..n : IsItem(layout, v[i]) /\ enc[i] = EncFields(layout, v[i]) /\ Len(enc[i]) >= 1
  BY <1>3, <1>4, ItemsType
<1>6. PICK a, flat : a = Bytes(n, w) /\ flat = FlattenSeq(enc)
  OBVIOUS
<1>7. flat \in Seq(Byte) /\ Len(flat) \in Nat /\ Len(flat) >= n
  BY <1>5, <1>6, FlatIsLonger
<1>8. /\ Len(a) = w /\ Len(e) = w + Len(flat)
      /\ \A i \in 1..w : e[i] = a[i]
      /\ \A i \in 1..Len(flat) : e[w + i] = flat[i]
  <2>1. a \in Seq(Byte) /\ flat \in Seq(Byte) /\ e = a \o flat
    BY <1>3, <1>4, <1>6, <1>7, BytesType
  <2>2. /\ Len(e) = Len(a) + Len(flat)
        /\ \A i \in 1..Len(a) : e[i] = a[i]
        /\ \A i \in 1..Len(flat) : e[Len(a) + i] = flat[i]
    BY <2>1, Concat
  <2>3. Len(a) = w
    BY <1>6, BytesType
  <2>4. QED
    BY <2>2, <2>3
<1>9. Len(bytes) \in Nat /\ pos \in Nat
  OBVIOUS
<1>10. Agrees(bytes, pos, a)
  <2>1. ASSUME NEW j \in 1..Len(a), pos + j <= Len(bytes)
        PROVE  bytes[pos + j] = a[j]
    <3>1. PICK l \in Nat : l = Len(flat) /\ Len(e) = w + l
      BY <1>7, <1>8
    <3>2. j \in 1..w /\ j \in 1..Len(e)
      BY <1>8, <3>1
    <3>3. bytes[pos + j] = e[j] /\ e[j] = a[j]
      BY <1>8, <2>1, <3>2 DEF Agrees
    <3>4. QED
      BY <3>3
  <2>2. QED
    BY <2>1 DEF Agrees
<1>11. CASE pos + w > Len(bytes)
  <2>1. ~Has(d, w)
    BY <1>2, <1>9, <1>11 DEF Has
  <2>2. DecItems(d, w, layout) = Stuck
    BY <2>1 DEF DecItems
  <2>3. ~(pos + Len(e) <= Len(bytes))
    BY <1>7, <1>8, <1>9, <1>11
  <2>4. QED
    BY <1>1, <2>2, <2>3 DEF Outcome
<1>12. CASE pos + w <= Len(bytes)
  <2>1. Peek(d, w) = n
    BY <1>1, <1>3, <1>6, <1>10, <1>12, PeekNumber
  <2>2. Has(d, w) /\ (Has(d, w + n) <=> pos + (w + n) <= Len(bytes))
    BY <1>2, <1>12 DEF Has
  <2>3. CASE ~(pos + (w + n) <= Len(bytes))
    <3>1. DecItems(d, w, layout) = Stuck
      BY <2>1, <2>2, <2>3 DEF DecItems
    <3>2. ~(pos + Len(e) <= Len(bytes))
      BY <1>7, <1>8, <1>9, <2>3
    <3>3. QED
      BY <1>1, <3>1, <3>2 DEF Outcome
  <2>4. CASE pos + (w + n) <= Len(bytes)
    <3>1. PICK p \in 0..Len(bytes) : p = pos + w
      BY <1>9, <1>12
    <3>2. PICK at : /\ ItemSteps(at, Reader(bytes, p, <<>>), layout, n)
                    /\ DecItems(d, w, layout) =
                         IF at[n].ok THEN Reader(bytes, at[n].pos, Append(vals, at[n].vals)) ELSE Stuck
      <4>1. Has(d, w + n)
        BY <2>2, <2>4
      <4>2. QED
        BY <1>2, <2>1, <2>2, <3>1, <4>1, ItemsRun
    <3>3. at[0] = Reader(bytes, p, <<>>) /\ \A k \in 1..n : at[k] = DecItem(at[k - 1], layout)
      BY <3>2 DEF ItemSteps
    <3>4. ASSUME NEW k \in 1..n, NEW q \in 0..Len(bytes),
                 at[k - 1] = Reader(bytes, q, First(v, k - 1)), Agrees(bytes, q, enc[k])
          PROVE  Outcome(at[k], bytes, q, First(v, k - 1), enc[k], v[k])
      <4>1. IsItem(layout, v[k]) /\ enc[k] = EncFields(layout, v[k]) /\ ItemFits(layout, v[k])
        BY <1>3, <1>5
      <4>2. PICK before, x : before = First(v, k - 1) /\ x = v[k]
        OBVIOUS
      <4>3. Outcome(DecItem(Reader(bytes, q, before), layout), bytes, q, before, EncFields(layout, x), x)
        BY <3>4, <4>1, <4>2, ItemRead
      <4>4. QED
        BY <3>3, <3>4, <4>1, <4>2, <4>3
    <3>5. Follows(at, bytes, enc, v, n)
      BY <3>3, <3>4, ItemStuck DEF Follows
    <3>6. ASSUME NEW j \in 1..Len(flat), p + j <= Len(bytes)
          PROVE  bytes[p + j] = flat[j]
      <4>1. PICK i \in 1..Len(e) : i = w + j /\ pos + i = p + j
        BY <1>7, <1>8, <1>9, <3>1
      <4>2. bytes[pos + i] = e[i] /\ e[i] = flat[j]
        BY <1>8, <3>6, <4>1 DEF Agrees
      <4>3. QED
        BY <4>1, <4>2
    <3>7. Agrees(bytes, p, flat)
      BY <3>6 DEF Agrees
    <3>8. Whole(at[n], bytes, p, flat, First(v, n))
      BY <1>5, <1>6, <3>3, <3>5, <3>7, ReadAll
    <3>9. First(v, n) = v
      BY <1>3, ItemIsFirst DEF IsVec
    <3>10. p + Len(flat) = pos + Len(e)
      BY <1>7, <1>8, <1>9, <3>1
    <3>11. CASE pos + Len(e) <= Len(bytes)
      <4>1. at[n] = Reader(bytes, pos + Len(e), v)
        BY <3>8, <3>9, <3>10, <3>11 DEF Whole
      <4>2. at[n].ok /\ at[n].pos = pos + Len(e) /\ at[n].vals = v
        BY <4>1 DEF Reader
      <4>3. DecItems(d, w, layout) = Reader(bytes, pos + Len(e), Append(vals, v))
        BY <3>2, <4>2
      <4>4. QED
        BY <1>1, <3>11, <4>3 DEF Outcome
    <3>12. CASE ~(pos + Len(e) <= Len(bytes))
      <4>1. at[n] = Stuck
        BY <3>8, <3>10, <3>12 DEF Whole
      <4>2. ~at[n].ok
        BY <4>1 DEF Stuck
      <4>3. QED
        BY <1>1, <3>2, <3>12, <4>2 DEF Outcome
    <3>13. QED
      BY <3>11, <3>12
  <2>5. QED
    BY <2>3, <2>4
<1>13. QED
  BY <1>9, <1>11, <1>12

-----------------------------------------------------------------------------
(* Fields of messages.                                                     *)

Kinds == Scalars \cup {"strs", "qids", "data", "dirents"}

\* The layouts of the items of vectors.
LEMMA ItemLayouts ==
  /\ <<"str">> \in Seq(Scalars) /\ Len(<<"str">>) = 1
  /\ EncQId \in Seq(Scalars) /\ Len(EncQId) = 3 /\ DecQId = EncQId
  /\ EncDirEntry = <<"mask8", "u32", "u64", "u64", "u8", "str">> /\ DecDirEntry = EncDirEntry
  /\ EncDirEntry \in Seq(Scalars) /\ Len(EncDirEntry) = 6
<1>1. /\ "str" \in Scalars /\ "mask8" \in Scalars /\ "u32" \in Scalars /\ "u64" \in Scalars
      /\ "u8" \in Scalars
  BY DEF Scalars, IntKinds
<1>2. <<"str">> \in Seq(Scalars) /\ Len(<<"str">>) = 1
  BY <1>1
<1>3. EncQId \in Seq(Scalars) /\ Len(EncQId) = 3 /\ DecQId = EncQId
  BY <1>1 DEF EncQId, DecQId
<1>4. EncDirEntry = <<"mask8", "u32", "u64", "u64", "u8", "str">> /\ DecDirEntry = EncDirEntry
  <2>1. <<"u64", "u8", "str">> \in Seq(Scalars) /\ <<"mask8", "u32", "u64", "u64", "u8", "str">> \in Seq(Scalars)
    BY <1>1
  <2>2. PICK s : s = EncDirEntry
    OBVIOUS
  <2>3. s \in Seq(Scalars)
    BY <1>3, <2>1, <2>2 DEF EncDirEntry
  <2>4. Len(s) = 6
    BY <2>2 DEF EncDirEntry, EncQId
  <2>5. s[1] = "mask8" /\ s[2] = "u32" /\ s[3] = "u64" /\ s[4] = "u64" /\ s[5] = "u8" /\ s[6] = "str"
    BY <2>2 DEF EncDirEntry, EncQId
  <2>6. PICK t \in Seq(Scalars) : t = <<"mask8", "u32", "u64", "u64", "u8", "str">>
    BY <2>1
  <2>7. Len(t) = 6 /\ \A i \in 1..6 : s[i] = t[i]
    BY <2>5, <2>6
  <2>8. s = t
    BY <2>3, <2>4, <2>6, <2>7, SameSeq
  <2>9. DecDirEntry = EncDirEntry
    BY DEF DecDirEntry, EncDirEntry, DecQId, EncQId
  <2>10. QED
    BY <2>2, <2>6, <2>8, <2>9
<1>5. <<"mask8", "u32", "u64", "u64", "u8", "str">> \in Seq(Scalars)
  BY <1>1
<1>6. QED
  BY <1>2, <1>3, <1>4, <1>5

\* The kinds are told apart.
LEMMA KindsDiffer ==
  /\ \A kind \in Scalars : kind # "strs" /\ kind # "qids" /\ kind # "data" /\ kind # "dirents"
  /\ \A v : /\ IsValue("strs", v) = IsVec(<<"str">>, v)
            /\ IsValue("qids", v) = IsVec(EncQId, v)
            /\ IsValue("data", v) = (v \in Seq(Byte) /\ InBytes(Len(v), 4))
            /\ IsValue("dirents", v) = (IsVec(EncDirEntry, v) /\ InBytes(DirSize(v), 4))
            /\ \A kind \in Scalars : IsValue(kind, v) = IsScalar(kind, v)
BY DEF Scalars, IntKinds, IsValue

\* A number and the bytes after it.
Counts(e, n, w, flat) == e = Bytes(n, w) \o flat

\* The number comes first, and the bytes follow it.
LEMMA Counted ==
  ASSUME NEW n \in Nat, NEW w \in Nat, NEW flat \in Seq(Byte), NEW e, Counts(e, n, w, flat)
  PROVE  /\ e \in Seq(Byte) /\ Len(e) = w + Len(flat)
         /\ \A i \in 1..w : e[i] = Bytes(n, w)[i]
         /\ \A j \in 1..Len(flat) : e[w + j] = flat[j]
<1>1. PICK a : a = Bytes(n, w)
  OBVIOUS
<1>2. a \in Seq(Byte) /\ e = a \o flat
  BY <1>1, BytesType DEF Counts
<1>3. /\ e \in Seq(Byte) /\ Len(e) = Len(a) + Len(flat)
      /\ \A i \in 1..Len(a) : e[i] = a[i]
      /\ \A j \in 1..Len(flat) : e[Len(a) + j] = flat[j]
  BY <1>2, Concat
<1>4. Len(a) = w
  BY <1>1, BytesType
<1>5. QED
  BY <1>1, <1>3, <1>4

\* What a vector is written as.
LEMMA VecType ==
  ASSUME NEW layout \in Seq(Scalars), Len(layout) >= 1, NEW v, IsVec(layout, v), NEW n \in Nat, NEW w \in Nat,
         NEW e, e = Bytes(n, w) \o FlattenSeq(EncItems(layout, v))
  PROVE  e \in Seq(Byte) /\ Len(e) = w + Len(FlattenSeq(EncItems(layout, v)))
<1>1. PICK enc \in Seq(Seq(Byte)) : enc = EncItems(layout, v)
  BY ItemsType
<1>2. PICK a, flat : a = Bytes(n, w) /\ flat = FlattenSeq(enc)
  OBVIOUS
<1>3. a \in Seq(Byte) /\ flat \in Seq(Byte) /\ e = a \o flat
  BY <1>1, <1>2, BytesType, FlattenPlaces
<1>4. e \in Seq(Byte) /\ Len(e) = Len(a) + Len(flat)
  BY <1>3, Concat
<1>5. Len(a) = w
  BY <1>2, BytesType
<1>6. QED
  BY <1>1, <1>2, <1>4, <1>5

(* A field is read as it was written, the entries of a directory excepted. *)
LEMMA FieldRead ==
  ASSUME NEW bytes \in Seq(Byte), NEW pos \in 0..Len(bytes), NEW vals, NEW kind \in Kinds \ {"dirents"}, NEW v,
         IsValue(kind, v), FitsKind(kind, v), Agrees(bytes, pos, EncodeField(kind, v))
  PROVE  Outcome(DecodeField(Reader(bytes, pos, vals), kind), bytes, pos, vals, EncodeField(kind, v), v)
<1>1. PICK d : d = Reader(bytes, pos, vals)
  OBVIOUS
<1>2. CASE kind = "strs"
  <2>1. IsVec(<<"str">>, v) /\ InBytes(Len(v), 2) /\ \A i \in DOMAIN v : InBytes(Len(v[i][1]), 2)
    BY <1>2, KindsDiffer DEF FitsKind
  <2>2. PICK e : e = Bytes(Len(v), 2) \o FlattenSeq(EncItems(<<"str">>, v))
    OBVIOUS
  <2>3. EncodeField(kind, v) = e /\ DecodeField(d, kind) = DecItems(d, 2, <<"str">>)
    BY <1>2, <2>2 DEF EncodeField, DecodeField, EncVec, EncItems
  <2>4. \A i \in DOMAIN v : ItemFits(<<"str">>, v[i])
    <3>1. DOMAIN <<"str">> = {1}
      OBVIOUS
    <3>2. QED
      BY <2>1, <3>1 DEF ItemFits, ScalarFits
  <2>5. PICK w \in Nat \ {0} : w = 2
    OBVIOUS
  <2>6. PICK layout : layout = <<"str">>
    OBVIOUS
  <2>7. layout \in Seq(Scalars) /\ Len(layout) >= 1
    BY <2>6, ItemLayouts
  <2>8. Outcome(DecItems(Reader(bytes, pos, vals), w, layout), bytes, pos, vals, e, v)
    BY <2>1, <2>2, <2>3, <2>4, <2>5, <2>6, <2>7, ItemsRead
  <2>9. QED
    BY <1>1, <2>3, <2>5, <2>6, <2>8
<1>3. CASE kind = "qids"
  <2>1. IsVec(EncQId, v) /\ InBytes(Len(v), 2)
    BY <1>3, KindsDiffer DEF FitsKind
  <2>2. PICK e : e = Bytes(Len(v), 2) \o FlattenSeq(EncItems(EncQId, v))
    OBVIOUS
  <2>3. EncodeField(kind, v) = e /\ DecodeField(d, kind) = DecItems(d, 2, EncQId)
    BY <1>3, <2>2, ItemLayouts DEF EncodeField, DecodeField, EncVec, EncItems
  <2>4. \A i \in DOMAIN v : ItemFits(EncQId, v[i])
    BY DEF ItemFits, ScalarFits, EncQId
  <2>5. PICK w \in Nat \ {0} : w = 2
    OBVIOUS
  <2>6. PICK layout : layout = EncQId
    OBVIOUS
  <2>7. layout \in Seq(Scalars) /\ Len(layout) >= 1
    BY <2>6, ItemLayouts
  <2>8. Outcome(DecItems(Reader(bytes, pos, vals), w, layout), bytes, pos, vals, e, v)
    BY <2>1, <2>2, <2>3, <2>4, <2>5, <2>6, <2>7, ItemsRead
  <2>9. QED
    BY <1>1, <2>3, <2>5, <2>6, <2>8
<1>4. CASE kind = "data"
  <2>1. v \in Seq(Byte) /\ InBytes(Len(v), 4)
    BY <1>4, KindsDiffer
  <2>2. EncodeField(kind, v) = Bytes(Len(v), 4) \o v /\ DecodeField(d, kind) = DecBytes(d, 4)
    BY <1>4 DEF EncodeField, DecodeField, EncData
  <2>3. PICK w \in Nat \ {0} : w = 4
    OBVIOUS
  <2>4. Outcome(DecBytes(d, w), bytes, pos, vals, Bytes(Len(v), w) \o v, v)
    BY <1>1, <2>1, <2>2, <2>3, BytesRead
  <2>5. QED
    BY <1>1, <2>2, <2>3, <2>4
<1>5. CASE kind \in Scalars
  <2>1. IsScalar(kind, v) /\ kind # "strs" /\ kind # "qids" /\ kind # "data" /\ kind # "dirents"
    BY <1>5, KindsDiffer
  <2>2. EncodeField(kind, v) = EncScalar(kind, v) /\ DecodeField(d, kind) = DecScalar(d, kind)
    BY <2>1 DEF EncodeField, DecodeField
  <2>3. ScalarFits(kind, v)
    BY DEF ScalarFits, FitsKind
  <2>4. QED
    BY <1>1, <1>5, <2>1, <2>2, <2>3, ScalarRead
<1>6. QED
  BY <1>2, <1>3, <1>4, <1>5 DEF Kinds

\* An error stays, in a field of any kind.
LEMMA FieldStuck ==
  ASSUME NEW kind
  PROVE  DecodeField(Stuck, kind) = Stuck
<1>1. \A n : ~Has(Stuck, n)
  BY DEF Has, Stuck
<1>2. QED
  BY <1>1, ScalarStuck DEF DecodeField, DecItems, DecBytes

-----------------------------------------------------------------------------
(* The entries of a directory.                                             *)

\* How long a scalar is.
LEMMA ScalarLength ==
  ASSUME NEW kind \in Scalars, NEW v, IsScalar(kind, v)
  PROVE  /\ kind \in IntKinds => Len(EncScalar(kind, v)) = Width[kind]
         /\ kind = "str" => Len(v) \in Nat /\ Len(EncScalar(kind, v)) = 2 + Len(v)
<1>1. ASSUME kind \in IntKinds
      PROVE  Len(EncScalar(kind, v)) = Width[kind]
  <2>1. v \in Nat /\ Width[kind] \in Nat \ {0} /\ kind # "str"
    BY <1>1, IntegerValues, Widths
  <2>2. EncScalar(kind, v) = Bytes(v, Width[kind])
    BY <2>1 DEF EncScalar
  <2>3. QED
    BY <2>1, <2>2, BytesType
<1>2. ASSUME kind = "str"
      PROVE  Len(v) \in Nat /\ Len(EncScalar(kind, v)) = 2 + Len(v)
  <2>1. PICK a : a = Bytes(Len(v), 2)
    OBVIOUS
  <2>2. v \in Seq(Byte) /\ Len(v) \in Nat
    BY <1>2 DEF IsScalar, Masks
  <2>3. a \in Seq(Byte)
    BY <2>1, <2>2, BytesType
  <2>4. PICK c : c = a \o v
    OBVIOUS
  <2>5. Len(c) = Len(a) + Len(v)
    BY <2>2, <2>3, <2>4, Concat
  <2>6. Len(a) = 2
    BY <2>1, <2>2, BytesType
  <2>7. EncScalar(kind, v) = c
    BY <1>2, <2>1, <2>4 DEF EncScalar
  <2>8. QED
    BY <2>2, <2>5, <2>6, <2>7
<1>3. QED
  BY <1>1, <1>2

(* The size an entry says it has (fcall.rs:449-457) is that of its bytes.  *)
LEMMA EntryLength ==
  ASSUME NEW x, IsItem(EncDirEntry, x)
  PROVE  DirEntrySize(x) \in Nat /\ Len(EncFields(EncDirEntry, x)) = DirEntrySize(x)
<1>1. PICK layout : layout = EncDirEntry
  OBVIOUS
<1>2. layout \in Seq(Scalars) /\ Len(layout) = 6 /\ IsItem(layout, x)
  BY <1>1, ItemLayouts
<1>3. /\ layout[1] = "mask8" /\ layout[2] = "u32" /\ layout[3] = "u64" /\ layout[4] = "u64"
      /\ layout[5] = "u8" /\ layout[6] = "str"
  BY <1>1, ItemLayouts
<1>4. PICK enc \in Seq(Seq(Byte)) : enc = EncEach(layout, x)
  BY <1>2, EachType
<1>5. PICK flat : flat = FlattenSeq(enc)
  OBVIOUS
<1>6. EncFields(EncDirEntry, x) = flat
  BY <1>1, <1>4, <1>5 DEF EncFields, EncEach
<1>7. PICK off : flat \in Seq(Byte) /\ IsFlat(flat, off, enc)
  BY <1>5, FlattenPlaces
<1>8. \A i \in 1..6 : layout[i] \in Scalars /\ IsScalar(layout[i], x[i]) /\ enc[i] = EncScalar(layout[i], x[i])
  BY <1>2, <1>4, EachType
<1>9. Len(enc) = 6
  BY <1>2, <1>4, EachType
<1>10. /\ Len(enc[1]) = 1 /\ Len(enc[2]) = 4 /\ Len(enc[3]) = 8 /\ Len(enc[4]) = 8 /\ Len(enc[5]) = 1
  <2>1. \A i \in 1..5 : layout[i] \in IntKinds
    BY <1>3 DEF IntKinds
  <2>2. ASSUME NEW i \in 1..5
        PROVE  Len(enc[i]) = Width[layout[i]]
    <3>1. i \in 1..6
      OBVIOUS
    <3>2. PICK kind : kind = layout[i]
      OBVIOUS
    <3>3. kind \in Scalars /\ kind \in IntKinds /\ IsScalar(kind, x[i]) /\ enc[i] = EncScalar(kind, x[i])
      BY <1>8, <2>1, <3>1, <3>2
    <3>4. QED
      BY <3>2, <3>3, ScalarLength
  <2>3. /\ Width["mask8"] = 1 /\ Width["u32"] = 4 /\ Width["u64"] = 8 /\ Width["u8"] = 1
    BY DEF Width
  <2>4. 1 \in 1..5 /\ 2 \in 1..5 /\ 3 \in 1..5 /\ 4 \in 1..5 /\ 5 \in 1..5
    OBVIOUS
  <2>5. QED
    BY <1>3, <2>2, <2>3, <2>4
<1>11. Len(x[6]) \in Nat /\ Len(enc[6]) = 2 + Len(x[6])
  <2>1. 6 \in 1..6
    OBVIOUS
  <2>2. layout[6] \in Scalars /\ IsScalar(layout[6], x[6]) /\ enc[6] = EncScalar(layout[6], x[6])
    BY <1>8, <2>1
  <2>3. QED
    BY <1>3, <2>2, ScalarLength
<1>12. /\ off[0] = 0 /\ off[1] = off[0] + Len(enc[1]) /\ off[2] = off[1] + Len(enc[2]) /\ off[3] = off[2] + Len(enc[3])
       /\ off[4] = off[3] + Len(enc[4]) /\ off[5] = off[4] + Len(enc[5]) /\ off[6] = off[5] + Len(enc[6])
  <2>1. off[0] = 0 /\ \A k \in 1..6 : off[k] = off[k - 1] + Len(enc[k])
    BY <1>7, <1>9 DEF IsFlat, Places
  <2>2. QED
    BY <2>1
<1>13. Len(flat) = off[6]
  BY <1>7, <1>9 DEF IsFlat
<1>14. Len(flat) = 24 + Len(x[6])
  BY <1>10, <1>11, <1>12, <1>13
<1>15. DirEntrySize(x) = 24 + Len(x[6])
  BY <1>11 DEF DirEntrySize
<1>16. QED
  BY <1>6, <1>11, <1>14, <1>15


\* What DirSize goes through: one more entry with each step.
SizeSteps(f, v, m) == f = [k \in 0..m |-> IF k = 0 THEN 0 ELSE f[k - 1] + DirEntrySize(v[k])]

\* There are such steps, however many entries.
LEMMA SizeStepsExist ==
  ASSUME NEW v, NEW n \in Nat
  PROVE  \E f : SizeSteps(f, v, n)
<1> DEFINE T == {m \in 0..n : \E f : SizeSteps(f, v, m)}
<1>1. 0 \in T
  <2>1. SizeSteps([k \in 0..0 |-> 0], v, 0)
    BY DEF SizeSteps
  <2>2. QED
    BY <2>1
<1>2. ASSUME NEW m \in 0..(n - 1), m \in T
      PROVE  m + 1 \in T
  <2>1. PICK f : SizeSteps(f, v, m)
    BY <1>2
  <2> DEFINE g == [k \in 0..(m + 1) |-> IF k = m + 1 THEN f[m] + DirEntrySize(v[k]) ELSE f[k]]
  <2>2. ASSUME NEW k \in 0..(m + 1)
        PROVE  g[k] = IF k = 0 THEN 0 ELSE g[k - 1] + DirEntrySize(v[k])
    BY <2>1, <2>2 DEF SizeSteps
  <2>3. SizeSteps(g, v, m + 1)
    BY <2>2 DEF SizeSteps
  <2> HIDE DEF g
  <2>4. QED
    BY <1>2, <2>3
<1>3. n \in T
  <2> HIDE DEF T
  <2>1. 0..n \subseteq T
    BY <1>1, <1>2, Intervals
  <2>2. QED
    BY <2>1
<1>4. QED
  BY <1>3

\* DirSize is the last size that its steps go through.
LEMMA SizeRun ==
  ASSUME NEW v, NEW n \in Nat, n = Len(v)
  PROVE  \E at : DirSize(v) = at[n] /\ SizeSteps(at, v, n)
<1> DEFINE at == CHOOSE f : SizeSteps(f, v, n)
<1>1. SizeSteps(at, v, n)
  BY SizeStepsExist
<1>2. DirSize(v) = at[n]
  BY DEF DirSize, SizeSteps
<1> HIDE DEF at
<1>3. QED
  BY <1>1, <1>2

(* The size of the entries is the number of the bytes they are written as. *)
LEMMA DirSizeIsLength ==
  ASSUME NEW v, IsVec(EncDirEntry, v)
  PROVE  DirSize(v) \in Nat /\ Len(FlattenSeq(EncItems(EncDirEntry, v))) = DirSize(v)
<1>1. PICK layout : layout = EncDirEntry
  OBVIOUS
<1>2. layout \in Seq(Scalars) /\ Len(layout) >= 1 /\ IsVec(layout, v)
  BY <1>1, ItemLayouts
<1>3. PICK enc \in Seq(Seq(Byte)) : enc = EncItems(layout, v)
  BY <1>2, ItemsType
<1>4. PICK n \in Nat : n = Len(v) /\ n = Len(enc)
  BY <1>2, <1>3, ItemsType
<1>5. \A i \in 1..n : IsItem(layout, v[i]) /\ enc[i] = EncFields(layout, v[i])
  BY <1>2, <1>3, <1>4, ItemsType
<1>6. PICK flat : flat = FlattenSeq(enc)
  OBVIOUS
<1>7. PICK off : flat \in Seq(Byte) /\ IsFlat(flat, off, enc)
  BY <1>6, FlattenPlaces
<1>8. off[0] = 0 /\ off[n] = Len(flat) /\ \A k \in 1..n : off[k] = off[k - 1] + Len(enc[k])
  BY <1>4, <1>7 DEF IsFlat, Places
<1>9. PICK at : DirSize(v) = at[n] /\ SizeSteps(at, v, n)
  BY <1>4, SizeRun
<1>10. at[0] = 0 /\ \A k \in 1..n : at[k] = at[k - 1] + DirEntrySize(v[k])
  BY <1>9 DEF SizeSteps
<1>11. \A k \in 1..n : DirEntrySize(v[k]) \in Nat /\ Len(enc[k]) = DirEntrySize(v[k])
  BY <1>1, <1>5, EntryLength
<1> DEFINE T == {k \in 0..n : at[k] \in Nat /\ at[k] = off[k]}
<1>12. 0 \in T
  BY <1>8, <1>10
<1>13. ASSUME NEW m \in 0..(n - 1), m \in T
       PROVE  m + 1 \in T
  <2>1. PICK k \in 1..n : k = m + 1 /\ k - 1 = m
    OBVIOUS
  <2>2. at[m] \in Nat /\ at[m] = off[m]
    BY <1>13
  <2>3. at[k] = at[m] + DirEntrySize(v[k]) /\ off[k] = off[m] + Len(enc[k])
    BY <1>8, <1>10, <2>1
  <2>4. at[k] \in Nat /\ at[k] = off[k]
    BY <1>11, <2>2, <2>3
  <2>5. QED
    BY <2>1, <2>4
<1>14. n \in T
  <2> HIDE DEF T
  <2>1. 0..n \subseteq T
    BY <1>12, <1>13, Intervals
  <2>2. QED
    BY <2>1
<1>15. QED
  BY <1>1, <1>3, <1>6, <1>8, <1>9, <1>14

\* What the entries of a directory are written as.
LEMMA EntriesType ==
  ASSUME NEW v, IsValue("dirents", v)
  PROVE  \E e : /\ e = EncodeField("dirents", v) /\ e \in Seq(Byte)
               /\ DirSize(v) \in Nat /\ InBytes(DirSize(v), 4) /\ Len(e) = 4 + DirSize(v)
               /\ \A i \in 1..4 : e[i] = Bytes(DirSize(v), 4)[i]
<1>1. IsVec(EncDirEntry, v) /\ InBytes(DirSize(v), 4)
  BY KindsDiffer
<1>2. PICK layout : layout = EncDirEntry
  OBVIOUS
<1>3. PICK enc : enc = EncItems(layout, v)
  OBVIOUS
<1>4. enc \in Seq(Seq(Byte))
  <2>1. layout \in Seq(Scalars) /\ Len(layout) >= 1 /\ IsVec(layout, v)
    BY <1>1, <1>2, ItemLayouts
  <2>2. QED
    BY <1>3, <2>1, ItemsType
<1>5. PICK n \in Nat : n = DirSize(v)
  BY <1>1, DirSizeIsLength
<1>6. PICK a, flat : a = Bytes(n, 4) /\ flat = FlattenSeq(enc)
  OBVIOUS
<1>7. PICK e : e = EncodeField("dirents", v)
  OBVIOUS
<1>8. e = a \o flat
  BY <1>7, <1>2, <1>3, <1>5, <1>6 DEF EncodeField, EncDirEntries, EncItems
<1>9. flat \in Seq(Byte)
  BY <1>4, <1>6, FlattenPlaces
<1>10. PICK w \in Nat : w = 4
  OBVIOUS
<1>11. /\ e \in Seq(Byte) /\ Len(e) = w + Len(flat)
       /\ \A i \in 1..w : e[i] = Bytes(n, w)[i]
  <2>1. Counts(e, n, w, flat)
    BY <1>6, <1>8, <1>10 DEF Counts
  <2>2. QED
    BY <1>9, <2>1, Counted
<1>12. Len(flat) = n
  BY <1>1, <1>2, <1>3, <1>5, <1>6, DirSizeIsLength
<1>13. QED
  BY <1>1, <1>5, <1>7, <1>10, <1>11, <1>12

(* The entries of a directory that are cut short are an error: their count *)
(* is of bytes, and the decoder takes it for a count of entries.           *)
LEMMA EntriesCut ==
  ASSUME NEW bytes \in Seq(Byte), NEW pos \in 0..Len(bytes), NEW vals, NEW v, IsValue("dirents", v),
         NEW e, e = EncodeField("dirents", v), Agrees(bytes, pos, e), pos + Len(e) > Len(bytes)
  PROVE  DecodeField(Reader(bytes, pos, vals), "dirents") = Stuck
<1>1. PICK d : d = Reader(bytes, pos, vals)
  OBVIOUS
<1>2. d.ok /\ d.bytes = bytes /\ d.pos = pos /\ d.vals = vals
  BY <1>1 DEF Reader
<1>3. PICK n \in Nat : n = DirSize(v)
  BY EntriesType
<1>4. InBytes(n, 4) /\ Len(e) = 4 + n /\ \A i \in 1..4 : e[i] = Bytes(n, 4)[i]
  BY <1>3, EntriesType
<1>5. DecodeField(d, "dirents") = DecItems(d, 4, DecDirEntry)
  BY DEF DecodeField
<1>6. CASE pos + 4 > Len(bytes)
  <2>1. ~Has(d, 4)
    BY <1>2, <1>6 DEF Has
  <2>2. QED
    BY <1>1, <1>5, <2>1 DEF DecItems
<1>7. CASE pos + 4 <= Len(bytes)
  <2>1. PICK w \in Nat \ {0} : w = 4
    OBVIOUS
  <2>2. ASSUME NEW j \in 1..Len(Bytes(n, w)), pos + j <= Len(bytes)
        PROVE  bytes[pos + j] = Bytes(n, w)[j]
    <3>1. Len(Bytes(n, w)) = w
      BY BytesType
    <3>2. j \in 1..4
      BY <2>1, <3>1
    <3>3. j \in 1..(4 + n)
      BY <3>2
    <3>4. j \in 1..Len(e)
      BY <1>4, <3>3
    <3>5. bytes[pos + j] = e[j] /\ e[j] = Bytes(n, w)[j]
      BY <1>4, <2>1, <2>2, <3>2, <3>4 DEF Agrees
    <3>6. QED
      BY <3>5
  <2>3. InBytes(n, w) /\ Agrees(bytes, pos, Bytes(n, w)) /\ pos + w <= Len(bytes)
    BY <1>4, <1>7, <2>1, <2>2 DEF Agrees
  <2>4. Peek(d, w) = n
    BY <1>1, <2>3, PeekNumber
  <2>5. ~Has(d, 4 + n)
    BY <1>2, <1>4 DEF Has
  <2>6. QED
    BY <1>1, <1>5, <2>1, <2>4, <2>5 DEF DecItems
<1>8. QED
  BY <1>6, <1>7

(* What a field is written as.                                             *)
LEMMA FieldType ==
  ASSUME NEW kind \in Kinds, NEW v, IsValue(kind, v)
  PROVE  EncodeField(kind, v) \in Seq(Byte)
<1>1. ASSUME NEW layout \in Seq(Scalars), Len(layout) >= 1, IsVec(layout, v)
      PROVE  EncVec(layout, v) \in Seq(Byte)
  <2>1. PICK w \in Nat : w = 2
    OBVIOUS
  <2>2. PICK e : e = Bytes(Len(v), w) \o FlattenSeq(EncItems(layout, v))
    OBVIOUS
  <2>3. Len(v) \in Nat
    BY <1>1, ItemsType
  <2>4. e \in Seq(Byte)
    BY <1>1, <2>2, <2>3, VecType
  <2>5. QED
    BY <2>1, <2>2, <2>4 DEF EncVec, EncItems
<1>2. CASE kind = "strs"
  <2>1. PICK layout : layout = <<"str">>
    OBVIOUS
  <2>2. layout \in Seq(Scalars) /\ Len(layout) >= 1 /\ IsVec(layout, v)
    BY <1>2, <2>1, ItemLayouts, KindsDiffer
  <2>3. EncodeField(kind, v) = EncVec(layout, v)
    BY <1>2, <2>1 DEF EncodeField
  <2>4. QED
    BY <1>1, <2>2, <2>3
<1>3. CASE kind = "qids"
  <2>1. PICK layout : layout = EncQId
    OBVIOUS
  <2>2. layout \in Seq(Scalars) /\ Len(layout) >= 1 /\ IsVec(layout, v)
    BY <1>3, <2>1, ItemLayouts, KindsDiffer
  <2>3. EncodeField(kind, v) = EncVec(layout, v)
    BY <1>3, <2>1 DEF EncodeField
  <2>4. QED
    BY <1>1, <2>2, <2>3
<1>4. CASE kind = "data"
  <2>1. v \in Seq(Byte) /\ Len(v) \in Nat
    <3>1. IsValue("data", v)
      BY <1>4
    <3>2. v \in Seq(Byte)
      BY <3>1, KindsDiffer
    <3>3. QED
      BY <3>2
  <2>2. PICK a : a = Bytes(Len(v), 4)
    OBVIOUS
  <2>3. a \in Seq(Byte)
    BY <2>1, <2>2, BytesType
  <2>4. PICK c : c = a \o v
    OBVIOUS
  <2>5. c \in Seq(Byte)
    BY <2>1, <2>3, <2>4, Concat
  <2>6. EncodeField(kind, v) = c
    BY <1>4, <2>2, <2>4 DEF EncodeField, EncData
  <2>7. QED
    BY <2>5, <2>6
<1>5. CASE kind = "dirents"
  <2>1. PICK e : e = EncodeField("dirents", v)
    OBVIOUS
  <2>2. e \in Seq(Byte)
    BY <1>5, <2>1, EntriesType
  <2>3. QED
    BY <1>5, <2>1, <2>2
<1>6. CASE kind \in Scalars
  <2>1. IsScalar(kind, v) /\ kind # "strs" /\ kind # "qids" /\ kind # "data" /\ kind # "dirents"
    BY <1>6, KindsDiffer
  <2>2. EncodeField(kind, v) = EncScalar(kind, v)
    BY <2>1 DEF EncodeField
  <2>3. QED
    BY <1>6, <2>1, <2>2, ScalarType
<1>7. QED
  BY <1>2, <1>3, <1>4, <1>5, <1>6 DEF Kinds

-----------------------------------------------------------------------------
(* Layouts of messages.                                                    *)

Plain == Kinds \ {"dirents"}

\* The kinds of the fields of every type but RReadDir.
LEMMA PlainKinds ==
  \A k \in {"u8", "u16", "u32", "u64", "mask8", "mask32", "mask64", "pad", "str", "strs", "qids", "data"} :
    k \in Plain
BY DEF Plain, Kinds, Scalars, IntKinds

\* The structures are the same on both sides.
LEMMA PartsAgree ==
  /\ EncQId = DecQId /\ EncStatFs = DecStatFs /\ EncStat = DecStat /\ EncSetAttr = DecSetAttr
  /\ EncFlock = DecFlock /\ EncGetlock = DecGetlock
<1>1. EncTime = DecTime
  BY DEF EncTime, DecTime
<1>2. EncStat = DecStat
  BY <1>1 DEF EncStat, DecStat
<1>3. EncSetAttr = DecSetAttr
  BY <1>1 DEF EncSetAttr, DecSetAttr
<1>4. EncQId = DecQId /\ EncStatFs = DecStatFs /\ EncFlock = DecFlock /\ EncGetlock = DecGetlock
  BY DEF EncQId, DecQId, EncStatFs, DecStatFs, EncFlock, DecFlock, EncGetlock, DecGetlock
<1>5. QED
  BY <1>2, <1>3, <1>4

\* The structures are of fields that are read as they are written.
LEMMA PartTypes ==
  /\ EncQId \in Seq(Plain) /\ EncStatFs \in Seq(Plain) /\ EncStat \in Seq(Plain)
  /\ EncSetAttr \in Seq(Plain) /\ EncFlock \in Seq(Plain) /\ EncGetlock \in Seq(Plain)
<1>1. EncTime \in Seq(Plain)
  BY PlainKinds DEF EncTime
<1>2. /\ <<"u32", "u32", "u32", "u64", "u64", "u64", "u64", "u64">> \in Seq(Plain)
      /\ <<"u32", "u32", "u32", "u64">> \in Seq(Plain)
  BY PlainKinds
<1>3. EncStat \in Seq(Plain)
  BY <1>1, <1>2 DEF EncStat
<1>4. EncSetAttr \in Seq(Plain)
  BY <1>1, <1>2 DEF EncSetAttr
<1>5. EncQId \in Seq(Plain) /\ EncStatFs \in Seq(Plain) /\ EncFlock \in Seq(Plain) /\ EncGetlock \in Seq(Plain)
  BY PlainKinds DEF EncQId, EncStatFs, EncFlock, EncGetlock
<1>6. QED
  BY <1>3, <1>4, <1>5

\* RGetAttr has its padding in one structure on the one side, in two on the other.
LEMMA GetAttrLayout ==
  EncodeL("RGetAttr") \in Seq(Plain) /\ EncodeL("RGetAttr") = DecodeL("RGetAttr")
<1>1. PICK s : s = <<"mask64">> \o EncQId \o EncStat
  OBVIOUS
<1>2. s \in Seq(Plain)
  <2>1. <<"mask64">> \in Seq(Plain)
    BY PlainKinds
  <2>2. <<"mask64">> \o EncQId \in Seq(Plain)
    BY <2>1, PartTypes
  <2>3. QED
    BY <1>1, <2>2, PartTypes
<1>3. PICK p, q : p = <<"pad", "pad">> /\ q = <<"pad", "pad", "pad", "pad">>
  OBVIOUS
<1>4. p \in Seq(Plain) /\ q \in Seq(Plain) /\ Len(p) = 2 /\ Len(q) = 4
  BY <1>3, PlainKinds
<1>5. (s \o p) \o p = s \o (p \o p)
  BY <1>2, <1>4
<1>6. p \o p = q
  <2>1. PICK c : c = p \o p
    OBVIOUS
  <2>2. c \in Seq(Plain)
    BY <1>4, <2>1
  <2>3. Len(c) = 4 /\ c[1] = "pad" /\ c[2] = "pad" /\ c[3] = "pad" /\ c[4] = "pad"
    BY <1>3, <2>1
  <2>4. \A i \in 1..4 : q[i] = c[i]
    BY <1>3, <2>3
  <2>5. QED
    BY <1>4, <2>1, <2>2, <2>3, <2>4, SameSeq
<1>7. EncodeL("RGetAttr") = s \o q
  BY <1>1, <1>3 DEF EncodeL
<1>8. DecodeL("RGetAttr") = (s \o p) \o p
  BY <1>1, <1>3, PartsAgree DEF DecodeL
<1>9. s \o q \in Seq(Plain)
  BY <1>2, <1>4
<1>10. QED
  BY <1>5, <1>6, <1>7, <1>8, <1>9

(* The layouts of encoding and of decoding, which the code has each on its *)
(* own (serialize.rs:333-499, 684-882), are the same.                      *)
LEMMA Layouts ==
  ASSUME NEW typ \in MsgTypes
  PROVE  /\ DecodeLayout(typ) = EncodeLayout(typ)
         /\ typ = "RReadDir" => EncodeLayout(typ) = <<"dirents">>
         /\ typ # "RReadDir" => EncodeLayout(typ) \in Seq(Plain)
<1>1. \A t \in TypesU : EncodeU(t) = DecodeU(t)
  BY PartsAgree DEF TypesU, EncodeU, DecodeU
<1>2. \A t \in Types9P : Encode9P(t) = Decode9P(t)
  BY PartsAgree DEF Types9P, Encode9P, Decode9P
<1>3. \A t \in TypesL \ {"RGetAttr"} : EncodeL(t) = DecodeL(t)
  BY PartsAgree DEF TypesL, EncodeL, DecodeL
<1>4. \A t \in TypesU : EncodeU(t) \in Seq(Plain)
  BY PartTypes, PlainKinds DEF TypesU, EncodeU
<1>5. \A t \in Types9P : Encode9P(t) \in Seq(Plain)
  BY PartTypes, PlainKinds DEF Types9P, Encode9P
<1>6. \A t \in TypesL \ {"RGetAttr", "RReadDir"} : EncodeL(t) \in Seq(Plain)
  BY PartTypes, PlainKinds DEF TypesL, EncodeL
<1>7. EncodeL("RReadDir") = <<"dirents">>
  BY DEF EncodeL
<1>8. CASE typ \in TypesL
  <2>1. typ \notin TypesU /\ typ \notin Types9P
    BY <1>8 DEF TypesL, TypesU, Types9P
  <2>2. EncodeLayout(typ) = EncodeL(typ) /\ DecodeLayout(typ) = DecodeL(typ)
    BY <1>8, <2>1 DEF EncodeLayout, DecodeLayout
  <2>3. EncodeL(typ) = DecodeL(typ)
    BY <1>3, <1>8, GetAttrLayout
  <2>4. typ # "RReadDir" => EncodeL(typ) \in Seq(Plain)
    BY <1>6, <1>8, GetAttrLayout
  <2>5. QED
    BY <1>7, <2>2, <2>3, <2>4
<1>9. CASE typ \in TypesU
  <2>1. typ \notin TypesL /\ typ \notin Types9P /\ typ # "RReadDir"
    BY <1>9 DEF TypesL, TypesU, Types9P
  <2>2. EncodeLayout(typ) = EncodeU(typ) /\ DecodeLayout(typ) = DecodeU(typ)
    BY <1>9, <2>1 DEF EncodeLayout, DecodeLayout
  <2>3. QED
    BY <1>1, <1>4, <1>9, <2>1, <2>2
<1>10. CASE typ \in Types9P
  <2>1. typ \notin TypesL /\ typ \notin TypesU /\ typ # "RReadDir"
    BY <1>10 DEF TypesL, TypesU, Types9P
  <2>2. EncodeLayout(typ) = Encode9P(typ) /\ DecodeLayout(typ) = Decode9P(typ)
    BY <1>10, <2>1 DEF EncodeLayout, DecodeLayout
  <2>3. QED
    BY <1>2, <1>5, <1>10, <2>1, <2>2
<1>11. QED
  BY <1>8, <1>9, <1>10 DEF MsgTypes

-----------------------------------------------------------------------------
(* Bodies of messages: one field after the other.                          *)

\* What DecBody goes through: one more field with each step.
BodySteps(f, d, layout, m) == f = [k \in 0..m |-> IF k = 0 THEN d ELSE DecodeField(f[k - 1], layout[k])]

\* There are such steps, however many fields.
LEMMA BodyStepsExist ==
  ASSUME NEW d, NEW layout, NEW n \in Nat
  PROVE  \E f : BodySteps(f, d, layout, n)
<1> DEFINE T == {m \in 0..n : \E f : BodySteps(f, d, layout, m)}
<1>1. 0 \in T
  <2>1. BodySteps([k \in 0..0 |-> d], d, layout, 0)
    BY DEF BodySteps
  <2>2. QED
    BY <2>1
<1>2. ASSUME NEW m \in 0..(n - 1), m \in T
      PROVE  m + 1 \in T
  <2>1. PICK f : BodySteps(f, d, layout, m)
    BY <1>2
  <2> DEFINE g == [k \in 0..(m + 1) |-> IF k = m + 1 THEN DecodeField(f[m], layout[k]) ELSE f[k]]
  <2>2. ASSUME NEW k \in 0..(m + 1)
        PROVE  g[k] = IF k = 0 THEN d ELSE DecodeField(g[k - 1], layout[k])
    BY <2>1, <2>2 DEF BodySteps
  <2>3. BodySteps(g, d, layout, m + 1)
    BY <2>2 DEF BodySteps
  <2> HIDE DEF g
  <2>4. QED
    BY <1>2, <2>3
<1>3. n \in T
  <2> HIDE DEF T
  <2>1. 0..n \subseteq T
    BY <1>1, <1>2, Intervals
  <2>2. QED
    BY <2>1
<1>4. QED
  BY <1>3

\* DecBody is the last decoder that its steps go through.
LEMMA BodyRun ==
  ASSUME NEW bytes, NEW layout, NEW n \in Nat, n = Len(layout)
  PROVE  \E at : DecBody(bytes, layout) = at[n] /\ BodySteps(at, Reader(bytes, 0, <<>>), layout, n)
<1>1. PICK d : d = Reader(bytes, 0, <<>>)
  OBVIOUS
<1> DEFINE at == CHOOSE f : BodySteps(f, d, layout, n)
<1>2. BodySteps(at, d, layout, n)
  BY BodyStepsExist
<1>3. DecBody(bytes, layout) = at[n]
  BY <1>1 DEF DecBody, BodySteps
<1> HIDE DEF at
<1>4. QED
  BY <1>1, <1>2, <1>3

\* Values for the fields of a layout.
AreValues(layout, vals) ==
  IsSeq(vals) /\ DOMAIN vals = DOMAIN layout /\ \A i \in DOMAIN vals : IsValue(layout[i], vals[i])

\* Their lengths fit.
AllFit(layout, vals) == \A i \in DOMAIN vals : FitsKind(layout[i], vals[i])

\* The bytes of a body, field by field.
EncAll(layout, vals) == [i \in DOMAIN vals |-> EncodeField(layout[i], vals[i])]

\* The bytes of each field are those of its kind.
LEMMA AllType ==
  ASSUME NEW layout \in Seq(Kinds), NEW vals, AreValues(layout, vals)
  PROVE  /\ EncAll(layout, vals) \in Seq(Seq(Byte)) /\ Len(EncAll(layout, vals)) = Len(layout)
         /\ Len(vals) = Len(layout) /\ First(vals, Len(layout)) = vals
         /\ \A i \in 1..Len(layout) :
              /\ layout[i] \in Kinds /\ IsValue(layout[i], vals[i])
              /\ EncAll(layout, vals)[i] = EncodeField(layout[i], vals[i])
<1>1. DOMAIN layout = 1..Len(layout) /\ Len(layout) \in Nat
  OBVIOUS
<1>2. DOMAIN vals = 1..Len(vals) /\ Len(vals) \in Nat /\ First(vals, Len(vals)) = vals
  BY ItemIsFirst DEF AreValues
<1>3. Len(vals) = Len(layout)
  <2>1. 1..Len(vals) = 1..Len(layout)
    BY <1>1, <1>2 DEF AreValues
  <2>2. PICK a \in Nat, b \in Nat : a = Len(vals) /\ b = Len(layout)
    BY <1>1, <1>2
  <2>3. 1..a = 1..b => a = b
    OBVIOUS
  <2>4. QED
    BY <2>1, <2>2, <2>3
<1>4. ASSUME NEW i \in 1..Len(layout)
      PROVE  /\ layout[i] \in Kinds /\ IsValue(layout[i], vals[i])
             /\ EncodeField(layout[i], vals[i]) \in Seq(Byte)
  <2>1. layout[i] \in Kinds
    OBVIOUS
  <2>2. IsValue(layout[i], vals[i])
    BY <1>1 DEF AreValues
  <2>3. QED
    BY <2>1, <2>2, FieldType
<1>5. PICK Y : Y = Seq(Byte)
  OBVIOUS
<1>6. EncAll(layout, vals) = [i \in 1..Len(layout) |-> EncodeField(layout[i], vals[i])]
  BY <1>1 DEF EncAll, AreValues
<1>7. EncAll(layout, vals) \in Seq(Y) /\ Len(EncAll(layout, vals)) = Len(layout)
  BY <1>1, <1>4, <1>5, <1>6
<1>8. QED
  BY <1>2, <1>3, <1>4, <1>5, <1>6, <1>7

(* A body is read as it was written, or its end is found.                  *)
LEMMA BodyRead ==
  ASSUME NEW bytes \in Seq(Byte), NEW layout \in Seq(Plain), NEW vals, AreValues(layout, vals),
         AllFit(layout, vals), Agrees(bytes, 0, FlattenSeq(EncAll(layout, vals)))
  PROVE  Whole(DecBody(bytes, layout), bytes, 0, FlattenSeq(EncAll(layout, vals)), vals)
<1>1. PICK n \in Nat : n = Len(layout)
  OBVIOUS
<1>2. layout \in Seq(Kinds) /\ \A i \in 1..n : layout[i] \in Kinds \ {"dirents"}
  BY <1>1 DEF Plain
<1>3. PICK enc \in Seq(Seq(Byte)) : enc = EncAll(layout, vals)
  BY <1>2, AllType
<1>4. PICK at : DecBody(bytes, layout) = at[n] /\ BodySteps(at, Reader(bytes, 0, <<>>), layout, n)
  BY <1>1, BodyRun
<1>5. at[0] = Reader(bytes, 0, <<>>) /\ \A k \in 1..n : at[k] = DecodeField(at[k - 1], layout[k])
  BY <1>4 DEF BodySteps
<1>6. \A k \in 1..n : at[k - 1] = Stuck => at[k] = Stuck
  BY <1>5, FieldStuck
<1>7. ASSUME NEW k \in 1..n, NEW p \in 0..Len(bytes),
             at[k - 1] = Reader(bytes, p, First(vals, k - 1)), Agrees(bytes, p, enc[k])
      PROVE  Outcome(at[k], bytes, p, First(vals, k - 1), enc[k], vals[k])
  <2>1. IsValue(layout[k], vals[k]) /\ enc[k] = EncodeField(layout[k], vals[k])
    BY <1>1, <1>2, <1>3, AllType
  <2>2. FitsKind(layout[k], vals[k])
    BY <1>1 DEF AllFit, AreValues
  <2>3. PICK before, kind, v : before = First(vals, k - 1) /\ kind = layout[k] /\ v = vals[k]
    OBVIOUS
  <2>4. kind \in Kinds \ {"dirents"}
    BY <1>2, <2>3
  <2>5. Outcome(DecodeField(Reader(bytes, p, before), kind), bytes, p, before, EncodeField(kind, v), v)
    BY <1>7, <2>1, <2>2, <2>3, <2>4, FieldRead
  <2>6. QED
    BY <1>5, <1>7, <2>1, <2>3, <2>5
<1>8. Len(enc) = n /\ Agrees(bytes, 0, FlattenSeq(enc))
  BY <1>1, <1>2, <1>3, AllType
<1>9. Follows(at, bytes, enc, vals, n)
  BY <1>6, <1>7 DEF Follows
<1>10. PICK pos \in 0..Len(bytes) : pos = 0
  OBVIOUS
<1>11. Whole(at[n], bytes, pos, FlattenSeq(enc), First(vals, n))
  BY <1>5, <1>8, <1>9, <1>10, ReadAll
<1>12. First(vals, n) = vals
  BY <1>1, <1>2, AllType
<1>13. QED
  BY <1>3, <1>4, <1>10, <1>11, <1>12

\* A body of one field is its bytes.
LEMMA FlatOne ==
  ASSUME NEW enc \in Seq(Seq(Byte)), Len(enc) = 1
  PROVE  FlattenSeq(enc) = enc[1]
<1>1. PICK flat : flat = FlattenSeq(enc)
  OBVIOUS
<1>2. PICK off : flat \in Seq(Byte) /\ IsFlat(flat, off, enc)
  BY <1>1, FlattenPlaces
<1>3. PICK e \in Seq(Byte) : e = enc[1]
  OBVIOUS
<1>4. off[0] = 0 /\ off[1] = off[0] + Len(e) /\ Len(flat) = off[1]
  <2>1. 1 \in 1..Len(enc)
    OBVIOUS
  <2>2. off[0] = 0 /\ off[1] = off[1 - 1] + Len(enc[1]) /\ Len(flat) = off[1]
    BY <1>2, <2>1 DEF IsFlat, Places
  <2>3. QED
    BY <1>3, <2>2
<1>5. ASSUME NEW j \in 1..Len(e)
      PROVE  flat[j] = e[j]
  <2>1. 1 \in 1..Len(enc) /\ j \in Nat /\ j \in 1..Len(enc[1])
    BY <1>3
  <2>2. flat[off[1 - 1] + j] = enc[1][j]
    BY <1>2, <2>1 DEF IsFlat
  <2>3. off[1 - 1] + j = j
    BY <1>4, <2>1
  <2>4. QED
    BY <1>3, <2>2, <2>3
<1>6. Len(flat) = Len(e)
  BY <1>3, <1>4
<1>7. flat = e
  BY <1>2, <1>5, <1>6, SameSeq
<1>8. QED
  BY <1>1, <1>3, <1>7

-----------------------------------------------------------------------------
(* Messages.                                                               *)

Body(m) == FlattenSeq(EncAll(EncodeLayout(m.typ), m.vals))

\* What a message is on the wire: its type, two bytes of its tag, its body.
IsFrame(e, m) ==
  /\ Len(e) = 3 + Len(Body(m)) /\ e[1] = m.typ
  /\ \A i \in 1..2 : e[1 + i] = Bytes(m.tag, 2)[i]
  /\ \A j \in 1..Len(Body(m)) : e[3 + j] = Body(m)[j]

\* w is what has come of e.
Begins(w, e, n) == Len(w) = n /\ n <= Len(e) /\ \A i \in 1..n : w[i] = e[i]

\* What a message is made of.
LEMMA MessageParts ==
  ASSUME NEW m, IsMessage(m)
  PROVE  /\ m.typ \in MsgTypes /\ m.tag \in Nat /\ InBytes(m.tag, 2)
         /\ EncodeLayout(m.typ) \in Seq(Kinds) /\ AreValues(EncodeLayout(m.typ), m.vals)
         /\ Body(m) \in Seq(Byte)
         /\ Fits(m) => AllFit(EncodeLayout(m.typ), m.vals)
<1>1. m.typ \in MsgTypes /\ m.tag \in Nat /\ InBytes(m.tag, 2)
  BY DEF IsMessage
<1>2. PICK layout : layout = EncodeLayout(m.typ)
  OBVIOUS
<1>3. layout \in Seq(Kinds)
  <2>1. CASE m.typ = "RReadDir"
    <3>1. layout = <<"dirents">>
      BY <1>1, <1>2, <2>1, Layouts
    <3>2. QED
      BY <3>1 DEF Kinds
  <2>2. CASE m.typ # "RReadDir"
    <3>1. layout \in Seq(Plain)
      BY <1>1, <1>2, <2>2, Layouts
    <3>2. QED
      BY <3>1 DEF Plain
  <2>3. QED
    BY <2>1, <2>2
<1>4. AreValues(layout, m.vals)
  BY <1>2 DEF IsMessage, AreValues
<1>5. EncAll(layout, m.vals) \in Seq(Seq(Byte))
  BY <1>3, <1>4, AllType
<1>6. Body(m) \in Seq(Byte)
  BY <1>2, <1>5, FlattenPlaces DEF Body
<1>7. Fits(m) => AllFit(layout, m.vals)
  BY <1>2 DEF Fits, AllFit
<1>8. QED
  BY <1>1, <1>2, <1>3, <1>4, <1>6, <1>7

\* A message is written as a frame.
LEMMA EncodeFrame ==
  ASSUME NEW m, IsMessage(m)
  PROVE  Encode(m) \in Seq(MsgTypes \cup Byte) /\ IsFrame(Encode(m), m)
<1>1. PICK X : X = MsgTypes \cup Byte
  OBVIOUS
<1>2. PICK t, a, flat : t = <<m.typ>> /\ a = Bytes(m.tag, 2) /\ flat = Body(m)
  OBVIOUS
<1>3. t \in Seq(X) /\ Len(t) = 1 /\ t[1] = m.typ
  BY <1>1, <1>2, MessageParts
<1>4. a \in Seq(X)
  <2>1. a \in Seq(Byte)
    BY <1>2, MessageParts, BytesType
  <2>2. QED
    BY <1>1, <2>1
<1>5. Len(a) = 2
  BY <1>2, MessageParts, BytesType
<1>6. flat \in Seq(X)
  BY <1>1, <1>2, MessageParts
<1>7. PICK c : c = t \o a
  OBVIOUS
<1>8. c \in Seq(X) /\ Len(c) = Len(t) + Len(a) /\ \A i \in 1..Len(t) : c[i] = t[i]
  <2>1. t \in Seq(X)
    BY <1>3
  <2>2. QED
    BY <1>4, <1>7, <2>1, Concat
<1>9. \A j \in 1..Len(a) : c[Len(t) + j] = a[j]
  <2>1. t \in Seq(X)
    BY <1>3
  <2>2. QED
    BY <1>4, <1>7, <2>1, Concat
<1>10. PICK e : e = c \o flat
  OBVIOUS
<1>11. /\ e \in Seq(X) /\ Len(e) = Len(c) + Len(flat)
       /\ \A i \in 1..Len(c) : e[i] = c[i]
       /\ \A j \in 1..Len(flat) : e[Len(c) + j] = flat[j]
  <2>1. c \in Seq(X)
    BY <1>8
  <2>2. QED
    BY <1>6, <1>10, <2>1, Concat
<1>12. e = Encode(m)
  BY <1>2, <1>7, <1>10 DEF Encode, Body, EncAll
<1>13. Len(c) = 3
  BY <1>3, <1>5, <1>8
<1>14. e[1] = m.typ
  BY <1>3, <1>8, <1>11, <1>13
<1>15. \A i \in 1..2 : e[1 + i] = a[i]
  BY <1>3, <1>5, <1>9, <1>11, <1>13
<1>16. QED
  BY <1>1, <1>2, <1>11, <1>12, <1>13, <1>14, <1>15 DEF IsFrame

\* What is made of a body of m that has been read.
Received(m, body) ==
  IF body.ok THEN [typ |-> m.typ, tag |-> m.tag, vals |-> body.vals] ELSE Failure

(* What read_msg sees of a message of which n bytes have come.             *)
LEMMA DecodeFrame ==
  ASSUME NEW m, IsMessage(m), NEW n \in Nat, n >= 3,
         NEW w \in Seq(MsgTypes \cup Byte), Begins(w, Encode(m), n)
  PROVE  \E bytes \in Seq(Byte) :
           /\ Len(bytes) = n - 3 /\ Agrees(bytes, 0, Body(m))
           /\ Decode(w) = Received(m, DecBody(bytes, EncodeLayout(m.typ)))
<1>1. PICK e : e = Encode(m) /\ e \in Seq(MsgTypes \cup Byte) /\ IsFrame(e, m)
  BY EncodeFrame
<1>2. PICK flat \in Seq(Byte) : flat = Body(m)
  BY MessageParts
<1>3. /\ Len(e) = 3 + Len(flat) /\ e[1] = m.typ
      /\ \A i \in 1..2 : e[1 + i] = Bytes(m.tag, 2)[i]
      /\ \A j \in 1..Len(flat) : e[3 + j] = flat[j]
  BY <1>1, <1>2 DEF IsFrame
<1>4. Len(w) = n /\ n <= 3 + Len(flat) /\ Len(flat) \in Nat /\ \A i \in 1..n : w[i] = e[i]
  BY <1>1, <1>3 DEF Begins
<1>5. PICK bytes : bytes = SubSeq(w, 4, Len(w))
  OBVIOUS
<1>6. bytes = [j \in 1..(n - 3) |-> w[3 + j]]
  BY <1>4, <1>5
<1>7. ASSUME NEW j \in 1..(n - 3)
      PROVE  w[3 + j] = flat[j] /\ flat[j] \in Byte
  <2>1. PICK i \in 1..n : i = 3 + j
    OBVIOUS
  <2>2. w[i] = e[i] /\ j \in 1..Len(flat)
    BY <1>4, <2>1
  <2>3. QED
    BY <1>3, <2>1, <2>2
<1>8. bytes \in Seq(Byte) /\ Len(bytes) = n - 3
  BY <1>6, <1>7
<1>9. \A j \in 1..(n - 3) : bytes[j] = flat[j]
  BY <1>6, <1>7
<1>10. Agrees(bytes, 0, flat)
  BY <1>8, <1>9 DEF Agrees
<1>11. w[1] = m.typ /\ w[1] \in MsgTypes /\ DecodeLayout(w[1]) = EncodeLayout(m.typ)
  <2>1. w[1] = m.typ
    BY <1>3, <1>4
  <2>2. QED
    BY <2>1, MessageParts, Layouts
<1>12. Number(SubSeq(w, 2, 3)) = m.tag
  <2>1. PICK s : s = SubSeq(w, 2, 3)
    OBVIOUS
  <2>2. PICK k \in Nat : k = 2
    OBVIOUS
  <2>3. Len(s) = 2 /\ s[1] = w[2] /\ s[2] = w[3]
    BY <1>4, <2>1
  <2>4. w[2] = Bytes(m.tag, 2)[1] /\ w[3] = Bytes(m.tag, 2)[2]
    <3>1. w[2] = e[2] /\ w[3] = e[3]
      BY <1>4
    <3>2. e[1 + 1] = Bytes(m.tag, 2)[1] /\ e[1 + 2] = Bytes(m.tag, 2)[2]
      BY <1>3
    <3>3. QED
      BY <3>1, <3>2
  <2>5. \A i \in 1..k : s[i] = Bytes(m.tag, k)[i]
    BY <2>2, <2>3, <2>4
  <2>6. Len(s) = k /\ InBytes(m.tag, k) /\ m.tag \in Nat
    BY <2>2, <2>3, MessageParts
  <2>7. Number(s) = m.tag
    BY <2>5, <2>6, NumberOfBytes
  <2>8. QED
    BY <2>1, <2>7
<1>13. Decode(w) = Received(m, DecBody(bytes, EncodeLayout(m.typ)))
  BY <1>4, <1>5, <1>11, <1>12 DEF Decode, Received
<1>14. QED
  BY <1>2, <1>8, <1>10, <1>13

\* The one field of an RReadDir.
LEMMA ReadDirBody ==
  ASSUME NEW m, IsMessage(m), m.typ = "RReadDir"
  PROVE  /\ EncodeLayout(m.typ) = <<"dirents">> /\ IsValue("dirents", m.vals[1])
         /\ Body(m) = EncodeField("dirents", m.vals[1])
<1>1. PICK layout : layout = EncodeLayout(m.typ)
  OBVIOUS
<1>2. layout = <<"dirents">>
  BY <1>1, MessageParts, Layouts
<1>3. Len(layout) = 1 /\ 1 \in 1..Len(layout) /\ layout[1] = "dirents"
  BY <1>2
<1>4. layout \in Seq(Kinds) /\ AreValues(layout, m.vals)
  BY <1>1, MessageParts
<1>5. PICK enc \in Seq(Seq(Byte)) : enc = EncAll(layout, m.vals)
  BY <1>4, AllType
<1>6. Len(enc) = 1
  BY <1>3, <1>4, <1>5, AllType
<1>7. IsValue(layout[1], m.vals[1]) /\ enc[1] = EncodeField(layout[1], m.vals[1])
  BY <1>3, <1>4, <1>5, AllType
<1>8. FlattenSeq(enc) = enc[1]
  BY <1>6, FlatOne
<1>9. QED
  BY <1>1, <1>2, <1>3, <1>5, <1>7, <1>8 DEF Body

(* What was written is read.                                               *)
LEMMA DecodeWhole ==
  ASSUME NEW m, IsMessage(m), Fits(m), m.typ # "RReadDir"
  PROVE  Decode(Encode(m)) = m
<1>1. PICK e : e = Encode(m) /\ e \in Seq(MsgTypes \cup Byte) /\ IsFrame(e, m)
  BY EncodeFrame
<1>2. PICK flat \in Seq(Byte) : flat = Body(m)
  BY MessageParts
<1>3. PICK n \in Nat : n = Len(e) /\ n = 3 + Len(flat) /\ n >= 3
  BY <1>1, <1>2 DEF IsFrame
<1>4. Begins(e, Encode(m), n)
  BY <1>1, <1>3 DEF Begins
<1>5. PICK bytes \in Seq(Byte) :
           /\ Len(bytes) = n - 3 /\ Agrees(bytes, 0, Body(m))
           /\ Decode(e) = Received(m, DecBody(bytes, EncodeLayout(m.typ)))
  BY <1>1, <1>3, <1>4, DecodeFrame
<1>6. PICK layout, body : layout = EncodeLayout(m.typ) /\ body = DecBody(bytes, layout)
  OBVIOUS
<1>7. layout \in Seq(Plain) /\ AreValues(layout, m.vals) /\ AllFit(layout, m.vals)
  BY <1>6, MessageParts, Layouts
<1>8. Whole(body, bytes, 0, FlattenSeq(EncAll(layout, m.vals)), m.vals)
  <2>1. Agrees(bytes, 0, FlattenSeq(EncAll(layout, m.vals)))
    BY <1>5, <1>6 DEF Body
  <2>2. Whole(DecBody(bytes, layout), bytes, 0, FlattenSeq(EncAll(layout, m.vals)), m.vals)
    BY <1>7, <2>1, BodyRead
  <2>3. QED
    BY <1>6, <2>2
<1>9. Whole(body, bytes, 0, flat, m.vals)
  BY <1>2, <1>6, <1>8 DEF Body
<1>10. 0 + Len(flat) <= Len(bytes)
  BY <1>3, <1>5
<1>11. body.ok /\ body.vals = m.vals
  BY <1>9, <1>10 DEF Whole, Reader
<1>12. Decode(e) = [typ |-> m.typ, tag |-> m.tag, vals |-> m.vals]
  BY <1>5, <1>6, <1>11 DEF Received
<1>13. QED
  BY <1>1, <1>12 DEF IsMessage

\* A number of bytes is a number.
LEMMA NumberType ==
  ASSUME NEW s \in Seq(Byte)
  PROVE  Number(s) \in Nat
<1>1. PICK n \in Nat : n = Len(s)
  OBVIOUS
<1>2. PICK at : Number(s) = at[n] /\ Sums(at, s, n)
  BY <1>1, NumberRun
<1> DEFINE T == {k \in 0..n : at[k] \in Nat}
<1>3. 0 \in T
  BY <1>2 DEF Sums
<1>4. ASSUME NEW k \in 0..(n - 1), k \in T
      PROVE  k + 1 \in T
  <2>1. PICK j \in 1..n : j = n - k /\ j = n + 1 - (k + 1)
    OBVIOUS
  <2>2. at[k + 1] = s[j] + Base * at[k]
    BY <1>1, <1>2, <2>1 DEF Sums
  <2>3. s[j] \in Nat /\ Base \in Nat
    BY <1>1, BaseAssumption DEF Byte
  <2>4. QED
    BY <1>4, <2>2, <2>3
<1>5. n \in T
  <2> HIDE DEF T
  <2>1. 0..n \subseteq T
    BY <1>3, <1>4, Intervals
  <2>2. QED
    BY <2>1
<1>6. QED
  BY <1>2, <1>5

\* d has come to p at least, or has failed.
Ahead(d, bytes, p) == d = Stuck \/ \E q, vs : q \in Nat /\ p <= q /\ q <= Len(bytes) /\ d = Reader(bytes, q, vs)

\* A scalar takes a byte at least.
LEMMA ScalarTakes ==
  ASSUME NEW bytes \in Seq(Byte), NEW p \in Nat, NEW d, Ahead(d, bytes, p), NEW kind \in Scalars
  PROVE  Ahead(DecScalar(d, kind), bytes, p + 1)
<1>1. CASE d = Stuck
  BY <1>1, ScalarStuck DEF Ahead
<1>2. CASE d # Stuck
  <2>1. PICK q, vs : q \in Nat /\ p <= q /\ q <= Len(bytes) /\ d = Reader(bytes, q, vs)
    BY <1>2 DEF Ahead
  <2>2. d.ok /\ d.bytes = bytes /\ d.pos = q /\ d.vals = vs
    BY <2>1 DEF Reader
  <2>3. ASSUME NEW n \in Nat \ {0}, NEW v, Has(d, n)
        PROVE  Ahead(Got(d, v, n), bytes, p + 1)
    <3>1. PICK r \in Nat : r = q + n /\ p + 1 <= r /\ r <= Len(bytes)
      BY <2>1, <2>2, <2>3 DEF Has
    <3>2. Got(d, v, n) = Reader(bytes, r, Append(vs, v))
      BY <2>2, <3>1 DEF Got
    <3>3. QED
      BY <3>1, <3>2 DEF Ahead
  <2>4. CASE kind = "str"
    <3>1. DecScalar(d, kind) = DecBytes(d, 2)
      BY <2>4 DEF DecScalar
    <3>2. CASE ~Has(d, 2) \/ ~Has(d, 2 + Peek(d, 2))
      BY <3>1, <3>2 DEF DecBytes, Ahead
    <3>3. CASE Has(d, 2) /\ Has(d, 2 + Peek(d, 2))
      <4>1. PICK s : s = SubSeq(d.bytes, d.pos + 1, d.pos + 2)
        OBVIOUS
      <4>2. s \in Seq(Byte)
        <5>1. q + 2 <= Len(bytes)
          BY <2>2, <3>3 DEF Has
        <5>2. s = SubSeq(bytes, q + 1, q + 2)
          BY <2>2, <4>1
        <5>3. QED
          BY <2>1, <5>1, <5>2
      <4>3. Peek(d, 2) \in Nat
        BY <4>1, <4>2, NumberType DEF Peek
      <4>4. PICK n \in Nat \ {0} : n = 2 + Peek(d, 2) /\ Has(d, n)
        BY <3>3, <4>3
      <4>5. PICK v : DecBytes(d, 2) = Got(d, v, n)
        BY <3>3, <4>4 DEF DecBytes
      <4>6. QED
        BY <2>3, <3>1, <4>4, <4>5
    <3>4. QED
      BY <3>2, <3>3
  <2>5. CASE kind \in IntKinds
    <3>1. PICK w \in Nat \ {0} : w = Width[kind] /\ kind # "str"
      BY <2>5, Widths
    <3>2. CASE ~Has(d, w)
      BY <3>1, <3>2 DEF DecScalar, Ahead
    <3>3. CASE Has(d, w)
      <4>1. PICK v : DecScalar(d, kind) = Got(d, v, w)
        BY <3>1, <3>3 DEF DecScalar
      <4>2. QED
        BY <2>3, <3>3, <4>1
    <3>4. QED
      BY <3>2, <3>3
  <2>6. QED
    BY <2>4, <2>5 DEF Scalars
<1>3. QED
  BY <1>1, <1>2

\* A structure takes as many bytes as it has fields, at least.
LEMMA FieldsTake ==
  ASSUME NEW bytes \in Seq(Byte), NEW p \in Nat, NEW d, Ahead(d, bytes, p), NEW layout \in Seq(Scalars)
  PROVE  Ahead(DecFields(d, layout), bytes, p + Len(layout))
<1>1. PICK n \in Nat : n = Len(layout)
  OBVIOUS
<1>2. PICK at : DecFields(d, layout) = at[n] /\ FieldSteps(at, d, layout, n)
  BY <1>1, FieldsRun
<1>3. at[0] = d /\ \A k \in 1..n : at[k] = DecScalar(at[k - 1], layout[k])
  BY <1>2 DEF FieldSteps
<1> DEFINE T == {k \in 0..n : Ahead(at[k], bytes, p + k)}
<1>4. 0 \in T
  BY <1>3
<1>5. ASSUME NEW m \in 0..(n - 1), m \in T
      PROVE  m + 1 \in T
  <2>1. PICK k \in 1..n : k = m + 1 /\ k - 1 = m
    OBVIOUS
  <2>2. PICK q \in Nat, kind \in Scalars : q = p + m /\ kind = layout[k] /\ p + k = q + 1
    BY <1>1, <2>1
  <2>3. PICK e : e = at[m] /\ Ahead(e, bytes, q)
    BY <1>5, <2>2
  <2>4. Ahead(DecScalar(e, kind), bytes, q + 1)
    BY <2>3, ScalarTakes
  <2>5. Ahead(at[k], bytes, p + k)
    BY <1>3, <2>1, <2>2, <2>3, <2>4
  <2>6. QED
    BY <2>1, <2>5
<1>6. n \in T
  <2> HIDE DEF T
  <2>1. 0..n \subseteq T
    BY <1>4, <1>5, Intervals
  <2>2. QED
    BY <2>1
<1>7. QED
  BY <1>1, <1>2, <1>6

\* So does an item.
LEMMA ItemTakes ==
  ASSUME NEW bytes \in Seq(Byte), NEW p \in Nat, NEW d, Ahead(d, bytes, p), NEW layout \in Seq(Scalars)
  PROVE  Ahead(DecItem(d, layout), bytes, p + Len(layout))
<1>1. CASE d = Stuck
  BY <1>1, ItemStuck DEF Ahead
<1>2. CASE d # Stuck
  <2>1. PICK q, vs : q \in Nat /\ p <= q /\ q <= Len(bytes) /\ d = Reader(bytes, q, vs)
    BY <1>2 DEF Ahead
  <2>2. d.ok /\ d.bytes = bytes /\ d.pos = q /\ d.vals = vs
    BY <2>1 DEF Reader
  <2>3. PICK r, item : r = Reader(bytes, q, <<>>) /\ item = DecFields(r, layout)
    OBVIOUS
  <2>4. Ahead(r, bytes, p)
    BY <2>1, <2>3 DEF Ahead
  <2>5. Ahead(item, bytes, p + Len(layout))
    BY <2>3, <2>4, FieldsTake
  <2>6. DecItem(d, layout) = IF item.ok THEN Reader(bytes, item.pos, Append(vs, item.vals)) ELSE Stuck
    BY <2>2, <2>3 DEF DecItem
  <2>7. CASE item = Stuck
    <3>1. ~item.ok
      BY <2>7 DEF Stuck
    <3>2. QED
      BY <2>6, <3>1 DEF Ahead
  <2>8. CASE item # Stuck
    <3>1. PICK t, us : t \in Nat /\ p + Len(layout) <= t /\ t <= Len(bytes) /\ item = Reader(bytes, t, us)
      BY <2>5, <2>8 DEF Ahead
    <3>2. item.ok /\ item.pos = t
      BY <3>1 DEF Reader
    <3>3. PICK ws : DecItem(d, layout) = Reader(bytes, t, ws)
      BY <2>6, <3>2
    <3>4. QED
      BY <3>1, <3>3 DEF Ahead
  <2>9. QED
    BY <2>7, <2>8
<1>3. QED
  BY <1>1, <1>2

(* The entries of a directory, all of them there: the count of their bytes *)
(* is taken for that of entries, of which there are fewer.                 *)
LEMMA EntriesWhole ==
  ASSUME NEW v, IsValue("dirents", v), NEW bytes, bytes = EncodeField("dirents", v)
  PROVE  DecodeField(Reader(bytes, 0, <<>>), "dirents") =
           IF v = <<>> THEN Reader(bytes, Len(bytes), <<v>>) ELSE Stuck
<1>1. PICK n \in Nat : n = DirSize(v)
  BY EntriesType
<1>2. bytes \in Seq(Byte) /\ InBytes(n, 4) /\ Len(bytes) = 4 + n /\ \A i \in 1..4 : bytes[i] = Bytes(n, 4)[i]
  BY <1>1, EntriesType
<1>3. PICK d : d = Reader(bytes, 0, <<>>)
  OBVIOUS
<1>4. d.ok /\ d.bytes = bytes /\ d.pos = 0 /\ d.vals = <<>>
  BY <1>3 DEF Reader
<1>5. PICK layout : layout = EncDirEntry /\ layout = DecDirEntry
  BY ItemLayouts
<1>6. layout \in Seq(Scalars) /\ Len(layout) = 6 /\ IsVec(layout, v)
  BY <1>5, ItemLayouts, KindsDiffer
<1>7. Peek(d, 4) = n
  <2>1. PICK w \in Nat \ {0}, pos \in 0..Len(bytes) : w = 4 /\ pos = 0
    BY <1>2
  <2>2. PICK a : a = Bytes(n, w)
    OBVIOUS
  <2>3. Len(a) = w
    BY <2>2, BytesType
  <2>4. \A j \in 1..Len(a) : bytes[pos + j] = a[j]
    BY <1>2, <2>1, <2>2, <2>3
  <2>5. Agrees(bytes, pos, Bytes(n, w))
    BY <2>2, <2>4 DEF Agrees
  <2>6. InBytes(n, w) /\ pos + w <= Len(bytes)
    BY <1>2, <2>1
  <2>7. Peek(Reader(bytes, pos, <<>>), w) = n
    BY <1>2, <2>5, <2>6, PeekNumber
  <2>8. QED
    BY <1>3, <2>1, <2>7
<1>8. Has(d, 4) /\ Has(d, 4 + n)
  BY <1>2, <1>4 DEF Has
<1>9. DecodeField(d, "dirents") = DecItems(d, 4, layout)
  BY <1>5 DEF DecodeField
<1>10. PICK at : /\ ItemSteps(at, Reader(bytes, 4, <<>>), layout, n)
                 /\ DecItems(d, 4, layout) =
                      IF at[n].ok THEN Reader(bytes, at[n].pos, Append(<<>>, at[n].vals)) ELSE Stuck
  <2>1. PICK w : w = 4
    OBVIOUS
  <2>2. Has(d, w) /\ Peek(d, w) = n /\ Has(d, w + n)
    BY <1>7, <1>8, <2>1
  <2>3. PICK at : /\ ItemSteps(at, Reader(d.bytes, d.pos + w, <<>>), layout, n)
                  /\ DecItems(d, w, layout) =
                       IF at[n].ok THEN Reader(d.bytes, at[n].pos, Append(d.vals, at[n].vals)) ELSE Stuck
    BY <2>2, ItemsRun
  <2>4. d.pos + w = 4
    BY <1>4, <2>1
  <2>5. QED
    BY <1>4, <2>1, <2>3, <2>4
<1>11. at[0] = Reader(bytes, 4, <<>>) /\ \A k \in 1..n : at[k] = DecItem(at[k - 1], layout)
  BY <1>10 DEF ItemSteps
<1>12. Len(v) \in Nat /\ Len(v) <= n
  <2>1. PICK enc \in Seq(Seq(Byte)) : enc = EncItems(layout, v)
    BY <1>6, ItemsType
  <2>2. Len(enc) = Len(v) /\ Len(v) \in Nat /\ \A i \in 1..Len(enc) : Len(enc[i]) >= 1
    <3>1. Len(layout) >= 1
      BY <1>6
    <3>2. Len(enc) = Len(v) /\ Len(v) \in Nat /\ \A i \in 1..Len(v) : Len(enc[i]) >= 1
      BY <1>6, <2>1, <3>1, ItemsType
    <3>3. QED
      BY <3>2
  <2>3. Len(FlattenSeq(enc)) >= Len(enc)
    BY <2>2, FlatIsLonger
  <2>4. Len(FlattenSeq(enc)) = n
    BY <1>1, <1>5, <1>6, <2>1, DirSizeIsLength
  <2>5. QED
    BY <2>2, <2>3, <2>4
<1>13. IsSeq(v)
  BY <1>6 DEF IsVec
<1>14. CASE n = 0
  <2>1. Len(v) = 0
    BY <1>12, <1>14
  <2>2. v = <<>>
    BY <1>13, <2>1 DEF IsSeq
  <2>3. at[n].ok /\ at[n].pos = 4 /\ at[n].vals = <<>>
    BY <1>11, <1>14 DEF Reader
  <2>4. Append(<<>>, at[n].vals) = <<v>> /\ Len(bytes) = 4
    BY <1>2, <1>14, <2>2, <2>3
  <2>5. QED
    BY <1>3, <1>9, <1>10, <2>2, <2>3, <2>4
<1>15. CASE n # 0
  <2>1. v # <<>>
    <3>1. ASSUME v = <<>>
          PROVE  FALSE
      <4>1. PICK s : SizeSteps(s, v, 0) /\ DirSize(v) = s[0]
        BY <3>1, SizeRun
      <4>2. s[0] = 0
        BY <4>1 DEF SizeSteps
      <4>3. QED
        BY <1>1, <1>15, <4>1, <4>2
    <3>2. QED
      BY <3>1
  <2> DEFINE T == {k \in 0..n : Ahead(at[k], bytes, 4 + 6 * k)}
  <2>2. 0 \in T
    <3>1. PICK p \in Nat : p = 4 /\ p <= Len(bytes)
      BY <1>2
    <3>2. Ahead(Reader(bytes, p, <<>>), bytes, p)
      BY <3>1 DEF Ahead
    <3>3. 4 + 6 * 0 = p
      BY <3>1
    <3>4. QED
      BY <1>11, <3>1, <3>2, <3>3
  <2>3. ASSUME NEW m \in 0..(n - 1), m \in T
        PROVE  m + 1 \in T
    <3>1. PICK k \in 1..n : k = m + 1 /\ k - 1 = m
      OBVIOUS
    <3>2. PICK q \in Nat : q = 4 + 6 * m
      OBVIOUS
    <3>3. PICK e : e = at[m] /\ Ahead(e, bytes, q)
      BY <2>3, <3>2
    <3>4. Ahead(DecItem(e, layout), bytes, q + Len(layout))
      BY <1>2, <1>6, <3>3, ItemTakes
    <3>5. q + Len(layout) = 4 + 6 * k
      BY <1>6, <3>1, <3>2
    <3>6. at[k] = DecItem(e, layout)
      BY <1>11, <3>1, <3>3
    <3>7. QED
      BY <3>1, <3>4, <3>5, <3>6
  <2>4. n \in T
    <3> HIDE DEF T
    <3>1. 0..n \subseteq T
      BY <2>2, <2>3, Intervals
    <3>2. QED
      BY <3>1
  <2>5. ~(4 + 6 * n <= Len(bytes))
    BY <1>2, <1>15
  <2>6. at[n] = Stuck
    BY <2>4, <2>5 DEF Ahead
  <2>7. ~at[n].ok
    BY <2>6 DEF Stuck
  <2>8. QED
    BY <1>3, <1>9, <1>10, <2>1, <2>7
<1>16. QED
  BY <1>14, <1>15

(* An RReadDir is read if it has no entries, and is an error if it has.    *)
LEMMA DecodeReadDir ==
  ASSUME NEW m, IsMessage(m), m.typ = "RReadDir"
  PROVE  Decode(Encode(m)) = IF m.vals[1] = <<>> THEN m ELSE Failure
<1>1. PICK e : e = Encode(m) /\ e \in Seq(MsgTypes \cup Byte) /\ IsFrame(e, m)
  BY EncodeFrame
<1>2. PICK flat \in Seq(Byte) : flat = Body(m)
  BY MessageParts
<1>3. PICK n \in Nat : n = Len(e) /\ n = 3 + Len(flat) /\ n >= 3
  BY <1>1, <1>2 DEF IsFrame
<1>4. Begins(e, Encode(m), n)
  BY <1>1, <1>3 DEF Begins
<1>5. PICK bytes \in Seq(Byte) :
           /\ Len(bytes) = n - 3 /\ Agrees(bytes, 0, Body(m))
           /\ Decode(e) = Received(m, DecBody(bytes, EncodeLayout(m.typ)))
  BY <1>1, <1>3, <1>4, DecodeFrame
<1>6. bytes = flat
  <2>1. Len(bytes) = Len(flat) /\ Len(flat) \in Nat
    BY <1>3, <1>5
  <2>2. \A j \in 1..Len(flat) : bytes[j] = flat[j]
    BY <1>2, <1>5, <2>1 DEF Agrees
  <2>3. QED
    BY <2>1, <2>2, SameSeq
<1>7. PICK layout, body : layout = EncodeLayout(m.typ) /\ body = DecBody(flat, layout)
  OBVIOUS
<1>8. PICK v : v = m.vals[1]
  OBVIOUS
<1>9. layout = <<"dirents">> /\ IsValue("dirents", v) /\ flat = EncodeField("dirents", v)
  BY <1>2, <1>7, <1>8, ReadDirBody
<1>10. PICK k \in Nat : k = 1 /\ k = Len(layout) /\ layout[1] = "dirents"
  BY <1>9
<1>11. PICK at : DecBody(flat, layout) = at[k] /\ BodySteps(at, Reader(flat, 0, <<>>), layout, k)
  BY <1>10, BodyRun
<1>12. at[0] = Reader(flat, 0, <<>>) /\ at[1] = DecodeField(at[0], layout[1])
  <2>1. 0 \in 0..k /\ 1 \in 0..k
    BY <1>10
  <2>2. at = [i \in 0..k |-> IF i = 0 THEN Reader(flat, 0, <<>>) ELSE DecodeField(at[i - 1], layout[i])]
    BY <1>11 DEF BodySteps
  <2>3. at[0] = Reader(flat, 0, <<>>) /\ at[1] = DecodeField(at[1 - 1], layout[1])
    BY <2>1, <2>2
  <2>4. QED
    BY <2>3
<1>13. body = DecodeField(Reader(flat, 0, <<>>), "dirents")
  BY <1>7, <1>10, <1>11, <1>12
<1>14. body = IF v = <<>> THEN Reader(flat, Len(flat), <<v>>) ELSE Stuck
  BY <1>9, <1>13, EntriesWhole
<1>15. Decode(e) = IF body.ok THEN [typ |-> m.typ, tag |-> m.tag, vals |-> body.vals] ELSE Failure
  BY <1>5, <1>6, <1>7 DEF Received
<1>16. CASE v = <<>>
  <2>1. body.ok /\ body.vals = <<v>>
    BY <1>14, <1>16 DEF Reader
  <2>2. m.vals = <<v>>
    <3>1. Len(m.vals) = 1 /\ IsSeq(m.vals)
      <4>1. layout \in Seq(Kinds) /\ AreValues(layout, m.vals)
        BY <1>7, MessageParts
      <4>2. Len(m.vals) = Len(layout)
        BY <4>1, AllType
      <4>3. QED
        BY <1>10, <4>1, <4>2 DEF AreValues
    <3>2. m.vals = [i \in 1..1 |-> m.vals[i]]
      BY <3>1 DEF IsSeq
    <3>3. QED
      BY <1>8, <3>2
  <2>3. Decode(e) = [typ |-> m.typ, tag |-> m.tag, vals |-> m.vals]
    BY <1>15, <2>1, <2>2
  <2>4. QED
    BY <1>1, <1>8, <1>16, <2>3 DEF IsMessage
<1>17. CASE v # <<>>
  <2>1. ~body.ok
    BY <1>14, <1>17 DEF Stuck
  <2>2. QED
    BY <1>1, <1>8, <1>15, <1>17, <2>1
<1>18. QED
  BY <1>16, <1>17

(* What was cut short is an error.                                         *)
LEMMA DecodeCut ==
  ASSUME NEW m, IsMessage(m), Fits(m), NEW n \in Nat, n < Len(Encode(m)),
         NEW w, w = SubSeq(Encode(m), 1, n)
  PROVE  Decode(w) = Failure
<1>1. PICK e : e = Encode(m) /\ e \in Seq(MsgTypes \cup Byte) /\ IsFrame(e, m)
  BY EncodeFrame
<1>2. PICK flat \in Seq(Byte) : flat = Body(m)
  BY MessageParts
<1>3. n < Len(e) /\ Len(e) \in Nat /\ Len(e) = 3 + Len(flat) /\ Len(flat) \in Nat
  BY <1>1, <1>2 DEF IsFrame
<1>4. w \in Seq(MsgTypes \cup Byte) /\ Len(w) = n /\ \A i \in 1..n : w[i] = e[i]
  <2>1. PICK X : X = MsgTypes \cup Byte
    OBVIOUS
  <2>2. e \in Seq(X) /\ w = SubSeq(e, 1, n)
    BY <1>1, <2>1
  <2>3. w = [i \in 1..n |-> e[i]]
    BY <1>3, <2>2
  <2>4. \A i \in 1..n : e[i] \in X
    BY <1>3, <2>2
  <2>5. QED
    BY <2>1, <2>3, <2>4
<1>5. Begins(w, Encode(m), n)
  BY <1>1, <1>3, <1>4 DEF Begins
<1>6. CASE n < 3
  BY <1>4, <1>6 DEF Decode
<1>7. CASE n >= 3
  <2>1. PICK bytes \in Seq(Byte) :
             /\ Len(bytes) = n - 3 /\ Agrees(bytes, 0, Body(m))
             /\ Decode(w) = Received(m, DecBody(bytes, EncodeLayout(m.typ)))
    BY <1>4, <1>5, <1>7, DecodeFrame
  <2>2. PICK layout, body : layout = EncodeLayout(m.typ) /\ body = DecBody(bytes, layout)
    OBVIOUS
  <2>3. 0 + Len(flat) > Len(bytes)
    BY <1>3, <1>7, <2>1
  <2>4. CASE m.typ # "RReadDir"
    <3>1. layout \in Seq(Plain) /\ AreValues(layout, m.vals) /\ AllFit(layout, m.vals)
      BY <2>2, <2>4, MessageParts, Layouts
    <3>2. Agrees(bytes, 0, FlattenSeq(EncAll(layout, m.vals)))
      BY <2>1, <2>2 DEF Body
    <3>3. Whole(DecBody(bytes, layout), bytes, 0, FlattenSeq(EncAll(layout, m.vals)), m.vals)
      BY <3>1, <3>2, BodyRead
    <3>4. Whole(body, bytes, 0, flat, m.vals)
      BY <1>2, <2>2, <3>3 DEF Body
    <3>5. body = Stuck
      BY <2>3, <3>4 DEF Whole
    <3>6. QED
      BY <2>1, <2>2, <3>5 DEF Stuck, Received
  <2>5. CASE m.typ = "RReadDir"
    <3>1. PICK v : v = m.vals[1]
      OBVIOUS
    <3>2. layout = <<"dirents">> /\ IsValue("dirents", v) /\ flat = EncodeField("dirents", v)
      BY <1>2, <2>2, <2>5, <3>1, ReadDirBody
    <3>3. PICK k \in Nat : k = 1 /\ k = Len(layout) /\ layout[1] = "dirents"
      BY <3>2
    <3>4. PICK at : DecBody(bytes, layout) = at[k] /\ BodySteps(at, Reader(bytes, 0, <<>>), layout, k)
      BY <3>3, BodyRun
    <3>5. at[0] = Reader(bytes, 0, <<>>) /\ at[1] = DecodeField(at[0], layout[1])
      <4>1. 0 \in 0..k /\ 1 \in 0..k
        BY <3>3
      <4>2. at = [i \in 0..k |-> IF i = 0 THEN Reader(bytes, 0, <<>>) ELSE DecodeField(at[i - 1], layout[i])]
        BY <3>4 DEF BodySteps
      <4>3. at[0] = Reader(bytes, 0, <<>>) /\ at[1] = DecodeField(at[1 - 1], layout[1])
        BY <4>1, <4>2
      <4>4. QED
        BY <4>3
    <3>6. PICK pos \in 0..Len(bytes) : pos = 0
      OBVIOUS
    <3>7. Agrees(bytes, pos, flat) /\ pos + Len(flat) > Len(bytes)
      BY <1>2, <2>1, <2>3, <3>6
    <3>8. DecodeField(Reader(bytes, pos, <<>>), "dirents") = Stuck
      BY <3>2, <3>7, EntriesCut
    <3>9. body = Stuck
      BY <2>2, <3>3, <3>4, <3>5, <3>6, <3>8
    <3>10. QED
      BY <2>1, <2>2, <3>9 DEF Stuck, Received
  <2>6. QED
    BY <2>4, <2>5
<1>8. QED
  BY <1>3, <1>6, <1>7

(* The count of an RReadDir.                                               *)
LEMMA CountOfEntries ==
  ASSUME NEW m, IsMessage(m), m.typ = "RReadDir"
  PROVE  Number(SubSeq(Encode(m), 4, 7)) = Len(Encode(m)) - 7
<1>1. PICK e : e = Encode(m) /\ e \in Seq(MsgTypes \cup Byte) /\ IsFrame(e, m)
  BY EncodeFrame
<1>2. PICK flat \in Seq(Byte) : flat = Body(m)
  BY MessageParts
<1>3. PICK v : v = m.vals[1]
  OBVIOUS
<1>4. IsValue("dirents", v) /\ flat = EncodeField("dirents", v)
  BY <1>2, <1>3, ReadDirBody
<1>5. PICK n \in Nat : n = DirSize(v)
  BY <1>4, EntriesType
<1>6. InBytes(n, 4) /\ Len(flat) = 4 + n /\ \A i \in 1..4 : flat[i] = Bytes(n, 4)[i]
  BY <1>4, <1>5, EntriesType
<1>7. Len(e) = 3 + Len(flat) /\ \A j \in 1..Len(flat) : e[3 + j] = flat[j]
  BY <1>1, <1>2 DEF IsFrame
<1>8. PICK s : s = SubSeq(e, 4, 7)
  OBVIOUS
<1>9. Len(s) = 4 /\ \A i \in 1..4 : s[i] = e[3 + i]
  <2>1. Len(e) \in Nat /\ Len(e) >= 7
    BY <1>6, <1>7
  <2>2. s = [i \in 1..4 |-> e[3 + i]]
    BY <1>1, <1>8, <2>1
  <2>3. QED
    BY <2>2
<1>10. \A i \in 1..4 : s[i] = Bytes(n, 4)[i]
  BY <1>6, <1>7, <1>9
<1>11. PICK w \in Nat : w = 4
  OBVIOUS
<1>12. InBytes(n, w) /\ Len(s) = w /\ \A i \in 1..w : s[i] = Bytes(n, w)[i]
  BY <1>6, <1>9, <1>10, <1>11
<1>13. Number(s) = n
  BY <1>12, NumberOfBytes
<1>14. QED
  BY <1>1, <1>6, <1>7, <1>8, <1>13

-----------------------------------------------------------------------------
(* The specification.                                                      *)

(* What has been sent is the message, what was cut is the beginning of it, *)
(* and what was read is what the wire held.                                *)
CodecInv ==
  /\ msg \in Samples /\ stage \in {"new", "sent", "cut", "read", "readCut"}
  /\ stage \in {"sent", "read"} => wire = Encode(msg)
  /\ stage \in {"cut", "readCut"} =>
       \E n \in 0..(Len(Encode(msg)) - 1) : wire = SubSeq(Encode(msg), 1, n)
  /\ stage \in {"read", "readCut"} => got = Decode(wire)

(* The invariant holds of write_msg, of a frame cut short and of read_msg  *)
(* (serialize.rs:890-897).                                                 *)
LEMMA CodecInvariant == Spec => []CodecInv
<1>1. Init => CodecInv
  BY DEF Init, CodecInv
<1>2. CodecInv /\ [Next]_vars => CodecInv'
  <2> SUFFICES ASSUME CodecInv, [Next]_vars PROVE CodecInv'
    OBVIOUS
  <2>1. CASE write_msg
    BY <2>1 DEF CodecInv, write_msg
  <2>2. ASSUME NEW n \in 0..(Len(wire) - 1), Cut(n)
        PROVE  CodecInv'
    <3>1. wire = Encode(msg) /\ msg' = msg /\ stage' = "cut" /\ wire' = SubSeq(wire, 1, n) /\ n < Len(wire)
      BY <2>2 DEF CodecInv, Cut
    <3>2. n \in 0..(Len(Encode(msg)) - 1)
      BY <2>2, <3>1
    <3>3. QED
      BY <3>1, <3>2 DEF CodecInv
  <2>3. CASE read_msg
    BY <2>3 DEF CodecInv, read_msg
  <2>4. CASE UNCHANGED vars
    BY <2>4 DEF CodecInv, vars
  <2>5. QED
    BY <2>1, <2>2, <2>3, <2>4 DEF Next
<1>3. QED
  BY <1>1, <1>2, PTL DEF Spec

(* What read_msg makes of what write_msg wrote is the message, for every   *)
(* message whose lengths fit, the entries of a directory excepted.         *)
THEOREM RoundTripHolds == Spec => []RoundTrip
<1>1. CodecInv => RoundTrip
  <2> SUFFICES ASSUME CodecInv, stage = "read", msg.typ # "RReadDir", Fits(msg) PROVE got = msg
    BY DEF RoundTrip
  <2>1. IsMessage(msg) /\ got = Decode(Encode(msg))
    BY SamplesAssumption DEF CodecInv
  <2>2. QED
    BY <2>1, DecodeWhole
<1>2. QED
  BY <1>1, CodecInvariant, PTL

(* No frame that is too short for its message is taken for another one.    *)
THEOREM CutIsAnErrorHolds == Spec => []CutIsAnError
<1>1. CodecInv => CutIsAnError
  <2> SUFFICES ASSUME CodecInv, stage = "readCut", Fits(msg) PROVE got = Failure
    BY DEF CutIsAnError
  <2>1. IsMessage(msg) /\ got = Decode(wire)
    BY SamplesAssumption DEF CodecInv
  <2>2. PICK n \in 0..(Len(Encode(msg)) - 1) : wire = SubSeq(Encode(msg), 1, n)
    BY DEF CodecInv
  <2>3. n \in Nat /\ n < Len(Encode(msg))
    <3>1. Len(Encode(msg)) \in Nat
      BY <2>1, EncodeFrame
    <3>2. QED
      BY <3>1
  <2>4. QED
    BY <2>1, <2>2, <2>3, DecodeCut
<1>2. QED
  BY <1>1, CodecInvariant, PTL

(* The count of an RReadDir is of the bytes that follow it.                *)
THEOREM ReadDirCountsBytesHolds == Spec => []ReadDirCountsBytes
<1>1. CodecInv => ReadDirCountsBytes
  <2> SUFFICES ASSUME CodecInv, stage = "sent", msg.typ = "RReadDir"
               PROVE  Number(SubSeq(wire, 4, 7)) = Len(wire) - 7
    BY DEF ReadDirCountsBytes
  <2>1. IsMessage(msg) /\ wire = Encode(msg)
    BY SamplesAssumption DEF CodecInv
  <2>2. QED
    BY <2>1, CountOfEntries
<1>2. QED
  BY <1>1, CodecInvariant, PTL

(* What the count of bytes comes to: an RReadDir with entries is never     *)
(* read, whatever they are (fcall.rs:449-457; serialize.rs:622-631).       *)
THEOREM ReadDirIsReadOnlyEmpty ==
  Spec => [](stage = "read" /\ msg.typ = "RReadDir" => got = IF msg.vals[1] = <<>> THEN msg ELSE Failure)
<1>1. CodecInv => (stage = "read" /\ msg.typ = "RReadDir" => got = IF msg.vals[1] = <<>> THEN msg ELSE Failure)
  <2> SUFFICES ASSUME CodecInv, stage = "read", msg.typ = "RReadDir"
               PROVE  got = IF msg.vals[1] = <<>> THEN msg ELSE Failure
    OBVIOUS
  <2>1. IsMessage(msg) /\ got = Decode(Encode(msg))
    BY SamplesAssumption DEF CodecInv
  <2>2. QED
    BY <2>1, DecodeReadDir
<1>2. QED
  BY <1>1, CodecInvariant, PTL

(* An RReadDir is read as itself or not at all.                            *)
THEOREM ReadDirIsNeverAnother == Spec => []ReadDirNeverOther
<1>1. CodecInv => ReadDirNeverOther
  <2> SUFFICES ASSUME CodecInv, stage = "read", msg.typ = "RReadDir" PROVE got \in {msg, Failure}
    BY DEF ReadDirNeverOther
  <2>1. IsMessage(msg) /\ got = Decode(Encode(msg))
    BY SamplesAssumption DEF CodecInv
  <2>2. QED
    BY <2>1, DecodeReadDir
<1>2. QED
  BY <1>1, CodecInvariant, PTL
====
