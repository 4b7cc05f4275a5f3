-------------------------- MODULE IntrusiveListProofs --------------------------
(***************************************************************************)
(* Proofs about IntrusiveList, for any number of nodes, lists and          *)
(* iterators.  What the links describe is proved to be one sequence for    *)
(* each list; the calls are proved to put a node into one, or to take one  *)
(* out, whatever branch they take.                                         *)
(***************************************************************************)
EXTENDS IntrusiveList, SequenceEditsProofs, FiniteSetTheorems, TLAPS

\* The i-th element of a sequence, or Null beside its ends.
Nth(s, i) == IF i \in 1..Len(s) THEN s[i] ELSE Null

\* The links nx and pv string the elements of s together, from f to e.
Strung(s, f, e, nx, pv) ==
  /\ f = Nth(s, 1) /\ e = Nth(s, Len(s))
  /\ \A i \in 1..Len(s) : nx[s[i]] = Nth(s, i + 1) /\ pv[s[i]] = Nth(s, i - 1)

LEMMA WalkIs ==
  ASSUME NEW s \in Seq(Nodes), NEW f, NEW nx, f = Nth(s, 1),
         \A i \in 1..Len(s) : nx[s[i]] = Nth(s, i + 1)
  PROVE  Walk(f, nx, Len(s)) = s
<1> USE ListAssumption
<1> DEFINE n == Len(s)
           Step(g, i) == IF i = 1 THEN f ELSE IF g[i - 1] = Null THEN Null ELSE nx[g[i - 1]]
           Solves(g) == g = [i \in 1..n |-> Step(g, i)]
           w == Walk(f, nx, n)
<1>1. n \in Nat /\ s = [i \in 1..n |-> s[i]] /\ \A i \in 1..n : s[i] \in Nodes /\ s[i] # Null
  OBVIOUS
<1>2. \A i \in 1..n : s[i] = Step(s, i)
  <2> TAKE i \in 1..n
  <2>1. CASE i = 1
    BY <1>1, <2>1 DEF Nth
  <2>2. CASE i # 1
    <3>1. i - 1 \in 1..n /\ i - 1 + 1 = i
      BY <1>1, <2>2
    <3>2. nx[s[i - 1]] = s[i]
      BY <3>1 DEF Nth
    <3> QED BY <1>1, <2>2, <3>1, <3>2
  <2> QED BY <2>1, <2>2
<1>3. Solves(s)
  <2> HIDE DEF n, Step
  <2> QED BY <1>1, <1>2
<1>4. w = CHOOSE g : Solves(g)
  BY DEF Walk
<1> HIDE DEF n, w
<1>5. Solves(w)
  <2> HIDE DEF Solves
  <2> QED BY <1>3, <1>4
<1>6. w = [i \in 1..n |-> w[i]] /\ \A i \in 1..n : w[i] = Step(w, i)
  <2> DEFINE g == [i \in 1..n |-> Step(w, i)]
  <2>1. g = [i \in 1..n |-> g[i]] /\ \A i \in 1..n : g[i] = Step(w, i)
    <3> HIDE DEF Step
    <3> QED OBVIOUS
  <2>2. w = g
    BY <1>5
  <2> HIDE DEF g, Step
  <2> QED BY <2>1, <2>2
<1>7. \A i \in 1..n : w[i] = s[i]
  <2> DEFINE T == {i \in 1..n : w[i] # s[i]}
  <2> SUFFICES ASSUME T # {} PROVE FALSE
    OBVIOUS
  <2>1. T \in SUBSET Nat
    BY <1>1
  <2> HIDE DEF T
  <2>2. PICK i \in T : \A y \in T : i <= y
    BY <2>1, LeastNatural
  <2>3. i \in 1..n /\ w[i] # s[i] /\ \A k \in 1..n : k < i => w[k] = s[k]
    BY <1>1, <2>2 DEF T
  <2>4. Step(w, i) = Step(s, i)
    BY <1>1, <2>3
  <2> QED BY <1>2, <1>6, <2>3, <2>4
<1> QED BY <1>1, <1>6, <1>7 DEF w, n

\* A node is put in between two neighbours, or at an end.
LEMMA StrungInserted ==
  ASSUME NEW s \in Seq(Nodes), Injective(s), NEW n \in Nodes \ Elems(s), NEW i \in 1..Len(s) + 1,
         NEW f, NEW e, NEW nx \in [Nodes -> Nodes \cup {Null}], NEW pv \in [Nodes -> Nodes \cup {Null}],
         Strung(s, f, e, nx, pv)
  PROVE  Strung(Inserted(s, i, n),
                IF Nth(s, i - 1) = Null THEN n ELSE f, IF Nth(s, i) = Null THEN n ELSE e,
                Relink([nx EXCEPT ![n] = Nth(s, i)], Nth(s, i - 1), n),
                Relink([pv EXCEPT ![n] = Nth(s, i - 1)], Nth(s, i), n))
<1> DEFINE r == Inserted(s, i, n)
           m == Len(s)
           p == Nth(s, i - 1)
           q == Nth(s, i)
           nx2 == Relink([nx EXCEPT ![n] = q], p, n)
           pv2 == Relink([pv EXCEPT ![n] = p], q, n)
<1>1. /\ n \in Nodes /\ n # Null /\ Null \notin Nodes /\ m \in Nat /\ i \in 1..m + 1
      /\ \A k \in 1..m : s[k] \in Nodes /\ s[k] # Null /\ s[k] # n
      /\ \A k, h \in 1..m : s[k] = s[h] => k = h
  BY ListAssumption DEF Injective, Elems
<1>2. /\ r \in Seq(Nodes) /\ Len(r) = m + 1
      /\ \A k \in 1..m + 1 : r[k] = IF k < i THEN s[k] ELSE IF k = i THEN n ELSE s[k - 1]
  <2>1. s \in Seq(Nodes) /\ n \in Nodes /\ i \in 1..Len(s) + 1
    OBVIOUS
  <2>2. r \in Seq(Nodes) /\ Len(r) = m + 1
    BY <2>1, InsertedIs
  <2>3. ASSUME NEW k \in 1..m + 1
        PROVE  r[k] = IF k < i THEN s[k] ELSE IF k = i THEN n ELSE s[k - 1]
    BY <2>1, <2>3, InsertedIs
  <2> QED BY <2>2, <2>3
<1>3. /\ f = Nth(s, 1) /\ e = Nth(s, m)
      /\ \A k \in 1..m : nx[s[k]] = Nth(s, k + 1) /\ pv[s[k]] = Nth(s, k - 1)
  BY DEF Strung
<1>4. \A k : Nth(s, k) = IF k \in 1..m THEN s[k] ELSE Null
  BY DEF Nth
<1>5. \A k : Nth(r, k) = IF k \in 1..m + 1 THEN r[k] ELSE Null
  BY <1>2 DEF Nth
<1> HIDE DEF r, m
<1>6. /\ p = IF i = 1 THEN Null ELSE s[i - 1]
      /\ q = IF i = m + 1 THEN Null ELSE s[i]
  BY <1>1, <1>4
<1> HIDE DEF p, q
<1>12. ASSUME NEW k \in 1..m PROVE (s[k] = p <=> k = i - 1) /\ (s[k] = q <=> k = i)
  <2>1. s[k] = p <=> k = i - 1
    <3>1. CASE i = 1
      BY <1>1, <1>6, <3>1
    <3>2. CASE i # 1
      <4>1. i - 1 \in 1..m /\ p = s[i - 1]
        BY <1>1, <1>6, <3>2
      <4> QED BY <1>1, <4>1
    <3> QED BY <3>1, <3>2
  <2>2. s[k] = q <=> k = i
    <3>1. CASE i = m + 1
      BY <1>1, <1>6, <3>1
    <3>2. CASE i # m + 1
      <4>1. i \in 1..m /\ q = s[i]
        BY <1>1, <1>6, <3>2
      <4> QED BY <1>1, <4>1
    <3> QED BY <3>1, <3>2
  <2> QED BY <2>1, <2>2
<1>7. \A x \in Nodes : /\ nx2[x] = IF x = p THEN n ELSE IF x = n THEN q ELSE nx[x]
                       /\ pv2[x] = IF x = q THEN n ELSE IF x = n THEN p ELSE pv[x]
  <2>1. p = Null \/ p \in Nodes
    BY <1>1, <1>6
  <2>2. q = Null \/ q \in Nodes
    BY <1>1, <1>6
  <2> QED BY <1>1, <2>1, <2>2 DEF Relink
<1> HIDE DEF nx2, pv2
<1>8. ASSUME NEW k \in 1..m + 1 PROVE nx2[r[k]] = Nth(r, k + 1)
  <2>1. CASE k < i - 1
    <3>1. r[k] = s[k] /\ k \in 1..m /\ r[k + 1] = s[k + 1] /\ k + 1 \in 1..m
      <4>1. k \in 1..m /\ k + 1 \in 1..m /\ k + 1 \in 1..m + 1 /\ k < i /\ k + 1 < i
        BY <1>1, <2>1
      <4> QED BY <1>2, <4>1
    <3>2. s[k] # p
      <4>1. k # i - 1
        BY <1>1, <2>1
      <4> QED BY <1>12, <3>1, <4>1
    <3>3. nx2[s[k]] = Nth(s, k + 1)
      BY <1>1, <1>3, <1>7, <3>1, <3>2
    <3> QED BY <1>1, <1>4, <1>5, <3>1, <3>3
  <2>2. CASE k = i - 1
    <3>1. r[k] = s[k] /\ k \in 1..m /\ r[k + 1] = n /\ k + 1 \in 1..m + 1 /\ s[k] = p
      BY <1>1, <1>2, <1>6, <2>2
    <3> QED BY <1>1, <1>5, <1>7, <3>1
  <2>3. CASE k = i
    <3>1. r[k] = n /\ n # p
      BY <1>1, <1>2, <1>6, <2>3
    <3>2. k # m + 1 => k + 1 \in 1..m + 1 /\ r[k + 1] = s[k]
      BY <1>1, <1>2, <2>3
    <3> QED BY <1>1, <1>5, <1>6, <1>7, <2>3, <3>1, <3>2
  <2>4. CASE k > i
    <3>1. r[k] = s[k - 1] /\ k - 1 \in 1..m /\ k - 1 + 1 = k
      BY <1>1, <1>2, <2>4
    <3>2. s[k - 1] # p
      <4>1. k - 1 # i - 1
        BY <1>1, <2>4
      <4> QED BY <1>12, <3>1, <4>1
    <3>3. nx2[s[k - 1]] = Nth(s, k)
      BY <1>1, <1>3, <1>7, <3>1, <3>2
    <3>4. Nth(r, k + 1) = Nth(s, k)
      <4>1. CASE k = m + 1
        BY <1>1, <1>4, <1>5, <4>1
      <4>2. CASE k # m + 1
        <5>1. /\ k + 1 \in 1..m + 1 /\ k \in 1..m /\ ~(k + 1 < i) /\ k + 1 # i
              /\ k + 1 - 1 = k
          BY <1>1, <2>4, <4>2
        <5> QED BY <1>2, <1>4, <1>5, <5>1
      <4> QED BY <4>1, <4>2
    <3> QED BY <3>1, <3>3, <3>4
  <2> QED BY <1>1, <2>1, <2>2, <2>3, <2>4
<1>9. ASSUME NEW k \in 1..m + 1 PROVE pv2[r[k]] = Nth(r, k - 1)
  <2>1. CASE k < i
    <3>1. r[k] = s[k] /\ k \in 1..m
      BY <1>1, <1>2, <2>1
    <3>2. s[k] # q
      BY <1>1, <1>12, <2>1, <3>1
    <3>3. k # 1 => k - 1 \in 1..m + 1 /\ r[k - 1] = s[k - 1] /\ k - 1 \in 1..m
      BY <1>1, <1>2, <2>1
    <3>4. pv2[s[k]] = Nth(s, k - 1)
      BY <1>1, <1>3, <1>7, <3>1, <3>2
    <3> QED BY <1>1, <1>4, <1>5, <3>1, <3>3, <3>4
  <2>2. CASE k = i
    <3>1. r[k] = n /\ n # q
      BY <1>1, <1>2, <1>6, <2>2
    <3>2. pv2[n] = p
      BY <1>1, <1>7, <3>1
    <3>3. Nth(r, k - 1) = p
      <4>1. CASE k = 1
        BY <1>5, <1>6, <2>2, <4>1
      <4>2. CASE k # 1
        <5>1. k - 1 \in 1..m + 1 /\ r[k - 1] = s[k - 1]
          BY <1>1, <1>2, <2>2, <4>2
        <5> QED BY <1>5, <1>6, <2>2, <4>2, <5>1
      <4> QED BY <4>1, <4>2
    <3> QED BY <3>1, <3>2, <3>3
  <2>3. CASE k = i + 1
    <3>1. r[k] = q /\ q \in Nodes /\ r[k - 1] = n /\ k - 1 \in 1..m + 1
      <4>1. k - 1 = i /\ i \in 1..m + 1 /\ ~(k < i) /\ k # i /\ i # m + 1
        BY <1>1, <2>3
      <4> QED BY <1>1, <1>2, <1>6, <4>1
    <3> QED BY <1>1, <1>5, <1>7, <3>1
  <2>4. CASE k > i + 1
    <3>1. r[k] = s[k - 1] /\ k - 1 \in 1..m /\ r[k - 1] = s[k - 2] /\ k - 2 \in 1..m /\ k - 1 - 1 = k - 2
      BY <1>1, <1>2, <2>4
    <3>2. s[k - 1] # q
      BY <1>1, <1>12, <2>4, <3>1
    <3>3. pv2[s[k - 1]] = Nth(s, k - 2)
      BY <1>1, <1>3, <1>7, <3>1, <3>2
    <3>4. Nth(r, k - 1) = Nth(s, k - 2)
      BY <1>1, <1>4, <1>5, <3>1
    <3> QED BY <3>1, <3>3, <3>4
  <2> QED BY <1>1, <2>1, <2>2, <2>3, <2>4
<1>10. (IF p = Null THEN n ELSE f) = Nth(r, 1) /\ (IF q = Null THEN n ELSE e) = Nth(r, m + 1)
  <2>1. Nth(r, 1) = r[1] /\ Nth(r, m + 1) = r[m + 1]
    BY <1>1, <1>5
  <2>2. p = Null <=> i = 1
    BY <1>1, <1>6
  <2>3. q = Null <=> i = m + 1
    BY <1>1, <1>6
  <2>4. i # 1 => f = s[1] /\ r[1] = s[1]
    <3> SUFFICES ASSUME i # 1 PROVE f = s[1] /\ r[1] = s[1]
      OBVIOUS
    <3>1. 1 \in 1..m /\ 1 \in 1..m + 1 /\ 1 < i
      BY <1>1
    <3> QED BY <1>2, <1>3, <1>4, <3>1
  <2>5. i # m + 1 => e = s[m] /\ r[m + 1] = s[m]
    <3> SUFFICES ASSUME i # m + 1 PROVE e = s[m] /\ r[m + 1] = s[m]
      OBVIOUS
    <3>1. m \in 1..m /\ m + 1 \in 1..m + 1 /\ i < m + 1 /\ m + 1 - 1 = m
      BY <1>1
    <3> QED BY <1>2, <1>3, <1>4, <3>1
  <2> QED BY <1>1, <1>2, <2>1, <2>2, <2>3, <2>4, <2>5
<1>11. Strung(r, IF p = Null THEN n ELSE f, IF q = Null THEN n ELSE e, nx2, pv2)
  BY <1>2, <1>8, <1>9, <1>10 DEF Strung
<1> QED BY <1>11 DEF r, p, q, nx2, pv2

\* A node is taken out: its neighbours, if any, become neighbours of each
\* other, and a neighbour it had not becomes the end.
LEMMA StrungRemoved ==
  \A s \in Seq(Nodes) : \A i \in 1..Len(s) : \A f, e, nx, pv, nx2, pv2 :
    /\ Injective(s) /\ Strung(s, f, e, nx, pv)
    /\ \A k \in 1..Len(s) : k # i =>
         /\ nx2[s[k]] = IF k = i - 1 THEN Nth(s, i + 1) ELSE nx[s[k]]
         /\ pv2[s[k]] = IF k = i + 1 THEN Nth(s, i - 1) ELSE pv[s[k]]
    => Strung(Removed(s, i),
              IF i = 1 THEN Nth(s, 2) ELSE f, IF i = Len(s) THEN Nth(s, Len(s) - 1) ELSE e,
              nx2, pv2)
<1> TAKE s \in Seq(Nodes)
<1> TAKE i \in 1..Len(s)
<1> TAKE f, e, nx, pv, nx2, pv2
<1> HAVE /\ Injective(s) /\ Strung(s, f, e, nx, pv)
         /\ \A k \in 1..Len(s) : k # i =>
              /\ nx2[s[k]] = IF k = i - 1 THEN Nth(s, i + 1) ELSE nx[s[k]]
              /\ pv2[s[k]] = IF k = i + 1 THEN Nth(s, i - 1) ELSE pv[s[k]]
<1> DEFINE r == Removed(s, i)
           m == Len(s)
<1>1. m \in Nat /\ i \in 1..m
  OBVIOUS
<1>2. /\ r \in Seq(Nodes) /\ Len(r) = m - 1
      /\ \A k \in 1..m - 1 : r[k] = IF k < i THEN s[k] ELSE s[k + 1]
  <2>1. \A g \in Seq(Nodes) : \A h \in 1..Len(g) :
          /\ Removed(g, h) \in Seq(Nodes) /\ Len(Removed(g, h)) = Len(g) - 1
          /\ \A k \in 1..Len(g) - 1 : Removed(g, h)[k] = IF k < h THEN g[k] ELSE g[k + 1]
    BY RemovedIs
  <2> QED BY <2>1, Zenon
<1>3. /\ f = Nth(s, 1) /\ e = Nth(s, m)
      /\ \A k \in 1..m : nx[s[k]] = Nth(s, k + 1) /\ pv[s[k]] = Nth(s, k - 1)
  BY DEF Strung
<1>4. \A k : Nth(s, k) = IF k \in 1..m THEN s[k] ELSE Null
  BY DEF Nth
<1>5. \A k : Nth(r, k) = IF k \in 1..m - 1 THEN r[k] ELSE Null
  BY <1>2 DEF Nth
<1>6. \A k \in 1..m : k # i =>
           /\ nx2[s[k]] = IF k = i - 1 THEN Nth(s, i + 1) ELSE nx[s[k]]
           /\ pv2[s[k]] = IF k = i + 1 THEN Nth(s, i - 1) ELSE pv[s[k]]
  OBVIOUS
<1> HIDE DEF r, m
\* Where the elements of r stood in s.
<1>7. /\ \A k \in 0..i - 1 : Nth(r, k) = Nth(s, k)
      /\ \A k \in i..m : Nth(r, k) = Nth(s, k + 1)
  <2>1. ASSUME NEW k \in 0..i - 1 PROVE Nth(r, k) = Nth(s, k)
    <3>1. CASE k = 0
      BY <1>4, <1>5, <3>1
    <3>2. CASE k # 0
      <4>1. k \in 1..m - 1 /\ k \in 1..m /\ k < i
        BY <1>1, <3>2
      <4> QED BY <1>2, <1>4, <1>5, <4>1
    <3> QED BY <3>1, <3>2
  <2>2. ASSUME NEW k \in i..m PROVE Nth(r, k) = Nth(s, k + 1)
    <3>1. CASE k = m
      <4>1. k \notin 1..m - 1 /\ k + 1 \notin 1..m
        BY <1>1, <3>1
      <4> QED BY <1>4, <1>5, <4>1
    <3>2. CASE k # m
      <4>1. k \in 1..m - 1 /\ k + 1 \in 1..m /\ ~(k < i)
        BY <1>1, <3>2
      <4> QED BY <1>2, <1>4, <1>5, <4>1
    <3> QED BY <3>1, <3>2
  <2> QED BY <2>1, <2>2
<1>8. ASSUME NEW k \in 1..m - 1, k < i
      PROVE  nx2[r[k]] = Nth(r, k + 1) /\ pv2[r[k]] = Nth(r, k - 1)
  <2>1. k \in 1..m /\ k # i /\ k # i + 1 /\ k - 1 \in 0..i - 1 /\ r[k] = s[k]
    BY <1>1, <1>2, <1>8
  <2>2. pv2[s[k]] = Nth(s, k - 1)
    BY <1>3, <1>6, <2>1
  <2>3. CASE k = i - 1
    <3>1. k + 1 = i /\ i \in i..m
      BY <1>1, <2>3
    <3>2. nx2[s[k]] = Nth(s, i + 1)
      BY <1>6, <2>1, <2>3
    <3> QED BY <1>7, <2>1, <2>2, <3>1, <3>2
  <2>4. CASE k # i - 1
    <3>1. k + 1 \in 0..i - 1
      BY <1>1, <1>8, <2>4
    <3>2. nx2[s[k]] = Nth(s, k + 1)
      BY <1>3, <1>6, <2>1, <2>4
    <3> QED BY <1>7, <2>1, <2>2, <3>1, <3>2
  <2> QED BY <2>3, <2>4
<1>9. ASSUME NEW k \in 1..m - 1, ~(k < i)
      PROVE  nx2[r[k]] = Nth(r, k + 1) /\ pv2[r[k]] = Nth(r, k - 1)
  <2>1. /\ k + 1 \in 1..m /\ k + 1 # i /\ k + 1 # i - 1 /\ k + 1 \in i..m /\ r[k] = s[k + 1]
        /\ k + 1 - 1 = k
    BY <1>1, <1>2, <1>9
  <2>2. nx2[s[k + 1]] = Nth(s, k + 1 + 1)
    BY <1>3, <1>6, <2>1
  <2>3. CASE k = i
    <3>1. i - 1 \in 0..i - 1 /\ k + 1 = i + 1
      BY <1>1, <2>3
    <3>2. pv2[s[k + 1]] = Nth(s, i - 1)
      BY <1>6, <2>1, <3>1
    <3> QED BY <1>7, <2>1, <2>2, <2>3, <3>1, <3>2
  <2>4. CASE k # i
    <3>1. k - 1 \in i..m /\ k - 1 + 1 = k /\ k + 1 # i + 1
      BY <1>1, <1>9, <2>4
    <3>2. pv2[s[k + 1]] = Nth(s, k)
      BY <1>3, <1>6, <2>1, <3>1
    <3>3. Nth(r, k - 1) = Nth(s, k)
      BY <1>7, <3>1
    <3> QED BY <1>7, <2>1, <2>2, <3>2, <3>3
  <2> QED BY <2>3, <2>4
<1>10. (IF i = 1 THEN Nth(s, 2) ELSE f) = Nth(r, 1)
  <2>1. CASE i = 1
    <3>1. 1 \in i..m /\ 1 + 1 = 2
      BY <1>1, <2>1
    <3> QED BY <1>7, <2>1, <3>1
  <2>2. CASE i # 1
    <3>1. 1 \in 0..i - 1
      BY <1>1, <2>2
    <3> QED BY <1>3, <1>7, <2>2, <3>1
  <2> QED BY <2>1, <2>2
<1>11. (IF i = m THEN Nth(s, m - 1) ELSE e) = Nth(r, m - 1)
  <2>1. CASE i = m
    <3>1. m - 1 \in 0..i - 1
      BY <1>1, <2>1
    <3> QED BY <1>7, <2>1, <3>1
  <2>2. CASE i # m
    <3>1. m - 1 \in i..m /\ m - 1 + 1 = m
      BY <1>1, <2>2
    <3>2. Nth(r, m - 1) = Nth(s, m)
      BY <1>7, <3>1
    <3> QED BY <1>3, <2>2, <3>2
  <2> QED BY <2>1, <2>2
<1>12. Strung(r, IF i = 1 THEN Nth(s, 2) ELSE f, IF i = m THEN Nth(s, m - 1) ELSE e, nx2, pv2)
  BY <1>2, <1>8, <1>9, <1>10, <1>11 DEF Strung
<1> QED BY <1>12 DEF r, m

-----------------------------------------------------------------------------
(***************************************************************************)
(* The inductive invariant: the links of all lists describe disjoint       *)
(* sequences of nodes that exist, counted and referred to as often as they *)
(* occur, and clear() sweeps its list from the front.                      *)
(***************************************************************************)
Order == [l \in Lists |-> Chain(l)]

Strings(q) ==
  /\ q \in [Lists -> Seq(Nodes)]
  /\ \A l \in Lists : /\ Injective(q[l]) /\ Elems(q[l]) \subseteq alive /\ Len(q[l]) = count[l]
                      /\ Strung(q[l], first[l], last[l], next, prev)
  /\ \A l, k \in Lists : \A n \in Nodes : n \in Elems(q[l]) /\ n \in Elems(q[k]) => l = k
  /\ \A n \in Nodes : refs[n] = IF \E l \in Lists : n \in Elems(q[l]) THEN 1 ELSE 0
  /\ Reusable

IInv == TypeOK /\ Strings(Order) /\ (clearing # Null => sweep = first[clearing])

LEMMA OrderIs ==
  ASSUME NEW q, Strings(q)
  PROVE  Order = q
<1>1. ASSUME NEW l \in Lists PROVE Chain(l) = q[l]
  <2> DEFINE s == q[l]
  <2>1. s \in Seq(Nodes) /\ Len(s) = count[l] /\ first[l] = Nth(s, 1)
    BY DEF Strings, Strung
  <2>2. \A i \in 1..Len(s) : next[s[i]] = Nth(s, i + 1)
    BY DEF Strings, Strung
  <2> HIDE DEF s
  <2>3. Walk(first[l], next, Len(s)) = s
    BY <2>1, <2>2, WalkIs
  <2> QED BY <2>1, <2>3 DEF Chain, s
<1> QED BY <1>1 DEF Order, Strings

LEMMA OrderAfter ==
  ASSUME NEW q, Strings(q)'
  PROVE  Order' = q
<1>1. ASSUME NEW l \in Lists PROVE Chain(l)' = q[l]
  <2> DEFINE s == q[l]
  <2>1. s \in Seq(Nodes) /\ Len(s) = count'[l] /\ first'[l] = Nth(s, 1)
    BY DEF Strings, Strung
  <2>2. \A i \in 1..Len(s) : next'[s[i]] = Nth(s, i + 1)
    BY DEF Strings, Strung
  <2> HIDE DEF s
  <2>3. Walk(first'[l], next', Len(s)) = s
    BY <2>1, <2>2, WalkIs
  <2> QED BY <2>1, <2>3 DEF Chain, s
<1> QED BY <1>1 DEF Order, Strings

LEMMA MembersAre ==
  ASSUME NEW q, Strings(q), q = Order
  PROVE  \A l \in Lists : Members(l) = Elems(q[l]) /\ Chain(l) = q[l]
<1> TAKE l \in Lists
<1>1. Chain(l) = q[l] /\ count[l] = Len(q[l])
  BY DEF Order, Strings
<1>2. Null \notin Elems(q[l])
  BY ListAssumption DEF Strings, Elems
<1> QED BY <1>1, <1>2 DEF Members, Elems

\* checkNode() finds a node that is in the list.
LEMMA Unlisted ==
  ASSUME NEW q, Strings(q), q = Order, NEW l \in Lists, NEW n \in Nodes,
         Unshared(l, n), ~Refused(l, n)
  PROVE  \A k \in Lists : n \notin Elems(q[k])
<1>1. ASSUME n \in Elems(q[l]) PROVE FALSE
  <2> DEFINE s == q[l]
  <2>1. PICK i \in 1..Len(s) : n = s[i]
    BY <1>1 DEF Elems
  <2>2. s \in Seq(Nodes) /\ last[l] = Nth(s, Len(s)) /\ next[s[i]] = Nth(s, i + 1)
    BY DEF Strings, Strung
  <2> HIDE DEF s
  <2>3. next[n] = Null /\ last[l] # n
    BY DEF Refused
  <2>4. Len(s) \in Nat /\ \A k \in 1..Len(s) : s[k] # Null
    BY <2>2, ListAssumption
  <2>5. i = Len(s)
    BY <2>1, <2>2, <2>3, <2>4 DEF Nth
  <2> QED BY <2>1, <2>2, <2>3, <2>4, <2>5 DEF Nth
<1>2. ASSUME NEW k \in Lists \ {l} PROVE n \notin Elems(q[k])
  BY MembersAre DEF Unshared
<1> QED BY <1>1, <1>2

\* A sequence none of whose nodes is touched.
LEMMA StrungElsewhere ==
  ASSUME NEW s \in Seq(Nodes), NEW f, NEW e, NEW nx, NEW pv, NEW nx2, NEW pv2,
         Strung(s, f, e, nx, pv), \A x \in Elems(s) : nx2[x] = nx[x] /\ pv2[x] = pv[x]
  PROVE  Strung(s, f, e, nx2, pv2)
<1>1. \A i \in 1..Len(s) : s[i] \in Elems(s)
  BY DEF Elems
<1> QED BY <1>1 DEF Strung

-----------------------------------------------------------------------------
(* Adding.                                                                 *)
LEMMA InsertIs ==
  ASSUME TypeOK, NEW q, Strings(q), q = Order, NEW l \in Lists, NEW n \in Nodes, Unshared(l, n),
         NEW i \in 1..Len(q[l]) + 1, Insert(l, Nth(q[l], i - 1), n, Nth(q[l], i))
  PROVE  /\ Strings([q EXCEPT ![l] = Inserted(@, i, n)])' /\ TypeOK'
         /\ \A k \in Lists : n \notin Elems(q[k])
<1> DEFINE s == q[l]
           r == Inserted(s, i, n)
           p == Nth(s, i - 1)
           t == Nth(s, i)
           z == [q EXCEPT ![l] = r]
<1>1. /\ n \in alive /\ ~Refused(l, n)
      /\ next'  = Relink([next EXCEPT ![n] = t], p, n)
      /\ prev'  = Relink([prev EXCEPT ![n] = p], t, n)
      /\ first' = IF p = Null THEN [first EXCEPT ![l] = n] ELSE first
      /\ last'  = IF t = Null THEN [last EXCEPT ![l] = n] ELSE last
      /\ count' = [count EXCEPT ![l] = @ + 1]
      /\ refs'  = [refs EXCEPT ![n] = @ + 1]
      /\ UNCHANGED <<alive, held, cursor, loop>>
  BY DEF Insert
<1>2. \A k \in Lists : n \notin Elems(q[k])
  BY <1>1, Unlisted
<1>3. /\ s \in Seq(Nodes) /\ Injective(s) /\ n \in Nodes \ Elems(s) /\ i \in 1..Len(s) + 1
      /\ Elems(s) \subseteq alive /\ Len(s) = count[l]
      /\ Strung(s, first[l], last[l], next, prev)
  BY <1>2 DEF Strings
<1>4. /\ next \in [Nodes -> Nodes \cup {Null}] /\ prev \in [Nodes -> Nodes \cup {Null}]
      /\ first \in [Lists -> Nodes \cup {Null}] /\ last \in [Lists -> Nodes \cup {Null}]
      /\ count \in [Lists -> Nat] /\ refs \in [Nodes -> Nat]
  BY DEF TypeOK
<1>5. Strung(r, IF p = Null THEN n ELSE first[l], IF t = Null THEN n ELSE last[l], next', prev')
  <2> HIDE DEF s
  <2> QED BY <1>1, <1>3, <1>4, StrungInserted
<1>6. p \in Nodes \cup {Null} /\ t \in Nodes \cup {Null}
  BY <1>3 DEF Nth
<1>7. r \in Seq(Nodes) /\ Injective(r) /\ Elems(r) = Elems(s) \cup {n}
  BY <1>3, InsertedElems
<1>8. Len(r) = Len(s) + 1
  <2>1. \A g \in Seq(Nodes) : \A h \in 1..Len(g) + 1 : \A y \in Nodes :
          Len(Inserted(g, h, y)) = Len(g) + 1
    BY InsertedIs
  <2> QED BY <1>3, <2>1
<1>9. \A x \in Nodes : x # n => /\ x # p => next'[x] = next[x]
                                /\ x # t => prev'[x] = prev[x]
  BY <1>1, <1>4, <1>6 DEF Relink
<1>10. TypeOK'
  <2>1. next' \in [Nodes -> Nodes \cup {Null}] /\ prev' \in [Nodes -> Nodes \cup {Null}]
    BY <1>1, <1>4, <1>6 DEF Relink
  <2>2. /\ first' \in [Lists -> Nodes \cup {Null}] /\ last' \in [Lists -> Nodes \cup {Null}]
        /\ count' \in [Lists -> Nat] /\ refs' \in [Nodes -> Nat]
    BY <1>1, <1>4
  <2> QED BY <1>1, <2>1, <2>2 DEF TypeOK, cursor, loop
<1>11. (p # Null => p \in Elems(s)) /\ (t # Null => t \in Elems(s))
  BY DEF Nth, Elems
<1>12. z \in [Lists -> Seq(Nodes)] /\ \A k \in Lists : z[k] = IF k = l THEN r ELSE q[k]
  BY <1>7 DEF Strings
<1>13. \A k \in Lists : Elems(z[k]) = IF k = l THEN Elems(s) \cup {n} ELSE Elems(q[k])
  BY <1>7, <1>12
<1> HIDE DEF z, r, p, t
<1>14. ASSUME NEW k \in Lists
       PROVE  /\ Injective(z[k]) /\ Elems(z[k]) \subseteq alive' /\ Len(z[k]) = count'[k]
              /\ Strung(z[k], first'[k], last'[k], next', prev')
  <2>1. CASE k = l
    <3>1. first'[l] = (IF p = Null THEN n ELSE first[l]) /\ last'[l] = (IF t = Null THEN n ELSE last[l])
      BY <1>1, <1>4
    <3>2. Strung(r, first'[l], last'[l], next', prev')
      BY <1>5, <3>1
    <3>3. Len(r) = count'[l]
      BY <1>1, <1>3, <1>4, <1>8
    <3> QED BY <1>1, <1>3, <1>7, <1>12, <2>1, <3>2, <3>3
  <2>2. CASE k # l
    <3>1. /\ q[k] \in Seq(Nodes) /\ Injective(q[k]) /\ Elems(q[k]) \subseteq alive
          /\ Len(q[k]) = count[k] /\ Strung(q[k], first[k], last[k], next, prev)
      BY DEF Strings
    <3>2. \A x \in Elems(q[k]) : x \in Nodes /\ x # n /\ x \notin Elems(s)
      <4>1. Elems(q[k]) \subseteq Nodes
        BY <3>1 DEF Elems
      <4> QED BY <1>2, <2>2, <4>1 DEF Strings
    <3>3. Null \notin Elems(q[k])
      BY <3>2, ListAssumption
    <3>4. \A x \in Elems(q[k]) : next'[x] = next[x] /\ prev'[x] = prev[x]
      BY <1>9, <1>11, <3>2, <3>3
    <3>5. Strung(q[k], first[k], last[k], next', prev')
      BY <3>1, <3>4, StrungElsewhere
    <3>6. first'[k] = first[k] /\ last'[k] = last[k] /\ count'[k] = count[k]
      BY <1>1, <1>4, <2>2
    <3> QED BY <1>1, <1>12, <2>2, <3>1, <3>5, <3>6
  <2> QED BY <2>1, <2>2
<1>15. \A k, h \in Lists : \A x \in Nodes : x \in Elems(z[k]) /\ x \in Elems(z[h]) => k = h
  BY <1>2, <1>13 DEF Strings
<1>16. ASSUME NEW x \in Nodes
       PROVE  refs'[x] = IF \E k \in Lists : x \in Elems(z[k]) THEN 1 ELSE 0
  <2>1. refs[x] = IF \E k \in Lists : x \in Elems(q[k]) THEN 1 ELSE 0
    BY DEF Strings
  <2>2. CASE x = n
    BY <1>1, <1>2, <1>4, <1>13, <2>1, <2>2
  <2>3. CASE x # n
    <3>1. \A k \in Lists : x \in Elems(z[k]) <=> x \in Elems(q[k])
      BY <1>13, <2>3
    <3>2. refs'[x] = refs[x]
      BY <1>1, <1>4, <2>3
    <3> QED BY <2>1, <3>1, <3>2
  <2> QED BY <2>2, <2>3
<1>17. Reusable'
  <2> SUFFICES ASSUME NEW x \in alive', refs'[x] = 0 PROVE next'[x] = Null /\ prev'[x] = Null
    BY DEF Reusable
  <2>1. x \in alive /\ x \in Nodes
    BY <1>1 DEF TypeOK
  <2>2. \A k \in Lists : x \notin Elems(z[k])
    BY <1>16, <2>1
  <2>3. x # n /\ x \notin Elems(s)
    BY <1>13, <2>2
  <2>4. refs[x] = 0
    BY <1>1, <1>4, <2>1, <2>3
  <2>5. next[x] = Null /\ prev[x] = Null
    BY <2>1, <2>4 DEF Strings, Reusable
  <2>6. x # p /\ x # t
    BY <1>11, <2>1, <2>3, ListAssumption
  <2> QED BY <1>9, <2>1, <2>3, <2>5, <2>6
<1>18. Strings(z)'
  BY <1>12, <1>14, <1>15, <1>16, <1>17 DEF Strings
<1> QED BY <1>2, <1>10, <1>18 DEF z, r

-----------------------------------------------------------------------------
(* Removing: whichever call it is, the i-th node of a list leaves it.      *)
TakenOut(q, l, i) ==
  LET s == q[l]
  IN /\ next' \in [Nodes -> Nodes \cup {Null}] /\ prev' \in [Nodes -> Nodes \cup {Null}]
     /\ \A x \in Nodes :
          /\ next'[x] = IF x = s[i] THEN Null ELSE IF x = Nth(s, i - 1) THEN Nth(s, i + 1) ELSE next[x]
          /\ prev'[x] = IF x = s[i] THEN Null ELSE IF x = Nth(s, i + 1) THEN Nth(s, i - 1) ELSE prev[x]
     /\ first' = IF i = 1 THEN [first EXCEPT ![l] = Nth(s, 2)] ELSE first
     /\ last'  = IF i = Len(s) THEN [last EXCEPT ![l] = Nth(s, Len(s) - 1)] ELSE last
     /\ count' = [count EXCEPT ![l] = @ - 1]
     /\ LetGo(s[i]) /\ held' = held

LEMMA TakenOutIs ==
  ASSUME TypeOK, NEW q, Strings(q), q = Order, NEW l \in Lists, NEW i \in 1..Len(q[l]),
         TakenOut(q, l, i)
  PROVE  /\ Strings([q EXCEPT ![l] = Removed(@, i)])'
         /\ first' \in [Lists -> Nodes \cup {Null}] /\ last' \in [Lists -> Nodes \cup {Null}]
         /\ count' \in [Lists -> Nat] /\ refs' \in [Nodes -> Nat]
         /\ alive' \subseteq Nodes /\ held' \subseteq alive'
         /\ alive' = IF q[l][i] \in held THEN alive ELSE alive \ {q[l][i]}
<1> USE ListAssumption
<1> DEFINE s == q[l]
           n == s[i]
           r == Removed(s, i)
           z == [q EXCEPT ![l] = r]
           p == Nth(s, i - 1)
           t == Nth(s, i + 1)
<1>1. /\ next' \in [Nodes -> Nodes \cup {Null}] /\ prev' \in [Nodes -> Nodes \cup {Null}]
      /\ \A x \in Nodes :
           /\ next'[x] = IF x = n THEN Null ELSE IF x = p THEN t ELSE next[x]
           /\ prev'[x] = IF x = n THEN Null ELSE IF x = t THEN p ELSE prev[x]
      /\ first' = IF i = 1 THEN [first EXCEPT ![l] = Nth(s, 2)] ELSE first
      /\ last'  = IF i = Len(s) THEN [last EXCEPT ![l] = Nth(s, Len(s) - 1)] ELSE last
      /\ count' = [count EXCEPT ![l] = @ - 1]
      /\ refs'  = [refs EXCEPT ![n] = @ - 1]
      /\ alive' = IF refs[n] = 1 /\ n \notin held THEN alive \ {n} ELSE alive
      /\ held' = held
  BY DEF TakenOut, LetGo
<1>2. /\ s \in Seq(Nodes) /\ Injective(s) /\ i \in 1..Len(s) /\ Len(s) \in Nat
      /\ Elems(s) \subseteq alive /\ Len(s) = count[l]
      /\ Strung(s, first[l], last[l], next, prev)
  BY DEF Strings
<1>3. /\ first \in [Lists -> Nodes \cup {Null}] /\ last \in [Lists -> Nodes \cup {Null}]
      /\ count \in [Lists -> Nat] /\ refs \in [Nodes -> Nat]
      /\ alive \subseteq Nodes /\ held \subseteq alive
  BY DEF TypeOK
<1>4. n \in Elems(s) /\ n \in Nodes /\ n \in alive
  BY <1>2, <1>3 DEF Elems
<1>5. \A k \in Lists : n \in Elems(q[k]) => k = l
  BY <1>4 DEF Strings
<1>6. refs[n] = 1
  BY <1>4 DEF Strings
<1>7. r \in Seq(Nodes) /\ Injective(r) /\ Elems(r) = Elems(s) \ {n}
  <2> HIDE DEF s
  <2> QED BY <1>2, RemovedElems
<1>8. Len(r) = Len(s) - 1
  <2>1. \A g \in Seq(Nodes) : \A h \in 1..Len(g) : Len(Removed(g, h)) = Len(g) - 1
    BY RemovedIs
  <2> QED BY <1>2, <2>1
<1>9. (p # Null => p \in Elems(s)) /\ (t # Null => t \in Elems(s))
  BY DEF Nth, Elems
<1>10. z \in [Lists -> Seq(Nodes)] /\ \A k \in Lists : z[k] = IF k = l THEN r ELSE q[k]
  BY <1>7 DEF Strings
<1>11. \A k \in Lists : Elems(z[k]) = IF k = l THEN Elems(s) \ {n} ELSE Elems(q[k])
  BY <1>7, <1>10
<1>12. Strung(r, IF i = 1 THEN Nth(s, 2) ELSE first[l],
                 IF i = Len(s) THEN Nth(s, Len(s) - 1) ELSE last[l], next', prev')
  <2> DEFINE f == first[l]
             e == last[l]
  <2>1. \A k \in 1..Len(s) : s[k] \in Nodes /\ (s[k] = n => k = i)
    BY <1>2 DEF Injective
  <2>2. \A k \in 1..Len(s) : (s[k] = p <=> k = i - 1) /\ (s[k] = t <=> k = i + 1)
    BY <1>2, <2>1 DEF Nth, Injective
  <2>3. \A k \in 1..Len(s) : k # i =>
          /\ next'[s[k]] = IF k = i - 1 THEN t ELSE next[s[k]]
          /\ prev'[s[k]] = IF k = i + 1 THEN p ELSE prev[s[k]]
    BY <1>1, <2>1, <2>2
  <2> HIDE DEF s
  <2>5. /\ Injective(s) /\ Strung(s, f, e, next, prev)
        /\ \A k \in 1..Len(s) : k # i =>
             /\ next'[s[k]] = IF k = i - 1 THEN Nth(s, i + 1) ELSE next[s[k]]
             /\ prev'[s[k]] = IF k = i + 1 THEN Nth(s, i - 1) ELSE prev[s[k]]
    BY <1>2, <2>3
  <2>6. s \in Seq(Nodes) /\ i \in 1..Len(s)
    BY <1>2
  <2> HIDE DEF f, e, n, p, t, z
  <2>7. Strung(Removed(s, i), IF i = 1 THEN Nth(s, 2) ELSE f,
               IF i = Len(s) THEN Nth(s, Len(s) - 1) ELSE e, next', prev')
    BY <2>5, <2>6, StrungRemoved
  <2> QED BY <2>7 DEF f, e
<1>13. alive' = IF n \in held THEN alive ELSE alive \ {n}
  BY <1>1, <1>6
<1> HIDE DEF z, r, p, t
<1>14. ASSUME NEW k \in Lists
       PROVE  /\ Injective(z[k]) /\ Elems(z[k]) \subseteq alive' /\ Len(z[k]) = count'[k]
              /\ Strung(z[k], first'[k], last'[k], next', prev')
  <2>1. CASE k = l
    <3>1. /\ first'[l] = (IF i = 1 THEN Nth(s, 2) ELSE first[l])
          /\ last'[l] = (IF i = Len(s) THEN Nth(s, Len(s) - 1) ELSE last[l])
      BY <1>1, <1>3
    <3>2. Strung(r, first'[l], last'[l], next', prev')
      BY <1>12, <3>1
    <3>3. Len(r) = count'[l] /\ Elems(r) \subseteq alive'
      BY <1>1, <1>2, <1>3, <1>7, <1>8, <1>13
    <3> QED BY <1>7, <1>10, <2>1, <3>2, <3>3
  <2>2. CASE k # l
    <3>1. /\ q[k] \in Seq(Nodes) /\ Injective(q[k]) /\ Elems(q[k]) \subseteq alive
          /\ Len(q[k]) = count[k] /\ Strung(q[k], first[k], last[k], next, prev)
      BY DEF Strings
    <3>2. \A x \in Elems(q[k]) : x \in Nodes /\ x # n /\ x \notin Elems(s)
      <4>1. Elems(q[k]) \subseteq Nodes
        BY <3>1 DEF Elems
      <4> QED BY <1>5, <2>2, <4>1 DEF Strings
    <3>3. \A x \in Elems(q[k]) : next'[x] = next[x] /\ prev'[x] = prev[x]
      BY <1>1, <1>9, <3>2
    <3>4. Strung(q[k], first[k], last[k], next', prev')
      BY <3>1, <3>3, StrungElsewhere
    <3>5. first'[k] = first[k] /\ last'[k] = last[k] /\ count'[k] = count[k]
      BY <1>1, <1>3, <2>2
    <3>6. Elems(q[k]) \subseteq alive'
      BY <1>13, <3>1, <3>2
    <3> QED BY <1>10, <2>2, <3>1, <3>4, <3>5, <3>6
  <2> QED BY <2>1, <2>2
<1>15. \A k, h \in Lists : \A x \in Nodes : x \in Elems(z[k]) /\ x \in Elems(z[h]) => k = h
  BY <1>11 DEF Strings
<1>16. ASSUME NEW x \in Nodes
       PROVE  refs'[x] = IF \E k \in Lists : x \in Elems(z[k]) THEN 1 ELSE 0
  <2>1. refs[x] = IF \E k \in Lists : x \in Elems(q[k]) THEN 1 ELSE 0
    BY DEF Strings
  <2>2. CASE x = n
    <3>1. \A k \in Lists : x \notin Elems(z[k])
      BY <1>5, <1>11, <2>2
    <3>2. refs'[x] = 0
      BY <1>1, <1>3, <1>4, <1>6, <2>2
    <3> QED BY <3>1, <3>2
  <2>3. CASE x # n
    <3>1. \A k \in Lists : x \in Elems(z[k]) <=> x \in Elems(q[k])
      BY <1>11, <2>3
    <3>2. refs'[x] = refs[x]
      BY <1>1, <1>3, <2>3
    <3> QED BY <2>1, <3>1, <3>2
  <2> QED BY <2>2, <2>3
<1>17. Reusable'
  <2> SUFFICES ASSUME NEW x \in alive', refs'[x] = 0 PROVE next'[x] = Null /\ prev'[x] = Null
    BY DEF Reusable
  <2>1. x \in alive /\ x \in Nodes
    BY <1>3, <1>13
  <2>2. CASE x = n
    BY <1>1, <2>1, <2>2
  <2>3. CASE x # n
    <3>1. \A k \in Lists : x \notin Elems(z[k])
      BY <1>16, <2>1
    <3>2. x \notin Elems(s)
      BY <1>11, <2>3, <3>1
    <3>3. refs[x] = 0
      BY <1>1, <1>3, <2>1, <2>3
    <3>4. next[x] = Null /\ prev[x] = Null
      BY <2>1, <3>3 DEF Strings, Reusable
    <3>5. x # p /\ x # t
      BY <1>9, <2>1, <3>2
    <3> QED BY <1>1, <2>1, <2>3, <3>4, <3>5
  <2> QED BY <2>2, <2>3
<1>18. Strings(z)'
  BY <1>10, <1>14, <1>15, <1>16, <1>17 DEF Strings
<1>19. first' \in [Lists -> Nodes \cup {Null}] /\ last' \in [Lists -> Nodes \cup {Null}]
  <2>1. Nth(s, 2) \in Nodes \cup {Null} /\ Nth(s, Len(s) - 1) \in Nodes \cup {Null}
    BY <1>2 DEF Nth
  <2> QED BY <1>1, <1>3, <2>1
<1>20. count' \in [Lists -> Nat] /\ refs' \in [Nodes -> Nat]
  <2>1. count[l] - 1 \in Nat /\ refs[n] - 1 \in Nat
    BY <1>2, <1>6
  <2> QED BY <1>1, <1>3, <1>4, <2>1
<1> QED BY <1>1, <1>3, <1>13, <1>18, <1>19, <1>20 DEF z, r

LEMMA UnlinkIs ==
  ASSUME TypeOK, NEW q, Strings(q), NEW l \in Lists, NEW i \in 1..Len(q[l]),
         Unlink(l, q[l][i]), UNCHANGED held
  PROVE  TakenOut(q, l, i)
<1> USE ListAssumption
<1> DEFINE s == q[l]
           n == s[i]
           p == Nth(s, i - 1)
           t == Nth(s, i + 1)
<1>1. /\ s \in Seq(Nodes) /\ Len(s) \in Nat /\ Len(s) = count[l]
      /\ first[l] = Nth(s, 1) /\ last[l] = Nth(s, Len(s)) /\ next[n] = t /\ prev[n] = p
  BY DEF Strings, Strung
<1>2. /\ next \in [Nodes -> Nodes \cup {Null}] /\ prev \in [Nodes -> Nodes \cup {Null}]
      /\ first \in [Lists -> Nodes \cup {Null}] /\ last \in [Lists -> Nodes \cup {Null}]
  BY DEF TypeOK
<1>3. n \in Nodes /\ n # Null /\ p \in Nodes \cup {Null} /\ t \in Nodes \cup {Null}
  BY <1>1 DEF Nth
<1>4. (p = Null <=> i = 1) /\ (t = Null <=> i = Len(s))
  <2>1. \A k \in 1..Len(s) : s[k] # Null
    BY <1>1
  <2>2. i - 1 \in 1..Len(s) <=> i # 1
    BY <1>1
  <2>3. i + 1 \in 1..Len(s) <=> i # Len(s)
    BY <1>1
  <2> QED BY <2>1, <2>2, <2>3 DEF Nth
<1>5. count' = [count EXCEPT ![l] = @ - 1] /\ LetGo(n) /\ held' = held
  BY DEF Unlink
<1>6. /\ i = 1 => t = Nth(s, 2)
      /\ i = Len(s) => p = Nth(s, Len(s) - 1)
  BY <1>1
<1>7. CASE count[l] = 1
  <2>1. i = 1 /\ Len(s) = 1 /\ p = Null /\ t = Null
    BY <1>1, <1>4, <1>7
  <2>2. /\ first' = [first EXCEPT ![l] = Null] /\ last' = [last EXCEPT ![l] = Null]
        /\ next' = next /\ prev' = prev
    BY <1>7 DEF Unlink
  <2>3. Nth(s, 2) = Null /\ Nth(s, Len(s) - 1) = Null
    BY <1>6, <2>1
  <2>4. \A x \in Nodes :
          /\ next'[x] = IF x = n THEN Null ELSE IF x = p THEN t ELSE next[x]
          /\ prev'[x] = IF x = n THEN Null ELSE IF x = t THEN p ELSE prev[x]
    BY <1>1, <2>1, <2>2
  <2> HIDE DEF p, t
  <2>5. first' = (IF i = 1 THEN [first EXCEPT ![l] = Nth(s, 2)] ELSE first)
    BY <2>1, <2>2, <2>3
  <2>6. last' = (IF i = Len(s) THEN [last EXCEPT ![l] = Nth(s, Len(s) - 1)] ELSE last)
    BY <2>1, <2>2, <2>3
  <2> QED BY <1>2, <1>5, <2>2, <2>4, <2>5, <2>6 DEF TakenOut, p, t
<1>8. CASE count[l] # 1
  <2>1. /\ next'  = [Relink(next, p, t) EXCEPT ![n] = Null]
        /\ prev'  = [Relink(prev, t, p) EXCEPT ![n] = Null]
        /\ first' = IF p = Null THEN [first EXCEPT ![l] = t] ELSE first
        /\ last'  = IF t = Null THEN [last EXCEPT ![l] = p] ELSE last
    BY <1>1, <1>8 DEF Unlink
  <2> HIDE DEF p, t
  <2>2. /\ next' \in [Nodes -> Nodes \cup {Null}] /\ prev' \in [Nodes -> Nodes \cup {Null}]
        /\ \A x \in Nodes :
             /\ next'[x] = IF x = n THEN Null ELSE IF x = p THEN t ELSE next[x]
             /\ prev'[x] = IF x = n THEN Null ELSE IF x = t THEN p ELSE prev[x]
    BY <1>2, <1>3, <2>1 DEF Relink
  <2>3. first' = (IF i = 1 THEN [first EXCEPT ![l] = Nth(s, 2)] ELSE first)
    BY <1>4, <1>6, <2>1
  <2>4. last' = (IF i = Len(s) THEN [last EXCEPT ![l] = Nth(s, Len(s) - 1)] ELSE last)
    BY <1>4, <1>6, <2>1
  <2>5. /\ next' \in [Nodes -> Nodes \cup {Null}] /\ prev' \in [Nodes -> Nodes \cup {Null}]
        /\ \A x \in Nodes :
             /\ next'[x] = IF x = s[i] THEN Null ELSE IF x = Nth(s, i - 1) THEN Nth(s, i + 1) ELSE next[x]
             /\ prev'[x] = IF x = s[i] THEN Null ELSE IF x = Nth(s, i + 1) THEN Nth(s, i - 1) ELSE prev[x]
    BY <2>2 DEF p, t
  <2> QED BY <1>5, <2>3, <2>4, <2>5 DEF TakenOut
<1> QED BY <1>7, <1>8

LEMMA RemoveFirstIs ==
  ASSUME TypeOK, NEW q, Strings(q), NEW l \in Lists, RemoveFirst(l)
  PROVE  1 \in 1..Len(q[l]) /\ TakenOut(q, l, 1)
<1> USE ListAssumption
<1> DEFINE s == q[l]
           m == Len(s)
           n == s[1]
           t == Nth(s, 2)
<1>1. /\ s \in Seq(Nodes) /\ m \in Nat /\ m = count[l] /\ Injective(s)
      /\ first[l] = Nth(s, 1) /\ last[l] = Nth(s, m)
      /\ \A k \in 1..m : next[s[k]] = Nth(s, k + 1) /\ prev[s[k]] = Nth(s, k - 1)
  BY DEF Strings, Strung
<1>2. /\ next \in [Nodes -> Nodes \cup {Null}] /\ prev \in [Nodes -> Nodes \cup {Null}]
      /\ first \in [Lists -> Nodes \cup {Null}] /\ last \in [Lists -> Nodes \cup {Null}]
  BY DEF TypeOK
<1>3. 1 \in 1..m
  BY <1>1 DEF RemoveFirst
<1>4. /\ first[l] = n /\ n \in Nodes /\ next[n] = t /\ prev[n] = Null /\ Nth(s, 0) = Null
      /\ t \in Nodes \cup {Null}
  <2>1. next[n] = Nth(s, 1 + 1) /\ prev[n] = Nth(s, 1 - 1) /\ 1 + 1 = 2 /\ 1 - 1 = 0 /\ 0 \notin 1..m
    BY <1>1, <1>3
  <2> QED BY <1>1, <1>3, <2>1 DEF Nth
<1>5. /\ count' = [count EXCEPT ![l] = @ - 1] /\ LetGo(n) /\ held' = held
  BY <1>4 DEF RemoveFirst
<1>6. CASE count[l] = 1
  <2>1. m = 1 /\ t = Null
    BY <1>1, <1>6 DEF Nth
  <2>2. /\ first' = [first EXCEPT ![l] = Null] /\ last' = [last EXCEPT ![l] = Null]
        /\ next' = next /\ prev' = prev
    BY <1>6 DEF RemoveFirst
  <2>3. Nth(s, m - 1) = Null
    BY <1>4, <2>1
  <2>4. \A x \in Nodes :
          /\ next'[x] = IF x = n THEN Null ELSE IF x = Nth(s, 1 - 1) THEN Nth(s, 1 + 1) ELSE next[x]
          /\ prev'[x] = IF x = n THEN Null ELSE IF x = Nth(s, 1 + 1) THEN Nth(s, 1 - 1) ELSE prev[x]
    BY <1>4, <2>1, <2>2
  <2>5. first' = (IF 1 = 1 THEN [first EXCEPT ![l] = Nth(s, 2)] ELSE first)
    BY <2>1, <2>2
  <2>6. last' = (IF 1 = m THEN [last EXCEPT ![l] = Nth(s, m - 1)] ELSE last)
    BY <2>1, <2>2, <2>3
  <2> QED BY <1>2, <1>3, <1>5, <2>2, <2>4, <2>5, <2>6 DEF TakenOut
<1>7. CASE count[l] # 1
  <2>1. m # 1 /\ 2 \in 1..m
    BY <1>1, <1>3, <1>7
  <2>2. t = s[2] /\ t \in Nodes /\ t # n
    BY <1>1, <1>3, <2>1 DEF Nth, Injective
  <2>3. prev[t] = n
    BY <1>1, <1>3, <2>1, <2>2 DEF Nth
  <2>4. /\ first' = [first EXCEPT ![l] = t] /\ last' = last
        /\ next' = [next EXCEPT ![n] = Null] /\ prev' = [prev EXCEPT ![t] = Null]
    BY <1>4, <1>7, <2>3 DEF RemoveFirst
  <2>5. next' \in [Nodes -> Nodes \cup {Null}] /\ prev' \in [Nodes -> Nodes \cup {Null}]
    BY <1>2, <2>4
  <2>6. \A x \in Nodes :
          /\ next'[x] = IF x = n THEN Null ELSE IF x = Nth(s, 1 - 1) THEN Nth(s, 1 + 1) ELSE next[x]
          /\ prev'[x] = IF x = n THEN Null ELSE IF x = Nth(s, 1 + 1) THEN Nth(s, 1 - 1) ELSE prev[x]
    <3> HIDE DEF t
    <3>1. Nth(s, 1 - 1) = Null /\ Nth(s, 1 + 1) = t
      BY <1>4 DEF t
    <3> QED BY <1>2, <1>4, <2>2, <2>4, <3>1
  <2>7. last' = (IF 1 = m THEN [last EXCEPT ![l] = Nth(s, m - 1)] ELSE last)
    BY <2>1, <2>4
  <2> QED BY <1>3, <1>5, <2>4, <2>5, <2>6, <2>7 DEF TakenOut
<1> QED BY <1>6, <1>7

LEMMA RemoveLastIs ==
  ASSUME TypeOK, NEW q, Strings(q), NEW l \in Lists, RemoveLast(l)
  PROVE  Len(q[l]) \in 1..Len(q[l]) /\ TakenOut(q, l, Len(q[l]))
<1> USE ListAssumption
<1> DEFINE s == q[l]
           m == Len(s)
           n == s[m]
           t == Nth(s, m - 1)
<1>1. /\ s \in Seq(Nodes) /\ m \in Nat /\ m = count[l] /\ Injective(s)
      /\ first[l] = Nth(s, 1) /\ last[l] = Nth(s, m)
      /\ \A k \in 1..m : next[s[k]] = Nth(s, k + 1) /\ prev[s[k]] = Nth(s, k - 1)
  BY DEF Strings, Strung
<1>2. /\ next \in [Nodes -> Nodes \cup {Null}] /\ prev \in [Nodes -> Nodes \cup {Null}]
      /\ first \in [Lists -> Nodes \cup {Null}] /\ last \in [Lists -> Nodes \cup {Null}]
  BY DEF TypeOK
<1>3. m \in 1..m
  BY <1>1 DEF RemoveLast
<1>4. /\ last[l] = n /\ n \in Nodes /\ prev[n] = t /\ next[n] = Null /\ Nth(s, m + 1) = Null
      /\ t \in Nodes \cup {Null}
  <2>1. m + 1 \notin 1..m
    BY <1>1
  <2>2. Nth(s, m) = n /\ Nth(s, m + 1) = Null
    BY <1>3, <2>1 DEF Nth
  <2>3. n \in Nodes /\ t \in Nodes \cup {Null}
    BY <1>1, <1>3 DEF Nth
  <2>4. last[l] = Nth(s, m) /\ next[n] = Nth(s, m + 1) /\ prev[n] = t
    BY <1>1, <1>3
  <2> QED BY <2>2, <2>3, <2>4
<1>5. /\ count' = [count EXCEPT ![l] = @ - 1] /\ LetGo(n) /\ held' = held
  BY <1>4 DEF RemoveLast
<1>6. CASE count[l] = 1
  <2>1. m = 1 /\ t = Null
    BY <1>1, <1>6 DEF Nth
  <2>2. /\ first' = [first EXCEPT ![l] = Null] /\ last' = [last EXCEPT ![l] = Null]
        /\ next' = next /\ prev' = prev
    BY <1>6 DEF RemoveLast
  <2>3. Nth(s, 2) = Null
    BY <1>4, <2>1
  <2>4. \A x \in Nodes :
          /\ next'[x] = IF x = n THEN Null ELSE IF x = Nth(s, m - 1) THEN Nth(s, m + 1) ELSE next[x]
          /\ prev'[x] = IF x = n THEN Null ELSE IF x = Nth(s, m + 1) THEN Nth(s, m - 1) ELSE prev[x]
    BY <1>4, <2>1, <2>2
  <2>5. first' = (IF m = 1 THEN [first EXCEPT ![l] = Nth(s, 2)] ELSE first)
    BY <2>1, <2>2, <2>3
  <2>6. last' = (IF m = m THEN [last EXCEPT ![l] = Nth(s, m - 1)] ELSE last)
    BY <2>1, <2>2
  <2> QED BY <1>2, <1>3, <1>5, <2>2, <2>4, <2>5, <2>6 DEF TakenOut
<1>7. CASE count[l] # 1
  <2>1. m # 1 /\ m - 1 \in 1..m /\ m - 1 + 1 = m
    BY <1>1, <1>3, <1>7
  <2>2. t = s[m - 1] /\ t \in Nodes /\ t # n
    <3>1. t = s[m - 1]
      BY <2>1 DEF Nth
    <3>2. s[m - 1] \in Nodes
      BY <1>1, <2>1
    <3>3. s[m - 1] = s[m] => m - 1 = m
      BY <1>1, <1>3, <2>1 DEF Injective
    <3> QED BY <1>1, <3>1, <3>2, <3>3
  <2>3. next[t] = n
    BY <1>1, <1>3, <2>1, <2>2 DEF Nth
  <2>4. /\ last' = [last EXCEPT ![l] = t] /\ first' = first
        /\ prev' = [prev EXCEPT ![n] = Null] /\ next' = [next EXCEPT ![t] = Null]
    BY <1>4, <1>7, <2>3 DEF RemoveLast
  <2>5. next' \in [Nodes -> Nodes \cup {Null}] /\ prev' \in [Nodes -> Nodes \cup {Null}]
    BY <1>2, <2>4
  <2>6. \A x \in Nodes :
          /\ next'[x] = IF x = n THEN Null ELSE IF x = Nth(s, m - 1) THEN Nth(s, m + 1) ELSE next[x]
          /\ prev'[x] = IF x = n THEN Null ELSE IF x = Nth(s, m + 1) THEN Nth(s, m - 1) ELSE prev[x]
    <3> HIDE DEF t
    <3>1. Nth(s, m - 1) = t
      BY DEF t
    <3> QED BY <1>2, <1>4, <2>2, <2>4, <3>1
  <2>7. first' = (IF m = 1 THEN [first EXCEPT ![l] = Nth(s, 2)] ELSE first)
    BY <2>1, <2>4
  <2> QED BY <1>3, <1>5, <2>4, <2>5, <2>6, <2>7 DEF TakenOut
<1> QED BY <1>6, <1>7

-----------------------------------------------------------------------------
(* Where the calls that add put the node.                                  *)
LEMMA RankIs ==
  ASSUME NEW q, Strings(q), q = Order, NEW l \in Lists, NEW x \in Members(l)
  PROVE  /\ Rank(l, x) \in 0..Len(q[l]) - 1 /\ q[l][Rank(l, x) + 1] = x
         /\ Len(q[l]) = count[l] /\ Rank(l, x) + 1 \in 1..Len(q[l]) /\ x \in Nodes
<1>1. Chain(l) = q[l] /\ x \in Elems(q[l]) /\ Len(q[l]) = count[l] /\ q[l] \in Seq(Nodes)
  BY MembersAre DEF Strings
<1>2. PICK k \in 1..Len(q[l]) : q[l][k] = x
  BY <1>1 DEF Elems
<1>3. k - 1 \in 0..count[l] - 1 /\ Chain(l)[k - 1 + 1] = x
  BY <1>1, <1>2
<1>4. Rank(l, x) \in 0..count[l] - 1 /\ Chain(l)[Rank(l, x) + 1] = x
  BY <1>3 DEF Rank
<1> QED BY <1>1, <1>4

LEMMA AddAfterIs ==
  ASSUME NEW q, Strings(q), q = Order, NEW l \in Lists, NEW n \in Nodes, NEW c \in Cursors,
         AddAfter(l, c, n)
  PROVE  \E i \in 0..Len(q[l]) :
           /\ i = IF IsValid(at[c]) THEN Rank(l, at[c]) + 1 ELSE 0
           /\ Insert(l, Nth(q[l], i), n, Nth(q[l], i + 1))
<1> DEFINE s == q[l]
           m == Len(s)
<1>1. /\ s \in Seq(Nodes) /\ m \in Nat /\ m = count[l] /\ Injective(s)
      /\ first[l] = Nth(s, 1) /\ last[l] = Nth(s, m)
      /\ \A k \in 1..m : next[s[k]] = Nth(s, k + 1)
  BY DEF Strings, Strung
<1>2. Nth(s, 0) = Null /\ Nth(s, m + 1) = Null /\ 0 \in 0..m
  BY <1>1 DEF Nth
<1>3. CASE count[l] = 0
  <2>1. ~IsValid(at[c]) /\ Insert(l, Null, n, Null)
    BY <1>3 DEF AddAfter
  <2>2. Insert(l, Nth(s, 0), n, Nth(s, 0 + 1))
    BY <1>1, <1>2, <1>3, <2>1
  <2> QED BY <1>2, <2>1, <2>2
<1>4. CASE count[l] # 0 /\ at[c] = Before
  <2>1. ~IsValid(at[c]) /\ Insert(l, Null, n, first[l])
    <3>1. last[l] # Before
      BY <1>1, ListAssumption DEF Nth
    <3> QED BY <1>4, <3>1 DEF AddAfter, AddFirst, IsValid
  <2>2. Insert(l, Nth(s, 0), n, Nth(s, 0 + 1))
    BY <1>1, <1>2, <2>1
  <2> QED BY <1>2, <2>1, <2>2
<1>5. CASE count[l] # 0 /\ at[c] # Before
  <2> DEFINE x == at[c]
             i == Rank(l, x) + 1
  <2>1. IsValid(x) /\ x \in Members(l)
    BY <1>5 DEF AddAfter, IsValid, Sound
  <2>2. s[i] = x /\ i \in 1..m /\ i \in 0..m /\ next[x] = Nth(s, i + 1) /\ Nth(s, i) = x
    <3>1. s[i] = x /\ i \in 1..m
      BY <2>1, RankIs
    <3> QED BY <1>1, <3>1 DEF Nth
  <2>3. CASE x = last[l]
    <3>1. Insert(l, last[l], n, Null)
      BY <1>5, <2>3 DEF AddAfter
    <3>2. m \in 1..m /\ s[m] = x
      BY <1>1, <2>2, <2>3 DEF Nth
    <3>3. i = m
      BY <1>1, <2>2, <3>2 DEF Injective
    <3>4. Insert(l, Nth(s, i), n, Nth(s, i + 1))
      BY <1>2, <2>2, <2>3, <3>1, <3>3
    <3> QED BY <2>1, <2>2, <3>4
  <2>4. CASE x # last[l]
    <3>1. Insert(l, x, n, next[x])
      BY <1>5, <2>4 DEF AddAfter
    <3> QED BY <2>1, <2>2, <3>1
  <2> QED BY <2>3, <2>4
<1> QED BY <1>3, <1>4, <1>5

LEMMA AddBeforeIs ==
  ASSUME NEW q, Strings(q), q = Order, NEW l \in Lists, NEW n \in Nodes, NEW c \in Cursors,
         AddBefore(l, c, n)
  PROVE  \E i \in 0..Len(q[l]) :
           /\ i = IF IsValid(at[c]) THEN Rank(l, at[c]) ELSE count[l]
           /\ Insert(l, Nth(q[l], i), n, Nth(q[l], i + 1))
<1> DEFINE s == q[l]
           m == Len(s)
<1>1. /\ s \in Seq(Nodes) /\ m \in Nat /\ m = count[l] /\ Injective(s)
      /\ first[l] = Nth(s, 1) /\ last[l] = Nth(s, m)
      /\ \A k \in 1..m : prev[s[k]] = Nth(s, k - 1)
  BY DEF Strings, Strung
<1>2. Nth(s, 0) = Null /\ Nth(s, m + 1) = Null /\ m \in 0..m
  BY <1>1 DEF Nth
<1>3. CASE count[l] = 0
  <2>1. ~IsValid(at[c]) /\ Insert(l, Null, n, Null)
    BY <1>3 DEF AddBefore
  <2>2. Insert(l, Nth(s, m), n, Nth(s, m + 1))
    BY <1>1, <1>2, <1>3, <2>1
  <2> QED BY <1>1, <1>2, <2>1, <2>2
<1>4. CASE count[l] # 0 /\ at[c] = Null
  <2>1. ~IsValid(at[c]) /\ Insert(l, last[l], n, Null)
    <3>1. first[l] # Null
      <4>1. 1 \in 1..m
        BY <1>1, <1>4
      <4> QED BY <1>1, <4>1, ListAssumption DEF Nth
    <3>2. Null # Before
      BY ListAssumption
    <3> QED BY <1>4, <3>1, <3>2 DEF AddBefore, AddLast, IsValid
  <2>2. Insert(l, Nth(s, m), n, Nth(s, m + 1))
    BY <1>1, <1>2, <2>1
  <2> QED BY <1>1, <1>2, <2>1, <2>2
<1>5. CASE count[l] # 0 /\ at[c] # Null
  <2> DEFINE x == at[c]
             i == Rank(l, x)
  <2>1. IsValid(x) /\ x \in Members(l)
    BY <1>5 DEF AddBefore, IsValid, Sound
  <2>2. /\ s[i + 1] = x /\ i + 1 \in 1..m /\ i \in 0..m /\ prev[x] = Nth(s, i)
        /\ Nth(s, i + 1) = x
    <3>1. s[i + 1] = x /\ i + 1 \in 1..m /\ i \in 0..m - 1
      BY <2>1, RankIs
    <3>2. i + 1 - 1 = i /\ i \in 0..m
      BY <1>1, <3>1
    <3> QED BY <1>1, <3>1, <3>2 DEF Nth
  <2>3. CASE x = first[l]
    <3>1. Insert(l, Null, n, first[l])
      BY <1>5, <2>3 DEF AddBefore
    <3>2. 1 \in 1..m /\ s[1] = x
      BY <1>1, <2>2, <2>3 DEF Nth
    <3>3. i = 0
      BY <1>1, <2>2, <3>2 DEF Injective
    <3>4. Insert(l, Nth(s, i), n, Nth(s, i + 1))
      BY <1>2, <2>2, <2>3, <3>1, <3>3
    <3> QED BY <2>1, <2>2, <3>4
  <2>4. CASE x # first[l]
    <3>1. Insert(l, prev[x], n, x)
      BY <1>5, <2>4 DEF AddBefore
    <3> QED BY <2>1, <2>2, <3>1
  <2> QED BY <2>3, <2>4
<1> QED BY <1>3, <1>4, <1>5

LEMMA AddsIs ==
  ASSUME NEW q, Strings(q), q = Order, NEW l \in Lists, NEW n \in Nodes, Adds(l, n)
  PROVE  \E i \in 1..Len(q[l]) + 1 : Insert(l, Nth(q[l], i - 1), n, Nth(q[l], i))
<1> DEFINE s == q[l]
           m == Len(s)
<1>1. m \in Nat /\ first[l] = Nth(s, 1) /\ last[l] = Nth(s, m)
  BY DEF Strings, Strung
<1>2. ASSUME NEW i \in 0..m, Insert(l, Nth(s, i), n, Nth(s, i + 1))
      PROVE  \E h \in 1..m + 1 : Insert(l, Nth(s, h - 1), n, Nth(s, h))
  <2>1. i + 1 \in 1..m + 1 /\ i + 1 - 1 = i
    BY <1>1
  <2> QED BY <1>2, <2>1
<1>3. CASE AddFirst(l, n)
  <2>1. Nth(s, 0) = Null /\ 0 \in 0..m
    BY <1>1 DEF Nth
  <2>2. Insert(l, Nth(s, 0), n, Nth(s, 0 + 1))
    BY <1>1, <1>3, <2>1 DEF AddFirst
  <2> QED BY <1>2, <2>1, <2>2
<1>4. CASE AddLast(l, n)
  <2>1. Nth(s, m + 1) = Null /\ m \in 0..m
    BY <1>1 DEF Nth
  <2>2. Insert(l, Nth(s, m), n, Nth(s, m + 1))
    BY <1>1, <1>4, <2>1 DEF AddLast
  <2> QED BY <1>2, <2>1, <2>2
<1>5. ASSUME NEW c \in Cursors, AddAfter(l, c, n)
      PROVE  \E h \in 1..m + 1 : Insert(l, Nth(s, h - 1), n, Nth(s, h))
  BY <1>2, <1>5, AddAfterIs
<1>6. ASSUME NEW c \in Cursors, AddBefore(l, c, n)
      PROVE  \E h \in 1..m + 1 : Insert(l, Nth(s, h - 1), n, Nth(s, h))
  BY <1>2, <1>6, AddBeforeIs
<1> QED BY <1>3, <1>4, <1>5, <1>6 DEF Adds

-----------------------------------------------------------------------------
(***************************************************************************)
(* Every step keeps the invariant, and does to the sequences what the call *)
(* promises.                                                               *)
(***************************************************************************)
Entered(l, i, n) ==
  /\ n \in alive /\ \A k \in Lists : n \notin Elems(Order[k])
  /\ Order' = [Order EXCEPT ![l] = Inserted(@, i, n)]
  /\ UNCHANGED <<alive, held, of, at>>

Left(l, i) ==
  LET n == Order[l][i]
  IN /\ Order' = [Order EXCEPT ![l] = Removed(@, i)]
     /\ alive' = IF n \in held THEN alive ELSE alive \ {n}
     /\ \/ UNCHANGED at
        \/ \E c \in Cursors : of[c] = l /\ at[c] = n /\ at' = [at EXCEPT ![c] = Null]
     /\ UNCHANGED <<held, of>>

LEMMA OrderLen ==
  ASSUME IInv, NEW l \in Lists
  PROVE  Len(Order[l]) = count[l] /\ Order[l] \in Seq(Nodes) /\ Injective(Order[l])
BY DEF IInv, Strings

LEMMA InsertKeeps ==
  ASSUME IInv, NEW l \in Lists, NEW n \in Nodes, Unshared(l, n), NEW i \in 1..count[l] + 1,
         Insert(l, Nth(Order[l], i - 1), n, Nth(Order[l], i))
  PROVE  IInv' /\ Entered(l, i, n)
<1>1. PICK q : q = Order
  OBVIOUS
<1>2. PICK z : z = [q EXCEPT ![l] = Inserted(@, i, n)]
  OBVIOUS
<1>3. /\ TypeOK /\ Strings(q) /\ i \in 1..Len(q[l]) + 1
      /\ Insert(l, Nth(q[l], i - 1), n, Nth(q[l], i))
  <2>1. Strings(Order) /\ TypeOK
    BY DEF IInv
  <2> QED BY <1>1, <2>1, OrderLen
<1>4. Strings(z)' /\ TypeOK' /\ \A k \in Lists : n \notin Elems(q[k])
  BY <1>1, <1>2, <1>3, InsertIs
<1>5. Order' = z
  BY <1>4, OrderAfter
<1>6. clearing' = Null /\ n \in alive /\ UNCHANGED <<alive, held, of, at>>
  BY DEF Insert, cursor, loop
<1>7. Strings(Order)'
  BY <1>4, <1>5 DEF Strings
<1> QED BY <1>1, <1>2, <1>4, <1>5, <1>6, <1>7 DEF IInv, Entered

LEMMA AddsKeep ==
  ASSUME IInv, NEW l \in Lists, NEW n \in Nodes, Unshared(l, n), Adds(l, n)
  PROVE  IInv' /\ \E i \in 1..Len(Order[l]) + 1 : Entered(l, i, n)
<1>1. PICK q : q = Order
  OBVIOUS
<1>2. Strings(q)
  BY <1>1 DEF IInv
<1>3. PICK i \in 1..Len(q[l]) + 1 : Insert(l, Nth(q[l], i - 1), n, Nth(q[l], i))
  BY <1>1, <1>2, AddsIs
<1>4. i \in 1..count[l] + 1 /\ Insert(l, Nth(Order[l], i - 1), n, Nth(Order[l], i))
  BY <1>1, <1>3, OrderLen
<1> QED BY <1>1, <1>4, InsertKeeps

\* What is left to be said of a call that takes a node out.
LEMMA TakenOutKeeps ==
  ASSUME IInv, NEW l \in Lists, NEW q, q = Order, NEW i \in 1..Len(q[l]), TakenOut(q, l, i),
         of' = of, at' \in [Cursors -> Nodes \cup {Null, Before}],
         \/ UNCHANGED at
         \/ \E c \in Cursors : of[c] = l /\ at[c] = q[l][i] /\ at' = [at EXCEPT ![c] = Null],
         clearing' \in Lists \cup {Null}, sweep' \in Nodes \cup {Null},
         clearing' # Null => sweep' = first'[clearing']
  PROVE  IInv' /\ Left(l, i)
<1>1. PICK z : z = [q EXCEPT ![l] = Removed(@, i)]
  OBVIOUS
<1>2. TypeOK /\ Strings(q)
  BY DEF IInv
<1>3. /\ Strings(z)'
      /\ first' \in [Lists -> Nodes \cup {Null}] /\ last' \in [Lists -> Nodes \cup {Null}]
      /\ count' \in [Lists -> Nat] /\ refs' \in [Nodes -> Nat]
      /\ alive' \subseteq Nodes /\ held' \subseteq alive'
      /\ alive' = IF q[l][i] \in held THEN alive ELSE alive \ {q[l][i]}
  BY <1>1, <1>2, TakenOutIs
<1>4. /\ next' \in [Nodes -> Nodes \cup {Null}] /\ prev' \in [Nodes -> Nodes \cup {Null}]
      /\ held' = held
  BY DEF TakenOut
<1>5. TypeOK'
  BY <1>2, <1>3, <1>4 DEF TypeOK
<1>6. Order' = z
  BY <1>3, OrderAfter
<1>7. Strings(Order)'
  BY <1>3, <1>6 DEF Strings
<1>8. Left(l, i)
  BY <1>1, <1>3, <1>4, <1>6 DEF Left
<1> QED BY <1>5, <1>7, <1>8 DEF IInv

LEMMA UnlinkKeeps ==
  ASSUME IInv, NEW l \in Lists, NEW n, n \in Members(l), Unlink(l, n), UNCHANGED <<held, of, loop>>,
         clearing = Null,
         UNCHANGED at \/ \E c \in Cursors : of[c] = l /\ at[c] = n /\ at' = [at EXCEPT ![c] = Null]
  PROVE  IInv' /\ \E i \in 1..Len(Order[l]) : Left(l, i)
<1>1. PICK q : q = Order
  OBVIOUS
<1>2. TypeOK /\ Strings(q)
  BY <1>1 DEF IInv
<1>3. PICK i \in 1..Len(q[l]) : q[l][i] = n
  BY <1>1, <1>2, MembersAre DEF Elems
<1>4. TakenOut(q, l, i)
  BY <1>2, <1>3, UnlinkIs
<1>5. at' \in [Cursors -> Nodes \cup {Null, Before}]
  BY <1>2 DEF TypeOK
<1>6. clearing' = Null /\ sweep' \in Nodes \cup {Null} /\ of' = of
  BY <1>2 DEF TypeOK, loop
<1>7. IInv' /\ Left(l, i)
  BY <1>1, <1>3, <1>4, <1>5, <1>6, TakenOutKeeps
<1> QED BY <1>1, <1>7

LEMMA RemovesKeep ==
  ASSUME IInv, NEW l \in Lists,
         \/ \E n \in Nodes : RemoveNode(l, n)
         \/ \E c \in Cursors : RemoveIterator(l, c)
         \/ RemoveFirst(l) \/ RemoveLast(l)
  PROVE  IInv' /\ \E i \in 1..Len(Order[l]) : Left(l, i)
<1>1. CASE \E n \in Nodes : RemoveNode(l, n)
  BY <1>1, UnlinkKeeps DEF RemoveNode, cursor
<1>2. ASSUME NEW c \in Cursors, RemoveIterator(l, c)
      PROVE  IInv' /\ \E i \in 1..Len(Order[l]) : Left(l, i)
  <2>1. at[c] \in Members(l) /\ Unlink(l, at[c]) /\ UNCHANGED <<held, of, loop>> /\ clearing = Null
    BY <1>2 DEF RemoveIterator, Sound, Unlink
  <2>2. of[c] = l /\ at' = [at EXCEPT ![c] = Null]
    BY <1>2 DEF RemoveIterator
  <2> QED BY <2>1, <2>2, UnlinkKeeps
<1>3. CASE RemoveFirst(l) \/ RemoveLast(l)
  <2>1. PICK q : q = Order
    OBVIOUS
  <2>2. TypeOK /\ Strings(q)
    BY <2>1 DEF IInv
  <2>3. PICK i \in 1..Len(q[l]) : TakenOut(q, l, i)
    BY <1>3, <2>2, RemoveFirstIs, RemoveLastIs
  <2>4. clearing' = Null /\ UNCHANGED <<of, at, sweep>>
    BY <1>3 DEF RemoveFirst, RemoveLast, cursor, loop
  <2>5. at' \in [Cursors -> Nodes \cup {Null, Before}] /\ sweep' \in Nodes \cup {Null}
    BY <2>2, <2>4 DEF TypeOK
  <2>6. IInv' /\ Left(l, i)
    BY <2>1, <2>3, <2>4, <2>5, TakenOutKeeps
  <2> QED BY <2>1, <2>6
<1> QED BY <1>1, <1>2, <1>3

LEMMA ClearStepKeeps ==
  ASSUME IInv, ClearStep
  PROVE  IInv' /\ \E l \in Lists : \E i \in 1..Len(Order[l]) : Left(l, i)
<1> USE ListAssumption
<1>1. PICK q, l : q = Order /\ l = clearing
  OBVIOUS
<1>2. TypeOK /\ Strings(q) /\ l \in Lists /\ sweep = first[l]
  BY <1>1 DEF IInv, ClearStep, TypeOK
<1>3. Unlink(l, sweep) /\ sweep' = next[sweep] /\ UNCHANGED <<held, of, at, clearing>> /\ sweep # Null
  BY <1>1 DEF ClearStep, cursor
<1>4. /\ q[l] \in Seq(Nodes) /\ first[l] = Nth(q[l], 1)
      /\ \A i \in 1..Len(q[l]) : next[q[l][i]] = Nth(q[l], i + 1)
  BY <1>2 DEF Strings, Strung
<1>5. 1 \in 1..Len(q[l]) /\ q[l][1] = sweep
  BY <1>2, <1>3, <1>4 DEF Nth
<1>6. TakenOut(q, l, 1)
  BY <1>2, <1>3, <1>5, UnlinkIs
<1>7. next[sweep] = Nth(q[l], 1 + 1) /\ 1 + 1 = 2
  BY <1>4, <1>5
<1>8. sweep' = first'[l]
  <2>1. first' = [first EXCEPT ![l] = Nth(q[l], 2)] /\ first \in [Lists -> Nodes \cup {Null}]
    BY <1>2, <1>6 DEF TakenOut, TypeOK
  <2> QED BY <1>2, <1>3, <1>7, <2>1
<1>9. sweep' \in Nodes \cup {Null} /\ at' \in [Cursors -> Nodes \cup {Null, Before}]
  BY <1>2, <1>3, <1>4, <1>7 DEF TypeOK, Nth
<1>10. clearing' \in Lists \cup {Null} /\ (clearing' # Null => sweep' = first'[clearing'])
  BY <1>1, <1>2, <1>3, <1>8
<1>11. IInv' /\ Left(l, 1)
  BY <1>1, <1>2, <1>3, <1>5, <1>6, <1>9, <1>10, TakenOutKeeps
<1> QED BY <1>1, <1>2, <1>5, <1>11

\* The sequences do not notice what happens to other nodes.
LEMMA LinksKept ==
  ASSUME NEW q, Strings(q), UNCHANGED <<first, last, count, refs>>, Reusable',
         \A l \in Lists : \A x \in Elems(q[l]) :
           x \in alive' /\ next'[x] = next[x] /\ prev'[x] = prev[x]
  PROVE  Strings(q)'
<1>1. ASSUME NEW l \in Lists
      PROVE  Strung(q[l], first'[l], last'[l], next', prev') /\ Elems(q[l]) \subseteq alive'
  <2>1. q[l] \in Seq(Nodes) /\ Strung(q[l], first[l], last[l], next, prev)
    BY DEF Strings
  <2>2. Strung(q[l], first[l], last[l], next', prev')
    BY <2>1, StrungElsewhere
  <2> QED BY <2>2
<1> QED BY <1>1 DEF Strings

LEMMA NodesKeep ==
  ASSUME IInv, NEW n \in Nodes, New(n) \/ Hold(n) \/ Unhold(n)
  PROVE  IInv' /\ Order' = Order
<1>1. PICK q : q = Order
  OBVIOUS
<1>2. TypeOK /\ Strings(q) /\ clearing' = clearing
  BY <1>1 DEF IInv, New, Hold, Unhold, loop
<1>3. /\ UNCHANGED <<first, last, count, refs, of, at, clearing, sweep>>
      /\ \A x \in Nodes : x # n => next'[x] = next[x] /\ prev'[x] = prev[x]
  BY <1>2 DEF New, Hold, Unhold, links, cursor, loop, TypeOK
<1>4. \A l \in Lists : Elems(q[l]) \subseteq alive
  BY <1>2 DEF Strings
<1>5. TypeOK' /\ Reusable' /\ \A l \in Lists : \A x \in Elems(q[l]) :
        x \in alive' /\ next'[x] = next[x] /\ prev'[x] = prev[x]
  <2>1. CASE New(n)
    <3>1. /\ alive' = alive \cup {n} /\ held' = held /\ n \notin alive
          /\ next' = [next EXCEPT ![n] = Null] /\ prev' = [prev EXCEPT ![n] = Null]
      BY <2>1 DEF New
    <3>2. TypeOK'
      BY <1>2, <1>3, <3>1 DEF TypeOK
    <3>3. Reusable'
      BY <1>2, <1>3, <3>1 DEF Strings, Reusable, TypeOK
    <3>4. \A l \in Lists : \A x \in Elems(q[l]) : x \in alive' /\ x # n /\ x \in Nodes
      BY <1>2, <1>4, <3>1 DEF TypeOK
    <3> QED BY <1>3, <3>2, <3>3, <3>4
  <2>2. CASE Hold(n)
    <3>1. n \in alive /\ held' = held \cup {n} /\ UNCHANGED <<next, prev, alive>>
      BY <2>2 DEF Hold, links
    <3> QED BY <1>2, <1>3, <1>4, <3>1 DEF TypeOK, Strings, Reusable
  <2>3. CASE Unhold(n)
    <3>1. /\ held' = held \ {n} /\ UNCHANGED <<next, prev>>
          /\ alive' = IF refs[n] = 0 THEN alive \ {n} ELSE alive
      BY <2>3 DEF Unhold, links
    <3>2. TypeOK'
      BY <1>2, <1>3, <3>1 DEF TypeOK
    <3>3. refs[n] = 0 => \A l \in Lists : n \notin Elems(q[l])
      BY <1>2 DEF Strings
    <3> QED BY <1>2, <1>3, <1>4, <3>1, <3>2, <3>3 DEF Strings, Reusable
  <2> QED BY <2>1, <2>2, <2>3
<1>6. Strings(q)'
  BY <1>2, <1>3, <1>5, LinksKept
<1>7. Order' = q
  BY <1>6, OrderAfter
<1>8. Strings(Order)'
  BY <1>6, <1>7 DEF Strings
<1> QED BY <1>1, <1>3, <1>5, <1>7, <1>8 DEF IInv

LEMMA ListsUntouched ==
  ASSUME IInv, UNCHANGED <<links, alive, refs>>, TypeOK', clearing' # Null => sweep' = first'[clearing']
  PROVE  IInv' /\ Order' = Order
<1>1. PICK q : q = Order
  OBVIOUS
<1>2. Strings(q)
  BY <1>1 DEF IInv
<1>3. UNCHANGED <<next, prev, first, last, count, alive, refs>>
  BY DEF links
<1>4. Strings(q)'
  BY <1>2, <1>3 DEF Strings, Reusable
<1>5. Order' = q
  BY <1>4, OrderAfter
<1>6. Strings(Order)'
  BY <1>4, <1>5 DEF Strings
<1> QED BY <1>1, <1>5, <1>6 DEF IInv

LEMMA ClearKeeps ==
  ASSUME IInv, ClearEnd \/ \E l \in Lists : ClearBegin(l)
  PROVE  IInv' /\ Order' = Order
<1> USE ListAssumption
<1>1. CASE \E l \in Lists : ClearBegin(l)
  <2>1. PICK l \in Lists : ClearBegin(l)
    BY <1>1
  <2>2. /\ clearing' = l /\ sweep' = first[l]
        /\ UNCHANGED <<links, alive, refs, held, of, at>>
    BY <2>1 DEF ClearBegin, cursor
  <2>3. TypeOK'
    BY <2>2 DEF IInv, TypeOK, links
  <2> QED BY <2>2, <2>3, ListsUntouched DEF links
<1>2. CASE ClearEnd
  <2>1. PICK l, q : l = clearing /\ q = Order
    OBVIOUS
  <2>2. TypeOK /\ Strings(q) /\ l \in Lists /\ first[l] = Null
    BY <1>2, <2>1 DEF IInv, ClearEnd, TypeOK
  <2>3. q[l] \in Seq(Nodes) /\ Nth(q[l], 1) = Null /\ last[l] = Nth(q[l], Len(q[l])) /\ count[l] = Len(q[l])
    BY <2>2 DEF Strings, Strung
  <2>4. count[l] = 0 /\ last[l] = Null
    <3>1. Len(q[l]) \in Nat /\ \A i \in 1..Len(q[l]) : q[l][i] # Null
      BY <2>3
    <3>2. Len(q[l]) = 0
      BY <2>3, <3>1 DEF Nth
    <3> QED BY <2>3, <3>2 DEF Nth
  <2>5. /\ first' = [first EXCEPT ![l] = Null] /\ last' = [last EXCEPT ![l] = Null]
        /\ count' = [count EXCEPT ![l] = 0] /\ clearing' = Null
        /\ UNCHANGED <<next, prev, alive, refs, held, of, at, sweep>>
    BY <1>2, <2>1 DEF ClearEnd, cursor
  <2>6. first' = first /\ last' = last /\ count' = count
    BY <2>2, <2>4, <2>5 DEF TypeOK
  <2>7. TypeOK'
    BY <2>2, <2>5, <2>6 DEF TypeOK
  <2> QED BY <2>5, <2>6, <2>7, ListsUntouched DEF links
<1> QED BY <1>1, <1>2

LEMMA CursorsKeep ==
  ASSUME IInv, NEW c \in Cursors,
         GoNext(c) \/ GoPrevious(c) \/ \E l \in Lists, x \in Nodes \cup {Null} : Seek(c, l, x)
  PROVE  IInv' /\ Order' = Order
<1> USE ListAssumption
<1>1. UNCHANGED <<links, alive, held, refs, clearing, sweep>>
  BY DEF GoNext, GoPrevious, Seek, loop
<1>2. TypeOK
  BY DEF IInv
<1>3. of' \in [Cursors -> Lists] /\ at' \in [Cursors -> Nodes \cup {Null, Before}]
  <2>1. CASE GoNext(c)
    <3>1. at[c] \in Nodes \cup {Before} /\ of[c] \in Lists
      BY <1>2, <2>1 DEF TypeOK, GoNext
    <3>2. (IF at[c] = Before THEN first[of[c]] ELSE next[at[c]]) \in Nodes \cup {Null}
      BY <1>2, <3>1 DEF TypeOK
    <3> QED BY <1>2, <2>1, <3>2 DEF TypeOK, GoNext
  <2>2. CASE GoPrevious(c)
    <3>1. at[c] \in Nodes \cup {Null} /\ of[c] \in Lists
      BY <1>2, <2>2 DEF TypeOK, GoPrevious
    <3>2. (IF at[c] = Null THEN last[of[c]]
           ELSE IF prev[at[c]] = Null THEN Before ELSE prev[at[c]]) \in Nodes \cup {Null, Before}
      BY <1>2, <3>1 DEF TypeOK
    <3> QED BY <1>2, <2>2, <3>2 DEF TypeOK, GoPrevious
  <2>3. CASE \E l \in Lists, x \in Nodes \cup {Null} : Seek(c, l, x)
    BY <1>2, <2>3 DEF TypeOK, Seek
  <2> QED BY <2>1, <2>2, <2>3
<1>4. TypeOK'
  BY <1>1, <1>2, <1>3 DEF TypeOK, links
<1> QED BY <1>1, <1>4, ListsUntouched DEF links, IInv

LEMMA InitIInv == Init => IInv /\ \A l \in Lists : Order[l] = <<>>
<1> SUFFICES ASSUME Init PROVE IInv /\ \A l \in Lists : Order[l] = <<>>
  OBVIOUS
<1>1. PICK q : q = [l \in Lists |-> <<>>]
  OBVIOUS
<1>2. /\ q \in [Lists -> Seq(Nodes)]
      /\ \A l \in Lists : q[l] = <<>> /\ Elems(q[l]) = {} /\ Len(q[l]) = 0
  BY <1>1 DEF Elems
<1>3. \A l \in Lists : /\ Injective(q[l]) /\ Elems(q[l]) \subseteq alive /\ Len(q[l]) = count[l]
                       /\ Strung(q[l], first[l], last[l], next, prev)
  BY <1>2 DEF Injective, Strung, Nth, Init
<1>4. Strings(q)
  BY <1>2, <1>3 DEF Strings, Reusable, Init
<1>5. Order = q
  BY <1>4, OrderIs
<1>6. TypeOK
  BY DEF Init, TypeOK
<1>7. clearing = Null
  BY DEF Init
<1> QED BY <1>2, <1>4, <1>5, <1>6, <1>7 DEF IInv

LEMMA StepIInv == IInv /\ [Next]_vars => IInv'
<1> SUFFICES ASSUME IInv, [Next]_vars PROVE IInv'
  OBVIOUS
<1>1. ASSUME NEW l \in Lists, NEW n \in Nodes, Unshared(l, n), Adds(l, n) PROVE IInv'
  BY <1>1, AddsKeep
<1>2. ASSUME NEW n \in Nodes, New(n) \/ Hold(n) \/ Unhold(n) PROVE IInv'
  BY <1>2, NodesKeep
<1>3. ASSUME NEW l \in Lists,
             \/ \E n \in Nodes : RemoveNode(l, n)
             \/ \E c \in Cursors : RemoveIterator(l, c)
             \/ RemoveFirst(l) \/ RemoveLast(l)
      PROVE  IInv'
  BY <1>3, RemovesKeep
<1>4. CASE ClearEnd \/ \E l \in Lists : ClearBegin(l)
  BY <1>4, ClearKeeps
<1>5. ASSUME NEW c \in Cursors,
             GoNext(c) \/ GoPrevious(c) \/ \E l \in Lists, x \in Nodes \cup {Null} : Seek(c, l, x)
      PROVE  IInv'
  BY <1>5, CursorsKeep
<1>6. CASE UNCHANGED vars
  <2>1. TypeOK' /\ UNCHANGED <<links, alive, refs, clearing, sweep>>
    BY <1>6 DEF IInv, TypeOK, vars, links
  <2> QED BY <2>1, ListsUntouched DEF links, IInv
<1> QED BY <1>1, <1>2, <1>3, <1>4, <1>5, <1>6, ClearStepKeeps DEF Next, Others

LEMMA Invariance == Spec => []IInv
<1>1. Init => IInv
  BY InitIInv
<1> QED BY <1>1, StepIInv, PTL DEF Spec

-----------------------------------------------------------------------------
(* What the invariant says of the lists.                                   *)
LEMMA AtMostOne ==
  ASSUME NEW S, \A x, y \in S : x = y
  PROVE  Cardinality(S) = IF S = {} THEN 0 ELSE 1
<1>1. CASE S = {}
  BY <1>1, FS_EmptySet
<1>2. CASE S # {}
  <2>1. PICK x \in S : S = {x}
    BY <1>2
  <2>2. \A y : Cardinality({y}) = 1
    BY FS_Singleton
  <2> QED BY <1>2, <2>1, <2>2, Zenon
<1> QED BY <1>1, <1>2

LEMMA ConsistentIs ==
  ASSUME IInv
  PROVE  Consistent
<1> USE ListAssumption
<1>1. PICK q : q = Order
  OBVIOUS
<1>2. TypeOK /\ Strings(q)
  BY <1>1 DEF IInv
<1>3. \A l \in Lists : /\ Members(l) = Elems(q[l]) /\ Chain(l) = q[l] /\ q[l] \in Seq(Nodes)
                       /\ Len(q[l]) = count[l] /\ Len(q[l]) \in Nat
                       /\ Injective(q[l]) /\ Elems(q[l]) \subseteq alive
                       /\ Strung(q[l], first[l], last[l], next, prev)
  BY <1>1, <1>2, MembersAre DEF Strings
<1>4. Mirrored
  <2> SUFFICES ASSUME NEW l \in Lists
               PROVE  IF count[l] = 0
                      THEN first[l] = Null /\ last[l] = Null
                      ELSE /\ \A i \in 1..count[l] : Chain(l)[i] \in alive
                           /\ \A i \in 2..count[l] : prev[Chain(l)[i]] = Chain(l)[i - 1]
                           /\ prev[first[l]] = Null
                           /\ last[l] = Chain(l)[count[l]] /\ next[last[l]] = Null
    BY DEF Mirrored
  <2> DEFINE s == q[l]
             m == Len(s)
  <2>1. /\ s \in Seq(Nodes) /\ m \in Nat /\ m = count[l] /\ s = Chain(l)
        /\ first[l] = Nth(s, 1) /\ last[l] = Nth(s, m)
        /\ \A i \in 1..m : next[s[i]] = Nth(s, i + 1) /\ prev[s[i]] = Nth(s, i - 1)
        /\ \A i \in 1..m : s[i] \in alive
    BY <1>3 DEF Strung, Elems
  <2> HIDE DEF s, m
  <2>6. \A i : Nth(s, i) = IF i \in 1..m THEN s[i] ELSE Null
    BY DEF Nth, m
  <2>2. CASE count[l] = 0
    BY <2>1, <2>2, <2>6
  <2>3. CASE count[l] # 0
    <3>1. 1 \in 1..m /\ m \in 1..m /\ 1 - 1 = 0 /\ 0 \notin 1..m /\ m + 1 \notin 1..m
      BY <2>1, <2>3
    <3>2. first[l] = s[1] /\ last[l] = s[m] /\ prev[s[1]] = Null /\ next[s[m]] = Null
      BY <2>1, <2>6, <3>1
    <3>3. ASSUME NEW i \in 2..m PROVE prev[s[i]] = s[i - 1]
      <4>1. i \in 1..m /\ i - 1 \in 1..m
        BY <2>1
      <4> QED BY <2>1, <2>6, <4>1
    <3> QED BY <2>1, <2>3, <3>2, <3>3
  <2> QED BY <2>2, <2>3
<1>5. OneListEach
  <2> SUFFICES ASSUME NEW n \in Nodes
               PROVE  Cardinality({p \in Lists \X (1..Cardinality(Nodes)) :
                        p[2] <= count[p[1]] /\ Chain(p[1])[p[2]] = n}) <= 1
    BY DEF OneListEach
  <2> DEFINE S == {p \in Lists \X (1..Cardinality(Nodes)) :
                     p[2] <= count[p[1]] /\ Chain(p[1])[p[2]] = n}
  <2>1. Cardinality(Nodes) \in Nat
    BY FS_CardinalityType
  <2>2. ASSUME NEW p \in S
        PROVE  /\ p = <<p[1], p[2]>> /\ p[1] \in Lists /\ p[2] \in 1..Len(q[p[1]])
               /\ q[p[1]][p[2]] = n
    <3>1. p \in Lists \X (1..Cardinality(Nodes)) /\ p[2] <= count[p[1]] /\ Chain(p[1])[p[2]] = n
      OBVIOUS
    <3>2. p = <<p[1], p[2]>> /\ p[1] \in Lists /\ p[2] \in 1..Cardinality(Nodes)
      BY <3>1
    <3>3. Chain(p[1]) = q[p[1]] /\ Len(q[p[1]]) = count[p[1]] /\ Len(q[p[1]]) \in Nat
      BY <1>3, <3>2
    <3> QED BY <2>1, <3>1, <3>2, <3>3
  <2> HIDE DEF S
  <2>3. ASSUME NEW p \in S, NEW r \in S PROVE p = r
    <3>1. /\ p = <<p[1], p[2]>> /\ p[1] \in Lists /\ p[2] \in 1..Len(q[p[1]]) /\ q[p[1]][p[2]] = n
          /\ r = <<r[1], r[2]>> /\ r[1] \in Lists /\ r[2] \in 1..Len(q[r[1]]) /\ q[r[1]][r[2]] = n
      BY <2>2
    <3>2. n \in Elems(q[p[1]]) /\ n \in Elems(q[r[1]])
      BY <3>1 DEF Elems
    <3>3. p[1] = r[1]
      BY <1>2, <3>1, <3>2 DEF Strings
    <3>4. p[2] = r[2]
      <4>1. Injective(q[p[1]])
        BY <1>3, <3>1
      <4> QED BY <3>1, <3>3, <4>1 DEF Injective
    <3> QED BY <3>1, <3>3, <3>4
  <2>4. Cardinality(S) = IF S = {} THEN 0 ELSE 1
    BY <2>3, AtMostOne
  <2>5. Cardinality(S) <= 1
    BY <2>4
  <2> QED BY <2>5 DEF S
<1>6. ReferencesBalanced
  <2> SUFFICES ASSUME NEW n \in Nodes
               PROVE  refs[n] = Cardinality({l \in Lists : n \in Members(l)})
    BY DEF ReferencesBalanced
  <2> DEFINE S == {l \in Lists : n \in Members(l)}
  <2>1. S = {l \in Lists : n \in Elems(q[l])}
    BY <1>3
  <2>2. \A x, y \in S : x = y
    BY <1>2, <2>1 DEF Strings
  <2>3. refs[n] = IF S = {} THEN 0 ELSE 1
    BY <1>2, <2>1 DEF Strings
  <2> HIDE DEF S
  <2>4. Cardinality(S) = IF S = {} THEN 0 ELSE 1
    BY <2>2, AtMostOne
  <2>5. refs[n] = Cardinality(S)
    BY <2>3, <2>4
  <2> QED BY <2>5 DEF S
<1>7. Reusable
  BY <1>2 DEF Strings
<1> QED BY <1>2, <1>4, <1>5, <1>6, <1>7 DEF Consistent

\* After every call that adds, removes, clears or moves an iterator
\* (include/Reprise/Collections.h, IntrusiveList), and between the
\* removals of a clear(): the two link fields and the two ends describe the
\* same nodes forwards and backwards, the count is their number, no node is
\* in two lists, a list holds one reference to each of its nodes, and a node
\* outside the lists carries no link.
THEOREM ListsAreConsistent == Spec => []Consistent
<1>1. IInv => Consistent
  BY ConsistentIs
<1> QED BY <1>1, Invariance, PTL

-----------------------------------------------------------------------------
(* Where the calls that add leave the node.                                *)
LEMMA PutAfterIs ==
  ASSUME IInv, NEW l \in Lists, NEW n \in Nodes, Unshared(l, n), NEW i \in 0..Len(Order[l]),
         Insert(l, Nth(Order[l], i), n, Nth(Order[l], i + 1))
  PROVE  PutAfter(l, i, n)
<1>1. Len(Order[l]) = count[l] /\ count[l] \in Nat
  BY OrderLen DEF IInv, TypeOK
<1>2. i + 1 \in 1..count[l] + 1 /\ i + 1 - 1 = i
  BY <1>1
<1>3. Entered(l, i + 1, n)
  BY <1>2, InsertKeeps
<1>4. Order[l] = Chain(l) /\ Order'[l] = Chain(l)' /\ Order \in [Lists -> Seq(Nodes)]
  BY DEF Order, IInv, Strings
<1>5. Order'[l] = Inserted(Order[l], i + 1, n)
  BY <1>3, <1>4 DEF Entered
<1>6. Chain(l)' = Inserted(Chain(l), i + 1, n) /\ Len(Chain(l)) = count[l]
  BY <1>1, <1>4, <1>5
<1> QED BY <1>2, <1>6 DEF Inserted, PutAfter

LEMMA StepAddsBeside ==
  ASSUME IInv, NEW l \in Lists, NEW c \in Cursors, NEW n \in Nodes, Unshared(l, n)
  PROVE  /\ AddAfter(l, c, n) => PutAfter(l, IF IsValid(at[c]) THEN Rank(l, at[c]) + 1 ELSE 0, n)
         /\ AddBefore(l, c, n) => PutAfter(l, IF IsValid(at[c]) THEN Rank(l, at[c]) ELSE count[l], n)
<1>1. PICK q : q = Order
  OBVIOUS
<1>2. Strings(q)
  BY <1>1 DEF IInv
<1>3. ASSUME AddAfter(l, c, n)
      PROVE  PutAfter(l, IF IsValid(at[c]) THEN Rank(l, at[c]) + 1 ELSE 0, n)
  <2>1. PICK i \in 0..Len(q[l]) :
          /\ i = IF IsValid(at[c]) THEN Rank(l, at[c]) + 1 ELSE 0
          /\ Insert(l, Nth(q[l], i), n, Nth(q[l], i + 1))
    BY <1>1, <1>2, <1>3, AddAfterIs
  <2>2. PutAfter(l, i, n)
    BY <1>1, <2>1, PutAfterIs
  <2> QED BY <2>1, <2>2
<1>4. ASSUME AddBefore(l, c, n)
      PROVE  PutAfter(l, IF IsValid(at[c]) THEN Rank(l, at[c]) ELSE count[l], n)
  <2>1. PICK i \in 0..Len(q[l]) :
          /\ i = IF IsValid(at[c]) THEN Rank(l, at[c]) ELSE count[l]
          /\ Insert(l, Nth(q[l], i), n, Nth(q[l], i + 1))
    BY <1>1, <1>2, <1>4, AddBeforeIs
  <2>2. PutAfter(l, i, n)
    BY <1>1, <2>1, PutAfterIs
  <2> QED BY <2>1, <2>2
<1> QED BY <1>3, <1>4

\* addAfter() and addBefore() (include/Reprise/Collections.h) leave the node
\* next to the iterator's, and at the end of the list the iterator stands at
\* when it stands at none, whichever of their branches is taken.
THEOREM NodesAreAddedBeside == Spec => AddedBeside
<1>1. IInv /\ [Next]_vars =>
        [\A l \in Lists, c \in Cursors, n \in Nodes :
           Unshared(l, n) =>
             /\ (AddAfter(l, c, n) => PutAfter(l, IF IsValid(at[c]) THEN Rank(l, at[c]) + 1 ELSE 0, n))
             /\ (AddBefore(l, c, n) => PutAfter(l, IF IsValid(at[c]) THEN Rank(l, at[c]) ELSE count[l], n))]_vars
  BY StepAddsBeside
<1> QED BY <1>1, Invariance, PTL DEF Spec, AddedBeside

-----------------------------------------------------------------------------
(* The links implement the sequences of NodeSequences.                     *)
LEMMA OrderMaps == Order = [l \in Lists |-> Chain(l)]
BY DEF Order

LEMMA ListedIs ==
  ASSUME IInv, NEW n \in Nodes
  PROVE  /\ Sequence!Listed(n) <=> \E l \in Lists : n \in Elems(Order[l])
         /\ Sequence!Listed(n) <=> refs[n] # 0
<1>1. Sequence!Listed(n) <=> \E l \in Lists : n \in Elems(Order[l])
  BY DEF Sequence!Listed, Order, Elems
<1>2. refs[n] = IF \E l \in Lists : n \in Elems(Order[l]) THEN 1 ELSE 0
  BY DEF IInv, Strings
<1> QED BY <1>1, <1>2

LEMMA EnterMaps ==
  ASSUME IInv, NEW l \in Lists, NEW n \in Nodes, Unshared(l, n), Adds(l, n)
  PROVE  Sequence!Next
<1>1. PICK i \in 1..Len(Order[l]) + 1 : Entered(l, i, n)
  BY AddsKeep
<1>2. ~Sequence!Listed(n)
  BY <1>1, ListedIs DEF Entered
<1>3. Sequence!Enter(l, i, n)
  BY <1>1, <1>2 DEF Entered, Inserted, Order, Sequence!Enter
<1> QED BY <1>1, <1>3 DEF Sequence!Next, Order

LEMMA LeaveMaps ==
  ASSUME NEW l \in Lists, NEW i \in 1..Len(Order[l]), Left(l, i)
  PROVE  Sequence!Next
<1>1. Sequence!Leave(l, i)
  BY DEF Left, Removed, Order, Sequence!Leave
<1> QED BY <1>1 DEF Sequence!Next, Order

LEMMA NodesMap ==
  ASSUME IInv, NEW n \in Nodes, New(n) \/ Hold(n) \/ Unhold(n)
  PROVE  Sequence!Next
<1>1. [l \in Lists |-> Chain(l)]' = [l \in Lists |-> Chain(l)]
  BY NodesKeep DEF Order
<1>2. of' = of /\ at' = at
  BY DEF New, Hold, Unhold, cursor
<1>3. CASE New(n)
  BY <1>1, <1>2, <1>3 DEF New, Sequence!Create, Sequence!Next
<1>4. CASE Hold(n)
  BY <1>1, <1>2, <1>4 DEF Hold, Sequence!Take, Sequence!Next
<1>5. CASE Unhold(n)
  <2>1. alive' = IF Sequence!Listed(n) THEN alive ELSE alive \ {n}
    BY <1>5, ListedIs DEF Unhold
  <2>2. Sequence!GiveBack(n)
    BY <1>1, <1>2, <1>5, <2>1 DEF Unhold, Sequence!GiveBack
  <2> QED BY <2>2 DEF Sequence!Next
<1> QED BY <1>3, <1>4, <1>5

\* A sequence between its two ends.
LEMMA BoundedIs ==
  ASSUME NEW s \in Seq(Nodes)
  PROVE  LET b == <<Before>> \o s \o <<Null>>
         IN  b[1] = Before /\ b[Len(s) + 2] = Null /\ \A i \in 1..Len(s) : b[i + 1] = s[i]
<1> DEFINE S == Nodes \cup {Null, Before}
           m == Len(s)
           a == <<Before>> \o s
           b == a \o <<Null>>
<1>1. /\ <<Before>> \in Seq(S) /\ <<Null>> \in Seq(S) /\ s \in Seq(S) /\ m \in Nat
      /\ Len(<<Before>>) = 1 /\ Len(<<Null>>) = 1 /\ <<Before>>[1] = Before /\ <<Null>>[1] = Null
  OBVIOUS
<1>2. \A x, y \in Seq(S) : \A k, n \in Nat : Len(x) = k /\ Len(x) + Len(y) = n =>
        /\ x \o y \in Seq(S) /\ Len(x \o y) = n
        /\ \A j \in 1..k : j <= n => (x \o y)[j] = x[j]
        /\ \A j \in k + 1..n : (x \o y)[j] = y[j - k]
  BY ConcatIs
<1>3. /\ a \in Seq(S) /\ Len(a) = m + 1 /\ a[1] = Before
      /\ \A j \in 2..m + 1 : a[j] = s[j - 1]
  <2>1. 1 \in Nat /\ m + 1 \in Nat /\ 1 + m = m + 1 /\ 1 \in 1..1 /\ 1 <= m + 1 /\ 1 + 1 = 2
    BY <1>1
  <2> HIDE DEF S, m
  <2>2. m = Len(s)
    BY DEF m
  <2> QED BY <1>1, <1>2, <2>1, <2>2
<1>4. /\ \A j \in 1..m + 1 : b[j] = a[j]
      /\ b[m + 2] = Null
  <2>1. /\ m + 1 \in Nat /\ m + 2 \in Nat /\ m + 1 + 1 = m + 2 /\ m + 2 \in m + 1 + 1..m + 2
        /\ m + 2 - (m + 1) = 1 /\ \A j \in 1..m + 1 : j <= m + 2
    BY <1>1
  <2> HIDE DEF S, m, a
  <2> QED BY <1>1, <1>2, <1>3, <2>1
<1>5. ASSUME NEW i \in 1..m PROVE b[i + 1] = s[i]
  <2>1. i + 1 \in 2..m + 1 /\ i + 1 \in 1..m + 1 /\ i + 1 - 1 = i
    BY <1>1
  <2> QED BY <1>3, <1>4, <2>1
<1>6. b[1] = Before
  <2>1. 1 \in 1..m + 1
    BY <1>1
  <2> QED BY <1>3, <1>4, <2>1
<1> QED BY <1>4, <1>5, <1>6

LEMMA NeighboursAre ==
  ASSUME NEW s \in Seq(Nodes)
  PROVE  /\ Sequence!Neighbours(s, Before, Nth(s, 1))
         /\ \A i \in 1..Len(s) : Sequence!Neighbours(s, s[i], Nth(s, i + 1))
         /\ \A i \in 1..Len(s) : i # 1 => Sequence!Neighbours(s, s[i - 1], s[i])
<1> DEFINE m == Len(s)
           b == <<Before>> \o s \o <<Null>>
<1>1. m \in Nat /\ b[1] = Before /\ b[m + 2] = Null /\ \A i \in 1..m : b[i + 1] = s[i]
  BY BoundedIs
<1> HIDE DEF m, b
<1>2. ASSUME NEW i \in 1..m + 1, NEW x, NEW y, b[i] = x, b[i + 1] = y
      PROVE  Sequence!Neighbours(s, x, y)
  BY <1>2 DEF Sequence!Neighbours, m, b
<1>3. \A i \in 0..m : b[i + 2] = Nth(s, i + 1)
  <2> TAKE i \in 0..m
  <2>1. CASE i = m
    BY <1>1, <2>1 DEF Nth, m
  <2>2. CASE i # m
    <3>1. i + 1 \in 1..m /\ i + 1 + 1 = i + 2
      BY <1>1, <2>2
    <3>2. b[i + 2] = s[i + 1]
      BY <1>1, <3>1
    <3> QED BY <3>1, <3>2 DEF Nth, m
  <2> QED BY <2>1, <2>2
<1>4. Sequence!Neighbours(s, Before, Nth(s, 1))
  <2>1. 1 \in 1..m + 1 /\ 0 \in 0..m /\ 0 + 2 = 1 + 1 /\ 0 + 1 = 1
    BY <1>1
  <2>2. b[1 + 1] = Nth(s, 1)
    BY <1>3, <2>1
  <2> QED BY <1>1, <1>2, <2>1, <2>2
<1>5. ASSUME NEW i \in 1..m PROVE Sequence!Neighbours(s, s[i], Nth(s, i + 1))
  <2>1. i + 1 \in 1..m + 1 /\ i \in 0..m /\ i + 1 + 1 = i + 2
    BY <1>1
  <2>2. b[i + 1] = s[i] /\ b[i + 1 + 1] = Nth(s, i + 1)
    BY <1>1, <1>3, <2>1
  <2> QED BY <1>2, <2>1, <2>2
<1>6. ASSUME NEW i \in 1..m, i # 1 PROVE Sequence!Neighbours(s, s[i - 1], s[i])
  <2>1. i - 1 \in 1..m /\ i \in 1..m + 1 /\ i - 1 + 1 = i
    BY <1>1, <1>6
  <2>2. b[i] = s[i - 1] /\ b[i + 1] = s[i]
    BY <1>1, <2>1
  <2> QED BY <1>2, <2>1, <2>2
<1> QED BY <1>4, <1>5, <1>6 DEF m

LEMMA CursorsMap ==
  ASSUME IInv, NEW c \in Cursors,
         GoNext(c) \/ GoPrevious(c) \/ \E l \in Lists, x \in Nodes \cup {Null} : Seek(c, l, x)
  PROVE  Sequence!Next
<1> USE ListAssumption
<1>1. [l \in Lists |-> Chain(l)]' = [l \in Lists |-> Chain(l)]
  BY CursorsKeep DEF Order
<1>2. UNCHANGED <<alive, held>>
  BY DEF GoNext, GoPrevious, Seek
<1>3. PICK q : q = Order
  OBVIOUS
<1>4. /\ TypeOK /\ Strings(q)
      /\ \A l \in Lists : /\ q[l] \in Seq(Nodes) /\ Members(l) = Elems(q[l])
                          /\ Len(q[l]) = count[l] /\ Len(q[l]) \in Nat
                          /\ Strung(q[l], first[l], last[l], next, prev)
  <2>1. TypeOK /\ Strings(q)
    BY <1>3 DEF IInv
  <2> QED BY <1>3, <2>1, MembersAre DEF Strings
<1>5. of[c] \in Lists /\ [l \in Lists |-> Chain(l)][of[c]] = q[of[c]] /\ at \in [Cursors -> Nodes \cup {Null, Before}]
  BY <1>3, <1>4 DEF TypeOK, Order
<1> DEFINE s == q[of[c]]
<1>6. /\ s \in Seq(Nodes) /\ Members(of[c]) = Elems(s) /\ Len(s) = count[of[c]] /\ Len(s) \in Nat
      /\ first[of[c]] = Nth(s, 1) /\ last[of[c]] = Nth(s, Len(s))
      /\ \A i \in 1..Len(s) : next[s[i]] = Nth(s, i + 1) /\ prev[s[i]] = Nth(s, i - 1)
  BY <1>4, <1>5 DEF Strung
<1> HIDE DEF s
<1>7. /\ Sequence!Neighbours(s, Before, Nth(s, 1))
      /\ \A i \in 1..Len(s) : Sequence!Neighbours(s, s[i], Nth(s, i + 1))
      /\ \A i \in 1..Len(s) : i # 1 => Sequence!Neighbours(s, s[i - 1], s[i])
  BY <1>6, NeighboursAre
<1>8. \A i : Nth(s, i) \in Nodes \cup {Null}
  BY <1>6 DEF Nth
<1>9. CASE GoNext(c)
  <2>1. PICK x : x = IF at[c] = Before THEN first[of[c]] ELSE next[at[c]]
    OBVIOUS
  <2>2. at' = [at EXCEPT ![c] = x] /\ of' = of /\ Sound(c) /\ at[c] # Null
    BY <1>9, <2>1 DEF GoNext
  <2>3. x \in Nodes \cup {Null} /\ Sequence!Neighbours(s, at[c], x)
    <3>1. CASE at[c] = Before
      BY <1>6, <1>7, <1>8, <2>1, <3>1
    <3>2. CASE at[c] # Before
      <4>1. PICK i \in 1..Len(s) : s[i] = at[c]
        BY <1>6, <2>2, <3>2 DEF Sound, IsValid, Elems
      <4> QED BY <1>6, <1>7, <1>8, <2>1, <3>2, <4>1
    <3> QED BY <3>1, <3>2
  <2>4. Sequence!Forward(c)
    BY <1>1, <1>2, <1>5, <2>2, <2>3 DEF Sequence!Forward, s
  <2> QED BY <2>4 DEF Sequence!Next
<1>10. CASE GoPrevious(c)
  <2>1. PICK x : x = IF at[c] = Null THEN last[of[c]]
                     ELSE IF prev[at[c]] = Null THEN Before ELSE prev[at[c]]
    OBVIOUS
  <2>2. /\ at' = [at EXCEPT ![c] = x] /\ of' = of /\ Sound(c) /\ at[c] # Before
        /\ at[c] = Null => count[of[c]] # 0
    BY <1>10, <2>1 DEF GoPrevious
  <2>3. x \in Nodes \cup {Before} /\ Sequence!Neighbours(s, x, at[c])
    <3>1. CASE at[c] = Null
      <4>1. Len(s) \in 1..Len(s) /\ Len(s) + 1 \notin 1..Len(s)
        BY <1>6, <2>2, <3>1
      <4>2. x = s[Len(s)] /\ s[Len(s)] \in Nodes /\ Nth(s, Len(s) + 1) = Null
        BY <1>6, <2>1, <3>1, <4>1 DEF Nth
      <4> QED BY <1>7, <3>1, <4>1, <4>2
    <3>2. CASE at[c] # Null
      <4>1. PICK i \in 1..Len(s) : s[i] = at[c]
        BY <1>6, <2>2, <3>2 DEF Sound, IsValid, Elems
      <4>2. prev[at[c]] = Nth(s, i - 1)
        BY <1>6, <4>1
      <4>3. CASE i = 1
        <5>1. Nth(s, i - 1) = Null /\ Nth(s, 1) = s[1]
          BY <1>6, <4>3 DEF Nth
        <5> QED BY <1>7, <2>1, <3>2, <4>1, <4>2, <4>3, <5>1
      <4>4. CASE i # 1
        <5>1. i - 1 \in 1..Len(s)
          BY <1>6, <4>4
        <5>2. Nth(s, i - 1) = s[i - 1] /\ s[i - 1] \in Nodes
          BY <1>6, <5>1 DEF Nth
        <5>3. x = s[i - 1]
          BY <2>1, <3>2, <4>2, <5>2
        <5> QED BY <1>7, <4>1, <4>4, <5>2, <5>3
      <4> QED BY <4>3, <4>4
    <3> QED BY <3>1, <3>2
  <2>4. Sequence!Backward(c)
    BY <1>1, <1>2, <1>5, <2>2, <2>3 DEF Sequence!Backward, s
  <2> QED BY <2>4 DEF Sequence!Next
<1>11. ASSUME NEW l \in Lists, NEW x \in Nodes \cup {Null}, Seek(c, l, x)
       PROVE  Sequence!Next
  <2>1. of' = [of EXCEPT ![c] = l] /\ at' = [at EXCEPT ![c] = x]
    BY <1>11 DEF Seek
  <2>2. CASE x = Null
    <3>1. Sequence!PointToEnd(c, l)
      BY <1>1, <1>2, <2>1, <2>2 DEF Sequence!PointToEnd
    <3> QED BY <3>1 DEF Sequence!Next
  <2>3. CASE x # Null
    <3>1. x \in {first[l], last[l]} \cup Elems(q[l])
      BY <1>4, <1>11, <2>3 DEF Seek
    <3>2. first[l] = Nth(q[l], 1) /\ last[l] = Nth(q[l], Len(q[l]))
      BY <1>4 DEF Strung
    <3>3. \E i \in 1..Len(q[l]) : q[l][i] = x
      BY <2>3, <3>1, <3>2 DEF Nth, Elems
    <3>4. [k \in Lists |-> Chain(k)][l] = q[l]
      BY <1>3 DEF Order
    <3>5. Sequence!Point(c, l, x)
      BY <1>1, <1>2, <2>1, <3>3, <3>4 DEF Sequence!Point
    <3> QED BY <2>3, <3>5 DEF Sequence!Next
  <2> QED BY <2>2, <2>3
<1> QED BY <1>9, <1>10, <1>11

LEMMA InitMaps == Init => Sequence!Init
<1> SUFFICES ASSUME Init PROVE Sequence!Init
  OBVIOUS
<1>1. [l \in Lists |-> Chain(l)] = [l \in Lists |-> <<>>]
  <2>1. \A l \in Lists : Order[l] = <<>>
    BY InitIInv
  <2> QED BY <2>1 DEF Order
<1> QED BY <1>1 DEF Init, Sequence!Init

LEMMA StepMaps == IInv /\ [Next]_vars => [Sequence!Next]_(Sequence!vars)
<1> SUFFICES ASSUME IInv, [Next]_vars
             PROVE  Sequence!Next \/ UNCHANGED Sequence!vars
  OBVIOUS
<1>1. ASSUME NEW l \in Lists, NEW n \in Nodes, Unshared(l, n), Adds(l, n) PROVE Sequence!Next
  BY <1>1, EnterMaps
<1>2. ASSUME NEW n \in Nodes, New(n) \/ Hold(n) \/ Unhold(n) PROVE Sequence!Next
  BY <1>2, NodesMap
<1>3. ASSUME NEW l \in Lists,
             \/ \E n \in Nodes : RemoveNode(l, n)
             \/ \E c \in Cursors : RemoveIterator(l, c)
             \/ RemoveFirst(l) \/ RemoveLast(l)
      PROVE  Sequence!Next
  BY <1>3, RemovesKeep, LeaveMaps
<1>4. CASE ClearStep
  BY <1>4, ClearStepKeeps, LeaveMaps
<1>5. CASE ClearEnd \/ \E l \in Lists : ClearBegin(l)
  <2>1. [l \in Lists |-> Chain(l)]' = [l \in Lists |-> Chain(l)]
    BY <1>5, ClearKeeps DEF Order
  <2>2. UNCHANGED <<alive, held, of, at>>
    BY <1>5 DEF ClearEnd, ClearBegin, cursor
  <2> QED BY <2>1, <2>2 DEF Sequence!vars
<1>6. ASSUME NEW c \in Cursors,
             GoNext(c) \/ GoPrevious(c) \/ \E l \in Lists, x \in Nodes \cup {Null} : Seek(c, l, x)
      PROVE  Sequence!Next
  BY <1>6, CursorsMap
<1>7. CASE UNCHANGED vars
  <2>1. UNCHANGED <<next, first, count, alive, held, of, at>>
    BY <1>7 DEF vars
  <2>2. [l \in Lists |-> Chain(l)]' = [l \in Lists |-> Chain(l)]
    BY <2>1 DEF Chain
  <2> QED BY <2>1, <2>2 DEF Sequence!vars
<1> QED BY <1>1, <1>2, <1>3, <1>4, <1>5, <1>6, <1>7 DEF Next, Others

\* The links of include/Reprise/Collections.h implement sequences: iterators
\* step along them in both directions, every call that adds or removes puts
\* one node in or takes one out, clear() takes its nodes out one by one, and
\* a node is deleted exactly when its list was the last to hold it.
THEOREM LinksImplementSequences == Spec => ImplementsSequences
BY Invariance, InitMaps, StepMaps, PTL DEF Spec, ImplementsSequences, Sequence!Spec
=============================================================================
