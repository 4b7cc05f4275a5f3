------------------------- MODULE SequenceEditsProofs -------------------------
(***************************************************************************)
(* What the operators of SequenceEdits do to the elements of a sequence    *)
(* and to their places, for sequences of any length, and the principle by  *)
(* which a fact about all the elements of one is proved.                   *)
(***************************************************************************)
EXTENDS SequenceEdits, SequenceTheorems, WellFoundedInduction, TLAPS

\* What fails for some natural number fails for a least one.
LEMMA LeastNatural ==
  \A T \in SUBSET Nat : T # {} => \E x \in T : \A y \in T : x <= y
<1> SUFFICES ASSUME NEW T \in SUBSET Nat, T # {} PROVE \E x \in T : \A y \in T : x <= y
  OBVIOUS
<1> DEFINE R == OpToRel(<, Nat)
<1>1. IsWellFoundedOn(R, Nat)
  BY NatLessThanWellFounded
<1>2. R = {ss \in Nat \X Nat : ss[1] < ss[2]}
  BY DEF OpToRel
<1> HIDE DEF R
<1>3. PICK x \in T : \A y \in T : ~(<<y, x>> \in R)
  BY <1>1, WFMin
<1>4. \A a, b \in Nat : a < b => <<a, b>> \in R
  BY <1>2
<1>5. ASSUME NEW y \in T PROVE x <= y
  <2>1. x \in Nat /\ y \in Nat /\ ~(y < x)
    BY <1>3, <1>4
  <2> QED BY <2>1
<1> QED BY <1>5

(***************************************************************************)
(* Putting an element into a sequence without repetitions, and taking one  *)
(* out.                                                                    *)
(***************************************************************************)
Elems(q)      == {q[i] : i \in 1..Len(q)}
Injective(q)  == \A i, k \in 1..Len(q) : q[i] = q[k] => i = k

\* The concatenation of two sequences whose lengths are known.
LEMMA ConcatIs ==
  ASSUME NEW S, NEW a \in Seq(S), NEW b \in Seq(S), NEW m \in Nat, NEW n \in Nat,
         Len(a) = m, Len(a) + Len(b) = n
  PROVE  /\ a \o b \in Seq(S) /\ Len(a \o b) = n
         /\ \A k \in 1..m : k <= n => (a \o b)[k] = a[k]
         /\ \A k \in m + 1..n : (a \o b)[k] = b[k - m]
<1> DEFINE r == a \o b
<1>1. /\ r \in Seq(S) /\ Len(r) = Len(a) + Len(b)
      /\ \A k \in 1..Len(a) + Len(b) : r[k] = IF k <= Len(a) THEN a[k] ELSE b[k - Len(a)]
  BY ConcatProperties
<1> HIDE DEF r
<1>2. /\ r \in Seq(S) /\ Len(r) = n
      /\ \A k \in 1..n : r[k] = IF k <= m THEN a[k] ELSE b[k - m]
  BY <1>1
<1>3. (\A k \in 1..m : k <= n => r[k] = a[k]) /\ \A k \in m + 1..n : r[k] = b[k - m]
  BY <1>2
<1> QED
  BY <1>2, <1>3 DEF r

\* A part of a sequence.
LEMMA PartIs ==
  ASSUME NEW S, NEW q \in Seq(S), NEW m \in 1..Len(q) + 1, NEW n \in m - 1..Len(q)
  PROVE  /\ SubSeq(q, m, n) \in Seq(S) /\ Len(SubSeq(q, m, n)) = n - m + 1
         /\ \A k \in 1..n - m + 1 : SubSeq(q, m, n)[k] = q[m + k - 1]
<1>1. m \in Int /\ n \in Int /\ \A k \in m..n : q[k] \in S
  OBVIOUS
<1> DEFINE r == SubSeq(q, m, n)
<1>2. /\ r \in Seq(S) /\ Len(r) = IF m <= n THEN n - m + 1 ELSE 0
      /\ \A k \in 1..n - m + 1 : r[k] = q[m + k - 1]
  BY <1>1, SubSeqProperties
<1> HIDE DEF r
<1>3. Len(r) = n - m + 1
  BY <1>1, <1>2
<1> QED
  BY <1>2, <1>3 DEF r

\* q without its elements from the i-th to the one before the k-th, and with x
\* in their place.
Without(q, i, k)   == SubSeq(q, 1, i - 1) \o SubSeq(q, k, Len(q))
Filled(q, i, k, x) == SubSeq(q, 1, i - 1) \o <<x>> \o SubSeq(q, k, Len(q))
Joined(g, q, i, k) == g \o SubSeq(q, i, k)

IsWithout(r, q, i, k) ==
  /\ Len(r) = Len(q) - (k - i)
  /\ \A n \in 1..Len(q) - (k - i) : r[n] = IF n < i THEN q[n] ELSE q[n + (k - i)]
IsFilled(r, q, i, k, x) ==
  /\ Len(r) = Len(q) + 1 - (k - i)
  /\ \A n \in 1..Len(q) + 1 - (k - i) :
       r[n] = IF n < i THEN q[n] ELSE IF n = i THEN x ELSE q[n - 1 + (k - i)]
IsJoined(r, g, q, i, k) ==
  /\ Len(r) = Len(g) + (k - i + 1)
  /\ \A n \in 1..Len(g) + (k - i + 1) : r[n] = IF n <= Len(g) THEN g[n] ELSE q[i + (n - Len(g)) - 1]
IsInserted(r, q, i, x) ==
  /\ Len(r) = Len(q) + 1
  /\ \A n \in 1..Len(q) + 1 : r[n] = IF n < i THEN q[n] ELSE IF n = i THEN x ELSE q[n - 1]
IsRemoved(r, q, i) ==
  /\ Len(r) = Len(q) - 1
  /\ \A n \in 1..Len(q) - 1 : r[n] = IF n < i THEN q[n] ELSE q[n + 1]
IsReplaced(r, q, i, x) ==
  /\ Len(r) = Len(q)
  /\ \A n \in 1..Len(q) : r[n] = IF n = i THEN x ELSE q[n]

LEMMA SameElements ==
  ASSUME NEW S, NEW a \in Seq(S), NEW b \in Seq(S), Len(a) = Len(b),
         \A n \in 1..Len(a) : a[n] = b[n]
  PROVE  a = b
<1>1. a = [n \in 1..Len(a) |-> a[n]] /\ b = [n \in 1..Len(b) |-> b[n]]
  OBVIOUS
<1> QED BY <1>1


LEMMA FilledIs ==
  ASSUME NEW S, NEW q \in Seq(S), NEW i \in 1..Len(q) + 1, NEW k \in i..Len(q) + 1, NEW x \in S
  PROVE  Filled(q, i, k, x) \in Seq(S) /\ IsFilled(Filled(q, i, k, x), q, i, k, x)
<1> DEFINE a == SubSeq(q, 1, i - 1)
           b == SubSeq(q, k, Len(q))
           c == a \o <<x>>
           r == c \o b
           m == Len(q) + 1 - (k - i)
<1>1. /\ i \in Nat /\ k \in Nat /\ Len(q) \in Nat /\ i - 1 \in 1 - 1..Len(q) /\ Len(q) \in k - 1..Len(q)
      /\ 1 \in 1..Len(q) + 1 /\ k \in 1..Len(q) + 1 /\ i <= k /\ m \in Nat
  OBVIOUS
<1>2. /\ a \in Seq(S) /\ Len(a) = i - 1 - 1 + 1
      /\ \A n \in 1..i - 1 - 1 + 1 : a[n] = q[1 + n - 1]
  BY <1>1, PartIs
<1>3. b \in Seq(S) /\ Len(b) = Len(q) - k + 1 /\ \A n \in 1..Len(q) - k + 1 : b[n] = q[k + n - 1]
  BY <1>1, PartIs
<1>4. <<x>> \in Seq(S) /\ Len(<<x>>) = 1 /\ <<x>>[1] = x
  OBVIOUS
<1> HIDE DEF a, b
<1>5. /\ c \in Seq(S) /\ Len(c) = i
      /\ \A n \in 1..i - 1 : n <= i => c[n] = a[n]
      /\ \A n \in i - 1 + 1..i : c[n] = <<x>>[n - (i - 1)]
  <2>1. Len(a) = i - 1 /\ Len(a) + Len(<<x>>) = i /\ i - 1 \in Nat
    BY <1>1, <1>2, <1>4
  <2> QED BY <1>1, <1>2, <1>4, <2>1, ConcatIs
<1> HIDE DEF c
<1>6. /\ r \in Seq(S) /\ Len(r) = m
      /\ \A n \in 1..i : n <= m => r[n] = c[n]
      /\ \A n \in i + 1..m : r[n] = b[n - i]
  <2>1. /\ r \in Seq(S) /\ Len(r) = Len(c) + Len(b)
        /\ \A n \in 1..Len(c) + Len(b) : r[n] = IF n <= Len(c) THEN c[n] ELSE b[n - Len(c)]
    BY <1>3, <1>5, ConcatProperties
  <2>2. Len(c) + Len(b) = m /\ Len(c) = i /\ m \in Nat /\ i \in Nat
    BY <1>1, <1>3, <1>5
  <2> HIDE DEF r, m
  <2> QED BY <2>1, <2>2
<1> HIDE DEF r
<1>7. ASSUME NEW n \in 1..m
      PROVE  r[n] = IF n < i THEN q[n] ELSE IF n = i THEN x ELSE q[n - 1 + (k - i)]
  <2>1. CASE n < i
    <3>1. n \in 1..i /\ n <= i /\ n \in 1..i - 1 /\ n \in 1..i - 1 - 1 + 1 /\ n <= m /\ 1 + n - 1 = n
      BY <1>1, <2>1
    <3>2. r[n] = q[n]
      BY <1>2, <1>5, <1>6, <3>1
    <3> QED BY <2>1, <3>2
  <2>2. CASE n = i
    BY <1>1, <1>4, <1>5, <1>6, <2>2
  <2>3. CASE n > i
    <3>1. n - i \in 1..Len(q) - k + 1 /\ k + (n - i) - 1 = n - 1 + (k - i) /\ n \in i + 1..m
      BY <1>1, <2>3
    <3>2. r[n] = q[n - 1 + (k - i)]
      BY <1>3, <1>6, <3>1
    <3> QED BY <1>1, <2>3, <3>2
  <2> QED BY <1>1, <2>1, <2>2, <2>3
<1> QED BY <1>6, <1>7 DEF a, b, c, r, Filled, IsFilled

LEMMA WithoutIs ==
  ASSUME NEW S, NEW q \in Seq(S), NEW i \in 1..Len(q) + 1, NEW k \in i..Len(q) + 1
  PROVE  Without(q, i, k) \in Seq(S) /\ IsWithout(Without(q, i, k), q, i, k)
<1> DEFINE a == SubSeq(q, 1, i - 1)
           b == SubSeq(q, k, Len(q))
           r == a \o b
           m == Len(q) - (k - i)
<1>1. /\ i \in Nat /\ k \in Nat /\ Len(q) \in Nat /\ i - 1 \in 1 - 1..Len(q) /\ Len(q) \in k - 1..Len(q)
      /\ 1 \in 1..Len(q) + 1 /\ k \in 1..Len(q) + 1 /\ i <= k /\ m \in Nat
  OBVIOUS
<1>2. /\ a \in Seq(S) /\ Len(a) = i - 1 - 1 + 1
      /\ \A n \in 1..i - 1 - 1 + 1 : a[n] = q[1 + n - 1]
  BY <1>1, PartIs
<1>3. b \in Seq(S) /\ Len(b) = Len(q) - k + 1 /\ \A n \in 1..Len(q) - k + 1 : b[n] = q[k + n - 1]
  BY <1>1, PartIs
<1> HIDE DEF a, b
<1>4. /\ r \in Seq(S) /\ Len(r) = m
      /\ \A n \in 1..i - 1 : n <= m => r[n] = a[n]
      /\ \A n \in i - 1 + 1..m : r[n] = b[n - (i - 1)]
  <2>1. Len(a) = i - 1 /\ Len(a) + Len(b) = m /\ i - 1 \in Nat
    BY <1>1, <1>2, <1>3
  <2> HIDE DEF m
  <2> QED BY <1>1, <1>2, <1>3, <2>1, ConcatIs
<1> HIDE DEF r
<1>5. ASSUME NEW n \in 1..m
      PROVE  r[n] = IF n < i THEN q[n] ELSE q[n + (k - i)]
  <2>1. CASE n < i
    <3>1. n \in 1..i - 1 /\ n \in 1..i - 1 - 1 + 1 /\ n <= m /\ 1 + n - 1 = n
      BY <1>1, <2>1
    <3>2. r[n] = q[n]
      BY <1>2, <1>4, <3>1
    <3> QED BY <2>1, <3>2
  <2>2. CASE n >= i
    <3>1. /\ n - (i - 1) \in 1..Len(q) - k + 1 /\ k + (n - (i - 1)) - 1 = n + (k - i)
          /\ n \in i - 1 + 1..m
      BY <1>1, <2>2
    <3>2. r[n] = q[n + (k - i)]
      BY <1>3, <1>4, <3>1
    <3> QED BY <1>1, <2>2, <3>2
  <2> QED BY <1>1, <2>1, <2>2
<1> QED BY <1>4, <1>5 DEF a, b, r, Without, IsWithout

LEMMA JoinedIs ==
  ASSUME NEW S, NEW g \in Seq(S), NEW q \in Seq(S), NEW i \in 1..Len(q) + 1, NEW k \in i - 1..Len(q)
  PROVE  Joined(g, q, i, k) \in Seq(S) /\ IsJoined(Joined(g, q, i, k), g, q, i, k)
<1> DEFINE b == SubSeq(q, i, k)
           r == g \o b
           m == Len(g) + (k - i + 1)
<1>1. i \in Nat /\ k \in Int /\ Len(q) \in Nat /\ Len(g) \in Nat /\ m \in Nat
  OBVIOUS
<1>2. b \in Seq(S) /\ Len(b) = k - i + 1 /\ \A n \in 1..k - i + 1 : b[n] = q[i + n - 1]
  BY PartIs
<1> HIDE DEF b
<1>3. /\ r \in Seq(S) /\ Len(r) = m
      /\ \A n \in 1..Len(g) : n <= m => r[n] = g[n]
      /\ \A n \in Len(g) + 1..m : r[n] = b[n - Len(g)]
  <2>1. /\ r \in Seq(S) /\ Len(r) = Len(g) + Len(b)
        /\ \A n \in 1..Len(g) + Len(b) : r[n] = IF n <= Len(g) THEN g[n] ELSE b[n - Len(g)]
    BY <1>2, ConcatProperties
  <2>2. Len(g) + Len(b) = m
    BY <1>1, <1>2
  <2> HIDE DEF r, m
  <2> QED BY <1>1, <2>1, <2>2
<1> HIDE DEF r
<1>4. ASSUME NEW n \in 1..m
      PROVE  r[n] = IF n <= Len(g) THEN g[n] ELSE q[i + (n - Len(g)) - 1]
  <2>1. CASE n <= Len(g)
    BY <1>1, <1>3, <2>1
  <2>2. CASE n > Len(g)
    <3>1. n - Len(g) \in 1..k - i + 1 /\ n \in Len(g) + 1..m
      BY <1>1, <2>2
    <3>2. r[n] = q[i + (n - Len(g)) - 1]
      BY <1>2, <1>3, <3>1
    <3> QED BY <1>1, <2>2, <3>2
  <2> QED BY <1>1, <2>1, <2>2
<1> QED BY <1>3, <1>4 DEF b, r, Joined, IsJoined

\* The edits are cases of them.
LEMMA InsertedHas ==
  ASSUME NEW S, NEW q \in Seq(S), NEW i \in 1..Len(q) + 1, NEW x \in S
  PROVE  Inserted(q, i, x) \in Seq(S) /\ IsInserted(Inserted(q, i, x), q, i, x)
<1>1. i \in i..Len(q) + 1 /\ i - i = 0 /\ \A n \in Int : n - 0 = n /\ n + 0 = n
  OBVIOUS
<1>2. Filled(q, i, i, x) \in Seq(S) /\ IsFilled(Filled(q, i, i, x), q, i, i, x)
  BY <1>1, FilledIs
<1>3. Filled(q, i, i, x) = Inserted(q, i, x)
  BY DEF Filled, Inserted
<1> QED BY <1>1, <1>2, <1>3 DEF IsFilled, IsInserted

LEMMA RemovedHas ==
  ASSUME NEW S, NEW q \in Seq(S), NEW i \in 1..Len(q)
  PROVE  Removed(q, i) \in Seq(S) /\ IsRemoved(Removed(q, i), q, i)
<1>1. i \in 1..Len(q) + 1 /\ i + 1 \in i..Len(q) + 1 /\ i + 1 - i = 1
  OBVIOUS
<1>2. Without(q, i, i + 1) \in Seq(S) /\ IsWithout(Without(q, i, i + 1), q, i, i + 1)
  BY <1>1, WithoutIs
<1>3. Without(q, i, i + 1) = Removed(q, i)
  BY DEF Without, Removed
<1> QED BY <1>1, <1>2, <1>3 DEF IsWithout, IsRemoved

LEMMA ReplacedHas ==
  ASSUME NEW S, NEW q \in Seq(S), NEW i \in 1..Len(q), NEW x \in S
  PROVE  Replaced(q, i, x) \in Seq(S) /\ IsReplaced(Replaced(q, i, x), q, i, x)
<1>1. PICK h, r : h = i + 1 /\ r = Inserted(q, i, x)
  OBVIOUS
<1>2. i \in 1..Len(q) + 1 /\ Len(q) \in Nat /\ i \in Nat
  OBVIOUS
<1>3. r \in Seq(S) /\ IsInserted(r, q, i, x)
  BY <1>1, <1>2, InsertedHas
<1>4. Len(r) = Len(q) + 1 /\ h \in 1..Len(r)
  BY <1>1, <1>2, <1>3 DEF IsInserted
<1>5. PICK f : f = Removed(r, h)
  OBVIOUS
<1>6. f \in Seq(S) /\ IsRemoved(f, r, h)
  BY <1>3, <1>4, <1>5, RemovedHas
<1>7. Len(f) = Len(q)
  BY <1>2, <1>4, <1>6 DEF IsRemoved
<1>8. ASSUME NEW k \in 1..Len(q) PROVE f[k] = IF k = i THEN x ELSE q[k]
  <2>1. k \in 1..Len(r) - 1 /\ k \in 1..Len(q) + 1 /\ k + 1 \in 1..Len(q) + 1 /\ k \in Nat
    BY <1>2, <1>4
  <2>2. f[k] = IF k < h THEN r[k] ELSE r[k + 1]
    BY <1>6, <2>1 DEF IsRemoved
  <2>3. /\ r[k] = IF k < i THEN q[k] ELSE IF k = i THEN x ELSE q[k - 1]
        /\ r[k + 1] = IF k + 1 < i THEN q[k + 1] ELSE IF k + 1 = i THEN x ELSE q[k + 1 - 1]
    BY <1>3, <2>1 DEF IsInserted
  <2> QED BY <1>1, <1>2, <2>1, <2>2, <2>3
<1> QED BY <1>1, <1>5, <1>6, <1>7, <1>8 DEF Replaced, IsReplaced

LEMMA InsertedIs ==
  ASSUME NEW S, NEW q \in Seq(S), NEW i \in 1..Len(q) + 1, NEW x \in S
  PROVE  /\ Inserted(q, i, x) \in Seq(S) /\ Len(Inserted(q, i, x)) = Len(q) + 1
         /\ \A k \in 1..Len(q) + 1 :
              Inserted(q, i, x)[k] = IF k < i THEN q[k] ELSE IF k = i THEN x ELSE q[k - 1]
<1>1. Inserted(q, i, x) \in Seq(S) /\ IsInserted(Inserted(q, i, x), q, i, x)
  BY InsertedHas
<1> QED BY <1>1 DEF IsInserted

LEMMA RemovedIs ==
  ASSUME NEW S, NEW q \in Seq(S), NEW i \in 1..Len(q)
  PROVE  /\ Removed(q, i) \in Seq(S) /\ Len(Removed(q, i)) = Len(q) - 1
         /\ \A k \in 1..Len(q) - 1 : Removed(q, i)[k] = IF k < i THEN q[k] ELSE q[k + 1]
<1>1. Removed(q, i) \in Seq(S) /\ IsRemoved(Removed(q, i), q, i)
  BY RemovedHas
<1> QED BY <1>1 DEF IsRemoved

LEMMA ReplacedIs ==
  ASSUME NEW S, NEW q \in Seq(S), NEW i \in 1..Len(q), NEW x \in S
  PROVE  /\ Replaced(q, i, x) \in Seq(S) /\ Len(Replaced(q, i, x)) = Len(q)
         /\ \A k \in 1..Len(q) : Replaced(q, i, x)[k] = IF k = i THEN x ELSE q[k]
<1>1. Replaced(q, i, x) \in Seq(S) /\ IsReplaced(Replaced(q, i, x), q, i, x)
  BY ReplacedHas
<1> QED BY <1>1 DEF IsReplaced

LEMMA InsertedElems ==
  ASSUME NEW S, NEW q \in Seq(S), Injective(q), NEW i \in 1..Len(q) + 1, NEW x \in S \ Elems(q)
  PROVE  /\ Inserted(q, i, x) \in Seq(S) /\ Injective(Inserted(q, i, x))
         /\ Elems(Inserted(q, i, x)) = Elems(q) \cup {x}
<1> DEFINE r == Inserted(q, i, x)
<1>0. x \in S /\ (\A k \in 1..Len(q) : q[k] # x) /\ Len(q) \in Nat
  BY DEF Elems
<1>1. /\ r \in Seq(S) /\ Len(r) = Len(q) + 1 /\ Len(q) \in Nat
      /\ \A k \in 1..Len(q) + 1 : r[k] = IF k < i THEN q[k] ELSE IF k = i THEN x ELSE q[k - 1]
  BY <1>0, InsertedIs
<1> HIDE DEF r
<1>2. Injective(r)
  <2> SUFFICES ASSUME NEW m \in 1..Len(q) + 1, NEW n \in 1..Len(q) + 1, r[m] = r[n]
               PROVE  m = n
    BY <1>1 DEF Injective
  <2> DEFINE Old(k) == IF k < i THEN k ELSE k - 1
  <2>1. \A k \in 1..Len(q) + 1 : k # i => Old(k) \in 1..Len(q) /\ r[k] = q[Old(k)]
    BY <1>1
  <2>2. (m = i <=> n = i) /\ (m # i => Old(m) = Old(n))
    <3>1. r[i] = x
      BY <1>1
    <3> HIDE DEF Old
    <3>2. CASE m = i \/ n = i
      BY <1>0, <2>1, <3>1, <3>2
    <3>3. CASE m # i /\ n # i
      BY <2>1, <3>3 DEF Injective
    <3> QED BY <3>2, <3>3
  <2> QED BY <1>1, <2>2
<1>3. ASSUME NEW y \in Elems(q) PROVE y \in Elems(r)
  <2>1. PICK k \in 1..Len(q) : y = q[k]
    BY DEF Elems
  <2>2. CASE k < i
    <3>1. k \in 1..Len(r) /\ r[k] = y
      BY <1>1, <2>1, <2>2
    <3> QED BY <3>1 DEF Elems
  <2>3. CASE ~(k < i)
    <3>1. k + 1 \in 1..Len(r) /\ r[k + 1] = y
      BY <1>1, <2>1, <2>3
    <3> QED BY <3>1 DEF Elems
  <2> QED BY <2>2, <2>3
<1>4. x \in Elems(r)
  <2>1. i \in 1..Len(r) /\ r[i] = x
    BY <1>1
  <2> QED BY <2>1 DEF Elems
<1>5. ASSUME NEW y \in Elems(r) PROVE y \in Elems(q) \cup {x}
  <2>1. PICK k \in 1..Len(r) : y = r[k]
    BY DEF Elems
  <2>2. k \in 1..Len(q) + 1
    BY <1>1
  <2>3. CASE k < i
    <3>1. k \in 1..Len(q) /\ q[k] = y
      BY <1>1, <2>1, <2>2, <2>3
    <3> QED BY <3>1 DEF Elems
  <2>4. CASE k = i
    BY <1>1, <2>1, <2>2, <2>4
  <2>5. CASE k > i
    <3>1. k - 1 \in 1..Len(q) /\ q[k - 1] = y
      BY <1>1, <2>1, <2>2, <2>5
    <3> QED BY <3>1 DEF Elems
  <2> QED BY <2>2, <2>3, <2>4, <2>5
<1> QED
  BY <1>1, <1>2, <1>3, <1>4, <1>5 DEF r

LEMMA RemovedElems ==
  ASSUME NEW S, NEW q \in Seq(S), Injective(q), NEW i \in 1..Len(q)
  PROVE  /\ Removed(q, i) \in Seq(S) /\ Injective(Removed(q, i))
         /\ Elems(Removed(q, i)) = Elems(q) \ {q[i]}
<1> DEFINE r == Removed(q, i)
<1>1. /\ r \in Seq(S) /\ Len(r) = Len(q) - 1 /\ Len(q) \in Nat
      /\ \A k \in 1..Len(q) - 1 : r[k] = IF k < i THEN q[k] ELSE q[k + 1]
  <2>1. \A f \in Seq(S) : \A m \in 1..Len(f) :
          /\ Removed(f, m) \in Seq(S) /\ Len(Removed(f, m)) = Len(f) - 1
          /\ \A k \in 1..Len(f) - 1 : Removed(f, m)[k] = IF k < m THEN f[k] ELSE f[k + 1]
    BY RemovedIs, Zenon
  <2>2. Len(q) \in Nat
    OBVIOUS
  <2> QED BY <2>1, <2>2, Zenon
<1> HIDE DEF r
<1>2. Injective(r)
  <2> SUFFICES ASSUME NEW m \in 1..Len(q) - 1, NEW n \in 1..Len(q) - 1, r[m] = r[n]
               PROVE  m = n
    BY <1>1 DEF Injective
  <2> DEFINE Old(k) == IF k < i THEN k ELSE k + 1
  <2>1. \A k \in 1..Len(q) - 1 : Old(k) \in 1..Len(q) /\ r[k] = q[Old(k)]
    BY <1>1
  <2>2. Old(m) = Old(n)
    <3> HIDE DEF Old
    <3> QED BY <2>1 DEF Injective
  <2> QED BY <1>1, <2>2
<1>3. ASSUME NEW y \in Elems(q) \ {q[i]} PROVE y \in Elems(r)
  <2>1. PICK k \in 1..Len(q) : y = q[k] /\ k # i
    BY DEF Elems
  <2>2. CASE k < i
    <3>1. k \in 1..Len(r) /\ r[k] = y
      BY <1>1, <2>1, <2>2
    <3> QED BY <3>1 DEF Elems
  <2>3. CASE k > i
    <3>1. k - 1 \in 1..Len(r) /\ r[k - 1] = y
      BY <1>1, <2>1, <2>3
    <3> QED BY <3>1 DEF Elems
  <2> QED BY <2>1, <2>2, <2>3
<1>4. ASSUME NEW y \in Elems(r) PROVE y \in Elems(q) \ {q[i]}
  <2>1. PICK k \in 1..Len(r) : y = r[k]
    BY DEF Elems
  <2>2. CASE k < i
    <3>1. k \in 1..Len(q) /\ q[k] = y /\ k # i
      BY <1>1, <2>1, <2>2
    <3> QED BY <3>1 DEF Elems, Injective
  <2>3. CASE ~(k < i)
    <3>1. k + 1 \in 1..Len(q) /\ q[k + 1] = y /\ k + 1 # i
      BY <1>1, <2>1, <2>3
    <3> QED BY <3>1 DEF Elems, Injective
  <2> QED BY <2>2, <2>3
<1> QED
  BY <1>1, <1>2, <1>3, <1>4 DEF r

LEMMA ReplacedElems ==
  ASSUME NEW S, NEW q \in Seq(S), Injective(q), NEW i \in 1..Len(q), NEW x \in S \ Elems(q)
  PROVE  /\ Replaced(q, i, x) \in Seq(S) /\ Injective(Replaced(q, i, x))
         /\ Elems(Replaced(q, i, x)) = (Elems(q) \ {q[i]}) \cup {x}
<1> DEFINE r == Replaced(q, i, x)
<1>0. x \in S /\ (\A k \in 1..Len(q) : q[k] # x) /\ Len(q) \in Nat /\ q \in Seq(S) /\ i \in 1..Len(q)
  BY DEF Elems
<1>1. /\ r \in Seq(S) /\ Len(r) = Len(q)
      /\ \A k \in 1..Len(q) : r[k] = IF k = i THEN x ELSE q[k]
  BY <1>0, ReplacedIs
<1> HIDE DEF r
<1>2. Injective(r)
  BY <1>0, <1>1 DEF Injective
<1>3. Elems(r) \subseteq (Elems(q) \ {q[i]}) \cup {x}
  BY <1>0, <1>1 DEF Injective, Elems
<1>4. x \in Elems(r)
  BY <1>1 DEF Elems
<1>5. Elems(q) \ {q[i]} \subseteq Elems(r)
  <2> SUFFICES ASSUME NEW k \in 1..Len(q), q[k] # q[i] PROVE q[k] \in Elems(r)
    BY DEF Elems
  <2>1. r[k] = q[k] /\ k \in 1..Len(r)
    BY <1>1
  <2> QED BY <2>1 DEF Elems
<1> QED
  BY <1>1, <1>2, <1>3, <1>4, <1>5 DEF r

LEMMA AppendedElems ==
  ASSUME NEW S, NEW q \in Seq(S), Injective(q), NEW x \in S \ Elems(q)
  PROVE  /\ Append(q, x) \in Seq(S) /\ Injective(Append(q, x))
         /\ Elems(Append(q, x)) = Elems(q) \cup {x}
<1> DEFINE r == Append(q, x)
<1>1. /\ r \in Seq(S) /\ Len(r) = Len(q) + 1 /\ Len(q) \in Nat
      /\ \A k \in 1..Len(q) + 1 : r[k] = IF k = Len(q) + 1 THEN x ELSE q[k]
  OBVIOUS
<1>2. x \in S /\ \A k \in 1..Len(q) : q[k] # x
  BY DEF Elems
<1> HIDE DEF r
<1>3. Injective(r)
  BY <1>1, <1>2 DEF Injective
<1>4. Elems(r) \subseteq Elems(q) \cup {x}
  BY <1>1 DEF Elems
<1>5. x \in Elems(r)
  <2>1. Len(r) \in 1..Len(r) /\ r[Len(r)] = x
    BY <1>1
  <2> QED BY <2>1 DEF Elems
<1>6. Elems(q) \subseteq Elems(r)
  <2> SUFFICES ASSUME NEW k \in 1..Len(q) PROVE q[k] \in Elems(r)
    BY DEF Elems
  <2>1. r[k] = q[k] /\ k \in 1..Len(r)
    BY <1>1
  <2> QED BY <2>1 DEF Elems
<1> QED
  BY <1>1, <1>3, <1>4, <1>5, <1>6 DEF r

\* The elements from the i-th to the k-th are about to be taken out, when x
\* was put after them, at h.
LEMMA PartMarked ==
  ASSUME NEW S, NEW q \in Seq(S), NEW i \in 1..Len(q), NEW k \in i..Len(q), NEW x \in S,
         NEW h, h = k + 1, NEW put, put = Inserted(q, h, x)
  PROVE  /\ Without(put, i, h) = Filled(q, i, h, x)
         /\ SubSeq(put, i, k) = SubSeq(q, i, k)
<1>1. /\ h \in 1..Len(q) + 1 /\ h \in i..Len(q) + 1 /\ i \in 1..Len(q) + 1 /\ Len(q) \in Nat
      /\ k \in Nat /\ h \in Nat /\ i \in Nat /\ i <= k /\ k <= Len(q) /\ 1 <= i
  OBVIOUS
<1>2. put \in Seq(S) /\ IsInserted(put, q, h, x)
  BY <1>1, InsertedHas
<1>3. Len(put) = Len(q) + 1 /\ i \in 1..Len(put) + 1 /\ h \in i..Len(put) + 1
  BY <1>1, <1>2 DEF IsInserted
<1> DEFINE a == Without(put, i, h)
           b == Filled(q, i, h, x)
<1>4. a \in Seq(S) /\ IsWithout(a, put, i, h)
  BY <1>2, <1>3, WithoutIs
<1>5. b \in Seq(S) /\ IsFilled(b, q, i, h, x)
  BY <1>1, FilledIs
<1> HIDE DEF a, b
<1> USE DEF IsInserted, IsWithout, IsFilled
<1>6. Len(a) = Len(q) + 1 - (h - i) /\ Len(b) = Len(a)
  BY <1>1, <1>3, <1>4, <1>5
<1>7. ASSUME NEW n \in 1..Len(a) PROVE a[n] = b[n]
  <2>1. n \in Nat /\ 1 <= n /\ n <= Len(q) + 1 - (h - i)
    BY <1>1, <1>6
  <2>2. /\ a[n] = IF n < i THEN put[n] ELSE put[n + (h - i)]
        /\ b[n] = IF n < i THEN q[n] ELSE IF n = i THEN x ELSE q[n - 1 + (h - i)]
    <3>1. n \in 1..Len(put) - (h - i) /\ n \in 1..Len(q) + 1 - (h - i)
      BY <1>1, <1>3, <2>1
    <3> QED BY <1>4, <1>5, <3>1
  <2>3. CASE n < i
    <3>1. n \in 1..Len(q) + 1 /\ n < h
      BY <1>1, <2>1, <2>3
    <3>2. put[n] = q[n]
      BY <1>2, <3>1
    <3> QED BY <2>2, <2>3, <3>2
  <2>4. CASE n = i
    <3>1. n + (h - i) = h /\ ~(n < i) /\ ~(h < h)
      BY <1>1, <2>4
    <3>2. put[h] = x
      BY <1>1, <1>2, <3>1
    <3> QED BY <2>2, <2>4, <3>1, <3>2
  <2>5. CASE n > i
    <3>1. PICK m : m = n + (h - i)
      OBVIOUS
    <3>2. m \in 1..Len(q) + 1 /\ ~(m < h) /\ m # h /\ n - 1 + (h - i) = m - 1 /\ ~(n < i) /\ n # i
      BY <1>1, <2>1, <2>5, <3>1
    <3>3. put[m] = q[m - 1]
      BY <1>2, <3>2
    <3> QED BY <2>2, <3>1, <3>2, <3>3
  <2> QED BY <1>1, <2>1, <2>3, <2>4, <2>5
<1>8. a = b
  BY <1>4, <1>5, <1>6, <1>7, SameElements
<1> DEFINE c == SubSeq(put, i, k)
           d == SubSeq(q, i, k)
<1>9. c \in Seq(S) /\ Len(c) = k - i + 1 /\ \A n \in 1..k - i + 1 : c[n] = put[i + n - 1]
  <2>1. i \in 1..Len(put) + 1 /\ k \in i - 1..Len(put)
    BY <1>1, <1>3
  <2> QED BY <1>2, <2>1, PartIs
<1>10. d \in Seq(S) /\ Len(d) = k - i + 1 /\ \A n \in 1..k - i + 1 : d[n] = q[i + n - 1]
  <2>1. i \in 1..Len(q) + 1 /\ k \in i - 1..Len(q)
    BY <1>1
  <2> QED BY <2>1, PartIs
<1> HIDE DEF c, d
<1>11. ASSUME NEW n \in 1..Len(c) PROVE c[n] = d[n]
  <2>1. PICK m : m = i + n - 1
    OBVIOUS
  <2>2. n \in 1..k - i + 1 /\ m \in 1..Len(q) + 1 /\ m < h
    BY <1>1, <1>9, <2>1
  <2>3. put[m] = q[m]
    BY <1>2, <2>2
  <2> QED BY <1>9, <1>10, <2>1, <2>2, <2>3
<1>12. c = d
  BY <1>9, <1>10, <1>11, SameElements
<1> QED BY <1>8, <1>12 DEF a, b, c, d

\* The first of them is taken out.
LEMMA PartShortened ==
  ASSUME NEW S, NEW q \in Seq(S), NEW g \in Seq(S), NEW i \in 1..Len(q), NEW k \in i + 1..Len(q),
         NEW h, h = k - 1, NEW e, e = h - 1, NEW r, r = Removed(q, i)
  PROVE  /\ Without(r, i, h) = Without(q, i, k)
         /\ Joined(Append(g, q[i]), r, i, e) = Joined(g, q, i, h)
<1>1. /\ i \in 1..Len(q) + 1 /\ k \in i..Len(q) + 1 /\ Len(q) \in Nat /\ Len(g) \in Nat
      /\ k \in Nat /\ h \in Nat /\ e \in Int /\ i \in Nat /\ i <= h /\ k <= Len(q) /\ 1 <= i
      /\ h \in i - 1..Len(q)
  OBVIOUS
<1>2. r \in Seq(S) /\ IsRemoved(r, q, i)
  BY RemovedHas
<1>3. /\ Len(r) = Len(q) - 1 /\ i \in 1..Len(r) + 1 /\ h \in i..Len(r) + 1 /\ e \in i - 1..Len(r)
  BY <1>1, <1>2 DEF IsRemoved
<1> DEFINE a == Without(r, i, h)
           b == Without(q, i, k)
           f == Append(g, q[i])
           c == Joined(f, r, i, e)
           d == Joined(g, q, i, h)
<1>4. a \in Seq(S) /\ IsWithout(a, r, i, h)
  BY <1>2, <1>3, WithoutIs
<1>5. b \in Seq(S) /\ IsWithout(b, q, i, k)
  BY <1>1, WithoutIs
<1>6. /\ f \in Seq(S) /\ Len(f) = Len(g) + 1 /\ f[Len(g) + 1] = q[i]
      /\ \A n \in 1..Len(g) : f[n] = g[n]
  <2>1. q[i] \in S
    OBVIOUS
  <2> QED BY <2>1
<1> HIDE DEF f
<1>7. c \in Seq(S) /\ IsJoined(c, f, r, i, e)
  BY <1>2, <1>3, <1>6, JoinedIs
<1>8. d \in Seq(S) /\ IsJoined(d, g, q, i, h)
  BY <1>1, JoinedIs
<1> HIDE DEF a, b, c, d
<1> USE DEF IsRemoved, IsWithout, IsJoined
<1>9. a = b
  <2>1. Len(a) = Len(q) - (k - i) /\ Len(b) = Len(a)
    BY <1>1, <1>3, <1>4, <1>5
  <2>2. ASSUME NEW n \in 1..Len(a) PROVE a[n] = b[n]
    <3>1. n \in Nat /\ 1 <= n /\ n <= Len(q) - (k - i)
      BY <1>1, <2>1
    <3>2. /\ a[n] = IF n < i THEN r[n] ELSE r[n + (h - i)]
          /\ b[n] = IF n < i THEN q[n] ELSE q[n + (k - i)]
      <4>1. n \in 1..Len(r) - (h - i) /\ n \in 1..Len(q) - (k - i)
        BY <1>1, <1>3, <3>1
      <4> QED BY <1>4, <1>5, <4>1
    <3>3. CASE n < i
      <4>1. n \in 1..Len(q) - 1
        BY <1>1, <3>1, <3>3
      <4>2. r[n] = q[n]
        BY <1>2, <3>3, <4>1
      <4> QED BY <3>2, <3>3, <4>2
    <3>4. CASE n >= i
      <4>1. PICK m : m = n + (h - i)
        OBVIOUS
      <4>2. m \in 1..Len(q) - 1 /\ ~(m < i) /\ m + 1 = n + (k - i) /\ ~(n < i)
        BY <1>1, <3>1, <3>4, <4>1
      <4>3. r[m] = q[m + 1]
        BY <1>2, <4>2
      <4> QED BY <3>2, <4>1, <4>2, <4>3
    <3> QED BY <1>1, <3>1, <3>3, <3>4
  <2> QED BY <1>4, <1>5, <2>1, <2>2, SameElements
<1>10. c = d
  <2>1. Len(c) = Len(g) + (h - i + 1) /\ Len(d) = Len(c)
    BY <1>1, <1>6, <1>7, <1>8
  <2>2. ASSUME NEW n \in 1..Len(c) PROVE c[n] = d[n]
    <3>1. n \in Nat /\ 1 <= n /\ n <= Len(g) + (h - i + 1)
      BY <1>1, <2>1
    <3>2. /\ c[n] = IF n <= Len(g) + 1 THEN f[n] ELSE r[i + (n - (Len(g) + 1)) - 1]
          /\ d[n] = IF n <= Len(g) THEN g[n] ELSE q[i + (n - Len(g)) - 1]
      <4>1. n \in 1..Len(g) + 1 + (e - i + 1) /\ n \in 1..Len(g) + (h - i + 1)
        BY <1>1, <3>1
      <4> QED BY <1>6, <1>7, <1>8, <4>1
    <3>3. CASE n <= Len(g)
      <4>1. n \in 1..Len(g) /\ n <= Len(g) + 1
        BY <1>1, <3>1, <3>3
      <4> QED BY <1>6, <3>2, <3>3, <4>1
    <3>4. CASE n = Len(g) + 1
      <4>1. i + (n - Len(g)) - 1 = i /\ n <= Len(g) + 1 /\ ~(n <= Len(g))
        BY <1>1, <3>4
      <4> QED BY <1>6, <3>2, <3>4, <4>1
    <3>5. CASE n > Len(g) + 1
      <4>1. PICK m : m = i + (n - (Len(g) + 1)) - 1
        OBVIOUS
      <4>2. /\ m \in 1..Len(q) - 1 /\ ~(m < i) /\ m + 1 = i + (n - Len(g)) - 1
            /\ ~(n <= Len(g) + 1) /\ ~(n <= Len(g))
        BY <1>1, <3>1, <3>5, <4>1
      <4>3. r[m] = q[m + 1]
        BY <1>2, <4>2
      <4> QED BY <3>2, <4>1, <4>2, <4>3
    <3> QED BY <1>1, <3>1, <3>3, <3>4, <3>5
  <2> QED BY <1>7, <1>8, <2>1, <2>2, SameElements
<1> QED BY <1>9, <1>10 DEF a, b, c, d, f

\* Nothing of a part is left.
LEMMA PartEnds ==
  ASSUME NEW S, NEW q \in Seq(S), NEW g \in Seq(S), NEW i \in 1..Len(q), NEW k, k = i
  PROVE  Append(g, q[i]) = Joined(g, q, i, k)
<1> DEFINE f == Append(g, q[i])
           d == Joined(g, q, i, k)
<1>1. i \in 1..Len(q) + 1 /\ k \in i - 1..Len(q) /\ Len(g) \in Nat /\ k - i + 1 = 1 /\ i \in Nat
  OBVIOUS
<1>2. /\ f \in Seq(S) /\ Len(f) = Len(g) + 1 /\ f[Len(g) + 1] = q[i]
      /\ \A n \in 1..Len(g) : f[n] = g[n]
  <2>1. q[i] \in S
    OBVIOUS
  <2> QED BY <2>1
<1>3. d \in Seq(S) /\ IsJoined(d, g, q, i, k)
  BY <1>1, JoinedIs
<1> HIDE DEF f, d
<1>4. Len(d) = Len(f) /\ \A n \in 1..Len(g) + 1 : d[n] = IF n <= Len(g) THEN g[n] ELSE q[i + (n - Len(g)) - 1]
  BY <1>1, <1>2, <1>3 DEF IsJoined
<1>5. ASSUME NEW n \in 1..Len(f) PROVE f[n] = d[n]
  <2>1. n \in 1..Len(g) + 1 /\ (n <= Len(g) \/ (n = Len(g) + 1 /\ i + (n - Len(g)) - 1 = i /\ ~(n <= Len(g))))
    BY <1>1, <1>2
  <2>2. CASE n <= Len(g)
    <3>1. n \in 1..Len(g)
      BY <1>1, <2>1, <2>2
    <3> QED BY <1>2, <1>4, <2>1, <2>2, <3>1
  <2>3. CASE n = Len(g) + 1
    BY <1>1, <1>2, <1>4, <2>1, <2>3
  <2> QED BY <2>1, <2>2, <2>3
<1>6. f = d
  BY <1>2, <1>3, <1>4, <1>5, SameElements
<1> QED BY <1>6 DEF f, d

\* x is put after the i-th element, which is then taken out.
LEMMA FollowedIsReplaced ==
  ASSUME NEW S, NEW q \in Seq(S), NEW i \in 1..Len(q), NEW x \in S, NEW h, h = i + 1
  PROVE  Removed(Inserted(q, h, x), i) = Replaced(q, i, x)
<1> DEFINE p == Inserted(q, h, x)
           a == Removed(p, i)
           b == Replaced(q, i, x)
<1>1. h \in 1..Len(q) + 1 /\ Len(q) \in Nat /\ i \in Nat /\ 1 <= i /\ i <= Len(q)
  OBVIOUS
<1>2. p \in Seq(S) /\ IsInserted(p, q, h, x)
  BY <1>1, InsertedHas
<1> HIDE DEF p
<1> USE DEF IsInserted, IsRemoved
<1>3. Len(p) = Len(q) + 1 /\ i \in 1..Len(p)
  BY <1>1, <1>2
<1>4. a \in Seq(S) /\ IsRemoved(a, p, i)
  BY <1>2, <1>3, RemovedHas
<1>5. b \in Seq(S) /\ IsReplaced(b, q, i, x)
  BY ReplacedHas
<1> HIDE DEF a, b
<1> USE DEF IsReplaced
<1>6. Len(a) = Len(q)
  BY <1>1, <1>3, <1>4
<1>7. ASSUME NEW n \in 1..Len(a) PROVE a[n] = b[n]
  <2>1. n \in 1..Len(p) - 1 /\ n \in 1..Len(q) /\ n \in 1..Len(q) + 1 /\ n + 1 \in 1..Len(q) + 1 /\ n \in Nat
    BY <1>1, <1>3, <1>6
  <2>2. a[n] = IF n < i THEN p[n] ELSE p[n + 1]
    BY <1>4, <2>1
  <2>3. CASE n < i
    BY <1>1, <1>2, <1>5, <2>1, <2>2, <2>3
  <2>4. CASE n = i
    <3>1. p[h] = x
      BY <1>1, <1>2
    <3> QED BY <1>1, <1>5, <2>1, <2>2, <2>4, <3>1
  <2>5. CASE n > i
    <3>1. PICK m : m = n + 1
      OBVIOUS
    <3>2. m \in 1..Len(q) + 1 /\ ~(m < h) /\ m # h /\ m - 1 = n /\ ~(n < i) /\ n # i
      BY <1>1, <2>1, <2>5, <3>1
    <3>3. p[m] = q[m - 1]
      BY <1>2, <3>2
    <3> QED BY <1>5, <2>1, <2>2, <3>1, <3>2, <3>3
  <2> QED BY <1>1, <2>1, <2>3, <2>4, <2>5
<1>8. a = b
  BY <1>4, <1>5, <1>6, <1>7, SameElements
<1> QED BY <1>8 DEF a, b, p

LEMMA ReplacedExcept ==
  ASSUME NEW S, NEW q \in Seq(S), NEW i \in 1..Len(q), NEW x \in S
  PROVE  Replaced(q, i, x) = [q EXCEPT ![i] = x]
<1> DEFINE r == Replaced(q, i, x)
<1>1. /\ r \in Seq(S) /\ Len(r) = Len(q)
      /\ \A k \in 1..Len(q) : r[k] = IF k = i THEN x ELSE q[k]
  BY ReplacedIs
<1> HIDE DEF r
<1>2. r = [k \in 1..Len(q) |-> r[k]] /\ q = [k \in 1..Len(q) |-> q[k]]
  BY <1>1
<1>3. r = [q EXCEPT ![i] = x]
  BY <1>1, <1>2
<1> QED BY <1>3 DEF r
=============================================================================
