------------------------ MODULE TangorParserProofs -------------------------
(***************************************************************************)
(* TLAPS proofs about the operators of Tangor's parser and of its lookup:  *)
(* sorting, enumeration, subsequences and the search of a vector.  Each is *)
(* a CHOOSE, so most of the work is to show that what it chooses exists;   *)
(* induction is by the least element of a set of naturals.                 *)
(***************************************************************************)
EXTENDS Tangor, FiniteSetTheorems, WellFoundedInduction, TLAPS

----------------------------------------------------------------------------
(* Order *)

\* A set of naturals has a least element.
LEMMA Least ==
    ASSUME NEW T, T \subseteq Nat, T # {}
    PROVE  \E x \in T : \A y \in T : x <= y
<1>1. \E R : /\ \A x, y \in Nat : <<x, y>> \in R <=> x < y
             /\ IsWellFoundedOn(R, Nat)
  <2>1. \A x, y \in Nat : <<x, y>> \in OpToRel(<, Nat) <=> x < y
    BY DEF OpToRel
  <2> QED BY <2>1, NatLessThanWellFounded, Zenon
<1>2. PICK R : /\ \A x, y \in Nat : <<x, y>> \in R <=> x < y
               /\ IsWellFoundedOn(R, Nat)
  BY <1>1, Zenon
<1>3. IsWellFoundedOn(R, Nat)
  BY <1>2, Zenon
<1>4. PICK x \in T : \A y \in T : ~(<<y, x>> \in R)
  BY <1>3, WFMin, Zenon
<1>5. \A y \in T : ~(y < x)
  BY <1>2, <1>4
<1> QED BY <1>4, <1>5

Front(t, n) == [i \in 1..n |-> t[i]]
Ordered(v, n) == \A i, j \in 1..n : i < j => v[i] <= v[j]

\* Where to insert the last element: before the first greater one.
LEMMA InsertAt ==
    ASSUME NEW n \in Nat, NEW v \in [1..n -> Nat], NEW x \in Nat, Ordered(v, n)
    PROVE  \E pos \in 1..(n + 1) :
              /\ \A i \in 1..n : i < pos => v[i] <= x
              /\ \A i \in 1..n : i >= pos => x <= v[i]
<1> DEFINE J == {i \in 1..n : v[i] > x}
<1>1. CASE J = {}
  <2>1. \A i \in 1..n : v[i] <= x /\ i < n + 1
    BY <1>1
  <2>2. n + 1 \in 1..(n + 1)
    OBVIOUS
  <2> QED BY <2>1, <2>2
<1>2. CASE J # {}
  <2>1. PICK pos \in J : \A i \in J : pos <= i
    <3>1. J \subseteq Nat
      OBVIOUS
    <3> HIDE DEF J
    <3> QED BY <1>2, <3>1, Least
  <2>2. pos \in 1..n /\ v[pos] > x
    BY <2>1
  <2>3. ASSUME NEW i \in 1..n, i < pos
        PROVE  v[i] <= x
    <3>1. i \notin J
      BY <2>1, <2>2, <2>3
    <3> QED BY <3>1
  <2>4. ASSUME NEW i \in 1..n, i >= pos
        PROVE  x <= v[i]
    <3>1. v[pos] <= v[i]
      BY <2>2, <2>4 DEF Ordered
    <3>2. v[pos] \in Nat /\ v[i] \in Nat
      BY <2>2
    <3> QED BY <2>2, <3>1, <3>2
  <2>5. pos \in 1..(n + 1)
    BY <2>2
  <2> QED BY <2>3, <2>4, <2>5
<1> QED BY <1>1, <1>2

\* Inserting the last element there.
LEMMA Insertion ==
    ASSUME NEW n \in Nat, NEW m \in Nat, m = n + 1,
           NEW t \in [1..m -> Nat], NEW p \in [1..n -> 1..n],
           Sorts(p, Front(t, n))
    PROVE  \E q \in [1..m -> 1..m] : Sorts(q, t)
<1> DEFINE v == [i \in 1..n |-> t[p[i]]]
           u == Front(t, n)
<1>1. /\ v \in [1..n -> Nat] /\ t[m] \in Nat
      /\ \A i \in 1..n : p[i] \in 1..m /\ v[i] = t[p[i]]
  <2>1. \A i \in 1..n : p[i] \in 1..m
    OBVIOUS
  <2>2. \A i \in 1..n : t[p[i]] \in Nat
    BY <2>1
  <2>3. t[m] \in Nat
    OBVIOUS
  <2> QED BY <2>1, <2>2, <2>3
<1>2. Ordered(v, n) /\ \A k \in 1..n : \E i \in 1..n : p[i] = k
  <2>1. DOMAIN u = 1..n /\ \A i \in 1..n : u[p[i]] = v[i]
    BY DEF Front
  <2>2. Sorts(p, u)
    OBVIOUS
  <2> HIDE DEF u, v
  <2>3. /\ \A k \in 1..n : \E i \in 1..n : p[i] = k
        /\ \A i, j \in 1..n : i < j => u[p[i]] <= u[p[j]]
    BY <2>1, <2>2 DEF Sorts
  <2> QED BY <2>1, <2>3 DEF Ordered
<1> HIDE DEF u, v
<1>3. PICK pos \in 1..m :
         /\ \A i \in 1..n : i < pos => v[i] <= t[m]
         /\ \A i \in 1..n : i >= pos => t[m] <= v[i]
  BY <1>2, <1>1, InsertAt
<1> DEFINE q == [i \in 1..m |-> IF i < pos THEN p[i]
                                     ELSE IF i = pos THEN m ELSE p[i - 1]]
<1>4. ASSUME NEW i \in 1..n
      PROVE  /\ i < pos => i \in 1..m /\ q[i] = p[i] /\ t[q[i]] = v[i]
             /\ i >= pos => i + 1 \in 1..m /\ q[i + 1] = p[i] /\ t[q[i + 1]] = v[i]
  <2>1. i \in 1..m /\ i + 1 \in 1..m /\ p[i] \in 1..m /\ v[i] = t[p[i]]
    BY <1>1
  <2>2. CASE i < pos
    BY <2>1, <2>2
  <2>3. CASE i >= pos
    <3>1. q[i + 1] = p[(i + 1) - 1] /\ (i + 1) - 1 = i
      BY <2>1, <2>3
    <3> QED BY <2>1, <2>3, <3>1
  <2> QED BY <2>2, <2>3
<1>5. q[pos] = m
  OBVIOUS
<1>6. \A i \in 1..m : i = pos \/ (i < pos /\ i \in 1..n)
                       \/ (i > pos /\ i - 1 \in 1..n /\ i - 1 >= pos /\ (i - 1) + 1 = i)
  OBVIOUS
<1>7. q \in [1..m -> 1..m]
  <2>1. \A i \in 1..m : q[i] \in 1..m
    <3>1. \A i \in 1..n : p[i] \in 1..m
      BY <1>1
    <3>2. m \in 1..m
      OBVIOUS
    <3> HIDE DEF q
    <3> SUFFICES ASSUME NEW i \in 1..m PROVE q[i] \in 1..m
      OBVIOUS
    <3>3. CASE i = pos
      BY <1>5, <3>2, <3>3
    <3>4. CASE i < pos /\ i \in 1..n
      BY <1>4, <3>1, <3>4
    <3>5. CASE i > pos /\ i - 1 \in 1..n /\ i - 1 >= pos /\ (i - 1) + 1 = i
      <4>1. q[(i - 1) + 1] = p[i - 1]
        BY <1>4, <3>5
      <4> QED BY <3>1, <3>5, <4>1
    <3> QED BY <1>6, <3>3, <3>4, <3>5
  <2> QED BY <2>1
<1> HIDE DEF q
<1>8. ASSUME NEW k \in 1..m
      PROVE  \E i \in 1..m : q[i] = k
  <2>1. CASE k = m
    BY <1>5, <2>1
  <2>2. CASE k # m
    <3>1. PICK i \in 1..n : p[i] = k
      BY <1>2, <2>2
    <3>2. CASE i < pos
      BY <1>4, <3>1, <3>2
    <3>3. CASE i >= pos
      BY <1>4, <3>1, <3>3
    <3> QED BY <3>2, <3>3
  <2> QED BY <2>1, <2>2
<1>9. ASSUME NEW i \in 1..m, NEW j \in 1..m, i < j
      PROVE  t[q[i]] <= t[q[j]]
  <2>1. \A a, b \in 1..n : a < b => v[a] <= v[b]
    BY <1>2 DEF Ordered
  <2>2. CASE j <= pos
    <3>1. i \in 1..n /\ t[q[i]] = v[i] /\ i < pos
      BY <1>4, <1>6, <1>9, <2>2
    <3>2. CASE j < pos
      <4>1. j \in 1..n /\ t[q[j]] = v[j]
        BY <1>4, <1>6, <3>2
      <4> QED BY <1>9, <2>1, <3>1, <4>1
    <3>3. CASE j = pos
      BY <1>3, <1>5, <3>1, <3>3
    <3> QED BY <2>2, <3>2, <3>3
  <2>3. CASE j > pos
    <3>1. j - 1 \in 1..n /\ j - 1 >= pos /\ t[q[j]] = v[j - 1]
      BY <1>4, <1>6, <2>3
    <3>2. CASE i < pos
      <4>1. i \in 1..n /\ t[q[i]] = v[i] /\ i < j - 1
        BY <1>4, <1>6, <3>1, <3>2
      <4> QED BY <2>1, <3>1, <4>1
    <3>3. CASE i = pos
      BY <1>3, <1>5, <3>1, <3>3
    <3>4. CASE i > pos
      <4>1. i - 1 \in 1..n /\ t[q[i]] = v[i - 1] /\ i - 1 < j - 1
        BY <1>4, <1>6, <1>9, <3>4
      <4> QED BY <2>1, <3>1, <4>1
    <3> QED BY <3>2, <3>3, <3>4
  <2> QED BY <2>2, <2>3
<1>10. Sorts(q, t)
  BY <1>7, <1>8, <1>9 DEF Sorts
<1> QED BY <1>7, <1>10

\* Every vector of net numbers can be sorted.
LEMMA Sortable ==
    ASSUME NEW n \in Nat, NEW s \in [1..n -> Nat]
    PROVE  \E p \in [1..n -> 1..n] : Sorts(p, s)
<1> DEFINE Good(m) == \A t \in [1..m -> Nat] : \E p \in [1..m -> 1..m] : Sorts(p, t)
           Bad == {m \in Nat : ~Good(m)}
<1>1. Good(0)
  <2> SUFFICES ASSUME NEW t \in [1..0 -> Nat]
               PROVE  \E p \in [1..0 -> 1..0] : Sorts(p, t)
    OBVIOUS
  <2>1. 1..0 = {} /\ DOMAIN t = {}
    OBVIOUS
  <2>2. t \in [1..0 -> 1..0] /\ Sorts(t, t)
    BY <2>1 DEF Sorts
  <2> QED BY <2>2
<1>2. ASSUME NEW m \in Nat, Good(m)
      PROVE  Good(m + 1)
  <2> SUFFICES ASSUME NEW t \in [1..(m + 1) -> Nat]
               PROVE  \E p \in [1..(m + 1) -> 1..(m + 1)] : Sorts(p, t)
    OBVIOUS
  <2>1. Front(t, m) \in [1..m -> Nat]
    BY DEF Front
  <2>2. PICK p \in [1..m -> 1..m] : Sorts(p, Front(t, m))
    BY <1>2, <2>1
  <2>3. PICK l \in Nat : l = m + 1
    OBVIOUS
  <2> QED BY <2>2, <2>3, Insertion
<1> HIDE DEF Good
<1>3. Bad = {}
  <2> SUFFICES ASSUME Bad # {} PROVE FALSE
    OBVIOUS
  <2>1. PICK m \in Bad : \A l \in Bad : m <= l
    BY Least
  <2>2. m # 0 /\ m \in Nat
    BY <1>1
  <2>3. m - 1 \in Nat /\ Good(m - 1)
    BY <2>1, <2>2
  <2>4. Good((m - 1) + 1)
    BY <1>2, <2>3
  <2> QED BY <2>2, <2>4
<1>4. Good(n)
  BY <1>3
<1> QED BY <1>4 DEF Good

----------------------------------------------------------------------------
(* The parser's vectors *)

Increasing(v, n) == \A i, j \in 1..n : i < j => v[i] < v[j]
Distinct(v, n) == \A i, j \in 1..n : v[i] = v[j] => i = j

\* A sorted vector has the elements of the given one, in order.
LEMMA AscendingFacts ==
    ASSUME NEW n \in Nat, NEW s \in [1..n -> Nat]
    PROVE  /\ Ascending(s) \in [1..n -> Nat]
           /\ Ordered(Ascending(s), n)
           /\ Elems(Ascending(s)) = Elems(s)
           /\ Distinct(s, n) => Increasing(Ascending(s), n)
<1>1. PICK p \in [1..n -> 1..n] : Sorts(p, s) /\ Ascending(s) = [i \in 1..n |-> s[p[i]]]
  <2>1. DOMAIN s = 1..n
    OBVIOUS
  <2>2. \E p \in [1..n -> 1..n] : Sorts(p, s)
    BY Sortable
  <2> DEFINE p == CHOOSE p \in [1..n -> 1..n] : Sorts(p, s)
  <2>3. p \in [1..n -> 1..n] /\ Sorts(p, s)
    BY <2>2
  <2>4. Ascending(s) = [i \in 1..n |-> s[p[i]]]
    BY <2>1 DEF Ascending
  <2> QED BY <2>3, <2>4
<1>2. /\ \A k \in 1..n : \E i \in 1..n : p[i] = k
      /\ \A i, j \in 1..n : i < j => s[p[i]] <= s[p[j]]
  BY <1>1 DEF Sorts
<1>3. \A i \in 1..n : p[i] \in 1..n /\ Ascending(s)[i] = s[p[i]]
  BY <1>1
<1>4. Ascending(s) \in [1..n -> Nat]
  BY <1>1
<1>5. Ordered(Ascending(s), n)
  BY <1>2, <1>3 DEF Ordered
<1>6. Elems(Ascending(s)) = Elems(s)
  <2>1. DOMAIN Ascending(s) = 1..n /\ DOMAIN s = 1..n
    BY <1>4
  <2>2. \A x \in Elems(Ascending(s)) : x \in Elems(s)
    BY <1>3, <2>1 DEF Elems
  <2>3. \A x \in Elems(s) : x \in Elems(Ascending(s))
    BY <1>2, <1>3, <2>1 DEF Elems
  <2> QED BY <2>2, <2>3
<1>7. ASSUME Distinct(s, n)
      PROVE  Increasing(Ascending(s), n)
  <2>1. p \in Surjection(1..n, 1..n)
    BY <1>1, <1>2 DEF Surjection
  <2>2. p \in Injection(1..n, 1..n)
    BY <2>1, FS_Interval, FS_SurjSameCardinalityImpliesInj
  <2>3. \A i, j \in 1..n : p[i] = p[j] => i = j
    BY <2>2 DEF Injection, IsInjective
  <2> SUFFICES ASSUME NEW i \in 1..n, NEW j \in 1..n, i < j
               PROVE  Ascending(s)[i] < Ascending(s)[j]
    BY DEF Increasing
  <2>4. Ascending(s)[i] <= Ascending(s)[j] /\ s[p[i]] # s[p[j]]
    <3>1. i # j
      OBVIOUS
    <3>2. p[i] # p[j]
      BY <2>3, <3>1
    <3> QED BY <1>3, <1>5, <1>7, <3>2 DEF Ordered, Distinct
  <2>5. Ascending(s)[i] \in Nat /\ Ascending(s)[j] \in Nat
    BY <1>4
  <2> QED BY <1>3, <2>4, <2>5
<1> QED BY <1>4, <1>5, <1>6, <1>7

\* A finite set of naturals is enumerated in order, and completely.
LEMMA EnumeratedFacts ==
    ASSUME NEW S, S \subseteq Nat, IsFiniteSet(S)
    PROVE  /\ Cardinality(S) \in Nat
           /\ Enumerated(S) \in [1..Cardinality(S) -> S]
           /\ Increasing(Enumerated(S), Cardinality(S))
           /\ Elems(Enumerated(S)) = S
<1>1. PICK n \in Nat : n = Cardinality(S) /\ ExistsBijection(1..n, S)
  BY FS_CardinalityType
<1>2. PICK f \in [1..n -> S] : Distinct(f, n)
  <2>1. PICK f : f \in Bijection(1..n, S)
    BY <1>1 DEF ExistsBijection
  <2> QED BY <2>1 DEF Bijection, Injection, IsInjective, Distinct
<1>3. f \in [1..n -> Nat] /\ DOMAIN f = 1..n /\ Elems(f) \subseteq S
  BY <1>2 DEF Elems
<1>4. /\ Ascending(f) \in [1..n -> Nat] /\ Increasing(Ascending(f), n)
      /\ Elems(Ascending(f)) \subseteq S
  BY <1>2, <1>3, AscendingFacts
<1>5. Ascending(f) \in [1..n -> S]
  BY <1>4 DEF Elems
<1>6. \E e \in [1..n -> S] : \A i, j \in DOMAIN e : i < j => e[i] < e[j]
  <2>1. DOMAIN Ascending(f) = 1..n
    BY <1>4
  <2>2. \A i, j \in DOMAIN Ascending(f) : i < j => Ascending(f)[i] < Ascending(f)[j]
    BY <1>4, <2>1 DEF Increasing
  <2> QED BY <1>5, <2>2, Zenon
<1>7. PICK e \in [1..n -> S] :
         e = Enumerated(S) /\ \A i, j \in DOMAIN e : i < j => e[i] < e[j]
  BY <1>1, <1>6 DEF Enumerated
<1>8. Increasing(e, n)
  BY <1>7 DEF Increasing
<1>9. Elems(e) = S
  <2>1. e \in Injection(1..n, S)
    <3>1. ASSUME NEW i \in 1..n, NEW j \in 1..n, e[i] = e[j]
          PROVE  i = j
      <4>1. e[i] \in Nat /\ e[j] \in Nat
        OBVIOUS
      <4>2. ~(i < j) /\ ~(j < i)
        BY <1>8, <3>1, <4>1 DEF Increasing
      <4> QED BY <4>2
    <3> QED BY <1>7, <3>1 DEF Injection, IsInjective
  <2>2. Cardinality(1..n) = n
    BY FS_Interval
  <2>3. e \in Surjection(1..n, S)
    BY <1>1, <2>1, <2>2, FS_Injection
  <2> QED BY <1>7, <2>3 DEF Surjection, Elems
<1> QED BY <1>1, <1>7, <1>8, <1>9

\* Two increasing vectors with the same elements cannot differ first at i.
LEMMA NoFirstDifference ==
    ASSUME NEW n \in Nat, NEW f \in [1..n -> Nat], NEW g \in [1..n -> Nat],
           Increasing(f, n), Increasing(g, n), Elems(f) \subseteq Elems(g),
           NEW i \in 1..n, \A j \in 1..n : j < i => f[j] = g[j], f[i] < g[i]
    PROVE  FALSE
<1>1. PICK j \in 1..n : f[i] = g[j]
  BY DEF Elems
<1>2. f[i] \in Nat /\ g[i] \in Nat /\ g[j] \in Nat
  OBVIOUS
<1>3. CASE j < i
  BY <1>1, <1>2, <1>3 DEF Increasing
<1>4. CASE j = i
  BY <1>1, <1>2, <1>4
<1>5. CASE j > i
  BY <1>1, <1>2, <1>5 DEF Increasing
<1> QED BY <1>3, <1>4, <1>5

\* The order of the net numbers determines a vector of distinct nets: the sorted
\* input ports come in the order in which the inputs are enumerated.
LEMMA AscendingEnumerates ==
    ASSUME NEW n \in Nat, NEW s \in [1..n -> Nat], Distinct(s, n)
    PROVE  Ascending(s) = Enumerated(Elems(s))
<1>1. Cardinality(Elems(s)) = n /\ IsFiniteSet(Elems(s)) /\ Elems(s) \subseteq Nat
  <2>1. s \in Bijection(1..n, Elems(s))
    BY DEF Bijection, Injection, IsInjective, Surjection, Distinct, Elems
  <2>2. ExistsBijection(1..n, Elems(s))
    BY <2>1 DEF ExistsBijection
  <2> QED BY <2>2, FS_CountingElements, FS_NatBijection DEF Elems
<1>2. PICK f, g : f = Ascending(s) /\ g = Enumerated(Elems(s))
  OBVIOUS
<1>3. /\ f \in [1..n -> Nat] /\ Increasing(f, n) /\ Elems(f) = Elems(s)
      /\ g \in [1..n -> Nat] /\ Increasing(g, n) /\ Elems(g) = Elems(s)
  <2>1. /\ f \in [1..n -> Nat] /\ Increasing(f, n) /\ Elems(f) = Elems(s)
    BY <1>2, AscendingFacts
  <2>2. g \in [1..n -> Elems(s)] /\ Increasing(g, n) /\ Elems(g) = Elems(s)
    BY <1>1, <1>2, EnumeratedFacts
  <2>3. g \in [1..n -> Nat]
    BY <1>1, <2>2
  <2> QED BY <2>1, <2>2, <2>3
<1> DEFINE D == {i \in 1..n : f[i] # g[i]}
<1>4. D = {}
  <2> SUFFICES ASSUME D # {} PROVE FALSE
    OBVIOUS
  <2>1. D \subseteq Nat
    OBVIOUS
  <2>2. PICK i \in D : \A j \in D : i <= j
    <3> HIDE DEF D
    <3> QED BY <2>1, Least
  <2>3. i \in 1..n /\ \A j \in 1..n : j < i => f[j] = g[j]
    BY <2>2
  <2>4. f[i] \in Nat /\ g[i] \in Nat /\ f[i] # g[i]
    BY <1>3, <2>2, <2>3
  <2>5. CASE f[i] < g[i]
    BY <1>3, <2>3, <2>5, NoFirstDifference
  <2>6. CASE g[i] < f[i]
    BY <1>3, <2>3, <2>6, NoFirstDifference
  <2> QED BY <2>4, <2>5, <2>6
<1>5. \A i \in 1..n : f[i] = g[i]
  BY <1>4
<1>6. f = g
  <2> HIDE DEF D
  <2> QED BY <1>3, <1>5
<1> QED BY <1>2, <1>6

----------------------------------------------------------------------------
(* The lookup *)

\* A search finds the first occurrence.
LEMMA FirstFacts ==
    ASSUME NEW n \in Nat, NEW v, DOMAIN v = 1..n, NEW id \in Elems(v)
    PROVE  /\ First(v, id) \in DOMAIN v
           /\ v[First(v, id)] = id
<1> DEFINE D == {i \in 1..n : v[i] = id}
<1>1. D \subseteq Nat /\ D # {}
  BY DEF Elems
<1>2. PICK i \in D : \A j \in D : i <= j
  <2> HIDE DEF D
  <2> QED BY <1>1, Least
<1>3. i \in DOMAIN v /\ v[i] = id /\ \A j \in 1..(i - 1) : v[j] # id
  BY <1>2
<1> QED BY <1>3 DEF First

----------------------------------------------------------------------------
(* What ParsedBC makes of a netlist *)

IsVector(v) == \E n \in Nat : DOMAIN v = 1..n /\ Len(v) = n

\* A function on 1..n is a vector of length n.
LEMMA VectorOfDomain ==
    ASSUME NEW n \in Nat, NEW v, v = [i \in 1..n |-> v[i]]
    PROVE  DOMAIN v = 1..n /\ Len(v) = n /\ IsVector(v)
<1>1. DOMAIN v = 1..n
  OBVIOUS
<1>2. v \in Seq({v[i] : i \in 1..n})
  OBVIOUS
<1>3. Len(v) = n
  BY <1>1, <1>2
<1> QED BY <1>1, <1>3 DEF IsVector

\* The elements of v are those of s at positions in I, each used once.
Picks(v, s, I) ==
    \E n \in Nat : \E e \in [1..n -> I] :
        Distinct(e, n) /\ v = [i \in 1..n |-> s[e[i]]]

\* A subsequence reads the sequence at the positions, each of them once.
LEMMA SubsequenceFacts ==
    ASSUME NEW k \in Nat, NEW s, NEW I, I \subseteq 1..k,
           NEW v, v = Subsequence(s, I)
    PROVE  Picks(v, s, I)
<1>1. IsFiniteSet(I) /\ I \subseteq Nat
  <2>1. 0 \in Int /\ k \in Int
    OBVIOUS
  <2>2. IsFiniteSet(1..k)
    BY FS_Interval
  <2>3. IsFiniteSet(I)
    BY <2>2, FS_Subset, Zenon
  <2> QED BY <2>3
<1>2. PICK n \in Nat : n = Cardinality(I)
  BY <1>1, EnumeratedFacts
<1>3. PICK e \in [1..n -> I] : e = Enumerated(I) /\ Increasing(e, n)
  BY <1>1, <1>2, EnumeratedFacts
<1>4. Distinct(e, n)
  <2> SUFFICES ASSUME NEW i \in 1..n, NEW j \in 1..n, e[i] = e[j]
               PROVE  i = j
    BY DEF Distinct
  <2>1. e[i] \in Nat /\ e[j] \in Nat
    BY <1>1
  <2>2. ~(i < j) /\ ~(j < i)
    BY <1>3, <2>1 DEF Increasing
  <2> QED BY <2>2
<1>5. v = [i \in 1..n |-> s[e[i]]]
  <2>1. v = [i \in DOMAIN Enumerated(I) |-> s[Enumerated(I)[i]]]
    BY Zenon DEF Subsequence
  <2>2. v = [i \in DOMAIN e |-> s[e[i]]]
    BY <1>3, <2>1, Zenon
  <2>3. DOMAIN e = 1..n
    OBVIOUS
  <2> QED BY <2>2, <2>3, Zenon
<1> QED BY <1>4, <1>5 DEF Picks

WellFormed(c) == c \in Netlists /\ OneDriver(c)

\* The gates, and the flip-flops, are cells of the netlist, each of them once.
LEMMA CellsAt ==
    ASSUME NEW c, WellFormed(c), NEW I, I \subseteq DOMAIN c.cells,
           NEW v, v = Subsequence(c.cells, I)
    PROVE  Picks(v, c.cells, I)
<1>1. PICK k \in Nat : DOMAIN c.cells = 1..k
  BY DEF WellFormed, Netlists
<1>2. I \subseteq 1..k
  BY <1>1
<1> QED BY <1>2, SubsequenceFacts, Zenon

\* The fields of what the parser returns.
LEMMA ParsedFields ==
    ASSUME NEW c, NEW b, b = ParsedBC(c)
    PROVE  /\ b.input_vector = Ascending(c.ins)
           /\ b.output_vector = Ascending(c.outs)
           /\ b.DFF_Q_vector = [i \in DOMAIN FlipFlops(c) |-> FlipFlops(c)[i].Y]
           /\ b.DFF_D_vector = [i \in DOMAIN FlipFlops(c) |-> FlipFlops(c)[i].A]
           /\ b.wire_vector = Enumerated(Wires(c))
           /\ b.gate_vector = [i \in DOMAIN Gates(c) |->
                 [name |-> IF HalfAdder(Gates(c)[i]) THEN "ha"
                           ELSE GateName(Gates(c)[i].type),
                  out |-> Gates(c)[i].Y,
                  in |-> <<Gates(c)[i].A, Gates(c)[i].B, Gates(c)[i].S>>]]
<1>1. DOMAIN [i \in DOMAIN FlipFlops(c) |-> FlipFlops(c)[i].Y] = DOMAIN FlipFlops(c)
  OBVIOUS
<1>2. b.gate_vector = [i \in DOMAIN Gates(c) |->
                 [name |-> IF HalfAdder(Gates(c)[i]) THEN "ha"
                           ELSE GateName(Gates(c)[i].type),
                  out |-> Gates(c)[i].Y,
                  in |-> <<Gates(c)[i].A, Gates(c)[i].B, Gates(c)[i].S>>]]
  BY DEF ParsedBC
<1>3. /\ b.input_vector = Ascending(c.ins)
      /\ b.output_vector = Ascending(c.outs)
      /\ b.DFF_Q_vector = [i \in DOMAIN FlipFlops(c) |-> FlipFlops(c)[i].Y]
      /\ b.wire_vector = Enumerated(Wires(c))
  BY DEF ParsedBC
<1>4. b.DFF_D_vector = [i \in DOMAIN FlipFlops(c) |-> FlipFlops(c)[i].A]
  BY <1>1 DEF ParsedBC
<1> QED BY <1>2, <1>3, <1>4

FromFlipFlops(b, c) ==
    \A i \in DOMAIN b.DFF_Q_vector : \E j \in DOMAIN c.cells :
        c.cells[j].type = FlipFlop /\ c.cells[j].Y = b.DFF_Q_vector[i]

\* The registers are flip-flops of the netlist.
LEMMA ParsedRegisters ==
    ASSUME NEW c, WellFormed(c), NEW b, b = ParsedBC(c)
    PROVE  /\ IsVector(b.DFF_Q_vector) /\ IsVector(b.DFF_D_vector)
           /\ DOMAIN b.DFF_D_vector = DOMAIN b.DFF_Q_vector
           /\ FromFlipFlops(b, c)
<1> DEFINE Registers == {i \in DOMAIN c.cells : c.cells[i].type = FlipFlop}
<1>1. PICK x : x = FlipFlops(c) /\ Picks(x, c.cells, Registers)
  <2>1. Registers \subseteq DOMAIN c.cells
    OBVIOUS
  <2>2. FlipFlops(c) = Subsequence(c.cells, Registers)
    BY DEF FlipFlops, Registers
  <2> HIDE DEF Registers
  <2> QED BY <2>1, <2>2, CellsAt, Zenon
<1> HIDE DEF Registers
<1>2. PICK n \in Nat : \E e \in [1..n -> Registers] : x = [i \in 1..n |-> c.cells[e[i]]]
  BY <1>1, Zenon DEF Picks
<1>3. PICK e \in [1..n -> Registers] : x = [i \in 1..n |-> c.cells[e[i]]]
  BY <1>2, Zenon
<1>4. PICK q, d : q = b.DFF_Q_vector /\ d = b.DFF_D_vector
  OBVIOUS
<1>5. q = [i \in DOMAIN x |-> x[i].Y] /\ d = [i \in DOMAIN x |-> x[i].A]
  <2>1. /\ q = [i \in DOMAIN FlipFlops(c) |-> FlipFlops(c)[i].Y]
        /\ d = [i \in DOMAIN FlipFlops(c) |-> FlipFlops(c)[i].A]
    <3>1. /\ b.DFF_Q_vector = [i \in DOMAIN FlipFlops(c) |-> FlipFlops(c)[i].Y]
          /\ b.DFF_D_vector = [i \in DOMAIN FlipFlops(c) |-> FlipFlops(c)[i].A]
      BY ParsedFields, ZenonT(60)
    <3> QED BY <1>4, <3>1, Zenon
  <2> QED BY <1>1, <2>1, Zenon
<1>6. DOMAIN x = 1..n
  BY <1>3
<1>7. q = [i \in 1..n |-> x[i].Y] /\ d = [i \in 1..n |-> x[i].A]
  BY <1>5, <1>6, Zenon
<1>8. /\ q = [i \in 1..n |-> q[i]] /\ DOMAIN q = 1..n
      /\ d = [i \in 1..n |-> d[i]] /\ DOMAIN d = 1..n
  BY <1>7
<1>9. IsVector(q) /\ IsVector(d)
  BY <1>8, VectorOfDomain
<1>10. \A i \in 1..n : \E j \in DOMAIN c.cells :
         c.cells[j].type = FlipFlop /\ c.cells[j].Y = q[i]
  BY <1>3, <1>7 DEF Registers
<1> QED BY <1>4, <1>8, <1>9, <1>10 DEF FromFlipFlops

\* A gate of gate_vector and the cell it comes from.
GateOf(x, gate) ==
    /\ x \in CellRecords /\ x.type # FlipFlop
    /\ gate.name = IF HalfAdder(x) THEN "ha" ELSE GateName(x.type)
    /\ gate.out = x.Y /\ gate.in = <<x.A, x.B, x.S>>

\* The gates come from cells, have outputs of their own, and drive neither inputs
\* nor registers.
LEMMA ParsedGates ==
    ASSUME NEW c, WellFormed(c), NEW b, b = ParsedBC(c)
    PROVE  /\ IsVector(b.gate_vector)
           /\ \A g \in DOMAIN b.gate_vector :
                 /\ \E x \in Elems(c.cells) : GateOf(x, b.gate_vector[g])
                 /\ b.gate_vector[g].out \notin Elems(c.ins) \cup Elems(b.DFF_Q_vector)
           /\ \A g, h \in DOMAIN b.gate_vector :
                 b.gate_vector[g].out = b.gate_vector[h].out => g = h
<1> DEFINE Positions == {i \in DOMAIN c.cells : c.cells[i].type # FlipFlop}
           gates == b.gate_vector
<1>1. PICK k \in Nat : DOMAIN c.cells = 1..k
  BY DEF WellFormed, Netlists
<1>2. \A i \in 1..k : c.cells[i] \in CellRecords /\ c.cells[i] \in Elems(c.cells)
  BY <1>1 DEF WellFormed, Netlists, Elems
<1>3. PICK x : x = Gates(c) /\ Picks(x, c.cells, Positions)
  <2>1. Positions \subseteq DOMAIN c.cells
    OBVIOUS
  <2>2. Gates(c) = Subsequence(c.cells, Positions)
    BY DEF Gates, Positions
  <2> HIDE DEF Positions
  <2> QED BY <2>1, <2>2, CellsAt, Zenon
<1>3a. PICK n \in Nat : \E e \in [1..n -> Positions] :
         Distinct(e, n) /\ x = [i \in 1..n |-> c.cells[e[i]]]
  BY <1>3, Zenon DEF Picks
<1>4. PICK e \in [1..n -> Positions] :
         Distinct(e, n) /\ x = [i \in 1..n |-> c.cells[e[i]]]
  BY <1>3a, Zenon
<1>5. \A g \in 1..n : /\ e[g] \in 1..k /\ c.cells[e[g]].type # FlipFlop
                      /\ x[g] = c.cells[e[g]]
  BY <1>1, <1>4
<1>6. gates = [i \in 1..n |->
                 [name |-> IF HalfAdder(x[i]) THEN "ha" ELSE GateName(x[i].type),
                  out |-> x[i].Y, in |-> <<x[i].A, x[i].B, x[i].S>>]]
  <2>1. DOMAIN x = 1..n
    BY <1>4
  <2>2. gates = [i \in DOMAIN x |->
                 [name |-> IF HalfAdder(x[i]) THEN "ha" ELSE GateName(x[i].type),
                  out |-> x[i].Y, in |-> <<x[i].A, x[i].B, x[i].S>>]]
    <3>1. b.gate_vector = [i \in DOMAIN Gates(c) |->
                 [name |-> IF HalfAdder(Gates(c)[i]) THEN "ha"
                           ELSE GateName(Gates(c)[i].type),
                  out |-> Gates(c)[i].Y,
                  in |-> <<Gates(c)[i].A, Gates(c)[i].B, Gates(c)[i].S>>]]
      BY ParsedFields, Zenon
    <3> QED BY <1>3, <3>1, Zenon
  <2> QED BY <2>1, <2>2, Zenon
<1> HIDE DEF gates
<1>7. /\ gates = [i \in 1..n |-> gates[i]] /\ DOMAIN gates = 1..n
      /\ \A g \in 1..n : GateOf(c.cells[e[g]], gates[g])
  <2>1. gates = [i \in 1..n |-> gates[i]] /\ DOMAIN gates = 1..n
    BY <1>6
  <2>2. ASSUME NEW g \in 1..n
        PROVE  GateOf(c.cells[e[g]], gates[g])
    <3>1. gates[g] = [name |-> IF HalfAdder(x[g]) THEN "ha" ELSE GateName(x[g].type),
                      out |-> x[g].Y, in |-> <<x[g].A, x[g].B, x[g].S>>]
      BY <1>6
    <3> QED BY <1>2, <1>5, <3>1 DEF GateOf
  <2> QED BY <2>1, <2>2
<1>8. IsVector(gates)
  BY <1>7, VectorOfDomain
<1>9. ASSUME NEW q \in Elems(b.DFF_Q_vector)
      PROVE  \E i \in 1..k : c.cells[i].type = FlipFlop /\ c.cells[i].Y = q
  <2>1. PICK i \in DOMAIN b.DFF_Q_vector : b.DFF_Q_vector[i] = q
    BY <1>9 DEF Elems
  <2>2. \A j \in DOMAIN b.DFF_Q_vector : \E l \in DOMAIN c.cells :
           c.cells[l].type = FlipFlop /\ c.cells[l].Y = b.DFF_Q_vector[j]
    <3>1. FromFlipFlops(b, c)
      BY ParsedRegisters
    <3> QED BY <3>1, Zenon DEF FromFlipFlops
  <2>3. \E l \in DOMAIN c.cells : c.cells[l].type = FlipFlop /\ c.cells[l].Y = q
    BY <2>1, <2>2, Zenon
  <2> QED BY <1>1, <2>3, Zenon
<1>10. ASSUME NEW g \in 1..n
       PROVE  gates[g].out \notin Elems(c.ins) \cup Elems(b.DFF_Q_vector)
  <2>1. gates[g].out \in OutputsOf(c.cells[e[g]]) /\ e[g] \in DOMAIN c.cells
    BY <1>1, <1>5, <1>7 DEF GateOf, OutputsOf
  <2>2. gates[g].out \notin Elems(c.ins)
    BY <2>1 DEF WellFormed, OneDriver
  <2>3. ASSUME gates[g].out \in Elems(b.DFF_Q_vector)
        PROVE  FALSE
    <3>1. PICK i \in 1..k : c.cells[i].type = FlipFlop /\ c.cells[i].Y = gates[g].out
      BY <1>9, <2>3
    <3>2. i # e[g] /\ gates[g].out \in OutputsOf(c.cells[i]) /\ i \in DOMAIN c.cells
      BY <1>1, <1>5, <3>1 DEF OutputsOf
    <3> QED BY <2>1, <3>2 DEF WellFormed, OneDriver
  <2> QED BY <2>2, <2>3
<1>11. ASSUME NEW g \in 1..n, NEW h \in 1..n, gates[g].out = gates[h].out
       PROVE  g = h
  <2>1. /\ gates[g].out \in OutputsOf(c.cells[e[g]]) /\ e[g] \in DOMAIN c.cells
        /\ gates[h].out \in OutputsOf(c.cells[e[h]]) /\ e[h] \in DOMAIN c.cells
    BY <1>1, <1>5, <1>7 DEF GateOf, OutputsOf
  <2>2. e[g] = e[h]
    BY <1>11, <2>1 DEF WellFormed, OneDriver
  <2> QED BY <1>4, <2>2 DEF Distinct
<1>12. \A g \in 1..n : \E y \in Elems(c.cells) : GateOf(y, gates[g])
  BY <1>2, <1>5, <1>7
<1> QED BY <1>7, <1>8, <1>10, <1>11, <1>12 DEF gates

\* A vector has finitely many elements.
LEMMA FiniteElems ==
    ASSUME NEW n \in Nat, NEW S, NEW f \in [1..n -> S]
    PROVE  IsFiniteSet(Elems(f))
<1>1. IsFiniteSet(1..n)
  BY FS_Interval
<1>2. f \in Surjection(1..n, Elems(f))
  BY DEF Surjection, Elems
<1> QED BY <1>1, <1>2, FS_Surjection, Zenon

\* There are finitely many wires.
LEMMA FiniteWires ==
    ASSUME NEW c, WellFormed(c)
    PROVE  IsFiniteSet(Wires(c)) /\ Wires(c) \subseteq Nat
<1> DEFINE Positions == {i \in DOMAIN c.cells : c.cells[i].type # FlipFlop}
<1>1. PICK x : x = Gates(c) /\ Picks(x, c.cells, Positions)
  <2>1. Positions \subseteq DOMAIN c.cells
    OBVIOUS
  <2>2. Gates(c) = Subsequence(c.cells, Positions)
    BY DEF Gates, Positions
  <2> HIDE DEF Positions
  <2> QED BY <2>1, <2>2, CellsAt, Zenon
<1>2. PICK n \in Nat : \E e \in [1..n -> Positions] : x = [i \in 1..n |-> c.cells[e[i]]]
  BY <1>1, Zenon DEF Picks
<1>3. PICK e \in [1..n -> Positions] : x = [i \in 1..n |-> c.cells[e[i]]]
  BY <1>2, Zenon
<1>4. DOMAIN x = 1..n /\ \A i \in 1..n : x[i].Y \in Nat /\ x[i].X \in Nat
  <2>1. DOMAIN x = 1..n
    BY <1>3
  <2>2. ASSUME NEW i \in 1..n
        PROVE  x[i].Y \in Nat /\ x[i].X \in Nat
    <3>1. x[i] = c.cells[e[i]] /\ e[i] \in DOMAIN c.cells
      BY <1>3
    <3>2. c.cells[e[i]] \in CellRecords
      BY <3>1 DEF WellFormed, Netlists
    <3> QED BY <3>1, <3>2 DEF CellRecords
  <2> QED BY <2>1, <2>2
<1>5. PICK y \in [1..n -> Nat] : \A i \in 1..n : y[i] = x[i].Y
  <2>1. [i \in 1..n |-> x[i].Y] \in [1..n -> Nat]
    BY <1>4
  <2> QED BY <2>1
<1>6. PICK z \in [1..n -> Nat] : \A i \in 1..n : z[i] = x[i].X
  <2>1. [i \in 1..n |-> x[i].X] \in [1..n -> Nat]
    BY <1>4
  <2> QED BY <2>1
<1>7. IsFiniteSet(Elems(y) \cup Elems(z))
  <2>1. IsFiniteSet(Elems(y)) /\ IsFiniteSet(Elems(z))
    BY FiniteElems
  <2> QED BY <2>1, FS_Union
<1>8. Wires(c) \subseteq Elems(y) \cup Elems(z)
  BY <1>1, <1>4, <1>5, <1>6 DEF Wires, OutputsOf, Elems
<1>9. Elems(y) \cup Elems(z) \subseteq Nat
  BY DEF Elems
<1>10. IsFiniteSet(Wires(c))
  BY <1>7, <1>8, FS_Subset, Zenon
<1> QED BY <1>8, <1>9, <1>10

\* The ports are sorted: the inputs in the order of cloud.data.  No wire is an
\* output port.
LEMMA ParsedPorts ==
    ASSUME NEW c, WellFormed(c), NEW b, b = ParsedBC(c)
    PROVE  /\ IsVector(b.input_vector) /\ IsVector(b.output_vector)
           /\ IsVector(b.wire_vector)
           /\ b.input_vector = Enumerated(Elems(c.ins))
           /\ DOMAIN b.input_vector = DOMAIN c.ins
           /\ Elems(b.input_vector) = Elems(c.ins)
           /\ Elems(b.output_vector) = Elems(c.outs)
           /\ Elems(b.wire_vector) \cap Elems(b.output_vector) = {}
<1>1. PICK m \in Nat : DOMAIN c.ins = 1..m /\ c.ins \in [1..m -> Nat] /\ Distinct(c.ins, m)
  <2>1. c.ins \in Seq(Nat)
    BY DEF WellFormed, Netlists
  <2>2. PICK m \in Nat : c.ins \in [1..m -> Nat]
    BY <2>1
  <2>3. Distinct(c.ins, m)
    BY <2>2 DEF WellFormed, OneDriver, Distinct
  <2> QED BY <2>2, <2>3
<1>2. PICK n \in Nat : DOMAIN c.outs = 1..n /\ c.outs \in [1..n -> Nat]
  BY DEF WellFormed, Netlists
<1>3. /\ b.input_vector = Ascending(c.ins) /\ b.output_vector = Ascending(c.outs)
      /\ b.wire_vector = Enumerated(Wires(c))
  BY ParsedFields, Zenon
<1>4. /\ b.input_vector \in [1..m -> Nat] /\ Elems(b.input_vector) = Elems(c.ins)
      /\ b.input_vector = Enumerated(Elems(c.ins))
  <2>1. PICK t : t = c.ins
    OBVIOUS
  <2>2. t \in [1..m -> Nat] /\ Distinct(t, m)
    BY <1>1, <2>1
  <2>3. /\ Ascending(t) \in [1..m -> Nat] /\ Elems(Ascending(t)) = Elems(t)
        /\ Ascending(t) = Enumerated(Elems(t))
    BY <2>2, AscendingFacts, AscendingEnumerates
  <2> QED BY <1>3, <2>1, <2>3
<1>5. b.output_vector \in [1..n -> Nat] /\ Elems(b.output_vector) = Elems(c.outs)
  BY <1>2, <1>3, AscendingFacts
<1>6. PICK k \in Nat : b.wire_vector \in [1..k -> Wires(c)]
  BY <1>3, FiniteWires, EnumeratedFacts
<1>7. Elems(b.wire_vector) \cap Elems(b.output_vector) = {}
  <2>1. Elems(b.wire_vector) \subseteq Wires(c)
    BY <1>6 DEF Elems
  <2>2. Wires(c) \cap Elems(c.outs) = {}
    <3>1. ASSUME NEW w \in Wires(c)
          PROVE  w \notin Elems(c.outs)
      BY DEF Wires
    <3> QED BY <3>1
  <2> QED BY <1>5, <2>1, <2>2
<1>8. IsVector(b.input_vector) /\ DOMAIN b.input_vector = DOMAIN c.ins
  <2>1. PICK v : v = b.input_vector
    OBVIOUS
  <2>2. v = [i \in 1..m |-> v[i]] /\ DOMAIN v = 1..m
    BY <1>4, <2>1
  <2> QED BY <1>1, <2>1, <2>2, VectorOfDomain
<1>9. IsVector(b.output_vector)
  <2>1. PICK v : v = b.output_vector
    OBVIOUS
  <2>2. v = [i \in 1..n |-> v[i]]
    BY <1>5, <2>1
  <2> QED BY <2>1, <2>2, VectorOfDomain
<1>10. IsVector(b.wire_vector)
  <2>1. PICK v : v = b.wire_vector
    OBVIOUS
  <2>2. v = [i \in 1..k |-> v[i]]
    BY <1>6, <2>1
  <2> QED BY <2>1, <2>2, VectorOfDomain
<1> QED BY <1>4, <1>5, <1>7, <1>8, <1>9, <1>10

Empty == [ins |-> <<>>, outs |-> <<>>, inout |-> FALSE, cells |-> <<>>]

\* So is the netlist of which main's BCnetlist is the value before parsing.
LEMMA EmptyIsWellFormed == WellFormed(Empty)
<1>1. <<>> \in Seq(Nat) /\ <<>> \in Seq(CellRecords)
  OBVIOUS
<1>2. Empty \in Netlists
  BY <1>1 DEF Empty, Netlists
<1>3. DOMAIN Empty.ins = {} /\ DOMAIN Empty.cells = {}
  BY DEF Empty
<1> QED BY <1>2, <1>3 DEF WellFormed, OneDriver

\* bc is what the parser made of a netlist.
Parsed == \E c : WellFormed(c) /\ bc = ParsedBC(c)

----------------------------------------------------------------------------
(* What search_pointer finds *)

\* The handle of a net, or Wild.
Found(id) ==
    IF id \in Elems(bc.input_vector) THEN <<"in", First(bc.input_vector, id)>>
    ELSE IF bc.DFF_Q_vector = <<>> \/ layout = "below" THEN AfterDffd(id)
    ELSE IF id \in Elems(bc.DFF_Q_vector) THEN Wild
    ELSE IF id \in Elems(bc.DFF_D_vector)
         THEN <<"dffd", First(bc.DFF_D_vector, id)>>
         ELSE AfterDffd(id)

\* The net a handle was registered for.
NetAt(s) ==
    CASE s[1] = "in" -> bc.input_vector[s[2]]
      [] s[1] = "out" -> bc.output_vector[s[2]]
      [] s[1] = "dffq" -> bc.DFF_Q_vector[s[2]]
      [] s[1] = "dffd" -> bc.DFF_D_vector[s[2]]
      [] s[1] = "wire" -> bc.wire_vector[s[2]]

\* The search of a net has one outcome, apart from the undefined ones.
LEMMA SearchFinds ==
    ASSUME NEW id, NEW s \in search_pointer(id), s # Wild
    PROVE  s = Found(id)
<1>1. Wild # Missing
  BY DEF Wild, Missing
<1>2. CASE id \in Elems(bc.input_vector)
  BY <1>2 DEF search_pointer, Found
<1>3. CASE id \notin Elems(bc.input_vector)
  <2>1. PICK r \in DffdSearch(id) : s = IF r = Missing THEN AfterDffd(id) ELSE r
    BY <1>3 DEF search_pointer
  <2>2. CASE bc.DFF_Q_vector = <<>>
    BY <1>3, <2>1, <2>2 DEF DffdSearch, Found
  <2>3. CASE bc.DFF_Q_vector # <<>> /\ layout = "below"
    BY <1>1, <1>3, <2>1, <2>3 DEF DffdSearch, Found
  <2>4. CASE bc.DFF_Q_vector # <<>> /\ layout # "below"
    BY <1>1, <1>3, <2>1, <2>4 DEF DffdSearch, Found, Missing
  <2> QED BY <2>2, <2>3, <2>4
<1> QED BY <1>2, <1>3

\* The positions of the vectors of bc are those of vectors.
LEMMA ParsedVectors ==
    Parsed => /\ IsVector(bc.input_vector) /\ IsVector(bc.output_vector)
              /\ IsVector(bc.DFF_Q_vector) /\ IsVector(bc.DFF_D_vector)
              /\ IsVector(bc.wire_vector) /\ IsVector(bc.gate_vector)
BY ParsedPorts, ParsedRegisters, ParsedGates DEF Parsed

\* A search of a vector finds a position of the net.
LEMMA VectorSearch ==
    ASSUME NEW v, IsVector(v), NEW id \in Elems(v)
    PROVE  First(v, id) \in DOMAIN v /\ v[First(v, id)] = id
BY FirstFacts DEF IsVector

\* What is found is a registered handle, and the net's own.
LEMMA FoundIsNet ==
    ASSUME Parsed, NEW id, Found(id) # Wild
    PROVE  Found(id) \in Slots /\ NetAt(Found(id)) = id
<1>1. /\ IsVector(bc.input_vector) /\ IsVector(bc.output_vector)
      /\ IsVector(bc.DFF_Q_vector) /\ IsVector(bc.DFF_D_vector)
      /\ IsVector(bc.wire_vector)
  BY ParsedVectors
<1>2. CASE id \in Elems(bc.input_vector) /\ Found(id) = <<"in", First(bc.input_vector, id)>>
  BY <1>1, <1>2, VectorSearch DEF Slots, NetAt
<1>3. CASE id \in Elems(bc.DFF_D_vector) /\ Found(id) = <<"dffd", First(bc.DFF_D_vector, id)>>
  BY <1>1, <1>3, VectorSearch DEF Slots, NetAt
<1>4. CASE id \in Elems(bc.DFF_Q_vector) /\ Found(id) = <<"dffq", First(bc.DFF_Q_vector, id)>>
  BY <1>1, <1>4, VectorSearch DEF Slots, NetAt
<1>5. CASE id \in Elems(bc.wire_vector) /\ Found(id) = <<"wire", First(bc.wire_vector, id)>>
  BY <1>1, <1>5, VectorSearch DEF Slots, NetAt
<1>6. CASE id \in Elems(bc.output_vector) /\ Found(id) = <<"out", First(bc.output_vector, id)>>
  BY <1>1, <1>6, VectorSearch DEF Slots, NetAt
<1> QED BY <1>2, <1>3, <1>4, <1>5, <1>6 DEF Found, AfterDffd

\* An input is found among the inputs, a register among the registers, and no
\* other net there.
LEMMA FoundWhere ==
    ASSUME NEW id, Found(id) # Wild
    PROVE  /\ id \in Elems(bc.input_vector) => Found(id)[1] = "in"
           /\ id \in Elems(bc.DFF_Q_vector) => Found(id)[1] \in {"in", "dffq"}
           /\ id \notin Elems(bc.input_vector) \cup Elems(bc.DFF_Q_vector) =>
                 Found(id)[1] \notin {"in", "dffq"}
BY DEF Found, AfterDffd

\* A driven net of an output port that feeds no flip-flop is found at its first
\* position among the outputs.
LEMMA FoundOutput ==
    ASSUME Parsed, NEW id \in Elems(bc.output_vector), Found(id) # Wild,
           id \notin Elems(bc.input_vector) \cup Elems(bc.DFF_Q_vector)
                         \cup Elems(bc.DFF_D_vector)
    PROVE  Found(id) = <<"out", First(bc.output_vector, id)>>
<1>1. id \notin Elems(bc.wire_vector)
  BY ParsedPorts DEF Parsed
<1> QED BY <1>1 DEF Found, AfterDffd
============================================================================
