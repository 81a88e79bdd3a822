--------------------------- MODULE CaseStatsProofs ---------------------------
(***************************************************************************)
(* What a dashboard shows, for any number of cases, tabs and browsers, any *)
(* age the configuration sets, answers delayed and overtaken in any way    *)
(* and rows in any order: the sort of the groups orders them strictly, so  *)
(* that the figures are a function of the cases (first part); they add up  *)
(* (second part); and every answer, in flight, stored or shown, is that of *)
(* the table some number of writes ago, and of a time that is not long     *)
(* past (third part).                                                      *)
(*                                                                         *)
(* Induction is by the least element of a set of numbers, which the        *)
(* library's well-foundedness of < on Nat gives.                           *)
(***************************************************************************)
EXTENDS CaseStats, FiniteSetTheorems, TLAPS

\* Induction over numbers: what is wrong somewhere is wrong at a least place.
LEMMA LeastNatural ==
  ASSUME NEW T, T \subseteq Nat, T # {}
  PROVE  \E m \in T : \A k \in T : m <= k
<1>1. PICK m \in T : \A k \in T : <<k, m>> \notin OpToRel(<, Nat)
  BY WFMin, NatLessThanWellFounded, Zenon
<1>2. \A k \in T : ~(k < m)
  BY <1>1, Zenon DEF OpToRel
<1>3. \A k \in T : m <= k
  BY <1>2, SMT
<1> QED BY <1>3

LEMMA MinIsLeast ==
  ASSUME NEW T, T \subseteq Nat, T # {}
  PROVE  Min(T) \in T /\ \A k \in T : Min(T) <= k
  BY LeastNatural DEF Min

Values == Int \cup {Null}

LEMMA CompareValuesIs ==
  ASSUME NEW a \in Values, NEW b \in Values
  PROVE  CompareValues(a, b) = IF a = b THEN 0
                               ELSE IF a = Null THEN 1
                               ELSE IF b = Null THEN -1
                               ELSE IF a < b THEN -1 ELSE 1
  BY SMT DEF CompareValues

\* compareValues (src/data/caseStats.js:5) orders the values of a column, null among
\* them, totally: what sort makes of groups of one size does not depend on where it
\* finds them.
THEOREM ValuesAreOrdered ==
  ASSUME NEW a \in Int \cup {Null}, NEW b \in Int \cup {Null}, NEW c \in Int \cup {Null}
  PROVE  /\ CompareValues(a, b) = 0 <=> a = b
         /\ CompareValues(a, b) < 0 <=> CompareValues(b, a) > 0
         /\ CompareValues(a, b) < 0 /\ CompareValues(b, c) < 0 => CompareValues(a, c) < 0
<1>1. \A x, y \in Int \cup {Null} :
        CompareValues(x, y) = IF x = y THEN 0
                              ELSE IF x = Null THEN 1
                              ELSE IF y = Null THEN -1
                              ELSE IF x < y THEN -1 ELSE 1
  BY CompareValuesIs DEF Values
<1> QED BY <1>1, SMT

LEMMA ValueTypes ==
  ASSUME NEW a \in Values, NEW b \in Values
  PROVE  CompareValues(a, b) \in Int
  BY CompareValuesIs, SMT

\* The first key that tells two groups apart decides.
LEMMA FirstDifference ==
  ASSUME NEW n \in Nat, NEW g \in [1..n -> Values], NEW h \in [1..n -> Values], g # h
  PROVE  \E k \in 1..n :
           /\ g[k] # h[k] /\ \A l \in 1..n : l < k => g[l] = h[l]
           /\ CompareKeys(g, h) = CompareValues(g[k], h[k])
<1> DEFINE differ == {k \in DOMAIN g : CompareValues(g[k], h[k]) # 0}
<1>1. DOMAIN g = 1..n /\ DOMAIN h = 1..n
  OBVIOUS
<1>2. \A k \in 1..n : CompareValues(g[k], h[k]) = 0 <=> g[k] = h[k]
  BY ValuesAreOrdered DEF Values
<1>3. differ = {k \in 1..n : g[k] # h[k]}
  BY <1>1, <1>2
<1>4. differ # {}
  <2>1. \E k \in 1..n : g[k] # h[k]
    BY <1>1
  <2> QED BY <2>1, <1>3
<1>5. CompareKeys(g, h) = CompareValues(g[Min(differ)], h[Min(differ)])
  BY <1>4 DEF CompareKeys
<1>6. differ \subseteq Nat
  BY <1>3, SMT
<1>7. Min(differ) \in differ /\ \A k \in differ : Min(differ) <= k
  BY <1>4, <1>6, MinIsLeast
<1>8. \A l \in 1..n : l < Min(differ) => g[l] = h[l]
  BY <1>3, <1>6, <1>7, SMT
<1>9. Min(differ) \in 1..n /\ g[Min(differ)] # h[Min(differ)]
  BY <1>3, <1>7
<1> HIDE DEF differ
<1> QED BY <1>5, <1>8, <1>9

LEMMA DecidedAt ==
  ASSUME NEW n \in Nat, NEW g \in [1..n -> Values], NEW h \in [1..n -> Values],
         NEW k \in 1..n, g[k] # h[k], \A l \in 1..n : l < k => g[l] = h[l]
  PROVE  CompareKeys(g, h) = CompareValues(g[k], h[k])
<1>1. g # h
  OBVIOUS
<1>2. PICK j \in 1..n :
           /\ g[j] # h[j] /\ \A l \in 1..n : l < j => g[l] = h[l]
           /\ CompareKeys(g, h) = CompareValues(g[j], h[j])
  BY <1>1, FirstDifference
<1>3. j = k
  BY <1>2, SMT
<1> QED BY <1>2, <1>3

\* So the lists of values by which groups are told apart are ordered totally.
LEMMA KeysAreOrdered ==
  ASSUME NEW n \in Nat, NEW g \in [1..n -> Values], NEW h \in [1..n -> Values],
         NEW f \in [1..n -> Values]
  PROVE  /\ CompareKeys(g, h) \in Int
         /\ CompareKeys(g, h) = 0 <=> g = h
         /\ CompareKeys(g, h) < 0 <=> CompareKeys(h, g) > 0
         /\ CompareKeys(g, h) < 0 /\ CompareKeys(h, f) < 0 => CompareKeys(g, f) < 0
<1>0. \A x, y, z \in Values :
         /\ CompareValues(x, y) \in Int
         /\ CompareValues(x, y) = 0 <=> x = y
         /\ CompareValues(x, y) < 0 <=> CompareValues(y, x) > 0
         /\ CompareValues(x, y) < 0 /\ CompareValues(y, z) < 0 => CompareValues(x, z) < 0
  BY ValuesAreOrdered, ValueTypes DEF Values
<1>1. \A x \in [1..n -> Values] : CompareKeys(x, x) = 0
  <2> SUFFICES ASSUME NEW x \in [1..n -> Values] PROVE CompareKeys(x, x) = 0
    OBVIOUS
  <2>1. \A k \in DOMAIN x : CompareValues(x[k], x[k]) = 0
    BY <1>0
  <2> QED BY <2>1 DEF CompareKeys
<1>2. g # h =>
        \E k \in 1..n :
           /\ g[k] # h[k] /\ \A l \in 1..n : l < k => g[l] = h[l]
           /\ CompareKeys(g, h) = CompareValues(g[k], h[k])
           /\ CompareKeys(h, g) = CompareValues(h[k], g[k])
  BY FirstDifference, DecidedAt
<1>3. /\ CompareKeys(g, h) \in Int
      /\ CompareKeys(g, h) = 0 <=> g = h
      /\ CompareKeys(g, h) < 0 <=> CompareKeys(h, g) > 0
  <2>1. CASE g = h
    BY <1>1, <2>1, SMT
  <2>2. CASE g # h
    <3>1. PICK k \in 1..n :
           /\ g[k] # h[k]
           /\ CompareKeys(g, h) = CompareValues(g[k], h[k])
           /\ CompareKeys(h, g) = CompareValues(h[k], g[k])
      BY <1>2, <2>2
    <3>2. g[k] \in Values /\ h[k] \in Values
      OBVIOUS
    <3>3. /\ CompareValues(g[k], h[k]) \in Int /\ CompareValues(g[k], h[k]) # 0
          /\ CompareValues(g[k], h[k]) < 0 <=> CompareValues(h[k], g[k]) > 0
      BY <1>0, <3>1, <3>2
    <3> QED BY <2>2, <3>1, <3>3
  <2> QED BY <2>1, <2>2
<1>4. ASSUME CompareKeys(g, h) < 0, CompareKeys(h, f) < 0 PROVE CompareKeys(g, f) < 0
  <2>1. g # h /\ h # f
    BY <1>1, <1>4, SMT
  <2>2. PICK i \in 1..n :
           /\ g[i] # h[i] /\ \A l \in 1..n : l < i => g[l] = h[l]
           /\ CompareKeys(g, h) = CompareValues(g[i], h[i])
    BY <2>1, FirstDifference
  <2>3. PICK j \in 1..n :
           /\ h[j] # f[j] /\ \A l \in 1..n : l < j => h[l] = f[l]
           /\ CompareKeys(h, f) = CompareValues(h[j], f[j])
    BY <2>1, FirstDifference
  <2> DEFINE k == IF i <= j THEN i ELSE j
  <2>4. k \in 1..n /\ \A l \in 1..n : l < k => l < i /\ l < j
    BY SMT
  <2>5. \A l \in 1..n : l < k => g[l] = f[l]
    BY <2>2, <2>3, <2>4
  <2>6. CompareValues(g[k], f[k]) < 0
    <3>1. CASE i < j
      <4>1. k = i /\ h[i] = f[i]
        BY <2>3, <3>1, SMT
      <4> QED BY <2>2, <4>1, <1>4
    <3>2. CASE j < i
      <4>1. k = j /\ g[j] = h[j]
        BY <2>2, <3>2, SMT
      <4> QED BY <2>3, <4>1, <1>4
    <3>3. CASE i = j
      <4>1. k = i
        BY <3>3, SMT
      <4>2. g[i] \in Values /\ h[i] \in Values /\ f[i] \in Values
        OBVIOUS
      <4> QED BY <1>0, <1>4, <2>2, <2>3, <3>3, <4>1, <4>2
    <3> QED BY <3>1, <3>2, <3>3, SMT
  <2> HIDE DEF k
  <2>7. g[k] # f[k]
    BY <1>0, <2>4, <2>6
  <2>8. CompareKeys(g, f) = CompareValues(g[k], f[k])
    BY <2>4, <2>5, <2>7, DecidedAt
  <2> QED BY <2>6, <2>8
<1> QED BY <1>3, <1>4

\* What a bijection is, in the form the proofs use.
LEMMA BijectionIs ==
  ASSUME NEW S, NEW T, NEW f, f \in [S -> T],
         \A a, b \in S : f[a] = f[b] => a = b,
         \A t \in T : \E x \in S : f[x] = t
  PROVE  f \in Bijection(S, T)
  BY DEF Bijection, Injection, Surjection, IsInjective

LEMMA BijectionMaps ==
  ASSUME NEW S, NEW T, NEW f \in Bijection(S, T)
  PROVE  f \in [S -> T] /\ \A a, b \in S : f[a] = f[b] => a = b
  BY DEF Bijection, Injection, Surjection, IsInjective

Onto(f, S, T) == \A t \in T : \E x \in S : f[x] = t

LEMMA BijectionHits ==
  ASSUME NEW S, NEW T, NEW f \in Bijection(S, T)
  PROVE  Onto(f, S, T)
  BY DEF Bijection, Injection, Surjection, IsInjective, Onto

\* R orders F totally.
Total3(R, F) ==
  \A x, y, z \in F :
    /\ <<x, x>> \in R
    /\ <<x, y>> \in R \/ <<y, x>> \in R
    /\ <<x, y>> \in R /\ <<y, x>> \in R => x = y
    /\ <<x, y>> \in R /\ <<y, z>> \in R => <<x, z>> \in R

\* The rank of an element is how many come before it, and itself.
UpTo(R, F, x) == {y \in F : <<y, x>> \in R}

LEMMA RanksGrow ==
  ASSUME NEW F, IsFiniteSet(F), NEW R, Total3(R, F), NEW x \in F, NEW y \in F, x # y, <<x, y>> \in R
  PROVE  Cardinality(UpTo(R, F, x)) < Cardinality(UpTo(R, F, y))
<1>1. UpTo(R, F, x) \subseteq UpTo(R, F, y)
  BY DEF UpTo, Total3
<1>2. y \in UpTo(R, F, y) /\ y \notin UpTo(R, F, x)
  BY DEF UpTo, Total3
<1>3. UpTo(R, F, y) \in SUBSET F
  BY DEF UpTo
<1>4. IsFiniteSet(UpTo(R, F, y))
  BY <1>3, FS_Subset
<1>5. /\ IsFiniteSet(UpTo(R, F, x))
      /\ Cardinality(UpTo(R, F, x)) <= Cardinality(UpTo(R, F, y))
      /\ Cardinality(UpTo(R, F, x)) # Cardinality(UpTo(R, F, y))
  BY <1>1, <1>2, <1>4, FS_Subset
<1>6. Cardinality(UpTo(R, F, x)) \in Nat /\ Cardinality(UpTo(R, F, y)) \in Nat
  BY <1>4, <1>5, FS_CardinalityType
<1> QED BY <1>5, <1>6, SMT

\* Ranks number the elements from 1 on.
LEMMA RanksNumber ==
  ASSUME NEW F, IsFiniteSet(F), NEW R, Total3(R, F)
  PROVE  [x \in F |-> Cardinality(UpTo(R, F, x))] \in Bijection(F, 1..Cardinality(F))
<1> DEFINE rank == [x \in F |-> Cardinality(UpTo(R, F, x))]
           N == Cardinality(F)
<1>1. N \in Nat
  BY FS_CardinalityType
<1>2. ASSUME NEW x \in F PROVE rank[x] \in 1..N
  <2>1. UpTo(R, F, x) \in SUBSET F /\ x \in UpTo(R, F, x)
    BY DEF UpTo, Total3
  <2>2. IsFiniteSet(UpTo(R, F, x)) /\ Cardinality(UpTo(R, F, x)) <= N
    BY <2>1, FS_Subset
  <2>3. Cardinality(UpTo(R, F, x)) # 0 /\ Cardinality(UpTo(R, F, x)) \in Nat
    BY <2>1, <2>2, FS_EmptySet, FS_CardinalityType
  <2> QED BY <1>1, <2>2, <2>3, SMT
<1>3. \A x, y \in F : x # y => rank[x] # rank[y]
  <2> SUFFICES ASSUME NEW x \in F, NEW y \in F, x # y PROVE rank[x] # rank[y]
    OBVIOUS
  <2>1. rank[x] < rank[y] \/ rank[y] < rank[x]
    <3>1. <<x, y>> \in R \/ <<y, x>> \in R
      BY DEF Total3
    <3> QED BY <3>1, RanksGrow
  <2>2. rank[x] \in Int /\ rank[y] \in Int
    BY <1>2, SMT
  <2> QED BY <2>1, <2>2, SMT
<1>4. rank \in Injection(F, 1..N)
  BY <1>2, <1>3 DEF Injection, IsInjective
<1>5. IsFiniteSet(1..N) /\ Cardinality(1..N) = N
  BY <1>1, FS_Interval, SMT
<1>6. rank \in Surjection(F, 1..N)
  BY <1>4, <1>5, FS_Injection
<1> QED BY <1>4, <1>6 DEF Bijection

\* In a set of entries, Compare orders.
OrdersDistinct(es, F) ==
  \A i, j, k \in F :
    /\ Compare(es[i], es[j]) \in Int
    /\ Compare(es[i], es[j]) = 0 <=> i = j
    /\ Compare(es[i], es[j]) < 0 <=> Compare(es[j], es[i]) > 0
    /\ Compare(es[i], es[j]) < 0 /\ Compare(es[j], es[k]) < 0 => Compare(es[i], es[k]) < 0

\* How Sorted places the entries.
Place(es, F, n) == CHOOSE i \in F : Rank(es, i) = n

Ranked(es, F) ==
  /\ \A i \in F : Rank(es, i) \in 1..Cardinality(F)
  /\ \A i, j \in F : Rank(es, i) = Rank(es, j) => i = j
  /\ \A n \in 1..Cardinality(F) : \E i \in F : Rank(es, i) = n
  /\ \A i, j \in F : Rank(es, i) < Rank(es, j) => Compare(es[i], es[j]) < 0

LEMMA RanksOfEntries ==
  ASSUME NEW F, F \subseteq Nat, IsFiniteSet(F), NEW es, DOMAIN es = F, OrdersDistinct(es, F)
  PROVE  Ranked(es, F)
<1> DEFINE R == {w \in F \X F : Before(es, w[1], w[2])}
<1>0. \A x, y \in F : <<x, y>> \in R <=> Before(es, x, y)
  OBVIOUS
<1>1. \A x, y \in F : <<x, y>> \in R <=> (Compare(es[x], es[y]) < 0 \/ x = y)
  <2>1. \A x, y \in F : Before(es, x, y) <=> (Compare(es[x], es[y]) < 0 \/ x = y)
    <3> SUFFICES ASSUME NEW x \in F, NEW y \in F
                 PROVE  Before(es, x, y) <=> (Compare(es[x], es[y]) < 0 \/ x = y)
      OBVIOUS
    <3>1. x \in Nat /\ (Compare(es[x], es[y]) = 0 <=> x = y)
      BY DEF OrdersDistinct
    <3> QED BY <3>1, SMT DEF Before
  <2> QED BY <1>0, <2>1
<1> HIDE DEF R
<1>2. Total3(R, F)
  <2> SUFFICES ASSUME NEW x \in F, NEW y \in F, NEW z \in F
               PROVE  /\ <<x, x>> \in R
                      /\ <<x, y>> \in R \/ <<y, x>> \in R
                      /\ <<x, y>> \in R /\ <<y, x>> \in R => x = y
                      /\ <<x, y>> \in R /\ <<y, z>> \in R => <<x, z>> \in R
    BY DEF Total3
  <2>1. /\ Compare(es[x], es[y]) \in Int /\ Compare(es[y], es[x]) \in Int
        /\ Compare(es[x], es[y]) = 0 <=> x = y
        /\ Compare(es[x], es[y]) < 0 <=> Compare(es[y], es[x]) > 0
        /\ Compare(es[y], es[x]) < 0 <=> Compare(es[x], es[y]) > 0
        /\ Compare(es[x], es[y]) < 0 /\ Compare(es[y], es[z]) < 0 => Compare(es[x], es[z]) < 0
    BY DEF OrdersDistinct
  <2>2. Compare(es[x], es[y]) < 0 \/ Compare(es[y], es[x]) < 0 \/ x = y
    BY <2>1, SMT
  <2>3. ~(Compare(es[x], es[y]) < 0 /\ Compare(es[y], es[x]) < 0)
    BY <2>1, SMT
  <2> QED BY <1>1, <2>1, <2>2, <2>3
<1>3. \A i \in F : Cardinality(UpTo(R, F, i)) = Rank(es, i)
  <2> SUFFICES ASSUME NEW i \in F PROVE UpTo(R, F, i) = {j \in DOMAIN es : Before(es, j, i)}
    BY DEF Rank
  <2> QED BY <1>0 DEF UpTo
<1> DEFINE places == 1..Cardinality(F)
<1>r. PICK rank \in Bijection(F, places) :
           rank = [x \in F |-> Cardinality(UpTo(R, F, x))]
  BY <1>2, RanksNumber
<1> HIDE DEF places
<1>4. /\ \A i \in F : rank[i] \in places
      /\ \A i, j \in F : rank[i] = rank[j] => i = j
      /\ \A n \in places : \E i \in F : rank[i] = n
  <2>2. rank \in [F -> places] /\ \A i, j \in F : rank[i] = rank[j] => i = j
    BY BijectionMaps
  <2>3. Onto(rank, F, places)
    BY BijectionHits
  <2> QED BY <2>2, <2>3 DEF Onto
<1>5. \A i \in F : rank[i] = Rank(es, i)
  BY <1>3, <1>r
<1>6. ASSUME NEW i \in F, NEW j \in F, rank[i] < rank[j]
      PROVE  Compare(es[i], es[j]) < 0
  <2>1. i # j
    BY <1>4, <1>6, SMT DEF places
  <2>2. CASE <<j, i>> \in R
    <3>1. rank[j] < rank[i]
      BY <1>2, <1>r, <2>1, <2>2, RanksGrow
    <3> QED BY <1>4, <1>6, <3>1, SMT DEF places
  <2>3. CASE <<i, j>> \in R
    BY <1>1, <2>1, <2>3
  <2> QED BY <1>2, <2>2, <2>3 DEF Total3
<1> QED BY <1>4, <1>5, <1>6 DEF Ranked, places

\* Of entries that no two compare equal, Sorted is the list in strict order: what makes
\* it stable has nothing to decide.
LEMMA SortedPlaces ==
  ASSUME NEW F, F \subseteq Nat, IsFiniteSet(F), NEW es, DOMAIN es = F, OrdersDistinct(es, F)
  PROVE  \E pos \in Bijection(1..Cardinality(F), F) :
           /\ Sorted(es) = [n \in 1..Cardinality(F) |-> es[pos[n]]]
           /\ \A m, n \in 1..Cardinality(F) :
                m < n => Compare(es[pos[m]], es[pos[n]]) < 0
<1> DEFINE N == Cardinality(F)
           pos == [n \in 1..N |-> Place(es, F, n)]
<1>1. N \in Nat
  BY FS_CardinalityType
<1>2. /\ \A i \in F : Rank(es, i) \in 1..N
      /\ \A i, j \in F : Rank(es, i) = Rank(es, j) => i = j
      /\ \A n \in 1..N : \E i \in F : Rank(es, i) = n
      /\ \A i, j \in F : Rank(es, i) < Rank(es, j) => Compare(es[i], es[j]) < 0
  <2>1. Ranked(es, F)
    BY RanksOfEntries
  <2> QED BY <2>1 DEF Ranked
<1>3. Sorted(es) = [n \in 1..N |-> es[Place(es, F, n)]]
  BY DEF Sorted, Place
<1>4. \A n \in 1..N : pos[n] = Place(es, F, n)
  OBVIOUS
<1>5. \A n \in 1..N : Place(es, F, n) \in F /\ Rank(es, Place(es, F, n)) = n
  <2> SUFFICES ASSUME NEW n \in 1..N
               PROVE  Place(es, F, n) \in F /\ Rank(es, Place(es, F, n)) = n
    OBVIOUS
  <2>1. \E i \in F : Rank(es, i) = n
    BY <1>2
  <2> HIDE DEF N, pos
  <2> QED BY <2>1 DEF Place
<1>6. Sorted(es) = [n \in 1..N |-> es[pos[n]]]
  BY <1>3, <1>4
<1>7. pos \in [1..N -> F]
  BY <1>5
<1> HIDE DEF N, pos
<1>8. pos \in Bijection(1..N, F)
  <2>1. \A m, n \in 1..N : pos[m] = pos[n] => m = n
    BY <1>4, <1>5
  <2>2. \A i \in F : \E n \in 1..N : pos[n] = i
    <3> SUFFICES ASSUME NEW i \in F PROVE Rank(es, i) \in 1..N /\ pos[Rank(es, i)] = i
      OBVIOUS
    <3>1. Rank(es, i) \in 1..N
      BY <1>2
    <3>2. Place(es, F, Rank(es, i)) = i
      BY <1>2, <1>5, <3>1
    <3> QED BY <1>4, <3>1, <3>2
  <2> QED BY <1>7, <2>1, <2>2, BijectionIs
<1>9. ASSUME NEW m \in 1..N, NEW n \in 1..N, m < n
      PROVE  Compare(es[pos[m]], es[pos[n]]) < 0
  <2>1. pos[m] \in F /\ pos[n] \in F /\ Rank(es, pos[m]) = m /\ Rank(es, pos[n]) = n
    BY <1>4, <1>5
  <2>2. Rank(es, pos[m]) < Rank(es, pos[n])
    BY <1>9, <2>1
  <2> QED BY <1>2, <2>1, <2>2
<1> QED BY <1>6, <1>8, <1>9 DEF N

\* What the figures expect of rows.
TypedRows(rows) ==
  /\ DOMAIN rows \subseteq Nat
  /\ IsFiniteSet(DOMAIN rows)
  /\ \A i \in DOMAIN rows, c \in GroupColumns : rows[i][c] \in Values

LEMMA KeyType ==
  ASSUME NEW rows, TypedRows(rows), NEW keys \in Seq(GroupColumns), NEW i \in DOMAIN rows
  PROVE  Key(rows[i], keys) \in [1..Len(keys) -> Values]
<1>1. DOMAIN keys = 1..Len(keys) /\ \A k \in 1..Len(keys) : keys[k] \in GroupColumns
  OBVIOUS
<1>2. \A k \in 1..Len(keys) : rows[i][keys[k]] \in Values
  BY <1>1 DEF TypedRows
<1> QED BY <1>1, <1>2 DEF Key

LEMMA EntryIs ==
  ASSUME NEW rows, TypedRows(rows), NEW keys, NEW i
  PROVE  /\ Entry(rows, keys, i).group = Key(rows[i], keys)
         /\ Entry(rows, keys, i).count = Cardinality(SameGroup(rows, keys, i))
         /\ IsFiniteSet(SameGroup(rows, keys, i))
         /\ Entry(rows, keys, i).count \in Nat
<1>1. SameGroup(rows, keys, i) \in SUBSET DOMAIN rows
  BY DEF SameGroup
<1>2. IsFiniteSet(SameGroup(rows, keys, i))
  BY <1>1, FS_Subset DEF TypedRows
<1>3. Cardinality(SameGroup(rows, keys, i)) \in Nat
  BY <1>2, FS_CardinalityType
<1> QED BY <1>2, <1>3 DEF Entry

\* Every row is in the group of exactly one first row.
LEMMA FirstOfGroup ==
  ASSUME NEW rows, TypedRows(rows), NEW keys, NEW i \in DOMAIN rows
  PROVE  \E f \in FirstRows(rows, keys) : Key(rows[f], keys) = Key(rows[i], keys)
<1>1. SameGroup(rows, keys, i) \subseteq Nat /\ i \in SameGroup(rows, keys, i)
  BY DEF SameGroup, TypedRows
<1>2. PICK f \in SameGroup(rows, keys, i) : \A j \in SameGroup(rows, keys, i) : f <= j
  BY <1>1, LeastNatural
<1>3. f \in DOMAIN rows /\ Key(rows[f], keys) = Key(rows[i], keys)
  BY <1>2 DEF SameGroup
<1>4. SameGroup(rows, keys, f) = SameGroup(rows, keys, i)
  BY <1>3 DEF SameGroup
<1> QED BY <1>2, <1>3, <1>4 DEF FirstRows

LEMMA OneFirstPerGroup ==
  ASSUME NEW rows, TypedRows(rows), NEW keys,
         NEW i \in FirstRows(rows, keys), NEW j \in FirstRows(rows, keys),
         Key(rows[i], keys) = Key(rows[j], keys)
  PROVE  i = j
<1>1. i \in Nat /\ j \in Nat
  BY DEF FirstRows, TypedRows
<1>2. j \in SameGroup(rows, keys, i) /\ i \in SameGroup(rows, keys, j)
  BY DEF FirstRows, SameGroup
<1>3. i <= j /\ j <= i
  BY <1>2 DEF FirstRows
<1> QED BY <1>1, <1>3, SMT

\* The comparison of groups is an order of those that differ in their keys.
LEMMA CompareOrders ==
  ASSUME NEW n \in Nat, NEW a, NEW b, NEW c,
         a.group \in [1..n -> Values], b.group \in [1..n -> Values], c.group \in [1..n -> Values],
         a.count \in Nat, b.count \in Nat, c.count \in Nat
  PROVE  /\ Compare(a, b) \in Int
         /\ Compare(a, b) = 0 <=> a.group = b.group /\ a.count = b.count
         /\ Compare(a, b) < 0 <=> Compare(b, a) > 0
         /\ Compare(a, b) < 0 /\ Compare(b, c) < 0 => Compare(a, c) < 0
<1>1. \A g, h, f \in [1..n -> Values] :
         /\ CompareKeys(g, h) \in Int
         /\ CompareKeys(g, h) = 0 <=> g = h
         /\ CompareKeys(g, h) < 0 <=> CompareKeys(h, g) > 0
         /\ CompareKeys(g, h) < 0 /\ CompareKeys(h, f) < 0 => CompareKeys(g, f) < 0
  BY KeysAreOrdered
<1>2. /\ CompareKeys(a.group, b.group) \in Int
      /\ CompareKeys(a.group, b.group) = 0 <=> a.group = b.group
      /\ CompareKeys(a.group, b.group) < 0 <=> CompareKeys(b.group, a.group) > 0
      /\ CompareKeys(a.group, b.group) < 0 /\ CompareKeys(b.group, c.group) < 0
           => CompareKeys(a.group, c.group) < 0
  BY <1>1
<1> QED BY <1>2, SMT DEF Compare

Entries(rows, keys) == [i \in FirstRows(rows, keys) |-> Entry(rows, keys, i)]

LEMMA EntriesOrdered ==
  ASSUME NEW rows, TypedRows(rows), NEW keys \in Seq(GroupColumns)
  PROVE  OrdersDistinct(Entries(rows, keys), FirstRows(rows, keys))
<1> DEFINE F == FirstRows(rows, keys)
           es == Entries(rows, keys)
<1>1. F \subseteq DOMAIN rows /\ \A i \in F : es[i] = Entry(rows, keys, i)
  BY DEF FirstRows, Entries
<1>2. Len(keys) \in Nat
  OBVIOUS
<1>3. \A i \in F : /\ es[i].group = Key(rows[i], keys)
                   /\ es[i].group \in [1..Len(keys) -> Values]
                   /\ es[i].count \in Nat
  <2> SUFFICES ASSUME NEW i \in F
               PROVE  /\ es[i].group = Key(rows[i], keys)
                      /\ es[i].group \in [1..Len(keys) -> Values]
                      /\ es[i].count \in Nat
    OBVIOUS
  <2>1. es[i] = Entry(rows, keys, i) /\ i \in DOMAIN rows
    BY <1>1
  <2> HIDE DEF es
  <2>2. Key(rows[i], keys) \in [1..Len(keys) -> Values]
    BY <2>1, KeyType
  <2>3. Entry(rows, keys, i).group = Key(rows[i], keys) /\ Entry(rows, keys, i).count \in Nat
    BY EntryIs
  <2> QED BY <2>1, <2>2, <2>3
<1>4. \A i, j \in F : es[i].group = es[j].group => i = j
  BY <1>3, OneFirstPerGroup
<1> HIDE DEF F, es
<1> SUFFICES ASSUME NEW i \in F, NEW j \in F, NEW k \in F
             PROVE  /\ Compare(es[i], es[j]) \in Int
                    /\ Compare(es[i], es[j]) = 0 <=> i = j
                    /\ Compare(es[i], es[j]) < 0 <=> Compare(es[j], es[i]) > 0
                    /\ Compare(es[i], es[j]) < 0 /\ Compare(es[j], es[k]) < 0
                         => Compare(es[i], es[k]) < 0
  BY DEF OrdersDistinct, F, es
<1>5. /\ Compare(es[i], es[j]) \in Int
      /\ Compare(es[i], es[j]) = 0 <=> es[i].group = es[j].group /\ es[i].count = es[j].count
      /\ Compare(es[i], es[j]) < 0 <=> Compare(es[j], es[i]) > 0
      /\ Compare(es[i], es[j]) < 0 /\ Compare(es[j], es[k]) < 0
           => Compare(es[i], es[k]) < 0
  BY <1>2, <1>3, CompareOrders
<1> QED BY <1>4, <1>5

\* countBy lists every group once, in strict order.
LEMMA CountByPlaces ==
  ASSUME NEW rows, TypedRows(rows), NEW keys \in Seq(GroupColumns)
  PROVE  /\ Cardinality(FirstRows(rows, keys)) \in Nat
         /\ \E pos \in Bijection(1..Cardinality(FirstRows(rows, keys)), FirstRows(rows, keys)) :
              /\ CountBy(rows, keys) =
                   [n \in 1..Cardinality(FirstRows(rows, keys)) |-> Entry(rows, keys, pos[n])]
              /\ \A m, n \in 1..Cardinality(FirstRows(rows, keys)) :
                   m < n => Compare(Entry(rows, keys, pos[m]), Entry(rows, keys, pos[n])) < 0
<1> DEFINE F == FirstRows(rows, keys)
           es == Entries(rows, keys)
           places == 1..Cardinality(F)
<1>1. F \subseteq DOMAIN rows
  BY DEF FirstRows
<1>2. F \subseteq Nat /\ IsFiniteSet(F)
  BY <1>1, FS_Subset DEF TypedRows
<1>3. DOMAIN es = F /\ \A i \in F : es[i] = Entry(rows, keys, i)
  BY DEF Entries
<1>4. OrdersDistinct(es, F)
  BY EntriesOrdered
<1>5. CountBy(rows, keys) = Sorted(es)
  BY DEF CountBy, Entries
<1> HIDE DEF F, es
<1>6. PICK pos \in Bijection(places, F) :
           /\ Sorted(es) = [n \in places |-> es[pos[n]]]
           /\ \A m, n \in places : m < n => Compare(es[pos[m]], es[pos[n]]) < 0
  BY <1>2, <1>3, <1>4, SortedPlaces
<1> HIDE DEF places
<1>7. \A n \in places : pos[n] \in F /\ es[pos[n]] = Entry(rows, keys, pos[n])
  BY <1>3, BijectionMaps
<1>8. CountBy(rows, keys) = [n \in places |-> Entry(rows, keys, pos[n])]
  BY <1>5, <1>6, <1>7
<1>9. \A m, n \in places : m < n => Compare(Entry(rows, keys, pos[m]), Entry(rows, keys, pos[n])) < 0
  BY <1>6, <1>7
<1>10. Cardinality(F) \in Nat
  BY <1>2, FS_CardinalityType
<1> QED BY <1>8, <1>9, <1>10 DEF F, places

LEMMA RestrictedRows ==
  ASSUME NEW rows, TypedRows(rows), NEW c, NEW v
  PROVE  /\ TypedRows(Restrict(rows, Having(rows, c, v)))
         /\ DOMAIN Restrict(rows, Having(rows, c, v)) = Having(rows, c, v)
         /\ \A i \in Having(rows, c, v) : Restrict(rows, Having(rows, c, v))[i] = rows[i]
<1> DEFINE some == Having(rows, c, v)
           kept == Restrict(rows, some)
<1>1. DOMAIN kept = some /\ \A i \in some : kept[i] = rows[i]
  BY DEF Restrict
<1>2. some \in SUBSET DOMAIN rows
  BY DEF Having
<1>3. IsFiniteSet(some) /\ some \subseteq Nat
  BY <1>2, FS_Subset DEF TypedRows
<1> HIDE DEF some, kept
<1>4. TypedRows(kept)
  BY <1>1, <1>2, <1>3 DEF TypedRows
<1> QED BY <1>1, <1>4 DEF some, kept

LEMMA KeyLists ==
  /\ <<"caseCategory", "wasItAnAttempt">> \in Seq(GroupColumns)
  /\ <<"province">> \in Seq(GroupColumns)
  /\ <<"murderWeapon">> \in Seq(GroupColumns)
  /\ <<"victimBondAggressor">> \in Seq(GroupColumns)
  /\ <<"securityForce">> \in Seq(GroupColumns)
<1> DEFINE C == GroupColumns
<1>1. /\ "caseCategory" \in C /\ "wasItAnAttempt" \in C /\ "province" \in C /\ "murderWeapon" \in C
      /\ "victimBondAggressor" \in C /\ "securityForce" \in C
  BY DEF GroupColumns
<1> HIDE DEF C
<1>2. \A x, y \in C : <<x, y>> \in Seq(C) /\ <<x>> \in Seq(C)
  OBVIOUS
<1> QED BY <1>1, <1>2 DEF C

\* Two lists of the same entries, both in order, are one list.
LEMMA OneOrder ==
  ASSUME NEW E, NEW N \in Nat, NEW M \in Nat, NEW a \in [1..N -> E], NEW b \in [1..M -> E],
         Onto(a, 1..N, E), Onto(b, 1..M, E),
         \A x, y \in E : ~(Compare(x, y) < 0 /\ Compare(y, x) < 0),
         \A m, n \in 1..N : m < n => Compare(a[m], a[n]) < 0,
         \A m, n \in 1..M : m < n => Compare(b[m], b[n]) < 0
  PROVE  a = b
<1>1. /\ \A m, n \in 1..N : m # n => a[m] # a[n]
      /\ \A m, n \in 1..M : m # n => b[m] # b[n]
  <2>1. \A x \in E : ~(Compare(x, x) < 0)
    OBVIOUS
  <2>2. \A m, n \in 1..N : m # n => m < n \/ n < m
    BY SMT
  <2>3. \A m, n \in 1..M : m # n => m < n \/ n < m
    BY SMT
  <2>4. ASSUME NEW m \in 1..N, NEW n \in 1..N, m # n PROVE a[m] # a[n]
    <3>1. a[m] \in E /\ a[n] \in E
      OBVIOUS
    <3>2. Compare(a[m], a[n]) < 0 \/ Compare(a[n], a[m]) < 0
      BY <2>2, <2>4
    <3> QED BY <2>1, <3>1, <3>2
  <2>5. ASSUME NEW m \in 1..M, NEW n \in 1..M, m # n PROVE b[m] # b[n]
    <3>1. b[m] \in E /\ b[n] \in E
      OBVIOUS
    <3>2. Compare(b[m], b[n]) < 0 \/ Compare(b[n], b[m]) < 0
      BY <2>3, <2>5
    <3> QED BY <2>1, <3>1, <3>2
  <2> QED BY <2>4, <2>5
<1>2. N = M
  <2> DEFINE D == 1..N
             G == 1..M
  <2> HIDE DEF D, G
  <2>1. a \in [D -> E] /\ b \in [G -> E] /\ Onto(a, D, E) /\ Onto(b, G, E)
    BY DEF D, G
  <2>2. /\ \A m, n \in D : a[m] = a[n] => m = n
        /\ \A m, n \in G : b[m] = b[n] => m = n
    BY <1>1 DEF D, G
  <2>3. a \in Bijection(D, E) /\ b \in Bijection(G, E)
    BY <2>1, <2>2, BijectionIs DEF Onto
  <2>4. ExistsBijection(D, E) /\ ExistsBijection(G, E)
    BY <2>3, Zenon DEF ExistsBijection
  <2>5. Cardinality(E) = N /\ Cardinality(E) = M
    BY <2>4, FS_CountingElements DEF D, G
  <2> QED BY <2>5
<1> DEFINE differ == {n \in 1..N : a[n] # b[n]}
<1>3. SUFFICES ASSUME differ # {} PROVE FALSE
  <2>1. differ = {} => \A n \in 1..N : a[n] = b[n]
    OBVIOUS
  <2> HIDE DEF differ
  <2> QED BY <1>2, <2>1
<1>4. differ \subseteq Nat
  BY SMT
<1>5. PICK n \in differ : \A k \in differ : n <= k
  BY <1>3, <1>4, LeastNatural
<1>6. n \in 1..N /\ n \in 1..M /\ a[n] # b[n] /\ a[n] \in E /\ b[n] \in E
  BY <1>2, <1>5
<1>7. \A k \in 1..N : k < n => a[k] = b[k]
  BY <1>5, SMT
<1>8. PICK m \in 1..M : b[m] = a[n]
  BY <1>6 DEF Onto
<1>9. PICK l \in 1..N : a[l] = b[n]
  BY <1>6 DEF Onto
<1>10. m \in 1..N /\ l \in 1..M
  BY <1>2
<1>11. ~(m < n) /\ m # n /\ ~(l < n) /\ l # n
  <2>1. m < n => a[m] = a[n]
    BY <1>7, <1>8, <1>10
  <2>2. l < n => b[l] = b[n]
    BY <1>7, <1>9, <1>10
  <2>3. (m < n => m # n) /\ (l < n => l # n)
    BY <1>6, SMT
  <2>4. ~(m < n) /\ ~(l < n)
    BY <1>1, <1>6, <1>10, <2>1, <2>2, <2>3
  <2>5. m # n /\ l # n
    BY <1>6, <1>8, <1>9
  <2> QED BY <2>4, <2>5
<1>12. n < m /\ n < l
  BY <1>6, <1>10, <1>11, SMT
<1>13. Compare(b[n], b[m]) < 0 /\ Compare(a[n], a[l]) < 0
  BY <1>6, <1>10, <1>12
<1> QED BY <1>6, <1>8, <1>9, <1>13

\* The rows are those of the ids S of a table T, in the order o.
Arranges(o, rows, T, S) ==
  /\ TypedRows(rows)
  /\ o \in Bijection(DOMAIN rows, S)
  /\ \A i \in DOMAIN rows : rows[i] = T[o[i]]

\* To count some of the rows is to count some of the ids.
LEMMA PullBack ==
  ASSUME NEW P, IsFiniteSet(P), NEW S, NEW o \in Bijection(P, S), NEW Q \in SUBSET S
  PROVE  Cardinality({i \in P : o[i] \in Q}) = Cardinality(Q)
<1> DEFINE from == {i \in P : o[i] \in Q}
           g == [i \in from |-> o[i]]
<1>1. from \in SUBSET P /\ IsFiniteSet(from)
  BY FS_Subset
<1>2. o \in [P -> S] /\ \A i, j \in P : o[i] = o[j] => i = j
  BY BijectionMaps
<1>3. Onto(o, P, S)
  BY BijectionHits
<1>4. g \in Bijection(from, Q)
  <2>1. g \in [from -> Q] /\ \A i, j \in from : g[i] = g[j] => i = j
    BY <1>2
  <2>2. \A q \in Q : \E i \in from : g[i] = q
    BY <1>3 DEF Onto
  <2> HIDE DEF from, g
  <2> QED BY <2>1, <2>2, BijectionIs
<1> HIDE DEF from, g
<1>5. ExistsBijection(from, Q)
  BY <1>4, Zenon DEF ExistsBijection
<1>6. Cardinality(Q) = Cardinality(from)
  BY <1>1, <1>5, FS_Bijection
<1> QED BY <1>6 DEF from

\* The group of an id and its count, without any order of rows.
TableEntry(T, S, keys, d) ==
  [ group |-> Key(T[d], keys),
    count |-> Cardinality({e \in S : Key(T[e], keys) = Key(T[d], keys)}) ]

LEMMA EntryOfTable ==
  ASSUME NEW o, NEW rows, NEW T, NEW S, Arranges(o, rows, T, S), NEW keys, NEW i \in DOMAIN rows
  PROVE  o[i] \in S /\ Entry(rows, keys, i) = TableEntry(T, S, keys, o[i])
<1> DEFINE P == DOMAIN rows
           Q == {e \in S : Key(T[e], keys) = Key(T[o[i]], keys)}
<1>1. IsFiniteSet(P) /\ o \in Bijection(P, S) /\ \A j \in P : rows[j] = T[o[j]]
  BY DEF Arranges, TypedRows
<1>2. \A j \in P : o[j] \in S
  BY <1>1, BijectionMaps
<1>3. SameGroup(rows, keys, i) = {j \in P : o[j] \in Q}
  BY <1>1, <1>2 DEF SameGroup
<1>4. Q \in SUBSET S
  OBVIOUS
<1> HIDE DEF P, Q
<1>5. Cardinality(SameGroup(rows, keys, i)) = Cardinality(Q)
  BY <1>1, <1>3, <1>4, PullBack
<1>6. Key(rows[i], keys) = Key(T[o[i]], keys) /\ o[i] \in S
  BY <1>1, <1>2 DEF P
<1> QED BY <1>5, <1>6 DEF Entry, TableEntry, Q

EntriesOf(T, S, keys) == {TableEntry(T, S, keys, d) : d \in S}

\* CountBy lists the entries of the table.
LEMMA CountByLists ==
  ASSUME NEW o, NEW rows, NEW T, NEW S, Arranges(o, rows, T, S), NEW keys \in Seq(GroupColumns)
  PROVE  \E N \in Nat :
           /\ CountBy(rows, keys) \in [1..N -> EntriesOf(T, S, keys)]
           /\ Onto(CountBy(rows, keys), 1..N, EntriesOf(T, S, keys))
           /\ \A m, n \in 1..N :
                m < n => Compare(CountBy(rows, keys)[m], CountBy(rows, keys)[n]) < 0
<1> DEFINE F == FirstRows(rows, keys)
           N == Cardinality(F)
           places == 1..N
           E == EntriesOf(T, S, keys)
           groups == CountBy(rows, keys)
<1>0. TypedRows(rows) /\ o \in Bijection(DOMAIN rows, S)
  BY DEF Arranges
<1>1. N \in Nat
  BY <1>0, CountByPlaces
<1>2. PICK pos \in Bijection(places, F) :
           /\ groups = [n \in places |-> Entry(rows, keys, pos[n])]
           /\ \A m, n \in places :
                m < n => Compare(Entry(rows, keys, pos[m]), Entry(rows, keys, pos[n])) < 0
  BY <1>0, CountByPlaces
<1>3. \A i \in F : i \in DOMAIN rows
  BY DEF FirstRows
<1> HIDE DEF places, F, groups
<1>4. pos \in [places -> F] /\ Onto(pos, places, F) /\ Onto(o, DOMAIN rows, S)
  BY <1>0, BijectionMaps, BijectionHits
<1>5. \A i \in DOMAIN rows : o[i] \in S /\ Entry(rows, keys, i) = TableEntry(T, S, keys, o[i])
  BY EntryOfTable
<1>6. groups \in [places -> E]
  BY <1>2, <1>3, <1>4, <1>5 DEF EntriesOf
<1>7. Onto(groups, places, E)
  <2> SUFFICES ASSUME NEW d \in S
               PROVE  \E n \in places : groups[n] = TableEntry(T, S, keys, d)
    BY DEF Onto, EntriesOf
  <2>1. PICK i \in DOMAIN rows : o[i] = d
    BY <1>4 DEF Onto
  <2>2. PICK f \in F : Key(rows[f], keys) = Key(rows[i], keys)
    BY <1>0, FirstOfGroup DEF F
  <2>3. PICK n \in places : pos[n] = f
    BY <1>4 DEF Onto
  <2>4. SameGroup(rows, keys, f) = SameGroup(rows, keys, i)
    BY <2>2 DEF SameGroup
  <2>5. Entry(rows, keys, f) = Entry(rows, keys, i)
    BY <2>2, <2>4 DEF Entry
  <2>6. groups[n] = Entry(rows, keys, f)
    BY <1>2, <2>3
  <2>7. Entry(rows, keys, i) = TableEntry(T, S, keys, d)
    BY <1>5, <2>1
  <2> QED BY <2>5, <2>6, <2>7
<1>8. \A m, n \in places : m < n => Compare(groups[m], groups[n]) < 0
  BY <1>2
<1> QED BY <1>1, <1>6, <1>7, <1>8 DEF places, groups

LEMMA EntriesCompare ==
  ASSUME NEW o, NEW rows, NEW T, NEW S, Arranges(o, rows, T, S), NEW keys \in Seq(GroupColumns),
         NEW x \in EntriesOf(T, S, keys), NEW y \in EntriesOf(T, S, keys)
  PROVE  ~(Compare(x, y) < 0 /\ Compare(y, x) < 0)
<1>1. TypedRows(rows) /\ Onto(o, DOMAIN rows, S)
  BY BijectionHits DEF Arranges
<1>2. ASSUME NEW z \in EntriesOf(T, S, keys)
      PROVE  z.group \in [1..Len(keys) -> Values] /\ z.count \in Nat
  <2>1. PICK d \in S : z = TableEntry(T, S, keys, d)
    BY DEF EntriesOf
  <2>2. PICK i \in DOMAIN rows : o[i] = d
    BY <1>1 DEF Onto
  <2>3. z = Entry(rows, keys, i)
    BY <2>1, <2>2, EntryOfTable
  <2>4. Key(rows[i], keys) \in [1..Len(keys) -> Values]
    BY <1>1, KeyType
  <2> QED BY <1>1, <2>3, <2>4, EntryIs
<1>3. Len(keys) \in Nat
  OBVIOUS
<1>4. /\ Compare(x, y) \in Int /\ Compare(y, x) \in Int
      /\ Compare(x, y) < 0 <=> Compare(y, x) > 0
  BY <1>2, <1>3, CompareOrders
<1> QED BY <1>4, SMT

\* Both lists are the entries of the same table, in strict order.
LEMMA CountsOfAnyOrder ==
  ASSUME NEW T, NEW S, NEW o, NEW rows, Arranges(o, rows, T, S),
         NEW p, NEW others, Arranges(p, others, T, S), NEW keys \in Seq(GroupColumns)
  PROVE  CountBy(rows, keys) = CountBy(others, keys)
<1> DEFINE E == EntriesOf(T, S, keys)
           a == CountBy(rows, keys)
           b == CountBy(others, keys)
<1>1. PICK N \in Nat : /\ a \in [1..N -> E] /\ Onto(a, 1..N, E)
                       /\ \A m, n \in 1..N : m < n => Compare(a[m], a[n]) < 0
  BY CountByLists
<1>2. PICK M \in Nat : /\ b \in [1..M -> E] /\ Onto(b, 1..M, E)
                       /\ \A m, n \in 1..M : m < n => Compare(b[m], b[n]) < 0
  BY CountByLists
<1>3. \A x, y \in E : ~(Compare(x, y) < 0 /\ Compare(y, x) < 0)
  BY EntriesCompare
<1> HIDE DEF E, a, b
<1>4. a = b
  BY <1>1, <1>2, <1>3, OneOrder
<1> QED BY <1>4 DEF a, b

LEMMA HavingOfTable ==
  ASSUME NEW o, NEW rows, NEW T, NEW S, Arranges(o, rows, T, S), NEW c, NEW v
  PROVE  Cardinality(Having(rows, c, v)) = Cardinality({d \in S : T[d][c] = v})
<1> DEFINE P == DOMAIN rows
           Q == {d \in S : T[d][c] = v}
<1>1. IsFiniteSet(P) /\ o \in Bijection(P, S) /\ \A j \in P : rows[j] = T[o[j]]
  BY DEF Arranges, TypedRows
<1>2. \A j \in P : o[j] \in S
  BY <1>1, BijectionMaps
<1>3. Having(rows, c, v) = {j \in P : o[j] \in Q}
  BY <1>1, <1>2 DEF Having
<1>4. Q \in SUBSET S
  OBVIOUS
<1> HIDE DEF P, Q
<1>5. Cardinality(Having(rows, c, v)) = Cardinality(Q)
  BY <1>1, <1>3, <1>4, PullBack
<1> QED BY <1>5 DEF Q

LEMMA TotalOfTable ==
  ASSUME NEW o, NEW rows, NEW T, NEW S, Arranges(o, rows, T, S)
  PROVE  Cardinality(DOMAIN rows) = Cardinality(S)
<1> DEFINE P == DOMAIN rows
<1>1. IsFiniteSet(P) /\ o \in Bijection(P, S)
  BY DEF Arranges, TypedRows
<1> HIDE DEF P
<1>2. \A j \in P : o[j] \in S
  BY <1>1, BijectionMaps
<1>3. P = {j \in P : o[j] \in S} /\ S \in SUBSET S
  BY <1>2
<1>4. Cardinality(P) = Cardinality(S)
  BY <1>1, <1>3, PullBack
<1> QED BY <1>4 DEF P

LEMMA RestrictedArranges ==
  ASSUME NEW o, NEW rows, NEW T, NEW S, Arranges(o, rows, T, S), NEW c, NEW v
  PROVE  Arranges(Restrict(o, Having(rows, c, v)), Restrict(rows, Having(rows, c, v)),
                  T, {d \in S : T[d][c] = v})
<1> DEFINE H == Having(rows, c, v)
           q == Restrict(o, H)
           kept == Restrict(rows, H)
           Q == {d \in S : T[d][c] = v}
<1>1. /\ TypedRows(rows) /\ o \in Bijection(DOMAIN rows, S)
      /\ \A j \in DOMAIN rows : rows[j] = T[o[j]]
  BY DEF Arranges
<1>2. TypedRows(kept) /\ DOMAIN kept = H /\ \A i \in H : kept[i] = rows[i]
  BY <1>1, RestrictedRows
<1>3. q = [i \in H |-> o[i]] /\ H \subseteq DOMAIN rows
  BY DEF Restrict, Having
<1>4. /\ o \in [DOMAIN rows -> S] /\ \A i, j \in DOMAIN rows : o[i] = o[j] => i = j
      /\ Onto(o, DOMAIN rows, S)
  BY <1>1, BijectionMaps, BijectionHits
<1>5. \A i \in H : rows[i][c] = v
  BY DEF Having
<1>6. q \in [H -> Q] /\ \A i, j \in H : q[i] = q[j] => i = j
  <2>1. \A i \in H : o[i] \in Q
    BY <1>1, <1>3, <1>4, <1>5
  <2> HIDE DEF H, Q, q
  <2> QED BY <1>3, <1>4, <2>1
<1>7. \A d \in Q : \E i \in H : q[i] = d
  <2> SUFFICES ASSUME NEW d \in Q PROVE \E i \in H : q[i] = d
    OBVIOUS
  <2>1. PICK i \in DOMAIN rows : o[i] = d
    BY <1>4 DEF Onto
  <2>2. rows[i][c] = v
    BY <1>1, <2>1
  <2>3. i \in H
    BY <2>2 DEF Having
  <2> QED BY <1>3, <2>1, <2>3
<1> HIDE DEF H, q, kept, Q
<1>8. q \in Bijection(DOMAIN kept, Q)
  BY <1>2, <1>6, <1>7, BijectionIs
<1>9. \A i \in DOMAIN kept : kept[i] = T[q[i]]
  BY <1>1, <1>2, <1>3
<1>10. Arranges(q, kept, T, Q)
  BY <1>2, <1>8, <1>9 DEF Arranges
<1> QED BY <1>10 DEF q, kept, Q, H

\* The figures of some cases do not depend on the order in which the database returned
\* their rows, which no ORDER BY fixes: not even the order of groups of one size does
\* (countBy, src/data/caseStats.js:15).
THEOREM FiguresOfAnyOrder ==
  ASSUME NEW T, NEW S, NEW o, NEW rows, Arranges(o, rows, T, S),
         NEW p, NEW others, Arranges(p, others, T, S)
  PROVE  Figures(rows) = Figures(others)
<1> DEFINE belonging == Restrict(rows, Having(rows, "belongsSecurityForce", Yes))
           belongingOthers == Restrict(others, Having(others, "belongsSecurityForce", Yes))
<1>1. Cardinality(DOMAIN rows) = Cardinality(DOMAIN others)
  <2>1. Cardinality(DOMAIN rows) = Cardinality(S)
    BY TotalOfTable
  <2>2. Cardinality(DOMAIN others) = Cardinality(S)
    BY TotalOfTable
  <2> QED BY <2>1, <2>2
<1>2. \A keys \in Seq(GroupColumns) : CountBy(rows, keys) = CountBy(others, keys)
  BY CountsOfAnyOrder
<1>3. CountBy(belonging, <<"securityForce">>) = CountBy(belongingOthers, <<"securityForce">>)
  <2> DEFINE some == {d \in S : T[d]["belongsSecurityForce"] = Yes}
             q == Restrict(o, Having(rows, "belongsSecurityForce", Yes))
             r == Restrict(p, Having(others, "belongsSecurityForce", Yes))
  <2>1. Arranges(q, belonging, T, some)
    BY RestrictedArranges
  <2>2. Arranges(r, belongingOthers, T, some)
    BY RestrictedArranges
  <2> HIDE DEF belonging, belongingOthers, some, q, r
  <2>3. \A keys \in Seq(GroupColumns) : CountBy(belonging, keys) = CountBy(belongingOthers, keys)
    BY <2>1, <2>2, CountsOfAnyOrder
  <2> QED BY <2>3, KeyLists
<1>4. \A c, v : Cardinality(Having(rows, c, v)) = Cardinality(Having(others, c, v))
  <2> SUFFICES ASSUME NEW c, NEW v
               PROVE  Cardinality(Having(rows, c, v)) = Cardinality(Having(others, c, v))
    OBVIOUS
  <2>1. Cardinality(Having(rows, c, v)) = Cardinality({d \in S : T[d][c] = v})
    BY HavingOfTable
  <2>2. Cardinality(Having(others, c, v)) = Cardinality({d \in S : T[d][c] = v})
    BY HavingOfTable
  <2> QED BY <2>1, <2>2
<1>6. /\ CountBy(rows, <<"caseCategory", "wasItAnAttempt">>) = CountBy(others, <<"caseCategory", "wasItAnAttempt">>)
      /\ CountBy(rows, <<"province">>) = CountBy(others, <<"province">>)
      /\ CountBy(rows, <<"murderWeapon">>) = CountBy(others, <<"murderWeapon">>)
      /\ CountBy(rows, <<"victimBondAggressor">>) = CountBy(others, <<"victimBondAggressor">>)
  BY <1>2, KeyLists
<1>5. /\ BooleanBreakdown(rows, "isPregnant") = BooleanBreakdown(others, "isPregnant")
      /\ BooleanBreakdown(rows, "belongsSecurityForce") = BooleanBreakdown(others, "belongsSecurityForce")
  BY <1>4 DEF BooleanBreakdown
<1> QED BY <1>1, <1>3, <1>5, <1>6 DEF Figures

-----------------------------------------------------------------------------
\* Every row is counted once.

\* The sum of counts is found by any function that adds them one by one.
LEMMA TotalIs ==
  ASSUME NEW N \in Nat, NEW groups, Len(groups) = N, NEW u \in [0..N -> Int], u[0] = 0,
         \A n \in 1..N : u[n] = u[n - 1] + groups[n].count
  PROVE  Total(groups) = u[N]
<1> DEFINE Sums(f) == f = [n \in 0..N |-> IF n = 0 THEN 0 ELSE f[n - 1] + groups[n].count]
           upTo == CHOOSE f : Sums(f)
<1>1. Sums(u)
  <2> DEFINE v == [n \in 0..N |-> IF n = 0 THEN 0 ELSE u[n - 1] + groups[n].count]
  <2>1. \A n \in 0..N : n # 0 => n \in 1..N
    BY SMT
  <2>2. \A n \in 0..N : u[n] = IF n = 0 THEN 0 ELSE u[n - 1] + groups[n].count
    BY <2>1
  <2>3. u = [n \in 0..N |-> u[n]]
    OBVIOUS
  <2> QED BY <2>2, <2>3
<1>2. Sums(upTo)
  BY <1>1
<1>3. Total(groups) = upTo[N]
  BY DEF Total
<1>4. DOMAIN upTo = 0..N /\ \A n \in 0..N : upTo[n] = IF n = 0 THEN 0 ELSE upTo[n - 1] + groups[n].count
  BY <1>2
<1> HIDE DEF upTo
<1> DEFINE wrong == {n \in 0..N : upTo[n] # u[n]}
<1>5. SUFFICES ASSUME wrong # {} PROVE FALSE
  BY <1>3, SMT
<1>6. wrong \subseteq Nat
  BY SMT
<1>7. PICK n \in wrong : \A k \in wrong : n <= k
  BY <1>5, <1>6, LeastNatural
<1>8. n \in 0..N /\ upTo[n] # u[n] /\ \A k \in 0..N : k < n => upTo[k] = u[k]
  BY <1>7, SMT
<1>9. n # 0
  BY <1>4, <1>8, SMT
<1>10. n - 1 \in 0..N /\ n - 1 < n /\ n \in 1..N
  BY <1>8, <1>9, SMT
<1>11. upTo[n] = upTo[n - 1] + groups[n].count /\ u[n] = u[n - 1] + groups[n].count
  BY <1>4, <1>9, <1>10
<1>12. upTo[n - 1] = u[n - 1]
  BY <1>8, <1>10
<1> QED BY <1>8, <1>11, <1>12

LEMMA DisjointCardinality ==
  ASSUME NEW S, IsFiniteSet(S), NEW T, IsFiniteSet(T), \A x \in S : x \notin T
  PROVE  Cardinality(S \cup T) = Cardinality(S) + Cardinality(T)
<1>1. Cardinality(S \cup T) = Cardinality(S) + Cardinality(T) - Cardinality(S \cap T)
  BY FS_Union
<1>2. S \cap T = {}
  OBVIOUS
<1>3. Cardinality(S) \in Nat /\ Cardinality(T) \in Nat /\ Cardinality(S \cap T) = 0
  BY <1>2, FS_CardinalityType, FS_EmptySet
<1> QED BY <1>1, <1>3, SMT

\* The rows of the first n groups.
InFirst(rows, keys, pos, n) ==
  {j \in DOMAIN rows : \E m \in 1..n : j \in SameGroup(rows, keys, pos[m])}

\* The groups part the rows, so that their counts sum to the rows.
LEMMA CountsAddUp ==
  ASSUME NEW rows, TypedRows(rows), NEW keys \in Seq(GroupColumns)
  PROVE  Total(CountBy(rows, keys)) = Cardinality(DOMAIN rows)
<1> DEFINE F == FirstRows(rows, keys)
           N == Cardinality(F)
           places == 1..N
<1>0. N \in Nat
  BY CountByPlaces
<1>1. PICK pos \in Bijection(places, F) :
           CountBy(rows, keys) = [n \in places |-> Entry(rows, keys, pos[n])]
  BY CountByPlaces
<1> DEFINE u == [n \in 0..N |-> Cardinality(InFirst(rows, keys, pos, n))]
<1>2. /\ pos \in [places -> F]
      /\ \A m, n \in places : pos[m] = pos[n] => m = n
      /\ Onto(pos, places, F)
  <2> HIDE DEF places, F
  <2> QED BY BijectionMaps, BijectionHits
<1>3. \A n \in Nat : IsFiniteSet(InFirst(rows, keys, pos, n)) /\ Cardinality(InFirst(rows, keys, pos, n)) \in Nat
  <2> SUFFICES ASSUME NEW n \in Nat
               PROVE  /\ IsFiniteSet(InFirst(rows, keys, pos, n))
                      /\ Cardinality(InFirst(rows, keys, pos, n)) \in Nat
    OBVIOUS
  <2>1. InFirst(rows, keys, pos, n) \in SUBSET DOMAIN rows
    BY DEF InFirst
  <2> QED BY <2>1, FS_Subset, FS_CardinalityType DEF TypedRows
<1>4. u \in [0..N -> Int] /\ u[0] = 0
  <2>1. \A n \in 0..N : n \in Nat
    BY <1>0, SMT
  <2>2. InFirst(rows, keys, pos, 0) = {}
    BY SMT DEF InFirst
  <2>3. 0 \in 0..N
    BY <1>0, SMT
  <2> HIDE DEF N
  <2>4. Cardinality(InFirst(rows, keys, pos, 0)) = 0
    BY <2>2, FS_EmptySet
  <2>5. \A n \in 0..N : Cardinality(InFirst(rows, keys, pos, n)) \in Int
    BY <2>1, <1>3
  <2> QED BY <2>3, <2>4, <2>5
<1>5. ASSUME NEW n \in 1..N
      PROVE  u[n] = u[n - 1] + Cardinality(SameGroup(rows, keys, pos[n]))
  <2>0. n \in places /\ pos[n] \in F /\ n - 1 \in 0..N /\ n \in 0..N /\ n \in Nat /\ n - 1 \in Nat
    BY <1>0, <1>2
  <2>1. \A m \in 1..n : m = n \/ m \in 1..(n - 1)
    BY <2>0, SMT
  <2>2. \A m \in 1..(n - 1) : m \in 1..n /\ m \in places /\ m # n
    BY <1>0, SMT
  <2>3. n \in 1..n
    BY <2>0, SMT
  <2>4. InFirst(rows, keys, pos, n) =
          InFirst(rows, keys, pos, n - 1) \cup SameGroup(rows, keys, pos[n])
    <3>1. SameGroup(rows, keys, pos[n]) \subseteq DOMAIN rows
      BY DEF SameGroup
    <3>2. \A j \in DOMAIN rows : (\E m \in 1..n : j \in SameGroup(rows, keys, pos[m])) <=>
             \/ \E m \in 1..(n - 1) : j \in SameGroup(rows, keys, pos[m])
             \/ j \in SameGroup(rows, keys, pos[n])
      BY <2>1, <2>2, <2>3, Zenon
    <3> QED BY <3>1, <3>2, Zenon DEF InFirst
  <2>5. ASSUME NEW j \in InFirst(rows, keys, pos, n - 1), j \in SameGroup(rows, keys, pos[n])
        PROVE  FALSE
    <3>1. PICK m \in 1..(n - 1) : j \in SameGroup(rows, keys, pos[m])
      BY DEF InFirst
    <3>2. Key(rows[pos[m]], keys) = Key(rows[pos[n]], keys)
      BY <2>5, <3>1 DEF SameGroup
    <3>3. m \in places /\ m # n /\ pos[m] \in F
      BY <2>2, <1>2
    <3>4. pos[m] = pos[n]
      BY <2>0, <3>2, <3>3, OneFirstPerGroup
    <3> QED BY <1>2, <2>0, <3>3, <3>4
  <2>6. IsFiniteSet(SameGroup(rows, keys, pos[n]))
    BY EntryIs
  <2>7. Cardinality(InFirst(rows, keys, pos, n)) =
          Cardinality(InFirst(rows, keys, pos, n - 1)) + Cardinality(SameGroup(rows, keys, pos[n]))
    BY <1>3, <2>0, <2>4, <2>5, <2>6, DisjointCardinality
  <2> QED BY <2>0, <2>7
<1>6. InFirst(rows, keys, pos, N) = DOMAIN rows
  <2> SUFFICES ASSUME NEW j \in DOMAIN rows
               PROVE  \E m \in 1..N : j \in SameGroup(rows, keys, pos[m])
    BY DEF InFirst
  <2>1. PICK f \in F : Key(rows[f], keys) = Key(rows[j], keys)
    BY FirstOfGroup
  <2>2. PICK m \in places : pos[m] = f
    BY <1>2 DEF Onto
  <2> QED BY <2>1, <2>2 DEF SameGroup
<1> DEFINE groups == CountBy(rows, keys)
<1>7. Len(groups) = N
  BY <1>0, <1>1
<1>8. \A n \in 1..N : groups[n].count = Cardinality(SameGroup(rows, keys, pos[n]))
  BY <1>1, EntryIs
<1>9. u[N] = Cardinality(DOMAIN rows)
  BY <1>0, <1>6
<1> HIDE DEF u, groups
<1>10. \A n \in 1..N : u[n] = u[n - 1] + groups[n].count
  BY <1>5, <1>8
<1> HIDE DEF N
<1>11. Total(groups) = u[N]
  BY <1>0, <1>4, <1>7, <1>10, TotalIs
<1> QED BY <1>9, <1>11 DEF groups

TypedBooleans(rows) ==
  \A i \in DOMAIN rows, c \in BooleanColumns : rows[i][c] \in {Yes, No, Null}

\* A boolean that may be unset is true, false or null.
LEMMA BreakdownAddsUp ==
  ASSUME NEW rows, TypedRows(rows), TypedBooleans(rows), NEW c \in BooleanColumns, Null \notin Int
  PROVE  OfBreakdown(BooleanBreakdown(rows, c)) = Cardinality(DOMAIN rows)
<1> DEFINE yes == Having(rows, c, Yes)
           no == Having(rows, c, No)
           unknown == Having(rows, c, Null)
<1>1. Yes # No /\ Null # Yes /\ Null # No
  BY DEF Yes, No
<1>2. DOMAIN rows = (yes \cup no) \cup unknown
  BY DEF Having, TypedBooleans
<1>3. /\ \A x \in yes : x \notin no
      /\ \A x \in yes \cup no : x \notin unknown
  BY <1>1 DEF Having
<1>4. yes \in SUBSET DOMAIN rows /\ no \in SUBSET DOMAIN rows /\ unknown \in SUBSET DOMAIN rows
  BY DEF Having
<1>5. IsFiniteSet(yes) /\ IsFiniteSet(no) /\ IsFiniteSet(unknown)
  BY <1>4, FS_Subset DEF TypedRows
<1>6. OfBreakdown(BooleanBreakdown(rows, c)) = Cardinality(yes) + Cardinality(no) + Cardinality(unknown)
  BY DEF OfBreakdown, BooleanBreakdown
<1> HIDE DEF yes, no, unknown
<1>7. IsFiniteSet(yes \cup no)
  BY <1>5, FS_Union
<1>8. Cardinality((yes \cup no) \cup unknown) = Cardinality(yes \cup no) + Cardinality(unknown)
  BY <1>3, <1>5, <1>7, DisjointCardinality
<1>9. Cardinality(yes \cup no) = Cardinality(yes) + Cardinality(no)
  BY <1>3, <1>5, DisjointCardinality
<1> QED BY <1>2, <1>6, <1>8, <1>9

\* FiguresAddUp, of one answer.
AddUp(f) ==
  /\ \A groups \in {f.byCategoryAndAttempt, f.byProvince, f.byMurderWeapon,
                    f.byVictimBondAggressor} : Total(groups) = f.total
  /\ OfBreakdown(f.victimIsPregnant) = f.total
  /\ OfBreakdown(f.aggressorBelongsSecurityForce) = f.total
  /\ Total(f.bySecurityForce) = f.aggressorBelongsSecurityForce.yes

LEMMA FiguresOfRowsAddUp ==
  ASSUME NEW rows, TypedRows(rows), TypedBooleans(rows), Null \notin Int
  PROVE  AddUp(Figures(rows))
<1> DEFINE f == Figures(rows)
           belonging == Restrict(rows, Having(rows, "belongsSecurityForce", Yes))
<1>1. /\ f.total = Cardinality(DOMAIN rows)
      /\ f.byCategoryAndAttempt = CountBy(rows, <<"caseCategory", "wasItAnAttempt">>)
      /\ f.byProvince = CountBy(rows, <<"province">>)
      /\ f.byMurderWeapon = CountBy(rows, <<"murderWeapon">>)
      /\ f.byVictimBondAggressor = CountBy(rows, <<"victimBondAggressor">>)
      /\ f.victimIsPregnant = BooleanBreakdown(rows, "isPregnant")
      /\ f.aggressorBelongsSecurityForce = BooleanBreakdown(rows, "belongsSecurityForce")
      /\ f.bySecurityForce = CountBy(belonging, <<"securityForce">>)
  BY DEF Figures
<1>2. f.aggressorBelongsSecurityForce.yes = Cardinality(Having(rows, "belongsSecurityForce", Yes))
  BY <1>1 DEF BooleanBreakdown
<1> HIDE DEF f
<1>3. TypedRows(belonging) /\ DOMAIN belonging = Having(rows, "belongsSecurityForce", Yes)
  BY RestrictedRows
<1> HIDE DEF belonging
<1>4. Total(f.bySecurityForce) = f.aggressorBelongsSecurityForce.yes
  BY <1>1, <1>2, <1>3, KeyLists, CountsAddUp
<1>5. /\ Total(f.byCategoryAndAttempt) = f.total /\ Total(f.byProvince) = f.total
      /\ Total(f.byMurderWeapon) = f.total /\ Total(f.byVictimBondAggressor) = f.total
  BY <1>1, KeyLists, CountsAddUp
<1>6. OfBreakdown(f.victimIsPregnant) = f.total /\ OfBreakdown(f.aggressorBelongsSecurityForce) = f.total
  <2>1. "isPregnant" \in BooleanColumns /\ "belongsSecurityForce" \in BooleanColumns
    BY DEF BooleanColumns
  <2> QED BY <1>1, <2>1, BreakdownAddsUp
<1>7. AddUp(f)
  BY <1>4, <1>5, <1>6 DEF AddUp
<1> QED BY <1>7 DEF f

-----------------------------------------------------------------------------
\* How old an answer is.

\* An answer, to a request made at a time, saw no writes after others it did not
\* see, and all that were there when it was asked for.
Seen(times, answer, asked) ==
  /\ answer.version \in 0..Len(times)
  /\ answer.version < Len(times) => times[answer.version + 1] >= asked

\* The same of an answer on the screen of a tab, which may have been stored.
SeenNotLongAgo(times, answer, asked) ==
  /\ answer.version \in 0..Len(times)
  /\ answer.version < Len(times) =>
       \/ times[answer.version + 1] >= asked
       \/ times[answer.version + 1] + MaxAge > asked

Clock ==
  /\ now \in Nat
  /\ writes \in Seq(Nat)
  /\ \A i \in DOMAIN writes : writes[i] <= now

RequestsSeen ==
  /\ DOMAIN request = Tabs
  /\ \A t \in Tabs : request[t] # Nothing =>
       /\ request[t].query \in Queries
       /\ request[t].asked \in 0..now
       /\ request[t].answer # Nothing => Seen(writes, request[t].answer, request[t].asked)

StoredSeen ==
  /\ DOMAIN cache = Browsers
  /\ \A b \in Browsers :
       /\ DOMAIN cache[b] = Queries
       /\ \A q \in Queries : cache[b][q] # Nothing =>
            cache[b][q].asked \in 0..now /\ Seen(writes, cache[b][q].answer, cache[b][q].asked)

ShownSeen ==
  /\ DOMAIN shown = Tabs
  /\ \A t \in Tabs : shown[t] # Nothing =>
       shown[t].asked \in 0..now /\ SeenNotLongAgo(writes, shown[t].answer, shown[t].asked)

StatsInv == Clock /\ RequestsSeen /\ StoredSeen /\ ShownSeen

LEMMA InitStats == Init => StatsInv
<1> SUFFICES ASSUME Init PROVE StatsInv
  OBVIOUS
<1>1. Clock
  BY SMT DEF Init, Clock
<1>2. RequestsSeen /\ ShownSeen
  BY DEF Init, RequestsSeen, ShownSeen
<1>3. StoredSeen
  BY DEF Init, StoredSeen
<1> QED BY <1>1, <1>2, <1>3 DEF StatsInv

\* A write comes after whatever was asked for before it.
LEMMA WriteKeepsSeen ==
  ASSUME Clock, NEW i, NEW row, Write(i, row), NEW answer, NEW asked \in 0..now
  PROVE  /\ Seen(writes, answer, asked) => Seen(writes', answer, asked)
         /\ SeenNotLongAgo(writes, answer, asked) => SeenNotLongAgo(writes', answer, asked)
<1>1. /\ writes' = Append(writes, now) /\ writes \in Seq(Nat) /\ now \in Nat
      /\ Len(writes') = Len(writes) + 1 /\ writes'[Len(writes) + 1] = now
      /\ \A k \in 1..Len(writes) : writes'[k] = writes[k]
      /\ Len(writes) \in Nat
  BY SMT DEF Clock, Write
<1>2. ASSUME answer.version \in 0..Len(writes),
             answer.version < Len(writes) => writes[answer.version + 1] >= asked
      PROVE  Seen(writes', answer, asked)
  BY <1>1, <1>2, SMT DEF Seen
<1>3. ASSUME SeenNotLongAgo(writes, answer, asked)
      PROVE  SeenNotLongAgo(writes', answer, asked)
  BY <1>1, <1>3, SMT DEF SeenNotLongAgo
<1> QED BY <1>2, <1>3 DEF Seen

LEMMA WriteStats ==
  ASSUME StatsInv, NEW i, NEW row, Write(i, row)
  PROVE  StatsInv'
<1>0. now' = now /\ request' = request /\ cache' = cache /\ shown' = shown
  BY DEF Write
<1>1. Clock'
  BY SMT DEF StatsInv, Clock, Write
<1>2. RequestsSeen'
  <2> SUFFICES ASSUME NEW t \in Tabs, request[t] # Nothing
               PROVE  /\ request[t].query \in Queries
                      /\ request[t].asked \in 0..now
                      /\ request[t].answer # Nothing =>
                           Seen(writes', request[t].answer, request[t].asked)
    BY <1>0 DEF RequestsSeen, StatsInv, Seen
  <2> QED BY WriteKeepsSeen DEF StatsInv, RequestsSeen
<1>3. StoredSeen'
  <2> SUFFICES ASSUME NEW b \in Browsers, NEW q \in Queries, cache[b][q] # Nothing
               PROVE  /\ cache[b][q].asked \in 0..now
                      /\ Seen(writes', cache[b][q].answer, cache[b][q].asked)
    BY <1>0 DEF StoredSeen, StatsInv, Seen
  <2> QED BY WriteKeepsSeen DEF StatsInv, StoredSeen
<1>4. ShownSeen'
  <2> SUFFICES ASSUME NEW t \in Tabs, shown[t] # Nothing
               PROVE  /\ shown[t].asked \in 0..now
                      /\ SeenNotLongAgo(writes', shown[t].answer, shown[t].asked)
    BY <1>0 DEF ShownSeen, StatsInv, SeenNotLongAgo
  <2> QED BY WriteKeepsSeen DEF StatsInv, ShownSeen
<1> QED BY <1>1, <1>2, <1>3, <1>4 DEF StatsInv

LEMMA TickStats == StatsInv /\ Tick => StatsInv'
<1> SUFFICES ASSUME StatsInv, Tick PROVE StatsInv'
  OBVIOUS
<1>1. /\ now' = now + 1 /\ now \in Nat /\ request' = request /\ cache' = cache
      /\ shown' = shown /\ writes' = writes
  BY DEF Tick, StatsInv, Clock
<1>2. Clock'
  BY <1>1, SMT DEF StatsInv, Clock
<1>3. \A a : a \in 0..now => a \in 0..now'
  BY <1>1, SMT
<1>4. RequestsSeen'
  BY <1>1, <1>3 DEF StatsInv, RequestsSeen, Seen
<1>5. StoredSeen'
  BY <1>1, <1>3 DEF StatsInv, StoredSeen, Seen
<1>6. ShownSeen'
  BY <1>1, <1>3 DEF StatsInv, ShownSeen, SeenNotLongAgo
<1> QED BY <1>2, <1>4, <1>5, <1>6 DEF StatsInv

\* The actions of a tab that leave the clock and the table alone.
LEMMA StillSeen ==
  ASSUME now' = now, writes' = writes
  PROVE  /\ Clock => Clock'
         /\ request' = request /\ RequestsSeen => RequestsSeen'
         /\ cache' = cache /\ StoredSeen => StoredSeen'
         /\ shown' = shown /\ ShownSeen => ShownSeen'
<1>1. Clock => Clock'
  BY DEF Clock
<1>2. request' = request /\ RequestsSeen => RequestsSeen'
  BY DEF RequestsSeen, Seen
<1>3. cache' = cache /\ StoredSeen => StoredSeen'
  BY DEF StoredSeen, Seen
<1>4. shown' = shown /\ ShownSeen => ShownSeen'
  BY DEF ShownSeen, SeenNotLongAgo
<1> QED BY <1>1, <1>2, <1>3, <1>4

LEMMA ShowSeen ==
  ASSUME StatsInv, now' = now, writes' = writes,
         NEW t \in Tabs, NEW q, NEW answer, NEW asked \in 0..now, Show(t, q, answer, asked),
         SeenNotLongAgo(writes, answer, asked)
  PROVE  ShownSeen'
<1>1. shown' = [shown EXCEPT ![t] = [query |-> q, answer |-> answer, asked |-> asked]]
  BY DEF Show
<1>2. DOMAIN shown' = Tabs
  BY <1>1 DEF StatsInv, ShownSeen
<1>3. ASSUME NEW u \in Tabs, shown'[u] # Nothing
      PROVE  shown'[u].asked \in 0..now /\ SeenNotLongAgo(writes, shown'[u].answer, shown'[u].asked)
  <2>1. CASE u = t
    <3>1. shown'[u] = [query |-> q, answer |-> answer, asked |-> asked]
      BY <1>1, <2>1 DEF StatsInv, ShownSeen
    <3>2. shown'[u].asked = asked /\ shown'[u].answer = answer
      BY <3>1
    <3> QED BY <3>2
  <2>2. CASE u # t
    <3>1. shown'[u] = shown[u]
      BY <1>1, <2>2 DEF StatsInv, ShownSeen
    <3> QED BY <3>1, <1>3 DEF StatsInv, ShownSeen
  <2> QED BY <2>1, <2>2
<1> QED BY <1>2, <1>3 DEF ShownSeen, SeenNotLongAgo

LEMMA OpenCachedStats ==
  ASSUME StatsInv, NEW t \in Tabs, NEW q \in Queries, OpenCached(t, q)
  PROVE  StatsInv'
<1> DEFINE stored == cache[BrowserOf[t]][q]
<1>1. /\ Fresh(stored) /\ Show(t, q, stored.answer, now)
      /\ now' = now /\ writes' = writes /\ request' = request /\ cache' = cache
  BY DEF OpenCached
<1>2. stored.asked \in 0..now /\ Seen(writes, stored.answer, stored.asked)
  <2>1. BrowserOf[t] \in Browsers
    BY StatsAssumption
  <2> QED BY <1>1, <2>1 DEF StatsInv, StoredSeen, Fresh
<1> HIDE DEF stored
<1>3. SeenNotLongAgo(writes, stored.answer, now)
  <2>1. now - stored.asked < MaxAge /\ MaxAge \in Nat
    BY <1>1, StatsAssumption DEF Fresh, CacheControl
  <2>2. writes \in Seq(Nat) /\ now \in Nat
    BY DEF StatsInv, Clock
  <2>3. ASSUME stored.answer.version < Len(writes)
        PROVE  writes[stored.answer.version + 1] \in Nat
    BY <1>2, <2>2, <2>3, SMT DEF Seen
  <2> QED BY <1>2, <2>1, <2>2, <2>3, SMT DEF Seen, SeenNotLongAgo
<1>4. now \in 0..now
  BY SMT DEF StatsInv, Clock
<1>5. ShownSeen'
  BY <1>1, <1>3, <1>4, ShowSeen
<1> QED BY <1>1, <1>5, StillSeen DEF StatsInv

LEMMA AskStats ==
  ASSUME StatsInv, NEW t \in Tabs, NEW q \in Queries, Ask(t, q)
  PROVE  StatsInv'
<1>1. /\ request' = [request EXCEPT ![t] = [query |-> q, asked |-> now, answer |-> Nothing]]
      /\ now' = now /\ writes' = writes /\ cache' = cache /\ shown' = shown
  BY DEF Ask
<1>2. now \in 0..now
  BY SMT DEF StatsInv, Clock
<1>3. DOMAIN request' = Tabs
  BY <1>1 DEF StatsInv, RequestsSeen
<1>4. ASSUME NEW u \in Tabs, request'[u] # Nothing
      PROVE  /\ request'[u].query \in Queries
             /\ request'[u].asked \in 0..now
             /\ request'[u].answer # Nothing => Seen(writes, request'[u].answer, request'[u].asked)
  <2>1. CASE u = t
    <3>1. request'[u] = [query |-> q, asked |-> now, answer |-> Nothing]
      BY <1>1, <2>1 DEF StatsInv, RequestsSeen
    <3> QED BY <3>1, <1>2
  <2>2. CASE u # t
    <3>1. request'[u] = request[u]
      BY <1>1, <2>2 DEF StatsInv, RequestsSeen
    <3> QED BY <3>1, <1>4 DEF StatsInv, RequestsSeen
  <2> QED BY <2>1, <2>2
<1>5. RequestsSeen'
  BY <1>1, <1>3, <1>4 DEF RequestsSeen, Seen
<1> QED BY <1>1, <1>5, StillSeen DEF StatsInv

LEMMA AnswerStats ==
  ASSUME StatsInv, NEW t \in Tabs, Answer(t)
  PROVE  StatsInv'
<1>1. PICK order \in SetToSeqs({i \in DOMAIN cases : Selected(request[t].query, cases[i])}) :
        request' = [request EXCEPT ![t] =
                      [ query |-> @.query, asked |-> @.asked,
                        answer |-> [ figures |-> Figures(InOrder(order)),
                                     version |-> Len(writes) ] ]]
  BY DEF Answer
<1> DEFINE answer == [figures |-> Figures(InOrder(order)), version |-> Len(writes)]
<1>2. /\ request[t] # Nothing
      /\ now' = now /\ writes' = writes /\ cache' = cache /\ shown' = shown
  BY DEF Answer
<1>3. \A asked : Seen(writes, answer, asked)
  <2>1. answer.version = Len(writes)
    OBVIOUS
  <2>2. Len(writes) \in 0..Len(writes) /\ ~(Len(writes) < Len(writes))
    BY SMT DEF StatsInv, Clock
  <2> HIDE DEF answer
  <2> QED BY <2>1, <2>2 DEF Seen
<1>4. request' = [request EXCEPT ![t] =
                    [query |-> @.query, asked |-> @.asked, answer |-> answer]]
  BY <1>1
<1> HIDE DEF answer
<1>5. DOMAIN request' = Tabs
  BY <1>4 DEF StatsInv, RequestsSeen
<1>6. ASSUME NEW u \in Tabs, request'[u] # Nothing
      PROVE  /\ request'[u].query \in Queries
             /\ request'[u].asked \in 0..now
             /\ request'[u].answer # Nothing => Seen(writes, request'[u].answer, request'[u].asked)
  <2>1. CASE u = t
    <3>1. request'[u] = [query |-> request[t].query, asked |-> request[t].asked,
                         answer |-> answer]
      BY <1>4, <2>1 DEF StatsInv, RequestsSeen
    <3>2. /\ request'[u].query = request[t].query /\ request'[u].asked = request[t].asked
          /\ request'[u].answer = answer
      BY <3>1
    <3> QED BY <3>2, <1>2, <1>3 DEF StatsInv, RequestsSeen
  <2>2. CASE u # t
    <3>1. request'[u] = request[u]
      BY <1>4, <2>2 DEF StatsInv, RequestsSeen
    <3> QED BY <3>1, <1>6 DEF StatsInv, RequestsSeen
  <2> QED BY <2>1, <2>2
<1>7. RequestsSeen'
  BY <1>2, <1>5, <1>6 DEF RequestsSeen, Seen
<1> QED BY <1>2, <1>7, StillSeen DEF StatsInv

\* A tab that waits for nothing leaves the others as they were.
LEMMA NoLongerWaiting ==
  ASSUME StatsInv, now' = now, writes' = writes, NEW t \in Tabs,
         request' = [request EXCEPT ![t] = Nothing]
  PROVE  RequestsSeen'
<1>1. DOMAIN request' = Tabs
  BY DEF StatsInv, RequestsSeen
<1>2. \A u \in Tabs : request'[u] # Nothing => request'[u] = request[u]
  BY DEF StatsInv, RequestsSeen
<1>3. ASSUME NEW u \in Tabs, request'[u] # Nothing
      PROVE  /\ request'[u].query \in Queries
             /\ request'[u].asked \in 0..now
             /\ request'[u].answer # Nothing => Seen(writes, request'[u].answer, request'[u].asked)
  <2>1. request'[u] = request[u]
    BY <1>2, <1>3
  <2> QED BY <2>1, <1>3 DEF StatsInv, RequestsSeen
<1> QED BY <1>1, <1>3 DEF RequestsSeen, Seen

LEMMA ReceiveStats ==
  ASSUME StatsInv, NEW t \in Tabs, Receive(t)
  PROVE  StatsInv'
<1> DEFINE r == request[t]
           b == BrowserOf[t]
<1>1. /\ r # Nothing /\ r.answer # Nothing
      /\ Show(t, r.query, r.answer, r.asked)
      /\ cache' = [cache EXCEPT ![b][r.query] = [answer |-> r.answer, asked |-> r.asked]]
      /\ request' = [request EXCEPT ![t] = Nothing]
      /\ now' = now /\ writes' = writes
  BY DEF Receive
<1>2. r.query \in Queries /\ r.asked \in 0..now /\ Seen(writes, r.answer, r.asked)
  BY <1>1 DEF StatsInv, RequestsSeen
<1>3. b \in Browsers
  BY StatsAssumption
<1> HIDE DEF r, b
<1>4. SeenNotLongAgo(writes, r.answer, r.asked)
  BY <1>2 DEF Seen, SeenNotLongAgo
<1>5. ShownSeen'
  BY <1>1, <1>2, <1>4, ShowSeen
<1>6. RequestsSeen'
  BY <1>1, NoLongerWaiting
<1>7. /\ DOMAIN cache' = Browsers
      /\ \A c \in Browsers : DOMAIN cache'[c] = Queries
  BY <1>1, <1>2, <1>3 DEF StatsInv, StoredSeen
<1>8. ASSUME NEW c \in Browsers, NEW q \in Queries, cache'[c][q] # Nothing
      PROVE  cache'[c][q].asked \in 0..now /\ Seen(writes, cache'[c][q].answer, cache'[c][q].asked)
  <2>1. CASE c = b /\ q = r.query
    <3>1. cache'[c][q] = [answer |-> r.answer, asked |-> r.asked]
      BY <1>1, <1>2, <1>3, <2>1 DEF StatsInv, StoredSeen
    <3>2. cache'[c][q].answer = r.answer /\ cache'[c][q].asked = r.asked
      BY <3>1
    <3> QED BY <3>2, <1>2
  <2>2. CASE ~(c = b /\ q = r.query)
    <3>1. cache'[c][q] = cache[c][q]
      BY <1>1, <1>2, <1>3, <2>2 DEF StatsInv, StoredSeen
    <3> QED BY <3>1, <1>8 DEF StatsInv, StoredSeen
  <2> QED BY <2>1, <2>2
<1>9. StoredSeen'
  BY <1>1, <1>7, <1>8 DEF StoredSeen, Seen
<1> QED BY <1>1, <1>5, <1>6, <1>9, StillSeen DEF StatsInv

LEMMA FailStats ==
  ASSUME StatsInv, NEW t \in Tabs, Fail(t)
  PROVE  StatsInv'
<1>1. /\ request' = [request EXCEPT ![t] = Nothing]
      /\ now' = now /\ writes' = writes /\ cache' = cache /\ shown' = shown
  BY DEF Fail
<1>2. RequestsSeen'
  BY <1>1, NoLongerWaiting
<1> QED BY <1>1, <1>2, StillSeen DEF StatsInv

LEMMA NextStats == StatsInv /\ [Next]_vars => StatsInv'
<1> SUFFICES ASSUME StatsInv, [Next]_vars PROVE StatsInv'
  OBVIOUS
<1>1. CASE \E i \in Ids, row \in CaseRows : Write(i, row)
  BY <1>1, WriteStats
<1>2. CASE Tick
  BY <1>2, TickStats
<1>3. ASSUME NEW t \in Tabs, NEW q \in Queries, OpenCached(t, q) \/ Ask(t, q)
      PROVE  StatsInv'
  BY <1>3, OpenCachedStats, AskStats
<1>4. ASSUME NEW t \in Tabs, Answer(t) \/ Receive(t) \/ Fail(t)
      PROVE  StatsInv'
  BY <1>4, AnswerStats, ReceiveStats, FailStats
<1>5. CASE UNCHANGED vars
  BY <1>5, StillSeen DEF vars, StatsInv
<1> QED BY <1>1, <1>2, <1>3, <1>4, <1>5 DEF Next

LEMMA StatsInvariant == Spec => []StatsInv
  BY InitStats, NextStats, PTL DEF Spec

\* What a dashboard shows was true less than CASE_STATS_CACHE_MAX_AGE_SECONDS before
\* it was opened, however many tabs ask and however late answers come.
THEOREM FiguresAreNotOlder == Spec => []StaleByMaxAgeAtMost
<1>1. ASSUME StatsInv PROVE StaleByMaxAgeAtMost
  BY <1>1 DEF StatsInv, ShownSeen, SeenNotLongAgo, Screens, StaleByMaxAgeAtMost
<1> QED BY <1>1, StatsInvariant, PTL

-----------------------------------------------------------------------------
\* Of which table an answer is.

\* The tables there can be, the ids a query selects of one and their rows in an order.
AllTables == UNION {[ids -> CaseRows] : ids \in SUBSET Ids}

Chosen(table, q) == {i \in DOMAIN table : Selected(q, table[i])}

RowsIn(table, order) == [n \in DOMAIN order |-> table[order[n]]]

\* The answer to a query has the figures of the table as it was when it was made.
Truthful(tables, q, answer) ==
  /\ answer.version \in DOMAIN tables
  /\ \E order \in SetToSeqs(Chosen(tables[answer.version], q)) :
       answer.figures = Figures(RowsIn(tables[answer.version], order))

AnswersTruthful(tables) ==
  \A t \in Tabs : request[t] # Nothing /\ request[t].answer # Nothing =>
    Truthful(tables, request[t].query, request[t].answer)

StoredTruthful(tables) ==
  \A b \in Browsers, q \in Queries : cache[b][q] # Nothing =>
    Truthful(tables, q, cache[b][q].answer)

ShownTruthful(tables) ==
  \A t \in Tabs : shown[t] # Nothing =>
    shown[t].query \in Queries /\ Truthful(tables, shown[t].query, shown[t].answer)

\* What the table held after each write.
Past(tables) ==
  /\ tables \in [0..Len(writes) -> AllTables]
  /\ tables[Len(writes)] = cases
  /\ AnswersTruthful(tables)
  /\ StoredTruthful(tables)
  /\ ShownTruthful(tables)

FiguresInv == \E tables : Past(tables)

LEMMA InitFigures == Init => FiguresInv
<1> SUFFICES ASSUME Init PROVE FiguresInv
  OBVIOUS
<1> DEFINE tables == [v \in {0} |-> cases]
<1>1. cases \in AllTables
  <2>1. cases \in Tables
    BY DEF Init
  <2>2. DOMAIN cases \in SUBSET Ids
    BY <2>1, StatsAssumption
  <2>3. cases \in [DOMAIN cases -> CaseRows]
    BY <2>1, RowsAssumption
  <2> QED BY <2>2, <2>3 DEF AllTables
<1>2. Len(writes) = 0 /\ 0..0 = {0}
  BY SMT DEF Init
<1>3. tables \in [0..Len(writes) -> AllTables] /\ tables[Len(writes)] = cases
  BY <1>1, <1>2
<1>4. AnswersTruthful(tables) /\ StoredTruthful(tables) /\ ShownTruthful(tables)
  BY DEF Init, AnswersTruthful, StoredTruthful, ShownTruthful
<1> HIDE DEF tables
<1>5. Past(tables)
  BY <1>3, <1>4 DEF Past
<1> QED BY <1>5 DEF FiguresInv

\* A write adds a table to the past.
LEMMA WriteFigures ==
  ASSUME StatsInv, FiguresInv, NEW i \in Ids, NEW row \in CaseRows, Write(i, row)
  PROVE  FiguresInv'
<1>1. PICK tables : Past(tables)
  BY DEF FiguresInv
<1> DEFINE n == Len(writes)
<1>2. /\ request' = request /\ cache' = cache /\ shown' = shown
      /\ n \in Nat /\ Len(writes') = n + 1
  BY SMT DEF Write, StatsInv, Clock
<1>3. tables \in [0..n -> AllTables] /\ tables[n] = cases
  BY <1>1 DEF Past
<1>4. cases' \in AllTables
  <2>1. n \in 0..n
    BY <1>2, SMT
  <2>2. cases \in AllTables
    BY <1>3, <2>1
  <2>3. PICK ids \in SUBSET Ids : cases \in [ids -> CaseRows]
    BY <2>2 DEF AllTables
  <2>4. cases' = [j \in ids \cup {i} |-> IF j = i THEN row ELSE cases[j]]
    BY <2>3 DEF Write
  <2>5. cases' \in [ids \cup {i} -> CaseRows] /\ ids \cup {i} \in SUBSET Ids
    BY <2>3, <2>4
  <2> QED BY <2>5 DEF AllTables
<1>5. /\ \A v \in 0..n : v \in 0..(n + 1) /\ v # n + 1
      /\ \A v \in 0..(n + 1) : v # n + 1 => v \in 0..n
      /\ n + 1 \in 0..(n + 1)
  BY <1>2, SMT
<1> HIDE DEF n
<1>p. PICK more : more = [v \in 0..(n + 1) |-> IF v = n + 1 THEN cases' ELSE tables[v]]
  OBVIOUS
<1>6. more \in [0..(n + 1) -> AllTables] /\ more[n + 1] = cases'
  BY <1>p, <1>3, <1>4, <1>5
<1>7. DOMAIN tables \subseteq DOMAIN more /\ \A v \in DOMAIN tables : more[v] = tables[v]
  BY <1>p, <1>3, <1>5
<1>8. \A q, answer : Truthful(tables, q, answer) => Truthful(more, q, answer)
  BY <1>7 DEF Truthful
<1>9. AnswersTruthful(more)' /\ StoredTruthful(more)' /\ ShownTruthful(more)'
  <2>1. AnswersTruthful(more)'
    BY <1>1, <1>2, <1>8 DEF Past, AnswersTruthful
  <2>2. StoredTruthful(more)'
    BY <1>1, <1>2, <1>8 DEF Past, StoredTruthful
  <2>3. ShownTruthful(more)'
    BY <1>1, <1>2, <1>8 DEF Past, ShownTruthful
  <2> QED BY <2>1, <2>2, <2>3
<1>10. Past(more)'
  BY <1>2, <1>6, <1>9 DEF Past
<1> QED BY <1>10 DEF FiguresInv

\* The other actions leave the table alone.
LEMMA SamePast ==
  ASSUME NEW tables, Past(tables), cases' = cases, writes' = writes,
         AnswersTruthful(tables)', StoredTruthful(tables)', ShownTruthful(tables)'
  PROVE  FiguresInv'
<1>1. Past(tables)'
  BY DEF Past
<1> QED BY <1>1 DEF FiguresInv

LEMMA StillTruthful ==
  ASSUME NEW tables, Past(tables)
  PROVE  /\ request' = request => AnswersTruthful(tables)'
         /\ cache' = cache => StoredTruthful(tables)'
         /\ shown' = shown => ShownTruthful(tables)'
<1>1. request' = request => AnswersTruthful(tables)'
  BY DEF Past, AnswersTruthful
<1>2. cache' = cache => StoredTruthful(tables)'
  BY DEF Past, StoredTruthful
<1>3. shown' = shown => ShownTruthful(tables)'
  BY DEF Past, ShownTruthful
<1> QED BY <1>1, <1>2, <1>3

LEMMA ShowTruthful ==
  ASSUME StatsInv, NEW tables, Past(tables), NEW t \in Tabs, NEW q \in Queries, NEW answer,
         NEW asked, Show(t, q, answer, asked), Truthful(tables, q, answer)
  PROVE  ShownTruthful(tables)'
<1>1. shown' = [shown EXCEPT ![t] = [query |-> q, answer |-> answer, asked |-> asked]]
  BY DEF Show
<1>2. ASSUME NEW u \in Tabs, shown'[u] # Nothing
      PROVE  shown'[u].query \in Queries /\ Truthful(tables, shown'[u].query, shown'[u].answer)
  <2>1. CASE u = t
    <3>1. shown'[u] = [query |-> q, answer |-> answer, asked |-> asked]
      BY <1>1, <2>1 DEF StatsInv, ShownSeen
    <3>2. shown'[u].query = q /\ shown'[u].answer = answer
      BY <3>1
    <3> QED BY <3>2
  <2>2. CASE u # t
    <3>1. shown'[u] = shown[u]
      BY <1>1, <2>2 DEF StatsInv, ShownSeen
    <3> QED BY <3>1, <1>2 DEF Past, ShownTruthful
  <2> QED BY <2>1, <2>2
<1> QED BY <1>2 DEF ShownTruthful

LEMMA OpenCachedFigures ==
  ASSUME StatsInv, FiguresInv, NEW t \in Tabs, NEW q \in Queries, OpenCached(t, q)
  PROVE  FiguresInv'
<1>1. PICK tables : Past(tables)
  BY DEF FiguresInv
<1> DEFINE stored == cache[BrowserOf[t]][q]
<1>2. /\ stored # Nothing /\ Show(t, q, stored.answer, now)
      /\ cases' = cases /\ writes' = writes /\ request' = request /\ cache' = cache
  BY DEF OpenCached, Fresh
<1>3. BrowserOf[t] \in Browsers
  BY StatsAssumption
<1>4. Truthful(tables, q, stored.answer)
  BY <1>1, <1>2, <1>3 DEF Past, StoredTruthful
<1> HIDE DEF stored
<1>5. ShownTruthful(tables)'
  BY <1>1, <1>2, <1>4, ShowTruthful
<1> QED BY <1>1, <1>2, <1>5, StillTruthful, SamePast

\* A tab that asks, or gives up, waits for an answer that is not made.
LEMMA WaitingFigures ==
  ASSUME StatsInv, FiguresInv, NEW t \in Tabs, Fail(t) \/ \E q \in Queries : Ask(t, q)
  PROVE  FiguresInv'
<1>1. PICK tables : Past(tables)
  BY DEF FiguresInv
<1>2. /\ cases' = cases /\ writes' = writes /\ cache' = cache /\ shown' = shown
      /\ \A u \in Tabs : u # t => request'[u] = request[u]
      /\ request'[t] # Nothing => request'[t].answer = Nothing
  <2>1. CASE Fail(t)
    BY <2>1 DEF Fail, StatsInv, RequestsSeen
  <2>2. CASE \E q \in Queries : Ask(t, q)
    <3>1. PICK q \in Queries : Ask(t, q)
      BY <2>2
    <3>2. request'[t] = [query |-> q, asked |-> now, answer |-> Nothing]
      BY <3>1 DEF Ask, StatsInv, RequestsSeen
    <3>3. request'[t].answer = Nothing
      BY <3>2
    <3> QED BY <3>1, <3>3 DEF Ask, StatsInv, RequestsSeen
  <2> QED BY <2>1, <2>2
<1>3. AnswersTruthful(tables)'
  BY <1>1, <1>2 DEF Past, AnswersTruthful
<1> QED BY <1>1, <1>2, <1>3, StillTruthful, SamePast

LEMMA AnswerFigures ==
  ASSUME StatsInv, FiguresInv, NEW t \in Tabs, Answer(t)
  PROVE  FiguresInv'
<1>1. PICK tables : Past(tables)
  BY DEF FiguresInv
<1>2. PICK order \in SetToSeqs({i \in DOMAIN cases : Selected(request[t].query, cases[i])}) :
        request' = [request EXCEPT ![t] =
                      [ query |-> @.query, asked |-> @.asked,
                        answer |-> [ figures |-> Figures(InOrder(order)),
                                     version |-> Len(writes) ] ]]
  BY DEF Answer
<1>3. cases' = cases /\ writes' = writes /\ cache' = cache /\ shown' = shown
  BY DEF Answer
<1> DEFINE answer == [figures |-> Figures(InOrder(order)), version |-> Len(writes)]
           q == request[t].query
<1>4. request'[t] = [query |-> q, asked |-> request[t].asked, answer |-> answer]
  BY <1>2 DEF StatsInv, RequestsSeen
<1>5. \A u \in Tabs : u # t => request'[u] = request[u]
  BY <1>2 DEF StatsInv, RequestsSeen
<1>6. answer.figures = Figures(InOrder(order)) /\ answer.version = Len(writes)
  OBVIOUS
<1> HIDE DEF answer
<1>7. request'[t].query = q /\ request'[t].answer = answer
  BY <1>4
<1>8. Truthful(tables, q, answer)
  <2>1. /\ DOMAIN tables = 0..Len(writes) /\ tables[Len(writes)] = cases
    BY <1>1 DEF Past
  <2>2. Len(writes) \in 0..Len(writes)
    BY SMT DEF StatsInv, Clock
  <2>3. InOrder(order) = RowsIn(cases, order)
    BY DEF InOrder, RowsIn
  <2>4. order \in SetToSeqs(Chosen(cases, q))
    BY <1>2 DEF Chosen
  <2> HIDE DEF q
  <2> QED BY <1>6, <2>1, <2>2, <2>3, <2>4 DEF Truthful
<1> HIDE DEF q
<1>9. AnswersTruthful(tables)'
  BY <1>1, <1>5, <1>7, <1>8 DEF Past, AnswersTruthful
<1> QED BY <1>1, <1>3, <1>9, StillTruthful, SamePast

LEMMA ReceiveFigures ==
  ASSUME StatsInv, FiguresInv, NEW t \in Tabs, Receive(t)
  PROVE  FiguresInv'
<1>1. PICK tables : Past(tables)
  BY DEF FiguresInv
<1> DEFINE r == request[t]
           b == BrowserOf[t]
<1>2. /\ r # Nothing /\ r.answer # Nothing
      /\ Show(t, r.query, r.answer, r.asked)
      /\ cache' = [cache EXCEPT ![b][r.query] = [answer |-> r.answer, asked |-> r.asked]]
      /\ request' = [request EXCEPT ![t] = Nothing]
      /\ cases' = cases /\ writes' = writes
  BY DEF Receive
<1>3. r.query \in Queries
  BY <1>2 DEF StatsInv, RequestsSeen
<1>4. b \in Browsers
  BY StatsAssumption
<1>5. Truthful(tables, r.query, r.answer)
  BY <1>1, <1>2 DEF Past, AnswersTruthful
<1> HIDE DEF r, b
<1>6. ShownTruthful(tables)'
  BY <1>1, <1>2, <1>3, <1>5, ShowTruthful
<1>7. AnswersTruthful(tables)'
  <2>1. \A u \in Tabs : request'[u] # Nothing => request'[u] = request[u]
    BY <1>2 DEF StatsInv, RequestsSeen
  <2> QED BY <1>1, <2>1 DEF Past, AnswersTruthful
<1>8. ASSUME NEW c \in Browsers, NEW q \in Queries, cache'[c][q] # Nothing
      PROVE  Truthful(tables, q, cache'[c][q].answer)
  <2>1. CASE c = b /\ q = r.query
    <3>1. cache'[c][q] = [answer |-> r.answer, asked |-> r.asked]
      BY <1>2, <1>3, <1>4, <2>1 DEF StatsInv, StoredSeen
    <3>2. cache'[c][q].answer = r.answer
      BY <3>1
    <3> QED BY <3>2, <1>5, <2>1
  <2>2. CASE ~(c = b /\ q = r.query)
    <3>1. cache'[c][q] = cache[c][q]
      BY <1>2, <1>3, <1>4, <2>2 DEF StatsInv, StoredSeen
    <3> QED BY <3>1, <1>1, <1>8 DEF Past, StoredTruthful
  <2> QED BY <2>1, <2>2
<1>9. StoredTruthful(tables)'
  BY <1>8 DEF StoredTruthful
<1> QED BY <1>1, <1>2, <1>6, <1>7, <1>9, SamePast

LEMMA NextFigures == StatsInv /\ FiguresInv /\ [Next]_vars => FiguresInv'
<1> SUFFICES ASSUME StatsInv, FiguresInv, [Next]_vars PROVE FiguresInv'
  OBVIOUS
<1>1. CASE \E i \in Ids, row \in CaseRows : Write(i, row)
  BY <1>1, WriteFigures
<1>2. CASE Tick \/ UNCHANGED vars
  <2>1. PICK tables : Past(tables)
    BY DEF FiguresInv
  <2>2. /\ cases' = cases /\ writes' = writes /\ request' = request
        /\ cache' = cache /\ shown' = shown
    BY <1>2 DEF Tick, vars
  <2> QED BY <2>1, <2>2, StillTruthful, SamePast
<1>3. ASSUME NEW t \in Tabs, NEW q \in Queries, OpenCached(t, q) \/ Ask(t, q)
      PROVE  FiguresInv'
  BY <1>3, OpenCachedFigures, WaitingFigures
<1>4. ASSUME NEW t \in Tabs, Answer(t) \/ Receive(t) \/ Fail(t)
      PROVE  FiguresInv'
  BY <1>4, AnswerFigures, ReceiveFigures, WaitingFigures
<1> QED BY <1>1, <1>2, <1>3, <1>4 DEF Next

LEMMA FiguresInvariant == Spec => []FiguresInv
  BY InitFigures, NextFigures, StatsInvariant, PTL DEF Spec

\* The rows of any table a dashboard can have seen are of the kinds the figures expect.
LEMMA OrderArranges ==
  ASSUME NEW T \in AllTables, NEW q, NEW order \in SetToSeqs(Chosen(T, q))
  PROVE  /\ Arranges(order, RowsIn(T, order), T, Chosen(T, q))
         /\ TypedBooleans(RowsIn(T, order))
         /\ IsFiniteSet(DOMAIN T)
<1> DEFINE S == Chosen(T, q)
           N == Cardinality(S)
           places == 1..N
           rows == RowsIn(T, order)
<1>1. PICK ids \in SUBSET Ids : T \in [ids -> CaseRows]
  BY DEF AllTables
<1>2. DOMAIN T = ids /\ IsFiniteSet(ids) /\ \A i \in ids : T[i] \in CaseRows
  BY <1>1, RowsAssumption, FS_Subset
<1>3. S \in SUBSET ids
  BY <1>2 DEF Chosen
<1>4. IsFiniteSet(S) /\ N \in Nat /\ ExistsBijection(1..N, S)
  BY <1>2, <1>3, FS_Subset, FS_CardinalityType
<1>5. order \in [places -> S] /\ \A i, j \in places : i # j => order[i] # order[j]
  BY DEF SetToSeqs
<1>6. places \subseteq Nat /\ IsFiniteSet(places) /\ Cardinality(places) = N
  BY <1>4, FS_Interval, SMT
<1> HIDE DEF places, S
<1>7. order \in Injection(places, S)
  BY <1>5 DEF Injection, IsInjective
<1>8. order \in Surjection(places, S)
  BY <1>4, <1>6, <1>7, FS_Injection
<1>9. order \in Bijection(places, S)
  BY <1>7, <1>8 DEF Bijection
<1>10. DOMAIN rows = places /\ \A n \in places : rows[n] = T[order[n]] /\ rows[n] \in CaseRows
  BY <1>2, <1>3, <1>5 DEF RowsIn
<1> HIDE DEF rows
<1>11. TypedRows(rows)
  BY <1>6, <1>10, RowsAssumption DEF TypedRows, Values
<1>12. TypedBooleans(rows)
  BY <1>10, RowsAssumption DEF TypedBooleans
<1>13. Arranges(order, rows, T, S)
  BY <1>9, <1>10, <1>11 DEF Arranges
<1> QED BY <1>2, <1>12, <1>13 DEF rows, S

\* What the invariant says of a dashboard.
LEMMA ScreenFigures ==
  ASSUME StatsInv, NEW tables, Past(tables), NEW s \in Screens
  PROVE  /\ s.query \in Queries /\ s.answer.version \in 0..Len(writes)
         /\ tables[s.answer.version] \in AllTables
         /\ \E order \in SetToSeqs(Chosen(tables[s.answer.version], s.query)) :
              s.answer.figures = Figures(RowsIn(tables[s.answer.version], order))
<1>1. PICK t \in Tabs : s = shown[t] /\ shown[t] # Nothing
  BY DEF Screens
<1>2. s.query \in Queries /\ Truthful(tables, s.query, s.answer)
  BY <1>1 DEF Past, ShownTruthful
<1>3. tables \in [0..Len(writes) -> AllTables]
  BY DEF Past
<1> QED BY <1>2, <1>3 DEF Truthful

\* Every row is counted once in each figure of a dashboard (src/data/caseStats.js), so
\* that whatever a tab shows, stored or late, adds up.
THEOREM FiguresAlwaysAddUp == Spec => []FiguresAddUp
<1>1. ASSUME StatsInv, FiguresInv PROVE FiguresAddUp
  <2>1. PICK tables : Past(tables)
    BY <1>1 DEF FiguresInv
  <2>2. ASSUME NEW s \in Screens PROVE AddUp(s.answer.figures)
    <3> DEFINE T == tables[s.answer.version]
    <3>1. T \in AllTables
      BY <1>1, <2>1, ScreenFigures
    <3>2. PICK order \in SetToSeqs(Chosen(T, s.query)) : s.answer.figures = Figures(RowsIn(T, order))
      BY <1>1, <2>1, ScreenFigures
    <3> HIDE DEF T
    <3>3. TypedRows(RowsIn(T, order)) /\ TypedBooleans(RowsIn(T, order))
      BY <3>1, OrderArranges DEF Arranges
    <3>4. AddUp(Figures(RowsIn(T, order)))
      BY <3>3, RowsAssumption, FiguresOfRowsAddUp
    <3> QED BY <3>2, <3>4
  <2> QED BY <2>2 DEF AddUp, FiguresAddUp
<1> QED BY <1>1, StatsInvariant, FiguresInvariant, PTL

\* Two dashboards of the same query and the same cases show the same figures, in the
\* same order, from any tabs, browsers and caches and whatever was written between
\* (the handler of GET /v1/cases/stats, src/routers/cases.js:394).
THEOREM FiguresAreOfTheCases == Spec => []SameCasesSameFigures
<1>1. ASSUME StatsInv, FiguresInv PROVE SameCasesSameFigures
  <2>1. PICK tables : Past(tables)
    BY <1>1 DEF FiguresInv
  <2>2. ASSUME NEW s \in Screens, NEW r \in Screens,
               s.query = r.query, s.answer.version = r.answer.version
        PROVE  s.answer.figures = r.answer.figures
    <3> DEFINE T == tables[s.answer.version]
               S == Chosen(T, s.query)
    <3>1. T \in AllTables
      BY <1>1, <2>1, ScreenFigures
    <3>2. PICK o \in SetToSeqs(S) : s.answer.figures = Figures(RowsIn(T, o))
      BY <1>1, <2>1, ScreenFigures
    <3>3. PICK p \in SetToSeqs(S) : r.answer.figures = Figures(RowsIn(T, p))
      BY <1>1, <2>1, <2>2, ScreenFigures
    <3> HIDE DEF T
    <3>4. Arranges(o, RowsIn(T, o), T, S) /\ Arranges(p, RowsIn(T, p), T, S)
      BY <3>1, OrderArranges
    <3> HIDE DEF S
    <3>5. Figures(RowsIn(T, o)) = Figures(RowsIn(T, p))
      BY <3>4, FiguresOfAnyOrder
    <3> QED BY <3>2, <3>3, <3>5
  <2> QED BY <2>2 DEF SameCasesSameFigures
<1> QED BY <1>1, StatsInvariant, FiguresInvariant, PTL

LEMMA OneKey ==
  ASSUME NEW row, NEW p
  PROVE  Key(row, <<"province">>) = <<p>> <=> row["province"] = p
<1>1. Key(row, <<"province">>) = [k \in 1..1 |-> row["province"]]
  BY DEF Key
<1>2. ASSUME Key(row, <<"province">>) = <<p>> PROVE row["province"] = p
  <2>1. Key(row, <<"province">>)[1] = row["province"]
    BY <1>1
  <2>2. Key(row, <<"province">>)[1] = p
    BY <1>2
  <2> QED BY <2>1, <2>2
<1>3. ASSUME row["province"] = p PROVE Key(row, <<"province">>) = <<p>>
  <2>1. [k \in 1..1 |-> row["province"]] = [k \in 1..1 |-> p]
    BY <1>3
  <2>2. \A x : [k \in 1..1 |-> x] = <<x>>
    OBVIOUS
  <2>3. [k \in 1..1 |-> row["province"]] = <<row["province"]>>
    BY <2>2
  <2> QED BY <1>1, <1>3, <2>3
<1> QED BY <1>2, <1>3

\* The count of a province's group, 0 if there is none, is that of its rows.
LEMMA CountOfProvince ==
  ASSUME NEW rows, TypedRows(rows), NEW p
  PROVE  CountOf(CountBy(rows, <<"province">>), <<p>>) = Cardinality(Having(rows, "province", p))
<1> DEFINE keys == <<"province">>
           F == FirstRows(rows, keys)
           places == 1..Cardinality(F)
           groups == CountBy(rows, keys)
           of == {n \in DOMAIN groups : groups[n].group = <<p>>}
           H == Having(rows, "province", p)
<1>0. keys \in Seq(GroupColumns)
  BY KeyLists
<1>1. PICK pos \in Bijection(places, F) : groups = [n \in places |-> Entry(rows, keys, pos[n])]
  <2> HIDE DEF keys
  <2> QED BY <1>0, CountByPlaces
<1>2. /\ DOMAIN groups = places
      /\ \A n \in places : /\ groups[n].group = Key(rows[pos[n]], keys)
                           /\ groups[n].count = Cardinality(SameGroup(rows, keys, pos[n]))
  BY <1>1, EntryIs
<1>3. \A i \in DOMAIN rows : Key(rows[i], keys) = <<p>> <=> i \in H
  BY OneKey DEF Having
<1>4. CountOf(groups, <<p>>) = IF of = {} THEN 0 ELSE groups[CHOOSE n \in of : TRUE].count
  BY DEF CountOf
<1>5. F \subseteq DOMAIN rows
  BY DEF FirstRows
<1> HIDE DEF keys, F, places, groups
<1>6. \A n \in places : pos[n] \in F
  BY BijectionMaps
<1>7. Onto(pos, places, F)
  BY BijectionHits
<1>8. CASE of = {}
  <2>1. ASSUME NEW i \in H PROVE FALSE
    <3>1. i \in DOMAIN rows
      BY DEF Having
    <3>2. PICK f \in F : Key(rows[f], keys) = Key(rows[i], keys)
      BY <3>1, FirstOfGroup DEF F
    <3>3. PICK n \in places : pos[n] = f
      BY <1>7 DEF Onto
    <3>4. groups[n].group = <<p>>
      BY <1>2, <1>3, <2>1, <3>1, <3>2, <3>3
    <3> QED BY <1>2, <1>8, <3>4
  <2>2. H = {}
    BY <2>1
  <2> HIDE DEF H, of
  <2>3. Cardinality(H) = 0
    BY <2>2, FS_EmptySet
  <2> QED BY <1>4, <1>8, <2>3 DEF H, groups, keys
<1>9. CASE of # {}
  <2> DEFINE n == CHOOSE n \in of : TRUE
  <2>1. n \in of
    BY <1>9
  <2> HIDE DEF n
  <2>2. n \in places /\ groups[n].group = <<p>> /\ groups[n].count = Cardinality(SameGroup(rows, keys, pos[n]))
    BY <1>2, <2>1
  <2>3. pos[n] \in DOMAIN rows /\ Key(rows[pos[n]], keys) = <<p>>
    BY <1>2, <1>5, <1>6, <2>2
  <2>4. SameGroup(rows, keys, pos[n]) = H
    <3>1. H \subseteq DOMAIN rows
      BY DEF Having
    <3> HIDE DEF H
    <3> QED BY <1>3, <2>3, <3>1 DEF SameGroup
  <2> HIDE DEF H, of
  <2>5. CountOf(groups, <<p>>) = groups[n].count
    BY <1>4, <1>9 DEF n
  <2> QED BY <2>2, <2>4, <2>5 DEF H, groups, keys
<1> QED BY <1>8, <1>9

\* The total, and the count of each province, are those of the ids the query selects.
LEMMA ScreenTotals ==
  ASSUME StatsInv, NEW tables, Past(tables), NEW s \in Screens
  PROVE  /\ s.answer.figures.total = Cardinality(Chosen(tables[s.answer.version], s.query))
         /\ IsFiniteSet(DOMAIN tables[s.answer.version])
         /\ \A p : CountOf(s.answer.figures.byProvince, <<p>>) =
              Cardinality({i \in Chosen(tables[s.answer.version], s.query) :
                             tables[s.answer.version][i]["province"] = p})
<1> DEFINE T == tables[s.answer.version]
           S == Chosen(T, s.query)
<1>1. T \in AllTables
  BY ScreenFigures
<1>2. PICK order \in SetToSeqs(S) : s.answer.figures = Figures(RowsIn(T, order))
  BY ScreenFigures
<1> DEFINE rows == RowsIn(T, order)
<1> HIDE DEF T
<1>3. Arranges(order, rows, T, S) /\ IsFiniteSet(DOMAIN T)
  BY <1>1, OrderArranges
<1> HIDE DEF rows, S
<1>4. /\ Figures(rows).total = Cardinality(DOMAIN rows)
      /\ Figures(rows).byProvince = CountBy(rows, <<"province">>)
  BY DEF Figures
<1>5. Cardinality(DOMAIN rows) = Cardinality(S)
  BY <1>3, TotalOfTable
<1>6. ASSUME NEW p
      PROVE  CountOf(CountBy(rows, <<"province">>), <<p>>) =
               Cardinality({i \in S : T[i]["province"] = p})
  <2>1. CountOf(CountBy(rows, <<"province">>), <<p>>) = Cardinality(Having(rows, "province", p))
    BY <1>3, CountOfProvince DEF Arranges
  <2>2. Cardinality(Having(rows, "province", p)) = Cardinality({i \in S : T[i]["province"] = p})
    BY <1>3, HavingOfTable
  <2> QED BY <2>1, <2>2
<1>7. s.answer.figures = Figures(rows)
  BY <1>2 DEF rows
<1>8. /\ s.answer.figures.total = Cardinality(S)
      /\ \A p : CountOf(s.answer.figures.byProvince, <<p>>) =
           Cardinality({i \in S : T[i]["province"] = p})
  BY <1>4, <1>5, <1>6, <1>7
<1> QED BY <1>3, <1>8 DEF T, S

\* The total of the dashboard of a province is the count that the dashboard of all
\* gives it, and two periods that meet on a day count every case once: applyCaseFilters
\* (src/routers/cases.js:82) and countBy agree on what a row is.
THEOREM DrillDownsAlwaysAgree == Spec => []DrillDownsAgree
<1>1. ASSUME StatsInv, FiguresInv PROVE DrillDownsAgree
  <2>1. PICK tables : Past(tables)
    BY <1>1 DEF FiguresInv
  <2> SUFFICES ASSUME NEW s \in Screens, NEW r \in Screens, s.answer.version = r.answer.version
               PROVE  ProvincesAgree(s, r) /\ PeriodsTile(s, r)
    BY DEF DrillDownsAgree
  <2> DEFINE T == tables[s.answer.version]
  <2>2. /\ s.answer.figures.total = Cardinality(Chosen(T, s.query))
        /\ r.answer.figures.total = Cardinality(Chosen(T, r.query))
        /\ IsFiniteSet(DOMAIN T)
        /\ \A p : CountOf(s.answer.figures.byProvince, <<p>>) =
             Cardinality({i \in Chosen(T, s.query) : T[i]["province"] = p})
    BY <1>1, <2>1, ScreenTotals
  <2>3. s.query \in Queries /\ r.query \in Queries /\ T \in AllTables
    BY <1>1, <2>1, ScreenFigures
  <2>4. s.answer.version = Len(writes) => T = cases
    BY <2>1 DEF Past
  <2> HIDE DEF T
  <2>5. \A i \in DOMAIN T : T[i].occurredAt \in Int
    <3>1. \A i \in DOMAIN T : T[i] \in CaseRows
      BY <2>3 DEF AllTables
    <3> QED BY <3>1, RowsAssumption
  <2>6. ASSUME s.query = <<>>, DOMAIN r.query = {"province"}
        PROVE  r.answer.figures.total =
                 CountOf(s.answer.figures.byProvince, <<r.query["province"]>>)
    <3>1. Chosen(T, s.query) = DOMAIN T
      <4>1. DOMAIN s.query = {}
        BY <2>6
      <4> QED BY <4>1 DEF Chosen, Selected
    <3>2. Chosen(T, r.query) = {i \in DOMAIN T : T[i]["province"] = r.query["province"]}
      <4>1. SameColumn \cap DOMAIN r.query = {"province"}
        BY <2>6 DEF SameColumn
      <4>2. "fromDate" \notin DOMAIN r.query /\ "toDate" \notin DOMAIN r.query /\ "location" \notin DOMAIN r.query
        BY <2>6
      <4> QED BY <4>1, <4>2 DEF Chosen, Selected
    <3> QED BY <2>2, <3>1, <3>2
  <2>7. ASSUME DOMAIN s.query = {"toDate"}, DOMAIN r.query = {"fromDate"},
               s.query["toDate"] = r.query["fromDate"], T = cases
        PROVE  s.answer.figures.total + r.answer.figures.total = Cardinality(DOMAIN cases)
    <3> DEFINE d == s.query["toDate"]
               before == Chosen(T, s.query)
               since == Chosen(T, r.query)
    <3>1. d \in Int
      BY <2>3, <2>7, RowsAssumption
    <3>2. before = {i \in DOMAIN T : T[i].occurredAt < d}
      <4>1. SameColumn \cap DOMAIN s.query = {}
        BY <2>7 DEF SameColumn
      <4>2. "fromDate" \notin DOMAIN s.query /\ "toDate" \in DOMAIN s.query /\ "location" \notin DOMAIN s.query
        BY <2>7
      <4> QED BY <4>1, <4>2 DEF Chosen, Selected
    <3>3. since = {i \in DOMAIN T : T[i].occurredAt >= d}
      <4>1. SameColumn \cap DOMAIN r.query = {}
        BY <2>7 DEF SameColumn
      <4>2. "toDate" \notin DOMAIN r.query /\ "fromDate" \in DOMAIN r.query /\ "location" \notin DOMAIN r.query
        BY <2>7
      <4> QED BY <4>1, <4>2, <2>7 DEF Chosen, Selected
    <3> HIDE DEF d, before, since
    <3>4. \A i \in DOMAIN T : (T[i].occurredAt < d) <=> ~(T[i].occurredAt >= d)
      BY <2>5, <3>1, SMT
    <3>5. before \cup since = DOMAIN T /\ \A i \in before : i \notin since
      BY <3>2, <3>3, <3>4
    <3>6. before \in SUBSET DOMAIN T /\ since \in SUBSET DOMAIN T
      BY <3>2, <3>3
    <3>7. IsFiniteSet(before) /\ IsFiniteSet(since)
      BY <2>2, <3>6, FS_Subset
    <3>8. Cardinality(before \cup since) = Cardinality(before) + Cardinality(since)
      BY <3>5, <3>7, DisjointCardinality
    <3> QED BY <2>2, <2>7, <3>5, <3>8 DEF before, since
  <2> QED BY <2>4, <2>6, <2>7 DEF ProvincesAgree, PeriodsTile
<1> QED BY <1>1, StatsInvariant, FiguresInvariant, PTL
=============================================================================
