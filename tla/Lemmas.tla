------------------------------- MODULE Lemmas -------------------------------
(***************************************************************************)
(* What the proofs about several components need: division with remainder, *)
(* for indices that wrap, periods and steps of a setting, lists that are   *)
(* made by counting what comes before an element, and how many entries of  *)
(* a list are of a kind.                                                   *)
(***************************************************************************)
EXTENDS Lists, FiniteSetTheorems, SequenceTheorems, WellFoundedInduction, TLAPS

\* Quotients and remainders.
LEMMA Division ==
  ASSUME NEW a \in Nat, NEW d \in Nat \ {0}
  PROVE  /\ a \div d \in Nat /\ a % d \in 0 .. d - 1
         /\ a = ((a \div d) * d) + (a % d)
<1>1. a \div d \in Nat
  OBVIOUS
<1>2. a % d \in 0 .. d - 1
  OBVIOUS
<1>3. a = ((a \div d) * d) + (a % d)
  OBVIOUS
<1> QED
  BY <1>1, <1>2, <1>3

\* Less than one divisor away is nowhere else.
LEMMA NoMultiple ==
  ASSUME NEW k \in Int, NEW d \in Nat \ {0}, -d < k * d, k * d < d
  PROVE  k = 0
<1>1. CASE k >= 1
  <2>1. k * d = (k - 1) * d + d
    BY <1>1
  <2>2. (k - 1) * d >= 0
    BY <1>1
  <2> QED
    BY <2>1, <2>2
<1>2. CASE k <= -1
  <2>1. k * d = (k + 1) * d - d
    BY <1>2
  <2>2. (k + 1) * d <= 0
    BY <1>2
  <2> QED
    BY <2>1, <2>2
<1> QED
  BY <1>1, <1>2

\* A remainder is determined by being one.
LEMMA RemainderIs ==
  ASSUME NEW a \in Nat, NEW d \in Nat \ {0}, NEW q \in Int,
         NEW r \in 0 .. d - 1, a = (q * d) + r
  PROVE  a % d = r
<1>1. PICK k \in Nat : k = a \div d
  BY Division
<1>2. PICK s \in 0 .. d - 1 : s = a % d
  BY Division
<1>3. a = (k * d) + s
  BY <1>1, <1>2, Division
<1>4. (q - k) * d = s - r
  <2>1. (q * d) + r = (k * d) + s
    BY <1>3
  <2>2. (q - k) * d = (q * d) - (k * d)
    OBVIOUS
  <2>3. PICK x \in Int, y \in Int : x = q * d /\ y = k * d
    OBVIOUS
  <2> QED
    BY <2>1, <2>2, <2>3
<1>5. -d < (q - k) * d /\ (q - k) * d < d
  BY <1>4
<1>6. q - k = 0
  BY <1>5, NoMultiple
<1>7. s = r
  BY <1>4, <1>6
<1> QED
  BY <1>2, <1>7

\* A step from a remainder leads where it leads from the number itself.
LEMMA StepAround ==
  ASSUME NEW a \in Nat, NEW b \in Nat, NEW d \in Nat \ {0}
  PROVE  ((a % d) + b) % d = (a + b) % d
<1>1. PICK q \in Nat, r \in 0 .. d - 1 : q = a \div d /\ r = a % d
  BY Division
<1>2. a = (q * d) + r
  BY <1>1, Division
<1>3. r + b \in Nat
  OBVIOUS
<1>4. PICK k \in Nat, s \in 0 .. d - 1 : k = (r + b) \div d /\ s = (r + b) % d
  BY <1>3, Division
<1>5. r + b = (k * d) + s
  BY <1>3, <1>4, Division
<1>6. a + b = ((q + k) * d) + s
  <2>1. (q + k) * d = (q * d) + (k * d)
    OBVIOUS
  <2>2. PICK x \in Int, y \in Int : x = q * d /\ y = k * d
    OBVIOUS
  <2> QED
    BY <1>2, <1>5, <2>1, <2>2
<1>7. (a + b) % d = s
  <2>1. a + b \in Nat /\ q + k \in Int
    OBVIOUS
  <2> QED
    BY <1>6, <2>1, RemainderIs
<1> QED
  BY <1>1, <1>4, <1>7

\* How far a slot of the ring is behind the tail.
LEMMA OffsetFromTail ==
  ASSUME NEW h \in Nat, NEW d \in Nat \ {0}, NEW j \in 0 .. d - 1,
         NEW n \in 0 .. d
  PROVE  (((h + j) % d) + d - ((h + n) % d)) % d
           = IF j >= n THEN j - n ELSE (d + j) - n
<1>1. h + j \in Nat /\ h + n \in Nat
  OBVIOUS
<1>2. PICK p \in Nat, s \in 0 .. d - 1 :
        h + j = (p * d) + s /\ s = (h + j) % d
  BY <1>1, Division
<1>3. PICK q \in Nat, t \in 0 .. d - 1 :
        h + n = (q * d) + t /\ t = (h + n) % d
  BY <1>1, Division
<1>4. s + d - t = (((q - p) + 1) * d) + (j - n)
  <2>1. ((q - p) + 1) * d = ((q * d) - (p * d)) + d
    OBVIOUS
  <2>2. PICK x \in Int, y \in Int : x = q * d /\ y = p * d
    OBVIOUS
  <2>3. h + j = y + s /\ h + n = x + t
    BY <1>2, <1>3, <2>2
  <2>4. s + d - t = ((x - y) + d) + (j - n)
    BY <2>3
  <2> QED
    BY <2>1, <2>2, <2>4
<1>5. s + d - t \in Nat
  OBVIOUS
<1>6. CASE j >= n
  <2>1. j - n \in 0 .. d - 1 /\ (q - p) + 1 \in Int
    BY <1>6
  <2>2. (s + d - t) % d = j - n
    BY <1>4, <1>5, <2>1, RemainderIs
  <2> QED
    BY <1>2, <1>3, <1>6, <2>2
<1>7. CASE j < n
  <2>1. (d + j) - n \in 0 .. d - 1 /\ q - p \in Int
    BY <1>7
  <2>2. s + d - t = ((q - p) * d) + ((d + j) - n)
    <3>1. ((q - p) + 1) * d = ((q - p) * d) + d
      OBVIOUS
    <3>2. PICK x \in Int : x = (q - p) * d
      OBVIOUS
    <3> QED
      BY <1>4, <3>1, <3>2
  <2>3. (s + d - t) % d = (d + j) - n
    BY <1>5, <2>1, <2>2, RemainderIs
  <2> QED
    BY <1>2, <1>3, <1>7, <2>3
<1> QED
  BY <1>6, <1>7

\* Multiples are what leaves no remainder.
LEMMA Multiples ==
  ASSUME NEW a \in Nat, NEW d \in Nat \ {0}
  PROVE  a % d = 0 <=> \E k \in Nat : a = k * d
<1>1. ASSUME a % d = 0
      PROVE  \E k \in Nat : a = k * d
  <2>1. PICK q \in Nat : q = a \div d
    BY Division
  <2>2. a = (q * d) + 0
    BY <1>1, <2>1, Division
  <2>3. a = q * d
    BY <2>2
  <2> QED
    BY <2>3
<1>2. ASSUME NEW k \in Nat, a = k * d
      PROVE  a % d = 0
  <2>1. a = (k * d) + 0
    BY <1>2
  <2> QED
    BY <2>1, RemainderIs
<1> QED
  BY <1>1, <1>2

-----------------------------------------------------------------------------
\* The places of a list are as many as its length.
LEMMA PlacesOfList ==
  ASSUME NEW n \in Nat
  PROVE  IsFiniteSet(1 .. n) /\ Cardinality(1 .. n) = n
  BY FS_Interval

\* An element comes after fewer elements than there are, and after more than
\* any element before it.
LEMMA PlacesDiffer ==
  ASSUME NEW S, IsFiniteSet(S), NEW rank \in [S -> Int], NEW x \in S
  PROVE  /\ Preceding(S, rank, x) \in 0 .. Cardinality(S) - 1
         /\ \A z \in S : rank[z] < rank[x] =>
              Preceding(S, rank, z) < Preceding(S, rank, x)
<1> DEFINE Before(z) == {y \in S : rank[y] < rank[z]}
<1>1. ASSUME NEW T \in SUBSET S
      PROVE  IsFiniteSet(T) /\ Cardinality(T) \in Nat
  BY <1>1, FS_Subset, FS_CardinalityType
<1>2. Cardinality(Before(x)) < Cardinality(S)
  <2>1. Before(x) \subseteq S /\ Before(x) # S
    OBVIOUS
  <2> QED
    BY <1>1, <2>1, FS_Subset
<1>3. ASSUME NEW z \in S, rank[z] < rank[x]
      PROVE  Cardinality(Before(z)) < Cardinality(Before(x))
  <2>1. \A y \in S : rank[y] < rank[z] => rank[y] < rank[x]
    BY <1>3
  <2>2. z \in Before(x) /\ z \notin Before(z)
    BY <1>3
  <2>3. Before(z) \subseteq Before(x) /\ Before(z) # Before(x)
    BY <2>1, <2>2
  <2> QED
    BY <1>1, <2>3, FS_Subset
<1>4. Cardinality(Before(x)) \in Nat /\ Cardinality(S) \in Nat
  BY <1>1
<1> QED
  BY <1>2, <1>3, <1>4 DEF Preceding

\* When no two elements have one rank, every place has its element.
LEMMA PlacesAreFilled ==
  ASSUME NEW S, IsFiniteSet(S), NEW rank \in [S -> Int],
         \A x, y \in S : rank[x] = rank[y] => x = y
  PROVE  /\ Cardinality(S) \in Nat
         /\ \A x, y \in S :
              Preceding(S, rank, x) = Preceding(S, rank, y) => x = y
         /\ \A k \in 0 .. Cardinality(S) - 1 :
              \E x \in S : Preceding(S, rank, x) = k
<1> DEFINE N == Cardinality(S)
           P == [x \in S |-> Preceding(S, rank, x)]
<1>1. N \in Nat
  BY FS_CardinalityType
<1>2. P \in [S -> 0 .. N - 1]
  BY PlacesDiffer
<1>3. \A x, y \in S : P[x] = P[y] => x = y
  <2> SUFFICES ASSUME NEW x \in S, NEW y \in S, x # y
               PROVE  P[x] # P[y]
    OBVIOUS
  <2>1. P[x] \in Int /\ P[y] \in Int
    BY <1>1, <1>2
  <2>2. rank[x] < rank[y] \/ rank[y] < rank[x]
    OBVIOUS
  <2>3. P[x] < P[y] \/ P[y] < P[x]
    BY <2>2, PlacesDiffer
  <2> QED
    BY <2>1, <2>3
<1>4. IsFiniteSet(0 .. N - 1) /\ Cardinality(0 .. N - 1) = N
  BY <1>1, FS_Interval, SMTT(30)
<1>5. P \in Surjection(S, 0 .. N - 1)
  <2>1. P \in Injection(S, 0 .. N - 1)
    BY <1>2, <1>3 DEF Injection, IsInjective
  <2> QED
    BY <1>4, <2>1, FS_Injection
<1> QED
  BY <1>1, <1>3, <1>5 DEF Surjection

\* Sorting lists every element once.
LEMMA SortedIs ==
  ASSUME NEW S, IsFiniteSet(S), NEW rank \in [S -> Int],
         \A x, y \in S : rank[x] = rank[y] => x = y
  PROVE  /\ Cardinality(S) \in Nat
         /\ Sorted(S, rank) \in [1 .. Cardinality(S) -> S]
         /\ \A j, k \in 1 .. Cardinality(S) :
              Sorted(S, rank)[j] = Sorted(S, rank)[k] => j = k
         /\ \A x \in S : \E k \in 1 .. Cardinality(S) : Sorted(S, rank)[k] = x
         /\ \A x \in S : (\A y \in S : rank[x] <= rank[y])
                           => 1 \in 1 .. Cardinality(S) /\ Sorted(S, rank)[1] = x
<1> DEFINE N == Cardinality(S)
           list == Sorted(S, rank)
<1>1. /\ N \in Nat
      /\ \A x, y \in S : Preceding(S, rank, x) = Preceding(S, rank, y) => x = y
      /\ \A k \in 0 .. N - 1 : \E x \in S : Preceding(S, rank, x) = k
  BY PlacesAreFilled
<1>2. \A x \in S : Preceding(S, rank, x) \in 0 .. N - 1
  BY PlacesDiffer
<1>3. \A k \in 1 .. N : list[k] = CHOOSE x \in S : Preceding(S, rank, x) = k - 1
  BY DEF Sorted
<1>8. list = [k \in 1 .. N |-> CHOOSE x \in S : Preceding(S, rank, x) = k - 1]
  BY DEF Sorted
<1> HIDE DEF list, N
<1>4. \A k \in 1 .. N : list[k] \in S /\ Preceding(S, rank, list[k]) = k - 1
  <2> SUFFICES ASSUME NEW k \in 1 .. N
               PROVE  list[k] \in S /\ Preceding(S, rank, list[k]) = k - 1
    OBVIOUS
  <2>1. \E x \in S : Preceding(S, rank, x) = k - 1
    BY <1>1
  <2> QED
    BY <1>3, <2>1
<1>5. \A j, k \in 1 .. N : list[j] = list[k] => j = k
  BY <1>1, <1>4
<1>6. ASSUME NEW x \in S
      PROVE  Preceding(S, rank, x) + 1 \in 1 .. N /\ list[Preceding(S, rank, x) + 1] = x
  <2>1. Preceding(S, rank, x) + 1 \in 1 .. N
    BY <1>1, <1>2
  <2>2. list[Preceding(S, rank, x) + 1] \in S /\ Preceding(S, rank, list[Preceding(S, rank, x) + 1]) = Preceding(S, rank, x)
    BY <1>1, <1>2, <1>4, <2>1
  <2> QED
    BY <1>1, <2>1, <2>2
<1>7. ASSUME NEW x \in S, \A y \in S : rank[x] <= rank[y]
      PROVE  Preceding(S, rank, x) = 0
  <2>1. {y \in S : rank[y] < rank[x]} = {}
    BY <1>7
  <2> QED
    BY <2>1, FS_EmptySet DEF Preceding
<1> QED
  <2>1. \A x \in S : \E k \in 1 .. N : list[k] = x
    BY <1>6
  <2>2. \A x \in S : (\A y \in S : rank[x] <= rank[y]) => 1 \in 1 .. N /\ list[1] = x
    BY <1>6, <1>7
  <2>3. list \in [1 .. N -> S]
    BY <1>3, <1>4, <1>8
  <2> QED
    BY <1>1, <1>5, <2>1, <2>2, <2>3 DEF list, N

\* In a linear order no two members have as many before them.
LEMMA LinearRanks ==
  ASSUME NEW S, IsFiniteSet(S), NEW before \in [S -> SUBSET S],
         \A x, y \in S : x # y => x \in before[y] \/ y \in before[x],
         \A x, y \in S : x \in before[y] => before[x] \subseteq before[y] /\ x \notin before[x]
  PROVE  /\ \A x \in S : Cardinality(before[x]) \in Nat
         /\ \A x, y \in S : Cardinality(before[x]) = Cardinality(before[y]) => x = y
<1>1. \A x \in S : IsFiniteSet(before[x])
  BY FS_Subset
<1>2. \A x \in S : Cardinality(before[x]) \in Nat
  BY <1>1, FS_CardinalityType
<1>3. ASSUME NEW x \in S, NEW y \in S, x \in before[y],
             Cardinality(before[x]) = Cardinality(before[y])
      PROVE  FALSE
  <2>1. before[x] \subseteq before[y] /\ before[x] # before[y]
    BY <1>3
  <2> QED
    BY <1>1, <1>3, <2>1, FS_Subset
<1>4. ASSUME NEW x \in S, NEW y \in S, Cardinality(before[x]) = Cardinality(before[y]), x # y
      PROVE  FALSE
  BY <1>3, <1>4
<1> QED
  BY <1>2, <1>4

\* The first members in an order are different members.
LEMMA FirstOfSorted ==
  ASSUME NEW S, IsFiniteSet(S), NEW rank \in [S -> Int],
         \A x, y \in S : rank[x] = rank[y] => x = y,
         NEW max \in Nat, NEW order, order = Sorted(S, rank),
         NEW found, found = SubSeq(order, 1, IF Len(order) > max THEN max ELSE Len(order))
  PROVE  /\ found \in Seq(S) /\ Len(found) <= max
         /\ \A i, j \in 1 .. Len(found) : found[i] = found[j] => i = j
<1>1. PICK n \in Nat : n = Cardinality(S)
  BY SortedIs
<1>2. /\ order \in [1 .. n -> S]
      /\ \A j, k \in 1 .. n : order[j] = order[k] => j = k
  BY <1>1, SortedIs
<1>3. order \in Seq(S) /\ Len(order) = n
  BY <1>2
<1>4. PICK m : m = IF Len(order) > max THEN max ELSE Len(order)
  OBVIOUS
<1>5. m \in 0 .. n /\ m <= max
  BY <1>3, <1>4
<1>6. found = SubSeq(order, 1, m)
  BY <1>4
<1>7. found \in Seq(S) /\ Len(found) = m /\ \A i \in 1 .. m : found[i] = order[i]
  BY <1>3, <1>5, <1>6
<1> QED
  BY <1>2, <1>5, <1>7

\* Filtering leaves what is in the set, and nothing that was once is twice.
LEMMA OnlyIs ==
  ASSUME NEW T, NEW list \in Seq(T), NEW S
  PROVE  /\ Only(list, S) \in Seq(T)
         /\ Len(Only(list, S)) \in Nat /\ Len(Only(list, S)) <= Len(list)
         /\ \A k \in 1 .. Len(Only(list, S)) :
              Only(list, S)[k] \in S /\ Only(list, S)[k] \in T
         /\ (\A j, k \in 1 .. Len(list) : list[j] = list[k] => j = k) =>
              \A j, k \in 1 .. Len(Only(list, S)) :
                Only(list, S)[j] = Only(list, S)[k] => j = k
<1> DEFINE places == {i \in DOMAIN list : list[i] \in S}
           rank == [i \in places |-> i]
           N == Cardinality(places)
           order == Sorted(places, rank)
           only == Only(list, S)
<1>1. DOMAIN list = 1 .. Len(list) /\ Len(list) \in Nat
  OBVIOUS
<1>2. IsFiniteSet(places) /\ N <= Len(list)
  <2>1. IsFiniteSet(1 .. Len(list)) /\ Cardinality(1 .. Len(list)) = Len(list)
    BY <1>1, FS_Interval
  <2>2. places \in SUBSET (1 .. Len(list))
    BY <1>1
  <2> HIDE DEF places
  <2> QED
    BY <2>1, <2>2, FS_Subset
<1>3. rank \in [places -> Int] /\ \A x, y \in places : rank[x] = rank[y] => x = y
  BY <1>1
<1>4. /\ N \in Nat /\ order \in [1 .. N -> places]
      /\ \A j, k \in 1 .. N : order[j] = order[k] => j = k
  <2> HIDE DEF places, rank
  <2> QED
    BY <1>2, <1>3, SortedIs
<1>5. only = [k \in 1 .. N |-> list[order[k]]]
  BY <1>4 DEF Only
<1> HIDE DEF order, only, N
<1>6. \A k \in 1 .. N : order[k] \in 1 .. Len(list) /\ list[order[k]] \in S
  BY <1>1, <1>4
<1>7. \A k \in 1 .. N : only[k] \in S /\ only[k] \in T
  <2>1. \A i \in 1 .. Len(list) : list[i] \in T
    BY ElementOfSeq
  <2> QED
    BY <1>5, <1>6, <2>1
<1>8. only \in Seq(T) /\ Len(only) = N
  BY <1>4, <1>5, <1>7
<1>9. ASSUME \A j, k \in 1 .. Len(list) : list[j] = list[k] => j = k,
             NEW j \in 1 .. N, NEW k \in 1 .. N, only[j] = only[k]
      PROVE  j = k
  BY <1>4, <1>5, <1>6, <1>9
<1> QED
  BY <1>1, <1>2, <1>4, <1>7, <1>8, <1>9 DEF only

\* Sorting puts members in the order of their ranks.
LEMMA SortedInOrder ==
  ASSUME NEW S, IsFiniteSet(S), NEW rank \in [S -> Int],
         \A x, y \in S : rank[x] = rank[y] => x = y,
         NEW j \in 1 .. Cardinality(S), NEW k \in 1 .. Cardinality(S), j < k
  PROVE  rank[Sorted(S, rank)[j]] < rank[Sorted(S, rank)[k]]
<1> DEFINE x == Sorted(S, rank)[j]
           y == Sorted(S, rank)[k]
<1>1. /\ Cardinality(S) \in Nat
      /\ \A i \in 0 .. Cardinality(S) - 1 : \E z \in S : Preceding(S, rank, z) = i
  BY PlacesAreFilled
<1>2. /\ x = CHOOSE z \in S : Preceding(S, rank, z) = j - 1
      /\ y = CHOOSE z \in S : Preceding(S, rank, z) = k - 1
  BY DEF Sorted
<1>3. j - 1 \in 0 .. Cardinality(S) - 1 /\ k - 1 \in 0 .. Cardinality(S) - 1
  BY <1>1
<1> HIDE DEF x, y
<1>4. /\ x \in S /\ Preceding(S, rank, x) = j - 1
      /\ y \in S /\ Preceding(S, rank, y) = k - 1
  BY <1>1, <1>2, <1>3
<1>5. x # y /\ rank[x] \in Int /\ rank[y] \in Int
  BY <1>1, <1>4
<1>6. ~(rank[y] < rank[x])
  <2>1. rank[y] < rank[x] => Preceding(S, rank, y) < Preceding(S, rank, x)
    BY <1>4, PlacesDiffer
  <2> QED
    BY <1>1, <1>4, <2>1
<1>7. rank[x] # rank[y]
  BY <1>4, <1>5
<1>8. rank[x] < rank[y]
  BY <1>5, <1>6, <1>7
<1> QED
  BY <1>8 DEF x, y

\* A list of those entries of another that are in a set, in their order: entry a
\* is entry m[a] of the other list.
Selected(only, list, S, m) ==
  /\ m \in [1 .. Len(only) -> 1 .. Len(list)]
  /\ \A a, b \in 1 .. Len(only) : a < b => m[a] < m[b]
  /\ \A a \in 1 .. Len(only) : only[a] = list[m[a]] /\ list[m[a]] \in S
  /\ \A i \in 1 .. Len(list) : list[i] \in S => \E a \in 1 .. Len(only) : m[a] = i

\* Filtering keeps the order.
LEMMA OnlySelects ==
  ASSUME NEW T, NEW list \in Seq(T), NEW S
  PROVE  \E m : Selected(Only(list, S), list, S, m)
<1> DEFINE places == {i \in DOMAIN list : list[i] \in S}
           rank == [i \in places |-> i]
           N == Cardinality(places)
           m == Sorted(places, rank)
           only == Only(list, S)
<1>1. DOMAIN list = 1 .. Len(list) /\ Len(list) \in Nat
  OBVIOUS
<1>2. IsFiniteSet(places)
  <2>1. IsFiniteSet(1 .. Len(list))
    BY <1>1, FS_Interval
  <2>2. places \in SUBSET (1 .. Len(list))
    BY <1>1
  <2> HIDE DEF places
  <2> QED
    BY <2>1, <2>2, FS_Subset
<1>3. rank \in [places -> Int] /\ \A x, y \in places : rank[x] = rank[y] => x = y
  BY <1>1
<1>4. \A x \in places : rank[x] = x
  OBVIOUS
<1>5. /\ N \in Nat /\ m \in [1 .. N -> places]
      /\ \A x \in places : \E k \in 1 .. N : m[k] = x
  <2> HIDE DEF places, rank
  <2> QED
    BY <1>2, <1>3, SortedIs
<1>6. \A j, k \in 1 .. N : j < k => rank[m[j]] < rank[m[k]]
  <2> HIDE DEF places, rank
  <2> QED
    BY <1>2, <1>3, SortedInOrder
<1>7. only = [k \in 1 .. N |-> list[m[k]]]
  BY <1>5 DEF Only
<1>8. \A i : i \in places <=> i \in 1 .. Len(list) /\ list[i] \in S
  BY <1>1
<1> HIDE DEF m, only, N, places, rank
<1>9. Len(only) = N
  BY <1>5, <1>7
<1>10. \A k \in 1 .. N : only[k] = list[m[k]] /\ m[k] \in 1 .. Len(list) /\ list[m[k]] \in S
  BY <1>5, <1>7, <1>8
<1>11. m \in [1 .. N -> 1 .. Len(list)]
  BY <1>5, <1>8
<1>12. \A j, k \in 1 .. N : j < k => m[j] < m[k]
  BY <1>4, <1>5, <1>6
<1>13. \A i \in 1 .. Len(list) : list[i] \in S => \E k \in 1 .. N : m[k] = i
  BY <1>5, <1>8
<1>14. Selected(only, list, S, m)
  BY <1>9, <1>10, <1>11, <1>12, <1>13 DEF Selected
<1> QED
  BY <1>14 DEF only

\* There is a least one among some numbers.
LEMMA LeastIs ==
  ASSUME NEW S \in SUBSET Nat, S # {}
  PROVE  \E i \in S : \A j \in S : i <= j
<1>1. PICK i \in S : \A j \in S : <<j, i>> \notin OpToRel(<, Nat)
  BY NatLessThanWellFounded, WFMin
<1>2. \A j, k \in Nat : <<j, k>> \in OpToRel(<, Nat) <=> j < k
  BY DEF OpToRel
<1>3. \A j \in S : ~(j < i)
  BY <1>1, <1>2
<1> QED
  BY <1>3
-----------------------------------------------------------------------------
\* How many entries of a list are in a set.
Occurrences(list, S) == Cardinality({i \in 1 .. Len(list) : list[i] \in S})

\* Moving a set of numbers along leaves as many of them.
LEMMA ShiftedSet ==
  ASSUME NEW A \in SUBSET Int, IsFiniteSet(A), NEW k \in Int,
         NEW B, B = {i \in Int : i - k \in A}
  PROVE  IsFiniteSet(B) /\ Cardinality(B) = Cardinality(A)
<1> DEFINE f == [i \in A |-> i + k]
<1>1. f \in Bijection(A, B)
  <2>1. f \in [A -> B]
    OBVIOUS
  <2>2. \A i, j \in A : f[i] = f[j] => i = j
    OBVIOUS
  <2>3. \A j \in B : \E i \in A : f[i] = j
    <3> SUFFICES ASSUME NEW j \in B
                 PROVE  \E i \in A : f[i] = j
      OBVIOUS
    <3>1. j - k \in A /\ f[j - k] = j
      OBVIOUS
    <3> QED
      BY <3>1
  <2> QED
    BY <2>1, <2>2, <2>3 DEF Bijection, Injection, IsInjective, Surjection
<1> QED
  BY <1>1, FS_Bijection DEF ExistsBijection

\* The count is a number, positive when there is an entry to count.
LEMMA OccurrencesAre ==
  ASSUME NEW T, NEW list \in Seq(T), NEW S
  PROVE  /\ IsFiniteSet({i \in 1 .. Len(list) : list[i] \in S})
         /\ Occurrences(list, S) \in Nat
         /\ (\E i \in 1 .. Len(list) : list[i] \in S) => Occurrences(list, S) >= 1
         /\ list = <<>> => Occurrences(list, S) = 0
<1> DEFINE P == {i \in 1 .. Len(list) : list[i] \in S}
<1>1. IsFiniteSet(1 .. Len(list))
  BY FS_Interval
<1>2. P \in SUBSET (1 .. Len(list))
  OBVIOUS
<1>3. IsFiniteSet(P) /\ Cardinality(P) \in Nat
  BY <1>1, <1>2, FS_Subset, FS_CardinalityType
<1>4. Cardinality(P) = 0 <=> P = {}
  BY <1>3, FS_EmptySet
<1>5. list = <<>> => P = {}
  OBVIOUS
<1> QED
  BY <1>3, <1>4, <1>5 DEF Occurrences

\* The entries of a list are those of its beginning and those of its rest.
LEMMA OccurrencesSplit ==
  ASSUME NEW T, NEW list \in Seq(T), NEW S, NEW n \in 0 .. Len(list)
  PROVE  Occurrences(list, S) =
           Occurrences(SubSeq(list, 1, n), S)
             + Occurrences(SubSeq(list, n + 1, Len(list)), S)
<1> DEFINE one == SubSeq(list, 1, n)
           two == SubSeq(list, n + 1, Len(list))
           P == {i \in 1 .. Len(list) : list[i] \in S}
           A == {i \in 1 .. Len(one) : one[i] \in S}
           B == {i \in 1 .. Len(two) : two[i] \in S}
           C == {i \in Int : i - n \in B}
<1>1. /\ one \in Seq(T) /\ Len(one) = n
      /\ \A i \in 1 .. n : one[i] = list[i]
  OBVIOUS
<1>2. /\ two \in Seq(T) /\ Len(two) = Len(list) - n
      /\ \A i \in 1 .. Len(list) - n : two[i] = list[n + i]
  OBVIOUS
<1> HIDE DEF one, two
<1>3. IsFiniteSet(A) /\ Cardinality(A) = Occurrences(one, S)
  BY <1>1, OccurrencesAre DEF Occurrences
<1>4. IsFiniteSet(B) /\ Cardinality(B) = Occurrences(two, S)
  BY <1>2, OccurrencesAre DEF Occurrences
<1>5. B \in SUBSET Int
  OBVIOUS
<1>6. IsFiniteSet(C) /\ Cardinality(C) = Cardinality(B)
  <2> HIDE DEF B
  <2> QED
    BY <1>4, <1>5, ShiftedSet
<1>7. A \intersect C = {}
  BY <1>1, <1>2
<1>8. P = A \union C
  <2>1. \A i \in P : i \in A \/ i \in C
    <3> SUFFICES ASSUME NEW i \in P, i > n
                 PROVE  i \in C
      BY <1>1
    <3>1. i - n \in 1 .. Len(list) - n /\ two[i - n] = list[n + (i - n)]
      BY <1>2
    <3> QED
      BY <1>2, <3>1
  <2>2. \A i \in A : i \in P
    BY <1>1
  <2>3. \A i \in C : i \in P
    <3> SUFFICES ASSUME NEW i \in C
                 PROVE  i \in P
      OBVIOUS
    <3>1. i - n \in 1 .. Len(list) - n /\ two[i - n] = list[n + (i - n)]
      BY <1>2
    <3> QED
      BY <1>2, <3>1
  <2> QED
    BY <2>1, <2>2, <2>3
<1>9. Cardinality(A \union C) = Cardinality(A) + Cardinality(C)
  <2> HIDE DEF A, C
  <2>1. Cardinality(A \intersect C) = 0
    BY <1>7, FS_EmptySet
  <2>2. Cardinality(A) \in Nat /\ Cardinality(C) \in Nat
    BY <1>3, <1>6, FS_CardinalityType
  <2>3. Cardinality(A \union C) =
          Cardinality(A) + Cardinality(C) - Cardinality(A \intersect C)
    BY <1>3, <1>6, FS_Union
  <2> QED
    BY <2>1, <2>2, <2>3
<1> QED
  BY <1>3, <1>4, <1>6, <1>8, <1>9 DEF Occurrences, one, two

\* A list of one entry, and of none.
LEMMA OccurrencesOfOne ==
  ASSUME NEW x, NEW S
  PROVE  /\ Occurrences(<<>>, S) = 0
         /\ Occurrences(<<x>>, S) = IF x \in S THEN 1 ELSE 0
<1>1. {i \in 1 .. Len(<<>>) : <<>>[i] \in S} = {}
  OBVIOUS
<1>2. CASE x \in S
  <2>1. {i \in 1 .. Len(<<x>>) : <<x>>[i] \in S} = {1}
    BY <1>2
  <2> QED
    BY <1>1, <1>2, <2>1, FS_EmptySet, FS_Singleton DEF Occurrences
<1>3. CASE x \notin S
  <2>1. {i \in 1 .. Len(<<x>>) : <<x>>[i] \in S} = {}
    BY <1>3
  <2> QED
    BY <1>1, <1>3, <2>1, FS_EmptySet DEF Occurrences
<1> QED
  BY <1>2, <1>3

\* A list with one entry.
LEMMA ListOfOne ==
  ASSUME NEW T, NEW list \in Seq(T), Len(list) = 1, NEW x \in T, list[1] = x
  PROVE  list = <<x>>
<1>1. PICK one : one = <<x>>
  OBVIOUS
<1>2. one \in Seq(T) /\ Len(one) = 1 /\ one[1] = x
  BY <1>1
<1>3. \A i \in 1 .. Len(list) : list[i] = one[i]
  BY <1>2
<1>4. list = one
  BY <1>2, <1>3, SeqEqual
<1> QED
  BY <1>1, <1>4

\* A list with two entries.
LEMMA ListOfTwo ==
  ASSUME NEW T, NEW x \in T, NEW y \in T
  PROVE  Append(<<x>>, y) = <<x, y>>
<1>1. PICK one, two : one = <<x>> /\ two = <<x, y>>
  OBVIOUS
<1>2. one \in Seq(T) /\ Len(one) = 1 /\ one[1] = x
  BY <1>1
<1>3. two \in Seq(T) /\ Len(two) = 2 /\ two[1] = x /\ two[2] = y
  BY <1>1
<1>4. PICK more : more = Append(one, y)
  OBVIOUS
<1>5. more \in Seq(T) /\ Len(more) = 2 /\ more[1] = x /\ more[2] = y
  <2>1. one \in Seq(T)
    BY <1>2
  <2>2. /\ Append(one, y) \in Seq(T) /\ Len(Append(one, y)) = Len(one) + 1
        /\ \A i \in 1 .. Len(one) : Append(one, y)[i] = one[i]
        /\ Append(one, y)[Len(one) + 1] = y
    BY <2>1, AppendProperties
  <2> QED
    BY <1>2, <1>4, <2>2
<1>6. \A i \in 1 .. Len(more) : more[i] = two[i]
  BY <1>3, <1>5
<1>7. more = two
  BY <1>3, <1>5, <1>6, SeqEqual
<1> QED
  BY <1>1, <1>4, <1>7

\* What an entry more at the end, and one less at the front, counts for.
LEMMA OccurrencesStep ==
  ASSUME NEW T, NEW list \in Seq(T), NEW S, NEW x \in T
  PROVE  /\ Occurrences(Append(list, x), S) =
              Occurrences(list, S) + (IF x \in S THEN 1 ELSE 0)
         /\ list # <<>> =>
              Occurrences(list, S) =
                (IF Head(list) \in S THEN 1 ELSE 0) + Occurrences(Tail(list), S)
<1>1. Occurrences(Append(list, x), S) =
        Occurrences(list, S) + (IF x \in S THEN 1 ELSE 0)
  <2> DEFINE more == Append(list, x)
             n == Len(list)
  <2>1. /\ more \in Seq(T) /\ n \in 0 .. Len(more)
        /\ SubSeq(more, 1, n) = list /\ SubSeq(more, n + 1, Len(more)) = <<x>>
    <3>1. /\ more \in Seq(T) /\ Len(more) = n + 1 /\ n \in Nat
          /\ more[n + 1] = x /\ \A i \in 1 .. n : more[i] = list[i]
      BY AppendProperties
    <3>2. SubSeq(more, 1, n) = list
      <4> HIDE DEF more
      <4>1. /\ SubSeq(more, 1, n) \in Seq(T) /\ Len(SubSeq(more, 1, n)) = n
            /\ \A i \in 1 .. n : SubSeq(more, 1, n)[i] = list[i]
        BY <3>1
      <4> QED
        BY <4>1, SeqEqual
    <3>3. SubSeq(more, n + 1, Len(more)) = <<x>>
      <4> HIDE DEF more
      <4>1. /\ SubSeq(more, n + 1, Len(more)) \in Seq(T)
            /\ Len(SubSeq(more, n + 1, Len(more))) = 1
            /\ SubSeq(more, n + 1, Len(more))[1] = x
        BY <3>1
      <4> QED
        BY <4>1, ListOfOne, ZenonT(30)
    <3> QED
      BY <3>1, <3>2, <3>3
  <2>2. Occurrences(more, S) = Occurrences(list, S) + Occurrences(<<x>>, S)
    <3> HIDE DEF more, n
    <3> QED
      BY <2>1, OccurrencesSplit
  <2> QED
    BY <2>2, OccurrencesOfOne
<1>2. ASSUME list # <<>>
      PROVE  Occurrences(list, S) =
               (IF Head(list) \in S THEN 1 ELSE 0) + Occurrences(Tail(list), S)
  <2>1. /\ 1 \in 0 .. Len(list)
        /\ SubSeq(list, 1, 1) = <<Head(list)>>
        /\ SubSeq(list, 1 + 1, Len(list)) = Tail(list)
    <3>1. Len(list) \in Nat \ {0} /\ Head(list) = list[1]
      BY <1>2, EmptySeq
    <3>2. /\ SubSeq(list, 1, 1) \in Seq(T) /\ Len(SubSeq(list, 1, 1)) = 1
          /\ SubSeq(list, 1, 1)[1] = list[1]
      BY <3>1
    <3>3. list[1] \in T
      BY <3>1, ElementOfSeq
    <3>4. SubSeq(list, 1, 1) = <<list[1]>>
      BY <3>2, <3>3, ListOfOne
    <3> QED
      BY <1>2, <3>1, <3>4, TailIsSubSeq
  <2>2. Occurrences(list, S) = Occurrences(<<Head(list)>>, S) + Occurrences(Tail(list), S)
    BY <2>1, OccurrencesSplit, ZenonT(30)
  <2> QED
    BY <2>2, OccurrencesOfOne
<1> QED
  BY <1>1, <1>2
=============================================================================
