--------------------------- MODULE DriversProofs ---------------------------
(***************************************************************************)
(* Disks stay with their owners and their memory stays theirs, for every   *)
(* memory map, every set of PCI functions and ports, and every order of    *)
(* calls.                                                                  *)
(***************************************************************************)
EXTENDS Drivers, FiniteSetTheorems, WellFoundedInduction, TLAPS

(* Induction over numbers, without a rule that takes an operator.          *)

(* A set of numbers that is not empty has a least one. *)
LEMMA LeastNatural ==
  ASSUME NEW T, T \subseteq Nat, T # {}
  PROVE  \E x \in T : \A y \in T : x <= y
<1> DEFINE R == OpToRel(<, Nat)
<1>1. PICK x \in T : \A y \in T : ~ (<<y, x>> \in R)
  BY NatLessThanWellFounded, WFMin, Zenon
<1>2. \A y \in Nat : y < x => <<y, x>> \in R
  BY DEF OpToRel
<1> HIDE DEF R
<1>3. ASSUME NEW y \in T PROVE x <= y
  <2>1. ~(y < x)
    BY <1>1, <1>2
  <2> QED BY <2>1
<1> QED BY <1>3

(* Induction up to n: a set with 0, and with the successor of each of its  *)
(* members. *)
LEMMA StepByStep ==
  ASSUME NEW n \in Nat, NEW S, 0 \in S, \A i \in 1..n : i - 1 \in S => i \in S
  PROVE  0..n \subseteq S
<1> DEFINE T == (0..n) \ S
<1> SUFFICES ASSUME T # {} PROVE FALSE
  OBVIOUS
<1>1. T \subseteq Nat /\ T \subseteq 0..n
  OBVIOUS
<1>2. PICK k \in T : \A y \in T : k <= y
  <2> HIDE DEF T
  <2> QED BY <1>1, LeastNatural, Zenon
<1>3. k # 0
  BY <1>2
<1>4. k \in 1..n /\ k - 1 \in 0..n /\ k - 1 \notin T
  BY <1>1, <1>2, <1>3
<1> QED BY <1>2, <1>4

(* The sequences of values that begin with v and go on with the functions. *)
Chains(n, V, v, F) ==
  {g \in [0..n -> V] : g[0] = v /\ \A i \in 1..n : g[i] = F[i][g[i - 1]]}

(* There is always one. *)
LEMMA ChainExists ==
  ASSUME NEW n \in Nat, NEW V, NEW v \in V, NEW F \in [1..n -> [V -> V]]
  PROVE  Chains(n, V, v, F) # {}
<1> DEFINE S == {k \in 0..n : Chains(k, V, v, F) # {}}
<1>1. [i \in 0..0 |-> v] \in Chains(0, V, v, F)
  BY DEF Chains
<1>2. ASSUME NEW k \in 1..n, Chains(k - 1, V, v, F) # {} PROVE Chains(k, V, v, F) # {}
  <2>1. PICK g : g \in Chains(k - 1, V, v, F)
    BY <1>2
  <2>2. g \in [0..(k - 1) -> V] /\ g[0] = v /\ \A i \in 1..(k - 1) : g[i] = F[i][g[i - 1]]
    BY <2>1 DEF Chains
  <2> DEFINE h == [i \in 0..k |-> IF i = k THEN F[k][g[k - 1]] ELSE g[i]]
  <2>3. h \in [0..k -> V]
    BY <2>2
  <2>4. h[0] = v /\ \A i \in 1..k : h[i] = F[i][h[i - 1]]
    BY <2>2
  <2> QED BY <2>3, <2>4 DEF Chains
<1>3. 0 \in S /\ \A i \in 1..n : i - 1 \in S => i \in S
  BY <1>1, <1>2
<1>4. n \in S
  <2> HIDE DEF S
  <2>1. 0..n \subseteq S
    BY <1>3, StepByStep, Zenon
  <2> QED BY <2>1
<1> QED BY <1>4

-----------------------------------------------------------------------------
(* InOrder lists the members of a set of numbers.                          *)
Rising(s, S) ==
  /\ s \in [1..Cardinality(S) -> S]
  /\ \A i, j \in 1..Cardinality(S) : i < j => s[i] < s[j]

LEMMA RisingExists ==
  ASSUME NEW n \in Nat
  PROVE  \A S \in SUBSET (1..n) : IsFiniteSet(S) /\ \E s : Rising(s, S)
<1> DEFINE T == {k \in 0..n : \A S \in SUBSET (1..k) : IsFiniteSet(S) /\ \E s : Rising(s, S)}
<1>1. 0 \in T
  <2>1. ASSUME NEW S \in SUBSET (1..0) PROVE IsFiniteSet(S) /\ \E s : Rising(s, S)
    <3>1. S = {}
      OBVIOUS
    <3>2. IsFiniteSet(S) /\ Cardinality(S) = 0
      BY <3>1, FS_EmptySet
    <3>3. << >> \in [1..0 -> S]
      OBVIOUS
    <3>4. Rising(<< >>, S)
      BY <3>2, <3>3 DEF Rising
    <3> QED BY <3>2, <3>4
  <2> QED BY <2>1
<1>2. ASSUME NEW k \in 1..n, k - 1 \in T PROVE k \in T
  <2>1. ASSUME NEW S \in SUBSET (1..k) PROVE IsFiniteSet(S) /\ \E s : Rising(s, S)
    <3>1. CASE k \notin S
      <4>1. S \in SUBSET (1..(k - 1))
        BY <3>1
      <4> QED BY <1>2, <4>1
    <3>2. CASE k \in S
      <4> DEFINE R == S \ {k}
      <4>1. R \in SUBSET (1..(k - 1)) /\ S = R \cup {k} /\ k \notin R
        BY <3>2
      <4> HIDE DEF R
      <4>2. IsFiniteSet(R) /\ \E s : Rising(s, R)
        BY <1>2, <4>1
      <4>3. PICK r : Rising(r, R)
        BY <4>2
      <4>4. IsFiniteSet(S) /\ Cardinality(S) = Cardinality(R) + 1 /\ Cardinality(R) \in Nat
        BY <4>1, <4>2, FS_AddElement, FS_CardinalityType
      <4> DEFINE m == Cardinality(R)
                 s == [i \in 1..(m + 1) |-> IF i = m + 1 THEN k ELSE r[i]]
      <4>5. m \in Nat /\ Cardinality(S) = m + 1 /\ r \in [1..m -> R]
            /\ \A i, j \in 1..m : i < j => r[i] < r[j]
        BY <4>3, <4>4 DEF Rising
      <4> HIDE DEF m
      <4>6. \A i \in 1..(m + 1) : i # m + 1 => i \in 1..m
        BY <4>5
      <4>7. s \in [1..(m + 1) -> S]
        BY <3>2, <4>1, <4>5, <4>6
      <4>8. ASSUME NEW i \in 1..(m + 1), NEW j \in 1..(m + 1), i < j PROVE s[i] < s[j]
        <5>0. i \in 1..m /\ i # m + 1
          BY <4>5, <4>8
        <5>1. r[i] \in 1..(k - 1) /\ s[i] = r[i] /\ i \in 1..m
          BY <4>1, <4>5, <5>0
        <5> QED BY <4>5, <4>6, <4>8, <5>1
      <4>9. Rising(s, S)
        BY <4>5, <4>7, <4>8 DEF Rising
      <4> QED BY <4>4, <4>9
    <3> QED BY <3>1, <3>2
  <2> QED BY <2>1
<1>3. 0..n \subseteq T
  <2> HIDE DEF T
  <2> QED BY <1>1, <1>2, StepByStep, Zenon
<1> QED BY <1>3

LEMMA OrderFacts ==
  ASSUME NEW n \in Nat, NEW S, S \subseteq 1..n
  PROVE  /\ Cardinality(S) \in Nat
         /\ InOrder(S) \in [1..Cardinality(S) -> S] /\ InOrder(S) \in Seq(S)
         /\ Len(InOrder(S)) = Cardinality(S)
         /\ \A i, j \in 1..Cardinality(S) : InOrder(S)[i] = InOrder(S)[j] => i = j
<1>1. IsFiniteSet(S) /\ \E s : Rising(s, S)
  BY RisingExists
<1>2. Cardinality(S) \in Nat
  BY <1>1, FS_CardinalityType
<1>3. Rising(InOrder(S), S)
  BY <1>1 DEF Rising, InOrder
<1>4. /\ InOrder(S) \in [1..Cardinality(S) -> S]
      /\ \A i, j \in 1..Cardinality(S) : i < j => InOrder(S)[i] < InOrder(S)[j]
  BY <1>3 DEF Rising
<1> DEFINE o == InOrder(S)
           c == Cardinality(S)
<1> HIDE DEF o, c
<1>5. o \in [1..c -> S] /\ c \in Nat /\ \A i, j \in 1..c : i < j => o[i] < o[j]
  BY <1>2, <1>4 DEF o, c
<1>6. o \in Seq(S) /\ Len(o) = c
  BY <1>5
<1>7. \A i, j \in 1..c : o[i] = o[j] => i = j
  <2>1. ASSUME NEW i \in 1..c, NEW j \in 1..c, o[i] = o[j], i < j PROVE FALSE
    <3>1. o[i] < o[j] /\ o[i] \in 1..n /\ o[j] \in 1..n
      BY <1>5, <2>1
    <3> QED BY <2>1, <3>1
  <2>2. ASSUME NEW i \in 1..c, NEW j \in 1..c, o[i] = o[j] PROVE i = j
    <3>1. ~(i < j) /\ ~(j < i)
      BY <2>1, <2>2
    <3> QED BY <3>1
  <2> QED BY <2>2
<1> QED BY <1>5, <1>6, <1>7 DEF o, c

-----------------------------------------------------------------------------
(* Frames.  No two usable regions of the map that init_from_raw leaves     *)
(* reach into one page that is handed out.                                 *)
MapEntry == [base : Nat, length : Nat, type : Nat]

MapOk(m) ==
  /\ m \in Seq(MapEntry)
  /\ \A i, j \in 1..Len(m) : i # j /\ Handed(m[i]) /\ Handed(m[j]) =>
       \/ PageUp(End(m[i])) <= PageDown(Start(m[j]))
       \/ PageUp(End(m[j])) <= PageDown(Start(m[i]))

LEMMA RegionsOk ==
  ASSUME NEW raw \in MemoryMaps
  PROVE  MapOk(Regions(raw))
<1> DEFINE S == {i \in 1..Len(raw) : Present(raw[i])}
           o == InOrder(S)
           c == Cardinality(S)
           n == IF c < MaxRegions THEN c ELSE MaxRegions
           m == [i \in 1..n |-> raw[o[i]]]
<1>1. raw \in Seq(MapEntry) /\ Len(raw) \in Nat /\ MaxRegions \in Nat
  BY MapAssumption DEF MapEntry
<1>2. /\ c \in Nat /\ o \in [1..c -> S] /\ Len(o) = c
      /\ \A i, j \in 1..c : o[i] = o[j] => i = j
  BY <1>1, OrderFacts
<1>3. Regions(raw) = m
  BY <1>2 DEF Regions
<1> HIDE DEF c, o
<1>4. n \in Nat /\ 1..n \subseteq 1..c
  BY <1>1, <1>2
<1> HIDE DEF n
<1>5. /\ \A i \in 1..n : o[i] \in 1..Len(raw)
      /\ \A i, j \in 1..n : i # j => o[i] # o[j]
  BY <1>2, <1>4
<1>6. \A i \in 1..Len(raw) : raw[i] \in MapEntry
  BY <1>1
<1>7. m \in [1..n -> MapEntry]
  BY <1>5, <1>6
<1>8. m \in Seq(MapEntry) /\ Len(m) = n
  BY <1>4, <1>7
<1>9. \A i \in 1..n : m[i] = raw[o[i]]
  OBVIOUS
<1>10. \A i, j \in 1..Len(raw) : i # j /\ Handed(raw[i]) /\ Handed(raw[j]) =>
         \/ PageUp(End(raw[i])) <= PageDown(Start(raw[j]))
         \/ PageUp(End(raw[j])) <= PageDown(Start(raw[i]))
  BY MapAssumption, Zenon
<1> HIDE DEF m, S
<1>11. ASSUME NEW i \in 1..n, NEW j \in 1..n, i # j, Handed(m[i]), Handed(m[j])
       PROVE  \/ PageUp(End(m[i])) <= PageDown(Start(m[j]))
              \/ PageUp(End(m[j])) <= PageDown(Start(m[i]))
  <2>1. o[i] \in 1..Len(raw) /\ o[j] \in 1..Len(raw) /\ o[i] # o[j]
    BY <1>5, <1>11, Zenon
  <2>2. m[i] = raw[o[i]] /\ m[j] = raw[o[j]]
    BY <1>9
  <2> QED BY <1>10, <1>11, <2>1, <2>2, Zenon
<1>12. \A i, j \in 1..Len(m) : i # j /\ Handed(m[i]) /\ Handed(m[j]) =>
         \/ PageUp(End(m[i])) <= PageDown(Start(m[j]))
         \/ PageUp(End(m[j])) <= PageDown(Start(m[i]))
  BY <1>8, <1>11, Zenon
<1>13. MapOk(m)
  BY <1>8, <1>12, Zenon DEF MapOk
<1> QED BY <1>3, <1>13, Zenon DEF m, o, n, c, S

(* usable_frames counts the frames of one region after another. *)
LEMMA BeforeFacts ==
  ASSUME MapOk(memory_map)
  PROVE  /\ Len(memory_map) \in Nat /\ Before[0] = 0
         /\ \A i \in 1..Len(memory_map) : FrameCount(memory_map[i]) \in Nat
         /\ \A i \in 0..Len(memory_map) : Before[i] \in Nat
         /\ \A i \in 1..Len(memory_map) :
              Before[i] = Before[i - 1] + FrameCount(memory_map[i])
<1> DEFINE n == Len(memory_map)
           C(i) == FrameCount(memory_map[i])
           F == [i \in 1..n |-> [x \in Nat |-> x + C(i)]]
           E(g) == g = [i \in 0..n |-> IF i = 0 THEN 0 ELSE g[i - 1] + C(i)]
           u == CHOOSE g : E(g)
           S == {i \in 0..n : u[i] \in Nat}
<1>1. Before = u
  BY Zenon DEF Before
<1>2. n \in Nat /\ 0 \in Nat
  BY DEF MapOk
<1>3. ASSUME NEW i \in 1..n PROVE C(i) \in Nat
  <2>1. memory_map[i] \in MapEntry
    BY DEF MapOk
  <2> DEFINE r == memory_map[i]
  <2>2. Start(r) \in Nat /\ End(r) \in Nat /\ PageSize \in Nat \ {0}
    BY <2>1, MapAssumption DEF MapEntry, Start, End
  <2> HIDE DEF r
  <2>3. FrameCount(r) \in Nat
    <3>1. CASE ~Handed(r)
      BY <3>1 DEF FrameCount
    <3>2. CASE Handed(r)
      <4>1. \A a \in Nat : a \div PageSize \in Nat
        BY <2>2
      <4>2. End(r) - Start(r) + PageSize - 1 \in Nat
        BY <2>2, <3>2 DEF Handed
      <4>3. FrameCount(r) = (End(r) - Start(r) + PageSize - 1) \div PageSize
        BY <3>2, Zenon DEF FrameCount
      <4> QED BY <4>1, <4>2, <4>3
    <3> QED BY <3>1, <3>2
  <2> QED BY <2>3 DEF r
<1> HIDE DEF n, C
<1>4. \A i \in 1..n : \A x \in Nat : x + C(i) \in Nat
  BY <1>3
<1>5. F \in [1..n -> [Nat -> Nat]]
  BY <1>4
<1>6. PICK g \in [0..n -> Nat] : g[0] = 0 /\ \A i \in 1..n : g[i] = F[i][g[i - 1]]
  <2> DEFINE V == Nat
             v == 0
  <2>1. v \in V /\ F \in [1..n -> [V -> V]]
    BY <1>2, <1>5
  <2> HIDE DEF F, V, v
  <2>2. Chains(n, V, v, F) # {}
    BY <1>2, <2>1, ChainExists, Zenon
  <2> QED BY <2>2 DEF V, v, Chains
<1>7. \A i \in 1..n : g[i] = g[i - 1] + C(i)
  <2>1. \A i \in 1..n : g[i - 1] \in Nat
    BY <1>2, <1>6
  <2> QED BY <1>6, <2>1
<1>8. E(g)
  BY <1>2, <1>6, <1>7
<1>9. E(u)
  BY <1>8, Zenon
<1> HIDE DEF u
<1>10. u[0] = 0 /\ \A i \in 1..n : u[i] = u[i - 1] + C(i)
  <2> HIDE DEF F, S
  <2>1. \A i \in 0..n : u[i] = IF i = 0 THEN 0 ELSE u[i - 1] + C(i)
    BY <1>9, Zenon
  <2>2. 0 \in 0..n /\ \A i \in 1..n : i \in 0..n /\ i # 0
    BY <1>2
  <2> QED BY <2>1, <2>2
<1>11. 0 \in S /\ \A i \in 1..n : i - 1 \in S => i \in S
  <2>1. 0 \in S
    BY <1>2, <1>10
  <2>2. ASSUME NEW i \in 1..n, i - 1 \in S PROVE i \in S
    <3>1. u[i - 1] \in Nat
      BY <2>2
    <3>2. u[i] \in Nat
      BY <1>4, <1>10, <3>1
    <3> QED BY <1>2, <3>2
  <2> QED BY <2>1, <2>2
<1>12. 0..n \subseteq S
  <2> HIDE DEF S
  <2> QED BY <1>2, <1>11, StepByStep, Zenon
<1>13. \A i \in 0..n : u[i] \in Nat
  BY <1>12
<1> QED BY <1>1, <1>2, <1>3, <1>10, <1>13 DEF n, C

(* The count grows with the regions. *)
LEMMA BeforeGrows ==
  ASSUME MapOk(memory_map), NEW i \in 0..Len(memory_map)
  PROVE  \A j \in 0..Len(memory_map) : i <= j => Before[i] <= Before[j]
<1> DEFINE n == Len(memory_map)
           S == {j \in 0..n : i <= j => Before[i] <= Before[j]}
<1>1. /\ n \in Nat
      /\ \A j \in 1..n : FrameCount(memory_map[j]) \in Nat
      /\ \A j \in 0..n : Before[j] \in Nat
      /\ \A j \in 1..n : Before[j] = Before[j - 1] + FrameCount(memory_map[j])
  BY BeforeFacts
<1>2. i \in 0..n
  OBVIOUS
<1> HIDE DEF n
<1>3. 0 \in S
  BY <1>1, <1>2
<1>4. ASSUME NEW j \in 1..n, j - 1 \in S PROVE j \in S
  <2>1. j \in 0..n /\ Before[i] \in Nat /\ Before[j] \in Nat /\ Before[j - 1] <= Before[j]
    BY <1>1, <1>2
  <2>2. CASE i <= j - 1
    <3>1. Before[i] <= Before[j - 1] /\ Before[j - 1] \in Nat
      BY <1>1, <1>4, <2>2
    <3> QED BY <2>1, <3>1
  <2>3. CASE i = j
    BY <2>1, <2>3
  <2>4. CASE i > j
    BY <1>2, <2>1, <2>4
  <2> QED BY <1>1, <1>2, <2>2, <2>3, <2>4
<1>5. 0..n \subseteq S
  <2> HIDE DEF S
  <2> QED BY <1>1, <1>3, <1>4, StepByStep, Zenon
<1> QED BY <1>5 DEF n

(* Multiples of a page. *)
LEMMA Quotient ==
  ASSUME NEW n \in Nat \ {0}, NEW a \in Nat, a % n = 0
  PROVE  \E q \in Nat : a = n * q
  BY SMT

LEMMA MultipleOf ==
  ASSUME NEW n \in Nat \ {0}, NEW q \in Nat
  PROVE  (n * q) % n = 0 /\ n * q \in Nat
  BY SMT

LEMMA MultiplesOrdered ==
  ASSUME NEW n \in Nat \ {0}, NEW p \in Nat, NEW q \in Nat
  PROVE  /\ n * p <= n * q <=> p <= q
         /\ n * p + n = n * (p + 1)
  BY SMT

(* The page an address lies in, and the steps of usable_frames. *)
LEMMA Rounding ==
  ASSUME NEW a \in Nat
  PROVE  \E q \in Nat : /\ PageDown(a) = PageSize * q /\ PageSize * q \in Nat
                        /\ PageSize * q <= a /\ a < PageSize * q + PageSize
<1> DEFINE P == PageSize
           q == a \div P
<1>1. P \in Nat \ {0}
  BY MapAssumption
<1>2. PageDown(a) = a - (a % P)
  BY DEF PageDown
<1> HIDE DEF P
<1>3. q \in Nat /\ a = P * q + (a % P) /\ a % P \in 0..(P - 1)
  BY <1>1
<1>4. P * q \in Nat
  BY <1>1, <1>3, MultipleOf
<1> HIDE DEF q
<1> DEFINE m == P * q
           v == a % P
<1>5. PageDown(a) = m /\ m <= a /\ a < m + P
  <2>1. PageDown(a) = a - v /\ a = m + v /\ v \in 0..(P - 1) /\ m \in Nat
    BY <1>2, <1>3, <1>4
  <2> HIDE DEF m, v
  <2> QED BY <1>1, <2>1
<1> QED BY <1>3, <1>4, <1>5 DEF P

LEMMA SamePage ==
  ASSUME NEW n \in Nat \ {0}, NEW a \in Nat, NEW p \in Nat, NEW q \in Nat,
         n * p <= a, a < n * p + n, n * q <= a, a < n * q + n
  PROVE  p = q
<1> DEFINE m == n * p
           k == n * q
<1>1. m \in Nat /\ k \in Nat
  BY MultipleOf
<1>2. m + n = n * (p + 1) /\ k + n = n * (q + 1) /\ p + 1 \in Nat /\ q + 1 \in Nat
  BY MultiplesOrdered
<1>3. (n * (p + 1) <= k <=> p + 1 <= q) /\ (n * (q + 1) <= m <=> q + 1 <= p)
  BY <1>2, MultiplesOrdered
<1>4. (m + n <= k <=> p + 1 <= q) /\ (k + n <= m <=> q + 1 <= p)
  BY <1>2, <1>3
<1>5. m <= a /\ a < m + n /\ k <= a /\ a < k + n
  OBVIOUS
<1> HIDE DEF m, k
<1>6. ~(m + n <= k) /\ ~(k + n <= m)
  BY <1>1, <1>5
<1> QED BY <1>4, <1>6

LEMMA CountBound ==
  ASSUME NEW n \in Nat \ {0}, NEW d \in Nat, NEW x \in Nat, x < (d + n - 1) \div n
  PROVE  n * x < d
<1> DEFINE c == (d + n - 1) \div n
<1>1. d + n - 1 \in Nat
  OBVIOUS
<1>2. c \in Nat /\ n * c <= d + n - 1
  BY <1>1
<1>3. x + 1 \in Nat /\ x + 1 <= c
  BY <1>2
<1> HIDE DEF c
<1>4. n * (x + 1) <= n * c /\ n * x + n = n * (x + 1)
  BY <1>2, <1>3, MultiplesOrdered
<1>5. n * x \in Nat /\ n * c \in Nat
  BY <1>2, MultipleOf
<1> DEFINE u == n * x
           w == n * c
<1>6. u \in Nat /\ w \in Nat /\ u + n <= w /\ w <= d + n - 1
  BY <1>2, <1>4, <1>5
<1>7. u < d
  <2> HIDE DEF u, w
  <2> QED BY <1>6
<1> QED BY <1>7

(* The frames of a region, by their number in it. *)
LEMMA RegionFrames ==
  ASSUME NEW r \in MapEntry, NEW x \in Nat, x < FrameCount(r)
  PROVE  LET a == PageDown(Start(r) + x * PageSize)
         IN  /\ a \in Nat /\ a >= ALLOC_START /\ Handed(r)
             /\ a = PageDown(Start(r)) + PageSize * x /\ PageDown(Start(r)) \in Nat
             /\ PageDown(Start(r)) <= a /\ a + PageSize <= PageUp(End(r))
<1> DEFINE P == PageSize
           s == Start(r)
           e == End(r)
           y == P * x
           z == s + x * P
<1>1. P \in Nat \ {0} /\ ALLOC_START \in Nat /\ ALLOC_START % P = 0
  BY MapAssumption
<1>2. s \in Nat /\ e \in Nat /\ s >= ALLOC_START
  BY <1>1 DEF Start, End, MapEntry
<1>3. Handed(r)
  <2>1. 0 \in Nat /\ ~(x < 0)
    OBVIOUS
  <2> QED BY <2>1, Zenon DEF FrameCount
<1>4. s < e /\ FrameCount(r) = (e - s + P - 1) \div P
  BY <1>3 DEF Handed, FrameCount
<1>5. y < e - s
  <2> HIDE DEF s, e, P
  <2>1. e - s \in Nat
    BY <1>2, <1>4
  <2> QED BY <1>1, <1>4, <2>1, CountBound
<1>6. y \in Nat /\ z = s + y /\ z \in Nat
  BY <1>1, <1>2, MultipleOf
<1>7. PICK u \in Nat : PageDown(s) = P * u /\ P * u \in Nat /\ P * u <= s /\ s < P * u + P
  BY <1>2, Rounding
<1>8. PICK v \in Nat : PageDown(z) = P * v /\ P * v \in Nat /\ P * v <= z /\ z < P * v + P
  BY <1>6, Rounding
<1>9. e + P - 1 \in Nat
  BY <1>1, <1>2
<1>10. PICK w \in Nat : /\ PageUp(e) = P * w /\ P * w \in Nat
                        /\ P * w <= e + P - 1 /\ e + P - 1 < P * w + P
  BY <1>9, Rounding DEF PageUp
<1>11. PICK t \in Nat : ALLOC_START = P * t
  BY <1>1, Quotient
<1> HIDE DEF P, s, e, z, y
<1>12. P * (u + x) = P * u + y /\ u + x \in Nat
  BY <1>1 DEF y
<1>13. v = u + x
  <2> DEFINE m == u + x
  <2>1. P * m <= z /\ z < P * m + P /\ m \in Nat
    BY <1>1, <1>2, <1>6, <1>7, <1>12
  <2> HIDE DEF m
  <2>2. v = m
    BY <1>1, <1>6, <1>8, <2>1, SamePage
  <2> QED BY <2>2 DEF m
<1>14. PageDown(z) = PageDown(s) + y
  BY <1>7, <1>8, <1>12, <1>13
<1>15. P * t <= P * u
  <2>1. P * u + P = P * (u + 1) /\ u + 1 \in Nat
    BY <1>1, MultiplesOrdered
  <2>2. P * (u + 1) <= P * t <=> u + 1 <= t
    BY <1>1, <2>1, MultiplesOrdered
  <2>3. P * t <= P * u <=> t <= u
    BY <1>1, MultiplesOrdered
  <2>4. ~(P * (u + 1) <= P * t)
    BY <1>1, <1>2, <1>7, <1>11, <2>1
  <2> QED BY <2>2, <2>3, <2>4
<1>16. P * v + P <= P * w
  <2>1. P * v + P = P * (v + 1) /\ v + 1 \in Nat /\ P * w + P = P * (w + 1) /\ w + 1 \in Nat
    BY <1>1, MultiplesOrdered
  <2>2. P * (w + 1) <= P * (v + 1) <=> w + 1 <= v + 1
    BY <1>1, <2>1, MultiplesOrdered
  <2>3. P * (v + 1) <= P * w <=> v + 1 <= w
    BY <1>1, <2>1, MultiplesOrdered
  <2>4. P * v + P < P * w + P
    BY <1>1, <1>2, <1>5, <1>6, <1>8, <1>10
  <2>5. ~(P * (w + 1) <= P * (v + 1))
    BY <1>1, <1>8, <1>10, <2>1, <2>4
  <2> QED BY <2>1, <2>2, <2>3, <2>5
<1>17. /\ PageDown(z) \in Nat /\ PageDown(z) >= ALLOC_START /\ PageDown(s) \in Nat
       /\ PageDown(s) <= PageDown(z) /\ PageDown(z) + P <= PageUp(e)
  BY <1>1, <1>6, <1>7, <1>8, <1>10, <1>11, <1>14, <1>15, <1>16
<1> QED BY <1>3, <1>14, <1>17 DEF P, s, e, y, z

(* The k-th frame nth yields is a page some usable region reaches into,    *)
(* and no two numbers yield the same. *)
IsFrameOf(k, i) ==
  LET r == memory_map[i]
      x == k - Before[i - 1]
  IN  /\ r \in MapEntry /\ Handed(r) /\ x \in Nat /\ Before[i - 1] \in Nat
      /\ FrameAt(k) = PageDown(Start(r)) + PageSize * x /\ PageDown(Start(r)) \in Nat
      /\ FrameAt(k) \in Nat /\ FrameAt(k) >= ALLOC_START
      /\ PageDown(Start(r)) <= FrameAt(k) /\ FrameAt(k) + PageSize <= PageUp(End(r))

LEMMA FrameFound ==
  ASSUME MapOk(memory_map), NEW k \in 0..(Total - 1)
  PROVE  \E i \in 1..Len(memory_map) : IsFrameOf(k, i)
<1> DEFINE n == Len(memory_map)
           b == Before
           In(j) == b[j - 1] <= k /\ k < b[j]
           T == {j \in 0..n : k < b[j]}
<1>1. /\ n \in Nat /\ b[0] = 0
      /\ \A i \in 1..n : FrameCount(memory_map[i]) \in Nat
      /\ \A i \in 0..n : b[i] \in Nat
      /\ \A i \in 1..n : b[i] = b[i - 1] + FrameCount(memory_map[i])
  BY BeforeFacts
<1>2. k \in Nat /\ k < b[n]
  <2>1. Total = b[n] /\ b[n] \in Nat
    BY <1>1 DEF Total
  <2> QED BY <2>1
<1> HIDE DEF n, b
<1>3. T \subseteq Nat /\ T # {} /\ T \subseteq 0..n
  BY <1>1, <1>2
<1>4. PICK j \in T : \A y \in T : j <= y
  <2> HIDE DEF T
  <2> QED BY <1>3, LeastNatural, Zenon
<1>5. j \in 1..n /\ In(j)
  <2>1. j # 0 /\ j \in 0..n
    BY <1>1, <1>2, <1>4
  <2>2. j - 1 \in 0..n /\ j - 1 \notin T
    BY <1>1, <1>4, <2>1
  <2> QED BY <1>1, <1>2, <1>4, <2>1, <2>2
<1> DEFINE i == CHOOSE c \in 1..n : In(c)
<1>6. i \in 1..n /\ In(i)
  <2> HIDE DEF In
  <2> QED BY <1>5
<1>7. FrameAt(k) = PageDown(Start(memory_map[i]) + (k - b[i - 1]) * PageSize)
  BY Zenon DEF FrameAt, n, b
<1> HIDE DEF i
<1> DEFINE x == k - b[i - 1]
           r == memory_map[i]
<1>8. b[i - 1] \in Nat /\ b[i] = b[i - 1] + FrameCount(r) /\ FrameCount(r) \in Nat
  BY <1>1, <1>6
<1>9. x \in Nat /\ x < FrameCount(r)
  BY <1>2, <1>6, <1>8
<1>10. r \in MapEntry
  BY <1>6 DEF MapOk, n
<1>11. LET a == PageDown(Start(r) + x * PageSize)
       IN  /\ a \in Nat /\ a >= ALLOC_START /\ Handed(r)
           /\ a = PageDown(Start(r)) + PageSize * x /\ PageDown(Start(r)) \in Nat
           /\ PageDown(Start(r)) <= a /\ a + PageSize <= PageUp(End(r))
  <2> HIDE DEF x, r
  <2> QED BY <1>9, <1>10, RegionFrames
<1>12. IsFrameOf(k, i)
  BY <1>7, <1>8, <1>9, <1>10, <1>11, Zenon DEF IsFrameOf, b
<1> QED BY <1>6, <1>12 DEF n

LEMMA FrameUsable ==
  ASSUME MapOk(memory_map), NEW k \in 0..(Total - 1)
  PROVE  FrameAt(k) \in Nat /\ UsableMemory(FrameAt(k))
<1>1. PICK i \in 1..Len(memory_map) : IsFrameOf(k, i)
  BY FrameFound
<1> QED BY <1>1 DEF IsFrameOf, UsableMemory, Handed

LEMMA TotalNat ==
  ASSUME MapOk(memory_map)
  PROVE  Total \in Nat
  BY BeforeFacts DEF Total

LEMMA FramesDistinct ==
  ASSUME MapOk(memory_map), NEW k \in 0..(Total - 1), NEW l \in 0..(Total - 1), k # l
  PROVE  FrameAt(k) # FrameAt(l)
<1> DEFINE m == memory_map
           P == PageSize
<1>0. P \in Nat \ {0} /\ k \in Int /\ l \in Int
  BY TotalNat, MapAssumption
<1>1. PICK i \in 1..Len(memory_map) : IsFrameOf(k, i)
  BY FrameFound
<1>2. PICK j \in 1..Len(memory_map) : IsFrameOf(l, j)
  BY FrameFound
<1>3. CASE i = j
  <2> DEFINE x == k - Before[i - 1]
             y == l - Before[i - 1]
             s == PageDown(Start(memory_map[i]))
  <2>1. /\ x \in Nat /\ y \in Nat /\ s \in Nat /\ Before[i - 1] \in Nat
        /\ FrameAt(k) = s + P * x /\ FrameAt(l) = s + P * y
    BY <1>1, <1>2, <1>3 DEF IsFrameOf
  <2>2. x # y
    BY <1>0, <2>1
  <2> HIDE DEF x, y, s, P
  <2>3. (P * x <= P * y <=> x <= y) /\ (P * y <= P * x <=> y <= x)
    BY <1>0, <2>1, MultiplesOrdered
  <2>4. P * x # P * y /\ P * x \in Nat /\ P * y \in Nat
    BY <1>0, <2>1, <2>2, <2>3, MultipleOf
  <2> QED BY <2>1, <2>4
<1>4. CASE i # j
  <2> DEFINE r == memory_map[i]
             q == memory_map[j]
  <2>0. Handed(r) /\ Handed(q)
    BY <1>1, <1>2 DEF IsFrameOf
  <2>1. \/ PageUp(End(r)) <= PageDown(Start(q))
        \/ PageUp(End(q)) <= PageDown(Start(r))
    BY <1>4, <2>0, Zenon DEF MapOk
  <2>2. /\ PageDown(Start(r)) \in Nat /\ PageDown(Start(q)) \in Nat
        /\ FrameAt(k) \in Nat /\ FrameAt(l) \in Nat
        /\ PageDown(Start(r)) <= FrameAt(k) /\ FrameAt(k) + P <= PageUp(End(r))
        /\ PageDown(Start(q)) <= FrameAt(l) /\ FrameAt(l) + P <= PageUp(End(q))
    BY <1>1, <1>2 DEF IsFrameOf
  <2>3. PageUp(End(r)) \in Nat /\ PageUp(End(q)) \in Nat
    <3>a. r \in MapEntry /\ q \in MapEntry
      BY <1>1, <1>2 DEF IsFrameOf
    <3> HIDE DEF r, q, P
    <3>b. End(r) \in Nat /\ End(q) \in Nat
      BY <3>a DEF End, MapEntry
    <3>1. End(r) + P - 1 \in Nat /\ End(q) + P - 1 \in Nat
      BY <1>0, <3>b
    <3>2. \A a \in Nat : PageDown(a) \in Nat
      BY Rounding
    <3> QED BY <3>1, <3>2 DEF PageUp, P
  <2> HIDE DEF r, q, P
  <2> QED BY <1>0, <2>1, <2>2, <2>3
<1> QED BY <1>3, <1>4

-----------------------------------------------------------------------------
(* Buffers and the drivers' bind.                                          *)
DiskType == [port : Ports, bufs : [1..Requests -> [phys : Nat, size : Nat]]]
DiskSeq == Seq(DiskType)
BindState == [cursor : Nat, engine : [Ports -> SUBSET Nat], disks : DiskSeq]

LEMMA PagesFacts == Pages(DmaSize) \in Nat \ {0} /\ Requests = 4 /\ FramesPerDisk \in Nat
<1> DEFINE P == PageSize
           D == DmaSize
<1>1. P \in Nat \ {0} /\ D \in Nat \ {0}
  BY MapAssumption, BusAssumption
<1> HIDE DEF P, D
<1>2. (D + P - 1) \div P \in Nat \ {0}
  BY <1>1
<1> QED BY <1>2 DEF P, D, Pages, Requests, FramesPerDisk

(* The numbers of the frames of the i-th buffer. *)
LEMMA BufferNumbers ==
  ASSUME MapOk(memory_map), NEW c \in Nat, Enough(c, FramesPerDisk), NEW i \in 1..Requests
  PROVE  c + (i - 1) * Pages(DmaSize) \in 0..(Total - 1)
<1> DEFINE g == Pages(DmaSize)
<1>1. g \in Nat \ {0} /\ i \in 1..4 /\ Total \in Nat /\ c + 4 * g <= Total
  BY PagesFacts, TotalNat DEF Enough, FramesPerDisk
<1> HIDE DEF g
<1>2. (i - 1) * g \in Nat /\ (i - 1) * g < 4 * g
  BY <1>1
<1> QED BY <1>1, <1>2 DEF g

LEMMA BuffersTyped ==
  ASSUME MapOk(memory_map), NEW c \in Nat, Enough(c, FramesPerDisk)
  PROVE  /\ BuffersFrom(c) \in [1..Requests -> [phys : Nat, size : Nat]]
         /\ Len(BuffersFrom(c)) = Requests
         /\ FramesOf(BuffersFrom(c)) \in SUBSET Nat
<1> DEFINE N(i) == c + (i - 1) * Pages(DmaSize)
           z == Pages(DmaSize) * PageSize
           B == BuffersFrom(c)
<1>0. z \in Nat /\ PageSize \in Nat \ {0} /\ Requests = 4
  BY PagesFacts, MapAssumption
<1>1. \A i \in 1..Requests : FrameAt(N(i)) \in Nat
  BY BufferNumbers, FrameUsable
<1>2. B = [i \in 1..Requests |-> [phys |-> FrameAt(N(i)), size |-> z]]
  BY DEF BuffersFrom, BufferAt
<1> HIDE DEF N, z, B
<1>3. B \in [1..Requests -> [phys : Nat, size : Nat]]
  BY <1>0, <1>1, <1>2
<1>4. Len(B) = Requests
  BY <1>0, <1>3
<1>5. \A i \in 1..Requests : Covered(B[i]) \subseteq Nat
  <2> TAKE i \in 1..Requests
  <2>1. B[i].phys \in Nat /\ B[i].size \in Nat
    BY <1>3
  <2> DEFINE s == B[i].size \div PageSize
  <2>2. \A x \in 0..(s - 1) : B[i].phys + x * PageSize \in Nat
    BY <1>0, <2>1
  <2> QED BY <2>2 DEF Covered
<1> QED BY <1>3, <1>4, <1>5 DEF FramesOf, B

LEMMA DiskTyped ==
  ASSUME MapOk(memory_map), NEW c \in Nat, Enough(c, FramesPerDisk), NEW p \in Ports
  PROVE  Disk(p, c) \in DiskType /\ Disk(p, c).port = p
         /\ FramesOf(Disk(p, c).bufs) = FramesOf(BuffersFrom(c))
<1>1. BuffersFrom(c) \in [1..Requests -> [phys : Nat, size : Nat]]
  BY BuffersTyped
<1> QED BY <1>1, Zenon DEF Disk, DiskType

LEMMA CursorFacts ==
  ASSUME MapOk(memory_map), NEW c \in Nat, NEW n \in Nat
  PROVE  CursorAfter(c, n) \in Nat /\ c <= CursorAfter(c, n)
  BY TotalNat DEF CursorAfter, Enough

LEMMA PortInitTyped ==
  ASSUME MapOk(memory_map), NEW s \in BindState, NEW p \in Ports, NEW outcome
  PROVE  PortInit(s, p, outcome) \in BindState
<1> DEFINE c == CursorAfter(s.cursor, FramesPerDisk)
<1>0. s.cursor \in Nat /\ s.engine \in [Ports -> SUBSET Nat] /\ s.disks \in DiskSeq
  BY DEF BindState
<1>1. c \in Nat
  BY <1>0, CursorFacts, PagesFacts
<1>2. CASE outcome = "missing"
  BY <1>2 DEF PortInit
<1>3. CASE outcome # "missing" /\ ~Enough(s.cursor, FramesPerDisk)
  <2>1. PortInit(s, p, outcome) = [s EXCEPT !.cursor = c]
    BY <1>3, Zenon DEF PortInit
  <2> HIDE DEF c
  <2> QED BY <1>1, <2>1 DEF BindState
<1>4. CASE outcome # "missing" /\ Enough(s.cursor, FramesPerDisk)
  <2> DEFINE e == Program(s.engine, p, s.cursor)
             d == IF outcome = "ok" THEN Append(s.disks, Disk(p, s.cursor)) ELSE s.disks
  <2>1. PortInit(s, p, outcome) = [cursor |-> c, engine |-> e, disks |-> d]
    BY <1>4, Zenon DEF PortInit
  <2>2. e \in [Ports -> SUBSET Nat]
    BY <1>0, <1>4, BuffersTyped DEF Program
  <2>3. d \in DiskSeq
    BY <1>0, <1>4, DiskTyped DEF DiskSeq
  <2> HIDE DEF c, d, e
  <2> QED BY <1>1, <2>1, <2>2, <2>3 DEF BindState
<1> QED BY <1>2, <1>3, <1>4

(* AhciState::init takes the ports one after another. *)
AhciStart(f) == [cursor |-> next, engine |-> engine[f], disks |-> <<>>]
AhciWalk(f, outcomes, w) ==
  /\ w \in [0..Len(Attached[f]) -> BindState]
  /\ w[0] = AhciStart(f)
  /\ \A i \in 1..Len(Attached[f]) : w[i] = PortInit(w[i - 1], Attached[f][i], outcomes[i])
  /\ AhciBind(f, outcomes) = w[Len(Attached[f])]

LEMMA AhciWalks ==
  ASSUME MapOk(memory_map), NEW f \in Functions, NEW outcomes,
         next \in Nat, engine[f] \in [Ports -> SUBSET Nat]
  PROVE  \E w : AhciWalk(f, outcomes, w)
<1> DEFINE n == Len(Attached[f])
           A(i) == Attached[f][i]
           v == AhciStart(f)
           F == [i \in 1..n |-> [s \in BindState |-> PortInit(s, A(i), outcomes[i])]]
           E(g) == g = [i \in 0..n |-> IF i = 0 THEN v ELSE PortInit(g[i - 1], A(i), outcomes[i])]
           u == CHOOSE g : E(g)
           S == {i \in 0..n : u[i] \in BindState}
<1>1. AhciBind(f, outcomes) = u[n]
  BY Zenon DEF AhciBind, AhciStart
<1>2. n \in Nat /\ \A i \in 1..n : A(i) \in Ports
  BY BusAssumption
<1>3. v \in BindState
  BY DEF AhciStart, BindState, DiskSeq
<1> HIDE DEF n, A, v
<1>4. \A i \in 1..n : \A s \in BindState : PortInit(s, A(i), outcomes[i]) \in BindState
  BY <1>2, PortInitTyped
<1>5. F \in [1..n -> [BindState -> BindState]]
  BY <1>4
<1>6. PICK g \in [0..n -> BindState] : g[0] = v /\ \A i \in 1..n : g[i] = F[i][g[i - 1]]
  <2> HIDE DEF F
  <2>2. Chains(n, BindState, v, F) # {}
    BY <1>2, <1>3, <1>5, ChainExists, Zenon
  <2> QED BY <2>2 DEF Chains
<1>7. \A i \in 1..n : g[i] = PortInit(g[i - 1], A(i), outcomes[i])
  <2>1. \A i \in 1..n : g[i - 1] \in BindState
    BY <1>2, <1>6
  <2> QED BY <1>6, <2>1
<1>8. E(g)
  BY <1>2, <1>6, <1>7
<1>9. E(u)
  BY <1>8, Zenon
<1> HIDE DEF u
<1>10. u[0] = v /\ \A i \in 1..n : u[i] = PortInit(u[i - 1], A(i), outcomes[i])
  <2> HIDE DEF F, S
  <2>1. \A i \in 0..n : u[i] = IF i = 0 THEN v ELSE PortInit(u[i - 1], A(i), outcomes[i])
    BY <1>9, Zenon
  <2>2. 0 \in 0..n /\ \A i \in 1..n : i \in 0..n /\ i # 0
    BY <1>2
  <2> QED BY <2>1, <2>2
<1>11. 0 \in S /\ \A i \in 1..n : i - 1 \in S => i \in S
  <2>1. 0 \in S
    BY <1>2, <1>3, <1>10
  <2>2. ASSUME NEW i \in 1..n, i - 1 \in S PROVE i \in S
    <3>1. u[i - 1] \in BindState
      BY <2>2
    <3>2. u[i] \in BindState
      BY <1>4, <1>10, <3>1
    <3> QED BY <1>2, <3>2
  <2> QED BY <2>1, <2>2
<1>12. 0..n \subseteq S
  <2> HIDE DEF S
  <2> QED BY <1>2, <1>11, StepByStep, Zenon
<1>13. u \in [0..n -> BindState]
  <2>1. \A i \in 0..n : u[i] \in BindState
    BY <1>12
  <2>2. u = [i \in 0..n |-> IF i = 0 THEN v ELSE PortInit(u[i - 1], A(i), outcomes[i])]
    BY <1>9, Zenon
  <2>3. u = [i \in 0..n |-> u[i]]
    <3> HIDE DEF F, S
    <3> QED BY <2>2
  <2> QED BY <2>1, <2>3
<1> QED BY <1>1, <1>10, <1>13 DEF AhciWalk, n, A, v

(* Every disk of a binding is what its port was programmed for last. *)
Owned(e, disks) ==
  \A k \in 1..Len(disks) : e[disks[k].port] = FramesOf(disks[k].bufs)
PortsOf(disks) == {disks[k].port : k \in 1..Len(disks)}

LEMMA PortInitOwned ==
  ASSUME MapOk(memory_map), NEW s \in BindState, NEW p \in Ports, NEW outcome,
         p \notin PortsOf(s.disks), Owned(s.engine, s.disks)
  PROVE  LET r == PortInit(s, p, outcome)
         IN  Owned(r.engine, r.disks) /\ PortsOf(r.disks) \subseteq PortsOf(s.disks) \cup {p}
<1> DEFINE c == CursorAfter(s.cursor, FramesPerDisk)
           r == PortInit(s, p, outcome)
<1>0. s.cursor \in Nat /\ s.engine \in [Ports -> SUBSET Nat] /\ s.disks \in DiskSeq
  BY DEF BindState
<1>2. CASE outcome = "missing"
  BY <1>2 DEF PortInit
<1>3. CASE outcome # "missing" /\ ~Enough(s.cursor, FramesPerDisk)
  <2>1. r = [s EXCEPT !.cursor = c]
    BY <1>3, Zenon DEF PortInit
  <2>2. r.engine = s.engine /\ r.disks = s.disks
    <3> HIDE DEF c, r
    <3> QED BY <2>1 DEF BindState
  <2> QED BY <2>2
<1>4. CASE outcome # "missing" /\ Enough(s.cursor, FramesPerDisk)
  <2> DEFINE e == Program(s.engine, p, s.cursor)
             x == Disk(p, s.cursor)
             d == IF outcome = "ok" THEN Append(s.disks, x) ELSE s.disks
  <2>1. r = [cursor |-> c, engine |-> e, disks |-> d]
    BY <1>4, Zenon DEF PortInit
  <2>2. r.engine = e /\ r.disks = d
    <3> HIDE DEF c, d, e, r
    <3> QED BY <2>1
  <2>3. x \in DiskType /\ x.port = p /\ FramesOf(x.bufs) = FramesOf(BuffersFrom(s.cursor))
    BY <1>0, <1>4, DiskTyped
  <2>4. e[p] = FramesOf(x.bufs) /\ \A q \in Ports : q # p => e[q] = s.engine[q]
    <3>1. e = [s.engine EXCEPT ![p] = FramesOf(BuffersFrom(s.cursor))]
      BY DEF Program
    <3> HIDE DEF e, x
    <3> QED BY <1>0, <2>3, <3>1
  <2>5. \A k \in 1..Len(s.disks) : s.disks[k].port \in Ports /\ s.disks[k].port # p
    <3>1. \A k \in 1..Len(s.disks) : s.disks[k] \in DiskType
      BY <1>0 DEF DiskSeq
    <3>2. \A y \in DiskType : y.port \in Ports
      BY DEF DiskType
    <3> QED BY <3>1, <3>2 DEF PortsOf
  <2>6. \A k \in 1..Len(s.disks) : e[s.disks[k].port] = FramesOf(s.disks[k].bufs)
    <3> HIDE DEF e, x
    <3> QED BY <2>4, <2>5 DEF Owned
  <2> HIDE DEF e, x, r
  <2>7. CASE outcome = "ok"
    <3>1. d = Append(s.disks, x) /\ Len(s.disks) \in Nat /\ Len(d) = Len(s.disks) + 1
          /\ \A k \in 1..Len(d) : d[k] = IF k = Len(s.disks) + 1 THEN x ELSE s.disks[k]
      BY <1>0, <2>3, <2>7 DEF DiskSeq
    <3>2. \A k \in 1..Len(d) : d[k] = x \/ (k \in 1..Len(s.disks) /\ d[k] = s.disks[k])
      BY <3>1
    <3> HIDE DEF d
    <3>3. \A k \in 1..Len(d) : e[d[k].port] = FramesOf(d[k].bufs)
      BY <2>3, <2>4, <2>6, <3>2
    <3>4. \A k \in 1..Len(d) : d[k].port \in PortsOf(s.disks) \cup {p}
      BY <2>3, <3>2 DEF PortsOf
    <3>5. Owned(e, d) /\ PortsOf(d) \subseteq PortsOf(s.disks) \cup {p}
      BY <3>3, <3>4 DEF Owned, PortsOf
    <3> QED BY <2>2, <3>5 DEF r
  <2>8. CASE outcome # "ok"
    <3>1. d = s.disks
      BY <2>8
    <3>2. Owned(e, s.disks)
      BY <2>6 DEF Owned
    <3> QED BY <2>2, <3>1, <3>2 DEF r
  <2> QED BY <2>7, <2>8
<1> QED BY <1>2, <1>3, <1>4

LEMMA AhciOwned ==
  ASSUME MapOk(memory_map), NEW f \in Functions, NEW outcomes,
         next \in Nat, engine[f] \in [Ports -> SUBSET Nat]
  PROVE  LET r == AhciBind(f, outcomes) IN r \in BindState /\ Owned(r.engine, r.disks)
<1> DEFINE n == Len(Attached[f])
           A(i) == Attached[f][i]
<1>1. /\ n \in Nat /\ \A i \in 1..n : A(i) \in Ports
      /\ \A i, j \in 1..n : A(i) = A(j) => i = j
  BY BusAssumption
<1>2. PICK w : AhciWalk(f, outcomes, w)
  BY AhciWalks
<1>3. /\ w \in [0..n -> BindState] /\ w[0] = AhciStart(f)
      /\ \A i \in 1..n : w[i] = PortInit(w[i - 1], A(i), outcomes[i])
      /\ AhciBind(f, outcomes) = w[n]
  BY <1>2 DEF AhciWalk
<1> DEFINE So(i) == {A(j) : j \in 1..i}
           S == {i \in 0..n : Owned(w[i].engine, w[i].disks) /\ PortsOf(w[i].disks) \subseteq So(i)}
<1> HIDE DEF n, A
<1>4. 0 \in S
  <2>1. w[0].disks = << >>
    BY <1>3 DEF AhciStart
  <2> QED BY <1>1, <2>1 DEF Owned, PortsOf
<1>5. ASSUME NEW i \in 1..n, i - 1 \in S PROVE i \in S
  <2> DEFINE s == w[i - 1]
             r == w[i]
  <2>1. s \in BindState /\ A(i) \in Ports /\ r = PortInit(s, A(i), outcomes[i])
    BY <1>1, <1>3
  <2>2. Owned(s.engine, s.disks) /\ PortsOf(s.disks) \subseteq So(i - 1)
    BY <1>5
  <2>3. A(i) \notin So(i - 1) /\ So(i - 1) \cup {A(i)} \subseteq So(i)
    BY <1>1
  <2> HIDE DEF s, r, So, S
  <2>4. A(i) \notin PortsOf(s.disks)
    BY <2>2, <2>3
  <2>5. Owned(r.engine, r.disks) /\ PortsOf(r.disks) \subseteq PortsOf(s.disks) \cup {A(i)}
    BY <2>1, <2>2, <2>4, PortInitOwned
  <2>6. i \in 0..n /\ PortsOf(r.disks) \subseteq So(i)
    BY <1>1, <2>2, <2>3, <2>5
  <2> QED BY <2>5, <2>6 DEF r, S
<1>6. 0..n \subseteq S
  <2> HIDE DEF S
  <2> QED BY <1>1, <1>4, <1>5, StepByStep, Zenon
<1>7. n \in S /\ w[n] \in BindState
  <2> HIDE DEF S
  <2>1. n \in 0..n
    BY <1>1
  <2> QED BY <1>3, <1>6, <2>1
<1> QED BY <1>3, <1>7

LEMMA VirtioOwned ==
  ASSUME MapOk(memory_map), NEW f \in Functions, NEW outcome, Attached[f] # << >>,
         next \in Nat, engine[f] \in [Ports -> SUBSET Nat]
  PROVE  LET r == VirtioBind(f, outcome) IN r \in BindState /\ Owned(r.engine, r.disks)
<1> DEFINE e == engine[f]
           p == Attached[f][1]
           c == CursorAfter(next, FramesPerDisk)
           r == VirtioBind(f, outcome)
<1>1. p \in Ports
  <2>1. Attached[f] \in Seq(Ports)
    BY BusAssumption
  <2> QED BY <2>1
<1>2. c \in Nat
  BY CursorFacts, PagesFacts
<1>3. << >> \in DiskSeq /\ \A x : Owned(x, << >>)
  BY DEF DiskSeq, Owned
<1>4. Off(e, p) \in [Ports -> SUBSET Nat] /\ e \in [Ports -> SUBSET Nat]
  BY <1>1 DEF Off
<1>5. CASE outcome = "missing"
  <2>1. r = [cursor |-> next, engine |-> e, disks |-> <<>>]
    BY <1>5, Zenon DEF VirtioBind
  <2> HIDE DEF r, e
  <2> QED BY <1>3, <1>4, <2>1 DEF BindState, r
<1>6. CASE outcome = "refused"
  <2>1. r = [cursor |-> next, engine |-> Off(e, p), disks |-> <<>>]
    BY <1>6 DEF VirtioBind
  <2> HIDE DEF r, e, p
  <2> QED BY <1>3, <1>4, <2>1 DEF BindState, r
<1>7. CASE outcome # "missing" /\ outcome # "refused" /\ ~Enough(next, FramesPerDisk)
  <2>1. r = [cursor |-> c, engine |-> Off(e, p), disks |-> <<>>]
    BY <1>7 DEF VirtioBind
  <2> HIDE DEF r, e, p, c
  <2> QED BY <1>2, <1>3, <1>4, <2>1 DEF BindState, r
<1>8. CASE outcome # "missing" /\ outcome # "refused" /\ Enough(next, FramesPerDisk)
  <2> DEFINE x == Disk(p, next)
             g == Program(e, p, next)
  <2>1. r = [cursor |-> c, engine |-> g, disks |-> <<x>>]
    BY <1>8 DEF VirtioBind
  <2>2. x \in DiskType /\ x.port = p /\ FramesOf(x.bufs) = FramesOf(BuffersFrom(next))
    BY <1>1, <1>8, DiskTyped
  <2>3. g \in [Ports -> SUBSET Nat] /\ g[p] = FramesOf(x.bufs)
    BY <1>1, <1>4, <1>8, <2>2, BuffersTyped DEF Program
  <2> HIDE DEF r, e, p, c, x, g
  <2>4. <<x>> \in DiskSeq /\ Owned(g, <<x>>)
    BY <2>2, <2>3 DEF DiskSeq, Owned
  <2> QED BY <1>2, <2>1, <2>3, <2>4 DEF BindState, r
<1> QED BY <1>5, <1>6, <1>7, <1>8

-----------------------------------------------------------------------------
(* The frames handed out before the cursor was at c. *)
Used(c) == {FrameAt(k) : k \in {n \in 0..(Total - 1) : n < c}}

LEMMA UsedSame ==
  ASSUME memory_map' = memory_map
  PROVE  /\ \A c : Used(c)' = Used(c)
         /\ \A a : UsableMemory(a)' = UsableMemory(a)
<1>1. Before' = Before
  BY DEF Before, FrameCount, Handed, Start, End
<1>2. Total' = Total
  BY <1>1 DEF Total
<1>3. \A k : FrameAt(k)' = FrameAt(k)
  BY <1>1 DEF FrameAt, PageDown, Start
<1> QED BY <1>2, <1>3 DEF Used, UsableMemory, PageDown, PageUp, Start, End

LEMMA UsedGrows ==
  ASSUME MapOk(memory_map), NEW c \in Nat, NEW d \in Nat, c <= d
  PROVE  Used(c) \subseteq Used(d)
<1>1. Total \in Nat
  BY TotalNat
<1>2. \A n \in 0..(Total - 1) : n < c => n < d
  BY <1>1
<1> QED BY <1>2 DEF Used

LEMMA UsedUsable ==
  ASSUME MapOk(memory_map), NEW c, NEW a \in Used(c)
  PROVE  UsableMemory(a)
  BY FrameUsable DEF Used

LEMMA NewNumbers ==
  ASSUME MapOk(memory_map), NEW c \in Nat, NEW k \in 0..(Total - 1), k >= c
  PROVE  FrameAt(k) \notin Used(c)
<1>1. Total \in Nat
  BY TotalNat
<1>2. ASSUME NEW n \in 0..(Total - 1), n < c PROVE FrameAt(k) # FrameAt(n)
  <2>1. n # k
    BY <1>1, <1>2
  <2> QED BY <2>1, FramesDistinct
<1> QED BY <1>2 DEF Used

(* A request of at most a page gets a frame of its own, so the buffers of  *)
(* a disk are frames that were not handed out before. *)
LEMMA FreshBuffers ==
  ASSUME DmaSize <= PageSize, MapOk(memory_map), NEW c \in Nat, Enough(c, FramesPerDisk)
  PROVE  /\ FramesOf(BuffersFrom(c)) \subseteq Used(CursorAfter(c, FramesPerDisk))
         /\ FramesOf(BuffersFrom(c)) \cap Used(c) = {}
<1> DEFINE P == PageSize
           D == DmaSize
           B == BuffersFrom(c)
<1>1. P \in Nat \ {0} /\ D \in Nat \ {0} /\ D <= P
  BY MapAssumption, BusAssumption
<1>2. (D + P - 1) \div P = 1 /\ (1 * P) \div P = 1
  <2> HIDE DEF P, D
  <2> QED BY <1>1
<1>3. Pages(D) = 1 /\ FramesPerDisk = 4 /\ Requests = 4
  BY <1>2 DEF Pages, FramesPerDisk, Requests
<1>4. Total \in Nat /\ c + 4 <= Total /\ CursorAfter(c, FramesPerDisk) = c + 4
  BY <1>3, TotalNat DEF Enough, CursorAfter
<1>5. Len(B) = 4 /\ \A i \in 1..4 : B[i] = BufferAt(c + (i - 1) * 1, D)
  <2>1. Len(B) = 4
    BY <1>3, BuffersTyped
  <2> QED BY <1>3, <2>1 DEF BuffersFrom
<1>6. \A i \in 1..4 : c + (i - 1) * 1 = c + (i - 1) /\ c + (i - 1) \in 0..(Total - 1)
                      /\ c + (i - 1) >= c /\ c + (i - 1) < c + 4
  BY <1>4
<1>7. ASSUME NEW i \in 1..4
      PROVE  Covered(B[i]) = {FrameAt(c + (i - 1))}
  <2> DEFINE a == FrameAt(c + (i - 1))
  <2>1. a \in Nat
    BY <1>6, FrameUsable
  <2>2. B[i] = [phys |-> a, size |-> 1 * P]
    BY <1>3, <1>5, <1>6 DEF BufferAt
  <2>3. Covered(B[i]) = {a + x * P : x \in 0..(1 - 1)}
    <3> HIDE DEF a
    <3>1. B[i].phys = a /\ B[i].size = 1 * P
      BY <2>2
    <3> QED BY <1>2, <3>1 DEF Covered
  <2>4. 0..(1 - 1) = {0} /\ a + 0 * P = a
    BY <1>1, <2>1
  <2> QED BY <2>3, <2>4
<1>8. \A i \in 1..4 : FrameAt(c + (i - 1)) \in Used(c + 4) /\ FrameAt(c + (i - 1)) \notin Used(c)
  BY <1>6, NewNumbers DEF Used
<1> HIDE DEF B
<1>9. \A a \in FramesOf(B) : \E i \in 1..4 : a = FrameAt(c + (i - 1))
  BY <1>5, <1>7 DEF FramesOf
<1> QED BY <1>4, <1>8, <1>9 DEF B

(* What a bind leaves to the ports of its function, of e before it. *)
Apart(s, e, c) ==
  /\ c <= s.cursor
  /\ \A p \in Ports : /\ s.engine[p] \subseteq Used(s.cursor)
                      /\ \A a \in s.engine[p] : a \in e[p] \/ a \notin Used(c)
  /\ \A p, q \in Ports : p # q => s.engine[p] \cap s.engine[q] = {}

LEMMA ProgramApart ==
  ASSUME DmaSize <= PageSize, MapOk(memory_map), NEW s \in BindState, NEW p \in Ports,
         Enough(s.cursor, FramesPerDisk), NEW e, NEW c \in Nat, Apart(s, e, c),
         NEW r, r.cursor = CursorAfter(s.cursor, FramesPerDisk),
         r.engine = Program(s.engine, p, s.cursor)
  PROVE  Apart(r, e, c)
<1> DEFINE N == FramesOf(BuffersFrom(s.cursor))
<1>0. s.cursor \in Nat /\ s.engine \in [Ports -> SUBSET Nat]
  BY DEF BindState
<1>1. r.cursor \in Nat /\ s.cursor <= r.cursor /\ c <= s.cursor
  BY <1>0, CursorFacts, PagesFacts DEF Apart
<1>2. Used(c) \subseteq Used(s.cursor) /\ Used(s.cursor) \subseteq Used(r.cursor)
  BY <1>0, <1>1, UsedGrows
<1>3. N \subseteq Used(r.cursor) /\ N \cap Used(s.cursor) = {}
  BY <1>0, FreshBuffers
<1>4. r.engine[p] = N /\ \A q \in Ports : q # p => r.engine[q] = s.engine[q]
  BY <1>0 DEF Program
<1> HIDE DEF N
<1>5. \A q \in Ports : /\ s.engine[q] \subseteq Used(s.cursor)
                       /\ \A a \in s.engine[q] : a \in e[q] \/ a \notin Used(c)
  BY DEF Apart
<1>6. \A x, y \in Ports : x # y => s.engine[x] \cap s.engine[y] = {}
  BY DEF Apart
<1>7. c <= r.cursor
  BY <1>0, <1>1
<1>8. \A q \in Ports : /\ r.engine[q] \subseteq Used(r.cursor)
                       /\ \A a \in r.engine[q] : a \in e[q] \/ a \notin Used(c)
  BY <1>2, <1>3, <1>4, <1>5
<1>9. ASSUME NEW x \in Ports, NEW y \in Ports, x # y PROVE r.engine[x] \cap r.engine[y] = {}
  <2>1. CASE x = p
    BY <1>3, <1>4, <1>5, <1>9, <2>1
  <2>2. CASE y = p
    BY <1>3, <1>4, <1>5, <1>9, <2>2
  <2>3. CASE x # p /\ y # p
    BY <1>4, <1>6, <1>9, <2>3
  <2> QED BY <2>1, <2>2, <2>3
<1> QED BY <1>7, <1>8, <1>9 DEF Apart

(* The engine as it was, or turned off at a port. *)
LEMMA SameApart ==
  ASSUME MapOk(memory_map), NEW s \in BindState, NEW e, NEW c \in Nat, Apart(s, e, c),
         NEW r, r.cursor \in Nat, s.cursor <= r.cursor,
         \A p \in Ports : r.engine[p] \subseteq s.engine[p]
  PROVE  Apart(r, e, c)
<1>1. s.cursor \in Nat /\ c <= s.cursor
  BY DEF BindState, Apart
<1>2. c <= r.cursor /\ Used(s.cursor) \subseteq Used(r.cursor)
  BY <1>1, UsedGrows
<1>3. /\ \A p \in Ports : /\ s.engine[p] \subseteq Used(s.cursor)
                          /\ \A a \in s.engine[p] : a \in e[p] \/ a \notin Used(c)
      /\ \A p, q \in Ports : p # q => s.engine[p] \cap s.engine[q] = {}
  BY DEF Apart
<1>4. \A p \in Ports : /\ r.engine[p] \subseteq Used(r.cursor)
                       /\ \A a \in r.engine[p] : a \in e[p] \/ a \notin Used(c)
  BY <1>2, <1>3
<1>5. \A p, q \in Ports : p # q => r.engine[p] \cap r.engine[q] = {}
  BY <1>3
<1> QED BY <1>2, <1>4, <1>5 DEF Apart

LEMMA PortInitApart ==
  ASSUME DmaSize <= PageSize, MapOk(memory_map), NEW s \in BindState, NEW p \in Ports,
         NEW outcome, NEW e, NEW c \in Nat, Apart(s, e, c)
  PROVE  Apart(PortInit(s, p, outcome), e, c)
<1> DEFINE d == CursorAfter(s.cursor, FramesPerDisk)
           r == PortInit(s, p, outcome)
<1>1. s.cursor \in Nat /\ d \in Nat /\ s.cursor <= d
  BY CursorFacts, PagesFacts DEF BindState
<1>2. CASE outcome = "missing"
  BY <1>2 DEF PortInit
<1>3. CASE outcome # "missing" /\ ~Enough(s.cursor, FramesPerDisk)
  <2>1. r = [s EXCEPT !.cursor = d]
    BY <1>3, Zenon DEF PortInit
  <2>2. r.cursor = d /\ r.engine = s.engine
    <3> HIDE DEF d, r
    <3> QED BY <2>1 DEF BindState
  <2> HIDE DEF r
  <2>3. Apart(r, e, c)
    BY <1>1, <2>2, SameApart
  <2> QED BY <2>3 DEF r
<1>4. CASE outcome # "missing" /\ Enough(s.cursor, FramesPerDisk)
  <2> DEFINE g == Program(s.engine, p, s.cursor)
             k == IF outcome = "ok" THEN Append(s.disks, Disk(p, s.cursor)) ELSE s.disks
  <2>1. r = [cursor |-> d, engine |-> g, disks |-> k]
    BY <1>4, Zenon DEF PortInit
  <2>2. r.cursor = d /\ r.engine = g
    <3> HIDE DEF d, g, k, r
    <3> QED BY <2>1
  <2> HIDE DEF r
  <2>3. Apart(r, e, c)
    BY <1>4, <2>2, ProgramApart
  <2> QED BY <2>3 DEF r
<1> QED BY <1>2, <1>3, <1>4

LEMMA AhciApart ==
  ASSUME DmaSize <= PageSize, MapOk(memory_map), NEW f \in Functions, NEW outcomes,
         next \in Nat, engine[f] \in [Ports -> SUBSET Nat],
         Apart(AhciStart(f), engine[f], next)
  PROVE  Apart(AhciBind(f, outcomes), engine[f], next)
<1> DEFINE n == Len(Attached[f])
           A(i) == Attached[f][i]
<1>1. n \in Nat /\ \A i \in 1..n : A(i) \in Ports
  BY BusAssumption
<1>2. PICK w : AhciWalk(f, outcomes, w)
  BY AhciWalks
<1>3. /\ w \in [0..n -> BindState] /\ w[0] = AhciStart(f)
      /\ \A i \in 1..n : w[i] = PortInit(w[i - 1], A(i), outcomes[i])
      /\ AhciBind(f, outcomes) = w[n]
  BY <1>2 DEF AhciWalk
<1> DEFINE S == {i \in 0..n : Apart(w[i], engine[f], next)}
<1> HIDE DEF n, A
<1>4. 0 \in S
  BY <1>1, <1>3
<1>5. ASSUME NEW i \in 1..n, i - 1 \in S PROVE i \in S
  <2> DEFINE s == w[i - 1]
  <2>1. s \in BindState /\ A(i) \in Ports /\ w[i] = PortInit(s, A(i), outcomes[i])
        /\ i \in 0..n
    BY <1>1, <1>3
  <2>2. Apart(s, engine[f], next)
    BY <1>5
  <2> HIDE DEF s
  <2>3. Apart(w[i], engine[f], next)
    BY <2>1, <2>2, PortInitApart
  <2> QED BY <2>1, <2>3
<1>6. 0..n \subseteq S
  <2> HIDE DEF S
  <2> QED BY <1>1, <1>4, <1>5, StepByStep, Zenon
<1>7. n \in S
  <2> HIDE DEF S
  <2>1. n \in 0..n
    BY <1>1
  <2> QED BY <1>6, <2>1
<1> QED BY <1>3, <1>7

LEMMA VirtioApart ==
  ASSUME DmaSize <= PageSize, MapOk(memory_map), NEW f \in Functions, NEW outcome,
         Attached[f] # << >>, next \in Nat, engine[f] \in [Ports -> SUBSET Nat],
         Apart(AhciStart(f), engine[f], next)
  PROVE  Apart(VirtioBind(f, outcome), engine[f], next)
<1> DEFINE e == engine[f]
           p == Attached[f][1]
           c == CursorAfter(next, FramesPerDisk)
           r == VirtioBind(f, outcome)
           s == AhciStart(f)
<1>1. p \in Ports
  <2>1. Attached[f] \in Seq(Ports)
    BY BusAssumption
  <2> QED BY <2>1
<1>2. c \in Nat /\ next <= c
  BY CursorFacts, PagesFacts
<1>3. s.cursor = next /\ s.engine = e /\ s \in BindState
  BY DEF AhciStart, BindState, DiskSeq
<1>4. \A q \in Ports : Off(e, p)[q] \subseteq e[q]
  BY <1>1 DEF Off
<1> HIDE DEF s, r
<1>5. CASE outcome = "missing"
  <2>1. r = [cursor |-> next, engine |-> e, disks |-> <<>>]
    BY <1>5, Zenon DEF VirtioBind, r
  <2>2. r.cursor = s.cursor /\ r.engine = e
    BY <1>3, <2>1
  <2>3. Apart(r, e, next)
    <3> HIDE DEF e
    <3>1. Apart(s, e, next)
      BY DEF s, e
    <3> QED BY <1>3, <2>2, <3>1, SameApart
  <2> QED BY <2>3 DEF r
<1>6. CASE outcome # "missing" /\ (outcome = "refused" \/ ~Enough(next, FramesPerDisk))
  <2>1. \/ r = [cursor |-> next, engine |-> Off(e, p), disks |-> <<>>]
        \/ r = [cursor |-> c, engine |-> Off(e, p), disks |-> <<>>]
    BY <1>6 DEF VirtioBind, r
  <2> HIDE DEF e, p, c
  <2>2. r.cursor \in Nat /\ s.cursor <= r.cursor /\ r.engine = Off(e, p)
    BY <1>2, <1>3, <2>1
  <2>3. Apart(r, e, next)
    <3>1. Apart(s, e, next)
      BY DEF s, e
    <3> QED BY <1>3, <1>4, <2>2, <3>1, SameApart
  <2> QED BY <2>3 DEF r, e
<1>7. CASE outcome # "missing" /\ outcome # "refused" /\ Enough(next, FramesPerDisk)
  <2>1. r = [cursor |-> c, engine |-> Program(e, p, next), disks |-> <<Disk(p, next)>>]
    BY <1>7 DEF VirtioBind, r
  <2>2. r.cursor = c /\ r.engine = Program(e, p, next)
    <3> HIDE DEF e, p, c
    <3> QED BY <2>1
  <2>3. Apart(r, e, next)
    <3>1. Apart(s, e, next)
      BY DEF s, e
    <3> HIDE DEF e, p
    <3> QED BY <1>1, <1>3, <1>7, <2>2, <3>1, ProgramApart
  <2> QED BY <2>3 DEF r, e
<1> QED BY <1>5, <1>6, <1>7

-----------------------------------------------------------------------------
(* find_driver yields a driver that matches. *)
DriverLists == {<<>>, <<"virtio-blk">>, <<"virtio-blk", "ahci">>}

LEMMA FoundDriver ==
  ASSUME drivers \in DriverLists, NEW f, Matching(f) # {}
  PROVE  FindDriver(f) \in {"virtio-blk", "ahci"} /\ MatchesPci(FindDriver(f), f)
<1> DEFINE M == Matching(f)
           best == {i \in M : \A j \in M : Priority(drivers[j]) <= Priority(drivers[i])}
<1>1. M \subseteq Nat /\ M # {}
  BY DEF Matching, DriverLists
<1>2. best = M
  BY DEF Priority
<1>3. PICK x \in M : \A y \in M : x <= y
  <2> HIDE DEF M
  <2> QED BY <1>1, LeastNatural, Zenon
<1> DEFINE i == CHOOSE k \in best : \A j \in best : k <= j
<1>4. i \in M
  <2> HIDE DEF best, M
  <2> QED BY <1>2, <1>3
<1>5. FindDriver(f) = drivers[i]
  BY Zenon DEF FindDriver
<1> HIDE DEF i
<1>6. i \in 1..Len(drivers) /\ MatchesPci(drivers[i], f)
  BY <1>4 DEF Matching
<1> QED BY <1>5, <1>6 DEF DriverLists

LEMMA BoundOwned ==
  ASSUME MapOk(memory_map), NEW f \in Functions, NEW driver, NEW outcomes, MatchesPci(driver, f),
         next \in Nat, engine[f] \in [Ports -> SUBSET Nat]
  PROVE  LET r == Bound(driver, f, outcomes) IN r \in BindState /\ Owned(r.engine, r.disks)
<1>1. CASE driver = "ahci"
  BY <1>1, AhciOwned DEF Bound
<1>2. CASE driver # "ahci"
  <2>1. Attached[f] # << >>
    BY <1>2, BusAssumption DEF MatchesPci
  <2> QED BY <1>2, <2>1, VirtioOwned DEF Bound
<1> QED BY <1>1, <1>2

LEMMA BoundApart ==
  ASSUME DmaSize <= PageSize,
         MapOk(memory_map), NEW f \in Functions, NEW driver, NEW outcomes, MatchesPci(driver, f),
         next \in Nat, engine[f] \in [Ports -> SUBSET Nat],
         \A p \in Ports : engine[f][p] \subseteq Used(next),
         \A p, q \in Ports : p # q => engine[f][p] \cap engine[f][q] = {}
  PROVE  Apart(Bound(driver, f, outcomes), engine[f], next)
<1>0. Apart(AhciStart(f), engine[f], next)
  BY DEF Apart, AhciStart
<1>1. CASE driver = "ahci"
  BY <1>0, <1>1, AhciApart DEF Bound
<1>2. CASE driver # "ahci"
  <2>1. Attached[f] # << >>
    BY <1>2, BusAssumption DEF MatchesPci
  <2> QED BY <1>0, <1>2, <2>1, VirtioApart DEF Bound
<1> QED BY <1>1, <1>2

-----------------------------------------------------------------------------
(* The device registry: an id is one function's, and a function's name     *)
(* has at most one id.                                                     *)
RegistryInv ==
  /\ next_id \in Nat \ {0} /\ DOMAIN devices \subseteq 1..(next_id - 1)
  /\ \A id \in DOMAIN devices : devices[id] \in Functions /\ devices[id] \in DOMAIN name_index
  /\ \A i, j \in DOMAIN devices : devices[i] = devices[j] => i = j

LEMMA NewFunctionsFacts ==
  /\ Len(NewFunctions) \in Nat
  /\ \A i \in 1..Len(NewFunctions) :
       NewFunctions[i] \in Functions /\ NewFunctions[i] \notin DOMAIN name_index
  /\ \A i, j \in 1..Len(NewFunctions) : NewFunctions[i] = NewFunctions[j] => i = j
<1> DEFINE S == {i \in 1..Len(Bus) : Bus[i] \notin DOMAIN name_index}
           c == Cardinality(S)
           o == InOrder(S)
           n == [i \in 1..c |-> Bus[o[i]]]
<1>1. Len(Bus) \in Nat /\ \A i, j \in 1..Len(Bus) : Bus[i] = Bus[j] => i = j
  BY BusAssumption
<1>2. /\ c \in Nat /\ o \in [1..c -> S] /\ Len(o) = c
      /\ \A i, j \in 1..c : o[i] = o[j] => i = j
  BY <1>1, OrderFacts
<1>3. NewFunctions = n
  BY <1>2 DEF NewFunctions
<1>4. Len(n) = c
  <2> HIDE DEF c, o
  <2> QED BY <1>2
<1> HIDE DEF c, o
<1>5. \A i \in 1..c : n[i] = Bus[o[i]] /\ o[i] \in 1..Len(Bus) /\ Bus[o[i]] \notin DOMAIN name_index
  BY <1>2
<1>6. \A i \in 1..c : n[i] \in Functions
  BY <1>5 DEF Functions
<1>7. \A i, j \in 1..c : n[i] = n[j] => i = j
  BY <1>1, <1>2, <1>5
<1> QED BY <1>2, <1>3, <1>4, <1>5, <1>6, <1>7

LEMMA EnumerateKeeps ==
  ASSUME RegistryInv, Enumerate
  PROVE  RegistryInv' /\ next_id <= next_id'
<1> DEFINE new == NewFunctions
           n == Len(new)
           ids == next_id .. (next_id + n - 1)
           more == [i \in ids |-> new[i - next_id + 1]]
<1>1. /\ n \in Nat
      /\ \A i \in 1..n : new[i] \in Functions /\ new[i] \notin DOMAIN name_index
      /\ \A i, j \in 1..n : new[i] = new[j] => i = j
  BY NewFunctionsFacts
<1>2. /\ devices' = With(devices, more) /\ next_id' = next_id + n
      /\ DOMAIN name_index' = DOMAIN name_index \cup {new[i] : i \in 1..n}
  BY DEF Enumerate, With
<1>3. next_id \in Nat \ {0} /\ DOMAIN devices \subseteq 1..(next_id - 1)
  BY DEF RegistryInv
<1> HIDE DEF new, n
<1>4. \A i \in ids : i - next_id + 1 \in 1..n /\ i \in 1..(next_id + n - 1) /\ i \notin 1..(next_id - 1)
  BY <1>1, <1>3
<1>5. \A i, j \in ids : i - next_id + 1 = j - next_id + 1 => i = j
  BY <1>1, <1>3
<1>6. /\ DOMAIN devices' = DOMAIN devices \cup ids
      /\ \A i \in DOMAIN devices : i \notin ids /\ devices'[i] = devices[i]
      /\ \A i \in ids : devices'[i] = new[i - next_id + 1]
  <2> HIDE DEF ids
  <2>1. DOMAIN more = ids /\ \A i \in ids : more[i] = new[i - next_id + 1] /\ i \notin DOMAIN devices
    BY <1>3, <1>4
  <2> HIDE DEF more
  <2> QED BY <1>2, <2>1 DEF With
<1> HIDE DEF ids
<1>7. next_id' \in Nat \ {0} /\ DOMAIN devices' \subseteq 1..(next_id' - 1)
  <2>1. 1..(next_id - 1) \subseteq 1..(next_id + n - 1) /\ next_id + n \in Nat \ {0}
    BY <1>1, <1>3
  <2>2. ids \subseteq 1..(next_id + n - 1)
    BY <1>4
  <2>3. DOMAIN devices' \subseteq 1..(next_id + n - 1)
    BY <1>3, <1>6, <2>1, <2>2
  <2>4. next_id' = next_id + n
    BY <1>2
  <2> QED BY <1>1, <1>3, <2>1, <2>3, <2>4
<1>8. \A i \in ids : devices'[i] \in Functions /\ devices'[i] \notin DOMAIN name_index
                     /\ devices'[i] \in DOMAIN name_index'
  BY <1>1, <1>2, <1>4, <1>6
<1>9. \A i \in DOMAIN devices : devices'[i] \in Functions /\ devices'[i] \in DOMAIN name_index
                                /\ devices'[i] \in DOMAIN name_index'
  BY <1>2, <1>6 DEF RegistryInv
<1>10. \A i, j \in ids : devices'[i] = devices'[j] => i = j
  BY <1>1, <1>4, <1>5, <1>6
<1>11. \A i, j \in DOMAIN devices : devices'[i] = devices'[j] => i = j
  BY <1>6 DEF RegistryInv
<1>12. \A i, j \in DOMAIN devices' : devices'[i] = devices'[j] => i = j
  BY <1>6, <1>8, <1>9, <1>10, <1>11
<1>13. next_id <= next_id'
  BY <1>1, <1>2, <1>3
<1> QED BY <1>6, <1>7, <1>8, <1>9, <1>12, <1>13 DEF RegistryInv

LEMMA UnregisterKeeps ==
  ASSUME RegistryInv, NEW id \in DOMAIN devices, next_id' = next_id,
         devices' = Without(devices, {id}), name_index' = IndexWithout(id)
  PROVE  RegistryInv'
<1>1. /\ DOMAIN devices' = DOMAIN devices \ {id}
      /\ \A i \in DOMAIN devices' : devices'[i] = devices[i] /\ i \in DOMAIN devices /\ i # id
      /\ DOMAIN name_index' = DOMAIN name_index \ {devices[id]}
  BY DEF Without, IndexWithout
<1>2. \A i \in DOMAIN devices' : devices[i] # devices[id]
  BY <1>1 DEF RegistryInv
<1>3. next_id' \in Nat \ {0} /\ DOMAIN devices' \subseteq 1..(next_id' - 1)
  BY <1>1 DEF RegistryInv
<1>4. \A i \in DOMAIN devices' : devices'[i] \in Functions /\ devices'[i] \in DOMAIN name_index'
  BY <1>1, <1>2 DEF RegistryInv
<1>5. \A i, j \in DOMAIN devices' : devices'[i] = devices'[j] => i = j
  BY <1>1 DEF RegistryInv
<1> QED BY <1>3, <1>4, <1>5 DEF RegistryInv

-----------------------------------------------------------------------------
(* The inductive invariant.  The disks of a function are those of one      *)
(* binding or were handed over together, unless it was bound again.        *)
Binding == [function : Functions, driver : {"virtio-blk", "ahci"}, disks : DiskSeq]
HandedOver == [id : Nat, function : Functions, disk : DiskType]

MachineInv ==
  /\ MapOk(memory_map) /\ next \in Nat
  /\ engine \in [Functions -> [Ports -> SUBSET Nat]]
  /\ pc = "start" => next = 0

BindInv ==
  /\ drivers \in DriverLists
  /\ DOMAIN bindings \subseteq 1..(next_id - 1)
  /\ \A id \in DOMAIN bindings : bindings[id] \in Binding /\ bindings[id].disks # <<>>
  /\ taken \subseteq HandedOver

OneOwner ==
  /\ \A i, j \in DOMAIN bindings :
       bindings[i].function = bindings[j].function /\ i # j => bindings[i].function \in rebound
  /\ \A i \in DOMAIN bindings : \A t \in taken :
       bindings[i].function = t.function => t.function \in rebound

QueueInv ==
  /\ todo \in Seq(Nat)
  /\ pc = "bind" => \A i \in 1..Len(todo) : todo[i] \in DOMAIN devices

OwnerInv ==
  /\ \A id \in DOMAIN bindings : bindings[id].function \notin rebound =>
       Owned(engine[bindings[id].function], bindings[id].disks)
  /\ \A t \in taken : t.function \notin rebound =>
       engine[t.function][t.disk.port] = FramesOf(t.disk.bufs)

DriversInv == MachineInv /\ RegistryInv /\ BindInv /\ OneOwner /\ QueueInv /\ OwnerInv

(* The disks, one by one. *)
LEMMA DisksAre ==
  ASSUME NEW d
  PROVE  d \in Disks <=>
           \/ \E id \in DOMAIN bindings : \E i \in 1..Len(bindings[id].disks) :
                d = DiskOf(bindings[id].function, bindings[id].disks[i])
           \/ \E t \in taken : d = DiskOf(t.function, t.disk)
<1> DEFINE Of(id) == {DiskOf(bindings[id].function, bindings[id].disks[i])
                        : i \in 1..Len(bindings[id].disks)}
           B == UNION {Of(id) : id \in DOMAIN bindings}
           K == {DiskOf(t.function, t.disk) : t \in taken}
<1>1. Disks = B \cup K
  BY Zenon DEF Disks, DiskOf
<1>2. d \in B <=> \E id \in DOMAIN bindings : d \in Of(id)
  <2> HIDE DEF Of
  <2> QED OBVIOUS
<1>3. \A id : d \in Of(id) <=> \E i \in 1..Len(bindings[id].disks) :
                                 d = DiskOf(bindings[id].function, bindings[id].disks[i])
  BY Zenon
<1>4. d \in K <=> \E t \in taken : d = DiskOf(t.function, t.disk)
  BY Zenon
<1> HIDE DEF Of, B, K
<1> QED BY <1>1, <1>2, <1>3, <1>4, Zenon

LEMMA DisksAreNext ==
  ASSUME NEW d
  PROVE  d \in Disks' <=>
           \/ \E id \in DOMAIN bindings' : \E i \in 1..Len(bindings'[id].disks) :
                d = DiskOf(bindings'[id].function, bindings'[id].disks[i])
           \/ \E t \in taken' : d = DiskOf(t.function, t.disk)
<1> DEFINE Of(id) == {DiskOf(bindings'[id].function, bindings'[id].disks[i])
                        : i \in 1..Len(bindings'[id].disks)}
           B == UNION {Of(id) : id \in DOMAIN bindings'}
           K == {DiskOf(t.function, t.disk) : t \in taken'}
<1>1. Disks' = B \cup K
  BY Zenon DEF Disks, DiskOf
<1>2. d \in B <=> \E id \in DOMAIN bindings' : d \in Of(id)
  <2> HIDE DEF Of
  <2> QED OBVIOUS
<1>3. \A id : d \in Of(id) <=> \E i \in 1..Len(bindings'[id].disks) :
                                 d = DiskOf(bindings'[id].function, bindings'[id].disks[i])
  BY Zenon
<1>4. d \in K <=> \E t \in taken' : d = DiskOf(t.function, t.disk)
  BY Zenon
<1> HIDE DEF Of, B, K
<1> QED BY <1>1, <1>2, <1>3, <1>4, Zenon

LEMMA OwnerInvIsOwner ==
  ASSUME OwnerInv
  PROVE  OwnerIsProgrammed
<1> SUFFICES ASSUME NEW d \in Disks, d.function \notin rebound
             PROVE  engine[d.function][d.port] = FramesOf(d.bufs)
  BY DEF OwnerIsProgrammed
<1>1. ASSUME NEW id \in DOMAIN bindings, NEW i \in 1..Len(bindings[id].disks),
             d.function = bindings[id].function, d.port = bindings[id].disks[i].port,
             d.bufs = bindings[id].disks[i].bufs
      PROVE  engine[d.function][d.port] = FramesOf(d.bufs)
  BY <1>1 DEF OwnerInv, Owned
<1>2. ASSUME NEW t \in taken,
             d.function = t.function, d.port = t.disk.port, d.bufs = t.disk.bufs
      PROVE  engine[d.function][d.port] = FramesOf(d.bufs)
  BY <1>2 DEF OwnerInv
<1>3. \/ \E id \in DOMAIN bindings : \E i \in 1..Len(bindings[id].disks) :
            d = DiskOf(bindings[id].function, bindings[id].disks[i])
      \/ \E t \in taken : d = DiskOf(t.function, t.disk)
  BY DisksAre
<1> QED BY <1>1, <1>2, <1>3 DEF DiskOf

(* A function no disk of which is in use is neither bound nor handed over. *)
LEMMA NotInUse ==
  ASSUME BindInv, NEW f, ~InUse(f)
  PROVE  /\ \A id \in DOMAIN bindings : bindings[id].function # f
         /\ \A t \in taken : t.function # f
<1>1. ASSUME NEW id \in DOMAIN bindings, bindings[id].function = f PROVE FALSE
  <2>1. bindings[id].disks \in Seq(DiskType) /\ bindings[id].disks # <<>>
    BY DEF BindInv, Binding, DiskSeq
  <2>2. 1 \in 1..Len(bindings[id].disks)
    BY <2>1
  <2>3. DiskOf(bindings[id].function, bindings[id].disks[1]) \in Disks
    BY <2>2, DisksAre
  <2> QED BY <1>1, <2>3 DEF InUse, DiskOf
<1>2. ASSUME NEW t \in taken, t.function = f PROVE FALSE
  <2>1. DiskOf(t.function, t.disk) \in Disks
    BY DisksAre
  <2> QED BY <1>2, <2>1 DEF InUse, DiskOf
<1> QED BY <1>1, <1>2

(* A bind of device id that its driver answered with r. *)
BindStep(id, driver, r) ==
  /\ r \in BindState /\ Owned(r.engine, r.disks)
  /\ next' = r.cursor
  /\ engine' = [engine EXCEPT ![devices[id]] = r.engine]
  /\ \/ bindings' = bindings
     \/ /\ r.disks # << >>
        /\ bindings' = With(bindings, [k \in {id} |->
             [function |-> devices[id], driver |-> driver, disks |-> r.disks]])
  /\ rebound' = IF InUse(devices[id]) THEN rebound \cup {devices[id]}
                ELSE rebound \ {devices[id]}

(* What DriverRegistry::bind does, as far as the invariant tells. *)
LEMMA TryBindEffect ==
  ASSUME MachineInv, RegistryInv, BindInv, NEW id \in DOMAIN devices, TryBind(id)
  PROVE  \/ UNCHANGED <<next, bindings, rebound, engine>>
         \/ /\ id \notin DOMAIN bindings
            /\ \E driver \in {"virtio-blk", "ahci"} : \E outcomes :
                 /\ MatchesPci(driver, devices[id])
                 /\ BindStep(id, driver, Bound(driver, devices[id], outcomes))
<1> SUFFICES ASSUME Bindable(id) PROVE
            /\ id \notin DOMAIN bindings
            /\ \E driver \in {"virtio-blk", "ahci"} : \E outcomes :
                 /\ MatchesPci(driver, devices[id])
                 /\ BindStep(id, driver, Bound(driver, devices[id], outcomes))
  BY DEF TryBind, Rebound
<1> DEFINE f == devices[id]
           driver == FindDriver(f)
<1>1. f \in Functions /\ engine[f] \in [Ports -> SUBSET Nat] /\ next \in Nat /\ MapOk(memory_map)
  BY DEF RegistryInv, MachineInv
<1>2. id \notin DOMAIN bindings /\ Matching(f) # {}
  BY DEF Bindable
<1>3. driver \in {"virtio-blk", "ahci"} /\ MatchesPci(driver, f)
  BY <1>2, FoundDriver DEF BindInv
<1>4. PICK outcomes \in Outcomes(f) :
        LET b == Bound(driver, f, outcomes) IN
        /\ next' = b.cursor
        /\ engine' = [engine EXCEPT ![f] = b.engine]
        /\ bindings' = IF Usable(b)
                       THEN With(bindings, [k \in {id} |->
                              [function |-> f, driver |-> driver, disks |-> b.disks]])
                       ELSE bindings
  BY Zenon DEF TryBind
<1> DEFINE r == Bound(driver, f, outcomes)
<1> HIDE DEF f, driver
<1>5. r \in BindState /\ Owned(r.engine, r.disks)
  BY <1>1, <1>3, BoundOwned
<1>6. /\ next' = r.cursor
      /\ engine' = [engine EXCEPT ![f] = r.engine]
      /\ \/ bindings' = bindings
         \/ /\ r.disks # << >>
            /\ bindings' = With(bindings, [k \in {id} |->
                 [function |-> f, driver |-> driver, disks |-> r.disks]])
  <2> HIDE DEF r
  <2> QED BY <1>4 DEF Usable, r
<1> HIDE DEF r
<1>a. rebound' = IF InUse(f) THEN rebound \cup {f} ELSE rebound \ {f}
  BY DEF TryBind, Rebound, f
<1>7. BindStep(id, driver, r)
  BY <1>5, <1>6, <1>a DEF BindStep, f
<1> QED BY <1>2, <1>3, <1>7, Zenon DEF r, f

LEMMA TryBindKeeps ==
  ASSUME MachineInv, RegistryInv, BindInv, OneOwner, OwnerInv,
         NEW id \in DOMAIN devices, TryBind(id),
         memory_map' = memory_map, pc # "start", pc' = pc
  PROVE  MachineInv' /\ RegistryInv' /\ BindInv' /\ OneOwner' /\ OwnerInv' /\ devices' = devices
<1>1. /\ devices' = devices /\ name_index' = name_index /\ next_id' = next_id
      /\ drivers' = drivers /\ taken' = taken
  BY DEF TryBind, registries
<1>2. RegistryInv'
  BY <1>1 DEF RegistryInv
<1>3. CASE UNCHANGED <<next, bindings, rebound, engine>>
  <2>1. MachineInv'
    BY <1>3 DEF MachineInv, MapOk
  <2>2. BindInv' /\ OneOwner' /\ OwnerInv'
    BY <1>1, <1>3 DEF BindInv, OneOwner, OwnerInv
  <2> QED BY <1>1, <1>2, <2>1, <2>2
<1>4. ASSUME id \notin DOMAIN bindings, NEW driver \in {"virtio-blk", "ahci"}, NEW r,
             BindStep(id, driver, r)
      PROVE  MachineInv' /\ BindInv' /\ OneOwner' /\ OwnerInv'
  <2> DEFINE f == devices[id]
             b == [function |-> f, driver |-> driver, disks |-> r.disks]
  <2>0. /\ r \in BindState /\ Owned(r.engine, r.disks)
        /\ next' = r.cursor
        /\ engine' = [engine EXCEPT ![f] = r.engine]
        /\ \/ bindings' = bindings
           \/ r.disks # << >> /\ bindings' = With(bindings, [k \in {id} |-> b])
        /\ rebound' = IF InUse(f) THEN rebound \cup {f} ELSE rebound \ {f}
    BY <1>4 DEF BindStep
  <2>1. f \in Functions /\ r.cursor \in Nat /\ r.engine \in [Ports -> SUBSET Nat] /\ r.disks \in DiskSeq
    BY <2>0 DEF RegistryInv, BindState
  <2>2. /\ engine' \in [Functions -> [Ports -> SUBSET Nat]] /\ engine'[f] = r.engine
        /\ \A g \in Functions : g # f => engine'[g] = engine[g]
    BY <2>0, <2>1 DEF MachineInv
  <2>3. MachineInv'
    BY <2>0, <2>1, <2>2 DEF MachineInv, MapOk
  <2>4. b \in Binding /\ b.function = f /\ b.disks = r.disks
    BY <2>1 DEF Binding
  <2>5. /\ DOMAIN bindings \subseteq DOMAIN bindings'
        /\ \A k \in DOMAIN bindings : bindings'[k] = bindings[k] /\ k # id
        /\ \A k \in DOMAIN bindings' : k \notin DOMAIN bindings =>
             k = id /\ bindings'[k] = b /\ r.disks # << >>
    <3> HIDE DEF b
    <3> QED BY <1>4, <2>0 DEF With
  <2>a. id \in 1..(next_id - 1)
    BY DEF RegistryInv
  <2> HIDE DEF b, f
  <2>6. \A k \in DOMAIN bindings : /\ k \in 1..(next_id - 1) /\ bindings[k] \in Binding
                                   /\ bindings[k].disks # << >>
    BY DEF BindInv
  <2>7. BindInv'
    <3>1. drivers' \in DriverLists /\ taken' \subseteq HandedOver
      BY <1>1 DEF BindInv
    <3>2. DOMAIN bindings' \subseteq 1..(next_id' - 1)
      BY <1>1, <2>5, <2>6, <2>a
    <3>3. \A k \in DOMAIN bindings' : bindings'[k] \in Binding /\ bindings'[k].disks # <<>>
      BY <2>4, <2>5, <2>6
    <3> QED BY <3>1, <3>2, <3>3 DEF BindInv
  (* What is not of the function bound now is as before; of that function,  *)
  (* either there is nothing else or it is bound over.                       *)
  <2>8. \A g : g # f => (g \in rebound' <=> g \in rebound)
    BY <2>0
  <2>9. \/ f \in rebound'
        \/ /\ \A k \in DOMAIN bindings : bindings[k].function # f
           /\ \A t \in taken : t.function # f
    <3>1. CASE InUse(f)
      BY <2>0, <3>1
    <3>2. CASE ~InUse(f)
      BY <3>2, NotInUse
    <3> QED BY <3>1, <3>2
  <2>10. OneOwner'
    <3>1. ASSUME NEW i \in DOMAIN bindings', NEW j \in DOMAIN bindings',
                 bindings'[i].function = bindings'[j].function, i # j
          PROVE  bindings'[i].function \in rebound'
      <4>1. CASE i \in DOMAIN bindings /\ j \in DOMAIN bindings
        <5>1. bindings'[i] = bindings[i] /\ bindings[i].function \in rebound
          BY <2>5, <3>1, <4>1 DEF OneOwner
        <5> QED BY <2>8, <2>9, <4>1, <5>1
      <4>2. CASE i \notin DOMAIN bindings \/ j \notin DOMAIN bindings
        <5>1. bindings'[i].function = f /\ (i \in DOMAIN bindings \/ j \in DOMAIN bindings)
          BY <2>4, <2>5, <3>1, <4>2
        <5>2. \E k \in DOMAIN bindings : bindings[k].function = f
          BY <2>5, <3>1, <5>1
        <5> QED BY <2>9, <5>1, <5>2
      <4> QED BY <4>1, <4>2
    <3>2. ASSUME NEW i \in DOMAIN bindings', NEW t \in taken',
                 bindings'[i].function = t.function
          PROVE  t.function \in rebound'
      <4>1. CASE i \in DOMAIN bindings
        <5>1. t \in taken /\ t.function \in rebound
          BY <1>1, <2>5, <3>2, <4>1 DEF OneOwner
        <5> QED BY <2>8, <2>9, <5>1
      <4>2. CASE i \notin DOMAIN bindings
        <5>1. t \in taken /\ t.function = f
          BY <1>1, <2>4, <2>5, <3>2, <4>2
        <5> QED BY <2>9, <5>1
      <4> QED BY <4>1, <4>2
    <3> QED BY <3>1, <3>2 DEF OneOwner
  <2>11. OwnerInv'
    <3>1. ASSUME NEW k \in DOMAIN bindings', bindings'[k].function \notin rebound'
          PROVE  Owned(engine'[bindings'[k].function], bindings'[k].disks)
      <4>1. CASE k \in DOMAIN bindings
        <5>1. bindings'[k] = bindings[k] /\ bindings[k].function # f
          BY <2>5, <2>9, <3>1, <4>1
        <5>2. bindings[k].function \in Functions
          BY <2>6, <4>1 DEF Binding
        <5>3. engine'[bindings[k].function] = engine[bindings[k].function]
          BY <2>2, <5>1, <5>2
        <5>4. bindings[k].function \notin rebound
          BY <2>8, <3>1, <5>1
        <5>5. Owned(engine[bindings[k].function], bindings[k].disks)
          BY <4>1, <5>4 DEF OwnerInv
        <5> QED BY <5>1, <5>3, <5>5
      <4>2. CASE k \notin DOMAIN bindings
        BY <2>0, <2>2, <2>4, <2>5, <4>2
      <4> QED BY <4>1, <4>2
    <3>2. ASSUME NEW t \in taken', t.function \notin rebound'
          PROVE  engine'[t.function][t.disk.port] = FramesOf(t.disk.bufs)
      <4>1. t \in taken /\ t.function # f
        BY <1>1, <2>9, <3>2
      <4>2. t.function \in Functions
        BY <4>1 DEF BindInv, HandedOver
      <4>3. engine'[t.function] = engine[t.function] /\ t.function \notin rebound
        BY <2>2, <2>8, <3>2, <4>1, <4>2
      <4> QED BY <4>1, <4>3 DEF OwnerInv
    <3> QED BY <3>1, <3>2 DEF OwnerInv
  <2> QED BY <2>3, <2>7, <2>10, <2>11
<1>5. CASE ~ UNCHANGED <<next, bindings, rebound, engine>>
  <2>1. PICK driver \in {"virtio-blk", "ahci"} : \E outcomes :
          /\ id \notin DOMAIN bindings
          /\ BindStep(id, driver, Bound(driver, devices[id], outcomes))
    BY <1>5, TryBindEffect, Zenon
  <2> QED BY <1>1, <1>2, <1>4, <2>1, Zenon
<1> QED BY <1>3, <1>5

(* Devices come or go. *)
LEMMA DevicesChange ==
  ASSUME RegistryInv, BindInv, OneOwner, OwnerInv, drivers' \in DriverLists,
         UNCHANGED <<bindings, taken, rebound, engine>>, RegistryInv', next_id <= next_id'
  PROVE  BindInv' /\ OneOwner' /\ OwnerInv'
<1>a. DOMAIN bindings \subseteq 1..(next_id - 1)
  BY DEF BindInv
<1>b. next_id \in Nat /\ next_id' \in Nat
  BY DEF RegistryInv
<1>1. DOMAIN bindings \subseteq 1..(next_id - 1) /\ next_id \in Nat /\ next_id' \in Nat
  BY <1>a, <1>b
<1> DEFINE m == next_id
           n == next_id'
<1>c. m \in Nat /\ n \in Nat /\ m <= n
  BY <1>b
<1>d. 1..(m - 1) \subseteq 1..(n - 1)
  <2> HIDE DEF m, n
  <2> QED BY ONLY <1>c
<1>2. 1..(next_id - 1) \subseteq 1..(next_id' - 1)
  BY <1>d
<1>3. BindInv'
  BY <1>1, <1>2 DEF BindInv
<1>4. OneOwner' /\ OwnerInv'
  BY DEF OneOwner, OwnerInv
<1> QED BY <1>3, <1>4

(* Bindings are taken apart, their disks handed over or not. *)
LEMMA TakenFacts ==
  ASSUME RegistryInv, BindInv, OwnerInv, NEW T, T \subseteq DOMAIN bindings, NEW t \in TakenFrom(T)
  PROVE  \E id \in T : \E i \in 1..Len(bindings[id].disks) :
           /\ t \in HandedOver /\ t.function = bindings[id].function
           /\ t.disk = bindings[id].disks[i]
           /\ t.function \notin rebound =>
                engine[t.function][t.disk.port] = FramesOf(t.disk.bufs)
<1>1. PICK id \in T : t \in {[id |-> id, function |-> bindings[id].function,
                              disk |-> bindings[id].disks[i]] : i \in 1..Len(bindings[id].disks)}
  BY Zenon DEF TakenFrom
<1>2. PICK i \in 1..Len(bindings[id].disks) :
        t = [id |-> id, function |-> bindings[id].function, disk |-> bindings[id].disks[i]]
  BY <1>1
<1>3. id \in DOMAIN bindings /\ id \in Nat /\ bindings[id] \in Binding
  BY DEF BindInv, RegistryInv
<1>4. t.function = bindings[id].function /\ t.disk = bindings[id].disks[i]
  BY <1>2
<1>5. bindings[id].disks[i] \in DiskType /\ bindings[id].function \in Functions
  BY <1>3 DEF Binding, DiskSeq
<1>6. bindings[id].function \notin rebound => Owned(engine[bindings[id].function], bindings[id].disks)
  BY <1>3 DEF OwnerInv
<1>7. t \in HandedOver
  BY <1>2, <1>3, <1>5 DEF HandedOver
<1>8. t.function \notin rebound => engine[t.function][t.disk.port] = FramesOf(t.disk.bufs)
  BY <1>4, <1>6 DEF Owned
<1> QED BY <1>4, <1>7, <1>8

LEMMA BindingsGo ==
  ASSUME RegistryInv, BindInv, OneOwner, OwnerInv, NEW T, T \subseteq DOMAIN bindings,
         DOMAIN bindings' = DOMAIN bindings \ T,
         \A k \in DOMAIN bindings' : bindings'[k] = bindings[k],
         taken' \subseteq taken \cup TakenFrom(T),
         UNCHANGED <<next_id, drivers, rebound, engine>>
  PROVE  BindInv' /\ OneOwner' /\ OwnerInv' /\ Disks' \subseteq Disks
<1>1. \A t \in taken' :
        \/ t \in taken
        \/ \E id \in T : \E i \in 1..Len(bindings[id].disks) :
             /\ t \in HandedOver /\ t.function = bindings[id].function
             /\ t.disk = bindings[id].disks[i]
             /\ t.function \notin rebound =>
                  engine[t.function][t.disk.port] = FramesOf(t.disk.bufs)
  BY TakenFacts
<1>2. \A k \in DOMAIN bindings' :
        /\ k \in DOMAIN bindings /\ k \notin T /\ bindings'[k] = bindings[k]
        /\ k \in 1..(next_id - 1) /\ bindings[k] \in Binding /\ bindings[k].disks # <<>>
        /\ bindings[k].function \notin rebound =>
             Owned(engine[bindings[k].function], bindings[k].disks)
  BY DEF BindInv, OwnerInv
<1>3. BindInv'
  <2>1. drivers' \in DriverLists /\ taken' \subseteq HandedOver
    BY <1>1 DEF BindInv
  <2> QED BY <1>2, <2>1 DEF BindInv
<1>4. OneOwner'
  <2>1. \A i, j \in DOMAIN bindings' :
          bindings'[i].function = bindings'[j].function /\ i # j =>
            bindings'[i].function \in rebound'
    BY <1>2 DEF OneOwner
  <2>2. ASSUME NEW i \in DOMAIN bindings', NEW t \in taken', bindings'[i].function = t.function
        PROVE  t.function \in rebound'
    <3>1. CASE t \in taken
      BY <1>2, <2>2, <3>1 DEF OneOwner
    <3>2. CASE \E id \in T : t.function = bindings[id].function
      <4>1. PICK id \in T : t.function = bindings[id].function
        BY <3>2
      <4>2. i \in DOMAIN bindings /\ id \in DOMAIN bindings /\ i # id
            /\ bindings[i].function = bindings[id].function
        BY <1>2, <2>2, <4>1
      <4> QED BY <4>1, <4>2 DEF OneOwner
    <3> QED BY <1>1, <3>1, <3>2
  <2> QED BY <2>1, <2>2 DEF OneOwner
<1>5. OwnerInv'
  <2>1. \A t \in taken' : t.function \notin rebound' =>
          engine'[t.function][t.disk.port] = FramesOf(t.disk.bufs)
    BY <1>1 DEF OwnerInv
  <2> QED BY <1>2, <2>1 DEF OwnerInv
<1>6. ASSUME NEW d \in Disks' PROVE d \in Disks
  <2>1. CASE \E id \in DOMAIN bindings' : \E i \in 1..Len(bindings'[id].disks) :
               d = DiskOf(bindings'[id].function, bindings'[id].disks[i])
    BY <1>2, <2>1, DisksAre
  <2>2. CASE \E t \in taken' : d = DiskOf(t.function, t.disk)
    <3>1. PICK t \in taken' : d = DiskOf(t.function, t.disk)
      BY <2>2
    <3>2. CASE t \in taken
      BY <3>1, <3>2, DisksAre
    <3>3. CASE \E id \in T : \E i \in 1..Len(bindings[id].disks) :
                 t.function = bindings[id].function /\ t.disk = bindings[id].disks[i]
      <4>1. \E id \in DOMAIN bindings : \E i \in 1..Len(bindings[id].disks) :
              d = DiskOf(bindings[id].function, bindings[id].disks[i])
        BY <3>1, <3>3
      <4> QED BY <4>1, DisksAre
    <3> QED BY <1>1, <3>2, <3>3
  <2> QED BY <1>6, <2>1, <2>2, DisksAreNext
<1> QED BY <1>3, <1>4, <1>5, <1>6

(* unbind stops the hardware of one function, whose disks are all gone     *)
(* with it or which was bound again. *)
LEMMA UnbindKeeps ==
  ASSUME MachineInv, RegistryInv, BindInv, OneOwner, OwnerInv, NEW id \in DOMAIN bindings,
         engine' = Stopped(id), bindings' = Without(bindings, {id}),
         UNCHANGED <<next_id, drivers, taken, rebound>>
  PROVE  engine' \in [Functions -> [Ports -> SUBSET Nat]] /\ BindInv' /\ OneOwner' /\ OwnerInv'
<1> DEFINE f == bindings[id].function
           h == [p \in Ports |-> IF \E i \in 1..Len(bindings[id].disks) : bindings[id].disks[i].port = p
                                 THEN {} ELSE engine[f][p]]
<1>1. f \in Functions
  BY DEF BindInv, Binding
<1>2. engine \in [Functions -> [Ports -> SUBSET Nat]]
  BY DEF MachineInv
<1>3. engine' = [engine EXCEPT ![f] = h]
  BY <1>2 DEF Stopped
<1>4. h \in [Ports -> SUBSET Nat]
  BY <1>1, <1>2
<1>a. /\ \A k \in DOMAIN bindings : k # id /\ bindings[k].function = f => f \in rebound
      /\ \A t \in taken : t.function = f => f \in rebound
  BY DEF OneOwner
<1> HIDE DEF f, h
<1>5. /\ engine' \in [Functions -> [Ports -> SUBSET Nat]]
      /\ \A g \in Functions : g # f => engine'[g] = engine[g]
  BY <1>1, <1>2, <1>3, <1>4
<1>6. /\ DOMAIN bindings' = DOMAIN bindings \ {id}
      /\ \A k \in DOMAIN bindings' : bindings'[k] = bindings[k] /\ k \in DOMAIN bindings /\ k # id
  BY DEF Without
<1>7. \A k \in DOMAIN bindings' :
        /\ k \in 1..(next_id - 1) /\ bindings[k] \in Binding /\ bindings[k].disks # <<>>
        /\ bindings[k].function \in Functions
        /\ bindings[k].function \notin rebound =>
             Owned(engine[bindings[k].function], bindings[k].disks)
  BY <1>6 DEF BindInv, OwnerInv, Binding
<1>8. BindInv'
  <2>1. drivers' \in DriverLists /\ taken' \subseteq HandedOver
    BY DEF BindInv
  <2> QED BY <1>6, <1>7, <2>1 DEF BindInv
<1>9. OneOwner'
  BY <1>6 DEF OneOwner
<1>10. OwnerInv'
  <2>1. ASSUME NEW k \in DOMAIN bindings', bindings'[k].function \notin rebound'
        PROVE  Owned(engine'[bindings'[k].function], bindings'[k].disks)
    <3>1. bindings'[k] = bindings[k] /\ bindings[k].function # f
      BY <1>6, <1>a, <2>1
    <3>2. engine'[bindings[k].function] = engine[bindings[k].function]
      BY <1>5, <1>7, <3>1
    <3>3. Owned(engine[bindings[k].function], bindings[k].disks)
      BY <1>7, <2>1, <3>1
    <3> QED BY <3>1, <3>2, <3>3
  <2>2. ASSUME NEW t \in taken', t.function \notin rebound'
        PROVE  engine'[t.function][t.disk.port] = FramesOf(t.disk.bufs)
    <3>1. t \in taken /\ t.function # f
      BY <1>a, <2>2
    <3>2. t.function \in Functions
      BY <3>1 DEF BindInv, HandedOver
    <3>3. engine'[t.function] = engine[t.function]
      BY <1>5, <3>1, <3>2
    <3> QED BY <2>2, <3>1, <3>3 DEF OwnerInv
  <2> QED BY <2>1, <2>2 DEF OwnerInv
<1> QED BY <1>5, <1>8, <1>9, <1>10

LEMMA AppendTwo ==
  ASSUME NEW S, NEW x \in S, NEW y \in S
  PROVE  Append(<<x>>, y) = <<x, y>>
<1> DEFINE a == Append(<<x>>, y)
           b == <<x, y>>
<1>1. a \in Seq(S) /\ Len(a) = 2 /\ a[1] = x /\ a[2] = y
  OBVIOUS
<1>2. b \in Seq(S) /\ Len(b) = 2 /\ b[1] = x /\ b[2] = y
  OBVIOUS
<1>3. \A i \in 1..2 : i = 1 \/ i = 2
  OBVIOUS
<1> HIDE DEF a, b
<1>4. a \in [1..2 -> S] /\ b \in [1..2 -> S] /\ \A i \in 1..2 : a[i] = b[i]
  BY <1>1, <1>2, <1>3
<1>5. a = b
  BY <1>4
<1> QED BY <1>5 DEF a, b

LEMMA DriversInit == Init => DriversInv
<1> SUFFICES ASSUME Init PROVE DriversInv
  OBVIOUS
<1> USE DEF Init, Empty
<1>1. MachineInv
  BY DEF MachineInv, MapOk
<1>2. RegistryInv /\ BindInv /\ OneOwner /\ OwnerInv
  BY DEF RegistryInv, BindInv, OneOwner, OwnerInv, DriverLists
<1>3. QueueInv
  BY DEF QueueInv
<1> QED BY <1>1, <1>2, <1>3 DEF DriversInv

LEMMA DriversStep == DriversInv /\ [Next]_vars => DriversInv'
<1> SUFFICES ASSUME DriversInv, [Next]_vars PROVE DriversInv'
  OBVIOUS
<1> USE DEF registries
<1>0. MachineInv /\ RegistryInv /\ BindInv /\ OneOwner /\ QueueInv /\ OwnerInv
  BY DEF DriversInv
(* Steps that leave the devices, the bindings and the disks handed over. *)
<1>a. ASSUME UNCHANGED <<devices, name_index, next_id, bindings, taken, rebound, engine>>,
             drivers' \in DriverLists
      PROVE  RegistryInv' /\ BindInv' /\ OneOwner' /\ OwnerInv'
  <2>1. RegistryInv'
    BY <1>0, <1>a DEF RegistryInv
  <2>2. next_id <= next_id'
    BY <1>0, <1>a DEF RegistryInv
  <2>3. BindInv' /\ OneOwner' /\ OwnerInv'
    BY <1>0, <1>a, <2>1, <2>2, DevicesChange
  <2> QED BY <2>1, <2>3
<1>b. ASSUME UNCHANGED <<memory_map, next, engine>>, pc # "start", pc' # "start"
      PROVE  MachineInv'
  BY <1>0, <1>b DEF MachineInv, MapOk
<1>d. drivers \in DriverLists
  BY <1>0 DEF BindInv
<1>1. CASE InitFrames
  <2> USE <1>1 DEF InitFrames
  <2>1. MapOk(memory_map')
    BY RegionsOk
  <2>2. MachineInv'
    BY <1>0, <2>1 DEF MachineInv
  <2>3. QueueInv'
    BY <1>0 DEF QueueInv
  <2> QED BY <1>a, <1>d, <2>2, <2>3 DEF DriversInv
<1>2. CASE InitHeap /\ UNCHANGED memory_map
  <2> USE <1>2 DEF InitHeap
  <2>1. PICK tables \in 0..MaxTables : next' = CursorAfter(next, HeapPages + tables)
    OBVIOUS
  <2>2. next' \in Nat
    <3>1. HeapPages + tables \in Nat
      BY BusAssumption
    <3>2. next \in Nat /\ MapOk(memory_map)
      BY <1>0 DEF MachineInv
    <3> QED BY <2>1, <3>1, <3>2, CursorFacts
  <2>3. MachineInv'
    BY <1>0, <2>2 DEF MachineInv, MapOk
  <2>4. QueueInv'
    BY <1>0 DEF QueueInv
  <2> QED BY <1>a, <1>d, <2>3, <2>4 DEF DriversInv
<1>3. CASE (PciInit \/ Hotplug) /\ UNCHANGED memory_map
  <2> USE <1>3 DEF PciInit, Hotplug, Up
  <2>1. Enumerate /\ drivers' \in DriverLists
    BY <1>d
  <2>2. RegistryInv' /\ next_id <= next_id'
    BY <1>0, <2>1, EnumerateKeeps
  <2>3. BindInv' /\ OneOwner' /\ OwnerInv'
    BY <1>0, <2>1, <2>2, DevicesChange
  <2>4. QueueInv'
    BY <1>0 DEF QueueInv
  <2> QED BY <1>b, <2>2, <2>3, <2>4 DEF DriversInv
<1>4. CASE RegisterDriver /\ UNCHANGED memory_map
  <2> USE <1>4 DEF RegisterDriver
  <2>1. drivers' \in DriverLists
    <3>1. CASE drivers = << >>
      BY <3>1 DEF DriverLists
    <3>2. CASE drivers = <<"virtio-blk">>
      <4>1. drivers' = Append(drivers, "ahci")
        BY <3>2
      <4>2. Append(<<"virtio-blk">>, "ahci") = <<"virtio-blk", "ahci">>
        <5> DEFINE S == {"virtio-blk", "ahci"}
        <5>1. "virtio-blk" \in S /\ "ahci" \in S
          OBVIOUS
        <5> HIDE DEF S
        <5> QED BY <5>1, AppendTwo, Zenon
      <4> QED BY <3>2, <4>1, <4>2 DEF DriverLists
    <3>3. CASE drivers = <<"virtio-blk", "ahci">>
      <4>1. Len(drivers) = 2
        BY <3>3
      <4> QED BY <4>1
    <3> QED BY <1>d, <3>1, <3>2, <3>3 DEF DriverLists
  <2>2. QueueInv'
    BY <1>0 DEF QueueInv
  <2> QED BY <1>a, <1>b, <2>1, <2>2 DEF DriversInv
<1>5. CASE BindAll /\ UNCHANGED memory_map
  <2> USE <1>5 DEF BindAll
  <2>1. next_id - 1 \in Nat /\ DOMAIN devices \subseteq 1..(next_id - 1)
    BY <1>0 DEF RegistryInv
  <2>2. InOrder(DOMAIN devices) \in Seq(DOMAIN devices)
    BY <2>1, OrderFacts
  <2>3. todo' \in Seq(Nat) /\ \A i \in 1..Len(todo') : todo'[i] \in DOMAIN devices'
    <3>1. \A s \in Seq(DOMAIN devices) : s \in Seq(Nat) /\ \A i \in 1..Len(s) : s[i] \in DOMAIN devices
      BY <2>1
    <3> QED BY <2>2, <3>1
  <2>4. QueueInv'
    BY <1>0, <2>3 DEF QueueInv
  <2> QED BY <1>a, <1>b, <1>d, <2>4 DEF DriversInv
<1>6. CASE BindNext /\ UNCHANGED memory_map
  <2> USE <1>6 DEF BindNext
  <2>1. todo \in Seq(Nat) /\ \A i \in 1..Len(todo) : todo[i] \in DOMAIN devices
    BY <1>0 DEF QueueInv
  <2>2. Head(todo) \in DOMAIN devices
    BY <2>1
  <2>3. Tail(todo) \in Seq(Nat) /\ \A i \in 1..Len(Tail(todo)) : Tail(todo)[i] \in DOMAIN devices
    BY <2>1
  <2>4. MachineInv' /\ RegistryInv' /\ BindInv' /\ OneOwner' /\ OwnerInv' /\ devices' = devices
    BY <1>0, <2>2, TryBindKeeps
  <2>5. QueueInv'
    BY <1>0, <2>3, <2>4 DEF QueueInv
  <2> QED BY <2>4, <2>5 DEF DriversInv
<1>7. CASE ForEachBlock /\ UNCHANGED memory_map
  <2> USE <1>7 DEF ForEachBlock
  <2>1. QueueInv'
    BY <1>0 DEF QueueInv
  <2> QED BY <1>a, <1>b, <1>d, <2>1 DEF DriversInv
<1>8. CASE NoBlockDevices /\ UNCHANGED memory_map
  <2> USE <1>8 DEF NoBlockDevices
  <2>1. QueueInv'
    BY <1>0 DEF QueueInv
  <2> QED BY <1>a, <1>b, <1>d, <2>1 DEF DriversInv
<1>9. CASE CallbackReturns /\ UNCHANGED memory_map
  <2> USE <1>9 DEF CallbackReturns
  <2>1. QueueInv'
    BY <1>0 DEF QueueInv
  <2> QED BY <1>a, <1>b, <1>d, <2>1 DEF DriversInv
<1>10. CASE BindOne /\ UNCHANGED memory_map
  <2> USE <1>10 DEF BindOne, Up
  <2>1. PICK id \in DOMAIN devices : TryBind(id)
    OBVIOUS
  <2>2. MachineInv' /\ RegistryInv' /\ BindInv' /\ OneOwner' /\ OwnerInv' /\ devices' = devices
    BY <1>0, <2>1, TryBindKeeps
  <2>3. QueueInv'
    BY <1>0, <2>2 DEF QueueInv
  <2> QED BY <2>2, <2>3 DEF DriversInv
<1>11. CASE Unbind /\ UNCHANGED memory_map
  <2> USE <1>11 DEF Unbind, Up
  <2>1. PICK id \in DOMAIN bindings : engine' = Stopped(id) /\ bindings' = Without(bindings, {id})
    OBVIOUS
  <2>2. engine' \in [Functions -> [Ports -> SUBSET Nat]] /\ BindInv' /\ OneOwner' /\ OwnerInv'
    BY <1>0, <2>1, UnbindKeeps
  <2>3. MachineInv' /\ RegistryInv'
    BY <1>0, <2>2 DEF MachineInv, MapOk, RegistryInv
  <2>4. QueueInv'
    BY <1>0 DEF QueueInv
  <2> QED BY <2>2, <2>3, <2>4 DEF DriversInv
<1>12. CASE TakeBlockDevice /\ UNCHANGED memory_map
  <2> USE <1>12 DEF TakeBlockDevice, Up
  <2>1. TakeLooksAt \subseteq DOMAIN bindings
    BY DEF TakeLooksAt
  <2>2. /\ DOMAIN bindings' = DOMAIN bindings \ TakeLooksAt
        /\ \A k \in DOMAIN bindings' : bindings'[k] = bindings[k]
    BY DEF Without
  <2>3. taken' \subseteq taken \cup TakenFrom(TakeLooksAt)
    BY DEF TakenFrom
  <2>4. BindInv' /\ OneOwner' /\ OwnerInv'
    BY <1>0, <2>1, <2>2, <2>3, BindingsGo
  <2>5. RegistryInv' /\ QueueInv'
    BY <1>0 DEF RegistryInv, QueueInv
  <2> QED BY <1>b, <2>4, <2>5 DEF DriversInv
<1>13. CASE TakeAllBlockDevices /\ UNCHANGED memory_map
  <2> USE <1>13 DEF TakeAllBlockDevices, Up
  <2>1. /\ DOMAIN bindings' = DOMAIN bindings \ DOMAIN bindings
        /\ \A k \in DOMAIN bindings' : bindings'[k] = bindings[k]
    BY DEF Empty
  <2>2. BindInv' /\ OneOwner' /\ OwnerInv'
    BY <1>0, <2>1, BindingsGo
  <2>3. RegistryInv' /\ QueueInv'
    BY <1>0 DEF RegistryInv, QueueInv
  <2> QED BY <1>b, <2>2, <2>3 DEF DriversInv
<1>14. CASE DropTaken /\ UNCHANGED memory_map
  <2> USE <1>14 DEF DropTaken, Up
  <2>1. taken' \subseteq taken
    OBVIOUS
  <2>2. /\ DOMAIN bindings' = DOMAIN bindings \ {}
        /\ \A k \in DOMAIN bindings' : bindings'[k] = bindings[k]
    OBVIOUS
  <2>3. BindInv' /\ OneOwner' /\ OwnerInv'
    BY <1>0, <2>1, <2>2, BindingsGo
  <2>4. RegistryInv' /\ QueueInv'
    BY <1>0 DEF RegistryInv, QueueInv
  <2> QED BY <1>b, <2>3, <2>4 DEF DriversInv
<1>15. CASE Unregister /\ UNCHANGED memory_map
  <2> USE <1>15 DEF Unregister, Up
  <2>1. PICK id \in DOMAIN devices :
          /\ devices' = Without(devices, {id}) /\ name_index' = IndexWithout(id)
    OBVIOUS
  <2>2. RegistryInv'
    BY <1>0, <2>1, UnregisterKeeps
  <2>3. next_id <= next_id'
    BY <1>0 DEF RegistryInv
  <2>4. BindInv' /\ OneOwner' /\ OwnerInv'
    BY <1>0, <1>d, <2>2, <2>3, DevicesChange
  <2>5. QueueInv'
    BY <1>0 DEF QueueInv
  <2> QED BY <1>b, <2>2, <2>4, <2>5 DEF DriversInv
<1>16. CASE UNCHANGED vars
  <2> USE <1>16 DEF vars
  <2>1. MachineInv' /\ QueueInv'
    BY <1>0 DEF MachineInv, MapOk, QueueInv
  <2> QED BY <1>a, <1>d, <2>1 DEF DriversInv
<1> QED
  BY <1>1, <1>2, <1>3, <1>4, <1>5, <1>6, <1>7, <1>8, <1>9, <1>10, <1>11, <1>12, <1>13, <1>14,
     <1>15, <1>16 DEF Next, Running

-----------------------------------------------------------------------------
(* Every frame a device may use was handed out, to that device's port      *)
(* only, and so was every frame of a disk in use, bound over or not. *)
UsedNow == Used(next)

Away(d, e) ==
  \A f \in Functions, p \in Ports :
    f # d.function \/ p # d.port => e[f][p] \cap FramesOf(d.bufs) = {}

PrivateInv ==
  /\ kernel \subseteq UsedNow
  /\ \A f \in Functions, p \in Ports :
       engine[f][p] \subseteq UsedNow /\ engine[f][p] \cap kernel = {}
  /\ \A f, g \in Functions, p, q \in Ports :
       f # g \/ p # q => engine[f][p] \cap engine[g][q] = {}
  /\ \A d \in Disks : FramesOf(d.bufs) \subseteq UsedNow /\ Away(d, engine)

LEMMA UsedNowStep ==
  ASSUME memory_map' = memory_map
  PROVE  UsedNow' = Used(next')
<1>1. Before' = Before
  BY DEF Before, FrameCount, Handed, Start, End
<1>2. Total' = Total
  BY <1>1 DEF Total
<1>3. \A k : FrameAt(k)' = FrameAt(k)
  BY <1>1 DEF FrameAt, PageDown, Start
<1> QED BY <1>2, <1>3 DEF UsedNow, Used

LEMMA PrivateInvIsPrivate ==
  ASSUME MapOk(memory_map), PrivateInv
  PROVE  DmaIsPrivate
<1> SUFFICES ASSUME NEW f \in Functions, NEW g \in Functions, NEW p \in Ports, NEW q \in Ports
             PROVE  /\ \A a \in engine[f][p] : UsableMemory(a)
                    /\ engine[f][p] \cap kernel = {}
                    /\ <<f, p>> # <<g, q>> =>
                         /\ engine[f][p] \cap engine[g][q] = {}
                         /\ \A d \in Disks : d.function = g /\ d.port = q =>
                                              engine[f][p] \cap FramesOf(d.bufs) = {}
  BY DEF DmaIsPrivate
<1>1. engine[f][p] \subseteq Used(next) /\ engine[f][p] \cap kernel = {}
  BY DEF PrivateInv, UsedNow
<1>2. \A a \in engine[f][p] : UsableMemory(a)
  BY <1>1, UsedUsable
<1>3. <<f, p>> # <<g, q>> => engine[f][p] \cap engine[g][q] = {}
  BY DEF PrivateInv
<1>4. \A d \in Disks : d.function = g /\ d.port = q /\ <<f, p>> # <<g, q>> =>
                        engine[f][p] \cap FramesOf(d.bufs) = {}
  BY DEF PrivateInv, Away
<1> QED BY <1>1, <1>2, <1>3, <1>4

(* Steps that give no memory to anyone. *)
LEMMA PrivateShrinks ==
  ASSUME MapOk(memory_map), PrivateInv, memory_map' = memory_map, next \in Nat, next' = next,
         kernel' = kernel, Disks' \subseteq Disks,
         \A f \in Functions, p \in Ports : engine'[f][p] \subseteq engine[f][p]
  PROVE  PrivateInv'
<1>1. UsedNow' = UsedNow
  BY UsedNowStep DEF UsedNow
<1>2. \A f \in Functions, p \in Ports :
        engine'[f][p] \subseteq UsedNow' /\ engine'[f][p] \cap kernel' = {}
  BY <1>1 DEF PrivateInv
<1>3. \A f, g \in Functions, p, q \in Ports :
        f # g \/ p # q => engine'[f][p] \cap engine'[g][q] = {}
  BY DEF PrivateInv
<1>4. kernel' \subseteq UsedNow'
  BY <1>1 DEF PrivateInv
<1>5. \A d \in Disks' : FramesOf(d.bufs) \subseteq UsedNow' /\ Away(d, engine')
  <2> TAKE d \in Disks'
  <2>1. FramesOf(d.bufs) \subseteq UsedNow /\ Away(d, engine)
    BY DEF PrivateInv
  <2>2. Away(d, engine')
    BY <2>1 DEF Away
  <2> QED BY <1>1, <2>1, <2>2
<1> QED BY <1>2, <1>3, <1>4, <1>5 DEF PrivateInv

LEMMA HeapPrivate ==
  ASSUME MapOk(memory_map), PrivateInv, memory_map' = memory_map, next \in Nat, engine' = engine,
         bindings' = bindings, taken' = taken,
         NEW n \in Nat, next' = CursorAfter(next, n),
         \/ Enough(next, n) /\ kernel' = FramesFrom(next, n)
         \/ kernel' = kernel
  PROVE  PrivateInv'
<1>1. next' \in Nat /\ next <= next'
  BY CursorFacts
<1>2. Used(next) \subseteq Used(next') /\ UsedNow' = Used(next') /\ UsedNow = Used(next)
  BY <1>1, UsedGrows, UsedNowStep DEF UsedNow
<1>3. kernel' \subseteq Used(next') /\ \A a \in kernel' : a \in kernel \/ a \notin Used(next)
  <2>1. CASE Enough(next, n) /\ kernel' = FramesFrom(next, n)
    <3>1. Total \in Nat /\ next + n <= Total /\ next' = next + n
      BY <2>1, TotalNat DEF Enough, CursorAfter
    <3>2. \A k \in next..(next + n - 1) : k \in 0..(Total - 1) /\ k >= next /\ k < next'
      BY <3>1
    <3>3. \A k \in next..(next + n - 1) : FrameAt(k) \in Used(next') /\ FrameAt(k) \notin Used(next)
      BY <3>2, NewNumbers DEF Used
    <3> QED BY <2>1, <3>3 DEF FramesFrom
  <2>2. CASE kernel' = kernel
    BY <1>2, <2>2 DEF PrivateInv
  <2> QED BY <2>1, <2>2
<1>4. \A f \in Functions, p \in Ports :
        engine'[f][p] \subseteq UsedNow' /\ engine'[f][p] \cap kernel' = {}
  BY <1>2, <1>3 DEF PrivateInv
<1>5. \A f, g \in Functions, p, q \in Ports :
        f # g \/ p # q => engine'[f][p] \cap engine'[g][q] = {}
  BY DEF PrivateInv
<1>6. \A d \in Disks' : FramesOf(d.bufs) \subseteq UsedNow' /\ Away(d, engine')
  <2>1. Disks' = Disks
    BY DEF Disks
  <2> QED BY <1>2, <2>1 DEF PrivateInv
<1> QED BY <1>2, <1>3, <1>4, <1>5, <1>6 DEF PrivateInv

(* A bind adds the disks its driver found. *)
LEMMA DisksBound ==
  ASSUME NEW id, NEW driver, NEW r, BindStep(id, driver, r), id \notin DOMAIN bindings,
         taken' = taken, NEW d \in Disks'
  PROVE  d \in Disks \/ \E i \in 1..Len(r.disks) : d = DiskOf(devices[id], r.disks[i])
<1> DEFINE b == [function |-> devices[id], driver |-> driver, disks |-> r.disks]
<1>1. b.function = devices[id] /\ b.disks = r.disks
  OBVIOUS
<1>2. \/ bindings' = bindings
      \/ bindings' = With(bindings, [k \in {id} |-> b])
  BY DEF BindStep
<1> HIDE DEF b
<1>3. \A k \in DOMAIN bindings' :
        \/ k \in DOMAIN bindings /\ bindings'[k] = bindings[k]
        \/ bindings'[k] = b
  BY <1>2 DEF With
<1>4. CASE \E k \in DOMAIN bindings' : \E i \in 1..Len(bindings'[k].disks) :
             d = DiskOf(bindings'[k].function, bindings'[k].disks[i])
  <2>1. PICK k \in DOMAIN bindings' : \E i \in 1..Len(bindings'[k].disks) :
             d = DiskOf(bindings'[k].function, bindings'[k].disks[i])
    BY <1>4
  <2>2. CASE k \in DOMAIN bindings /\ bindings'[k] = bindings[k]
    BY <2>1, <2>2, DisksAre
  <2>3. CASE bindings'[k] = b
    BY <1>1, <2>1, <2>3
  <2> QED BY <1>3, <2>2, <2>3
<1>5. CASE \E t \in taken' : d = DiskOf(t.function, t.disk)
  BY <1>5, DisksAre
<1> QED BY <1>4, <1>5, DisksAreNext

LEMMA BindPrivate ==
  ASSUME DmaSize <= PageSize, MachineInv, RegistryInv, BindInv, PrivateInv,
         NEW id \in DOMAIN devices, TryBind(id), memory_map' = memory_map
  PROVE  PrivateInv'
<1>0. MapOk(memory_map) /\ next \in Nat /\ engine \in [Functions -> [Ports -> SUBSET Nat]]
      /\ kernel' = kernel /\ taken' = taken
  BY DEF MachineInv, TryBind
<1>1. CASE UNCHANGED <<next, bindings, rebound, engine>>
  <2>1. Disks' = Disks
    BY <1>0, <1>1 DEF Disks
  <2> QED BY <1>0, <1>1, <2>1, PrivateShrinks
<1>2. CASE ~UNCHANGED <<next, bindings, rebound, engine>>
  <2> DEFINE f == devices[id]
  <2>1. PICK driver \in {"virtio-blk", "ahci"} : \E outcomes :
          /\ MatchesPci(driver, f) /\ BindStep(id, driver, Bound(driver, f, outcomes))
          /\ id \notin DOMAIN bindings
    BY <1>2, TryBindEffect, Zenon
  <2>2. PICK outcomes :
          /\ MatchesPci(driver, f) /\ BindStep(id, driver, Bound(driver, f, outcomes))
          /\ id \notin DOMAIN bindings
    BY <2>1
  <2> DEFINE r == Bound(driver, f, outcomes)
  <2>3. f \in Functions /\ engine[f] \in [Ports -> SUBSET Nat]
    BY <1>0 DEF RegistryInv
  <2>4. Apart(r, engine[f], next)
    <3>1. \A p \in Ports : engine[f][p] \subseteq Used(next)
      BY <2>3 DEF PrivateInv, UsedNow
    <3>2. \A p, q \in Ports : p # q => engine[f][p] \cap engine[f][q] = {}
      BY <2>3 DEF PrivateInv
    <3> HIDE DEF f
    <3> QED BY <1>0, <2>2, <2>3, <3>1, <3>2, BoundApart
  <2>5. /\ r \in BindState /\ next' = r.cursor /\ engine' = [engine EXCEPT ![f] = r.engine]
    BY <2>2 DEF BindStep
  <2>a. Owned(r.engine, r.disks) /\ r.disks \in Seq(DiskType)
    <3>1. Owned(r.engine, r.disks)
      BY <2>2, Zenon DEF BindStep
    <3> HIDE DEF r
    <3>2. r.disks \in DiskSeq
      BY <2>5 DEF BindState
    <3> QED BY <3>1, <3>2 DEF DiskSeq
  <2>b. \A d \in Disks' : d \in Disks \/ \E i \in 1..Len(r.disks) : d = DiskOf(f, r.disks[i])
    <3>1. BindStep(id, driver, r) /\ id \notin DOMAIN bindings /\ taken' = taken
      BY <1>0, <2>2
    <3> HIDE DEF r
    <3> QED BY <3>1, DisksBound
  <2> HIDE DEF f, r
  <2>6. /\ next' \in Nat /\ next <= next'
        /\ \A p \in Ports : /\ r.engine[p] \subseteq Used(next')
                            /\ \A a \in r.engine[p] : a \in engine[f][p] \/ a \notin Used(next)
        /\ \A p, q \in Ports : p # q => r.engine[p] \cap r.engine[q] = {}
    BY <2>4, <2>5 DEF Apart, BindState
  <2>7. Used(next) \subseteq Used(next') /\ UsedNow' = Used(next') /\ UsedNow = Used(next)
    BY <1>0, <2>6, UsedGrows, UsedNowStep DEF UsedNow
  <2>8. engine'[f] = r.engine /\ \A g \in Functions : g # f => engine'[g] = engine[g]
    BY <1>0, <2>3, <2>5
  <2>9. kernel' \subseteq UsedNow'
    BY <1>0, <2>7 DEF PrivateInv
  <2>10. ASSUME NEW g \in Functions, NEW p \in Ports
         PROVE  engine'[g][p] \subseteq UsedNow' /\ engine'[g][p] \cap kernel' = {}
    <3>1. engine[g][p] \subseteq Used(next) /\ engine[g][p] \cap kernel = {} /\ kernel \subseteq Used(next)
      BY <2>7 DEF PrivateInv
    <3>2. CASE g = f
      BY <1>0, <2>6, <2>7, <2>8, <3>1, <3>2
    <3>3. CASE g # f
      BY <1>0, <2>7, <2>8, <3>1, <3>3
    <3> QED BY <3>2, <3>3
  <2>11. ASSUME NEW g \in Functions, NEW h \in Functions, NEW p \in Ports, NEW q \in Ports,
                g # h \/ p # q
         PROVE  engine'[g][p] \cap engine'[h][q] = {}
    <3>1. engine[g][p] \cap engine[h][q] = {} /\ engine[g][p] \subseteq Used(next)
          /\ engine[h][q] \subseteq Used(next)
      BY <2>7, <2>11 DEF PrivateInv
    <3>2. CASE g # f /\ h # f
      BY <2>8, <3>1, <3>2
    <3>3. CASE g = f /\ h # f
      BY <2>6, <2>8, <3>1, <3>3
    <3>4. CASE g # f /\ h = f
      BY <2>6, <2>8, <3>1, <3>4
    <3>5. CASE g = f /\ h = f
      BY <2>6, <2>8, <2>11, <3>5
    <3> QED BY <3>2, <3>3, <3>4, <3>5
  <2>12. ASSUME NEW d \in Disks'
         PROVE  FramesOf(d.bufs) \subseteq UsedNow' /\ Away(d, engine')
    <3>1. CASE d \in Disks
      <4>1. FramesOf(d.bufs) \subseteq Used(next) /\ Away(d, engine)
        BY <2>7, <3>1 DEF PrivateInv
      <4>2. ASSUME NEW g \in Functions, NEW p \in Ports, g # d.function \/ p # d.port
            PROVE  engine'[g][p] \cap FramesOf(d.bufs) = {}
        <5>1. engine[g][p] \cap FramesOf(d.bufs) = {}
          BY <4>1, <4>2 DEF Away
        <5>2. CASE g = f
          BY <2>6, <2>8, <4>1, <5>1, <5>2
        <5>3. CASE g # f
          BY <2>8, <5>1, <5>3
        <5> QED BY <5>2, <5>3
      <4> QED BY <2>7, <4>1, <4>2 DEF Away
    <3>2. CASE \E i \in 1..Len(r.disks) : d = DiskOf(f, r.disks[i])
      <4>1. PICK i \in 1..Len(r.disks) : d = DiskOf(f, r.disks[i])
        BY <3>2
      <4>2. d.function = f /\ d.port = r.disks[i].port /\ d.bufs = r.disks[i].bufs
        BY <4>1 DEF DiskOf
      <4>3. d.port \in Ports
        <5>1. r.disks[i] \in DiskType
          BY <2>a
        <5>2. \A y \in DiskType : y.port \in Ports
          BY DEF DiskType
        <5> QED BY <4>2, <5>1, <5>2
      <4>4. FramesOf(d.bufs) = engine'[f][d.port]
        BY <2>8, <2>a, <4>2 DEF Owned
      <4>5. FramesOf(d.bufs) \subseteq UsedNow'
        BY <2>3, <2>10, <4>3, <4>4
      <4>6. Away(d, engine')
        BY <2>3, <2>11, <4>2, <4>3, <4>4 DEF Away
      <4> QED BY <4>5, <4>6
    <3> QED BY <2>b, <3>1, <3>2
  <2> QED BY <2>9, <2>10, <2>11, <2>12 DEF PrivateInv
<1> QED BY <1>1, <1>2

LEMMA PrivateStep ==
  ASSUME DmaSize <= PageSize, DriversInv, PrivateInv, [Next]_vars
  PROVE  PrivateInv'
<1> USE DEF registries
<1>0. /\ MachineInv /\ RegistryInv /\ BindInv /\ OneOwner /\ QueueInv /\ OwnerInv
      /\ MapOk(memory_map) /\ next \in Nat /\ engine \in [Functions -> [Ports -> SUBSET Nat]]
  BY DEF DriversInv, MachineInv
<1>a. ASSUME UNCHANGED <<memory_map, next, kernel, engine>>, Disks' \subseteq Disks
      PROVE  PrivateInv'
  BY <1>0, <1>a, PrivateShrinks
<1>1. CASE InitFrames
  <2> USE <1>1 DEF InitFrames
  <2>1. next = 0
    BY <1>0 DEF MachineInv
  <2>2. UsedNow = {}
    <3>1. Total \in Nat
      BY <1>0, TotalNat
    <3>2. {n \in 0..(Total - 1) : n < next} = {}
      BY <2>1, <3>1
    <3> QED BY <3>2 DEF UsedNow, Used
  <2>3. kernel' = {} /\ \A f \in Functions, p \in Ports : engine'[f][p] = {}
    BY <2>2 DEF PrivateInv
  <2>4. Disks' = Disks
    BY DEF Disks
  <2>5. \A d \in Disks' : FramesOf(d.bufs) \subseteq UsedNow' /\ Away(d, engine')
    BY <2>2, <2>4 DEF PrivateInv
  <2> QED BY <2>3, <2>5 DEF PrivateInv
<1>2. CASE InitHeap /\ UNCHANGED memory_map
  <2> USE <1>2 DEF InitHeap
  <2>1. PICK tables \in 0..MaxTables :
          LET n == HeapPages + tables IN
          /\ next' = CursorAfter(next, n)
          /\ IF Enough(next, n)
             THEN kernel' = FramesFrom(next, n) /\ pc' = "pci"
             ELSE pc' = "panic" /\ UNCHANGED kernel
    BY Zenon
  <2> DEFINE n == HeapPages + tables
  <2>2. n \in Nat
    BY BusAssumption
  <2> HIDE DEF n
  <2>3. /\ next' = CursorAfter(next, n)
        /\ \/ Enough(next, n) /\ kernel' = FramesFrom(next, n)
           \/ kernel' = kernel
    BY <2>1 DEF n
  <2> QED BY <1>0, <2>2, <2>3, HeapPrivate
<1>3. CASE BindNext /\ UNCHANGED memory_map
  <2> USE <1>3 DEF BindNext
  <2>1. todo \in Seq(Nat) /\ \A i \in 1..Len(todo) : todo[i] \in DOMAIN devices
    BY <1>0 DEF QueueInv
  <2>2. Head(todo) \in DOMAIN devices
    BY <2>1
  <2> QED BY <1>0, <2>2, BindPrivate
<1>4. CASE BindOne /\ UNCHANGED memory_map
  <2>1. PICK id \in DOMAIN devices : TryBind(id)
    BY <1>4 DEF BindOne
  <2> QED BY <1>0, <1>4, <2>1, BindPrivate
<1>5. CASE Unbind /\ UNCHANGED memory_map
  <2> USE <1>5 DEF Unbind
  <2>1. PICK id \in DOMAIN bindings : engine' = Stopped(id)
    OBVIOUS
  <2>2. \A f \in Functions, p \in Ports : engine'[f][p] \subseteq engine[f][p]
    BY <1>0, <2>1 DEF Stopped
  <2>3. Disks' \subseteq Disks
    <3>1. /\ DOMAIN bindings' \subseteq DOMAIN bindings
          /\ \A k \in DOMAIN bindings' : bindings'[k] = bindings[k]
      BY DEF Without
    <3> QED BY <3>1, DisksAre, DisksAreNext
  <2> QED BY <1>0, <2>2, <2>3, PrivateShrinks
<1>6. CASE (TakeBlockDevice \/ TakeAllBlockDevices \/ DropTaken) /\ UNCHANGED memory_map
  <2>1. Disks' \subseteq Disks
    <3>1. CASE TakeBlockDevice
      <4> USE <3>1 DEF TakeBlockDevice
      <4>1. TakeLooksAt \subseteq DOMAIN bindings
        BY DEF TakeLooksAt
      <4>2. /\ DOMAIN bindings' = DOMAIN bindings \ TakeLooksAt
            /\ \A k \in DOMAIN bindings' : bindings'[k] = bindings[k]
        BY DEF Without
      <4>3. taken' \subseteq taken \cup TakenFrom(TakeLooksAt)
        BY DEF TakenFrom
      <4> QED BY <1>0, <4>1, <4>2, <4>3, BindingsGo
    <3>2. CASE TakeAllBlockDevices
      <4> USE <3>2 DEF TakeAllBlockDevices
      <4>1. /\ DOMAIN bindings' = DOMAIN bindings \ DOMAIN bindings
            /\ \A k \in DOMAIN bindings' : bindings'[k] = bindings[k]
        BY DEF Empty
      <4> QED BY <1>0, <4>1, BindingsGo
    <3>3. CASE DropTaken
      <4>1. bindings' = bindings /\ taken' \subseteq taken
        BY <3>3 DEF DropTaken
      <4> QED BY <4>1, DisksAre, DisksAreNext
    <3> QED BY <1>6, <3>1, <3>2, <3>3
  <2> QED BY <1>6, <1>a, <2>1 DEF TakeBlockDevice, TakeAllBlockDevices, DropTaken
<1>7. CASE UNCHANGED <<memory_map, next, kernel, bindings, taken, engine>>
  <2>1. Disks' = Disks
    BY <1>7 DEF Disks
  <2> QED BY <1>7, <1>a, <2>1
<1>8. ASSUME Running /\ UNCHANGED memory_map,
             ~InitHeap, ~BindNext, ~BindOne, ~Unbind,
             ~(TakeBlockDevice \/ TakeAllBlockDevices \/ DropTaken)
      PROVE  UNCHANGED <<memory_map, next, kernel, bindings, taken, engine>>
  BY <1>8 DEF Running, PciInit, RegisterDriver, BindAll, ForEachBlock, NoBlockDevices,
              CallbackReturns, Hotplug, Unregister
<1> QED
  BY <1>1, <1>2, <1>3, <1>4, <1>5, <1>6, <1>7, <1>8 DEF Next, vars

LEMMA PrivateInit == Init => PrivateInv
<1> SUFFICES ASSUME Init PROVE PrivateInv
  OBVIOUS
<1>1. kernel = {} /\ \A f \in Functions, p \in Ports : engine[f][p] = {}
  BY DEF Init
<1>2. Disks = {}
  BY DEF Init, Disks, Empty
<1> QED BY <1>1, <1>2 DEF PrivateInv

-----------------------------------------------------------------------------
(* The invariant of the registries, the queues and the disks' owners holds *)
(* from the boot loader's memory map on. *)
THEOREM DriversInvariant == Spec => []DriversInv
<1>1. Init => DriversInv
  BY DriversInit
<1>2. DriversInv /\ [Next]_vars => DriversInv'
  BY DriversStep
<1> QED BY <1>1, <1>2, PTL DEF Spec

(* A disk that is bound or was handed over is the one its port was         *)
(* programmed for last, whatever was bound, unbound, taken, dropped,       *)
(* unregistered or enumerated again since, as long as no function was      *)
(* bound while a disk of it was in use. *)
THEOREM DriversOwner == Spec => []OwnerIsProgrammed
<1>1. DriversInv => OwnerIsProgrammed
  BY OwnerInvIsOwner DEF DriversInv
<1> QED BY <1>1, DriversInvariant, PTL

(* When a DMA request is of at most a page, as all of the drivers' are,    *)
(* and no two usable regions reach into one page, the memory a device may  *)
(* use is nobody else's and lies in pages a usable region reaches into,    *)
(* whatever callers and callbacks do to the registries. *)
THEOREM DriversDmaPrivate ==
  ASSUME DmaSize <= PageSize
  PROVE  Spec => []DmaIsPrivate
<1>1. Init => DriversInv /\ PrivateInv
  BY DriversInit, PrivateInit
<1>2. DriversInv /\ PrivateInv /\ [Next]_vars => (DriversInv /\ PrivateInv)'
  BY DriversStep, PrivateStep
<1>3. DriversInv /\ PrivateInv => DmaIsPrivate
  BY PrivateInvIsPrivate DEF DriversInv, MachineInv
<1> QED BY <1>1, <1>2, <1>3, PTL DEF Spec
============================================================================
