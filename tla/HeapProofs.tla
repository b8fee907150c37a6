----------------------------- MODULE HeapProofs -----------------------------
(* Proofs about the heap allocators for every heap, every set of layouts and  *)
(* every size of a list node: the linked list keeps its memory apart.         *)
EXTENDS Heap, SequenceTheorems, FiniteSetTheorems, TLAPS

(* Rounding up never goes down, whatever the alignment.                       *)
LEMMA AlignUpGrows ==
    ASSUME NEW a \in Nat, NEW n \in Nat \ {0}
    PROVE  AlignUp(a, n) \in Nat /\ AlignUp(a, n) >= a
<1> DEFINE q == (a + n - 1) \div n
<1>1. q \in Nat /\ a + n - 1 < n * q + n
  BY SMT
<1> QED
  BY <1>1, SMT DEF AlignUp

(* Divisibility, in terms of a quotient.                                      *)
LEMMA MultipleOf ==
    ASSUME NEW n \in Nat \ {0}, NEW q \in Nat
    PROVE  (n * q) % n = 0
BY SMT

(* ... and back.                                                              *)
LEMMA Quotient ==
    ASSUME NEW n \in Nat \ {0}, NEW a \in Nat, a % n = 0
    PROVE  \E q \in Nat : a = n * q
BY SMT

(* Sums of multiples are multiples.                                           *)
LEMMA MultiplesAdd ==
    ASSUME NEW n \in Nat \ {0}, NEW a \in Nat, NEW b \in Nat, a % n = 0, b % n = 0
    PROVE  (a + b) % n = 0
<1>1. PICK p \in Nat : a = n * p
  BY Quotient
<1>2. PICK q \in Nat : b = n * q
  BY Quotient
<1>3. a + b = n * (p + q) /\ p + q \in Nat
  BY <1>1, <1>2
<1> QED
  BY <1>3, MultipleOf

(* A multiple of a multiple is a multiple.                                    *)
LEMMA MultiplesChain ==
    ASSUME NEW n \in Nat \ {0}, NEW m \in Nat \ {0}, NEW a \in Nat,
           a % n = 0, n % m = 0
    PROVE  a % m = 0
<1>1. PICK p \in Nat : a = n * p
  BY Quotient
<1>2. PICK q \in Nat : n = m * q
  BY Quotient
<1>3. a = m * (q * p) /\ q * p \in Nat
  BY <1>1, <1>2
<1> QED
  BY <1>3, MultipleOf

(* Rounding up gives a multiple of the alignment.                             *)
LEMMA AlignUpAligns ==
    ASSUME NEW a \in Nat, NEW n \in Nat \ {0}
    PROVE  AlignUp(a, n) % n = 0
<1>1. (a + n - 1) \div n \in Nat
  BY SMT
<1> QED
  BY <1>1, MultipleOf DEF AlignUp

(* A span inside another one, by its ends.                                    *)
LEMMA SpanInside ==
    ASSUME NEW a \in Nat, NEW m \in Nat, NEW c \in Nat, NEW n \in Nat,
           a <= c, c + n <= a + m
    PROVE  Span(c, n) \subseteq Span(a, m)
BY DEF Span

(* Two spans of which one begins where the other ends.                        *)
LEMMA SpansMeet ==
    ASSUME NEW a \in Nat, NEW m \in Nat, NEW n \in Nat
    PROVE  Span(a, m) \cap Span(a + m, n) = {}
BY DEF Span

(* What is left of a list after one of its elements is taken out.             *)
LEMMA RemoveOne ==
    ASSUME NEW S, NEW s \in Seq(S), NEW i \in 1 .. Len(s)
    PROVE  /\ RemoveAt(s, i) \in Seq(S) /\ Len(RemoveAt(s, i)) = Len(s) - 1
           /\ \A k \in DOMAIN RemoveAt(s, i) :
                  /\ RemoveAt(s, i)[k] = s[IF k < i THEN k ELSE k + 1]
                  /\ (IF k < i THEN k ELSE k + 1) \in DOMAIN s \ {i}
<1> DEFINE front == SubSeq(s, 1, i - 1)
           back == SubSeq(s, i + 1, Len(s))
<1>1. /\ front \in Seq(S) /\ Len(front) = i - 1
      /\ \A k \in 1 .. i - 1 : front[k] = s[k]
  BY SMT
<1>2. /\ back \in Seq(S) /\ Len(back) = Len(s) - i
      /\ \A k \in 1 .. Len(s) - i : back[k] = s[k + i]
  BY SMT
<1>3. RemoveAt(s, i) = front \o back
  BY DEF RemoveAt
<1> HIDE DEF front, back
<1>4. /\ front \o back \in Seq(S) /\ Len(front \o back) = Len(s) - 1
      /\ \A k \in 1 .. Len(s) - 1 :
             (front \o back)[k] = IF k <= i - 1 THEN front[k] ELSE back[k - (i - 1)]
  <2>1. Len(front) + Len(back) = Len(s) - 1
    BY <1>1, <1>2
  <2>2. /\ front \o back \in Seq(S) /\ Len(front \o back) = Len(front) + Len(back)
        /\ \A k \in 1 .. Len(front) + Len(back) :
               (front \o back)[k] = IF k <= Len(front) THEN front[k]
                                    ELSE back[k - Len(front)]
    BY <1>1, <1>2, ConcatProperties, Zenon
  <2> QED
    BY <1>1, <2>1, <2>2, Zenon
<1>5. DOMAIN RemoveAt(s, i) = 1 .. Len(s) - 1
  BY <1>3, <1>4, LenProperties
<1>6. ASSUME NEW k \in 1 .. Len(s) - 1
      PROVE  (front \o back)[k] = s[IF k < i THEN k ELSE k + 1]
  BY <1>1, <1>2, <1>4, SMT
<1>7. ASSUME NEW k \in 1 .. Len(s) - 1
      PROVE  (IF k < i THEN k ELSE k + 1) \in DOMAIN s \ {i}
  BY LenProperties
<1>8. RemoveAt(s, i) \in Seq(S) /\ Len(RemoveAt(s, i)) = Len(s) - 1
  BY <1>3, <1>4
<1>9. ASSUME NEW k \in DOMAIN RemoveAt(s, i)
      PROVE  /\ RemoveAt(s, i)[k] = s[IF k < i THEN k ELSE k + 1]
             /\ (IF k < i THEN k ELSE k + 1) \in DOMAIN s \ {i}
  BY <1>3, <1>5, <1>6, <1>7
<1> QED
  BY <1>8, <1>9, Zenon

-----------------------------------------------------------------------------
(* What the proof carries along besides RegionsApart: the types of the list   *)
(* and of the linked list's blocks.                                           *)
RegionInv ==
    /\ kind = "linked_list" => live \subseteq Blocks
    /\ free \in Seq([start : Nat, size : Nat])
    /\ RegionsApart

(* A layout's size and alignment, adjusted, are those of some memory.         *)
LEMMA AdjustedLayout ==
    ASSUME NEW l \in Layouts
    PROVE  LlAlign(l) \in Nat \ {0} /\ LlSize(l) \in Nat /\ LlSize(l) >= l.size
<1>1. l.size \in Nat /\ l.align \in Nat \ {0}
  BY HeapAssumption
<1>2. LlAlign(l) \in Nat \ {0}
  BY <1>1, NodeAssumption DEF LlAlign
<1>3. LlPadded(l) \in Nat /\ LlPadded(l) >= l.size
  BY <1>1, <1>2, AlignUpGrows DEF LlPadded
<1> QED
  BY <1>1, <1>2, <1>3, NodeAssumption DEF LlSize

(* The block that alloc cuts out of a region, and the excess behind it, lie   *)
(* in that region and apart from each other.                                  *)
LEMMA CutRegion ==
    ASSUME NEW r \in [start : Nat, size : Nat], NEW l \in Layouts,
           AllocFromRegion(r, l)
    PROVE  /\ AllocStart(r, l) \in Nat /\ AllocEnd(r, l) \in Nat
           /\ RegionEnd(r) - AllocEnd(r, l) \in Nat
           /\ Span(AllocStart(r, l), LlSize(l)) \subseteq RegionSpan(r)
           /\ Span(AllocEnd(r, l), RegionEnd(r) - AllocEnd(r, l)) \subseteq RegionSpan(r)
           /\ Span(AllocStart(r, l), LlSize(l))
                 \cap Span(AllocEnd(r, l), RegionEnd(r) - AllocEnd(r, l)) = {}
<1> DEFINE s == AllocStart(r, l)
           n == LlSize(l)
           e == RegionEnd(r) - AllocEnd(r, l)
<1>1. s \in Nat /\ r.start <= s /\ n \in Nat
  BY AdjustedLayout, AlignUpGrows DEF AllocStart
<1>2. AllocEnd(r, l) = s + n
  BY DEF AllocEnd
<1>3. s + n <= r.start + r.size /\ e = r.start + r.size - (s + n)
  BY <1>1, <1>2 DEF AllocFromRegion, RegionEnd
<1> HIDE DEF s, n, e
<1>4. e \in Nat /\ s + n + e = r.start + r.size
  BY <1>1, <1>3
<1>5. Span(s, n) \subseteq Span(r.start, r.size)
  BY <1>1, <1>3, SpanInside
<1>6. Span(s + n, e) \subseteq Span(r.start, r.size)
  BY <1>1, <1>4, SpanInside
<1>7. Span(s, n) \cap Span(s + n, e) = {}
  BY <1>1, <1>4, SpansMeet
<1> QED
  BY <1>1, <1>2, <1>4, <1>5, <1>6, <1>7 DEF RegionSpan, s, n, e

(* The list starts with the whole heap.                                       *)
LEMMA RegionStart == HeapInit => RegionInv
<1> SUFFICES ASSUME HeapInit PROVE RegionInv
  OBVIOUS
<1>1. live = {} /\ free = <<[start |-> HeapStart, size |-> HeapSize]>>
  BY DEF HeapInit, GInit, LlInit
<1>2. free \in Seq([start : Nat, size : Nat]) /\ DOMAIN free = {1}
  BY <1>1, HeapAssumption
<1>3. RegionSpan(free[1]) = HeapSpan
  BY <1>1 DEF RegionSpan, HeapSpan
<1> QED
  BY <1>1, <1>2, <1>3 DEF RegionInv, RegionsApart

(* alloc keeps the memory apart: the block and the excess take the place of   *)
(* the region that find_region removed.                                       *)
LEMMA RegionAlloc ==
    ASSUME RegionInv, kind = "linked_list", NEW l \in Layouts, LlAlloc(l), UNCHANGED kind
    PROVE  RegionInv'
<1> DEFINE R == [start : Nat, size : Nat]
<1>1. PICK i \in DOMAIN free :
        /\ FindRegion(i, l)
        /\ free' = IF RegionEnd(free[i]) > AllocEnd(free[i], l)
                   THEN AddFreeRegion(RemoveAt(free, i), AllocEnd(free[i], l),
                                      RegionEnd(free[i]) - AllocEnd(free[i], l))
                   ELSE RemoveAt(free, i)
        /\ live' = live \cup {[start |-> AllocStart(free[i], l), layout |-> l]}
  BY DEF LlAlloc
<1> DEFINE r == free[i]
           b == [start |-> AllocStart(r, l), layout |-> l]
           x == [start |-> AllocEnd(r, l), size |-> RegionEnd(r) - AllocEnd(r, l)]
           rest == RemoveAt(free, i)
<1>2. free \in Seq(R) /\ i \in 1 .. Len(free) /\ r \in R
  BY LenProperties, ElementOfSeq DEF RegionInv
<1>3. /\ b \in Blocks /\ x \in R
      /\ LlBlockSpan(b) \subseteq RegionSpan(r) /\ RegionSpan(x) \subseteq RegionSpan(r)
      /\ LlBlockSpan(b) \cap RegionSpan(x) = {}
  BY <1>1, <1>2, CutRegion DEF FindRegion, LlBlockSpan, RegionSpan, Blocks
<1>4. /\ rest \in Seq(R)
      /\ \A k \in DOMAIN rest :
             /\ rest[k] = free[IF k < i THEN k ELSE k + 1]
             /\ (IF k < i THEN k ELSE k + 1) \in DOMAIN free \ {i}
  BY <1>2, RemoveOne
<1>5. free' = rest \/ free' = <<x>> \o rest
  BY <1>1 DEF AddFreeRegion
<1> HIDE DEF r, b, x, rest
<1>6. free' \in Seq(R)
  <2>1. <<x>> \in Seq(R)
    BY <1>3
  <2>2. rest \in Seq(R)
    BY <1>4
  <2> HIDE DEF R
  <2>3. <<x>> \o rest \in Seq(R)
    BY <2>1, <2>2, ConcatProperties, Zenon
  <2> QED
    BY <1>5, <2>2, <2>3, Zenon
<1>7. live' = live \cup {b}
  BY <1>1 DEF b, r
<1>8. /\ r = free[i] /\ DOMAIN free = 1 .. Len(free) /\ Len(free) \in Nat
      /\ DOMAIN rest = 1 .. Len(rest) /\ Len(rest) \in Nat
  BY <1>2, <1>4, LenProperties DEF r
<1>9. PICK src \in [DOMAIN free' -> 0 .. Len(free)] :
        /\ \A k \in DOMAIN free' :
               /\ src[k] # i
               /\ free'[k] = IF src[k] = 0 THEN x ELSE free[src[k]]
        /\ \A k, m \in DOMAIN free' : src[k] = src[m] => k = m
  <2>1. CASE free' = rest
    <3> DEFINE old(k) == IF k < i THEN k ELSE k + 1
               f == [k \in DOMAIN rest |-> old(k)]
    <3>1. ASSUME NEW k \in DOMAIN rest
          PROVE  old(k) \in 1 .. Len(free) /\ old(k) # i /\ rest[k] = free[old(k)]
      BY <1>4, <1>8
    <3>2. ASSUME NEW k \in DOMAIN rest, NEW m \in DOMAIN rest, old(k) = old(m)
          PROVE  k = m
      <4>1. k \in Nat /\ m \in Nat /\ i \in Nat
        BY <1>2, <1>8
      <4> QED
        BY <3>2, <4>1
    <3> HIDE DEF old
    <3>3. f \in [DOMAIN rest -> 0 .. Len(free)]
      BY <3>1
    <3>4. ASSUME NEW k \in DOMAIN rest
          PROVE  f[k] = old(k) /\ f[k] # i /\ f[k] # 0 /\ rest[k] = free[f[k]]
      BY <3>1
    <3>5. ASSUME NEW k \in DOMAIN rest, NEW m \in DOMAIN rest, f[k] = f[m]
          PROVE  k = m
      BY <3>2, <3>4, <3>5
    <3> HIDE DEF f
    <3> QED
      BY <2>1, <3>3, <3>4, <3>5
  <2>2. CASE free' = <<x>> \o rest
    <3> DEFINE old(k) == IF k - 1 < i THEN k - 1 ELSE k
               f == [k \in DOMAIN free' |-> IF k = 1 THEN 0 ELSE old(k)]
    <3>1. /\ DOMAIN free' = 1 .. Len(rest) + 1
          /\ free'[1] = x /\ \A k \in 2 .. Len(rest) + 1 : free'[k] = rest[k - 1]
      BY <1>3, <1>4, <1>8, <2>2
    <3>2. ASSUME NEW k \in 2 .. Len(rest) + 1
          PROVE  /\ free'[k] = free[old(k)]
                 /\ old(k) \in 1 .. Len(free) /\ old(k) # i /\ old(k) # 0
      <4>1. k - 1 \in DOMAIN rest /\ k - 1 + 1 = k
        BY <1>8
      <4>2. free'[k] = rest[k - 1] /\ old(k) = IF k - 1 < i THEN k - 1 ELSE (k - 1) + 1
        BY <3>1, <4>1
      <4>3. free'[k] = free[old(k)] /\ old(k) \in DOMAIN free \ {i}
        BY <1>4, <4>1, <4>2
      <4> QED
        BY <1>8, <4>3
    <3>3. ASSUME NEW k \in 2 .. Len(rest) + 1, NEW m \in 2 .. Len(rest) + 1,
                 old(k) = old(m)
          PROVE  k = m
      <4>1. k \in Nat /\ m \in Nat /\ i \in Nat
        BY <1>2, <1>8
      <4> QED
        BY <3>3, <4>1
    <3> HIDE DEF old
    <3>4. \A k \in DOMAIN free' : k = 1 \/ k \in 2 .. Len(rest) + 1
      BY <1>8, <3>1
    <3>5. f \in [DOMAIN free' -> 0 .. Len(free)]
      BY <1>8, <3>2, <3>4
    <3>6. ASSUME NEW k \in DOMAIN free'
          PROVE  /\ f[k] = IF k = 1 THEN 0 ELSE old(k)
                 /\ f[k] # i /\ free'[k] = IF f[k] = 0 THEN x ELSE free[f[k]]
      BY <1>2, <3>1, <3>2, <3>4
    <3>7. ASSUME NEW k \in DOMAIN free', NEW m \in DOMAIN free', f[k] = f[m]
          PROVE  k = m
      <4>1. f[k] = (IF k = 1 THEN 0 ELSE old(k)) /\ f[m] = IF m = 1 THEN 0 ELSE old(m)
        BY <3>6
      <4>2. CASE k = 1
        BY <3>2, <3>4, <3>7, <4>1, <4>2
      <4>3. CASE m = 1
        BY <3>2, <3>4, <3>7, <4>1, <4>3
      <4>4. CASE k # 1 /\ m # 1
        BY <3>3, <3>4, <3>7, <4>1, <4>4
      <4> QED
        BY <4>2, <4>3, <4>4
    <3> HIDE DEF f
    <3> QED
      BY <3>5, <3>6, <3>7
  <2> QED
    BY <1>5, <2>1, <2>2
<1>10. /\ \A j \in DOMAIN free : RegionSpan(free[j]) \subseteq HeapSpan
       /\ \A c \in live : LlBlockSpan(c) \subseteq HeapSpan
       /\ \A j, k \in DOMAIN free :
              j # k => RegionSpan(free[j]) \cap RegionSpan(free[k]) = {}
       /\ \A c, d \in live : c # d => LlBlockSpan(c) \cap LlBlockSpan(d) = {}
       /\ \A j \in DOMAIN free, c \in live : RegionSpan(free[j]) \cap LlBlockSpan(c) = {}
  BY DEF RegionInv, RegionsApart
(* A new region is the excess or an old region other than the one removed.    *)
<1>11. ASSUME NEW k \in DOMAIN free'
       PROVE  \/ src[k] = 0 /\ free'[k] = x
              \/ src[k] \in DOMAIN free \ {i} /\ free'[k] = free[src[k]]
  BY <1>8, <1>9
<1>12. /\ RegionSpan(r) \subseteq HeapSpan
       /\ \A j \in DOMAIN free \ {i} : RegionSpan(free[j]) \cap RegionSpan(r) = {}
       /\ \A c \in live : RegionSpan(r) \cap LlBlockSpan(c) = {}
  BY <1>8, <1>10
<1>13. ASSUME NEW k \in DOMAIN free'
       PROVE  /\ RegionSpan(free'[k]) \subseteq HeapSpan
              /\ RegionSpan(free'[k]) \cap LlBlockSpan(b) = {}
              /\ \A c \in live : RegionSpan(free'[k]) \cap LlBlockSpan(c) = {}
  <2>1. CASE free'[k] = x
    BY <1>3, <1>12, <2>1
  <2>2. CASE src[k] \in DOMAIN free \ {i} /\ free'[k] = free[src[k]]
    <3>1. PICK j \in DOMAIN free \ {i} : free'[k] = free[j]
      BY <2>2
    <3> QED
      BY <1>3, <1>10, <1>12, <3>1
  <2> QED
    BY <1>11, <2>1, <2>2
<1>14. ASSUME NEW k \in DOMAIN free', NEW m \in DOMAIN free', k # m
       PROVE  RegionSpan(free'[k]) \cap RegionSpan(free'[m]) = {}
  <2>1. src[k] # src[m]
    BY <1>9, <1>14
  <2>2. ASSUME NEW j \in DOMAIN free \ {i}
        PROVE  RegionSpan(free[j]) \cap RegionSpan(x) = {}
    BY <1>3, <1>12
  <2>3. ASSUME NEW j \in DOMAIN free \ {i}, NEW n \in DOMAIN free \ {i}, j # n
        PROVE  RegionSpan(free[j]) \cap RegionSpan(free[n]) = {}
    BY <1>10, <2>3
  <2> QED
    BY <1>11, <2>1, <2>2, <2>3
<1>15. /\ LlBlockSpan(b) \subseteq HeapSpan
       /\ \A c \in live : LlBlockSpan(b) \cap LlBlockSpan(c) = {}
  BY <1>3, <1>12
<1>16. ASSUME NEW c \in live', NEW d \in live', c # d
       PROVE  LlBlockSpan(c) \cap LlBlockSpan(d) = {}
  BY <1>7, <1>10, <1>15, <1>16
<1>17. ASSUME NEW c \in live'
       PROVE  LlBlockSpan(c) \subseteq HeapSpan
  BY <1>7, <1>10, <1>15
<1>18. ASSUME NEW k \in DOMAIN free', NEW c \in live'
       PROVE  RegionSpan(free'[k]) \cap LlBlockSpan(c) = {}
  BY <1>7, <1>13
<1>19. RegionsApart'
  BY <1>13, <1>14, <1>16, <1>17, <1>18 DEF RegionsApart, LlBlockSpan, RegionSpan
<1> QED
  BY <1>3, <1>6, <1>7, <1>19 DEF RegionInv

(* dealloc turns a block into a region of the same addresses.                 *)
LEMMA RegionDealloc ==
    ASSUME RegionInv, kind = "linked_list", NEW b \in live, LlDealloc(b), UNCHANGED kind
    PROVE  RegionInv'
<1> DEFINE R == [start : Nat, size : Nat]
           x == [start |-> b.start, size |-> LlSize(b.layout)]
<1>1. live' = live \ {b} /\ free' = <<x>> \o free
  BY DEF LlDealloc, AddFreeRegion
<1>2. b \in Blocks /\ b.layout \in Layouts /\ b.start \in Nat
  BY DEF RegionInv, Blocks
<1>3. x \in R /\ RegionSpan(x) = LlBlockSpan(b)
  BY <1>2, AdjustedLayout DEF RegionSpan, LlBlockSpan
<1>4. free \in Seq(R) /\ DOMAIN free = 1 .. Len(free) /\ Len(free) \in Nat
  BY LenProperties DEF RegionInv
<1> HIDE DEF x
<1>5. /\ free' \in Seq(R) /\ DOMAIN free' = 1 .. Len(free) + 1
      /\ free'[1] = x /\ \A k \in 2 .. Len(free) + 1 : free'[k] = free[k - 1]
  BY <1>1, <1>3, <1>4
<1>6. /\ \A j \in DOMAIN free : RegionSpan(free[j]) \subseteq HeapSpan
      /\ \A c \in live : LlBlockSpan(c) \subseteq HeapSpan
      /\ \A j, k \in DOMAIN free :
             j # k => RegionSpan(free[j]) \cap RegionSpan(free[k]) = {}
      /\ \A c, d \in live : c # d => LlBlockSpan(c) \cap LlBlockSpan(d) = {}
      /\ \A j \in DOMAIN free, c \in live : RegionSpan(free[j]) \cap LlBlockSpan(c) = {}
  BY DEF RegionInv, RegionsApart
<1>7. ASSUME NEW k \in DOMAIN free'
      PROVE  \/ k = 1 /\ free'[k] = x
             \/ k - 1 \in DOMAIN free /\ free'[k] = free[k - 1]
  <2>1. k = 1 \/ k \in 2 .. Len(free) + 1
    BY <1>4, <1>5
  <2>2. ASSUME k \in 2 .. Len(free) + 1
        PROVE  k - 1 \in DOMAIN free
    BY <1>4, <2>2
  <2> QED
    BY <1>5, <2>1, <2>2
<1>8. ASSUME NEW k \in DOMAIN free'
      PROVE  /\ RegionSpan(free'[k]) \subseteq HeapSpan
             /\ \A c \in live' : RegionSpan(free'[k]) \cap LlBlockSpan(c) = {}
  BY <1>1, <1>3, <1>6, <1>7
<1>9. ASSUME NEW k \in DOMAIN free', NEW m \in DOMAIN free', k # m
      PROVE  RegionSpan(free'[k]) \cap RegionSpan(free'[m]) = {}
  <2>1. k - 1 # m - 1
    BY <1>5, <1>9
  <2> QED
    BY <1>3, <1>6, <1>7, <1>9, <2>1
<1>10. RegionsApart'
  BY <1>1, <1>6, <1>8, <1>9 DEF RegionsApart, LlBlockSpan, RegionSpan
<1> QED
  BY <1>1, <1>5, <1>10 DEF RegionInv

(* The other two allocators leave the list alone.                             *)
LEMMA OtherAllocators ==
    ASSUME RegionInv, FixedSizeBlockStep \/ BumpStep
    PROVE  RegionInv'
<1>1. free' = free /\ kind' = kind /\ kind # "linked_list"
  BY DEF FixedSizeBlockStep, BumpStep, llVars
<1> QED
  BY <1>1 DEF RegionInv, RegionsApart

(* Every step keeps the regions and the linked list's blocks apart.           *)
LEMMA RegionStep == RegionInv /\ [HeapNext]_heapVars => RegionInv'
<1> SUFFICES ASSUME RegionInv, [HeapNext]_heapVars PROVE RegionInv'
  OBVIOUS
<1>1. CASE LinkedListStep
  <2>1. kind = "linked_list" /\ UNCHANGED kind
    BY <1>1 DEF LinkedListStep
  <2>2. ASSUME NEW l \in Layouts, LlAlloc(l) PROVE RegionInv'
    BY <2>1, <2>2, RegionAlloc
  <2>3. ASSUME NEW b \in live, LlDealloc(b) PROVE RegionInv'
    BY <2>1, <2>3, RegionDealloc
  <2> QED
    BY <1>1, <2>2, <2>3 DEF LinkedListStep
<1>2. CASE FixedSizeBlockStep \/ BumpStep
  BY <1>2, OtherAllocators
<1>3. CASE UNCHANGED heapVars
  BY <1>3 DEF RegionInv, RegionsApart, heapVars, LlBlockSpan, RegionSpan
<1> QED
  BY <1>1, <1>2, <1>3 DEF HeapNext

(* For every heap, every set of layouts, every size and alignment of a list   *)
(* node and every sequence of calls, alloc and dealloc of the linked list     *)
(* keep all regions and blocks disjoint and inside the heap.                  *)
THEOREM LinkedListKeepsApart == HeapSpec => []RegionsApart
<1>1. RegionInv => RegionsApart
  BY DEF RegionInv
<1> QED
  BY RegionStart, RegionStep, <1>1, PTL DEF HeapSpec

-----------------------------------------------------------------------------
(* Both the adjusted alignment and the adjusted size are multiples of the     *)
(* node's alignment, and the adjusted alignment is one of the layout's.       *)
LEMMA AdjustedAligned ==
    ASSUME NEW l \in Layouts
    PROVE  /\ LlAlign(l) % NodeAlign = 0 /\ LlAlign(l) % l.align = 0
           /\ LlSize(l) % NodeAlign = 0 /\ LlSize(l) >= NodeSize
<1>1. l.size \in Nat /\ l.align \in Nat \ {0}
  BY HeapAssumption
<1>2. LlAlign(l) \in Nat \ {0} /\ LlSize(l) \in Nat
  BY AdjustedLayout
<1>3. LlAlign(l) % NodeAlign = 0 /\ LlAlign(l) % l.align = 0
  <2>1. \A n \in Nat \ {0} : n % n = 0
    OBVIOUS
  <2>2. CASE l.align < NodeAlign
    <3>1. l.align % NodeAlign = l.align
      BY <1>1, <2>2, NodeAssumption
    <3> QED
      BY <1>1, <2>1, <2>2, <3>1, AlignAssumption, NodeAssumption DEF LlAlign
  <2>3. CASE l.align >= NodeAlign
    <3>1. LlAlign(l) = l.align
      BY <1>1, <2>3, NodeAssumption DEF LlAlign
    <3>2. CASE l.align = NodeAlign
      BY <1>1, <2>1, <3>1, <3>2
    <3>3. CASE l.align > NodeAlign
      <4>1. NodeAlign % l.align = NodeAlign
        BY <1>1, <3>3, NodeAssumption
      <4> QED
        BY <1>1, <2>1, <3>1, <4>1, AlignAssumption, NodeAssumption
    <3> QED
      BY <1>1, <2>3, <3>2, <3>3, NodeAssumption
  <2> QED
    BY <1>1, <2>2, <2>3, NodeAssumption
<1>4. LlPadded(l) \in Nat /\ LlPadded(l) % NodeAlign = 0
  <2>1. LlPadded(l) \in Nat /\ LlPadded(l) % LlAlign(l) = 0
    BY <1>1, <1>2, AlignUpGrows, AlignUpAligns DEF LlPadded
  <2> QED
    BY <1>2, <1>3, <2>1, MultiplesChain, NodeAssumption
<1> QED
  BY <1>3, <1>4, NodeAssumption DEF LlSize

(* The start of a block that alloc returns is aligned as its layout asks, and *)
(* can hold a node; so does the start of the excess.                          *)
LEMMA CutAligned ==
    ASSUME NEW r \in [start : Nat, size : Nat], NEW l \in Layouts
    PROVE  /\ AllocStart(r, l) \in Nat /\ AllocStart(r, l) % l.align = 0
           /\ AllocStart(r, l) % NodeAlign = 0
           /\ AllocEnd(r, l) \in Nat /\ AllocEnd(r, l) % NodeAlign = 0
<1>1. LlAlign(l) \in Nat \ {0} /\ LlSize(l) \in Nat /\ l.align \in Nat \ {0}
  BY AdjustedLayout, HeapAssumption
<1>2. AllocStart(r, l) \in Nat /\ AllocStart(r, l) % LlAlign(l) = 0
  BY <1>1, AlignUpGrows, AlignUpAligns DEF AllocStart
<1>3. AllocStart(r, l) % l.align = 0 /\ AllocStart(r, l) % NodeAlign = 0
  BY <1>1, <1>2, AdjustedAligned, MultiplesChain, NodeAssumption
<1>4. AllocEnd(r, l) \in Nat /\ AllocEnd(r, l) % NodeAlign = 0
  <2> DEFINE a == AllocStart(r, l)
             n == LlSize(l)
  <2>1. n \in Nat /\ n % NodeAlign = 0 /\ a \in Nat /\ a % NodeAlign = 0
    BY <1>1, <1>2, <1>3, AdjustedAligned
  <2> HIDE DEF a, n
  <2>2. NodeAlign \in Nat \ {0}
    BY NodeAssumption
  <2>3. a + n \in Nat
    BY <2>1
  <2>4. (a + n) % NodeAlign = 0
    BY <2>1, <2>2, MultiplesAdd, Zenon
  <2> QED
    BY <2>3, <2>4 DEF AllocEnd, a, n
<1> QED
  BY <1>2, <1>3, <1>4

(* What alloc does to the list and the blocks: one region gives way to a      *)
(* block and, if anything is left behind it, to the excess; the others stay.  *)
LEMMA AllocShape ==
    ASSUME free \in Seq([start : Nat, size : Nat]), NEW l \in Layouts, LlAlloc(l)
    PROVE  \E i \in DOMAIN free :
             LET r == free[i]
                 x == [start |-> AllocEnd(r, l), size |-> RegionEnd(r) - AllocEnd(r, l)]
             IN  /\ r \in [start : Nat, size : Nat] /\ AllocFromRegion(r, l)
                 /\ live' = live \cup {[start |-> AllocStart(r, l), layout |-> l]}
                 /\ gaps' = gaps + AllocStart(r, l) - r.start
                 /\ \A k \in DOMAIN free' :
                        \/ x.size > 0 /\ free'[k] = x
                        \/ \E j \in DOMAIN free \ {i} : free'[k] = free[j]
                 /\ \A j \in DOMAIN free \ {i} : \E k \in DOMAIN free' : free'[k] = free[j]
                 /\ x.size > 0 => \E k \in DOMAIN free' : free'[k] = x
<1> DEFINE R == [start : Nat, size : Nat]
<1>1. PICK i \in DOMAIN free :
        /\ FindRegion(i, l)
        /\ free' = IF RegionEnd(free[i]) > AllocEnd(free[i], l)
                   THEN AddFreeRegion(RemoveAt(free, i), AllocEnd(free[i], l),
                                      RegionEnd(free[i]) - AllocEnd(free[i], l))
                   ELSE RemoveAt(free, i)
        /\ gaps' = gaps + AllocStart(free[i], l) - free[i].start
        /\ live' = live \cup {[start |-> AllocStart(free[i], l), layout |-> l]}
  BY DEF LlAlloc
<1> DEFINE r == free[i]
           x == [start |-> AllocEnd(r, l), size |-> RegionEnd(r) - AllocEnd(r, l)]
           rest == RemoveAt(free, i)
<1>2. i \in 1 .. Len(free) /\ Len(free) \in Nat /\ DOMAIN free = 1 .. Len(free) /\ r \in R
  BY LenProperties, ElementOfSeq
<1>3. /\ rest \in Seq(R) /\ DOMAIN rest = 1 .. Len(rest) /\ Len(rest) \in Nat
      /\ Len(rest) = Len(free) - 1
      /\ \A k \in DOMAIN rest :
             /\ rest[k] = free[IF k < i THEN k ELSE k + 1]
             /\ (IF k < i THEN k ELSE k + 1) \in DOMAIN free \ {i}
  BY <1>2, RemoveOne, LenProperties
<1>4. r.start \in Nat /\ r.size \in Nat /\ RegionEnd(r) \in Nat /\ AllocEnd(r, l) \in Nat
  BY <1>2, CutAligned DEF RegionEnd
<1>5. x.size > 0 <=> RegionEnd(r) > AllocEnd(r, l)
  BY <1>4
<1>6. free' = IF x.size > 0 THEN <<x>> \o rest ELSE rest
  BY <1>1, <1>5 DEF AddFreeRegion
<1> HIDE DEF r, x, rest
<1>7. /\ DOMAIN rest = 1 .. Len(rest) /\ Len(rest) = Len(free) - 1
      /\ DOMAIN free = 1 .. Len(free) /\ Len(free) \in Nat /\ i \in 1 .. Len(free)
  BY <1>2, <1>3
<1>8. \A j \in DOMAIN free \ {i} : \E k \in DOMAIN rest : rest[k] = free[j]
  <2> SUFFICES ASSUME NEW j \in DOMAIN free \ {i}
               PROVE  \E k \in DOMAIN rest : rest[k] = free[j]
    OBVIOUS
  <2> DEFINE k == IF j < i THEN j ELSE j - 1
  <2>0. j \in 1 .. Len(free) /\ j # i /\ i \in 1 .. Len(free) /\ Len(free) \in Nat
    BY <1>7, Zenon
  <2>1. k \in 1 .. Len(free) - 1 /\ (IF k < i THEN k ELSE k + 1) = j
    BY <2>0
  <2>2. k \in DOMAIN rest
    BY <1>7, <2>1
  <2> HIDE DEF k
  <2> QED
    BY <1>3, <2>1, <2>2
<1>9. \A k \in DOMAIN rest : \E j \in DOMAIN free \ {i} : rest[k] = free[j]
  BY <1>3
<1>10. /\ \A k \in DOMAIN free' :
              \/ x.size > 0 /\ free'[k] = x
              \/ \E j \in DOMAIN rest : free'[k] = rest[j]
       /\ \A j \in DOMAIN rest : \E k \in DOMAIN free' : free'[k] = rest[j]
       /\ x.size > 0 => \E k \in DOMAIN free' : free'[k] = x
  <2>1. CASE x.size > 0
    <3>1. free' = <<x>> \o rest
      BY <1>6, <2>1
    <3>2. /\ DOMAIN free' = 1 .. Len(rest) + 1 /\ free'[1] = x
          /\ \A k \in 2 .. Len(rest) + 1 : free'[k] = rest[k - 1]
      BY <1>3, <3>1
    <3>3. /\ 1 \in DOMAIN free'
          /\ \A k \in DOMAIN free' : \/ k = 1
                                     \/ k \in 2 .. Len(rest) + 1 /\ k - 1 \in DOMAIN rest
          /\ \A j \in DOMAIN rest : /\ j + 1 \in 2 .. Len(rest) + 1 /\ j + 1 \in DOMAIN free'
                                    /\ (j + 1) - 1 = j
      <4>1. DOMAIN free' = 1 .. Len(rest) + 1
        BY <3>2
      <4>2. Len(rest) \in Nat /\ DOMAIN rest = 1 .. Len(rest)
        BY <1>3, Zenon
      <4>3. /\ 1 \in 1 .. Len(rest) + 1
            /\ \A k \in 1 .. Len(rest) + 1 :
                   \/ k = 1
                   \/ k \in 2 .. Len(rest) + 1 /\ k - 1 \in 1 .. Len(rest)
            /\ \A j \in 1 .. Len(rest) :
                   /\ j + 1 \in 2 .. Len(rest) + 1 /\ j + 1 \in 1 .. Len(rest) + 1
                   /\ (j + 1) - 1 = j
        BY <4>2
      <4> QED
        BY <4>1, <4>2, <4>3, Zenon
    <3>4. ASSUME NEW j \in DOMAIN rest PROVE free'[j + 1] = rest[j]
      <4>1. free'[j + 1] = rest[(j + 1) - 1]
        BY <3>2, <3>3
      <4> QED
        BY <3>3, <4>1
    <3> QED
      BY <2>1, <3>2, <3>3, <3>4
  <2>2. CASE ~(x.size > 0)
    BY <1>6, <2>2
  <2> QED
    BY <2>1, <2>2
<1>11. /\ \A k \in DOMAIN free' :
              \/ x.size > 0 /\ free'[k] = x
              \/ \E j \in DOMAIN free \ {i} : free'[k] = free[j]
       /\ \A j \in DOMAIN free \ {i} : \E k \in DOMAIN free' : free'[k] = free[j]
       /\ x.size > 0 => \E k \in DOMAIN free' : free'[k] = x
  BY <1>8, <1>9, <1>10
<1>12. /\ r \in R /\ AllocFromRegion(r, l)
       /\ live' = live \cup {[start |-> AllocStart(r, l), layout |-> l]}
       /\ gaps' = gaps + AllocStart(r, l) - r.start
  BY <1>1, <1>2 DEF FindRegion, r
<1> QED
  BY <1>11, <1>12, Zenon DEF r, x

(* Every region can hold a node, and so can every block of the linked list    *)
(* when it comes back.                                                        *)
NodeInv ==
    /\ RegionInv
    /\ NodesFit
    /\ kind = "linked_list" => \A b \in live : b.start % NodeAlign = 0

(* alloc leaves an excess that can hold a node or none at all.                *)
LEMMA NodeAlloc ==
    ASSUME NodeInv, kind = "linked_list", NEW l \in Layouts, LlAlloc(l), UNCHANGED kind
    PROVE  NodesFit' /\ \A b \in live' : b.start % NodeAlign = 0
<1> DEFINE R == [start : Nat, size : Nat]
<1>1. free \in Seq(R)
  BY DEF NodeInv, RegionInv
<1>2. PICK i \in DOMAIN free :
        LET r == free[i]
            x == [start |-> AllocEnd(r, l), size |-> RegionEnd(r) - AllocEnd(r, l)]
        IN  /\ r \in R /\ AllocFromRegion(r, l)
            /\ live' = live \cup {[start |-> AllocStart(r, l), layout |-> l]}
            /\ \A k \in DOMAIN free' :
                   \/ x.size > 0 /\ free'[k] = x
                   \/ \E j \in DOMAIN free \ {i} : free'[k] = free[j]
  BY <1>1, AllocShape, Zenon
<1> DEFINE r == free[i]
           x == [start |-> AllocEnd(r, l), size |-> RegionEnd(r) - AllocEnd(r, l)]
<1>3. /\ r \in R /\ AllocFromRegion(r, l)
      /\ live' = live \cup {[start |-> AllocStart(r, l), layout |-> l]}
      /\ \A k \in DOMAIN free' :
             \/ x.size > 0 /\ free'[k] = x
             \/ \E j \in DOMAIN free \ {i} : free'[k] = free[j]
  BY <1>2, Zenon
<1>4. AllocStart(r, l) % NodeAlign = 0 /\ AllocEnd(r, l) % NodeAlign = 0
  BY <1>3, CutAligned
<1>5. x.size > 0 => x.size >= NodeSize
  BY <1>3 DEF AllocFromRegion
<1>6. x.start % NodeAlign = 0
  BY <1>4
<1> HIDE DEF x, r
<1>7. ASSUME NEW k \in DOMAIN free'
      PROVE  free'[k].start % NodeAlign = 0 /\ free'[k].size >= NodeSize
  <2>1. CASE x.size > 0 /\ free'[k] = x
    BY <1>5, <1>6, <2>1
  <2>2. CASE \E j \in DOMAIN free \ {i} : free'[k] = free[j]
    BY <2>2 DEF NodeInv, NodesFit
  <2> QED
    BY <1>3, <2>1, <2>2
<1> QED
  BY <1>3, <1>4, <1>7 DEF NodeInv, NodesFit

(* dealloc puts a node where a block with room for it was.                    *)
LEMMA NodeDealloc ==
    ASSUME NodeInv, kind = "linked_list", NEW b \in live, LlDealloc(b), UNCHANGED kind
    PROVE  NodesFit' /\ \A c \in live' : c.start % NodeAlign = 0
<1> DEFINE x == [start |-> b.start, size |-> LlSize(b.layout)]
<1>1. live' = live \ {b} /\ free' = <<x>> \o free
  BY DEF LlDealloc, AddFreeRegion
<1>2. b.layout \in Layouts /\ b.start \in Nat /\ b.start % NodeAlign = 0
  BY DEF NodeInv, RegionInv, Blocks
<1>3. x.start % NodeAlign = 0 /\ x.size >= NodeSize
  BY <1>2, AdjustedAligned
<1>4. free \in Seq([start : Nat, size : Nat])
  BY DEF NodeInv, RegionInv
<1>5. \A k \in DOMAIN free' : free'[k] = x \/ \E j \in DOMAIN free : free'[k] = free[j]
  <2> HIDE DEF x
  <2>1. \A k \in DOMAIN free' : free'[k] = x \/ (k - 1 \in DOMAIN free /\ free'[k] = free[k - 1])
    BY <1>1, <1>4
  <2> QED
    BY <2>1
<1> HIDE DEF x
<1> QED
  BY <1>1, <1>3, <1>5 DEF NodeInv, NodesFit

(* NodesFit, for every heap that can hold one node and every set of layouts:  *)
(* the assertions of add_free_region never fail, neither for the excess that  *)
(* alloc returns to the list nor for a block that dealloc takes back.         *)
THEOREM LinkedListNodesFit == HeapSpec => []NodesFit
<1>1. HeapInit => NodeInv
  <2> SUFFICES ASSUME HeapInit PROVE NodeInv
    OBVIOUS
  <2>1. live = {} /\ free = <<[start |-> HeapStart, size |-> HeapSize]>>
    BY DEF HeapInit, GInit, LlInit
  <2>2. NodesFit
    BY <2>1, HeapHoldsNode DEF NodesFit
  <2> QED
    BY <2>1, <2>2, RegionStart DEF NodeInv
<1>2. NodeInv /\ [HeapNext]_heapVars => NodeInv'
  <2> SUFFICES ASSUME NodeInv, [HeapNext]_heapVars PROVE NodeInv'
    OBVIOUS
  <2>1. RegionInv'
    BY RegionStep DEF NodeInv
  <2>2. CASE LinkedListStep
    <3>1. kind = "linked_list" /\ UNCHANGED kind
      BY <2>2 DEF LinkedListStep
    <3>2. NodesFit' /\ \A b \in live' : b.start % NodeAlign = 0
      BY <2>2, <3>1, NodeAlloc, NodeDealloc DEF LinkedListStep
    <3> QED
      BY <2>1, <3>1, <3>2 DEF NodeInv
  <2>3. CASE FixedSizeBlockStep \/ BumpStep
    <3>1. free' = free /\ kind' = kind /\ kind # "linked_list"
      BY <2>3 DEF FixedSizeBlockStep, BumpStep, llVars
    <3> QED
      BY <2>1, <3>1 DEF NodeInv, NodesFit
  <2>4. CASE UNCHANGED heapVars
    BY <2>1, <2>4 DEF NodeInv, NodesFit, heapVars
  <2> QED
    BY <2>2, <2>3, <2>4 DEF HeapNext
<1>3. NodeInv => NodesFit
  BY DEF NodeInv
<1> QED
  BY <1>1, <1>2, <1>3, PTL DEF HeapSpec

-----------------------------------------------------------------------------
(* The addresses in a region or in a block of the linked list.                *)
HeldBy(list, blocks) ==
    (UNION {RegionSpan(list[i]) : i \in DOMAIN list})
      \cup (UNION {LlBlockSpan(b) : b \in blocks})

Held == HeldBy(free, live)

GapInv == RegionInv /\ gaps \in Nat /\ OnlyGapsAreLost

(* Membership in the held addresses.                                          *)
LEMMA HeldElement ==
    ASSUME NEW list, NEW blocks, NEW z
    PROVE  z \in HeldBy(list, blocks) <=> \/ \E i \in DOMAIN list : z \in RegionSpan(list[i])
                                          \/ \E b \in blocks : z \in LlBlockSpan(b)
<1>1. z \in UNION {RegionSpan(list[i]) : i \in DOMAIN list}
        <=> \E i \in DOMAIN list : z \in RegionSpan(list[i])
  OBVIOUS
<1>2. z \in UNION {LlBlockSpan(b) : b \in blocks} <=> \E b \in blocks : z \in LlBlockSpan(b)
  OBVIOUS
<1> QED
  BY <1>1, <1>2, Zenon DEF HeldBy

(* A span has as many addresses as its size.                                  *)
LEMMA SpanSize ==
    ASSUME NEW a \in Nat, NEW n \in Nat
    PROVE  IsFiniteSet(Span(a, n)) /\ Cardinality(Span(a, n)) = n
<1>1. a \in Int /\ a + n - 1 \in Int /\ (IF a > a + n - 1 THEN 0 ELSE a + n - 1 - a + 1) = n
  OBVIOUS
<1> QED
  BY <1>1, FS_Interval DEF Span

(* A span divided in three.                                                   *)
LEMMA SpanSplit ==
    ASSUME NEW a \in Nat, NEW m \in Nat, NEW s \in Nat, NEW n \in Nat,
           a <= s, s + n <= a + m
    PROVE  /\ Span(a, m) = Span(a, s - a) \cup Span(s, n) \cup Span(s + n, a + m - (s + n))
           /\ Span(a, s - a) \cap Span(s, n) = {}
           /\ Span(a, s - a) \cap Span(s + n, a + m - (s + n)) = {}
BY DEF Span

(* The held addresses are addresses of the heap, so there are finitely many.  *)
LEMMA HeldFinite ==
    ASSUME RegionInv, kind = "linked_list"
    PROVE  IsFiniteSet(Held) /\ Cardinality(Held) \in Nat
<1>1. Held \subseteq HeapSpan
  BY HeldElement DEF RegionInv, RegionsApart, Held
<1>2. IsFiniteSet(HeapSpan)
  BY SpanSize, HeapAssumption DEF HeapSpan
<1>3. IsFiniteSet(Held)
  BY <1>1, <1>2, FS_Subset
<1> QED
  BY <1>3, FS_CardinalityType

(* alloc gives up the addresses that alignment skips and no others.           *)
LEMMA GapAlloc ==
    ASSUME GapInv, kind = "linked_list", NEW l \in Layouts, LlAlloc(l), UNCHANGED kind
    PROVE  gaps' \in Nat /\ Cardinality(Held') + gaps' = HeapSize
<1> DEFINE R == [start : Nat, size : Nat]
<1>1. free \in Seq(R)
  BY DEF GapInv, RegionInv
<1>2. PICK i \in DOMAIN free :
        LET r == free[i]
            x == [start |-> AllocEnd(r, l), size |-> RegionEnd(r) - AllocEnd(r, l)]
        IN  /\ r \in R /\ AllocFromRegion(r, l)
            /\ live' = live \cup {[start |-> AllocStart(r, l), layout |-> l]}
            /\ gaps' = gaps + AllocStart(r, l) - r.start
            /\ \A k \in DOMAIN free' :
                   \/ x.size > 0 /\ free'[k] = x
                   \/ \E j \in DOMAIN free \ {i} : free'[k] = free[j]
            /\ \A j \in DOMAIN free \ {i} : \E k \in DOMAIN free' : free'[k] = free[j]
            /\ x.size > 0 => \E k \in DOMAIN free' : free'[k] = x
  BY <1>1, AllocShape, Zenon
<1> DEFINE r == free[i]
           x == [start |-> AllocEnd(r, l), size |-> RegionEnd(r) - AllocEnd(r, l)]
           b == [start |-> AllocStart(r, l), layout |-> l]
           G == Span(r.start, AllocStart(r, l) - r.start)
<1>3. /\ r \in R /\ AllocFromRegion(r, l)
      /\ live' = live \cup {b}
      /\ gaps' = gaps + AllocStart(r, l) - r.start
      /\ \A k \in DOMAIN free' :
             \/ x.size > 0 /\ free'[k] = x
             \/ \E j \in DOMAIN free \ {i} : free'[k] = free[j]
      /\ \A j \in DOMAIN free \ {i} : \E k \in DOMAIN free' : free'[k] = free[j]
      /\ x.size > 0 => \E k \in DOMAIN free' : free'[k] = x
  BY <1>2, Zenon
<1>4. /\ r.start \in Nat /\ AllocStart(r, l) \in Nat /\ AllocStart(r, l) >= r.start
      /\ AllocStart(r, l) - r.start \in Nat
  BY <1>3, AdjustedLayout, AlignUpGrows DEF AllocStart
<1>5. /\ RegionSpan(r) = G \cup LlBlockSpan(b) \cup RegionSpan(x)
      /\ G \cap LlBlockSpan(b) = {} /\ G \cap RegionSpan(x) = {}
      /\ RegionSpan(x) # {} => x.size > 0
  <2> DEFINE a == r.start
             m == r.size
             s == AllocStart(r, l)
             n == LlSize(l)
  <2>1. /\ a \in Nat /\ m \in Nat /\ s \in Nat /\ n \in Nat /\ a <= s /\ s + n <= a + m
        /\ AllocEnd(r, l) = s + n /\ RegionEnd(r) = a + m
    BY <1>3, <1>4, AdjustedLayout DEF AllocFromRegion, AllocEnd, RegionEnd
  <2>2. /\ RegionSpan(r) = Span(a, m) /\ LlBlockSpan(b) = Span(s, n)
        /\ RegionSpan(x) = Span(s + n, a + m - (s + n)) /\ G = Span(a, s - a)
    BY <2>1 DEF RegionSpan, LlBlockSpan
  <2>3. x.size = a + m - (s + n) /\ x.size \in Nat /\ x.start \in Nat
    BY <2>1
  <2>4. RegionSpan(x) # {} => x.size > 0
    <3> HIDE DEF x
    <3> QED
      BY <2>3 DEF RegionSpan, Span
  <2> HIDE DEF a, m, s, n, x, b, G, r
  <2> QED
    BY <2>1, <2>2, <2>4, SpanSplit
<1>6. /\ \A j \in DOMAIN free \ {i} : RegionSpan(free[j]) \cap RegionSpan(r) = {}
      /\ \A c \in live : RegionSpan(r) \cap LlBlockSpan(c) = {}
  BY DEF GapInv, RegionInv, RegionsApart
<1>7. IsFiniteSet(G) /\ Cardinality(G) = AllocStart(r, l) - r.start
  BY <1>4, SpanSize
<1> HIDE DEF x, b, G
<1>8. Held' = Held \ G
  <2>1. ASSUME NEW z PROVE z \in HeldBy(free', live') => z \in Held \ G
    <3>1. ASSUME NEW k \in DOMAIN free', z \in RegionSpan(free'[k])
          PROVE  z \in Held \ G
      <4>1. CASE free'[k] = x
        BY <1>5, <3>1, <4>1, HeldElement DEF Held
      <4>2. CASE \E j \in DOMAIN free \ {i} : free'[k] = free[j]
        BY <1>5, <1>6, <3>1, <4>2, HeldElement DEF Held
      <4> QED
        BY <1>3, <4>1, <4>2
    <3>2. ASSUME NEW c \in live', z \in LlBlockSpan(c)
          PROVE  z \in Held \ G
      <4>1. CASE c = b
        BY <1>5, <3>2, <4>1, HeldElement DEF Held
      <4>2. CASE c \in live
        <5>1. z \in Held
          BY <3>2, <4>2, HeldElement DEF Held
        <5>2. z \notin RegionSpan(r)
          BY <1>6, <3>2, <4>2
        <5> QED
          BY <1>5, <5>1, <5>2
      <4> QED
        BY <1>3, <4>1, <4>2
    <3> QED
      BY <3>1, <3>2, HeldElement
  <2>2. ASSUME NEW z, z \in Held, z \notin G PROVE z \in HeldBy(free', live')
    <3>1. ASSUME NEW j \in DOMAIN free, z \in RegionSpan(free[j])
          PROVE  z \in HeldBy(free', live')
      <4>1. CASE j # i
        BY <1>3, <3>1, <4>1, HeldElement
      <4>2. CASE j = i /\ z \in LlBlockSpan(b)
        BY <1>3, <4>2, HeldElement
      <4>3. CASE j = i /\ z \in RegionSpan(x)
        BY <1>3, <1>5, <4>3, HeldElement
      <4> QED
        BY <1>5, <2>2, <3>1, <4>1, <4>2, <4>3
    <3>2. ASSUME NEW c \in live, z \in LlBlockSpan(c)
          PROVE  z \in HeldBy(free', live')
      BY <1>3, <3>2, HeldElement
    <3> QED
      BY <2>2, <3>1, <3>2, HeldElement DEF Held
  <2> QED
    BY <2>1, <2>2 DEF Held
<1>9. G \subseteq Held
  BY <1>5, HeldElement DEF Held
<1>10. Cardinality(Held \ G) = Cardinality(Held) - (AllocStart(r, l) - r.start)
  <2>1. Held \cap G = G /\ IsFiniteSet(Held)
    BY <1>9, HeldFinite DEF GapInv
  <2>2. Cardinality(Held \ G) = Cardinality(Held) - Cardinality(Held \cap G)
    BY <2>1, FS_Difference, Zenon
  <2> QED
    BY <1>7, <2>1, <2>2
<1>11. Cardinality(Held) \in Nat /\ Cardinality(Held) + gaps = HeapSize /\ gaps \in Nat
  BY HeldFinite DEF GapInv, OnlyGapsAreLost, Held, HeldBy
<1> QED
  BY <1>3, <1>4, <1>8, <1>10, <1>11

(* dealloc gives up nothing.                                                  *)
LEMMA GapDealloc ==
    ASSUME GapInv, kind = "linked_list", NEW b \in live, LlDealloc(b), UNCHANGED kind
    PROVE  gaps' \in Nat /\ Cardinality(Held') + gaps' = HeapSize
<1> DEFINE x == [start |-> b.start, size |-> LlSize(b.layout)]
<1>1. live' = live \ {b} /\ free' = <<x>> \o free /\ gaps' = gaps
  BY DEF LlDealloc, AddFreeRegion
<1>2. RegionSpan(x) = LlBlockSpan(b)
  BY DEF RegionSpan, LlBlockSpan
<1>3. free \in Seq([start : Nat, size : Nat])
  BY DEF GapInv, RegionInv
<1> HIDE DEF x
<1>4. /\ DOMAIN free' = 1 .. Len(free) + 1 /\ DOMAIN free = 1 .. Len(free) /\ Len(free) \in Nat
      /\ free'[1] = x /\ \A k \in 2 .. Len(free) + 1 : free'[k] = free[k - 1]
  BY <1>1, <1>3
<1>5. /\ 1 \in DOMAIN free'
      /\ \A k \in DOMAIN free' : free'[k] = x \/ \E j \in DOMAIN free : free'[k] = free[j]
      /\ \A j \in DOMAIN free : \E k \in DOMAIN free' : free'[k] = free[j]
  <2>1. \A k \in 1 .. Len(free) + 1 : \/ k = 1
                                      \/ k \in 2 .. Len(free) + 1 /\ k - 1 \in 1 .. Len(free)
    BY <1>4
  <2>2. \A j \in 1 .. Len(free) : /\ j + 1 \in 2 .. Len(free) + 1 /\ (j + 1) - 1 = j
                                  /\ j + 1 \in 1 .. Len(free) + 1
    BY <1>4
  <2>3. ASSUME NEW j \in DOMAIN free PROVE j + 1 \in DOMAIN free' /\ free'[j + 1] = free[j]
    <3>1. free'[j + 1] = free[(j + 1) - 1]
      BY <1>4, <2>2
    <3> QED
      BY <1>4, <2>2, <3>1
  <2>4. 1 \in DOMAIN free'
    BY <1>4
  <2> QED
    BY <1>4, <2>1, <2>3, <2>4
<1>6. Held' = Held
  <2>1. ASSUME NEW z PROVE z \in HeldBy(free', live') => z \in Held
    <3>1. ASSUME NEW k \in DOMAIN free', z \in RegionSpan(free'[k]) PROVE z \in Held
      BY <1>2, <1>5, <3>1, HeldElement, Zenon DEF Held
    <3>2. ASSUME NEW c \in live', z \in LlBlockSpan(c) PROVE z \in Held
      BY <1>1, <3>2, HeldElement, Zenon DEF Held
    <3> QED
      BY <3>1, <3>2, HeldElement
  <2>2. ASSUME NEW z, z \in Held PROVE z \in HeldBy(free', live')
    <3>1. ASSUME NEW j \in DOMAIN free, z \in RegionSpan(free[j])
          PROVE  z \in HeldBy(free', live')
      BY <1>5, <3>1, HeldElement, Zenon
    <3>2. ASSUME NEW c \in live, z \in LlBlockSpan(c)
          PROVE  z \in HeldBy(free', live')
      <4>1. CASE c = b
        <5>1. 1 \in DOMAIN free' /\ z \in RegionSpan(free'[1])
          BY <1>2, <1>4, <1>5, <3>2, <4>1, Zenon
        <5> QED
          BY <5>1, HeldElement, Zenon
      <4>2. CASE c # b
        <5>1. c \in live'
          BY <1>1, <4>2
        <5> QED
          BY <3>2, <5>1, HeldElement, Zenon
      <4> QED
        BY <4>1, <4>2
    <3> QED
      BY <2>2, <3>1, <3>2, HeldElement DEF Held
  <2> QED
    BY <2>1, <2>2 DEF Held
<1> QED
  BY <1>1, <1>6 DEF GapInv, OnlyGapsAreLost, Held, HeldBy

(* OnlyGapsAreLost, for every heap and every set of layouts: over any run of  *)
(* alloc and dealloc the linked list's heap shrinks by what alignment skips   *)
(* and by nothing else.                                                       *)
THEOREM LinkedListLosesOnlyGaps == HeapSpec => []OnlyGapsAreLost
<1>1. HeapInit => GapInv
  <2> SUFFICES ASSUME HeapInit PROVE GapInv
    OBVIOUS
  <2>1. live = {} /\ free = <<[start |-> HeapStart, size |-> HeapSize]>> /\ gaps = 0
    BY DEF HeapInit, GInit, LlInit
  <2>2. DOMAIN free = {1} /\ RegionSpan(free[1]) = Span(HeapStart, HeapSize)
    BY <2>1 DEF RegionSpan
  <2>3. Held = Span(HeapStart, HeapSize)
    <3>1. UNION {RegionSpan(free[i]) : i \in DOMAIN free} = Span(HeapStart, HeapSize)
      BY <2>2
    <3> QED
      BY <2>1, <3>1 DEF Held, HeldBy
  <2>4. Cardinality(Held) = HeapSize
    BY <2>3, SpanSize, HeapAssumption
  <2> QED
    BY <2>1, <2>4, RegionStart, HeapAssumption DEF GapInv, OnlyGapsAreLost, Held, HeldBy
<1>2. GapInv /\ [HeapNext]_heapVars => GapInv'
  <2> SUFFICES ASSUME GapInv, [HeapNext]_heapVars PROVE GapInv'
    OBVIOUS
  <2>1. RegionInv'
    BY RegionStep DEF GapInv
  <2>2. CASE LinkedListStep
    <3>1. kind = "linked_list" /\ UNCHANGED kind
      BY <2>2 DEF LinkedListStep
    <3>2. gaps' \in Nat /\ Cardinality(Held') + gaps' = HeapSize
      BY <2>2, <3>1, GapAlloc, GapDealloc DEF LinkedListStep
    <3> QED
      BY <2>1, <3>2 DEF GapInv, OnlyGapsAreLost, Held, HeldBy
  <2>3. CASE FixedSizeBlockStep \/ BumpStep
    <3>1. gaps' = gaps /\ kind' = kind /\ kind # "linked_list"
      BY <2>3 DEF FixedSizeBlockStep, BumpStep, llVars
    <3> QED
      BY <2>1, <3>1 DEF GapInv, OnlyGapsAreLost
  <2>4. CASE UNCHANGED heapVars
    BY <2>1, <2>4 DEF GapInv, OnlyGapsAreLost, heapVars, RegionSpan, LlBlockSpan
  <2> QED
    BY <2>2, <2>3, <2>4 DEF HeapNext
<1>3. GapInv => OnlyGapsAreLost
  BY DEF GapInv
<1> QED
  BY <1>1, <1>2, <1>3, PTL DEF HeapSpec

-----------------------------------------------------------------------------
(* The fixed-size allocator: what its blocks own.                             *)
SizeIndex == DOMAIN BlockSizes

(* The address at place j of list k, and no other place, owns this span.      *)
PlaceSpan(heads, k, j) == Span(heads[k][j], BlockSizes[k])

(* Live blocks, listed blocks and the fallback allocator are disjoint.        *)
OwnedOnce(blocks, heads, rest) ==
    /\ \A b \in blocks : FsbBlockSpan(b) \cap rest = {}
    /\ \A b, c \in blocks : b # c => FsbBlockSpan(b) \cap FsbBlockSpan(c) = {}
    /\ \A k \in SizeIndex : \A j \in DOMAIN heads[k] :
           /\ PlaceSpan(heads, k, j) \cap rest = {}
           /\ \A b \in blocks : PlaceSpan(heads, k, j) \cap FsbBlockSpan(b) = {}
           /\ \A m \in SizeIndex : \A n \in DOMAIN heads[m] :
                  k # m \/ j # n => PlaceSpan(heads, k, j) \cap PlaceSpan(heads, m, n) = {}

(* An address of theirs.                                                      *)
Owned(blocks, heads, rest, z) ==
    \/ z \in rest
    \/ \E b \in blocks : z \in FsbBlockSpan(b)
    \/ \E k \in SizeIndex : \E j \in DOMAIN heads[k] : z \in PlaceSpan(heads, k, j)

(* Every block is aligned to the size of the list it is on or will go to.     *)
BlocksAligned(blocks, heads) ==
    /\ \A k \in SizeIndex : \A j \in DOMAIN heads[k] : heads[k][j] % BlockSizes[k] = 0
    /\ \A b \in blocks, k \in SizeIndex :
           ListIndex(b.layout, k) => b.start % BlockSizes[k] = 0

FsbInv ==
    kind = "fixed_size_block" =>
        /\ live \subseteq Blocks
        /\ listHeads \in [SizeIndex -> Seq(Nat)]
        /\ BlocksAligned(live, listHeads)
        /\ OwnedOnce(live, listHeads, fallback)
        /\ \A z : z \in HeapSpan <=> Owned(live, listHeads, fallback, z)

(* list_index is a function: the memory a layout takes is one block of the    *)
(* list that it is taken from and returned to.                                *)
LEMMA SizeOfListed ==
    ASSUME NEW l \in Layouts, NEW i \in SizeIndex, ListIndex(l, i)
    PROVE  /\ FsbSize(l) = BlockSizes[i] /\ BlockSizes[i] \in Nat \ {0}
           /\ BlockSizes[i] >= l.size /\ BlockSizes[i] % l.align = 0
           /\ ~Oversized(l)
           /\ \A k \in SizeIndex : ListIndex(l, k) => k = i
<1>1. /\ BlockSizes \in Seq(Nat \ {0}) /\ SizeIndex = 1 .. Len(BlockSizes)
      /\ l.size \in Nat /\ l.align \in Nat
  BY BlockSizesAssumption, HeapAssumption DEF SizeIndex
<1>2. \A k \in SizeIndex : BlockSizes[k] \in Nat \ {0} /\ k \in Nat
  BY <1>1
<1>3. ASSUME NEW k \in SizeIndex, ListIndex(l, k) PROVE k = i
  <2>1. CASE k < i
    BY <1>1, <1>2, <1>3, <2>1 DEF ListIndex
  <2>2. CASE i < k
    BY <1>1, <1>2, <1>3, <2>2 DEF ListIndex
  <2> QED
    BY <1>2, <2>1, <2>2
<1>4. ~Oversized(l)
  BY DEF Oversized, SizeIndex
<1>5. (CHOOSE k \in DOMAIN BlockSizes : ListIndex(l, k)) = i
  BY <1>3 DEF SizeIndex
<1>6. FsbSize(l) = BlockSizes[i]
  BY <1>4, <1>5 DEF FsbSize
<1>7. BlockSizes[i] >= l.size /\ BlockSizes[i] >= l.align
  BY DEF ListIndex
<1>8. BlockSizes[i] % l.align = 0
  BY <1>7, BlockAlignAssumption DEF SizeIndex
<1> QED
  BY <1>2, <1>3, <1>4, <1>6, <1>7, <1>8

(* The places of a list before and after a pop.                               *)
LEMMA PopPlaces ==
    ASSUME NEW q \in Seq(Nat), q # <<>>
    PROVE  /\ 1 \in DOMAIN q /\ q[1] = Head(q) /\ Head(q) \in Nat /\ Tail(q) \in Seq(Nat)
           /\ \A j \in DOMAIN Tail(q) : /\ j + 1 \in DOMAIN q /\ Tail(q)[j] = q[j + 1]
                                        /\ j + 1 # 1 /\ j \in Nat
           /\ \A j \in DOMAIN q : j # 1 => \E n \in DOMAIN Tail(q) : n + 1 = j
<1>1. /\ 1 \in DOMAIN q /\ q[1] = Head(q) /\ Head(q) \in Nat /\ Tail(q) \in Seq(Nat)
      /\ DOMAIN q = 1 .. Len(q) /\ DOMAIN Tail(q) = 1 .. Len(q) - 1 /\ Len(q) \in Nat
      /\ \A j \in 1 .. Len(q) - 1 : Tail(q)[j] = q[j + 1]
  OBVIOUS
<1>2. ASSUME NEW j \in 1 .. Len(q) - 1
      PROVE  j + 1 \in 1 .. Len(q) /\ j + 1 # 1 /\ j \in Nat
  BY <1>1
<1>3. ASSUME NEW j \in 1 .. Len(q), j # 1
      PROVE  j - 1 \in 1 .. Len(q) - 1 /\ (j - 1) + 1 = j
  BY <1>1, <1>3
<1>4. ASSUME NEW j \in DOMAIN q, j # 1
      PROVE  \E n \in DOMAIN Tail(q) : n + 1 = j
  BY <1>1, <1>3, <1>4
<1> QED
  BY <1>1, <1>2, <1>4

(* ... and of a push.                                                         *)
LEMMA PushPlaces ==
    ASSUME NEW q \in Seq(Nat), NEW a \in Nat
    PROVE  /\ <<a>> \o q \in Seq(Nat)
           /\ 1 \in DOMAIN (<<a>> \o q) /\ (<<a>> \o q)[1] = a
           /\ \A j \in DOMAIN q : /\ j + 1 \in DOMAIN (<<a>> \o q) /\ j + 1 # 1 /\ j \in Nat
                                  /\ (<<a>> \o q)[j + 1] = q[j]
           /\ \A j \in DOMAIN (<<a>> \o q) : j # 1 => \E n \in DOMAIN q : n + 1 = j
<1> DEFINE p == <<a>> \o q
<1>1. /\ p \in Seq(Nat) /\ DOMAIN q = 1 .. Len(q) /\ DOMAIN p = 1 .. Len(q) + 1
      /\ Len(q) \in Nat /\ p[1] = a
      /\ \A j \in 2 .. Len(q) + 1 : p[j] = q[j - 1]
  OBVIOUS
<1> HIDE DEF p
<1>2. ASSUME NEW j \in 1 .. Len(q)
      PROVE  j + 1 \in 2 .. Len(q) + 1 /\ j + 1 \in 1 .. Len(q) + 1 /\ j + 1 # 1
             /\ j \in Nat /\ (j + 1) - 1 = j
  BY <1>1
<1>3. ASSUME NEW j \in 1 .. Len(q) + 1, j # 1
      PROVE  j - 1 \in 1 .. Len(q) /\ (j - 1) + 1 = j
  BY <1>1, <1>3
<1>4. ASSUME NEW j \in DOMAIN p, j # 1
      PROVE  \E n \in DOMAIN q : n + 1 = j
  BY <1>1, <1>3, <1>4
<1>5. ASSUME NEW j \in DOMAIN q PROVE p[j + 1] = q[j]
  <2>1. p[j + 1] = q[(j + 1) - 1]
    BY <1>1, <1>2
  <2> QED
    BY <1>1, <1>2, <2>1
<1>6. 1 \in DOMAIN p
  BY <1>1
<1> QED
  BY <1>1, <1>2, <1>4, <1>5, <1>6 DEF p

(* `long' is `short' with one more block at the front of list i.              *)
OneMore(long, short, i) ==
    /\ 1 \in DOMAIN long[i]
    /\ \A k \in SizeIndex : k # i => short[k] = long[k]
    /\ \A j \in DOMAIN short[i] : /\ j + 1 \in DOMAIN long[i] /\ short[i][j] = long[i][j + 1]
                                  /\ j + 1 # 1 /\ j \in Nat
    /\ \A j \in DOMAIN long[i] : j # 1 => \E n \in DOMAIN short[i] : n + 1 = j

(* The place in `long' of the block at place j of list k of `short'.          *)
OldPlace(i, k, j) == IF k = i THEN j + 1 ELSE j

(* What the places of `short' have to do with those of `long'.                *)
LEMMA PlacesMoved ==
    ASSUME NEW long, NEW short, NEW i \in SizeIndex, OneMore(long, short, i)
    PROVE  /\ \A k \in SizeIndex : \A j \in DOMAIN short[k] :
                  /\ OldPlace(i, k, j) \in DOMAIN long[k]
                  /\ PlaceSpan(short, k, j) = PlaceSpan(long, k, OldPlace(i, k, j))
                  /\ k # i \/ OldPlace(i, k, j) # 1
           /\ \A k \in SizeIndex : \A j, n \in DOMAIN short[k] :
                  j # n => OldPlace(i, k, j) # OldPlace(i, k, n)
           /\ \A k \in SizeIndex : \A j \in DOMAIN long[k] :
                  (k = i /\ j = 1) \/ \E n \in DOMAIN short[k] : OldPlace(i, k, n) = j
<1>1. ASSUME NEW k \in SizeIndex, NEW j \in DOMAIN short[k]
      PROVE  /\ OldPlace(i, k, j) \in DOMAIN long[k]
             /\ PlaceSpan(short, k, j) = PlaceSpan(long, k, OldPlace(i, k, j))
             /\ k # i \/ OldPlace(i, k, j) # 1
  BY DEF OneMore, OldPlace, PlaceSpan
<1>2. ASSUME NEW k \in SizeIndex, NEW j \in DOMAIN short[k], NEW n \in DOMAIN short[k], j # n
      PROVE  OldPlace(i, k, j) # OldPlace(i, k, n)
  BY <1>2 DEF OneMore, OldPlace
<1>3. ASSUME NEW k \in SizeIndex, NEW j \in DOMAIN long[k], ~(k = i /\ j = 1)
      PROVE  \E n \in DOMAIN short[k] : OldPlace(i, k, n) = j
  BY <1>3 DEF OneMore, OldPlace
<1> QED
  BY <1>1, <1>2, <1>3

(* A pop: the block moves from the front of list i to the live blocks.        *)
LEMMA PopOwned ==
    ASSUME NEW blocks, NEW long, NEW short, NEW rest, NEW i \in SizeIndex, NEW b,
           OneMore(long, short, i), OwnedOnce(blocks, long, rest),
           FsbBlockSpan(b) = PlaceSpan(long, i, 1)
    PROVE  /\ OwnedOnce(blocks \cup {b}, short, rest)
           /\ \A z : Owned(blocks \cup {b}, short, rest, z) <=> Owned(blocks, long, rest, z)
<1> DEFINE P == PlaceSpan(long, i, 1)
           now == blocks \cup {b}
<1>1. 1 \in DOMAIN long[i]
  BY DEF OneMore
<1>2. /\ P \cap rest = {}
      /\ \A c \in blocks : P \cap FsbBlockSpan(c) = {}
      /\ \A k \in SizeIndex : \A j \in DOMAIN long[k] :
             ~(k = i /\ j = 1) => PlaceSpan(long, k, j) \cap P = {}
  BY <1>1 DEF OwnedOnce
<1> HIDE DEF P
<1>3. FsbBlockSpan(b) = P
  BY DEF P
<1>4. ASSUME NEW k \in SizeIndex, NEW j \in DOMAIN short[k]
      PROVE  /\ PlaceSpan(short, k, j) \cap rest = {}
             /\ \A c \in now : PlaceSpan(short, k, j) \cap FsbBlockSpan(c) = {}
  <2> DEFINE o == OldPlace(i, k, j)
  <2>1. o \in DOMAIN long[k] /\ PlaceSpan(short, k, j) = PlaceSpan(long, k, o) /\ ~(k = i /\ o = 1)
    BY PlacesMoved
  <2> HIDE DEF o
  <2> QED
    BY <1>2, <1>3, <2>1 DEF OwnedOnce
<1>5. ASSUME NEW k \in SizeIndex, NEW j \in DOMAIN short[k],
             NEW m \in SizeIndex, NEW n \in DOMAIN short[m], k # m \/ j # n
      PROVE  PlaceSpan(short, k, j) \cap PlaceSpan(short, m, n) = {}
  <2> DEFINE o == OldPlace(i, k, j)
             p == OldPlace(i, m, n)
  <2>1. /\ o \in DOMAIN long[k] /\ PlaceSpan(short, k, j) = PlaceSpan(long, k, o)
        /\ p \in DOMAIN long[m] /\ PlaceSpan(short, m, n) = PlaceSpan(long, m, p)
    BY PlacesMoved
  <2>2. k # m \/ o # p
    BY <1>5, PlacesMoved
  <2> HIDE DEF o, p
  <2> QED
    BY <2>1, <2>2 DEF OwnedOnce
<1>6. \A c \in now : FsbBlockSpan(c) \cap rest = {}
  BY <1>2, <1>3 DEF OwnedOnce
<1>7. ASSUME NEW c \in now, NEW d \in now, c # d
      PROVE  FsbBlockSpan(c) \cap FsbBlockSpan(d) = {}
  BY <1>2, <1>3, <1>7 DEF OwnedOnce
<1>8. OwnedOnce(now, short, rest)
  BY <1>4, <1>5, <1>6, <1>7 DEF OwnedOnce
<1>9. ASSUME NEW z, Owned(now, short, rest, z) PROVE Owned(blocks, long, rest, z)
  <2>1. CASE z \in P
    BY <1>1, <2>1 DEF Owned, P
  <2>2. CASE \E k \in SizeIndex : \E j \in DOMAIN short[k] : z \in PlaceSpan(short, k, j)
    <3>0. PICK k \in SizeIndex : \E j \in DOMAIN short[k] : z \in PlaceSpan(short, k, j)
      BY <2>2
    <3>1. PICK j \in DOMAIN short[k] : z \in PlaceSpan(short, k, j)
      BY <3>0
    <3>2. OldPlace(i, k, j) \in DOMAIN long[k] /\ z \in PlaceSpan(long, k, OldPlace(i, k, j))
      BY <3>1, PlacesMoved
    <3> QED
      BY <3>2 DEF Owned
  <2> QED
    BY <1>3, <1>9, <2>1, <2>2 DEF Owned
<1>10. ASSUME NEW z, Owned(blocks, long, rest, z) PROVE Owned(now, short, rest, z)
  <2>1. CASE \E k \in SizeIndex : \E j \in DOMAIN long[k] : z \in PlaceSpan(long, k, j)
    <3>0. PICK k \in SizeIndex : \E j \in DOMAIN long[k] : z \in PlaceSpan(long, k, j)
      BY <2>1
    <3>1. PICK j \in DOMAIN long[k] : z \in PlaceSpan(long, k, j)
      BY <3>0
    <3>2. CASE k = i /\ j = 1
      BY <1>3, <3>1, <3>2 DEF Owned, P
    <3>3. CASE ~(k = i /\ j = 1)
      <4>1. PICK n \in DOMAIN short[k] : OldPlace(i, k, n) = j
        BY <3>3, PlacesMoved
      <4>2. z \in PlaceSpan(short, k, n)
        BY <3>1, <4>1, PlacesMoved
      <4> QED
        BY <4>2 DEF Owned
    <3> QED
      BY <3>2, <3>3
  <2> QED
    BY <1>10, <2>1 DEF Owned
<1> QED
  BY <1>8, <1>9, <1>10

(* A push: a live block moves to the front of list i.                         *)
LEMMA PushOwned ==
    ASSUME NEW blocks, NEW long, NEW short, NEW rest, NEW i \in SizeIndex, NEW b \in blocks,
           OneMore(long, short, i), OwnedOnce(blocks, short, rest),
           FsbBlockSpan(b) = PlaceSpan(long, i, 1)
    PROVE  /\ OwnedOnce(blocks \ {b}, long, rest)
           /\ \A z : Owned(blocks \ {b}, long, rest, z) <=> Owned(blocks, short, rest, z)
<1> DEFINE now == blocks \ {b}
           P == FsbBlockSpan(b)
<1>1. /\ P \cap rest = {}
      /\ \A c \in now : P \cap FsbBlockSpan(c) = {}
      /\ \A k \in SizeIndex : \A j \in DOMAIN short[k] : PlaceSpan(short, k, j) \cap P = {}
  BY DEF OwnedOnce
<1>2. P = PlaceSpan(long, i, 1)
  OBVIOUS
<1> HIDE DEF P
<1>3. ASSUME NEW k \in SizeIndex, NEW j \in DOMAIN long[k], ~(k = i /\ j = 1)
      PROVE  \E n \in DOMAIN short[k] : OldPlace(i, k, n) = j
                                        /\ PlaceSpan(long, k, j) = PlaceSpan(short, k, n)
  BY <1>3, PlacesMoved
<1>4. ASSUME NEW k \in SizeIndex, NEW j \in DOMAIN long[k]
      PROVE  /\ PlaceSpan(long, k, j) \cap rest = {}
             /\ \A c \in now : PlaceSpan(long, k, j) \cap FsbBlockSpan(c) = {}
  <2>1. CASE k = i /\ j = 1
    BY <1>1, <1>2, <2>1
  <2>2. CASE ~(k = i /\ j = 1)
    <3>1. PICK n \in DOMAIN short[k] : PlaceSpan(long, k, j) = PlaceSpan(short, k, n)
      BY <1>3, <2>2
    <3> QED
      BY <3>1 DEF OwnedOnce
  <2> QED
    BY <2>1, <2>2
<1>5. ASSUME NEW k \in SizeIndex, NEW j \in DOMAIN long[k],
             NEW m \in SizeIndex, NEW n \in DOMAIN long[m], k # m \/ j # n
      PROVE  PlaceSpan(long, k, j) \cap PlaceSpan(long, m, n) = {}
  <2>1. CASE k = i /\ j = 1
    <3>1. PICK p \in DOMAIN short[m] : PlaceSpan(long, m, n) = PlaceSpan(short, m, p)
      BY <1>3, <1>5, <2>1
    <3> QED
      BY <1>1, <1>2, <2>1, <3>1
  <2>2. CASE m = i /\ n = 1
    <3>1. PICK o \in DOMAIN short[k] : PlaceSpan(long, k, j) = PlaceSpan(short, k, o)
      BY <1>3, <1>5, <2>2
    <3> QED
      BY <1>1, <1>2, <2>2, <3>1
  <2>3. CASE ~(k = i /\ j = 1) /\ ~(m = i /\ n = 1)
    <3>1. PICK o \in DOMAIN short[k] : /\ OldPlace(i, k, o) = j
                                       /\ PlaceSpan(long, k, j) = PlaceSpan(short, k, o)
      BY <1>3, <2>3
    <3>2. PICK p \in DOMAIN short[m] : /\ OldPlace(i, m, p) = n
                                       /\ PlaceSpan(long, m, n) = PlaceSpan(short, m, p)
      BY <1>3, <2>3
    <3>3. k # m \/ o # p
      BY <1>5, <3>1, <3>2
    <3> QED
      BY <3>1, <3>2, <3>3 DEF OwnedOnce
  <2> QED
    BY <2>1, <2>2, <2>3
<1>6. OwnedOnce(now, long, rest)
  BY <1>4, <1>5 DEF OwnedOnce
<1>7. ASSUME NEW z, Owned(now, long, rest, z) PROVE Owned(blocks, short, rest, z)
  <2>1. CASE \E k \in SizeIndex : \E j \in DOMAIN long[k] : z \in PlaceSpan(long, k, j)
    <3>0. PICK k \in SizeIndex : \E j \in DOMAIN long[k] : z \in PlaceSpan(long, k, j)
      BY <2>1
    <3>1. PICK j \in DOMAIN long[k] : z \in PlaceSpan(long, k, j)
      BY <3>0
    <3>2. CASE k = i /\ j = 1
      BY <1>2, <3>1, <3>2 DEF Owned, P
    <3>3. CASE ~(k = i /\ j = 1)
      BY <1>3, <3>1, <3>3 DEF Owned
    <3> QED
      BY <3>2, <3>3
  <2> QED
    BY <1>7, <2>1 DEF Owned
<1>8. ASSUME NEW z, Owned(blocks, short, rest, z) PROVE Owned(now, long, rest, z)
  <2>1. CASE z \in P
    <3>1. 1 \in DOMAIN long[i]
      BY DEF OneMore
    <3> QED
      BY <1>2, <2>1, <3>1 DEF Owned
  <2>2. CASE \E k \in SizeIndex : \E j \in DOMAIN short[k] : z \in PlaceSpan(short, k, j)
    <3>0. PICK k \in SizeIndex : \E j \in DOMAIN short[k] : z \in PlaceSpan(short, k, j)
      BY <2>2
    <3>1. PICK j \in DOMAIN short[k] : z \in PlaceSpan(short, k, j)
      BY <3>0
    <3>2. OldPlace(i, k, j) \in DOMAIN long[k] /\ z \in PlaceSpan(long, k, OldPlace(i, k, j))
      BY <3>1, PlacesMoved
    <3> QED
      BY <3>2 DEF Owned
  <2> QED
    BY <1>8, <2>1, <2>2 DEF Owned, P
<1> QED
  BY <1>6, <1>7, <1>8

(* A block cut out of what the fallback allocator has left.                   *)
LEMMA CarveOwned ==
    ASSUME NEW blocks, NEW heads, NEW rest, NEW b, OwnedOnce(blocks, heads, rest),
           FsbBlockSpan(b) \subseteq rest
    PROVE  /\ OwnedOnce(blocks \cup {b}, heads, rest \ FsbBlockSpan(b))
           /\ \A z : Owned(blocks \cup {b}, heads, rest \ FsbBlockSpan(b), z)
                       <=> Owned(blocks, heads, rest, z)
<1> DEFINE P == FsbBlockSpan(b)
           now == blocks \cup {b}
           left == rest \ P
<1>1. \A c \in now : FsbBlockSpan(c) \cap left = {}
  BY DEF OwnedOnce
<1>2. \A c, d \in now : c # d => FsbBlockSpan(c) \cap FsbBlockSpan(d) = {}
  BY DEF OwnedOnce
<1>3. \A k \in SizeIndex : \A j \in DOMAIN heads[k] :
        /\ PlaceSpan(heads, k, j) \cap left = {}
        /\ \A c \in now : PlaceSpan(heads, k, j) \cap FsbBlockSpan(c) = {}
  BY DEF OwnedOnce
<1>4. OwnedOnce(now, heads, left)
  BY <1>1, <1>2, <1>3 DEF OwnedOnce
<1>5. ASSUME NEW z PROVE Owned(now, heads, left, z) <=> Owned(blocks, heads, rest, z)
  BY DEF Owned
<1> QED
  BY <1>4, <1>5

(* A large block that goes back to the fallback allocator.                    *)
LEMMA ReturnOwned ==
    ASSUME NEW blocks, NEW heads, NEW rest, NEW b \in blocks, OwnedOnce(blocks, heads, rest)
    PROVE  /\ OwnedOnce(blocks \ {b}, heads, rest \cup FsbBlockSpan(b))
           /\ \A z : Owned(blocks \ {b}, heads, rest \cup FsbBlockSpan(b), z)
                       <=> Owned(blocks, heads, rest, z)
<1> DEFINE P == FsbBlockSpan(b)
           now == blocks \ {b}
           more == rest \cup P
<1>1. \A c \in now : FsbBlockSpan(c) \cap more = {}
  BY DEF OwnedOnce
<1>2. \A k \in SizeIndex : \A j \in DOMAIN heads[k] : PlaceSpan(heads, k, j) \cap more = {}
  BY DEF OwnedOnce
<1>3. OwnedOnce(now, heads, more)
  BY <1>1, <1>2 DEF OwnedOnce
<1>4. ASSUME NEW z PROVE Owned(now, heads, more, z) <=> Owned(blocks, heads, rest, z)
  BY DEF Owned
<1> QED
  BY <1>3, <1>4

(* What makes an allocation one that GlobalAlloc allows: an aligned block in  *)
(* memory that no live block uses.                                            *)
LEMMA AllocAllowed ==
    ASSUME NEW start \in Nat, NEW l \in Layouts, start % l.align = 0, NEW S,
           Span(start, l.size) \subseteq S, S \subseteq HeapSpan,
           \A c \in live : S \cap BlockSpan(c) = {},
           live' = live \cup {[start |-> start, layout |-> l]}
    PROVE  GNext
<1> DEFINE b == [start |-> start, layout |-> l]
<1>1. BlockSpan(b) = Span(start, l.size)
  BY DEF BlockSpan
<1>2. start \in HeapSpan
  <2>1. start \in Span(start, l.size)
    BY HeapAssumption DEF Span
  <2> QED
    BY <2>1
<1>3. GAlloc(b)
  BY <1>1 DEF GAlloc
<1> QED
  BY <1>2, <1>3 DEF GNext

(* The part of its memory that a block's caller may use.                      *)
LEMMA UsedPart ==
    ASSUME NEW b \in Blocks
    PROVE  BlockSpan(b) \subseteq FsbBlockSpan(b) /\ FsbSize(b.layout) \in Nat
<1>1. b.layout \in Layouts /\ b.start \in Nat /\ b.layout.size \in Nat
  BY HeapAssumption DEF Blocks
<1>2. FsbSize(b.layout) \in Nat /\ FsbSize(b.layout) >= b.layout.size
  <2>1. CASE Oversized(b.layout)
    BY <1>1, <2>1 DEF FsbSize
  <2>2. CASE ~Oversized(b.layout)
    <3>1. PICK i \in SizeIndex : ListIndex(b.layout, i)
      BY <2>2 DEF Oversized, SizeIndex
    <3> QED
      BY <1>1, <3>1, SizeOfListed
  <2> QED
    BY <2>1, <2>2
<1> QED
  BY <1>1, <1>2, SpanInside DEF BlockSpan, FsbBlockSpan

(* A pop returns an aligned block of the right list.                          *)
LEMMA FsbPopStep ==
    ASSUME FsbInv, kind = "fixed_size_block", NEW l \in Layouts, FsbPop(l), UNCHANGED kind
    PROVE  FsbInv' /\ GNext
<1>1. PICK i \in SizeIndex :
        /\ ListIndex(l, i) /\ listHeads[i] # <<>>
        /\ listHeads' = [listHeads EXCEPT ![i] = Tail(@)]
        /\ live' = live \cup {[start |-> Head(listHeads[i]), layout |-> l]}
        /\ fallback' = fallback
  BY DEF FsbPop, FsbReturns, SizeIndex
<1> DEFINE a == Head(listHeads[i])
           b == [start |-> a, layout |-> l]
<1>2. /\ live \subseteq Blocks /\ listHeads \in [SizeIndex -> Seq(Nat)]
      /\ BlocksAligned(live, listHeads) /\ OwnedOnce(live, listHeads, fallback)
      /\ \A z : z \in HeapSpan <=> Owned(live, listHeads, fallback, z)
  BY DEF FsbInv
<1>3. listHeads[i] \in Seq(Nat)
  BY <1>2
<1>4. /\ listHeads' \in [SizeIndex -> Seq(Nat)] /\ listHeads'[i] = Tail(listHeads[i])
      /\ \A k \in SizeIndex : k # i => listHeads'[k] = listHeads[k]
  BY <1>1, <1>2, <1>3
<1>5. OneMore(listHeads, listHeads', i) /\ a = listHeads[i][1] /\ a \in Nat
  BY <1>1, <1>3, <1>4, PopPlaces DEF OneMore
<1>6. /\ FsbSize(l) = BlockSizes[i] /\ BlockSizes[i] \in Nat \ {0}
      /\ BlockSizes[i] % l.align = 0 /\ \A k \in SizeIndex : ListIndex(l, k) => k = i
  BY <1>1, SizeOfListed
<1>7. a % BlockSizes[i] = 0 /\ 1 \in DOMAIN listHeads[i]
  BY <1>2, <1>5 DEF BlocksAligned, OneMore
<1>8. b \in Blocks
  BY <1>5 DEF Blocks
<1>9. FsbBlockSpan(b) = PlaceSpan(listHeads, i, 1)
  BY <1>5, <1>6 DEF FsbBlockSpan, PlaceSpan
<1> HIDE DEF a
<1>10. BlocksAligned(live', listHeads')
  <2>1. ASSUME NEW k \in SizeIndex, NEW j \in DOMAIN listHeads'[k]
        PROVE  listHeads'[k][j] % BlockSizes[k] = 0
    <3>1. CASE k = i
      BY <1>2, <1>5, <3>1 DEF OneMore, BlocksAligned
    <3>2. CASE k # i
      BY <1>2, <1>4, <3>2 DEF BlocksAligned
    <3> QED
      BY <3>1, <3>2
  <2>2. ASSUME NEW c \in live', NEW k \in SizeIndex, ListIndex(c.layout, k)
        PROVE  c.start % BlockSizes[k] = 0
    <3>1. CASE c = b
      BY <1>6, <1>7, <2>2, <3>1
    <3>2. CASE c \in live
      BY <1>2, <2>2, <3>2 DEF BlocksAligned
    <3> QED
      BY <1>1, <3>1, <3>2 DEF a
  <2> QED
    BY <2>1, <2>2 DEF BlocksAligned
<1>11. live' = live \cup {b}
  BY <1>1 DEF a
<1> HIDE DEF b
<1>12. /\ OwnedOnce(live', listHeads', fallback')
       /\ \A z : Owned(live', listHeads', fallback', z) <=> Owned(live, listHeads, fallback, z)
  <2>1. /\ OwnedOnce(live \cup {b}, listHeads', fallback)
        /\ \A z : Owned(live \cup {b}, listHeads', fallback, z)
                    <=> Owned(live, listHeads, fallback, z)
    BY <1>2, <1>5, <1>9, PopOwned, Zenon
  <2>2. fallback' = fallback
    BY <1>1
  <2> QED
    BY <1>11, <2>1, <2>2, Zenon
<1>13. live' \subseteq Blocks
  BY <1>2, <1>8, <1>11
<1>14. FsbInv'
  BY <1>2, <1>4, <1>10, <1>12, <1>13 DEF FsbInv
<1>15. GNext
  <2> DEFINE S == PlaceSpan(listHeads, i, 1)
  <2>1. S \subseteq HeapSpan
    BY <1>2, <1>7 DEF Owned
  <2>2. \A c \in live : S \cap BlockSpan(c) = {}
    <3>1. \A c \in live : S \cap FsbBlockSpan(c) = {}
      BY <1>2, <1>7 DEF OwnedOnce
    <3> QED
      BY <1>2, <3>1, UsedPart
  <2>3. BlockSpan(b) \subseteq S /\ BlockSpan(b) = Span(a, l.size)
    BY <1>8, <1>9, UsedPart DEF BlockSpan, b
  <2>4. a \in Nat /\ a % l.align = 0
    BY <1>5, <1>6, <1>7, MultiplesChain, HeapAssumption
  <2>5. live' = live \cup {[start |-> a, layout |-> l]}
    BY <1>11 DEF b
  <2> HIDE DEF S
  <2> QED
    BY <2>1, <2>2, <2>3, <2>4, <2>5, AllocAllowed
<1> QED
  BY <1>14, <1>15

(* A block cut from the fallback allocator, for a list or for a large layout. *)
LEMMA FsbFreshStep ==
    ASSUME FsbInv, kind = "fixed_size_block", NEW l \in Layouts, NEW start \in fallback,
           NEW align \in Nat \ {0}, FallbackAlloc(start, FsbSize(l), align),
           align % l.align = 0, \A k \in SizeIndex : ListIndex(l, k) => align = BlockSizes[k],
           FsbReturns(start, l), UNCHANGED <<kind, listHeads>>
    PROVE  FsbInv' /\ GNext
<1> DEFINE b == [start |-> start, layout |-> l]
<1>1. /\ live \subseteq Blocks /\ listHeads \in [SizeIndex -> Seq(Nat)]
      /\ BlocksAligned(live, listHeads) /\ OwnedOnce(live, listHeads, fallback)
      /\ \A z : z \in HeapSpan <=> Owned(live, listHeads, fallback, z)
  BY DEF FsbInv
<1>2. start \in HeapSpan /\ fallback \subseteq HeapSpan
  BY <1>1 DEF Owned
<1>3. start \in Nat
  BY <1>2, HeapAssumption DEF HeapSpan, Span
<1>4. b \in Blocks /\ FsbBlockSpan(b) = Span(start, FsbSize(l))
  BY <1>3 DEF Blocks, FsbBlockSpan
<1>5. /\ start % align = 0 /\ Span(start, FsbSize(l)) \subseteq fallback
      /\ fallback' = fallback \ Span(start, FsbSize(l)) /\ live' = live \cup {b}
  BY DEF FallbackAlloc, FsbReturns
<1>6. BlocksAligned(live', listHeads')
  <2>1. ASSUME NEW c \in live', NEW k \in SizeIndex, ListIndex(c.layout, k)
        PROVE  c.start % BlockSizes[k] = 0
    <3>1. CASE c = b
      BY <1>5, <2>1, <3>1
    <3>2. CASE c \in live
      BY <1>1, <2>1, <3>2 DEF BlocksAligned
    <3> QED
      BY <1>5, <3>1, <3>2
  <2> QED
    BY <1>1, <2>1 DEF BlocksAligned
<1> HIDE DEF b
<1>7. /\ OwnedOnce(live', listHeads', fallback')
      /\ \A z : Owned(live', listHeads', fallback', z) <=> Owned(live, listHeads, fallback, z)
  <2>1. /\ OwnedOnce(live \cup {b}, listHeads, fallback \ FsbBlockSpan(b))
        /\ \A z : Owned(live \cup {b}, listHeads, fallback \ FsbBlockSpan(b), z)
                    <=> Owned(live, listHeads, fallback, z)
    <3>1. FsbBlockSpan(b) \subseteq fallback
      BY <1>4, <1>5
    <3> QED
      BY <1>1, <3>1, CarveOwned, Zenon
  <2> QED
    BY <1>4, <1>5, <2>1
<1>8. FsbInv'
  BY <1>1, <1>4, <1>5, <1>6, <1>7 DEF FsbInv
<1>9. GNext
  <2> DEFINE S == Span(start, FsbSize(l))
  <2>1. S \subseteq HeapSpan
    BY <1>2, <1>5
  <2>2. \A c \in live : S \cap BlockSpan(c) = {}
    <3>1. \A c \in live : S \cap FsbBlockSpan(c) = {}
      BY <1>1, <1>5 DEF OwnedOnce
    <3> QED
      BY <1>1, <3>1, UsedPart
  <2>3. BlockSpan(b) \subseteq S /\ BlockSpan(b) = Span(start, l.size)
    BY <1>4, UsedPart DEF BlockSpan, b
  <2>4. start % l.align = 0
    BY <1>3, <1>5, MultiplesChain, HeapAssumption
  <2>5. live' = live \cup {[start |-> start, layout |-> l]}
    BY <1>5 DEF b
  <2> HIDE DEF S
  <2> QED
    BY <1>3, <2>1, <2>2, <2>3, <2>4, <2>5, AllocAllowed
<1> QED
  BY <1>8, <1>9

(* The two calls of allocate_first_fit are such cuts.                         *)
LEMMA FsbCarveStep ==
    ASSUME FsbInv, kind = "fixed_size_block", NEW l \in Layouts,
           FsbCarve(l) \/ FsbAllocLarge(l), UNCHANGED kind
    PROVE  FsbInv' /\ GNext
<1>1. CASE FsbCarve(l)
  <2>1. PICK i \in SizeIndex, start \in fallback :
          /\ ListIndex(l, i) /\ FallbackAlloc(start, BlockSizes[i], BlockSizes[i])
          /\ FsbReturns(start, l) /\ UNCHANGED listHeads
    BY <1>1 DEF FsbCarve, SizeIndex
  <2>2. /\ FsbSize(l) = BlockSizes[i] /\ BlockSizes[i] \in Nat \ {0}
        /\ BlockSizes[i] % l.align = 0
        /\ \A k \in SizeIndex : ListIndex(l, k) => BlockSizes[i] = BlockSizes[k]
    BY <2>1, SizeOfListed
  <2> QED
    BY <2>1, <2>2, FsbFreshStep
<1>2. CASE FsbAllocLarge(l)
  <2>1. PICK start \in fallback :
          /\ Oversized(l) /\ FallbackAlloc(start, l.size, l.align)
          /\ FsbReturns(start, l) /\ UNCHANGED listHeads
    BY <1>2 DEF FsbAllocLarge
  <2>2. FsbSize(l) = l.size /\ \A k \in SizeIndex : ~ListIndex(l, k)
    BY <2>1 DEF FsbSize, Oversized, SizeIndex
  <2>3. l.align \in Nat \ {0}
    BY HeapAssumption
  <2>4. l.align % l.align = 0
    BY <2>3
  <2> QED
    BY <2>1, <2>2, <2>3, <2>4, FsbFreshStep
<1> QED
  BY <1>1, <1>2

(* dealloc puts a block on the list that alloc would take it from.            *)
LEMMA FsbPushStep ==
    ASSUME FsbInv, kind = "fixed_size_block", NEW b \in live, FsbPush(b), UNCHANGED kind
    PROVE  FsbInv' /\ GNext
<1>1. PICK i \in SizeIndex :
        /\ ListIndex(b.layout, i)
        /\ listHeads' = [listHeads EXCEPT ![i] = <<b.start>> \o @]
        /\ live' = live \ {b} /\ fallback' = fallback
  BY DEF FsbPush, SizeIndex
<1>2. /\ live \subseteq Blocks /\ listHeads \in [SizeIndex -> Seq(Nat)]
      /\ BlocksAligned(live, listHeads) /\ OwnedOnce(live, listHeads, fallback)
      /\ \A z : z \in HeapSpan <=> Owned(live, listHeads, fallback, z)
  BY DEF FsbInv
<1>3. listHeads[i] \in Seq(Nat) /\ b.start \in Nat /\ b.layout \in Layouts
  BY <1>2 DEF Blocks
<1>4. /\ listHeads'[i] = <<b.start>> \o listHeads[i]
      /\ \A k \in SizeIndex : k # i => listHeads'[k] = listHeads[k]
  BY <1>1, <1>2
<1>5. listHeads' \in [SizeIndex -> Seq(Nat)]
  <2>1. <<b.start>> \o listHeads[i] \in Seq(Nat)
    BY <1>3, PushPlaces
  <2> QED
    BY <1>1, <1>2, <2>1
<1>6. OneMore(listHeads', listHeads, i) /\ listHeads'[i][1] = b.start
  BY <1>3, <1>4, PushPlaces DEF OneMore
<1>7. FsbSize(b.layout) = BlockSizes[i] /\ b.start % BlockSizes[i] = 0
  BY <1>1, <1>2, <1>3, SizeOfListed DEF BlocksAligned
<1>8. FsbBlockSpan(b) = PlaceSpan(listHeads', i, 1)
  BY <1>6, <1>7 DEF FsbBlockSpan, PlaceSpan
<1>9. BlocksAligned(live', listHeads')
  <2>1. ASSUME NEW k \in SizeIndex, NEW j \in DOMAIN listHeads'[k]
        PROVE  listHeads'[k][j] % BlockSizes[k] = 0
    <3>1. CASE k = i /\ j = 1
      BY <1>6, <1>7, <3>1
    <3>2. CASE k = i /\ j # 1
      <4>1. PICK n \in DOMAIN listHeads[i] : n + 1 = j
        BY <1>6, <2>1, <3>2 DEF OneMore
      <4>2. listHeads'[k][j] = listHeads[i][n]
        BY <1>6, <3>2, <4>1 DEF OneMore
      <4> QED
        BY <1>2, <3>2, <4>2 DEF BlocksAligned
    <3>3. CASE k # i
      BY <1>2, <1>4, <3>3 DEF BlocksAligned
    <3> QED
      BY <3>1, <3>2, <3>3
  <2> QED
    BY <1>1, <1>2, <2>1 DEF BlocksAligned
<1>10. /\ OwnedOnce(live', listHeads', fallback')
       /\ \A z : Owned(live', listHeads', fallback', z) <=> Owned(live, listHeads, fallback, z)
  <2>1. /\ OwnedOnce(live \ {b}, listHeads', fallback)
        /\ \A z : Owned(live \ {b}, listHeads', fallback, z)
                    <=> Owned(live, listHeads, fallback, z)
    BY <1>2, <1>6, <1>8, PushOwned, Zenon
  <2>2. fallback' = fallback /\ live' = live \ {b}
    BY <1>1
  <2> QED
    BY <2>1, <2>2, Zenon
<1>11. FsbInv'
  BY <1>1, <1>2, <1>5, <1>9, <1>10 DEF FsbInv
<1> QED
  BY <1>1, <1>11 DEF GNext, GDealloc

(* ... and a large block back into the fallback allocator.                    *)
LEMMA FsbDeallocLargeStep ==
    ASSUME FsbInv, kind = "fixed_size_block", NEW b \in live, FsbDeallocLarge(b), UNCHANGED kind
    PROVE  FsbInv' /\ GNext
<1>1. /\ live' = live \ {b} /\ listHeads' = listHeads
      /\ fallback' = fallback \cup FsbBlockSpan(b)
  BY DEF FsbDeallocLarge, FsbBlockSpan, FsbSize
<1>2. /\ live \subseteq Blocks /\ listHeads \in [SizeIndex -> Seq(Nat)]
      /\ BlocksAligned(live, listHeads) /\ OwnedOnce(live, listHeads, fallback)
      /\ \A z : z \in HeapSpan <=> Owned(live, listHeads, fallback, z)
  BY DEF FsbInv
<1>3. /\ OwnedOnce(live', listHeads', fallback')
      /\ \A z : Owned(live', listHeads', fallback', z) <=> Owned(live, listHeads, fallback, z)
  <2>1. /\ OwnedOnce(live \ {b}, listHeads, fallback \cup FsbBlockSpan(b))
        /\ \A z : Owned(live \ {b}, listHeads, fallback \cup FsbBlockSpan(b), z)
                    <=> Owned(live, listHeads, fallback, z)
    BY <1>2, ReturnOwned, Zenon
  <2> QED
    BY <1>1, <2>1, Zenon
<1>4. BlocksAligned(live', listHeads')
  BY <1>1, <1>2 DEF BlocksAligned
<1>5. FsbInv'
  BY <1>1, <1>2, <1>3, <1>4 DEF FsbInv
<1> QED
  BY <1>1, <1>5 DEF GNext, GDealloc

(* Every step of the fixed-size allocator keeps its invariant and is one that *)
(* GlobalAlloc allows.                                                        *)
LEMMA FsbStep ==
    ASSUME FsbInv, FixedSizeBlockStep
    PROVE  FsbInv' /\ GNext
<1>1. kind = "fixed_size_block" /\ UNCHANGED kind
  BY DEF FixedSizeBlockStep
<1> QED
  BY <1>1, FsbPopStep, FsbCarveStep, FsbPushStep, FsbDeallocLargeStep DEF FixedSizeBlockStep

(* All memory starts out with the fallback allocator.                         *)
LEMMA FsbStart == HeapInit => FsbInv
<1> SUFFICES ASSUME HeapInit PROVE FsbInv
  OBVIOUS
<1>1. live = {} /\ listHeads = [i \in SizeIndex |-> <<>>] /\ fallback = HeapSpan
  BY DEF HeapInit, GInit, FsbInit, SizeIndex
<1>2. listHeads \in [SizeIndex -> Seq(Nat)] /\ \A k \in SizeIndex : DOMAIN listHeads[k] = {}
  BY <1>1
<1> QED
  BY <1>1, <1>2 DEF FsbInv, BlocksAligned, OwnedOnce, Owned

(* The other allocators do not touch what the invariant is about.             *)
LEMMA FsbInvStep == FsbInv /\ [HeapNext]_heapVars => FsbInv'
<1> SUFFICES ASSUME FsbInv, [HeapNext]_heapVars PROVE FsbInv'
  OBVIOUS
<1>1. CASE FixedSizeBlockStep
  BY <1>1, FsbStep
<1>2. CASE LinkedListStep \/ BumpStep
  BY <1>2 DEF LinkedListStep, BumpStep, FsbInv
<1>3. CASE UNCHANGED heapVars
  BY <1>3 DEF heapVars, FsbInv
<1> QED
  BY <1>1, <1>2, <1>3 DEF HeapNext

(* BlocksPartitionHeap, for every heap, every list of block sizes and every   *)
(* set of layouts: over any run of alloc and dealloc the fixed-size           *)
(* allocator's memory is divided without overlap and without loss between     *)
(* live blocks, listed blocks and the fallback allocator.                     *)
THEOREM FixedSizePartition == HeapSpec => []BlocksPartitionHeap
<1>1. FsbInv => BlocksPartitionHeap
  <2> SUFFICES ASSUME FsbInv, kind = "fixed_size_block" PROVE BlocksPartitionHeap
    BY DEF BlocksPartitionHeap
  <2> DEFINE listed == UNION {{i} \X (DOMAIN listHeads[i]) : i \in DOMAIN BlockSizes}
  <2>1. /\ OwnedOnce(live, listHeads, fallback)
        /\ \A z : z \in HeapSpan <=> Owned(live, listHeads, fallback, z)
    BY DEF FsbInv
  <2>2. \A p \in listed : /\ p[1] \in SizeIndex /\ p[2] \in DOMAIN listHeads[p[1]]
                          /\ p = <<p[1], p[2]>>
    BY DEF SizeIndex
  <2>3. \A k \in SizeIndex : \A j \in DOMAIN listHeads[k] :
          <<k, j>> \in listed /\ <<k, j>>[1] = k /\ <<k, j>>[2] = j
    BY DEF SizeIndex
  <2> HIDE DEF listed
  <2>4. \A p \in listed :
          /\ ListedSpan(p[1], p[2]) \cap fallback = {}
          /\ \A b \in live : ListedSpan(p[1], p[2]) \cap FsbBlockSpan(b) = {}
    BY <2>1, <2>2 DEF OwnedOnce, ListedSpan, PlaceSpan
  <2>5. ASSUME NEW p \in listed, NEW q \in listed, p # q
        PROVE  ListedSpan(p[1], p[2]) \cap ListedSpan(q[1], q[2]) = {}
    <3>1. p[1] # q[1] \/ p[2] # q[2]
      BY <2>2, <2>5
    <3> QED
      BY <2>1, <2>2, <3>1 DEF OwnedOnce, ListedSpan, PlaceSpan
  <2>6. HeapSpan = fallback \cup (UNION {FsbBlockSpan(b) : b \in live})
                            \cup (UNION {ListedSpan(p[1], p[2]) : p \in listed})
    <3> DEFINE B == UNION {FsbBlockSpan(b) : b \in live}
               L == UNION {ListedSpan(p[1], p[2]) : p \in listed}
    <3>1. ASSUME NEW z PROVE z \in B <=> \E b \in live : z \in FsbBlockSpan(b)
      OBVIOUS
    <3>2. ASSUME NEW z PROVE z \in L <=> \E p \in listed : z \in ListedSpan(p[1], p[2])
      OBVIOUS
    <3>3. ASSUME NEW z
          PROVE  (\E p \in listed : z \in ListedSpan(p[1], p[2])) <=>
                 (\E k \in SizeIndex : \E j \in DOMAIN listHeads[k] : z \in PlaceSpan(listHeads, k, j))
      <4>1. ASSUME NEW p \in listed, z \in ListedSpan(p[1], p[2])
            PROVE  \E k \in SizeIndex : \E j \in DOMAIN listHeads[k] : z \in PlaceSpan(listHeads, k, j)
        BY <2>2, <4>1 DEF ListedSpan, PlaceSpan
      <4>2. ASSUME NEW k \in SizeIndex, NEW j \in DOMAIN listHeads[k], z \in PlaceSpan(listHeads, k, j)
            PROVE  \E p \in listed : z \in ListedSpan(p[1], p[2])
        <5>1. z \in ListedSpan(<<k, j>>[1], <<k, j>>[2]) /\ <<k, j>> \in listed
          BY <2>3, <4>2 DEF ListedSpan, PlaceSpan
        <5> QED
          BY <5>1
      <4> QED
        BY <4>1, <4>2
    <3> HIDE DEF B, L
    <3>4. \A z : z \in HeapSpan <=> z \in fallback \/ z \in B \/ z \in L
      BY <2>1, <3>1, <3>2, <3>3 DEF Owned
    <3>5. HeapSpan = fallback \cup B \cup L
      BY <3>4
    <3> QED
      BY <3>5 DEF B, L
  <2> QED
    BY <2>1, <2>4, <2>5, <2>6 DEF BlocksPartitionHeap, OwnedOnce, listed
<1> QED
  BY <1>1, FsbStart, FsbInvStep, PTL DEF HeapSpec

-----------------------------------------------------------------------------
(* The bump allocator: its blocks lie below `next', in the order in which     *)
(* they were handed out, and the counter says how many there are.             *)
BumpInv ==
    kind = "bump" =>
        /\ live \subseteq Blocks /\ IsFiniteSet(live)
        /\ allocations = Cardinality(live) /\ allocations \in Nat
        /\ next \in Nat /\ HeapStart <= next /\ next <= HeapStart + HeapSize
        /\ \A b \in live : HeapStart <= b.start /\ b.start + b.layout.size <= next

(* alloc hands out memory above everything in use.                            *)
LEMMA BumpAllocStep ==
    ASSUME BumpInv, kind = "bump", NEW l \in Layouts, BumpAlloc(l), UNCHANGED kind
    PROVE  BumpInv' /\ GNext
<1> DEFINE start == AlignUp(next, l.align)
           b == [start |-> start, layout |-> l]
<1>1. /\ live \subseteq Blocks /\ IsFiniteSet(live)
      /\ allocations = Cardinality(live) /\ allocations \in Nat
      /\ next \in Nat /\ HeapStart <= next /\ next <= HeapStart + HeapSize
      /\ \A c \in live : HeapStart <= c.start /\ c.start + c.layout.size <= next
  BY DEF BumpInv
<1>2. l.align \in Nat \ {0} /\ l.size \in Nat \ {0} /\ HeapStart \in Nat /\ HeapSize \in Nat
  BY HeapAssumption
<1>3. start \in Nat /\ start >= next /\ start % l.align = 0
  BY <1>1, <1>2, AlignUpGrows, AlignUpAligns
<1>4. /\ start + l.size <= HeapStart + HeapSize /\ next' = start + l.size
      /\ allocations' = allocations + 1 /\ live' = live \cup {b}
  BY DEF BumpAlloc
<1> HIDE DEF start
<1>5. b \in Blocks /\ b.start = start /\ b.layout = l
  BY <1>3 DEF Blocks
<1>6. b \notin live
  BY <1>1, <1>2, <1>3, <1>5
<1> HIDE DEF b
<1>7. IsFiniteSet(live') /\ Cardinality(live') = Cardinality(live) + 1
  BY <1>1, <1>4, <1>6, FS_AddElement
<1>8. \A c \in Blocks : c.start \in Nat /\ c.layout.size \in Nat
  BY HeapAssumption DEF Blocks
<1>9. \A c \in live' : HeapStart <= c.start /\ c.start + c.layout.size <= next'
  BY <1>1, <1>2, <1>3, <1>4, <1>5, <1>8
<1>10. BumpInv'
  BY <1>1, <1>2, <1>3, <1>4, <1>5, <1>7, <1>9 DEF BumpInv
<1>11. GNext
  <2> DEFINE S == Span(start, l.size)
  <2>1. S \subseteq HeapSpan
    <3>1. HeapStart <= start /\ start \in Nat /\ l.size \in Nat
      BY <1>1, <1>2, <1>3
    <3> QED
      BY <1>2, <1>4, <3>1, SpanInside DEF HeapSpan
  <2>2. \A c \in live : S \cap BlockSpan(c) = {}
    BY <1>1, <1>2, <1>3, <1>8 DEF BlockSpan, Span
  <2>3. live' = live \cup {[start |-> start, layout |-> l]}
    BY <1>4 DEF b
  <2> QED
    BY <1>3, <2>1, <2>2, <2>3, AllocAllowed
<1> QED
  BY <1>10, <1>11

(* dealloc starts over only when no block is in use.                          *)
LEMMA BumpDeallocStep ==
    ASSUME BumpInv, kind = "bump", NEW b \in live, BumpDealloc(b), UNCHANGED kind
    PROVE  BumpInv' /\ GNext
<1>1. /\ live \subseteq Blocks /\ IsFiniteSet(live)
      /\ allocations = Cardinality(live) /\ allocations \in Nat
      /\ next \in Nat /\ HeapStart <= next /\ next <= HeapStart + HeapSize
      /\ \A c \in live : HeapStart <= c.start /\ c.start + c.layout.size <= next
  BY DEF BumpInv
<1>2. /\ allocations' = allocations - 1 /\ live' = live \ {b}
      /\ next' = IF allocations' = 0 THEN HeapStart ELSE next
  BY DEF BumpDealloc
<1>3. IsFiniteSet(live') /\ Cardinality(live') = Cardinality(live) - 1
  BY <1>1, <1>2, FS_RemoveElement
<1>4. Cardinality(live') \in Nat /\ (Cardinality(live') = 0 <=> live' = {})
  BY <1>3, FS_CardinalityType, FS_EmptySet
<1>5. BumpInv'
  BY <1>1, <1>2, <1>3, <1>4, HeapAssumption DEF BumpInv
<1> QED
  BY <1>2, <1>5 DEF GNext, GDealloc

(* Every step of the bump allocator keeps its invariant and is one that       *)
(* GlobalAlloc allows.                                                        *)
LEMMA BumpKeeps ==
    ASSUME BumpInv, BumpStep
    PROVE  BumpInv' /\ GNext
<1>1. kind = "bump" /\ UNCHANGED kind
  BY DEF BumpStep
<1> QED
  BY <1>1, BumpAllocStep, BumpDeallocStep DEF BumpStep

(* And of the linked list.                                                    *)
LEMMA LinkedListAllowed ==
    ASSUME RegionInv, LinkedListStep
    PROVE  GNext
<1>1. kind = "linked_list"
  BY DEF LinkedListStep
<1>2. ASSUME NEW l \in Layouts, LlAlloc(l) PROVE GNext
  <2>1. PICK i \in DOMAIN free :
          /\ FindRegion(i, l)
          /\ live' = live \cup {[start |-> AllocStart(free[i], l), layout |-> l]}
    BY <1>2 DEF LlAlloc
  <2> DEFINE r == free[i]
             S == Span(AllocStart(r, l), LlSize(l))
  <2>2. r \in [start : Nat, size : Nat] /\ AllocFromRegion(r, l)
    BY <2>1, LenProperties, ElementOfSeq DEF RegionInv, FindRegion
  <2>3. S \subseteq RegionSpan(r) /\ AllocStart(r, l) \in Nat
    BY <2>2, CutRegion
  <2>4. S \subseteq HeapSpan
    BY <1>1, <2>3 DEF RegionInv, RegionsApart
  <2>5. ASSUME NEW c \in Blocks PROVE BlockSpan(c) \subseteq LlBlockSpan(c)
    <3>1. c.layout \in Layouts /\ c.start \in Nat /\ c.layout.size \in Nat
      BY HeapAssumption DEF Blocks
    <3> QED
      BY <3>1, AdjustedLayout, SpanInside DEF BlockSpan, LlBlockSpan
  <2>6. \A c \in live : S \cap BlockSpan(c) = {}
    BY <1>1, <2>3, <2>5 DEF RegionInv, RegionsApart
  <2>7. Span(AllocStart(r, l), l.size) \subseteq S
    BY <2>3, AdjustedLayout, SpanInside, HeapAssumption
  <2>8. AllocStart(r, l) % l.align = 0
    BY <2>2, CutAligned
  <2> HIDE DEF S, r
  <2> QED
    BY <2>1, <2>3, <2>4, <2>6, <2>7, <2>8, AllocAllowed DEF r
<1>3. ASSUME NEW b \in live, LlDealloc(b) PROVE GNext
  BY <1>3 DEF LlDealloc, GNext, GDealloc
<1> QED
  BY <1>2, <1>3 DEF LinkedListStep

(* The refinement: whatever the allocator behind the lock, the heap, the      *)
(* layouts and the block sizes, every behaviour of the kernel's heap is one   *)
(* that GlobalAlloc's contract allows: blocks in the heap, aligned, disjoint. *)
THEOREM HeapRefinesGlobalAlloc == HeapSpec => ImplementsGlobalAlloc
<1> DEFINE Inv == RegionInv /\ FsbInv /\ BumpInv
<1>1. HeapInit => Inv /\ GInit
  <2>1. HeapInit => BumpInv
    BY FS_EmptySet, HeapAssumption DEF HeapInit, GInit, BumpInit, BumpInv
  <2> QED
    BY <2>1, RegionStart, FsbStart DEF HeapInit
<1>2. Inv /\ [HeapNext]_heapVars => Inv' /\ [GNext]_live
  <2> SUFFICES ASSUME Inv, [HeapNext]_heapVars PROVE Inv' /\ [GNext]_live
    OBVIOUS
  <2>1. RegionInv' /\ FsbInv'
    BY RegionStep, FsbInvStep
  <2>2. CASE LinkedListStep
    BY <2>1, <2>2, LinkedListAllowed DEF LinkedListStep, BumpInv
  <2>3. CASE FixedSizeBlockStep
    BY <2>1, <2>3, FsbStep DEF FixedSizeBlockStep, BumpInv
  <2>4. CASE BumpStep
    BY <2>1, <2>4, BumpKeeps
  <2>5. CASE UNCHANGED heapVars
    BY <2>1, <2>5 DEF heapVars, BumpInv
  <2> QED
    BY <2>2, <2>3, <2>4, <2>5 DEF HeapNext
<1> QED
  BY <1>1, <1>2, PTL DEF HeapSpec, ImplementsGlobalAlloc, GSpec
=============================================================================
