-------------------------- MODULE ShellLineProofs ---------------------------
(***************************************************************************)
(* What the user sees, gets back and runs, for every prompt, alphabet,     *)
(* capacity and size of the screen.                                        *)
(***************************************************************************)
EXTENDS ShellLine, FiniteSetTheorems, WellFoundedInduction, TLAPS

(* Induction over numbers, without a rule that takes an operator.          *)

(* A set of numbers that is not empty has a least one. *)
LEMMA LeastNatural ==
  ASSUME NEW T, T \subseteq Nat, T # {}
  PROVE  \E x \in T : \A y \in T : x <= y
<1> DEFINE R == OpToRel(<, Nat)
<1>1. PICK x \in T : \A y \in T : ~ (<<y, x>> \in R)
  BY NatLessThanWellFounded, WFMin, Zenon
<1>2. \A y \in Nat : y < x => <<y, x>> \in R
  BY DEF OpToRel
<1> HIDE DEF R
<1>3. ASSUME NEW y \in T PROVE x <= y
  <2>1. ~(y < x)
    BY <1>1, <1>2
  <2> QED BY <2>1
<1> QED BY <1>3

(* Induction up to n: a set with 0, and with the successor of each of its  *)
(* members. *)
LEMMA StepByStep ==
  ASSUME NEW n \in Nat, NEW S, 0 \in S, \A i \in 1..n : i - 1 \in S => i \in S
  PROVE  0..n \subseteq S
<1> DEFINE T == (0..n) \ S
<1> SUFFICES ASSUME T # {} PROVE FALSE
  OBVIOUS
<1>1. T \subseteq Nat /\ T \subseteq 0..n
  OBVIOUS
<1>2. PICK k \in T : \A y \in T : k <= y
  <2> HIDE DEF T
  <2> QED BY <1>1, LeastNatural, Zenon
<1>3. k # 0
  BY <1>2
<1>4. k \in 1..n /\ k - 1 \in 0..n /\ k - 1 \notin T
  BY <1>1, <1>2, <1>3
<1> QED BY <1>2, <1>4

(* The sequences of values that begin with v and go on with the functions. *)
Chains(n, V, v, F) ==
  {g \in [0..n -> V] : g[0] = v /\ \A i \in 1..n : g[i] = F[i][g[i - 1]]}

(* There is always one. *)
LEMMA ChainExists ==
  ASSUME NEW n \in Nat, NEW V, NEW v \in V, NEW F \in [1..n -> [V -> V]]
  PROVE  Chains(n, V, v, F) # {}
<1> DEFINE S == {k \in 0..n : Chains(k, V, v, F) # {}}
<1>1. [i \in 0..0 |-> v] \in Chains(0, V, v, F)
  BY DEF Chains
<1>2. ASSUME NEW k \in 1..n, Chains(k - 1, V, v, F) # {} PROVE Chains(k, V, v, F) # {}
  <2>1. PICK g : g \in Chains(k - 1, V, v, F)
    BY <1>2
  <2>2. g \in [0..(k - 1) -> V] /\ g[0] = v /\ \A i \in 1..(k - 1) : g[i] = F[i][g[i - 1]]
    BY <2>1 DEF Chains
  <2> DEFINE h == [i \in 0..k |-> IF i = k THEN F[k][g[k - 1]] ELSE g[i]]
  <2>3. h \in [0..k -> V]
    BY <2>2
  <2>4. h[0] = v /\ \A i \in 1..k : h[i] = F[i][h[i - 1]]
    BY <2>2
  <2> QED BY <2>3, <2>4 DEF Chains
<1>3. 0 \in S /\ \A i \in 1..n : i - 1 \in S => i \in S
  BY <1>1, <1>2
<1>4. n \in S
  <2> HIDE DEF S
  <2>1. 0..n \subseteq S
    BY <1>3, StepByStep, Zenon
  <2> QED BY <2>1
<1> QED BY <1>4

-----------------------------------------------------------------------------
(* The screen.                                                             *)
Screens == [cells : [Cells -> SUBSET BasicFont], x : 0..(Columns - 1), y : 0..(Rows - 1)]

(* The rows of cells, by arithmetic. *)
LEMMA RowFacts ==
  ASSUME NEW c \in Nat \ {0}, NEW r \in Nat, NEW x \in 0..(c - 1), NEW y \in 0..(r - 1)
  PROVE  /\ y * c + x \in Nat /\ y * c \in Nat /\ c * r \in Nat
         /\ (y + 1) * c = y * c + c
         /\ y * c + c <= c * r
         /\ (r - 1) * c = c * r - c
         /\ c * (r - 1) = c * r - c
  BY SMT

(* The cursor is over a cell; the arithmetic of its neighbours.            *)
LEMMA PositionFacts ==
  ASSUME NEW s \in Screens
  PROVE  /\ Columns \in Nat /\ Columns > 0 /\ Rows \in Nat /\ Rows > 0
         /\ s.x \in 0..(Columns - 1) /\ s.y \in 0..(Rows - 1)
         /\ s.cells \in [Cells -> SUBSET BasicFont]
         /\ s.y * Columns \in Nat /\ Columns * Rows \in Nat
         /\ Position(s) = s.y * Columns + s.x
         /\ Position(s) \in Cells
         /\ s.y * Columns + Columns <= Columns * Rows
         /\ (s.y + 1) * Columns = s.y * Columns + Columns
         /\ s.y > 0 => (s.y - 1) * Columns = s.y * Columns - Columns
         /\ s.y + 1 = Rows => s.y * Columns = Columns * Rows - Columns
<1>1. /\ Columns \in Nat \ {0} /\ Rows \in Nat \ {0}
      /\ s.x \in 0..(Columns - 1) /\ s.y \in 0..(Rows - 1)
      /\ s.cells \in [Cells -> SUBSET BasicFont]
  BY ScreenAssumption DEF Screens
<1> DEFINE x == s.x
           y == s.y
<1>2. x \in 0..(Columns - 1) /\ y \in 0..(Rows - 1)
  BY <1>1
<1> HIDE DEF x, y
<1>3. /\ y * Columns + x \in Nat /\ y * Columns \in Nat /\ Columns * Rows \in Nat
      /\ (y + 1) * Columns = y * Columns + Columns
      /\ y * Columns + Columns <= Columns * Rows
      /\ (Rows - 1) * Columns = Columns * Rows - Columns
  BY <1>1, <1>2, RowFacts
<1>4. y > 0 => (y - 1) * Columns = y * Columns - Columns
  BY <1>1, <1>2, SMT
<1>5. y * Columns + x \in Cells
  BY <1>1, <1>2, <1>3 DEF Cells
<1>6. y + 1 = Rows => y * Columns = Columns * Rows - Columns
  <2>1. y + 1 = Rows => y = Rows - 1
    BY <1>1, <1>2
  <2> QED BY <1>3, <2>1, Zenon
<1>7. Columns > 0 /\ Rows > 0
  BY <1>1
<1>8. Position(s) = y * Columns + x
  BY Zenon DEF Position, x, y
<1> QED
  BY <1>1, <1>2, <1>3, <1>4, <1>5, <1>6, <1>7, <1>8, Zenon DEF x, y

(* scroll_up keeps cells cells. *)
LEMMA ScrollUpFacts ==
  ASSUME NEW cells \in [Cells -> SUBSET BasicFont]
  PROVE  /\ ScrollUp(cells) \in [Cells -> SUBSET BasicFont]
         /\ \A p \in Cells : p + Columns \in Cells => ScrollUp(cells)[p] = cells[p + Columns]
         /\ \A p \in Cells : p + Columns \notin Cells => ScrollUp(cells)[p] = {}
  BY DEF ScrollUp

(* A new row is the next one, or the last one scrolled up. *)
LEMMA NextRowFacts ==
  ASSUME NEW s \in Screens
  PROVE  /\ NextRow(s) \in Screens
         /\ s.y + 1 < Rows => /\ NextRow(s).cells = s.cells
                              /\ Position(NextRow(s)) = s.y * Columns + Columns
         /\ ~(s.y + 1 < Rows) => /\ NextRow(s).cells = ScrollUp(s.cells)
                                 /\ Position(NextRow(s)) = s.y * Columns
                                 /\ s.y * Columns = Columns * Rows - Columns
<1>0. /\ s.x \in 0..(Columns - 1) /\ s.y \in 0..(Rows - 1) /\ Columns \in Nat /\ Rows \in Nat
      /\ Columns > 0 /\ Rows > 0 /\ s.cells \in [Cells -> SUBSET BasicFont]
  BY PositionFacts
<1>1. CASE s.y + 1 < Rows
  <2> DEFINE r == [s EXCEPT !.x = 0, !.y = s.y + 1]
  <2>1. r \in Screens /\ r.cells = s.cells /\ r.x = 0 /\ r.y = s.y + 1
    <3>1. 0 \in 0..(Columns - 1) /\ s.y + 1 \in 0..(Rows - 1)
      BY <1>0, <1>1
    <3> QED BY <3>1 DEF Screens
  <2>2. NextRow(s) = r
    BY <1>1 DEF NextRow
  <2> HIDE DEF r
  <2>3. Position(r) = s.y * Columns + Columns
    <3>1. Position(r) = r.y * Columns + r.x
      BY DEF Position
    <3>2. Position(r) = (s.y + 1) * Columns + 0
      BY <2>1, <3>1, Zenon
    <3>3. (s.y + 1) * Columns = s.y * Columns + Columns /\ s.y * Columns \in Nat
          /\ Columns \in Nat
      BY PositionFacts
    <3> QED BY ONLY <3>2, <3>3
  <2> QED BY <1>1, <2>1, <2>2, <2>3
<1>2. CASE ~(s.y + 1 < Rows)
  <2> DEFINE r == [s EXCEPT !.x = 0, !.cells = ScrollUp(s.cells)]
  <2>0. s.cells \in [Cells -> SUBSET BasicFont]
    BY DEF Screens
  <2>1. ScrollUp(s.cells) \in [Cells -> SUBSET BasicFont]
    BY <2>0, ScrollUpFacts
  <2>2. r \in Screens /\ r.cells = ScrollUp(s.cells) /\ r.x = 0 /\ r.y = s.y
    <3>1. 0 \in 0..(Columns - 1)
      BY <1>0
    <3> QED BY <2>1, <3>1 DEF Screens
  <2>3. NextRow(s) = r
    BY <1>2 DEF NextRow
  <2> HIDE DEF r
  <2>4. s.y + 1 = Rows
    BY <1>0, <1>2
  <2>5. Position(r) = s.y * Columns + 0
    BY <2>2, Zenon DEF Position
  <2>6. s.y * Columns \in Nat /\ s.y * Columns = Columns * Rows - Columns
    BY <2>4, PositionFacts
  <2> QED BY <1>2, <2>2, <2>3, <2>5, <2>6
<1> QED BY <1>1, <1>2

(* Drawing a glyph and moving on. *)
LEMMA PutCharFacts ==
  ASSUME NEW s \in Screens, NEW c, c # "BS", c # "\n"
  PROVE  LET cells == [s.cells EXCEPT ![Position(s)] = @ \cup Glyph(c)]
             r == Put(s, c)
         IN  /\ r \in Screens /\ cells \in [Cells -> SUBSET BasicFont]
             /\ \/ r.cells = cells /\ Position(r) = Position(s) + 1
                \/ /\ r.cells = ScrollUp(cells)
                   /\ Position(s) = Columns * Rows - 1
                   /\ Position(r) = Columns * Rows - Columns
<1> DEFINE cells == [s.cells EXCEPT ![Position(s)] = @ \cup Glyph(c)]
           drawn == [s EXCEPT !.cells[Position(s)] = @ \cup Glyph(c)]
           r == Put(s, c)
<1>1. /\ s.cells \in [Cells -> SUBSET BasicFont] /\ Position(s) \in Cells
      /\ s.x \in 0..(Columns - 1) /\ s.y \in 0..(Rows - 1) /\ Columns \in Nat
      /\ s.y * Columns \in Nat /\ Columns * Rows \in Nat /\ Columns > 0
      /\ Position(s) = s.y * Columns + s.x
  BY PositionFacts
<1>2. Glyph(c) \subseteq BasicFont
  BY DEF Glyph
<1>3. cells \in [Cells -> SUBSET BasicFont]
  BY <1>1, <1>2
<1>4. drawn = [s EXCEPT !.cells = cells]
  BY DEF Screens
<1>5. drawn \in Screens /\ drawn.cells = cells /\ drawn.x = s.x /\ drawn.y = s.y
  <2> HIDE DEF cells, drawn
  <2> QED BY <1>3, <1>4 DEF Screens
<1>6. r = IF s.x + 1 < Columns THEN [drawn EXCEPT !.x = s.x + 1] ELSE NextRow(drawn)
  BY DEF Put
<1> HIDE DEF cells, drawn, r
<1>7. CASE s.x + 1 < Columns
  <2>1. r = [drawn EXCEPT !.x = s.x + 1]
    BY <1>6, <1>7
  <2>2. r \in Screens /\ r.cells = cells /\ r.x = s.x + 1 /\ r.y = s.y
    BY <1>1, <1>5, <1>7, <2>1 DEF Screens
  <2>3. Position(r) = s.y * Columns + (s.x + 1)
    BY <2>2, Zenon DEF Position
  <2>4. Position(r) = Position(s) + 1
    BY <1>1, <2>3
  <2> QED BY <1>3, <2>2, <2>4 DEF cells, r
<1>8. CASE ~(s.x + 1 < Columns)
  <2>1. r = NextRow(drawn)
    BY <1>6, <1>8
  <2>2. s.x = Columns - 1
    BY <1>1, <1>8
  <2>3. r \in Screens
    BY <1>5, <2>1, NextRowFacts
  <2>4. CASE s.y + 1 < Rows
    <3>1. r.cells = cells /\ Position(r) = s.y * Columns + Columns
      BY <1>5, <2>1, <2>4, NextRowFacts
    <3>2. Position(r) = Position(s) + 1
      BY <1>1, <2>2, <3>1
    <3> QED BY <1>3, <2>3, <3>1, <3>2 DEF cells, r
  <2>5. CASE ~(s.y + 1 < Rows)
    <3>1. /\ r.cells = ScrollUp(cells) /\ Position(r) = s.y * Columns
          /\ s.y * Columns = Columns * Rows - Columns
      BY <1>5, <2>1, <2>5, NextRowFacts
    <3>2. Position(r) = Columns * Rows - Columns /\ Position(s) = Columns * Rows - 1
      BY <1>1, <2>2, <3>1
    <3> QED BY <1>3, <2>3, <3>1, <3>2 DEF cells, r
  <2> QED BY <2>4, <2>5
<1> QED BY <1>7, <1>8

(* A backspace clears the cell it moves to; in the first one it stays.     *)
LEMMA PutBackspaceFacts ==
  ASSUME NEW s \in Screens
  PROVE  LET r == Put(s, "BS")
             q == IF Position(s) > 0 THEN Position(s) - 1 ELSE 0
         IN  r \in Screens /\ Position(r) = q /\ r.cells = [s.cells EXCEPT ![q] = {}]
<1> DEFINE r == Put(s, "BS")
           l == Left(s)
           q == IF Position(s) > 0 THEN Position(s) - 1 ELSE 0
<1>1. /\ s.cells \in [Cells -> SUBSET BasicFont] /\ Position(s) \in Cells
      /\ s.x \in 0..(Columns - 1) /\ s.y \in 0..(Rows - 1) /\ Columns \in Nat
      /\ s.y * Columns \in Nat /\ Columns * Rows \in Nat /\ Columns > 0
      /\ Position(s) = s.y * Columns + s.x
      /\ s.y > 0 => (s.y - 1) * Columns = s.y * Columns - Columns
      /\ s.y * Columns + Columns <= Columns * Rows
  BY PositionFacts
<1>2. l \in Screens /\ l.cells = s.cells /\ Position(l) = q
  <2>1. CASE s.x > 0
    <3>1. l = [s EXCEPT !.x = s.x - 1]
      BY <2>1 DEF Left
    <3>2. l \in Screens /\ l.cells = s.cells /\ l.x = s.x - 1 /\ l.y = s.y
      <4>1. s.x - 1 \in 0..(Columns - 1)
        <5>1. s.x \in 0..(Columns - 1) /\ Columns \in Nat
          BY <1>1
        <5> QED BY ONLY <5>1, <2>1
      <4> QED BY <3>1, <4>1 DEF Screens
    <3> HIDE DEF l
    <3>3. Position(l) = s.y * Columns + (s.x - 1)
      BY <3>2, Zenon DEF Position
    <3> QED BY <1>1, <2>1, <3>2, <3>3
  <2>2. CASE s.x = 0 /\ s.y > 0
    <3>1. l = [s EXCEPT !.x = Columns - 1, !.y = s.y - 1]
      BY <2>2 DEF Left
    <3>2. l \in Screens /\ l.cells = s.cells /\ l.x = Columns - 1 /\ l.y = s.y - 1
      <4>1. Columns - 1 \in 0..(Columns - 1) /\ s.y - 1 \in 0..(Rows - 1)
        BY <1>1, <2>2, PositionFacts
      <4> QED BY <3>1, <4>1 DEF Screens
    <3> HIDE DEF l
    <3>3. Position(l) = (s.y - 1) * Columns + (Columns - 1)
      BY <3>2, Zenon DEF Position
    <3>4. s.y * Columns >= Columns
      <4>1. (s.y - 1) \in Nat
        BY <1>1, <2>2
      <4>2. (s.y - 1) * Columns \in Nat
        BY <1>1, <4>1, SMT
      <4> QED BY <1>1, <2>2, <4>2
    <3> QED BY <1>1, <2>2, <3>2, <3>3, <3>4
  <2>3. CASE s.x = 0 /\ s.y = 0
    <3>1. l = s
      BY <2>3 DEF Left
    <3>2. Position(s) = 0 * Columns + 0
      BY <1>1, <2>3, Zenon
    <3>3. 0 * Columns = 0
      BY <1>1
    <3>4. Position(s) = 0
      BY <3>2, <3>3
    <3> QED BY <3>1, <3>4
  <2> QED BY <1>1, <2>1, <2>2, <2>3
<1>3. r = [l EXCEPT !.cells[Position(l)] = {}]
  BY DEF Put
<1> HIDE DEF r, l
<1>4. Position(l) \in Cells
  BY <1>2, PositionFacts
<1>5. r = [l EXCEPT !.cells = [l.cells EXCEPT ![Position(l)] = {}]]
  BY <1>2, <1>3 DEF Screens
<1>6. r \in Screens /\ r.cells = [l.cells EXCEPT ![Position(l)] = {}] /\ r.x = l.x /\ r.y = l.y
  <2> DEFINE d == [l.cells EXCEPT ![Position(l)] = {}]
  <2>1. d \in [Cells -> SUBSET BasicFont]
    BY <1>1, <1>2
  <2> HIDE DEF d
  <2>2. r = [l EXCEPT !.cells = d]
    BY <1>5 DEF d
  <2>3. r \in Screens /\ r.cells = d /\ r.x = l.x /\ r.y = l.y
    BY <1>2, <2>1, <2>2 DEF Screens
  <2> QED BY <2>3 DEF d
<1>7. Position(r) = Position(l)
  BY <1>6, Zenon DEF Position
<1> QED BY <1>2, <1>6, <1>7 DEF r

(* The screen ends with a text, at the cursor, and has nothing after it;   *)
(* the text begins with a row.                                             *)
Clear(s) == \A p \in Cells : p >= Position(s) => s.cells[p] = {}

Shows(s, t) ==
  /\ Position(s) - Len(t) >= 0
  /\ \A i \in 1..Len(t) : s.cells[Position(s) - Len(t) + i - 1] = Glyph(t[i])
  /\ Clear(s)
  /\ \E k \in Nat : Position(s) - Len(t) = k * Columns

(* How long a text may get before its beginning scrolls away. *)
Room == Columns * Rows - 1

(* There is one cell more. *)
LEMMA RoomFacts ==
  /\ Columns \in Nat /\ Columns > 0 /\ Room \in Nat /\ Columns * Rows \in Nat
  /\ Columns * Rows = Room + 1 /\ Columns <= Room + 1
  /\ \A p : p \in Cells <=> p \in Nat /\ p <= Room
<1>1. Columns \in Nat \ {0} /\ Rows \in Nat \ {0}
  BY ScreenAssumption
<1>2. 0 \in 0..(Columns - 1) /\ 0 \in 0..(Rows - 1) /\ Rows \in Nat
  BY <1>1
<1>3. Columns * Rows \in Nat
      /\ 0 * Columns + Columns <= Columns * Rows /\ 0 * Columns = 0
  BY <1>1, <1>2, RowFacts
<1> DEFINE k == Columns * Rows
<1>4. k \in Nat /\ Room = k - 1 /\ Columns <= k /\ Cells = 0..(k - 1) /\ k = Columns * Rows
  BY <1>1, <1>3 DEF Room, Cells
<1> HIDE DEF k
<1>5. Room \in Nat /\ k = Room + 1
  BY <1>1, <1>4
<1>6. \A p : p \in Cells <=> p \in Nat /\ p <= Room
  BY <1>4, <1>5
<1> QED BY <1>1, <1>4, <1>5, <1>6

(* A text that fills its rows to the last cell, and is shorter than the    *)
(* screen, leaves a row to scroll away.                                    *)
LEMMA RowToScroll ==
  ASSUME NEW c \in Nat \ {0}, NEW m \in Nat, NEW n \in Nat, NEW k \in Nat,
         m - n = k * c, n < m
  PROVE  k - 1 \in Nat /\ (m - c) - n = (k - 1) * c /\ (m - c) - n >= 0
<1>1. k # 0
  BY SMT
<1>2. k - 1 \in Nat
  BY <1>1
<1>3. (k - 1) * c \in Nat /\ k * c = (k - 1) * c + c /\ k * c \in Nat
  BY <1>2, SMT
<1> QED BY <1>2, <1>3

(* A character drawn at the cursor extends the text. *)
LEMMA DrawShows ==
  ASSUME NEW S, NEW s \in Screens, NEW t \in Seq(S), NEW c \in S, c # "BS", c # "\n",
         Shows(s, t), Len(t) + 1 <= Room
  PROVE  Put(s, c) \in Screens /\ Shows(Put(s, c), Append(t, c))
<1> DEFINE r == Put(s, c)
           P == Position(s)
           cells == [s.cells EXCEPT ![P] = @ \cup Glyph(c)]
           n == Len(t)
           a == Append(t, c)
<1>1. /\ r \in Screens /\ cells \in [Cells -> SUBSET BasicFont]
      /\ \/ r.cells = cells /\ Position(r) = P + 1
         \/ /\ r.cells = ScrollUp(cells)
            /\ P = Columns * Rows - 1
            /\ Position(r) = Columns * Rows - Columns
  BY PutCharFacts
<1>2. P \in Cells /\ s.cells \in [Cells -> SUBSET BasicFont]
  BY PositionFacts
<1>3. n \in Nat /\ Len(a) = n + 1 /\ a[n + 1] = c /\ \A i \in 1..n : a[i] = t[i]
  OBVIOUS
<1>4. /\ P - n >= 0 /\ \A i \in 1..n : s.cells[P - n + i - 1] = Glyph(t[i])
      /\ \A p \in Cells : p >= P => s.cells[p] = {}
  BY DEF Shows, Clear
<1>4a. \E k \in Nat : P - n = k * Columns
  BY DEF Shows
<1>5. n + 1 <= Room
  OBVIOUS
<1>6. /\ \A p \in Cells : p # P => cells[p] = s.cells[p]
      /\ cells[P] = Glyph(c)
  <2>1. P >= P
    BY <1>2, RoomFacts
  <2>2. s.cells[P] = {}
    BY <1>2, <1>4, <2>1
  <2> QED BY <1>2, <2>2
<1>7. ASSUME NEW p \in Cells, p >= P + 1 PROVE cells[p] = {}
  <2> HIDE DEF P, cells, n, a, r
  <2>1. p >= P /\ p # P
    BY <1>2, <1>7, RoomFacts
  <2> QED BY <1>4, <1>6, <2>1
<1>8. \A i \in 1..(n + 1) : P - n + i - 1 \in Cells /\ cells[P - n + i - 1] = Glyph(a[i])
  <2> SUFFICES ASSUME NEW i \in 1..(n + 1)
               PROVE  P - n + i - 1 \in Cells /\ cells[P - n + i - 1] = Glyph(a[i])
    OBVIOUS
  <2> HIDE DEF P, cells, n, a, r
  <2>1. P - n + i - 1 \in Cells
    <3>1. P \in Nat /\ P <= Room /\ Room \in Nat /\ n \in Nat /\ P - n >= 0
      BY <1>2, <1>3, <1>4, RoomFacts
    <3>2. P - n + i - 1 \in Nat /\ P - n + i - 1 <= Room
      BY ONLY <3>1, i \in 1..(n + 1)
    <3> QED BY <3>2, RoomFacts
  <2>2. CASE i = n + 1
    <3>1. P - n + i - 1 = P
      BY <1>2, <1>3, <2>2, RoomFacts
    <3> QED BY <1>3, <1>6, <2>1, <2>2, <3>1
  <2>3. CASE i # n + 1
    <3>1. i \in 1..n /\ P - n + i - 1 # P
      BY <1>2, <1>3, <2>3, RoomFacts
    <3> QED BY <1>3, <1>4, <1>6, <2>1, <3>1
  <2> QED BY <2>2, <2>3
<1> HIDE DEF P, cells, n, a, r
<1>9. CASE r.cells = cells /\ Position(r) = P + 1
  <2>1. Position(r) - Len(a) >= 0
    BY <1>2, <1>3, <1>4, <1>9, RoomFacts
  <2>2. ASSUME NEW i \in 1..Len(a) PROVE r.cells[Position(r) - Len(a) + i - 1] = Glyph(a[i])
    <3>1. i \in 1..(n + 1) /\ Position(r) - Len(a) + i - 1 = P - n + i - 1
      BY <1>2, <1>3, <1>9, RoomFacts
    <3> QED BY <1>8, <1>9, <3>1
  <2>3. \E k \in Nat : Position(r) - Len(a) = k * Columns
    <3>1. Position(r) - Len(a) = P - n
      <4>1. P \in Nat /\ n \in Nat /\ Position(r) = P + 1 /\ Len(a) = n + 1
        BY <1>2, <1>3, <1>9, RoomFacts
      <4> QED BY ONLY <4>1
    <3> QED BY <1>4a, <3>1, Zenon
  <2>4. Shows(r, a)
    BY <1>7, <1>9, <2>1, <2>2, <2>3 DEF Shows, Clear
  <2> QED BY <1>1, <2>4 DEF r, a
<1>10. CASE /\ r.cells = ScrollUp(cells)
            /\ P = Columns * Rows - 1
            /\ Position(r) = Columns * Rows - Columns
  <2>0. P = Room /\ Position(r) = Room + 1 - Columns
    BY <1>10, RoomFacts
  <2>1. /\ Position(r) - Len(a) >= 0
        /\ \E k \in Nat : Position(r) - Len(a) = k * Columns
    <3>1. PICK k \in Nat : P - n = k * Columns
      BY <1>4a
    <3>2. (Room + 1) - (n + 1) = P - n /\ Room + 1 \in Nat /\ n + 1 \in Nat /\ n + 1 < Room + 1
          /\ Columns \in Nat \ {0}
      BY <1>3, <1>5, <2>0, RoomFacts
    <3>3. (Room + 1) - (n + 1) = k * Columns
      BY <3>1, <3>2
    <3>4. /\ k - 1 \in Nat /\ ((Room + 1) - Columns) - (n + 1) = (k - 1) * Columns
          /\ ((Room + 1) - Columns) - (n + 1) >= 0
      BY <3>2, <3>3, RowToScroll
    <3>5. Position(r) - Len(a) = ((Room + 1) - Columns) - (n + 1)
      BY <1>3, <2>0, RoomFacts
    <3> QED BY <3>4, <3>5, Zenon
  <2>2. ASSUME NEW i \in 1..Len(a) PROVE r.cells[Position(r) - Len(a) + i - 1] = Glyph(a[i])
    <3> DEFINE q == Position(r) - Len(a) + i - 1
    <3>1. i \in 1..(n + 1) /\ q + Columns = P - n + i - 1 /\ q \in Cells
      BY <1>3, <1>5, <2>0, <2>1, RoomFacts
    <3> HIDE DEF q
    <3>2. q + Columns \in Cells /\ cells[q + Columns] = Glyph(a[i])
      BY <1>8, <3>1
    <3>3. r.cells[q] = cells[q + Columns]
      BY <1>1, <1>10, <3>1, <3>2, ScrollUpFacts
    <3> QED BY <3>2, <3>3 DEF q
  <2>3. ASSUME NEW p \in Cells, p >= Position(r) PROVE r.cells[p] = {}
    <3>1. p + Columns \notin Cells
      BY <2>0, <2>3, RoomFacts
    <3> QED BY <1>1, <1>10, <3>1, ScrollUpFacts
  <2>4. Shows(r, a)
    BY <2>1, <2>2, <2>3 DEF Shows, Clear
  <2> QED BY <1>1, <2>4 DEF r, a
<1> QED BY <1>1, <1>9, <1>10

(* Whatever is drawn, there is nothing after the cursor. *)
LEMMA DrawClears ==
  ASSUME NEW s \in Screens, NEW c, c # "BS", c # "\n", Clear(s)
  PROVE  Clear(Put(s, c))
<1> DEFINE r == Put(s, c)
           P == Position(s)
           cells == [s.cells EXCEPT ![P] = @ \cup Glyph(c)]
<1>1. /\ r \in Screens /\ cells \in [Cells -> SUBSET BasicFont]
      /\ \/ r.cells = cells /\ Position(r) = P + 1
         \/ /\ r.cells = ScrollUp(cells)
            /\ P = Columns * Rows - 1
            /\ Position(r) = Columns * Rows - Columns
  BY PutCharFacts
<1>2. P \in Cells /\ s.cells \in [Cells -> SUBSET BasicFont]
  BY PositionFacts
<1>3. \A p \in Cells : p # P => cells[p] = s.cells[p]
  BY <1>2
<1> HIDE DEF r, P, cells
<1> SUFFICES ASSUME NEW p \in Cells, p >= Position(r) PROVE r.cells[p] = {}
  BY DEF Clear, r
<1>4. CASE r.cells = cells /\ Position(r) = P + 1
  <2>1. p >= P /\ p # P
    BY <1>2, <1>4, RoomFacts
  <2> QED BY <1>3, <1>4, <2>1 DEF Clear, P
<1>5. CASE r.cells = ScrollUp(cells) /\ Position(r) = Columns * Rows - Columns
  <2>1. p + Columns \notin Cells
    BY <1>5, RoomFacts
  <2> QED BY <1>1, <1>5, <2>1, ScrollUpFacts
<1> QED BY <1>1, <1>4, <1>5

(* All of a sequence but its last member. *)
LEMMA FrontFacts ==
  ASSUME NEW S, NEW t \in Seq(S), t # << >>
  PROVE  LET n == Len(t)
             a == SubSeq(t, 1, n - 1)
         IN  /\ n \in Nat /\ n > 0 /\ a \in Seq(S) /\ Len(a) = n - 1
             /\ \A i \in 1..(n - 1) : a[i] = t[i]
             /\ t[n] \in S /\ t = Append(a, t[n])
<1> DEFINE n == Len(t)
           a == SubSeq(t, 1, n - 1)
<1>1. n \in Nat /\ n > 0 /\ n - 1 \in 0..n
  OBVIOUS
<1>2. a \in Seq(S) /\ Len(a) = n - 1 /\ \A i \in 1..(n - 1) : a[i] = t[i]
  <2>1. a = [i \in 1..(n - 1) |-> t[i]]
    BY <1>1
  <2>2. \A i \in 1..(n - 1) : t[i] \in S
    BY <1>1
  <2> HIDE DEF n, a
  <2> QED BY <1>1, <2>1, <2>2
<1>3. t[n] \in S
  BY <1>1
<1> HIDE DEF a
<1>4. t = Append(a, t[n])
  BY <1>1, <1>2, <1>3
<1> QED BY <1>1, <1>2, <1>3, <1>4 DEF a

(* The front of a text that has just grown is the text before. *)
LEMMA FrontOfAppend ==
  ASSUME NEW S, NEW t \in Seq(S), NEW c \in S
  PROVE  LET a == Append(t, c)
         IN  a \in Seq(S) /\ a # << >> /\ SubSeq(a, 1, Len(a) - 1) = t
<1> DEFINE a == Append(t, c)
           b == SubSeq(a, 1, Len(a) - 1)
<1>0. a \in Seq(S) /\ Len(a) = Len(t) + 1 /\ Len(t) \in Nat
  OBVIOUS
<1>1. a \in Seq(S) /\ a # << >> /\ Len(a) = Len(t) + 1 /\ \A i \in 1..Len(t) : a[i] = t[i]
  <2>1. \A i \in 1..Len(t) : a[i] = t[i]
    OBVIOUS
  <2>2. a # << >>
    <3> HIDE DEF a
    <3> QED BY <1>0
  <2> QED BY <1>0, <2>1, <2>2
<1> HIDE DEF a
<1>2. b \in Seq(S) /\ Len(b) = Len(a) - 1 /\ \A i \in 1..(Len(a) - 1) : b[i] = a[i]
  BY <1>1, FrontFacts
<1> HIDE DEF b
<1>3. Len(b) = Len(t) /\ \A i \in 1..Len(t) : b[i] = t[i]
  BY <1>1, <1>2
<1>4. b = t
  BY <1>2, <1>3
<1> QED BY <1>1, <1>4 DEF a, b

(* The length of two texts in a row. *)
LEMMA ConcatLen ==
  ASSUME NEW S, NEW t \in Seq(S), NEW u \in Seq(S)
  PROVE  Len(t \o u) = Len(t) + Len(u) /\ t \o u \in Seq(S)
  OBVIOUS

(* A character typed after the prompt and the line grows the line. *)
LEMMA AppendToConcat ==
  ASSUME NEW S, NEW t \in Seq(S), NEW u \in Seq(S), NEW c \in S
  PROVE  t \o Append(u, c) = Append(t \o u, c)
  OBVIOUS

(* A sequence over some values is one over more values. *)
LEMMA WiderSeq ==
  ASSUME NEW S, NEW R, S \subseteq R, NEW t \in Seq(S)
  PROVE  t \in Seq(R)
  OBVIOUS

(* A backspace takes the text's last character away. *)
LEMMA BackShows ==
  ASSUME NEW S, NEW s \in Screens, NEW t \in Seq(S), t # << >>, Shows(s, t)
  PROVE  Put(s, "BS") \in Screens /\ Shows(Put(s, "BS"), SubSeq(t, 1, Len(t) - 1))
<1> DEFINE r == Put(s, "BS")
           P == Position(s)
           n == Len(t)
           a == SubSeq(t, 1, n - 1)
<1>2. P \in Cells /\ s.cells \in [Cells -> SUBSET BasicFont]
  BY PositionFacts
<1>3. n \in Nat /\ n > 0 /\ Len(a) = n - 1 /\ \A i \in 1..(n - 1) : a[i] = t[i]
  BY FrontFacts
<1>4. /\ P - n >= 0 /\ \A i \in 1..n : s.cells[P - n + i - 1] = Glyph(t[i])
      /\ \A p \in Cells : p >= P => s.cells[p] = {}
  BY DEF Shows, Clear
<1>4a. \E k \in Nat : P - n = k * Columns
  BY DEF Shows
<1>5. P > 0 /\ P - 1 \in Cells
  <2> HIDE DEF P, n
  <2> QED BY <1>2, <1>3, <1>4, RoomFacts
<1>6. r \in Screens /\ Position(r) = P - 1 /\ r.cells = [s.cells EXCEPT ![P - 1] = {}]
  BY <1>5, PutBackspaceFacts
<1> HIDE DEF P, n, a, r
<1>7. \A p \in Cells : r.cells[p] = IF p = P - 1 THEN {} ELSE s.cells[p]
  BY <1>2, <1>6
<1>8. Position(r) - Len(a) >= 0
  BY <1>2, <1>3, <1>4, <1>6, RoomFacts
<1>9. ASSUME NEW i \in 1..Len(a) PROVE r.cells[Position(r) - Len(a) + i - 1] = Glyph(a[i])
  <2>1. /\ i \in 1..(n - 1) /\ i \in 1..n /\ Position(r) - Len(a) + i - 1 = P - n + i - 1
        /\ P - n + i - 1 \in Cells /\ P - n + i - 1 # P - 1
    <3>1. P \in Nat /\ n \in Nat /\ P <= Room /\ Room \in Nat
      BY <1>2, <1>3, RoomFacts
    <3>2. i \in 1..(n - 1) /\ Position(r) = P - 1 /\ Len(a) = n - 1 /\ P - n >= 0
      BY <1>3, <1>4, <1>6
    <3>3. P - n + i - 1 \in Nat /\ P - n + i - 1 < P - 1
      BY ONLY <3>1, <3>2
    <3> QED BY <3>1, <3>2, <3>3, RoomFacts
  <2> QED BY <1>3, <1>4, <1>7, <2>1
<1>10. ASSUME NEW p \in Cells, p >= Position(r) PROVE r.cells[p] = {}
  <2>1. p = P - 1 \/ p >= P
    BY <1>2, <1>6, <1>10, RoomFacts
  <2> QED BY <1>4, <1>7, <2>1
<1>11. Position(r) - Len(a) = P - n
  BY <1>2, <1>3, <1>6, RoomFacts
<1>12. Shows(r, a)
  <2>1. \E k \in Nat : Position(r) - Len(a) = k * Columns
    BY <1>4a, <1>11, Zenon
  <2> QED BY <1>8, <1>9, <1>10, <2>1 DEF Shows, Clear
<1> QED BY <1>6, <1>12 DEF r, a, n

(* A new row begins with nothing after the cursor. *)
LEMMA NewlineShows ==
  ASSUME NEW s \in Screens, Clear(s)
  PROVE  Put(s, "\n") \in Screens /\ Shows(Put(s, "\n"), << >>)
<1> DEFINE r == Put(s, "\n")
           b == s.y * Columns
<1>1. r = NextRow(s)
  BY DEF Put
<1>2. /\ s.cells \in [Cells -> SUBSET BasicFont] /\ s.x \in 0..(Columns - 1)
      /\ b \in Nat /\ Position(s) = b + s.x
  BY PositionFacts
<1>3. /\ r \in Screens
      /\ s.y + 1 < Rows => r.cells = s.cells /\ Position(r) = b + Columns
      /\ ~(s.y + 1 < Rows) => /\ r.cells = ScrollUp(s.cells) /\ Position(r) = b
                              /\ b = Columns * Rows - Columns
  BY <1>1, NextRowFacts
<1> HIDE DEF r, b
<1>4. ASSUME NEW p \in Cells, p >= Position(r) PROVE r.cells[p] = {}
  <2>1. CASE s.y + 1 < Rows
    <3>1. p >= Position(s)
      BY <1>2, <1>3, <1>4, <2>1, RoomFacts
    <3> QED BY <1>3, <2>1, <3>1 DEF Clear
  <2>2. CASE ~(s.y + 1 < Rows)
    <3>1. p + Columns \notin Cells
      BY <1>3, <1>4, <2>2, RoomFacts
    <3> QED BY <1>2, <1>3, <2>2, <3>1, ScrollUpFacts
  <2> QED BY <2>1, <2>2
<1>5. Position(r) \in Nat
  BY <1>3, PositionFacts, RoomFacts
<1>6. \E k \in Nat : Position(r) = k * Columns
  <2>1. s.y \in Nat /\ s.y + 1 \in Nat /\ (s.y + 1) * Columns = s.y * Columns + Columns
    BY PositionFacts
  <2>2. Position(r) = s.y * Columns \/ Position(r) = (s.y + 1) * Columns
    BY <1>3, <2>1, Zenon DEF b
  <2> QED BY <2>1, <2>2, Zenon
<1>7. Len(<< >>) = 0 /\ Position(r) - 0 = Position(r)
  BY <1>5
<1>8. Shows(r, << >>)
  BY <1>4, <1>5, <1>6, <1>7 DEF Shows, Clear
<1> QED BY <1>3, <1>8 DEF r

(* Every character keeps the screen a screen. *)
LEMMA PutType ==
  ASSUME NEW s \in Screens, NEW c
  PROVE  Put(s, c) \in Screens
<1>1. CASE c = "BS"
  BY <1>1, PutBackspaceFacts
<1>2. CASE c = "\n"
  <2>1. Put(s, c) = NextRow(s)
    BY <1>2 DEF Put
  <2> QED BY <2>1, NextRowFacts
<1>3. CASE c # "BS" /\ c # "\n"
  BY <1>3, PutCharFacts
<1> QED BY <1>1, <1>2, <1>3

(* A string is written one character after the other. *)
LEMMA WriteStringFacts ==
  ASSUME NEW s \in Screens, NEW S, NEW text \in Seq(S)
  PROVE  \E w \in [0..Len(text) -> Screens] :
           /\ w[0] = s /\ w[Len(text)] = WriteString(s, text)
           /\ \A i \in 1..Len(text) : w[i] = Put(w[i - 1], text[i])
<1> DEFINE n == Len(text)
           V == Screens
           F == [i \in 1..n |-> [v \in V |-> Put(v, text[i])]]
           E(g) == g = [i \in 0..n |-> IF i = 0 THEN s ELSE Put(g[i - 1], text[i])]
           w == CHOOSE g : E(g)
<1>1. n \in Nat
  OBVIOUS
<1>2. WriteString(s, text) = w[n]
  BY Zenon DEF WriteString
<1>3. s \in V /\ F \in [1..n -> [V -> V]]
  BY PutType
<1>4. PICK g \in Chains(n, V, s, F) : TRUE
  <2> HIDE DEF n, V, F
  <2> QED BY <1>1, <1>3, ChainExists, Zenon
<1> HIDE DEF n, V
<1>5. g \in [0..n -> V] /\ g[0] = s /\ \A i \in 1..n : g[i] = F[i][g[i - 1]]
  BY <1>4 DEF Chains
<1>6. \A i \in 1..n : g[i - 1] \in V
  BY <1>1, <1>5
<1>7. \A i \in 1..n : g[i] = Put(g[i - 1], text[i])
  BY <1>5, <1>6
<1>8. E(g)
  BY <1>1, <1>5, <1>7
<1>9. E(w)
  BY <1>8, Zenon
<1>10. \A f, h : E(f) /\ E(h) => f = h
  <2> SUFFICES ASSUME NEW f, NEW h, E(f), E(h) PROVE f = h
    OBVIOUS
  <2> DEFINE T == {i \in 0..n : f[i] = h[i]}
  <2>1. f[0] = s /\ h[0] = s /\ f = [i \in 0..n |-> f[i]] /\ h = [i \in 0..n |-> h[i]]
    BY <1>1
  <2>2. \A i \in 1..n : f[i] = Put(f[i - 1], text[i]) /\ h[i] = Put(h[i - 1], text[i])
    BY <1>1
  <2> HIDE DEF E
  <2>3. 0 \in T
    BY <1>1, <2>1
  <2>4. ASSUME NEW i \in 1..n, i - 1 \in T PROVE i \in T
    <3>1. f[i - 1] = h[i - 1] /\ i \in 0..n
      BY <1>1, <2>4
    <3>2. f[i] = h[i]
      BY <2>2, <3>1, Zenon
    <3> QED BY <3>1, <3>2
  <2>5. 0..n \subseteq T
    <3> HIDE DEF T
    <3> QED BY <1>1, <2>3, <2>4, StepByStep, Zenon
  <2> QED BY <2>1, <2>5
<1> HIDE DEF E, w
<1>11. w = g
  BY <1>8, <1>9, <1>10, Zenon
<1> QED BY <1>1, <1>2, <1>5, <1>7, <1>11 DEF n, V

(* A text that grows by one character at a time. *)
LEMMA PrefixGrows ==
  ASSUME NEW S, NEW t \in Seq(S), NEW text \in Seq(S), NEW i \in 1..Len(text)
  PROVE  LET U(k) == t \o SubSeq(text, 1, k)
         IN  /\ U(i - 1) \in Seq(S) /\ text[i] \in S /\ U(i) = Append(U(i - 1), text[i])
             /\ Len(U(i - 1)) = Len(t) + i - 1
<1>1. SubSeq(text, 1, i - 1) \in Seq(S) /\ SubSeq(text, 1, i) \in Seq(S) /\ text[i] \in S
      /\ Len(SubSeq(text, 1, i - 1)) = i - 1
  OBVIOUS
<1>2. SubSeq(text, 1, i) = Append(SubSeq(text, 1, i - 1), text[i])
  OBVIOUS
<1>3. \A q \in Seq(S), e \in S : t \o Append(q, e) = Append(t \o q, e)
  OBVIOUS
<1> QED BY <1>1, <1>2, <1>3

(* Writing a text after a text that is shown. *)
LEMMA TextShows ==
  ASSUME NEW S, NEW s \in Screens, NEW t \in Seq(S), NEW text \in Seq(S),
         "BS" \notin S, "\n" \notin S, Shows(s, t), Len(t) + Len(text) <= Room
  PROVE  /\ WriteString(s, text) \in Screens
         /\ Shows(WriteString(s, text), t \o text)
<1> DEFINE n == Len(text)
           U(i) == t \o SubSeq(text, 1, i)
<1>1. PICK w \in [0..n -> Screens] :
             /\ w[0] = s /\ w[n] = WriteString(s, text)
             /\ \A i \in 1..n : w[i] = Put(w[i - 1], text[i])
  BY WriteStringFacts
<1>2. n \in Nat /\ Len(t) \in Nat
  OBVIOUS
<1>3. U(0) = t /\ U(n) = t \o text
  OBVIOUS
<1>4. ASSUME NEW i \in 1..n
      PROVE  /\ U(i - 1) \in Seq(S) /\ text[i] \in S /\ U(i) = Append(U(i - 1), text[i])
             /\ Len(U(i - 1)) = Len(t) + i - 1
  BY PrefixGrows
<1> DEFINE T == {i \in 0..n : Shows(w[i], U(i))}
<1> HIDE DEF U
<1>5. 0 \in T
  BY <1>1, <1>2, <1>3
<1>6. ASSUME NEW i \in 1..n, i - 1 \in T PROVE i \in T
  <2>1. w[i - 1] \in Screens /\ Shows(w[i - 1], U(i - 1)) /\ i \in 0..n
    BY <1>1, <1>2, <1>6
  <2>2. Len(U(i - 1)) + 1 <= Room
    <3>1. i <= n /\ Len(t) + n <= Room /\ Room \in Nat
      BY RoomFacts
    <3>2. Len(U(i - 1)) = Len(t) + i - 1
      BY <1>4
    <3> HIDE DEF n
    <3> QED BY <1>2, <3>1, <3>2
  <2>3. text[i] # "BS" /\ text[i] # "\n"
    BY <1>4
  <2>4. Shows(Put(w[i - 1], text[i]), Append(U(i - 1), text[i]))
    BY <1>4, <2>1, <2>2, <2>3, DrawShows
  <2> QED BY <1>1, <1>4, <2>1, <2>4
<1>7. n \in T
  <2> HIDE DEF T, n
  <2>1. 0..n \subseteq T
    BY <1>2, <1>5, <1>6, StepByStep, Zenon
  <2> QED BY <1>2, <2>1
<1> QED BY <1>1, <1>2, <1>3, <1>7

(* An erasure takes the last character of the text away. *)
LEMMA EraseShows ==
  ASSUME NEW S, NEW s \in Screens, NEW t \in Seq(S), t # << >>, Shows(s, t),
         Len(t) <= Room
  PROVE  /\ WriteString(s, Erase) \in Screens
         /\ Shows(WriteString(s, Erase), SubSeq(t, 1, Len(t) - 1))
<1> DEFINE S1 == S \cup {" "}
           a == SubSeq(t, 1, Len(t) - 1)
           b == Append(a, " ")
<1>1. Erase \in Seq({"BS", " "}) /\ Len(Erase) = 3
      /\ Erase[1] = "BS" /\ Erase[2] = " " /\ Erase[3] = "BS"
  BY DEF Erase
<1>2. PICK w \in [0..3 -> Screens] :
             /\ w[0] = s /\ w[3] = WriteString(s, Erase)
             /\ \A i \in 1..3 : w[i] = Put(w[i - 1], Erase[i])
  <2>1. PICK w \in [0..Len(Erase) -> Screens] :
             /\ w[0] = s /\ w[Len(Erase)] = WriteString(s, Erase)
             /\ \A i \in 1..Len(Erase) : w[i] = Put(w[i - 1], Erase[i])
    BY <1>1, WriteStringFacts
  <2> QED BY <1>1, <2>1
<1>3. /\ w[0] = s /\ w[1] \in Screens /\ w[2] \in Screens /\ w[3] = WriteString(s, Erase)
      /\ w[1] = Put(w[0], "BS") /\ w[2] = Put(w[1], " ") /\ w[3] = Put(w[2], "BS")
  <2>1. w[1] = Put(w[0], Erase[1])
    BY <1>2
  <2>2. w[2] = Put(w[1], Erase[2])
    BY <1>2
  <2>3. w[3] = Put(w[2], Erase[3])
    BY <1>2
  <2>4. w[1] \in Screens /\ w[2] \in Screens
    BY <1>2
  <2> QED BY <1>1, <1>2, <2>1, <2>2, <2>3, <2>4, Zenon
<1>4. Len(t) \in Nat /\ a \in Seq(S) /\ Len(a) = Len(t) - 1
  BY FrontFacts
<1> HIDE DEF a
<1>5. a \in Seq(S1) /\ b \in Seq(S1) /\ b # << >> /\ SubSeq(b, 1, Len(b) - 1) = a /\ " " \in S1
  <2>1. a \in Seq(S1) /\ " " \in S1
    BY <1>4, WiderSeq
  <2> HIDE DEF S1
  <2> QED BY <2>1, FrontOfAppend
<1> HIDE DEF S1, b
<1>6. Shows(w[1], a)
  BY <1>3, BackShows DEF a
<1>7. Len(a) + 1 <= Room
  BY <1>4, RoomFacts
<1>8. Shows(w[2], b)
  BY <1>3, <1>5, <1>6, <1>7, DrawShows DEF b
<1>9. w[3] \in Screens /\ Shows(w[3], a)
  BY <1>3, <1>5, <1>8, BackShows
<1> QED BY <1>3, <1>9 DEF a

(* Whatever is written, the screen stays a screen. *)
LEMMA WriteStringType ==
  ASSUME NEW s \in Screens, NEW S, NEW text \in Seq(S)
  PROVE  WriteString(s, text) \in Screens
<1>1. PICK w \in [0..Len(text) -> Screens] : w[Len(text)] = WriteString(s, text)
  BY WriteStringFacts
<1> QED BY <1>1

(* clear_line erases one character after the other. *)
LEMMA ClearLineFacts ==
  ASSUME NEW s \in Screens, NEW n \in Nat
  PROVE  \E w \in [0..n -> Screens] :
           /\ w[0] = s /\ w[n] = ClearLine(s, n)
           /\ \A i \in 1..n : w[i] = WriteString(w[i - 1], Erase)
<1> DEFINE V == Screens
           F == [i \in 1..n |-> [v \in V |-> WriteString(v, Erase)]]
           E(g) == g = [i \in 0..n |-> IF i = 0 THEN s ELSE WriteString(g[i - 1], Erase)]
           w == CHOOSE g : E(g)
<1>1. Erase \in Seq({"BS", " "})
  BY DEF Erase
<1>2. ClearLine(s, n) = w[n]
  BY Zenon DEF ClearLine
<1>3. s \in V /\ F \in [1..n -> [V -> V]]
  BY <1>1, WriteStringType
<1>4. PICK g \in Chains(n, V, s, F) : TRUE
  <2> HIDE DEF V, F
  <2> QED BY <1>3, ChainExists, Zenon
<1> HIDE DEF V
<1>5. g \in [0..n -> V] /\ g[0] = s /\ \A i \in 1..n : g[i] = F[i][g[i - 1]]
  BY <1>4 DEF Chains
<1>6. \A i \in 1..n : g[i - 1] \in V
  BY <1>5
<1>7. \A i \in 1..n : g[i] = WriteString(g[i - 1], Erase)
  BY <1>5, <1>6
<1>8. E(g)
  BY <1>5, <1>7
<1>9. E(w)
  BY <1>8, Zenon
<1>10. ASSUME NEW f, NEW h, E(f), E(h) PROVE f = h
  <2> DEFINE T == {i \in 0..n : f[i] = h[i]}
  <2>1. f[0] = s /\ h[0] = s /\ f = [i \in 0..n |-> f[i]] /\ h = [i \in 0..n |-> h[i]]
    BY <1>10
  <2>2. \A i \in 1..n : f[i] = WriteString(f[i - 1], Erase) /\ h[i] = WriteString(h[i - 1], Erase)
    BY <1>10
  <2> HIDE DEF E
  <2>3. 0 \in T
    BY <2>1
  <2>4. ASSUME NEW i \in 1..n, i - 1 \in T PROVE i \in T
    <3>1. f[i - 1] = h[i - 1] /\ i \in 0..n
      BY <2>4
    <3>2. f[i] = h[i]
      BY <2>2, <3>1, Zenon
    <3> QED BY <3>1, <3>2
  <2>5. 0..n \subseteq T
    <3> HIDE DEF T
    <3> QED BY <2>3, <2>4, StepByStep, Zenon
  <2> QED BY <2>1, <2>5
<1> HIDE DEF E, w
<1>11. w = g
  BY <1>8, <1>9, <1>10, Zenon
<1> QED BY <1>2, <1>5, <1>7, <1>11 DEF V

(* Clearing as many characters as the line has leaves the prompt. *)
LEMMA ClearShows ==
  ASSUME NEW S, NEW s \in Screens, NEW t \in Seq(S), NEW text \in Seq(S),
         Shows(s, t \o text), Len(t) + Len(text) <= Room
  PROVE  /\ ClearLine(s, Len(text)) \in Screens
         /\ Shows(ClearLine(s, Len(text)), t)
<1> DEFINE n == Len(text)
           U(i) == t \o SubSeq(text, 1, i)
<1>1. n \in Nat /\ Len(t) \in Nat
  OBVIOUS
<1>2. PICK w \in [0..n -> Screens] :
             /\ w[0] = s /\ w[n] = ClearLine(s, n)
             /\ \A i \in 1..n : w[i] = WriteString(w[i - 1], Erase)
  BY <1>1, ClearLineFacts
<1>3. U(0) = t /\ U(n) = t \o text
  OBVIOUS
<1>4. ASSUME NEW i \in 1..n
      PROVE  /\ U(i - 1) \in Seq(S) /\ text[i] \in S /\ U(i) = Append(U(i - 1), text[i])
             /\ Len(U(i - 1)) = Len(t) + i - 1
  BY PrefixGrows
<1> DEFINE T == {i \in 0..n : Shows(w[i], U(n - i))}
<1>5. 0 \in T
  <2>1. n - 0 = n
    BY <1>1
  <2>2. U(n - 0) = U(n)
    BY <2>1, Zenon
  <2> HIDE DEF U
  <2>3. Shows(w[0], U(n - 0))
    BY <1>2, <1>3, <2>2
  <2> QED BY <1>1, <2>3
<1> HIDE DEF U
<1>6. ASSUME NEW i \in 1..n, i - 1 \in T PROVE i \in T
  <2> DEFINE k == n - i + 1
  <2>1. k \in 1..n /\ n - (i - 1) = k /\ k - 1 = n - i /\ i \in 0..n
    BY <1>1
  <2>2. w[i - 1] \in Screens /\ Shows(w[i - 1], U(k))
    BY <1>1, <1>2, <1>6, <2>1
  <2> HIDE DEF k
  <2>3. /\ U(k - 1) \in Seq(S) /\ text[k] \in S /\ U(k) = Append(U(k - 1), text[k])
        /\ Len(U(k - 1)) = Len(t) + k - 1
    BY <1>4, <2>1
  <2>4. U(k) \in Seq(S) /\ U(k) # << >> /\ SubSeq(U(k), 1, Len(U(k)) - 1) = U(k - 1)
    BY <2>3, FrontOfAppend
  <2>5. Len(U(k)) = Len(t) + k
    <3>1. \A q \in Seq(S), e \in S : Len(Append(q, e)) = Len(q) + 1
      OBVIOUS
    <3> QED BY <1>1, <2>1, <2>3, <3>1
  <2>6. Len(U(k)) <= Room
    <3>1. k <= n /\ k \in Nat /\ Len(t) + n <= Room /\ Room \in Nat
      BY <2>1, RoomFacts
    <3> HIDE DEF n
    <3> QED BY <1>1, <2>5, <3>1
  <2>7. Shows(WriteString(w[i - 1], Erase), U(k - 1))
    BY <2>2, <2>4, <2>6, EraseShows
  <2> QED BY <1>2, <2>1, <2>7
<1>7. n \in T
  <2> HIDE DEF T, n
  <2>1. 0..n \subseteq T
    BY <1>1, <1>5, <1>6, StepByStep, Zenon
  <2> QED BY <1>1, <2>1
<1>8. n - n = 0
  BY <1>1
<1> QED BY <1>1, <1>2, <1>3, <1>7, <1>8

-----------------------------------------------------------------------------
(* Bytes.                                                                  *)
Size(c) == IF c \in BasicFont THEN 1 ELSE 2

(* Bytes counts one byte or two for each character. *)
LEMMA BytesFacts ==
  ASSUME NEW S, NEW text \in Seq(S)
  PROVE  \E u \in [0..Len(text) -> Nat] :
           /\ u[0] = 0 /\ u[Len(text)] = Bytes(text)
           /\ \A i \in 1..Len(text) : u[i] = u[i - 1] + Size(text[i])
<1> DEFINE n == Len(text)
           V == Nat
           z == 0
           C(i) == IF text[i] \in BasicFont THEN 1 ELSE 2
           F == [i \in 1..n |-> [v \in V |-> v + C(i)]]
           E(g) == g = [i \in 0..n |-> IF i = 0 THEN 0 ELSE g[i - 1] + C(i)]
           w == CHOOSE g : E(g)
<1>1. n \in Nat
  OBVIOUS
<1>2. Bytes(text) = w[n]
  BY Zenon DEF Bytes
<1>3. \A i \in 1..n : C(i) \in Nat
  OBVIOUS
<1>4. z \in V /\ F \in [1..n -> [V -> V]]
  <2> HIDE DEF C, n
  <2>1. \A i \in 1..n : \A v \in V : v + C(i) \in V
    BY <1>3
  <2> QED BY <2>1
<1>5. PICK g \in Chains(n, V, z, F) : TRUE
  <2> HIDE DEF n, V, F, z
  <2> QED BY <1>1, <1>4, ChainExists, Zenon
<1> HIDE DEF n, C
<1>6. g \in [0..n -> V] /\ g[0] = 0 /\ \A i \in 1..n : g[i] = F[i][g[i - 1]]
  BY <1>5 DEF Chains
<1>7. \A i \in 1..n : g[i - 1] \in V
  BY <1>1, <1>6
<1>8. \A i \in 1..n : g[i] = g[i - 1] + C(i)
  BY <1>6, <1>7
<1>9. E(g)
  BY <1>1, <1>6, <1>8
<1>10. E(w)
  BY <1>9, Zenon
<1>11. ASSUME NEW f, NEW h, E(f), E(h) PROVE f = h
  <2> DEFINE T == {i \in 0..n : f[i] = h[i]}
  <2>1. f[0] = 0 /\ h[0] = 0 /\ f = [i \in 0..n |-> f[i]] /\ h = [i \in 0..n |-> h[i]]
    BY <1>1, <1>11
  <2>2. \A i \in 1..n : f[i] = f[i - 1] + C(i) /\ h[i] = h[i - 1] + C(i)
    BY <1>1, <1>11
  <2> HIDE DEF E
  <2>3. 0 \in T
    BY <1>1, <2>1
  <2>4. ASSUME NEW i \in 1..n, i - 1 \in T PROVE i \in T
    <3>1. f[i - 1] = h[i - 1] /\ i \in 0..n
      BY <1>1, <2>4
    <3>2. f[i] = h[i]
      BY <2>2, <3>1, Zenon
    <3> QED BY <3>1, <3>2
  <2>5. 0..n \subseteq T
    <3> HIDE DEF T
    <3> QED BY <1>1, <2>3, <2>4, StepByStep, Zenon
  <2> QED BY <2>1, <2>5
<1> HIDE DEF E, w
<1>12. w = g
  BY <1>9, <1>10, <1>11, Zenon
<1>13. \A i \in 1..n : g[i] = g[i - 1] + Size(text[i])
  BY <1>8, Zenon DEF C, Size
<1> QED BY <1>1, <1>2, <1>6, <1>12, <1>13 DEF n

(* A character has at least one byte. *)
LEMMA BytesAtLeast ==
  ASSUME NEW S, NEW text \in Seq(S)
  PROVE  Bytes(text) \in Nat /\ Len(text) <= Bytes(text)
<1> DEFINE n == Len(text)
<1>1. n \in Nat
  OBVIOUS
<1>2. PICK u \in [0..n -> Nat] :
           /\ u[0] = 0 /\ u[n] = Bytes(text)
           /\ \A i \in 1..n : u[i] = u[i - 1] + Size(text[i])
  BY BytesFacts
<1> DEFINE T == {i \in 0..n : i <= u[i]}
<1> HIDE DEF n
<1>3. 0 \in T
  BY <1>1, <1>2
<1>4. ASSUME NEW i \in 1..n, i - 1 \in T PROVE i \in T
  <2>1. Size(text[i]) \in Nat /\ Size(text[i]) >= 1
    BY DEF Size
  <2>2. i - 1 <= u[i - 1] /\ u[i - 1] \in Nat /\ i \in 0..n /\ u[i] = u[i - 1] + Size(text[i])
    BY <1>1, <1>2, <1>4
  <2>3. i <= u[i]
    BY <2>1, <2>2
  <2> QED BY <2>2, <2>3
<1>5. n \in T
  <2> HIDE DEF T
  <2>1. 0..n \subseteq T
    BY <1>1, <1>3, <1>4, StepByStep, Zenon
  <2> QED BY <1>1, <2>1
<1> QED BY <1>1, <1>2, <1>5 DEF n

(* The bytes of one character more. *)
LEMMA BytesAppend ==
  ASSUME NEW S, NEW text \in Seq(S), NEW c \in S
  PROVE  Bytes(Append(text, c)) = Bytes(text) + Size(c)
<1> DEFINE n == Len(text)
           a == Append(text, c)
<1>1. n \in Nat /\ a \in Seq(S) /\ Len(a) = n + 1 /\ a[n + 1] = c
      /\ \A i \in 1..n : a[i] = text[i]
  OBVIOUS
<1>2. PICK u \in [0..n -> Nat] :
           /\ u[0] = 0 /\ u[n] = Bytes(text)
           /\ \A i \in 1..n : u[i] = u[i - 1] + Size(text[i])
  BY BytesFacts
<1> HIDE DEF n, a
<1>3. PICK v \in [0..(n + 1) -> Nat] :
           /\ v[0] = 0 /\ v[n + 1] = Bytes(a)
           /\ \A i \in 1..(n + 1) : v[i] = v[i - 1] + Size(a[i])
  <2>1. PICK v \in [0..Len(a) -> Nat] :
           /\ v[0] = 0 /\ v[Len(a)] = Bytes(a)
           /\ \A i \in 1..Len(a) : v[i] = v[i - 1] + Size(a[i])
    BY <1>1, BytesFacts
  <2> QED BY <1>1, <2>1
<1> DEFINE T == {i \in 0..n : u[i] = v[i]}
<1>4. 0 \in T
  BY <1>1, <1>2, <1>3
<1>5. ASSUME NEW i \in 1..n, i - 1 \in T PROVE i \in T
  <2>1. i \in 1..(n + 1) /\ i \in 0..n /\ u[i - 1] = v[i - 1] /\ a[i] = text[i]
    BY <1>1, <1>5
  <2>2. u[i] = v[i]
    BY <1>2, <1>3, <2>1
  <2> QED BY <2>1, <2>2
<1>6. n \in T
  <2> HIDE DEF T
  <2>1. 0..n \subseteq T
    BY <1>1, <1>4, <1>5, StepByStep, Zenon
  <2> QED BY <1>1, <2>1
<1>7. v[n + 1] = v[n] + Size(c)
  <2>1. n + 1 \in 1..(n + 1) /\ (n + 1) - 1 = n
    BY <1>1
  <2>2. v[n + 1] = v[(n + 1) - 1] + Size(a[n + 1])
    BY <1>3, <2>1
  <2> QED BY <1>1, <2>1, <2>2
<1>8. Bytes(a) = Bytes(text) + Size(c)
  BY <1>2, <1>3, <1>6, <1>7
<1> QED BY <1>8 DEF a

(* The bytes of one character, and of none. *)
LEMMA BytesOfOne ==
  ASSUME NEW c
  PROVE  Bytes(<<c>>) = Size(c) /\ Bytes(<< >>) = 0 /\ Size(c) \in Nat
<1>1. << >> \in Seq({c}) /\ Len(<< >>) = 0 /\ Append(<< >>, c) = <<c>> /\ c \in {c}
  OBVIOUS
<1>2. Bytes(<< >>) = 0
  BY <1>1, BytesFacts
<1>3. Bytes(<<c>>) = 0 + Size(c)
  BY <1>1, <1>2, BytesAppend, Zenon
<1> QED BY <1>2, <1>3 DEF Size

-----------------------------------------------------------------------------
(* Enter: a new row, what the commands print, and the prompt.              *)

(* What the commands print. *)
LEMMA OutputFacts ==
  ASSUME NEW rows \in Nat
  PROVE  LET A == <<"\n">> \o Output(rows)
         IN  A \in Seq({"o", "\n"}) /\ Len(A) >= 1 /\ A[Len(A)] = "\n"
<1> DEFINE D == {"o", "\n"}
           q == Output(rows)
           b == "\n"
<1>1. 2 * rows \in Nat
  OBVIOUS
<1>2. \A i \in 1..(2 * rows) : (IF i % 2 = 1 THEN "o" ELSE "\n") \in D
  OBVIOUS
<1>3. q = [i \in 1..(2 * rows) |-> IF i % 2 = 1 THEN "o" ELSE "\n"]
  BY DEF Output
<1>4. b \in D
  OBVIOUS
<1> HIDE DEF D, q, b
<1>5. q \in Seq(D)
  BY <1>1, <1>2, <1>3
<1>6. <<b>> \o q \in Seq(D) /\ Len(q) = 2 * rows /\ Len(<<b>> \o q) = 2 * rows + 1
  BY <1>1, <1>3, <1>4, <1>5
<1>7. (<<b>> \o q)[2 * rows + 1] = b
  <2>1. CASE rows = 0
    <3>1. 2 * rows + 1 = 1
      BY <2>1
    <3>2. (<<b>> \o q)[1] = b
      BY <1>4, <1>5
    <3> QED BY <3>1, <3>2
  <2>2. CASE rows # 0
    <3>1. 2 * rows \in 1..(2 * rows) /\ (2 * rows) % 2 # 1
      BY <2>2
    <3>2. q[2 * rows] = b
      BY <1>3, <3>1 DEF b
    <3>3. \A i \in 1..Len(q) : (<<b>> \o q)[i + 1] = q[i]
      BY <1>4, <1>5
    <3> QED BY <1>6, <3>1, <3>2, <3>3
  <2> QED BY <2>1, <2>2
<1>8. Len(<<b>> \o q) >= 1
  BY <1>1, <1>6
<1> QED BY <1>6, <1>7, <1>8 DEF D, q, b

(* After Enter, the output and the prompt, the screen shows the prompt. *)
LEMMA EnterShows ==
  ASSUME NEW S, NEW s \in Screens, Clear(s),
         NEW A \in Seq({"o", "\n"}), Len(A) >= 1, A[Len(A)] = "\n",
         NEW text \in Seq(S), text # << >>, "BS" \notin S, "\n" \notin S, Len(text) <= Room
  PROVE  /\ WriteString(s, A \o text) \in Screens
         /\ Shows(WriteString(s, A \o text), text)
<1> DEFINE D == {"o", "\n"}
           x == A \o text
           m == Len(A)
           n == Len(text)
           U(i) == << >> \o SubSeq(text, 1, i)
<1>0. /\ m \in Nat /\ n \in Nat /\ x \in Seq(D \cup S) /\ Len(x) = m + n
      /\ \A i \in 1..m : x[i] = A[i] /\ A[i] \in D
      /\ \A i \in 1..n : x[m + i] = text[i] /\ text[i] \in S
  <2>1. A \in Seq(D) /\ A \in Seq(D \cup S) /\ text \in Seq(D \cup S)
    BY WiderSeq
  <2> HIDE DEF D
  <2> QED BY <2>1
<1>1. PICK w \in [0..(m + n) -> Screens] :
             /\ w[0] = s /\ w[m + n] = WriteString(s, x)
             /\ \A i \in 1..(m + n) : w[i] = Put(w[i - 1], x[i])
  <2>1. PICK w \in [0..Len(x) -> Screens] :
             /\ w[0] = s /\ w[Len(x)] = WriteString(s, x)
             /\ \A i \in 1..Len(x) : w[i] = Put(w[i - 1], x[i])
    <3> DEFINE DS == D \cup S
    <3>1. x \in Seq(DS)
      BY <1>0
    <3> HIDE DEF DS, x
    <3> HIDE DEF D, m, n
    <3> QED BY <3>1, WriteStringFacts
  <2> QED BY <1>0, <2>1
<1>2. n >= 1 /\ n <= Room /\ Room \in Nat
  BY <1>0, RoomFacts
<1>3. ASSUME NEW i \in 1..n
      PROVE  /\ U(i - 1) \in Seq(S) /\ text[i] \in S /\ U(i) = Append(U(i - 1), text[i])
             /\ Len(U(i - 1)) = i - 1
  <2>1. << >> \in Seq(S) /\ Len(<< >>) = 0
    OBVIOUS
  <2>2. Len(U(i - 1)) = 0 + i - 1
    BY <2>1, PrefixGrows
  <2> QED BY <2>1, <2>2, PrefixGrows
<1>4. U(0) = << >> /\ U(n) = text
  OBVIOUS
<1> DEFINE T == {i \in 0..m : Clear(w[i])}
<1>m. m >= 1 /\ x[m] = "\n" /\ m \in 1..m /\ m - 1 \in 0..m
  BY <1>0
<1> HIDE DEF x, m, n, U
<1>5. 0 \in T
  BY <1>0, <1>1
<1>6. ASSUME NEW i \in 1..m, i - 1 \in T
      PROVE  i \in T /\ (x[i] = "\n" => Shows(w[i], << >>))
  <2>1. /\ w[i - 1] \in Screens /\ Clear(w[i - 1]) /\ i \in 0..m
        /\ w[i] = Put(w[i - 1], x[i]) /\ w[i] \in Screens
    BY <1>0, <1>1, <1>6
  <2>2. CASE x[i] = "\n"
    <3>1. Shows(Put(w[i - 1], "\n"), << >>)
      BY <2>1, NewlineShows
    <3> QED BY <2>1, <2>2, <3>1 DEF Shows
  <2>3. CASE x[i] = "o"
    <3>1. x[i] # "BS" /\ x[i] # "\n"
      BY <2>3
    <3> QED BY <2>1, <3>1, DrawClears
  <2> QED BY <1>0, <2>2, <2>3
<1>7. Shows(w[m], << >>)
  <2>1. 0..m \subseteq T
    <3>1. \A i \in 1..m : i - 1 \in T => i \in T
      <4> HIDE DEF T
      <4> QED BY <1>6
    <3> HIDE DEF T
    <3> QED BY <1>0, <1>5, <3>1, StepByStep, Zenon
  <2> HIDE DEF T
  <2> QED BY <1>m, <1>6, <2>1
<1> DEFINE R == {i \in 0..n : Shows(w[m + i], U(i))}
<1>8. 0 \in R
  <2>1. m + 0 = m /\ 0 \in 0..n
    BY <1>0
  <2>2. Shows(w[m + 0], U(0))
    BY <1>4, <1>7, <2>1
  <2> QED BY <2>1, <2>2
<1>9. ASSUME NEW i \in 1..n, i - 1 \in R PROVE i \in R
  <2> DEFINE v == w[m + (i - 1)]
  <2>1. /\ Shows(v, U(i - 1)) /\ i \in 0..n
        /\ m + i \in 1..(m + n) /\ (m + i) - 1 = m + (i - 1) /\ m + (i - 1) \in 0..(m + n)
    BY <1>0, <1>9
  <2>2. v \in Screens /\ w[m + i] = Put(v, text[i])
    BY <1>0, <1>1, <2>1
  <2> HIDE DEF v
  <2>3. text[i] # "BS" /\ text[i] # "\n" /\ Len(U(i - 1)) + 1 <= Room
    <3>1. text[i] \in S /\ Len(U(i - 1)) = i - 1 /\ i <= n
      BY <1>0, <1>3
    <3> QED BY <1>0, <1>2, <3>1
  <2>4. Shows(Put(v, text[i]), Append(U(i - 1), text[i]))
    BY <1>3, <2>1, <2>2, <2>3, DrawShows
  <2> QED BY <1>3, <2>1, <2>2, <2>4
<1>10. n \in R
  <2> HIDE DEF R
  <2>1. 0..n \subseteq R
    BY <1>0, <1>8, <1>9, StepByStep, Zenon
  <2> QED BY <1>0, <2>1
<1>11. m + n \in 0..(m + n)
  BY <1>0
<1> QED BY <1>1, <1>4, <1>10, <1>11 DEF x

-----------------------------------------------------------------------------
(* The inductive invariant.                                                *)

(* The lines of an alphabet that fit into heapless::String<128>. *)
Lines(a) == {t \in Seq(a) : Bytes(t) <= LineBytes[a]}

EditorTypes ==
  /\ keys \in Alphabets /\ enters \in Nat /\ fresh \in BOOLEAN /\ overcleared \in BOOLEAN
  /\ line \in Lines(keys) /\ entries \in Seq(Lines(keys))
  /\ Len(entries) <= HistorySize /\ index \in 0..Len(entries)
  /\ screen \in Screens

(* The history is full from the HistorySize-th line on; until then its     *)
(* newest entry is the line just entered, and its cursor is past it.       *)
HistoryInv ==
  /\ Len(entries) = IF enters <= HistorySize THEN enters ELSE HistorySize
  /\ 0 < enters /\ enters <= HistorySize => entries[enters] = ran.line
  /\ fresh /\ enters <= HistorySize => index = Len(entries)

EditorInv ==
  /\ EditorTypes
  /\ overcleared \/ Shows(screen, Prompt \o line)
  /\ HistoryInv

(* A line of the session, after the prompt, does not scroll away. *)
LEMMA LineFacts ==
  ASSUME NEW a \in Alphabets, NEW t \in Lines(a)
  PROVE  /\ t \in Seq(a) /\ t \in Seq(Chars) /\ Prompt \in Seq(Chars) /\ Prompt # << >>
         /\ Prompt \o t \in Seq(Chars) /\ Len(Prompt \o t) = Len(Prompt) + Len(t)
         /\ Len(t) \in Nat /\ Len(Prompt) \in Nat /\ Bytes(t) \in Nat /\ Len(t) <= Bytes(t)
         /\ Bytes(t) <= LineBytes[a] /\ LineBytes[a] \in Nat
         /\ Len(Prompt) + Len(t) <= Room /\ Len(Prompt) <= Room
         /\ "BS" \notin Chars /\ "\n" \notin Chars
<1>1. t \in Seq(a) /\ Bytes(t) <= LineBytes[a] /\ a \subseteq Chars
      /\ Prompt \in Seq(Chars) /\ Prompt # << >>
  BY TextAssumption DEF Lines
<1>2. "BS" \notin Chars /\ "\n" \notin Chars
  BY DEF Chars
<1>3. t \in Seq(Chars)
  BY <1>1, WiderSeq
<1>4. Prompt \o t \in Seq(Chars) /\ Len(Prompt \o t) = Len(Prompt) + Len(t)
      /\ Len(t) \in Nat /\ Len(Prompt) \in Nat
  BY <1>1, <1>3
<1>5. Bytes(t) \in Nat /\ Len(t) <= Bytes(t)
  BY <1>1, BytesAtLeast
<1>6. LineBytes[a] \in Nat /\ Len(Prompt) + LineBytes[a] <= Room /\ Room \in Nat
  BY RoomAssumption, RoomFacts DEF Room
<1>7. Len(Prompt) + Len(t) <= Room /\ Len(Prompt) <= Room
  BY <1>1, <1>4, <1>5, <1>6
<1> QED BY <1>1, <1>2, <1>3, <1>4, <1>5, <1>6, <1>7

(* The empty line. *)
LEMMA NoLine ==
  ASSUME NEW a \in Alphabets
  PROVE  << >> \in Lines(a) /\ Prompt \o << >> = Prompt
<1>1. LineBytes[a] \in Nat
  BY RoomAssumption
<1>2. Bytes(<< >>) = 0
  BY BytesOfOne
<1> QED BY <1>1, <1>2, TextAssumption DEF Lines

(* The empty screen. *)
LEMMA BlankShows == BlankScreen \in Screens /\ Shows(BlankScreen, << >>)
<1>1. Columns \in Nat \ {0} /\ Rows \in Nat \ {0}
  BY ScreenAssumption
<1>2. BlankScreen \in Screens
  <2>1. 0 \in 0..(Columns - 1) /\ 0 \in 0..(Rows - 1)
    BY <1>1
  <2> QED BY <2>1 DEF BlankScreen, Screens
<1>3. \A p \in Cells : BlankScreen.cells[p] = {}
  BY DEF BlankScreen
<1>4. Position(BlankScreen) = 0 * Columns + 0
  BY DEF Position, BlankScreen
<1>5. Position(BlankScreen) = 0 /\ 0 * Columns = 0
  BY <1>1, <1>4
<1>6. \E k \in Nat : Position(BlankScreen) - Len(<< >>) = k * Columns
  BY <1>5
<1> QED BY <1>2, <1>3, <1>5, <1>6 DEF Shows, Clear

(* The shell starts with its prompt on an empty screen. *)
LEMMA EditorStart == Init => EditorInv
<1> SUFFICES ASSUME Init PROVE EditorInv
  OBVIOUS
<1>1. keys \in Alphabets /\ line = << >> /\ entries = << >> /\ index = 0 /\ enters = 0
      /\ fresh = TRUE /\ overcleared = FALSE /\ screen = WriteString(BlankScreen, Prompt)
  BY DEF Init
<1>2. << >> \in Lines(keys) /\ Prompt \o << >> = Prompt
  BY <1>1, NoLine
<1>3. /\ Prompt \in Seq(Chars) /\ "BS" \notin Chars /\ "\n" \notin Chars
      /\ Len(Prompt) <= Room /\ Len(Prompt) \in Nat
  BY <1>1, <1>2, LineFacts
<1>4. << >> \in Seq(Chars) /\ Len(<< >>) + Len(Prompt) <= Room /\ << >> \o Prompt = Prompt
  BY <1>3
<1>5. screen \in Screens /\ Shows(screen, << >> \o Prompt)
  BY <1>1, <1>3, <1>4, BlankShows, TextShows
<1>6. Shows(screen, Prompt \o line)
  BY <1>1, <1>2, <1>4, <1>5
<1>7. EditorTypes
  <2>1. entries \in Seq(Lines(keys)) /\ Len(entries) = 0
    BY <1>1
  <2>2. index \in 0..Len(entries) /\ Len(entries) <= HistorySize /\ enters \in Nat
    BY <1>1, <2>1, HistoryAssumption
  <2> QED BY <1>1, <1>2, <1>5, <2>1, <2>2 DEF EditorTypes
<1>8. HistoryInv
  BY <1>1, HistoryAssumption DEF HistoryInv
<1> QED BY <1>6, <1>7, <1>8 DEF EditorInv

(* A character. *)
LEMMA CharStep ==
  ASSUME EditorInv, KeyChar
  PROVE  EditorInv'
<1>1. PICK c \in keys : /\ Fits(c) /\ line' = Append(line, c)
                        /\ screen' = WriteString(screen, <<c>>)
  BY DEF KeyChar
<1>2. UNCHANGED <<keys, entries, index, enters, ran, fresh, overcleared>>
  BY DEF KeyChar
<1>3. EditorTypes /\ HistoryInv
  BY DEF EditorInv
<1>4. keys \in Alphabets /\ line \in Lines(keys) /\ screen \in Screens
  BY <1>3 DEF EditorTypes
<1>5. /\ line \in Seq(keys) /\ Bytes(line) \in Nat /\ Size(c) \in Nat /\ LineBytes[keys] \in Nat
      /\ Bytes(line) + Size(c) <= LineBytes[keys]
  BY <1>1, <1>4, LineFacts, BytesOfOne DEF Fits
<1>6. line' \in Lines(keys)
  <2>1. line' \in Seq(keys)
    BY <1>1, <1>5
  <2>2. Bytes(line') = Bytes(line) + Size(c)
    BY <1>1, <1>5, BytesAppend
  <2> QED BY <1>5, <2>1, <2>2 DEF Lines
<1> DEFINE t == Prompt \o line
           u == <<c>>
<1>7. /\ t \in Seq(Chars) /\ c \in Chars /\ "BS" \notin Chars /\ "\n" \notin Chars
      /\ line \in Seq(Chars) /\ Prompt \in Seq(Chars)
  BY <1>4, TextAssumption, LineFacts
<1>8. u \in Seq(Chars) /\ Len(u) = 1
  BY <1>7
<1>9. Len(t) + Len(u) <= Room /\ t \o u = Prompt \o line'
  <2>1. Len(Prompt \o line') <= Room
    BY <1>4, <1>6, LineFacts
  <2>2. Prompt \o Append(line, c) = (Prompt \o line) \o <<c>>
    BY <1>7
  <2>3. t \o u = Prompt \o line'
    BY <1>1, <2>2
  <2>4. Len(t \o u) = Len(t) + Len(u)
    <3> HIDE DEF t, u
    <3> QED BY <1>7, <1>8, ConcatLen
  <2> QED BY <2>1, <2>3, <2>4
<1>10. screen' \in Screens
  <2> HIDE DEF u
  <2>1. WriteString(screen, u) \in Screens
    BY <1>4, <1>8, WriteStringType
  <2> QED BY <1>1, <2>1 DEF u
<1>11. overcleared' \/ Shows(screen', Prompt \o line')
  <2> SUFFICES ASSUME ~overcleared PROVE Shows(screen', Prompt \o line')
    BY <1>2
  <2>1. Shows(screen, t)
    BY DEF EditorInv
  <2> HIDE DEF t, u
  <2>2. Shows(WriteString(screen, u), t \o u)
    BY <1>4, <1>7, <1>8, <1>9, <2>1, TextShows
  <2> QED BY <1>1, <1>9, <2>2 DEF u
<1>12. EditorTypes'
  BY <1>2, <1>3, <1>6, <1>10 DEF EditorTypes
<1>13. HistoryInv'
  BY <1>2, <1>3 DEF HistoryInv
<1> QED BY <1>11, <1>12, <1>13 DEF EditorInv

(* A backspace. *)
LEMMA BackspaceStep ==
  ASSUME EditorInv, KeyBackspace
  PROVE  EditorInv'
<1>1. /\ line # << >> /\ line' = SubSeq(line, 1, Len(line) - 1)
      /\ screen' = WriteString(screen, Erase)
      /\ UNCHANGED <<keys, entries, index, enters, ran, fresh, overcleared>>
  BY DEF KeyBackspace
<1>2. EditorTypes /\ HistoryInv
  BY DEF EditorInv
<1>3. keys \in Alphabets /\ line \in Lines(keys) /\ screen \in Screens
  BY <1>2 DEF EditorTypes
<1>4. line \in Seq(keys) /\ Bytes(line) \in Nat /\ Bytes(line) <= LineBytes[keys] /\ LineBytes[keys] \in Nat
  BY <1>3, LineFacts
<1> DEFINE c == line[Len(line)]
<1>5. line' \in Seq(keys) /\ c \in keys /\ line = Append(line', c)
  BY <1>1, <1>4, FrontFacts
<1> HIDE DEF c
<1>6. line' \in Lines(keys)
  <2>1. Bytes(line) = Bytes(line') + Size(c)
    BY <1>5, BytesAppend
  <2>2. Size(c) \in Nat /\ Bytes(line') \in Nat
    BY <1>5, BytesOfOne, BytesAtLeast
  <2> QED BY <1>4, <1>5, <2>1, <2>2 DEF Lines
<1> DEFINE t == Prompt \o line
<1>7. /\ t \in Seq(Chars) /\ c \in Chars /\ Prompt \o line' \in Seq(Chars)
      /\ Prompt \in Seq(Chars) /\ line' \in Seq(Chars) /\ Len(t) <= Room
  BY <1>3, <1>5, <1>6, TextAssumption, LineFacts
<1>8. t # << >> /\ SubSeq(t, 1, Len(t) - 1) = Prompt \o line'
  <2>1. Prompt \o Append(line', c) = Append(Prompt \o line', c)
    BY <1>7, AppendToConcat
  <2>2. t = Append(Prompt \o line', c)
    BY <1>5, <2>1
  <2> HIDE DEF t
  <2> QED BY <1>7, <2>2, FrontOfAppend
<1>9. screen' \in Screens
  <2>1. Erase \in Seq({"BS", " "})
    BY DEF Erase
  <2> QED BY <1>1, <1>3, <2>1, WriteStringType
<1>10. overcleared' \/ Shows(screen', Prompt \o line')
  <2> SUFFICES ASSUME ~overcleared PROVE Shows(screen', Prompt \o line')
    BY <1>1
  <2>1. Shows(screen, t)
    BY DEF EditorInv
  <2> HIDE DEF t
  <2>2. Shows(WriteString(screen, Erase), SubSeq(t, 1, Len(t) - 1))
    BY <1>3, <1>7, <1>8, <2>1, EraseShows
  <2> QED BY <1>1, <1>8, <2>2
<1>11. EditorTypes'
  BY <1>1, <1>2, <1>6, <1>9 DEF EditorTypes
<1>12. HistoryInv'
  BY <1>1, <1>2 DEF HistoryInv
<1> QED BY <1>10, <1>11, <1>12 DEF EditorInv

(* A line of the history in the place of the line. *)
LEMMA RecallStep ==
  ASSUME EditorInv, NEW text \in Lines(keys), Recall(text)
  PROVE  /\ line' \in Lines(keys) /\ screen' \in Screens /\ overcleared' \in BOOLEAN
         /\ overcleared' \/ Shows(screen', Prompt \o line')
<1>1. /\ line' = text /\ screen' = WriteString(ClearLine(screen, Bytes(line)), text)
      /\ overcleared' = (overcleared \/ Bytes(line) > Len(line))
  BY DEF Recall
<1>2. /\ keys \in Alphabets /\ line \in Lines(keys) /\ screen \in Screens
      /\ overcleared \in BOOLEAN
  BY DEF EditorInv, EditorTypes
<1>3. /\ line \in Seq(Chars) /\ Len(line) \in Nat /\ Bytes(line) \in Nat /\ Len(line) <= Bytes(line)
      /\ Prompt \in Seq(Chars) /\ "BS" \notin Chars /\ "\n" \notin Chars
      /\ Len(Prompt) + Len(line) <= Room
  BY <1>2, LineFacts
<1>4. text \in Seq(Chars) /\ Len(Prompt) + Len(text) <= Room
  BY <1>2, LineFacts
<1> DEFINE s == ClearLine(screen, Bytes(line))
<1>5. s \in Screens
  <2>1. PICK w \in [0..Bytes(line) -> Screens] : w[Bytes(line)] = s
    BY <1>2, <1>3, ClearLineFacts
  <2> QED BY <1>3, <2>1
<1>6. screen' \in Screens
  <2> HIDE DEF s
  <2>1. WriteString(s, text) \in Screens
    BY <1>4, <1>5, WriteStringType
  <2> QED BY <1>1, <2>1 DEF s
<1>7. ASSUME ~overcleared' PROVE Shows(screen', Prompt \o line')
  <2>1. ~overcleared /\ Bytes(line) = Len(line)
    <3>1. ~overcleared /\ ~(Bytes(line) > Len(line))
      BY <1>1, <1>7, Zenon
    <3> QED BY <1>3, <3>1
  <2>2. Shows(screen, Prompt \o line)
    BY <2>1 DEF EditorInv
  <2>3. Shows(ClearLine(screen, Len(line)), Prompt)
    BY <1>2, <1>3, <2>2, ClearShows
  <2>4. Shows(s, Prompt)
    BY <2>1, <2>3
  <2> HIDE DEF s
  <2>5. Shows(WriteString(s, text), Prompt \o text)
    BY <1>3, <1>4, <1>5, <2>4, TextShows
  <2> QED BY <1>1, <2>5 DEF s
<1> QED BY <1>1, <1>2, <1>6, <1>7

(* The arrow keys. *)
LEMMA ArrowStep ==
  ASSUME EditorInv, KeyUp \/ KeyDown
  PROVE  /\ EditorInv' /\ index' + 1 \in 1..Len(entries) /\ line' = entries[index' + 1]
         /\ index' \in {index - 1, index + 1} /\ UNCHANGED <<entries, enters>>
         /\ fresh /\ 0 < enters /\ enters <= HistorySize => line' = ran.line
<1>1. /\ EditorTypes /\ HistoryInv /\ index \in 0..Len(entries) /\ Len(entries) \in Nat
      /\ entries \in Seq(Lines(keys)) /\ enters \in Nat /\ HistorySize \in Nat
  BY HistoryAssumption DEF EditorInv, EditorTypes
<1>2. /\ index' \in 0..Len(entries) /\ index' + 1 \in 1..Len(entries)
      /\ index' \in {index - 1, index + 1} /\ Recall(entries[index' + 1])
      /\ KeyUp => index' = index - 1
      /\ KeyDown => index' = index + 1 /\ index + 1 < Len(entries)
  <2>1. CASE KeyUp
    <3>1. index > 0 /\ index' = index - 1 /\ Recall(entries[index' + 1])
      BY <2>1 DEF KeyUp
    <3>2. ~KeyDown
      BY <1>1, <3>1 DEF KeyDown
    <3> QED BY <1>1, <3>1, <3>2
  <2>2. CASE KeyDown
    <3>1. index + 1 < Len(entries) /\ index' = index + 1 /\ Recall(entries[index' + 1])
      BY <2>2 DEF KeyDown, BelowNewest
    <3>2. ~KeyUp
      BY <1>1, <3>1 DEF KeyUp
    <3> QED BY <1>1, <3>1, <3>2
  <2> QED BY <2>1, <2>2
<1> DEFINE text == entries[index' + 1]
<1>3. text \in Lines(keys)
  BY <1>1, <1>2
<1>4. /\ line' = text /\ fresh' = FALSE /\ UNCHANGED <<keys, entries, enters, ran>>
  BY <1>2 DEF Recall
<1>5. /\ line' \in Lines(keys) /\ screen' \in Screens /\ overcleared' \in BOOLEAN
      /\ overcleared' \/ Shows(screen', Prompt \o line')
  <2> HIDE DEF text
  <2>1. Recall(text)
    BY <1>2 DEF text
  <2> QED BY <1>3, <2>1, RecallStep
<1>6. EditorTypes'
  BY <1>1, <1>2, <1>4, <1>5 DEF EditorTypes
<1>7. HistoryInv'
  BY <1>1, <1>4 DEF HistoryInv
<1>8. ASSUME fresh, 0 < enters, enters <= HistorySize PROVE line' = ran.line
  <2>1. index = Len(entries) /\ Len(entries) = enters /\ entries[enters] = ran.line
    BY <1>1, <1>8 DEF HistoryInv
  <2>2. index' + 1 = enters
    <3>1. ~(index + 1 < Len(entries)) /\ index - 1 + 1 = enters
      BY <1>1, <2>1
    <3>2. index' = index - 1
      BY <1>2, <3>1, Zenon
    <3> QED BY <3>1, <3>2
  <2> QED BY <1>4, <2>1, <2>2
<1> QED BY <1>2, <1>4, <1>5, <1>6, <1>7, <1>8 DEF EditorInv

(* Enter. *)
LEMMA EnterStep ==
  ASSUME EditorInv, KeyEnter
  PROVE  EditorInv'
<1> DEFINE cmds == ParsePipeline(Tokenize(Replace(line, Prompt, <<"\n">>)))
<1>1. PICK rows \in 0..Len(cmds) :
             screen' = WriteString(screen, <<"\n">> \o Output(rows) \o Prompt)
  BY DEF KeyEnter
<1>2. /\ ran' = [line |-> line, cmds |-> cmds]
      /\ entries' = PushUnlessFull(entries, line, HistorySize)
      /\ index' = IndexAfterPush /\ line' = << >> /\ fresh' = TRUE /\ enters' = enters + 1
      /\ UNCHANGED <<keys, overcleared>>
  BY DEF KeyEnter
<1>3. /\ keys \in Alphabets /\ line \in Lines(keys) /\ screen \in Screens /\ enters \in Nat
      /\ entries \in Seq(Lines(keys)) /\ Len(entries) \in Nat /\ HistorySize \in Nat
      /\ Len(entries) <= HistorySize /\ index \in 0..Len(entries) /\ HistoryInv
      /\ overcleared \in BOOLEAN
  BY HistoryAssumption DEF EditorInv, EditorTypes
<1>4. rows \in Nat
  BY <1>1
<1> DEFINE A == <<"\n">> \o Output(rows)
<1>5. A \in Seq({"o", "\n"}) /\ Len(A) >= 1 /\ A[Len(A)] = "\n"
  BY <1>4, OutputFacts
<1>6. /\ Prompt \in Seq(Chars) /\ Prompt # << >> /\ "BS" \notin Chars /\ "\n" \notin Chars
      /\ Len(Prompt) <= Room
  BY <1>3, LineFacts
<1>7. screen' = WriteString(screen, A \o Prompt)
  BY <1>1
<1>8. screen' \in Screens
  <2> DEFINE D == {"o", "\n"}
             DS == D \cup Chars
  <2>1. A \in Seq(D)
    BY <1>5
  <2>2. A \in Seq(DS) /\ Prompt \in Seq(DS)
    <3> HIDE DEF A, D
    <3> QED BY <1>6, <2>1, WiderSeq
  <2> HIDE DEF A, DS
  <2>3. A \o Prompt \in Seq(DS)
    BY <2>2, ConcatLen
  <2> QED BY <1>3, <1>7, <2>3, WriteStringType
<1>9. overcleared' \/ Shows(screen', Prompt \o line')
  <2> SUFFICES ASSUME ~overcleared PROVE Shows(screen', Prompt \o line')
    BY <1>2
  <2>1. Clear(screen)
    BY DEF EditorInv, Shows
  <2> HIDE DEF A
  <2>2. Shows(WriteString(screen, A \o Prompt), Prompt)
    BY <1>3, <1>5, <1>6, <2>1, EnterShows
  <2>3. Prompt \o line' = Prompt
    BY <1>2, <1>3, NoLine
  <2> QED BY <1>7, <2>2, <2>3
<1>10. line' \in Lines(keys)
  BY <1>2, <1>3, NoLine
<1> HIDE DEF A, cmds
<1>11. /\ Len(entries) < HistorySize =>
            /\ entries' = Append(entries, line) /\ entries' \in Seq(Lines(keys))
            /\ Len(entries') = Len(entries) + 1 /\ index' = Len(entries) + 1
            /\ entries'[Len(entries) + 1] = line
       /\ ~(Len(entries) < HistorySize) => entries' = entries /\ index' = index
  BY <1>2, <1>3 DEF PushUnlessFull, IndexAfterPush
<1>12. EditorTypes'
  <2>1. /\ entries' \in Seq(Lines(keys)) /\ Len(entries') <= HistorySize
        /\ index' \in 0..Len(entries')
    BY <1>3, <1>11
  <2> QED BY <1>2, <1>3, <1>8, <1>10, <2>1 DEF EditorTypes
<1>13. HistoryInv'
  <2>1. Len(entries) = IF enters <= HistorySize THEN enters ELSE HistorySize
    BY <1>3 DEF HistoryInv
  <2>2. CASE enters < HistorySize
    <3>1. /\ Len(entries') = enters + 1 /\ index' = Len(entries') /\ entries'[enters + 1] = line
      BY <1>3, <1>11, <2>1, <2>2
    <3>2. ran'.line = line
      BY <1>2
    <3> QED BY <1>2, <1>3, <2>2, <3>1, <3>2 DEF HistoryInv
  <2>3. CASE ~(enters < HistorySize)
    <3>1. Len(entries') = HistorySize /\ ~(enters + 1 <= HistorySize)
      BY <1>3, <1>11, <2>1, <2>3
    <3> QED BY <1>2, <1>3, <3>1 DEF HistoryInv
  <2> QED BY <2>2, <2>3
<1> QED BY <1>9, <1>12, <1>13 DEF EditorInv

(* No key disturbs the invariant. *)
LEMMA EditorStep == EditorInv /\ [Next]_vars => EditorInv'
<1> SUFFICES ASSUME EditorInv, [Next]_vars PROVE EditorInv'
  OBVIOUS
<1>1. CASE UNCHANGED vars
  BY <1>1 DEF vars, EditorInv, EditorTypes, HistoryInv
<1> QED
  BY <1>1, CharStep, BackspaceStep, ArrowStep, EnterStep DEF Next

(* The types, the screen and the history together are an inductive         *)
(* invariant: the text on the screen must begin at the start of a row for  *)
(* Backspace and clear_line to find its cells again, and the newest entry  *)
(* must be the line just entered for ArrowUp to bring it back.             *)
THEOREM EditorInvariance == Spec => []EditorInv
<1>1. QED
  BY EditorStart, EditorStep, PTL DEF Spec

(* Every write of the shell is to a cell of the frame buffer, the line and *)
(* the lines of the history stay within their capacity, and the history's  *)
(* cursor within the history: whatever is typed, entered and recalled.     *)
THEOREM EditorTyping == Spec => []TypeOK
<1>1. EditorInv => TypeOK
  <2> SUFFICES ASSUME EditorInv PROVE TypeOK
    OBVIOUS
  <2>1. /\ keys \in Alphabets /\ enters \in Nat /\ fresh \in BOOLEAN /\ overcleared \in BOOLEAN
        /\ line \in Lines(keys) /\ entries \in Seq(Lines(keys))
        /\ Len(entries) <= HistorySize /\ index \in 0..Len(entries) /\ screen \in Screens
    BY DEF EditorInv, EditorTypes
  <2>2. \A t \in Lines(keys) : t \in Seq(keys) /\ Bytes(t) <= LineBytes[keys]
    BY DEF Lines
  <2>3. \A i \in 1..Len(entries) : entries[i] \in Seq(keys)
    BY <2>1, <2>2
  <2>4. /\ screen.x \in 0..(Columns - 1) /\ screen.y \in 0..(Rows - 1)
        /\ \A p \in Cells : screen.cells[p] \subseteq BasicFont
    <3>1. screen.cells \in [Cells -> SUBSET BasicFont]
      BY <2>1 DEF Screens
    <3>2. screen.x \in 0..(Columns - 1) /\ screen.y \in 0..(Rows - 1)
      BY <2>1 DEF Screens
    <3> QED BY <3>1, <3>2
  <2> QED BY <2>1, <2>2, <2>3, <2>4 DEF TypeOK
<1> QED
  BY <1>1, EditorInvariance, PTL

(* The user sees what Enter will run, until clear_line has met a two-byte  *)
(* character: for every prompt and line that fit on the screen.            *)
THEOREM EditorShowsLine == Spec => []ScreenShowsLine
<1>1. EditorInv => ScreenShowsLine
  BY DEF EditorInv, ScreenShowsLine, Shows, Clear
<1> QED
  BY <1>1, EditorInvariance, PTL

(* The arrow keys walk through the history, from the line just entered on. *)
THEOREM EditorRecallsInOrder == Spec => RecallsInOrder
<1>1. ASSUME EditorInv, [Next]_vars, index' # index, enters' = enters
      PROVE  /\ \E i \in 1..Len(entries) : i = index' + 1 /\ line' = entries[i]
             /\ index' \in {index - 1, index + 1}
             /\ fresh /\ enters > 0 /\ enters <= HistorySize => line' = ran.line
  <2>1. enters \in Nat
    BY <1>1 DEF EditorInv, EditorTypes
  <2>2. KeyUp \/ KeyDown
    BY <1>1, <2>1 DEF Next, KeyChar, KeyBackspace, KeyEnter, vars
  <2> QED BY <1>1, <2>1, <2>2, ArrowStep
<1>2. EditorInv /\ [Next]_vars
        => [index' # index /\ enters' = enters =>
              /\ \E i \in 1..Len(entries) : i = index' + 1 /\ line' = entries[i]
              /\ index' \in {index - 1, index + 1}
              /\ fresh /\ enters > 0 /\ enters <= HistorySize => line' = ran.line]_vars
  BY <1>1
<1> QED
  BY <1>2, EditorInvariance, PTL DEF Spec, RecallsInOrder

-----------------------------------------------------------------------------
(* What a line means, in the parts of Meaning.                             *)
Blank == " "
Bar == "|"
Quote == "\""

(* The characters that the tokenizer looks for. *)
LEMMA CharsDiffer == Blank # Bar /\ Blank # Quote /\ Bar # Quote
  BY Zenon DEF Blank, Bar, Quote

(* Where words begin and pipes are, and the words of each command. *)
Starts(L) == {i \in 1..Len(L) : Modes(L)[i - 1] = "gap" /\ Modes(L)[i] # "gap"}
Pipes(L) == {i \in 1..Len(L) : L[i] = Bar /\ Modes(L)[i - 1] # "quote"}
EndOf(L, i) == CHOOSE j \in i..Len(L) :
                 /\ \A k \in i..j : Modes(L)[k] = Modes(L)[i]
                 /\ j = Len(L) \/ Modes(L)[j + 1] # Modes(L)[i]
TextOf(L, i) == SubSeq(L, IF Modes(L)[i] = "quote" THEN i + 1 ELSE i, EndOf(L, i))
WordsIn(L, k) == {i \in Starts(L) : Cardinality({j \in Pipes(L) : j < i}) = k - 1}
NthOf(S, n) == CHOOSE i \in S : Cardinality({j \in S : j <= i}) = n
NamedIn(L, k) == {i \in WordsIn(L, k) : \E j \in WordsIn(L, k) : j <= i /\ TextOf(L, j) # <<>>}
TextsIn(L, k) == [n \in 1..Cardinality(NamedIn(L, k)) |-> TextOf(L, NthOf(NamedIn(L, k), n))]
CommandIn(L, k) == IF NamedIn(L, k) = {} THEN NoCommand
                   ELSE [name |-> Head(TextsIn(L, k)), args |-> Tail(TextsIn(L, k))]
CommandsIn(L) == [k \in 1..(Cardinality(Pipes(L)) + 1) |-> CommandIn(L, k)]

(* Meaning, put together from its parts. *)
LEMMA MeaningParts ==
  ASSUME NEW L
  PROVE  Meaning(L) = IF NamedIn(L, Len(CommandsIn(L))) = {}
                      THEN SubSeq(CommandsIn(L), 1, Len(CommandsIn(L)) - 1) ELSE CommandsIn(L)
  BY Zenon DEF Meaning, Starts, Pipes, EndOf, TextOf, WordsIn, NthOf, NamedIn, TextsIn, CommandIn,
         CommandsIn, Bar

(* The automaton of Modes. *)
ModeAfter(m, c) ==
  CASE m = "quote" -> IF c = Quote THEN "gap" ELSE "quote"
    [] m = "word" -> IF c \in {Blank, Bar} THEN "gap" ELSE "word"
    [] OTHER -> IF c \in {Blank, Bar} THEN "gap" ELSE IF c = Quote THEN "quote" ELSE "word"

(* The modes follow the automaton. *)
LEMMA ModesFacts ==
  ASSUME NEW S, NEW L \in Seq(S)
  PROVE  /\ Modes(L) \in [0..Len(L) -> {"gap", "quote", "word"}]
         /\ Modes(L)[0] = "gap"
         /\ \A i \in 1..Len(L) : Modes(L)[i] = ModeAfter(Modes(L)[i - 1], L[i])
<1> DEFINE n == Len(L)
           V == {"gap", "quote", "word"}
           v == "gap"
           F == [i \in 1..n |-> [m \in V |-> ModeAfter(m, L[i])]]
           X(g, i) == LET c == L[i] IN
             CASE g[i - 1] = "quote" -> IF c = "\"" THEN "gap" ELSE "quote"
               [] g[i - 1] = "word" -> IF c \in {" ", "|"} THEN "gap" ELSE "word"
               [] OTHER -> IF c \in {" ", "|"} THEN "gap" ELSE IF c = "\"" THEN "quote" ELSE "word"
           E(g) == g = [i \in 0..n |-> IF i = 0 THEN "gap" ELSE X(g, i)]
           w == CHOOSE g : E(g)
<1>1. n \in Nat
  OBVIOUS
<1>2. Modes(L) = w
  BY Zenon DEF Modes
<1>3. \A g, i : X(g, i) = ModeAfter(g[i - 1], L[i])
  BY Zenon DEF ModeAfter, Quote, Blank, Bar
<1>4. \A m \in V : \A c : ModeAfter(m, c) \in V
  BY DEF ModeAfter
<1>5. v \in V /\ F \in [1..n -> [V -> V]]
  <2>1. v \in V
    OBVIOUS
  <2> HIDE DEF V
  <2> QED BY <1>4, <2>1
<1>6. PICK g \in Chains(n, V, v, F) : TRUE
  <2> HIDE DEF n, V, F, v
  <2> QED BY <1>1, <1>5, ChainExists, Zenon
<1>7. g \in [0..n -> V] /\ g[0] = v /\ \A i \in 1..n : g[i] = F[i][g[i - 1]]
  <2> HIDE DEF n, V, F, v
  <2> QED BY <1>6 DEF Chains
<1> HIDE DEF n, V, X
<1>8. \A i \in 1..n : g[i - 1] \in V
  BY <1>1, <1>7
<1>9. \A i \in 1..n : g[i] = X(g, i)
  BY <1>3, <1>7, <1>8
<1>10. E(g)
  BY <1>1, <1>7, <1>9
<1>11. E(w)
  BY <1>10, Zenon
<1> HIDE DEF w
<1>12. w[0] = v /\ \A i \in 1..n : w[i] = X(w, i)
  <2>1. w = [i \in 0..n |-> IF i = 0 THEN "gap" ELSE X(w, i)]
    BY <1>11, Zenon
  <2>2. 0 \in 0..n /\ \A i \in 1..n : i \in 0..n /\ i # 0
    BY <1>1
  <2>3. w[0] = "gap"
    BY <2>1, <2>2, Zenon
  <2>4. ASSUME NEW i \in 1..n PROVE w[i] = X(w, i)
    BY <2>1, <2>2, Zenon
  <2> QED BY <2>3, <2>4
<1>13. \A i \in 1..n : w[i] = ModeAfter(w[i - 1], L[i])
  BY <1>3, <1>12, Zenon
<1> DEFINE T == {i \in 0..n : w[i] \in V}
<1>14. 0 \in T
  BY <1>1, <1>5, <1>12
<1>15. ASSUME NEW i \in 1..n, i - 1 \in T PROVE i \in T
  <2>1. w[i - 1] \in V /\ i \in 0..n
    BY <1>1, <1>15
  <2> QED BY <1>4, <1>13, <2>1
<1>16. 0..n \subseteq T
  <2> HIDE DEF T
  <2> QED BY <1>1, <1>14, <1>15, StepByStep, Zenon
<1>17. w \in [0..n -> V]
  <2>1. w = [i \in 0..n |-> w[i]]
    BY <1>11
  <2> QED BY <1>16, <2>1
<1> QED BY <1>2, <1>12, <1>13, <1>17 DEF V, n

(* Read in each mode. *)
LEMMA ModeSteps ==
  ASSUME NEW S, NEW L \in Seq(S), NEW i \in 1..Len(L)
  PROVE  LET m == Modes(L)[i - 1]
             r == Modes(L)[i]
         IN  /\ m \in {"gap", "quote", "word"} /\ r \in {"gap", "quote", "word"}
             /\ m = "quote" /\ L[i] = Quote => r = "gap"
             /\ m = "quote" /\ L[i] # Quote => r = "quote"
             /\ m # "quote" /\ L[i] \in {Blank, Bar} => r = "gap"
             /\ m = "word" /\ L[i] \notin {Blank, Bar} => r = "word"
             /\ m = "gap" /\ L[i] = Quote => r = "quote"
             /\ m = "gap" /\ L[i] \notin {Blank, Bar, Quote} => r = "word"
<1> DEFINE m == Modes(L)[i - 1]
           r == Modes(L)[i]
<1>1. m \in {"gap", "quote", "word"} /\ r \in {"gap", "quote", "word"}
  <2>1. i \in 0..Len(L) /\ i - 1 \in 0..Len(L)
    OBVIOUS
  <2> QED BY <2>1, ModesFacts
<1>2. r = ModeAfter(m, L[i])
  BY ModesFacts
<1> HIDE DEF m, r
<1>3. Quote \notin {Blank, Bar}
  BY CharsDiffer
<1> QED BY <1>1, <1>2, <1>3 DEF ModeAfter, m, r

(* Until finds the first stop, or one past the end. *)
LEMMA UntilFacts ==
  ASSUME NEW S, NEW L \in Seq(S), NEW i \in 1..(Len(L) + 1), NEW stops
  PROVE  LET e == Until(L, i, stops)
         IN  /\ e \in i..(Len(L) + 1)
             /\ e <= Len(L) => L[e] \in stops
             /\ \A k \in i..(e - 1) : L[k] \notin stops
<1> DEFINE n == Len(L)
           G(j) == /\ j <= n => L[j] \in stops
                   /\ \A k \in i..(j - 1) : L[k] \notin stops
           T == {j \in i..n : L[j] \in stops} \cup {n + 1}
<1>1. n \in Nat
  OBVIOUS
<1>2. T \subseteq Nat /\ T # {} /\ T \subseteq i..(n + 1)
  BY <1>1
<1>3. PICK j \in T : \A y \in T : j <= y
  <2> HIDE DEF T
  <2> QED BY <1>2, LeastNatural, Zenon
<1>4. j \in i..(n + 1) /\ j \in Nat
  BY <1>2, <1>3
<1>5. j <= n => L[j] \in stops
  BY <1>1, <1>3
<1>6. ASSUME NEW k \in i..(j - 1) PROVE L[k] \notin stops
  <2>1. k \in i..n /\ k < j
    BY <1>1, <1>4
  <2>2. k \notin T
    BY <1>3, <1>4, <2>1
  <2> QED BY <2>1, <2>2
<1>7. G(j)
  BY <1>5, <1>6
<1> HIDE DEF G, T
<1>8. \E y \in i..(n + 1) : G(y)
  BY <1>4, <1>7
<1>9. Until(L, i, stops) = CHOOSE y \in i..(n + 1) : G(y)
  BY Zenon DEF Until, G
<1>10. Until(L, i, stops) \in i..(n + 1) /\ G(Until(L, i, stops))
  BY <1>8, <1>9, Zenon
<1> QED BY <1>10 DEF G

(* A stretch in one mode ends where the mode changes. *)
LEMMA Stretch ==
  ASSUME NEW S, NEW L \in Seq(S), NEW i \in 1..Len(L), NEW e \in (i + 1)..(Len(L) + 1),
         \A k \in (i + 1)..(e - 1) : Modes(L)[k - 1] = Modes(L)[i] => Modes(L)[k] = Modes(L)[i],
         e <= Len(L) => (Modes(L)[e - 1] = Modes(L)[i] => Modes(L)[e] # Modes(L)[i])
  PROVE  /\ \A k \in i..(e - 1) : Modes(L)[k] = Modes(L)[i]
         /\ EndOf(L, i) = e - 1
<1> DEFINE n == Len(L)
           M(k) == Modes(L)[k]
           d == e - 1 - i
           T == {x \in 0..d : M(i + x) = M(i)}
<1>1. n \in Nat /\ d \in Nat /\ i \in Nat /\ e \in Nat
  OBVIOUS
<1>2. \A k \in (i + 1)..(e - 1) : M(k - 1) = M(i) => M(k) = M(i)
  OBVIOUS
<1>3. e <= n => (M(e - 1) = M(i) => M(e) # M(i))
  OBVIOUS
<1>4. i \in 1..n /\ e \in (i + 1)..(n + 1)
  OBVIOUS
<1>5. EndOf(L, i) = CHOOSE j \in i..n : (\A k \in i..j : M(k) = M(i)) /\ (j = n \/ M(j + 1) # M(i))
  BY Zenon DEF EndOf
<1> HIDE DEF M, n
<1>6. 0 \in T
  <2>1. i + 0 = i /\ 0 \in 0..d
    BY <1>1
  <2> QED BY <2>1
<1>7. ASSUME NEW x \in 1..d, x - 1 \in T PROVE x \in T
  <2>1. /\ i + x \in (i + 1)..(e - 1) /\ (i + x) - 1 = i + (x - 1) /\ x \in 0..d
        /\ M(i + (x - 1)) = M(i)
    BY <1>1, <1>7
  <2>2. M(i + x) = M(i)
    BY <1>2, <2>1
  <2> QED BY <2>1, <2>2
<1>8. 0..d \subseteq T
  <2> HIDE DEF T, d
  <2> QED BY <1>1, <1>6, <1>7, StepByStep, Zenon
<1>9. ASSUME NEW k \in i..(e - 1) PROVE M(k) = M(i)
  <2>1. k - i \in 0..d /\ i + (k - i) = k
    BY <1>1
  <2>2. M(i + (k - i)) = M(i)
    BY <1>8, <2>1
  <2> QED BY <2>1, <2>2
<1> DEFINE G(j) == (\A k \in i..j : M(k) = M(i)) /\ (j = n \/ M(j + 1) # M(i))
<1>10. e - 1 \in i..n
  BY <1>1, <1>4
<1>11. G(e - 1)
  <2>1. CASE e = n + 1
    <3>1. e - 1 = n
      BY <1>1, <2>1
    <3> QED BY <1>9, <3>1
  <2>2. CASE e <= n
    <3>1. e - 1 \in i..(e - 1) /\ (e - 1) + 1 = e
      BY <1>1, <1>4
    <3>2. M(e) # M(i)
      BY <1>3, <1>9, <2>2, <3>1
    <3> QED BY <1>9, <3>1, <3>2
  <2> QED BY <1>1, <1>4, <2>1, <2>2
<1>12. ASSUME NEW j \in i..n, G(j) PROVE j = e - 1
  <2>1. CASE j < e - 1
    <3>1. j # n /\ j + 1 \in i..(e - 1)
      BY <1>1, <1>4, <2>1
    <3>2. M(j + 1) = M(i)
      BY <1>9, <3>1
    <3> QED BY <1>12, <3>1, <3>2
  <2>2. CASE j > e - 1
    <3>1. e \in i..j /\ e <= n /\ e - 1 \in i..(e - 1)
      BY <1>1, <1>4, <1>12, <2>2
    <3>2. M(e) = M(i)
      BY <1>12, <3>1
    <3> QED BY <1>3, <1>9, <3>1, <3>2
  <2> QED BY <1>1, <1>12, <2>1, <2>2
<1> HIDE DEF G
<1>13. EndOf(L, i) = CHOOSE j \in i..n : G(j)
  BY <1>5, Zenon DEF G
<1>14. EndOf(L, i) \in i..n /\ G(EndOf(L, i))
  BY <1>10, <1>11, <1>13, Zenon
<1>15. EndOf(L, i) = e - 1
  BY <1>12, <1>14, Zenon
<1> QED BY <1>9, <1>15 DEF M

(* A quote: what the tokenizer takes is what the automaton reads. *)
LEMMA QuoteFacts ==
  ASSUME NEW S, NEW L \in Seq(S), NEW i \in 1..Len(L),
         Modes(L)[i - 1] = "gap", L[i] = Quote
  PROVE  LET e == Until(L, i + 1, {Quote})
         IN  /\ e \in (i + 1)..(Len(L) + 1)
             /\ \A k \in i..(e - 1) : Modes(L)[k] = "quote"
             /\ e <= Len(L) => Modes(L)[e] = "gap"
             /\ TextOf(L, i) = SubSeq(L, i + 1, e - 1)
<1> DEFINE n == Len(L)
           e == Until(L, i + 1, {Quote})
<1>1. n \in Nat /\ i \in Nat /\ i + 1 \in 1..(n + 1)
  OBVIOUS
<1>2. /\ e \in (i + 1)..(n + 1)
      /\ e <= n => L[e] \in {Quote}
      /\ \A k \in (i + 1)..(e - 1) : L[k] \notin {Quote}
  <2> DEFINE Q == {Quote}
  <2> HIDE DEF Q
  <2>1. /\ Until(L, i + 1, Q) \in (i + 1)..(n + 1)
        /\ Until(L, i + 1, Q) <= n => L[Until(L, i + 1, Q)] \in Q
        /\ \A k \in (i + 1)..(Until(L, i + 1, Q) - 1) : L[k] \notin Q
    BY <1>1, UntilFacts
  <2> QED BY <2>1 DEF Q
<1>3. Modes(L)[i] = "quote"
  BY ModeSteps
<1> HIDE DEF e
<1>4. ASSUME NEW k \in (i + 1)..(e - 1), Modes(L)[k - 1] = Modes(L)[i]
      PROVE  Modes(L)[k] = Modes(L)[i]
  <2>1. k \in 1..n /\ L[k] # Quote
    BY <1>1, <1>2
  <2> QED BY <1>3, <1>4, <2>1, ModeSteps
<1>5. ASSUME e <= n, Modes(L)[e - 1] = Modes(L)[i]
      PROVE  Modes(L)[e] = "gap"
  <2>1. e \in 1..n /\ L[e] = Quote
    BY <1>1, <1>2, <1>5
  <2> QED BY <1>3, <1>5, <2>1, ModeSteps
<1>6. /\ \A k \in i..(e - 1) : Modes(L)[k] = Modes(L)[i]
      /\ EndOf(L, i) = e - 1
  <2>1. e <= n => (Modes(L)[e - 1] = Modes(L)[i] => Modes(L)[e] # Modes(L)[i])
    BY <1>3, <1>5
  <2> QED BY <1>2, <1>4, <2>1, Stretch
<1>7. e <= n => Modes(L)[e] = "gap"
  <2>1. e - 1 \in i..(e - 1)
    BY <1>1, <1>2
  <2> QED BY <1>5, <1>6, <2>1
<1>8. TextOf(L, i) = SubSeq(L, i + 1, e - 1)
  BY <1>3, <1>6 DEF TextOf
<1> QED BY <1>2, <1>3, <1>6, <1>7, <1>8 DEF e

(* The same for a word. *)
LEMMA WordFacts ==
  ASSUME NEW S, NEW L \in Seq(S), NEW i \in 1..Len(L),
         Modes(L)[i - 1] = "gap", L[i] \notin {Blank, Bar, Quote}
  PROVE  LET e == Until(L, i, {Blank, Bar})
         IN  /\ e \in (i + 1)..(Len(L) + 1)
             /\ \A k \in i..(e - 1) : Modes(L)[k] = "word"
             /\ e <= Len(L) => L[e] \in {Blank, Bar}
             /\ TextOf(L, i) = SubSeq(L, i, e - 1)
<1> DEFINE n == Len(L)
           e == Until(L, i, {Blank, Bar})
<1>1. n \in Nat /\ i \in Nat /\ i \in 1..(n + 1)
  OBVIOUS
<1>2. /\ e \in i..(n + 1)
      /\ e <= n => L[e] \in {Blank, Bar}
      /\ \A k \in i..(e - 1) : L[k] \notin {Blank, Bar}
  <2> DEFINE Q == {Blank, Bar}
  <2> HIDE DEF Q
  <2>1. /\ Until(L, i, Q) \in i..(n + 1)
        /\ Until(L, i, Q) <= n => L[Until(L, i, Q)] \in Q
        /\ \A k \in i..(Until(L, i, Q) - 1) : L[k] \notin Q
    BY <1>1, UntilFacts
  <2> QED BY <2>1 DEF Q
<1>3. Modes(L)[i] = "word"
  BY ModeSteps
<1> HIDE DEF e
<1>3a. e # i
  BY <1>1, <1>2
<1>3b. e \in (i + 1)..(n + 1)
  BY <1>1, <1>2, <1>3a
<1>4. ASSUME NEW k \in (i + 1)..(e - 1), Modes(L)[k - 1] = Modes(L)[i]
      PROVE  Modes(L)[k] = Modes(L)[i]
  <2>1. k \in 1..n /\ L[k] \notin {Blank, Bar}
    BY <1>1, <1>2
  <2> QED BY <1>3, <1>4, <2>1, ModeSteps
<1>5. ASSUME e <= n, Modes(L)[e - 1] = Modes(L)[i]
      PROVE  Modes(L)[e] # Modes(L)[i]
  <2>1. e \in 1..n /\ L[e] \in {Blank, Bar}
    BY <1>1, <1>2, <1>5
  <2> QED BY <1>3, <1>5, <2>1, ModeSteps
<1>6. /\ \A k \in i..(e - 1) : Modes(L)[k] = Modes(L)[i]
      /\ EndOf(L, i) = e - 1
  BY <1>3b, <1>4, <1>5, Stretch
<1>8. TextOf(L, i) = SubSeq(L, i, e - 1)
  BY <1>3, <1>6 DEF TextOf
<1> QED BY <1>2, <1>3, <1>3b, <1>6, <1>8 DEF e

-----------------------------------------------------------------------------
(* The tokens are what the automaton found, in the order of the line.      *)
(* The positions of tokens, and the token at each. *)
TokensAt(L) == Starts(L) \cup Pipes(L)
TokOf(L, i) == IF i \in Pipes(L) THEN Pipe ELSE Word(TextOf(L, i))

(* A position at which the tokenizer looks for the next token. *)
Scanning(L, i) ==
  /\ i \in 1..(Len(L) + 2)
  /\ i <= Len(L) => \/ Modes(L)[i - 1] = "gap"
                    \/ Modes(L)[i - 1] = "word" /\ L[i] \in {Blank, Bar}

(* Where it goes from there, and what it takes. *)
NextAt(L, i) ==
  IF L[i] \in {Blank, Bar} THEN i + 1
  ELSE IF L[i] = Quote THEN Until(L, i + 1, {Quote}) + 1 ELSE Until(L, i, {Blank, Bar})

TextAt(L, i) ==
  IF L[i] = Quote THEN SubSeq(L, i + 1, Until(L, i + 1, {Quote}) - 1)
  ELSE SubSeq(L, i, Until(L, i, {Blank, Bar}) - 1)

HeadAt(L, i) ==
  IF L[i] = Blank THEN << >> ELSE IF L[i] = Bar THEN <<Pipe>> ELSE <<Word(TextAt(L, i))>>

(* The next position is further on. *)
LEMMA NextFacts ==
  ASSUME NEW S, NEW L \in Seq(S), NEW i \in 1..Len(L)
  PROVE  NextAt(L, i) \in (i + 1)..(Len(L) + 2)
<1> DEFINE n == Len(L)
<1>1. n \in Nat /\ i \in Nat /\ i \in 1..n /\ i \in 1..(n + 1) /\ i + 1 \in 1..(n + 1)
  OBVIOUS
<1>2. CASE L[i] \in {Blank, Bar}
  BY <1>1, <1>2 DEF NextAt
<1>3. CASE L[i] = Quote
  <2>1. NextAt(L, i) = Until(L, i + 1, {Quote}) + 1
    BY <1>3, CharsDiffer DEF NextAt
  <2>2. Until(L, i + 1, {Quote}) \in (i + 1)..(n + 1)
    BY <1>1, UntilFacts
  <2> HIDE DEF n
  <2> QED BY <1>1, <2>1, <2>2 DEF n
<1>4. CASE L[i] \notin {Blank, Bar} /\ L[i] # Quote
  <2> DEFINE e == Until(L, i, {Blank, Bar})
  <2>1. NextAt(L, i) = e
    BY <1>4 DEF NextAt
  <2>2. e \in i..(n + 1) /\ (e <= n => L[e] \in {Blank, Bar})
    BY <1>1, UntilFacts
  <2> HIDE DEF e, n
  <2>3. e # i
    BY <1>1, <1>4, <2>2
  <2> QED BY <1>1, <2>1, <2>2, <2>3 DEF n
<1> QED BY <1>2, <1>3, <1>4

(* One step of the tokenizer, in the words of the automaton. *)
LEMMA ScanStep ==
  ASSUME NEW S, NEW L \in Seq(S), NEW i \in 1..Len(L), Scanning(L, i)
  PROVE  /\ Scanning(L, NextAt(L, i))
         /\ L[i] = Blank => i \notin TokensAt(L)
         /\ L[i] # Blank => i \in TokensAt(L) /\ HeadAt(L, i) = <<TokOf(L, i)>>
         /\ \A x \in (i + 1)..(NextAt(L, i) - 1) : x \notin TokensAt(L)
<1> DEFINE n == Len(L)
           M(k) == Modes(L)[k]
           e == NextAt(L, i)
<1>1. n \in Nat /\ i \in Nat /\ i \in 1..n /\ e \in (i + 1)..(n + 2)
  BY NextFacts
<1>2. M(i - 1) = "gap" \/ (M(i - 1) = "word" /\ L[i] \in {Blank, Bar})
  BY DEF Scanning
<1>3. CASE L[i] \in {Blank, Bar}
  <2>1. M(i) = "gap" /\ M(i - 1) # "quote"
    BY <1>2, <1>3, ModeSteps
  <2>2. e = i + 1
    BY <1>3 DEF NextAt
  <2>3. Scanning(L, e)
    <3>1. e - 1 = i /\ e \in 1..(n + 2)
      BY <1>1, <2>2
    <3> QED BY <2>1, <3>1 DEF Scanning
  <2>4. L[i] = Blank => i \notin TokensAt(L)
    BY <2>1, CharsDiffer DEF TokensAt, Starts, Pipes
  <2>5. L[i] # Blank => i \in TokensAt(L) /\ HeadAt(L, i) = <<TokOf(L, i)>>
    <3> SUFFICES ASSUME L[i] = Bar
                 PROVE  i \in TokensAt(L) /\ HeadAt(L, i) = <<TokOf(L, i)>>
      BY <1>3
    <3>1. i \in Pipes(L)
      BY <2>1 DEF Pipes
    <3> QED BY <3>1, CharsDiffer DEF TokensAt, HeadAt, TokOf
  <2>6. (i + 1)..(e - 1) = {}
    BY <1>1, <2>2
  <2> QED BY <2>3, <2>4, <2>5, <2>6
<1>4. ASSUME L[i] \notin {Blank, Bar}, NEW m \in {"quote", "word"}, NEW b \in (i + 1)..(n + 1),
             \A k \in i..(b - 1) : M(k) = m, e = b \/ (b <= n => M(b) = "gap" /\ m = "quote"),
             e \in {b, b + 1}, e = b => m = "word"
      PROVE  i \in Starts(L) /\ i \notin Pipes(L) /\ \A x \in (i + 1)..(e - 1) : x \notin TokensAt(L)
  <2>1. M(i - 1) = "gap" /\ i \in i..(b - 1) /\ M(i) = m
    BY <1>1, <1>2, <1>4
  <2>2. i \in Starts(L)
    BY <1>4, <2>1 DEF Starts
  <2>3. i \notin Pipes(L)
    BY <1>4 DEF Pipes
  <2>4. ASSUME NEW x \in (i + 1)..(b - 1), x \in 1..n PROVE x \notin TokensAt(L)
    <3>1. x - 1 \in i..(b - 1) /\ x \in i..(b - 1)
      BY <1>1
    <3>2. M(x - 1) = m /\ M(x) = m
      BY <1>4, <3>1
    <3>3. x \notin Starts(L)
      BY <3>2 DEF Starts
    <3>4. m = "word" => L[x] # Bar
      BY <2>4, <3>2, ModeSteps
    <3>5. x \notin Pipes(L)
      BY <3>2, <3>4 DEF Pipes
    <3> QED BY <3>3, <3>5 DEF TokensAt
  <2>5. ASSUME e = b + 1, b \in 1..n PROVE b \notin TokensAt(L)
    <3>1. b - 1 \in i..(b - 1) /\ e # b /\ b <= n
      BY <1>1, <2>5
    <3>2. M(b - 1) = "quote" /\ M(b) = "gap"
      BY <1>4, <3>1
    <3> QED BY <3>2 DEF TokensAt, Starts, Pipes
  <2>6. ASSUME NEW x \in (i + 1)..(e - 1) PROVE x \notin TokensAt(L)
    <3>1. CASE x \in 1..n
      <4>1. x \in (i + 1)..(b - 1) \/ (x = b /\ e = b + 1)
        BY <1>1, <1>4
      <4> QED BY <2>4, <2>5, <3>1, <4>1
    <3>2. CASE x \notin 1..n
      BY <3>2 DEF TokensAt, Starts, Pipes
    <3> QED BY <3>1, <3>2
  <2> QED BY <2>2, <2>3, <2>6
<1>5. CASE L[i] = Quote
  <2> DEFINE b == Until(L, i + 1, {Quote})
  <2>1. M(i - 1) = "gap" /\ L[i] \notin {Blank, Bar}
    BY <1>2, <1>5, CharsDiffer
  <2>2. /\ b \in (i + 1)..(n + 1)
        /\ \A k \in i..(b - 1) : M(k) = "quote"
        /\ b <= n => M(b) = "gap"
        /\ TextOf(L, i) = SubSeq(L, i + 1, b - 1)
    BY <1>5, <2>1, QuoteFacts
  <2>3. e = b + 1
    BY <1>5, <2>1 DEF NextAt
  <2>4. TextAt(L, i) = SubSeq(L, i + 1, b - 1)
    BY <1>5 DEF TextAt
  <2> HIDE DEF b, e
  <2>5. e # b /\ e - 1 = b /\ e \in 1..(n + 2)
    BY <1>1, <2>2, <2>3
  <2>6. i \in Starts(L) /\ i \notin Pipes(L) /\ \A x \in (i + 1)..(e - 1) : x \notin TokensAt(L)
    BY <1>4, <2>1, <2>2, <2>3, <2>5
  <2>7. Scanning(L, e)
    <3>1. e <= n => b <= n
      BY <1>1, <2>2, <2>3
    <3> QED BY <2>2, <2>5, <3>1 DEF Scanning
  <2>8. HeadAt(L, i) = <<TokOf(L, i)>>
    BY <2>1, <2>2, <2>4, <2>6 DEF HeadAt, TokOf
  <2> QED BY <2>1, <2>6, <2>7, <2>8 DEF TokensAt, e
<1>6. CASE L[i] \notin {Blank, Bar, Quote}
  <2> DEFINE b == Until(L, i, {Blank, Bar})
  <2>1. M(i - 1) = "gap" /\ L[i] \notin {Blank, Bar} /\ L[i] # Quote
    BY <1>2, <1>6
  <2>2. /\ b \in (i + 1)..(n + 1)
        /\ \A k \in i..(b - 1) : M(k) = "word"
        /\ b <= n => L[b] \in {Blank, Bar}
        /\ TextOf(L, i) = SubSeq(L, i, b - 1)
    BY <1>6, <2>1, WordFacts
  <2>3. e = b
    BY <2>1 DEF NextAt
  <2>4. TextAt(L, i) = SubSeq(L, i, b - 1)
    BY <2>1 DEF TextAt
  <2> HIDE DEF b, e
  <2>5. e \in 1..(n + 2) /\ e - 1 \in i..(b - 1)
    BY <1>1, <2>2, <2>3
  <2>6. i \in Starts(L) /\ i \notin Pipes(L) /\ \A x \in (i + 1)..(e - 1) : x \notin TokensAt(L)
    BY <1>4, <2>1, <2>2, <2>3
  <2>7. Scanning(L, e)
    BY <2>2, <2>3, <2>5 DEF Scanning
  <2>8. HeadAt(L, i) = <<TokOf(L, i)>>
    BY <2>1, <2>2, <2>4, <2>6 DEF HeadAt, TokOf
  <2> QED BY <2>1, <2>6, <2>7, <2>8 DEF TokensAt, e
<1> QED BY <1>3, <1>5, <1>6

(* Sequences built from the end of the line. *)
Downward(n, N) == \A i \in 1..n : N[i] \in (i + 1)..(n + 2)
Descents(n, W, N, H) ==
  {f \in [1..(n + 2) -> Seq(W)] :
     f[n + 1] = << >> /\ f[n + 2] = << >> /\ \A i \in 1..n : f[i] = H[i] \o f[N[i]]}

(* There is always one. *)
LEMMA DescentExists ==
  ASSUME NEW n \in Nat, NEW W, NEW N \in [1..n -> Nat], NEW H \in [1..n -> Seq(W)],
         Downward(n, N)
  PROVE  Descents(n, W, N, H) # {}
<1>0. \A i \in 1..n : N[i] \in (i + 1)..(n + 2)
  BY DEF Downward
<1> DEFINE D(a, f) == /\ f \in [a..(n + 2) -> Seq(W)]
                      /\ f[n + 1] = << >> /\ f[n + 2] = << >>
                      /\ \A i \in a..n : f[i] = H[i] \o f[N[i]]
           T == {d \in 0..n : \E f : D(n + 1 - d, f)}
<1>1. 0 \in T
  <2> DEFINE f == [i \in (n + 1)..(n + 2) |-> << >>]
  <2>1. n + 1 - 0 = n + 1 /\ n + 1 \in (n + 1)..(n + 2) /\ n + 2 \in (n + 1)..(n + 2)
        /\ (n + 1)..n = {} /\ << >> \in Seq(W)
    OBVIOUS
  <2>2. D(n + 1, f)
    BY <2>1
  <2> HIDE DEF f, D
  <2>3. D(n + 1 - 0, f)
    BY <2>1, <2>2
  <2> QED BY <2>3
<1>2. ASSUME NEW d \in 1..n, d - 1 \in T PROVE d \in T
  <2> DEFINE a == n + 1 - d
  <2>1. a \in 1..n /\ n + 1 - (d - 1) = a + 1 /\ d \in 0..n
    OBVIOUS
  <2>2. PICK f : D(n + 1 - (d - 1), f)
    BY <1>2
  <2> HIDE DEF a
  <2>3. D(a + 1, f)
    <3> HIDE DEF D
    <3> QED BY <2>1, <2>2
  <2> DEFINE g == [i \in a..(n + 2) |-> IF i = a THEN H[a] \o f[N[a]] ELSE f[i]]
  <2>4. /\ \A i \in a..(n + 2) : i # a => i \in (a + 1)..(n + 2) /\ g[i] = f[i]
        /\ a \in a..(n + 2) /\ n + 1 \in a..(n + 2) /\ n + 2 \in a..(n + 2)
        /\ n + 1 # a /\ n + 2 # a
    BY <2>1
  <2>5. N[a] \in (a + 1)..(n + 2) /\ H[a] \in Seq(W)
    BY <1>0, <2>1
  <2>6. H[a] \o f[N[a]] \in Seq(W)
    <3>1. f[N[a]] \in Seq(W)
      BY <2>3, <2>5
    <3> QED BY <2>5, <3>1
  <2>7. g \in [a..(n + 2) -> Seq(W)]
    BY <2>3, <2>4, <2>6
  <2>8. ASSUME NEW i \in a..n PROVE g[i] = H[i] \o g[N[i]]
    <3>1. i \in 1..n /\ i \in a..(n + 2) /\ N[i] \in (i + 1)..(n + 2)
      BY <1>0, <2>1
    <3>2. N[i] \in a..(n + 2) /\ N[i] # a
      BY <2>1, <3>1
    <3>3. g[N[i]] = f[N[i]]
      BY <2>4, <3>2
    <3>4. CASE i = a
      BY <2>4, <3>1, <3>3, <3>4
    <3>5. CASE i # a
      <4>1. i \in (a + 1)..n
        BY <2>1, <3>5
      <4> QED BY <2>3, <2>4, <3>1, <3>3, <3>5, <4>1
    <3> QED BY <3>4, <3>5
  <2>9. D(a, g)
    BY <2>3, <2>4, <2>7, <2>8
  <2> HIDE DEF D
  <2> QED BY <2>1, <2>9 DEF a
<1>3. 0..n \subseteq T
  <2> HIDE DEF T
  <2> QED BY <1>1, <1>2, StepByStep, Zenon
<1>4. PICK f : D(n + 1 - n, f)
  <2>1. n \in 0..n
    OBVIOUS
  <2>2. n \in T
    <3> HIDE DEF T
    <3> QED BY <1>3, <2>1
  <2> HIDE DEF D
  <2> QED BY <2>2
<1>5. n + 1 - n = 1
  OBVIOUS
<1>6. D(1, f)
  <2> HIDE DEF D
  <2> QED BY <1>4, <1>5
<1> QED BY <1>6 DEF Descents

(* The positions of a sequence of tokens, after a. *)
Trace(L, a, q, z) ==
  /\ z \in [0..Len(q) -> 0..(Len(L) + 1)] /\ z[0] = a
  /\ \A j \in 1..Len(q) :
       /\ z[j - 1] < z[j] /\ z[j] \in TokensAt(L) /\ q[j] = TokOf(L, z[j])
       /\ \A x \in (z[j - 1] + 1)..(z[j] - 1) : x \notin TokensAt(L)
  /\ \A x \in (z[Len(q)] + 1)..Len(L) : x \notin TokensAt(L)

(* A trace that begins earlier, where there is no token in between. *)
LEMMA TraceEarlier ==
  ASSUME NEW S, NEW L \in Seq(S), NEW a \in 0..(Len(L) + 1), NEW b \in 0..a,
         NEW W, NEW q \in Seq(W), NEW z, Trace(L, a, q, z),
         \A x \in (b + 1)..a : x \notin TokensAt(L)
  PROVE  \E y : Trace(L, b, q, y)
<1> DEFINE n == Len(L)
           m == Len(q)
           y == [j \in 0..m |-> IF j = 0 THEN b ELSE z[j]]
           K == TokensAt(L)
<1>1. n \in Nat /\ m \in Nat /\ a \in Nat /\ b \in Nat /\ b <= a /\ a <= n + 1
  OBVIOUS
<1>2. /\ z \in [0..m -> 0..(n + 1)] /\ z[0] = a
      /\ \A j \in 1..m :
           /\ z[j - 1] < z[j] /\ z[j] \in K /\ q[j] = TokOf(L, z[j])
           /\ \A x \in (z[j - 1] + 1)..(z[j] - 1) : x \notin K
      /\ \A x \in (z[m] + 1)..n : x \notin K
  BY DEF Trace
<1>3. \A x \in (b + 1)..a : x \notin K
  OBVIOUS
<1> HIDE DEF n, m, K
<1>4. y \in [0..m -> 0..(n + 1)] /\ y[0] = b /\ \A j \in 1..m : y[j] = z[j]
  BY <1>1, <1>2
<1> HIDE DEF y
<1>5. ASSUME NEW j \in 1..m
      PROVE  /\ y[j - 1] < y[j] /\ y[j] \in K /\ q[j] = TokOf(L, y[j])
             /\ \A x \in (y[j - 1] + 1)..(y[j] - 1) : x \notin K
  <2>1. CASE j = 1
    <3>1. /\ z[0] < z[1] /\ z[1] \in K /\ q[1] = TokOf(L, z[1]) /\ y[1] = z[1] /\ y[j - 1] = b
          /\ \A x \in (z[0] + 1)..(z[1] - 1) : x \notin K
      BY <1>2, <1>4, <2>1
    <3>2. z[1] \in Nat
      BY <1>1, <1>2, <2>1
    <3>3. b < z[1]
      BY <1>1, <1>2, <3>1, <3>2
    <3>4. ASSUME NEW x \in (b + 1)..(z[1] - 1) PROVE x \notin K
      <4>1. x \in (b + 1)..a \/ x \in (a + 1)..(z[1] - 1)
        BY <1>1, <3>2
      <4> QED BY <1>2, <1>3, <3>1, <4>1
    <3> QED BY <2>1, <3>1, <3>3, <3>4
  <2>2. CASE j # 1
    <3>1. j - 1 \in 1..m
      BY <1>1, <2>2
    <3> QED BY <1>2, <1>4, <3>1
  <2> QED BY <2>1, <2>2
<1>6. ASSUME NEW x \in (y[m] + 1)..n PROVE x \notin K
  <2>1. CASE m = 0
    <3>1. x \in (b + 1)..a \/ x \in (z[m] + 1)..n
      BY <1>1, <1>2, <1>4, <2>1
    <3> QED BY <1>2, <1>3, <3>1
  <2>2. CASE m # 0
    <3>1. y[m] = z[m]
      BY <1>1, <1>4, <2>2
    <3> QED BY <1>2, <3>1
  <2> QED BY <2>1, <2>2
<1>7. Trace(L, b, q, y)
  BY <1>4, <1>5, <1>6 DEF Trace, K, n, m
<1> QED BY <1>7

(* A trace with one more token before it. *)
LEMMA TraceLonger ==
  ASSUME NEW S, NEW L \in Seq(S), NEW i \in TokensAt(L),
         NEW W, NEW q \in Seq(W), NEW z, Trace(L, i, q, z), TokOf(L, i) \in W
  PROVE  \E y : Trace(L, i - 1, <<TokOf(L, i)>> \o q, y)
<1> DEFINE n == Len(L)
           m == Len(q)
           y == [j \in 0..(m + 1) |-> IF j = 0 THEN i - 1 ELSE z[j - 1]]
           K == TokensAt(L)
           r == <<TokOf(L, i)>> \o q
<1>1. n \in Nat /\ m \in Nat /\ i \in 1..n
  BY DEF TokensAt, Starts, Pipes
<1>2. /\ z \in [0..m -> 0..(n + 1)] /\ z[0] = i
      /\ \A j \in 1..m :
           /\ z[j - 1] < z[j] /\ z[j] \in K /\ q[j] = TokOf(L, z[j])
           /\ \A x \in (z[j - 1] + 1)..(z[j] - 1) : x \notin K
      /\ \A x \in (z[m] + 1)..n : x \notin K
  BY DEF Trace
<1>3. Len(r) = m + 1 /\ r[1] = TokOf(L, i) /\ \A j \in 1..m : r[j + 1] = q[j]
  OBVIOUS
<1>4. i \in K
  OBVIOUS
<1> HIDE DEF n, m, K, r
<1>5. /\ y \in [0..(m + 1) -> 0..(n + 1)] /\ y[0] = i - 1 /\ \A j \in 1..(m + 1) : y[j] = z[j - 1]
  <2>1. \A j \in 1..(m + 1) : j - 1 \in 0..m
    BY <1>1
  <2>2. i - 1 \in 0..(n + 1)
    BY <1>1
  <2>3. \A j \in 0..(m + 1) : j # 0 => j \in 1..(m + 1)
    BY <1>1
  <2> QED BY <1>1, <1>2, <2>1, <2>2, <2>3
<1> HIDE DEF y
<1>6. ASSUME NEW j \in 1..(m + 1)
      PROVE  /\ y[j - 1] < y[j] /\ y[j] \in K /\ r[j] = TokOf(L, y[j])
             /\ \A x \in (y[j - 1] + 1)..(y[j] - 1) : x \notin K
  <2>1. CASE j = 1
    <3>1. y[j - 1] = i - 1 /\ y[j] = i /\ r[j] = TokOf(L, i)
      BY <1>1, <1>2, <1>3, <1>5, <2>1
    <3>2. (i - 1 + 1)..(i - 1) = {} /\ i - 1 < i
      BY <1>1
    <3> QED BY <1>4, <3>1, <3>2
  <2>2. CASE j # 1
    <3>1. j - 1 \in 1..m /\ j - 1 \in 1..(m + 1) /\ (j - 1) + 1 = j
      BY <1>1, <2>2
    <3>2. y[j - 1] = z[(j - 1) - 1] /\ y[j] = z[j - 1] /\ r[j] = q[j - 1]
      BY <1>3, <1>5, <3>1
    <3> QED BY <1>2, <3>1, <3>2
  <2> QED BY <2>1, <2>2
<1>7. y[m + 1] = z[m]
  <2>1. m + 1 \in 1..(m + 1) /\ (m + 1) - 1 = m
    BY <1>1
  <2> QED BY <1>5, <2>1
<1>8. Trace(L, i - 1, r, y)
  BY <1>2, <1>3, <1>5, <1>6, <1>7 DEF Trace, K, n
<1> QED BY <1>8 DEF r

(* The tokens of a line. *)
TokenSet(S) == [pipe : BOOLEAN, text : Seq(S)]

(* What the tokenizer puts in front of the rest, by type. *)
LEMMA TokenTypes ==
  ASSUME NEW S, NEW L \in Seq(S), NEW i \in 1..Len(L)
  PROVE  /\ HeadAt(L, i) \in Seq(TokenSet(S))
         /\ L[i] # Blank => \E t \in TokenSet(S) : HeadAt(L, i) = <<t>>
         /\ TextAt(L, i) \in Seq(S)
<1> DEFINE n == Len(L)
           W == TokenSet(S)
<1>1. n \in Nat /\ i \in 1..n /\ i \in 1..(n + 1) /\ i + 1 \in 1..(n + 1)
  OBVIOUS
<1>2. \A a \in 1..(n + 1), b \in 0..n : SubSeq(L, a, b) \in Seq(S)
  OBVIOUS
<1>3. TextAt(L, i) \in Seq(S)
  <2>1. CASE L[i] = Quote
    <3> DEFINE e == Until(L, i + 1, {Quote})
    <3>1. e \in (i + 1)..(n + 1)
      BY <1>1, UntilFacts
    <3>2. TextAt(L, i) = SubSeq(L, i + 1, e - 1)
      BY <2>1 DEF TextAt
    <3> HIDE DEF e, n
    <3>3. e - 1 \in 0..n
      BY <1>1, <3>1
    <3> QED BY <1>1, <1>2, <3>2, <3>3
  <2>2. CASE L[i] # Quote
    <3> DEFINE e == Until(L, i, {Blank, Bar})
    <3>1. e \in i..(n + 1)
      BY <1>1, UntilFacts
    <3>2. TextAt(L, i) = SubSeq(L, i, e - 1)
      BY <2>2 DEF TextAt
    <3> HIDE DEF e, n
    <3>3. e - 1 \in 0..n
      BY <1>1, <3>1
    <3> QED BY <1>1, <1>2, <3>2, <3>3
  <2> QED BY <2>1, <2>2
<1>4. Pipe \in W /\ Word(TextAt(L, i)) \in W
  <2>1. << >> \in Seq(S)
    OBVIOUS
  <2> QED BY <1>3, <2>1 DEF Pipe, Word, TokenSet
<1> HIDE DEF W
<1>5. << >> \in Seq(W) /\ <<Pipe>> \in Seq(W) /\ <<Word(TextAt(L, i))>> \in Seq(W)
  BY <1>4
<1> QED BY <1>3, <1>4, <1>5 DEF HeadAt, W

(* tokenize finds the tokens of the automaton, all of them and in order,   *)
(* and keeps the first MaxTokens.                                          *)
LEMMA TokenizeFacts ==
  ASSUME NEW S, NEW L \in Seq(S)
  PROVE  \E q \in Seq(TokenSet(S)) : \E z : Tokenize(L) = Capped(q, MaxTokens) /\ Trace(L, 0, q, z)
<1> DEFINE n == Len(L)
           W == TokenSet(S)
           X(g, i) ==
             CASE L[i] = " " -> g[i + 1]
               [] L[i] = "|" -> <<Pipe>> \o g[i + 1]
               [] L[i] = "\"" -> LET e == Until(L, i + 1, {"\""})
                                 IN  <<Word(SubSeq(L, i + 1, e - 1))>> \o g[e + 1]
               [] OTHER -> LET e == Until(L, i, {" ", "|"})
                           IN  <<Word(SubSeq(L, i, e - 1))>> \o g[e]
           Y(g, i) ==
             CASE L[i] = Blank -> g[i + 1]
               [] L[i] = Bar -> <<Pipe>> \o g[i + 1]
               [] L[i] = Quote -> <<Word(SubSeq(L, i + 1, Until(L, i + 1, {Quote}) - 1))>>
                                    \o g[Until(L, i + 1, {Quote}) + 1]
               [] OTHER -> <<Word(SubSeq(L, i, Until(L, i, {Blank, Bar}) - 1))>>
                             \o g[Until(L, i, {Blank, Bar})]
           E(g) == g = [i \in 1..(n + 2) |-> IF i > n THEN << >> ELSE X(g, i)]
           w == CHOOSE g : E(g)
<1>1. n \in Nat
  OBVIOUS
<1>2. Tokenize(L) = Capped(w[1], MaxTokens)
  BY Zenon DEF Tokenize
<1>3. \A g, i : X(g, i) = Y(g, i)
  BY Zenon DEF Blank, Bar, Quote
<1> HIDE DEF X, W
<1>4. ASSUME NEW g, NEW i \in 1..n, g[NextAt(L, i)] \in Seq(W)
      PROVE  X(g, i) = HeadAt(L, i) \o g[NextAt(L, i)]
  <2>1. X(g, i) = Y(g, i)
    BY <1>3
  <2>2. CASE L[i] = Blank
    <3>1. Y(g, i) = g[i + 1] /\ NextAt(L, i) = i + 1 /\ HeadAt(L, i) = << >>
      BY <2>2, CharsDiffer DEF NextAt, HeadAt
    <3>2. \A t \in Seq(W) : << >> \o t = t
      OBVIOUS
    <3> HIDE DEF Y
    <3> QED BY <1>4, <2>1, <3>1, <3>2
  <2>3. CASE L[i] = Bar
    <3>1. Y(g, i) = <<Pipe>> \o g[i + 1] /\ NextAt(L, i) = i + 1 /\ HeadAt(L, i) = <<Pipe>>
      BY <2>3, CharsDiffer DEF NextAt, HeadAt
    <3> HIDE DEF Y
    <3> QED BY <2>1, <3>1
  <2>4. CASE L[i] = Quote
    <3> DEFINE e == Until(L, i + 1, {Quote})
    <3>0. L[i] # Blank /\ L[i] # Bar
      BY <2>4, CharsDiffer
    <3>1. /\ Y(g, i) = <<Word(SubSeq(L, i + 1, e - 1))>> \o g[e + 1]
          /\ NextAt(L, i) = e + 1 /\ HeadAt(L, i) = <<Word(SubSeq(L, i + 1, e - 1))>>
      BY <2>4, <3>0 DEF NextAt, HeadAt, TextAt
    <3> HIDE DEF Y, e
    <3> QED BY <2>1, <3>1
  <2>5. CASE L[i] \notin {Blank, Bar, Quote}
    <3> DEFINE e == Until(L, i, {Blank, Bar})
    <3>1. /\ Y(g, i) = <<Word(SubSeq(L, i, e - 1))>> \o g[e]
          /\ NextAt(L, i) = e /\ HeadAt(L, i) = <<Word(SubSeq(L, i, e - 1))>>
      BY <2>5 DEF NextAt, HeadAt, TextAt
    <3> HIDE DEF Y, e
    <3> QED BY <2>1, <3>1
  <2> QED BY <2>2, <2>3, <2>4, <2>5
<1> HIDE DEF n
<1>n. n = Len(L)
  BY DEF n
<1>5. PICK f \in [1..(n + 2) -> Seq(W)] :
            f[n + 1] = << >> /\ f[n + 2] = << >> /\ \A i \in 1..n : f[i] = HeadAt(L, i) \o f[NextAt(L, i)]
  <2> DEFINE N == [i \in 1..n |-> NextAt(L, i)]
             H == [i \in 1..n |-> HeadAt(L, i)]
  <2>1. \A i \in 1..n : NextAt(L, i) \in (i + 1)..(n + 2)
    BY <1>n, NextFacts
  <2>2. N \in [1..n -> Nat]
    BY <2>1
  <2>3. \A i \in 1..n : N[i] \in (i + 1)..(n + 2)
    BY <2>1
  <2>4. H \in [1..n -> Seq(W)]
    BY <1>n, TokenTypes DEF W
  <2>5. \A i \in 1..n : N[i] = NextAt(L, i) /\ H[i] = HeadAt(L, i)
    OBVIOUS
  <2> HIDE DEF N, H
  <2>6. PICK f \in [1..(n + 2) -> Seq(W)] :
            f[n + 1] = << >> /\ f[n + 2] = << >> /\ \A i \in 1..n : f[i] = H[i] \o f[N[i]]
    <3>1. Downward(n, N)
      BY <2>3 DEF Downward
    <3>2. Descents(n, W, N, H) # {}
      <4> HIDE DEF w, E, Y
      <4> QED BY <1>1, <2>2, <2>4, <3>1, DescentExists
    <3> QED BY <3>2 DEF Descents
  <2>7. \A i \in 1..n : f[i] = HeadAt(L, i) \o f[NextAt(L, i)]
    BY <2>5, <2>6
  <2> QED BY <2>6, <2>7
<1>6. \A i \in 1..n : NextAt(L, i) \in (i + 1)..(n + 2) /\ NextAt(L, i) \in 1..(n + 2)
  <2> SUFFICES ASSUME NEW i \in 1..n PROVE NextAt(L, i) \in (i + 1)..(n + 2) /\ NextAt(L, i) \in 1..(n + 2)
    OBVIOUS
  <2>1. NextAt(L, i) \in (i + 1)..(n + 2)
    BY <1>n, NextFacts
  <2> QED BY <1>1, <2>1
<1>7. E(f)
  <2>1. \A i \in 1..n : f[i] = X(f, i)
    BY <1>4, <1>5, <1>6
  <2>2. ASSUME NEW i \in 1..(n + 2) PROVE f[i] = IF i > n THEN << >> ELSE X(f, i)
    <3>1. i \in 1..n \/ i = n + 1 \/ i = n + 2
      BY <1>1
    <3> QED BY <1>1, <1>5, <2>1, <3>1
  <2> QED BY <1>5, <2>2
<1>8. E(w)
  BY <1>7, Zenon
<1> HIDE DEF w
<1>9. /\ w[n + 1] = << >> /\ w[n + 2] = << >>
      /\ \A i \in 1..n : w[i] = X(w, i)
  <2>1. w = [i \in 1..(n + 2) |-> IF i > n THEN << >> ELSE X(w, i)]
    BY <1>8, Zenon
  <2>2. /\ n + 1 \in 1..(n + 2) /\ n + 2 \in 1..(n + 2) /\ n + 1 > n /\ n + 2 > n
        /\ \A i \in 1..n : i \in 1..(n + 2) /\ ~(i > n)
    BY <1>1
  <2>3. w[n + 1] = << >> /\ w[n + 2] = << >>
    BY <2>1, <2>2, Zenon
  <2>4. ASSUME NEW i \in 1..n PROVE w[i] = X(w, i)
    BY <2>1, <2>2, Zenon
  <2> QED BY <2>3, <2>4
<1> DEFINE C(i) == w[i] \in Seq(W) /\ (Scanning(L, i) => \E z : Trace(L, i - 1, w[i], z))
           T == {d \in 0..(n + 1) : \A i \in (n + 2 - d)..(n + 2) : C(i)}
<1>10. ASSUME NEW i \in {n + 1, n + 2} PROVE C(i)
  <2> DEFINE q == << >>
             z == [j \in 0..0 |-> i - 1]
  <2>1. w[i] = q /\ q \in Seq(W) /\ Len(q) = 0
    BY <1>9
  <2>2. z \in [0..0 -> 0..(n + 1)] /\ z[0] = i - 1 /\ (z[0] + 1)..n = {}
    BY <1>1
  <2> HIDE DEF z, q
  <2>3. Trace(L, i - 1, q, z)
    <3>1. 1..0 = {}
      OBVIOUS
    <3> QED BY <1>n, <2>1, <2>2, <3>1 DEF Trace
  <2> QED BY <2>1, <2>3
<1>11. ASSUME NEW i \in 1..n, C(NextAt(L, i)) PROVE C(i)
  <2> DEFINE e == NextAt(L, i)
             K == TokensAt(L)
  <2>1. e \in (i + 1)..(n + 2) /\ i \in 1..Len(L)
    BY <1>6, <1>n
  <2>2. w[e] \in Seq(W) /\ w[i] = HeadAt(L, i) \o w[e] /\ HeadAt(L, i) \in Seq(W)
    BY <1>4, <1>9, <1>11, <2>1, TokenTypes DEF W
  <2>3. w[i] \in Seq(W)
    BY <2>2
  <2>4. ASSUME Scanning(L, i) PROVE \E z : Trace(L, i - 1, w[i], z)
    <3>1. /\ Scanning(L, e)
          /\ L[i] = Blank => i \notin K
          /\ L[i] # Blank => i \in K /\ HeadAt(L, i) = <<TokOf(L, i)>>
          /\ \A x \in (i + 1)..(e - 1) : x \notin K
      BY <2>1, <2>4, ScanStep
    <3>2. PICK z : Trace(L, e - 1, w[e], z)
      BY <1>11, <3>1
    <3> HIDE DEF e
    <3>3. e - 1 \in 0..(n + 1) /\ i \in 0..(e - 1) /\ i - 1 \in 0..(e - 1)
      BY <1>1, <2>1
    <3>4. CASE L[i] = Blank
      <4>1. \A x \in (i - 1 + 1)..(e - 1) : x \notin K
        <5> SUFFICES ASSUME NEW x \in (i - 1 + 1)..(e - 1) PROVE x \notin K
          OBVIOUS
        <5>1. x = i \/ x \in (i + 1)..(e - 1)
          BY <1>1, <2>1
        <5> QED BY <3>1, <3>4, <5>1
      <4>2. w[i] = w[e]
        <5>1. HeadAt(L, i) = << >>
          BY <3>4 DEF HeadAt
        <5>2. \A t \in Seq(W) : << >> \o t = t
          OBVIOUS
        <5> QED BY <2>2, <5>1, <5>2
      <4>3. \E y : Trace(L, i - 1, w[e], y)
        BY <1>n, <2>2, <3>2, <3>3, <4>1, TraceEarlier
      <4> QED BY <4>2, <4>3
    <3>5. CASE L[i] # Blank
      <4>1. \E y : Trace(L, i, w[e], y)
        BY <1>n, <2>2, <3>1, <3>2, <3>3, TraceEarlier
      <4>2. PICK y : Trace(L, i, w[e], y)
        BY <4>1
      <4>3. TokOf(L, i) \in W
        <5>1. PICK t \in W : HeadAt(L, i) = <<t>>
          BY <2>1, <3>5, TokenTypes DEF W
        <5>2. <<t>> = <<TokOf(L, i)>>
          BY <3>1, <3>5, <5>1
        <5> QED BY <5>1, <5>2
      <4>4. \E x : Trace(L, i - 1, <<TokOf(L, i)>> \o w[e], x)
        BY <2>2, <3>1, <3>5, <4>2, <4>3, TraceLonger
      <4> QED BY <2>2, <3>1, <3>5, <4>4
    <3> QED BY <3>4, <3>5
  <2> QED BY <2>3, <2>4
<1> HIDE DEF C
<1>12. 0 \in T
  <2>1. (n + 2 - 0)..(n + 2) = {n + 2} /\ 0 \in 0..(n + 1)
    BY <1>1
  <2> QED BY <1>10, <2>1
<1>13. ASSUME NEW d \in 1..(n + 1), d - 1 \in T PROVE d \in T
  <2> DEFINE i == n + 2 - d
  <2>1. /\ i \in 1..(n + 1) /\ d \in 0..(n + 1)
        /\ \A j \in i..(n + 2) : j = i \/ j \in (n + 2 - (d - 1))..(n + 2)
        /\ \A j \in (i + 1)..(n + 2) : j \in (n + 2 - (d - 1))..(n + 2)
    BY <1>1
  <2>2. \A j \in (n + 2 - (d - 1))..(n + 2) : C(j)
    BY <1>13
  <2> HIDE DEF i
  <2>3. C(i)
    <3>1. CASE i = n + 1
      BY <1>10, <3>1
    <3>2. CASE i \in 1..n
      <4>1. NextAt(L, i) \in (i + 1)..(n + 2)
        BY <1>6, <3>2
      <4> QED BY <1>11, <2>1, <2>2, <3>2, <4>1
    <3> QED BY <1>1, <2>1, <3>1, <3>2
  <2>4. \A j \in i..(n + 2) : C(j)
    BY <2>1, <2>2, <2>3
  <2> QED BY <2>1, <2>4 DEF i
<1>14. n + 1 \in T
  <2> HIDE DEF T
  <2>1. n + 1 \in Nat /\ n + 1 \in 0..(n + 1)
    BY <1>1
  <2>2. 0..(n + 1) \subseteq T
    BY <1>12, <1>13, <2>1, StepByStep, Zenon
  <2> QED BY <2>1, <2>2
<1>15. C(1)
  <2>1. 1 \in (n + 2 - (n + 1))..(n + 2)
    BY <1>1
  <2> QED BY <1>14, <2>1
<1>16. Scanning(L, 1) /\ 1 - 1 = 0
  <2>1. 1 - 1 = 0 /\ 1 \in 1..(Len(L) + 2)
    BY <1>1, <1>n
  <2>2. Modes(L)[0] = "gap"
    BY ModesFacts
  <2> QED BY <2>1, <2>2 DEF Scanning
<1>17. w[1] \in Seq(W) /\ \E z : Trace(L, 0, w[1], z)
  BY <1>15, <1>16 DEF C
<1> QED BY <1>2, <1>17 DEF W

-----------------------------------------------------------------------------
(* Counting positions.                                                     *)
Upto(A, i) == {x \in A : x <= i}
Rank(A, i) == Cardinality(Upto(A, i))

(* How many members of A are at most i. *)
LEMMA RankFacts ==
  ASSUME NEW n \in Nat, NEW A, A \subseteq 1..n
  PROVE  /\ IsFiniteSet(A) /\ Cardinality(A) \in Nat
         /\ Rank(A, n) = Cardinality(A) /\ Rank(A, 0) = 0
         /\ \A i \in 0..n : Rank(A, i) \in Nat /\ Rank(A, i) <= Cardinality(A)
         /\ \A i \in 0..n : \A j \in 0..n : i <= j => Rank(A, i) <= Rank(A, j)
         /\ \A i \in 0..n : Rank(A, i) = 0 <=> Upto(A, i) = {}
         /\ \A i \in A : Rank(A, i) = Rank(A, i - 1) + 1
<1>0. \A x \in A : x \in Int /\ 1 <= x /\ x <= n
  OBVIOUS
<1>1. IsFiniteSet(A)
  <2>1. IsFiniteSet(1..n)
    BY FS_Interval
  <2>2. A \in SUBSET (1..n)
    OBVIOUS
  <2> QED BY <2>1, <2>2, FS_Subset, Zenon
<1>2. \A i \in 0..n : IsFiniteSet(Upto(A, i)) /\ Upto(A, i) \in SUBSET A
  <2> SUFFICES ASSUME NEW i \in 0..n PROVE IsFiniteSet(Upto(A, i)) /\ Upto(A, i) \in SUBSET A
    OBVIOUS
  <2>1. Upto(A, i) \in SUBSET A
    BY DEF Upto
  <2> QED BY <1>1, <2>1, FS_Subset
<1>3. Cardinality(A) \in Nat
  BY <1>1, FS_CardinalityType
<1>4. Upto(A, n) = A /\ Upto(A, 0) = {}
  <2>1. \A x \in A : x <= n /\ ~(x <= 0)
    BY <1>0
  <2> QED BY <2>1, Zenon DEF Upto
<1>5. \A i \in 0..n : Rank(A, i) \in Nat /\ Rank(A, i) <= Cardinality(A)
  <2> SUFFICES ASSUME NEW i \in 0..n PROVE Rank(A, i) \in Nat /\ Rank(A, i) <= Cardinality(A)
    OBVIOUS
  <2>1. Cardinality(Upto(A, i)) \in Nat
    BY <1>2, FS_CardinalityType
  <2>2. Cardinality(Upto(A, i)) <= Cardinality(A)
    BY <1>1, <1>2, FS_Subset
  <2> QED BY <2>1, <2>2 DEF Rank
<1>6. ASSUME NEW i \in 0..n, NEW j \in 0..n, i <= j PROVE Rank(A, i) <= Rank(A, j)
  <2>1. \A x \in A : x <= i => x <= j
    BY <1>0, <1>6
  <2>2. Upto(A, i) \in SUBSET Upto(A, j)
    BY <2>1, Zenon DEF Upto
  <2> QED BY <1>2, <2>2, FS_Subset DEF Rank
<1>7. \A i \in 0..n : Rank(A, i) = 0 <=> Upto(A, i) = {}
  BY <1>2, FS_EmptySet DEF Rank
<1>8. ASSUME NEW i \in A PROVE Rank(A, i) = Rank(A, i - 1) + 1
  <2>1. i \in 1..n /\ i - 1 \in 0..n
    OBVIOUS
  <2>2. Upto(A, i) = Upto(A, i - 1) \cup {i} /\ i \notin Upto(A, i - 1)
    <3>1. \A x \in A : x <= i <=> x <= i - 1 \/ x = i
      BY <1>0, <2>1
    <3>2. ~(i <= i - 1)
      BY <2>1
    <3> QED BY <3>1, <3>2, Zenon DEF Upto
  <2>3. Cardinality(Upto(A, i - 1) \cup {i}) = Cardinality(Upto(A, i - 1)) + 1
    BY <1>2, <2>1, <2>2, FS_AddElement
  <2> QED BY <2>2, <2>3 DEF Rank
<1>9. Rank(A, n) = Cardinality(A) /\ Rank(A, 0) = 0
  BY <1>4, FS_EmptySet DEF Rank
<1> QED BY <1>1, <1>3, <1>5, <1>6, <1>7, <1>8, <1>9

(* Nothing changes where A has no member. *)
LEMMA RankStays ==
  ASSUME NEW n \in Nat, NEW A, A \subseteq 1..n, NEW a \in 0..n, NEW b \in 0..n, a <= b,
         \A x \in (a + 1)..b : x \notin A
  PROVE  Rank(A, a) = Rank(A, b)
<1>1. Upto(A, a) = Upto(A, b)
  <2>1. ASSUME NEW x \in A PROVE x <= a <=> x <= b
    <3>1. x \in 1..n
      OBVIOUS
    <3>2. x <= a \/ x \in (a + 1)..b \/ ~(x <= b)
      BY <3>1
    <3> QED BY <3>1, <3>2
  <2> QED BY <2>1 DEF Upto
<1> QED BY <1>1 DEF Rank

(* NthOf finds the member with a given rank. *)
LEMMA NthFacts ==
  ASSUME NEW n \in Nat, NEW A, A \subseteq 1..n, NEW p \in A
  PROVE  NthOf(A, Rank(A, p)) = p
<1> DEFINE N == Rank(A, p)
<1>1. NthOf(A, N) = CHOOSE i \in A : Rank(A, i) = N
  BY Zenon DEF NthOf, Rank, Upto
<1>2. p \in 1..n /\ p \in 0..n
  OBVIOUS
<1>3. ASSUME NEW i \in A, Rank(A, i) = N PROVE i = p
  <2>1. i \in 1..n /\ i - 1 \in 0..n /\ i \in 0..n /\ p - 1 \in 0..n
    BY <1>2
  <2>2. Rank(A, i) = Rank(A, i - 1) + 1 /\ Rank(A, p) = Rank(A, p - 1) + 1
    BY RankFacts
  <2>3. Rank(A, i - 1) \in Nat /\ Rank(A, p - 1) \in Nat /\ Rank(A, i) \in Nat /\ Rank(A, p) \in Nat
    BY <1>2, <2>1, RankFacts
  <2>4. CASE i < p
    <3>1. Rank(A, i) <= Rank(A, p - 1)
      <4>1. i <= p - 1
        BY <1>2, <2>1, <2>4
      <4> QED BY <2>1, <4>1, RankFacts
    <3>2. Rank(A, i) = Rank(A, p)
      BY <1>3
    <3> QED BY ONLY <2>2, <2>3, <3>1, <3>2
  <2>5. CASE p < i
    <3>1. Rank(A, p) <= Rank(A, i - 1)
      <4>1. p <= i - 1
        BY <1>2, <2>1, <2>5
      <4> QED BY <1>2, <2>1, <4>1, RankFacts
    <3>2. Rank(A, i) = Rank(A, p)
      BY <1>3
    <3> QED BY ONLY <2>2, <2>3, <3>1, <3>2
  <2> QED BY <1>2, <2>1, <2>4, <2>5
<1> HIDE DEF N
<1>4. Rank(A, p) = N
  BY DEF N
<1>5. (CHOOSE i \in A : Rank(A, i) = N) = p
  BY <1>3, <1>4
<1> QED BY <1>1, <1>5 DEF N

-----------------------------------------------------------------------------
(* The words of a command, by position.                                    *)

(* Words and pipes are at different positions. *)
LEMMA PlacesFacts ==
  ASSUME NEW S, NEW L \in Seq(S)
  PROVE  /\ Starts(L) \subseteq 1..Len(L) /\ Pipes(L) \subseteq 1..Len(L)
         /\ \A i \in Starts(L) : i \notin Pipes(L) /\ TextOf(L, i) \in Seq(S)
         /\ \A k : NamedIn(L, k) \subseteq WordsIn(L, k) /\ WordsIn(L, k) \subseteq Starts(L)
                   /\ NamedIn(L, k) \subseteq 1..Len(L)
<1>1. Starts(L) \subseteq 1..Len(L) /\ Pipes(L) \subseteq 1..Len(L)
  BY DEF Starts, Pipes
<1>2. ASSUME NEW i \in Starts(L) PROVE i \notin Pipes(L) /\ TextOf(L, i) \in Seq(S)
  <2>1. i \in 1..Len(L) /\ Modes(L)[i - 1] = "gap" /\ Modes(L)[i] # "gap"
    BY <1>2 DEF Starts
  <2>2. L[i] \notin {Blank, Bar}
    BY <2>1, ModeSteps
  <2>3. i \notin Pipes(L)
    BY <2>2 DEF Pipes
  <2>4. TextOf(L, i) = TextAt(L, i)
    <3>1. CASE L[i] = Quote
      BY <2>1, <3>1, QuoteFacts DEF TextAt
    <3>2. CASE L[i] # Quote
      BY <2>1, <2>2, <3>2, WordFacts DEF TextAt
    <3> QED BY <3>1, <3>2
  <2>5. TextAt(L, i) \in Seq(S)
    BY <2>1, TokenTypes
  <2> QED BY <2>3, <2>4, <2>5
<1>3. ASSUME NEW k
      PROVE  NamedIn(L, k) \subseteq WordsIn(L, k) /\ WordsIn(L, k) \subseteq Starts(L)
  BY DEF NamedIn, WordsIn
<1> QED BY <1>1, <1>2, <1>3

(* A word belongs to the command that the pipes before it open. *)
LEMMA WordsFacts ==
  ASSUME NEW S, NEW L \in Seq(S), NEW i \in Starts(L)
  PROVE  /\ i \in 1..Len(L) /\ i - 1 \in 0..Len(L) /\ i \in 0..Len(L)
         /\ Rank(Pipes(L), i) = Rank(Pipes(L), i - 1) /\ Rank(Pipes(L), i) \in Nat
         /\ \A k \in Nat : i \in WordsIn(L, k) <=> k = Rank(Pipes(L), i) + 1
<1> DEFINE n == Len(L)
           P == Pipes(L)
<1>1. n \in Nat /\ i \in 1..n /\ i - 1 \in 0..n /\ i \in 0..n /\ P \subseteq 1..n /\ i \notin P
  BY PlacesFacts
<1>2. {j \in P : j < i} = Upto(P, i - 1)
  <2>1. \A j \in P : j < i <=> j <= i - 1
    BY <1>1
  <2> HIDE DEF P
  <2> QED BY <2>1, Zenon DEF Upto
<1>3. \A k : i \in WordsIn(L, k) <=> Rank(P, i - 1) = k - 1
  BY <1>2 DEF WordsIn, Rank
<1> HIDE DEF P, n
<1>4. Rank(P, i - 1) \in Nat
  BY <1>1, RankFacts
<1>5. Rank(P, i - 1) = Rank(P, i)
  <2>1. \A x \in ((i - 1) + 1)..i : x \notin P
    <3>1. \A x \in ((i - 1) + 1)..i : x = i
      BY <1>1
    <3> QED BY <1>1, <3>1
  <2>2. i - 1 <= i
    BY <1>1
  <2> QED BY <1>1, <2>1, <2>2, RankStays
<1>6. \A k \in Nat : i \in WordsIn(L, k) <=> k = Rank(P, i) + 1
  BY <1>3, <1>4, <1>5
<1> QED BY <1>1, <1>4, <1>5, <1>6 DEF P, n

(* What a command keeps of its words. *)
LEMMA NamedFacts ==
  ASSUME NEW S, NEW L \in Seq(S), NEW k \in Nat, NEW p \in WordsIn(L, k)
  PROVE  p \in NamedIn(L, k) <=> Upto(NamedIn(L, k), p - 1) # {} \/ TextOf(L, p) # << >>
<1> DEFINE A == NamedIn(L, k)
           W == WordsIn(L, k)
           T(i) == TextOf(L, i)
<1>1. W \subseteq 1..Len(L) /\ p \in W
  BY PlacesFacts
<1>2. \A i : i \in A <=> i \in W /\ \E j \in W : j <= i /\ T(j) # << >>
  BY DEF NamedIn
<1> HIDE DEF A, W, T
<1>3. p \in 1..Len(L) /\ \A i \in W : i \in 1..Len(L)
  BY <1>1
<1>4. ASSUME p \in A PROVE Upto(A, p - 1) # {} \/ T(p) # << >>
  <2>1. PICK j \in W : j <= p /\ T(j) # << >>
    BY <1>2, <1>4
  <2>2. CASE j = p
    BY <2>1, <2>2
  <2>3. CASE j # p
    <3>1. j \in 1..Len(L) /\ j <= j /\ j <= p - 1
      BY <1>3, <2>1, <2>3
    <3>2. j \in A
      BY <1>2, <2>1, <3>1
    <3> QED BY <3>1, <3>2 DEF Upto
  <2> QED BY <2>2, <2>3
<1>5. ASSUME NEW i \in Upto(A, p - 1) PROVE p \in A
  <2>1. i \in A /\ i <= p - 1
    BY DEF Upto
  <2>2. PICK j \in W : j <= i /\ T(j) # << >>
    BY <1>2, <2>1
  <2>3. i \in 1..Len(L) /\ j \in 1..Len(L)
    BY <1>2, <1>3, <2>1
  <2>4. j <= p
    BY <1>3, <2>1, <2>2, <2>3
  <2> QED BY <1>1, <1>2, <2>2, <2>4
<1>6. ASSUME T(p) # << >> PROVE p \in A
  <2>1. p <= p
    BY <1>3
  <2> QED BY <1>1, <1>2, <1>6, <2>1
<1> QED BY <1>4, <1>5, <1>6 DEF A, T

(* The texts of a command's words, in order; the first is not empty. *)
LEMMA TextsFacts ==
  ASSUME NEW S, NEW L \in Seq(S), NEW k \in Nat
  PROVE  /\ IsFiniteSet(NamedIn(L, k)) /\ Cardinality(NamedIn(L, k)) \in Nat
         /\ TextsIn(L, k) \in Seq(Seq(S)) /\ Len(TextsIn(L, k)) = Cardinality(NamedIn(L, k))
         /\ \A p \in NamedIn(L, k) :
              /\ Rank(NamedIn(L, k), p) \in 1..Cardinality(NamedIn(L, k))
              /\ TextsIn(L, k)[Rank(NamedIn(L, k), p)] = TextOf(L, p)
         /\ NamedIn(L, k) # {} => TextsIn(L, k)[1] # << >> /\ Cardinality(NamedIn(L, k)) # 0
<1> DEFINE A == NamedIn(L, k)
           n == Len(L)
           m == Cardinality(A)
           X == TextsIn(L, k)
           T(i) == TextOf(L, i)
<1>1. n \in Nat /\ A \subseteq 1..n /\ \A i \in A : T(i) \in Seq(S)
  <2>1. A \subseteq Starts(L)
    BY PlacesFacts
  <2> QED BY <2>1, PlacesFacts
<1>2. X = [j \in 1..m |-> T(NthOf(A, j))]
  BY Zenon DEF TextsIn
<1>3. ASSUME NEW p \in A
      PROVE  p \in WordsIn(L, k) /\ (Upto(A, p - 1) # {} \/ T(p) # << >>)
  <2>1. p \in WordsIn(L, k) /\ p \in NamedIn(L, k)
    BY PlacesFacts
  <2> QED BY <2>1, NamedFacts
<1> HIDE DEF A, X, T, n
<1>4. IsFiniteSet(A) /\ m \in Nat
  BY <1>1, RankFacts
<1> HIDE DEF m
<1>m. m = Cardinality(A)
  BY DEF m
<1>5. ASSUME NEW p \in A
      PROVE  p \in 1..n /\ p - 1 \in 0..n /\ Rank(A, p) \in 1..m /\ NthOf(A, Rank(A, p)) = p
             /\ Rank(A, p) = Rank(A, p - 1) + 1
  <2>1. p \in 1..n /\ p - 1 \in 0..n /\ p \in 0..n
    BY <1>1
  <2>2. Rank(A, p) = Rank(A, p - 1) + 1
    BY <1>1, RankFacts
  <2>3. Rank(A, p) \in Nat /\ Rank(A, p) <= m /\ Rank(A, p - 1) \in Nat
    BY <1>1, <1>m, <2>1, RankFacts
  <2>4. NthOf(A, Rank(A, p)) = p
    BY <1>1, NthFacts
  <2>5. Rank(A, p) \in 1..m
    BY ONLY <1>4, <2>2, <2>3
  <2> QED BY <2>1, <2>2, <2>4, <2>5
<1>6. ASSUME NEW p \in A PROVE X[Rank(A, p)] = T(p)
  BY <1>2, <1>5
<1>7. ASSUME NEW j \in 1..m PROVE \E p \in A : Rank(A, p) = j
  <2> DEFINE B == {i \in 0..n : j <= Rank(A, i)}
  <2>0. n \in B /\ B \subseteq Nat /\ B # {}
    <3>0. Rank(A, n) = Cardinality(A)
      BY <1>1, RankFacts
    <3>1. n \in 0..n /\ Rank(A, n) = m
      BY <1>1, <1>m, <3>0
    <3> QED BY <1>1, <1>4, <3>1
  <2>1. PICK p \in B : \A i \in B : p <= i
    <3> HIDE DEF B
    <3> QED BY <2>0, LeastNatural, Zenon
  <2>2. p \in 0..n /\ j <= Rank(A, p) /\ Rank(A, 0) = 0 /\ Rank(A, p) \in Nat
    BY <1>1, <2>1, RankFacts
  <2>3. p \in 1..n /\ p - 1 \in 0..n /\ ~(p <= p - 1)
    BY <1>1, <2>2
  <2>4. ~(j <= Rank(A, p - 1)) /\ Rank(A, p - 1) \in Nat
    <3>1. p - 1 \notin B
      <4> HIDE DEF B
      <4> QED BY <2>1, <2>3
    <3> QED BY <1>1, <2>3, <3>1, RankFacts
  <2>5. p \in A
    <3>1. ASSUME p \notin A PROVE FALSE
      <4>1. \A x \in ((p - 1) + 1)..p : x \notin A
        <5>1. \A x \in ((p - 1) + 1)..p : x = p
          BY <2>3
        <5> QED BY <3>1, <5>1
      <4>2. p - 1 <= p
        BY <2>3
      <4>3. Rank(A, p - 1) = Rank(A, p)
        BY <1>1, <2>2, <2>3, <4>1, <4>2, RankStays
      <4> QED BY <2>2, <2>4, <4>3
    <3> QED BY <3>1
  <2>6. Rank(A, p) = Rank(A, p - 1) + 1
    BY <1>5, <2>5
  <2>7. Rank(A, p) = j
    <3>1. j \in Nat
      BY <1>4
    <3> QED BY ONLY <2>2, <2>4, <2>6, <3>1
  <2> QED BY <2>5, <2>7
<1>8. \A j \in 1..m : X[j] \in Seq(S)
  BY <1>1, <1>6, <1>7
<1>9. X \in [1..m -> Seq(S)]
  BY <1>2, <1>8
<1>10. X \in Seq(Seq(S)) /\ Len(X) = m
  BY <1>4, <1>9
<1>11. ASSUME A # {} PROVE X[1] # << >> /\ m # 0
  <2>1. PICK a \in A : TRUE
    BY <1>11
  <2>2. m # 0 /\ 1 \in 1..m
    <3>1. Rank(A, a) \in 1..m
      BY <1>5, <2>1
    <3> QED BY <1>4, <3>1
  <2>3. PICK p \in A : Rank(A, p) = 1
    BY <1>7, <2>2
  <2>4. Rank(A, p - 1) = 0
    <3>1. p - 1 \in 0..n /\ Rank(A, p) = Rank(A, p - 1) + 1
      BY <1>5, <2>3
    <3>2. Rank(A, p - 1) \in Nat
      BY <1>1, <3>1, RankFacts
    <3> QED BY ONLY <2>3, <3>1, <3>2
  <2>5. Upto(A, p - 1) = {}
    <3>1. p - 1 \in 0..n
      BY <1>5, <2>3
    <3> QED BY <1>1, <2>4, <3>1, RankFacts
  <2>6. T(p) # << >> /\ X[1] = T(p)
    BY <1>3, <1>6, <2>3, <2>5
  <2> QED BY <2>2, <2>6
<1> QED BY <1>4, <1>5, <1>6, <1>10, <1>11 DEF A, X, T, m

-----------------------------------------------------------------------------
(* The parser's state after the tokens of the first positions.             *)
(* Command k with the first r of its words; the commands closed by c pipes. *)
CommandUpto(L, k, r) ==
  IF r = 0 THEN NoCommand
  ELSE [name |-> TextsIn(L, k)[1], args |-> Capped(SubSeq(TextsIn(L, k), 2, r), MaxArgs)]

Shorter(a, b) == IF a <= b THEN a ELSE b

Closed(L, c) ==
  [k \in 1..Shorter(c, MaxCommands) |-> CommandUpto(L, k, Cardinality(NamedIn(L, k)))]

Opened(L, i) == Rank(Pipes(L), i) + 1

Parsed(L, i) ==
  [cmds |-> Closed(L, Rank(Pipes(L), i)),
   current |-> CommandUpto(L, Opened(L, i), Rank(NamedIn(L, Opened(L, i)), i))]

(* Where there are no tokens the state stays as it is. *)
LEMMA ParsedStays ==
  ASSUME NEW S, NEW L \in Seq(S), NEW a \in 0..Len(L), NEW b \in 0..Len(L), a <= b,
         \A x \in (a + 1)..b : x \notin TokensAt(L)
  PROVE  Parsed(L, a) = Parsed(L, b)
<1> DEFINE n == Len(L)
           P == Pipes(L)
<1>1. n \in Nat /\ P \subseteq 1..n /\ P \subseteq TokensAt(L)
  BY PlacesFacts DEF TokensAt
<1>2. Rank(P, a) = Rank(P, b)
  <2> HIDE DEF P
  <2> QED BY <1>1, RankStays
<1> DEFINE A == NamedIn(L, Opened(L, b))
<1>3. A \subseteq 1..n /\ A \subseteq TokensAt(L)
  BY PlacesFacts DEF TokensAt
<1>4. Rank(A, a) = Rank(A, b)
  <2> HIDE DEF A
  <2> QED BY <1>1, <1>3, RankStays
<1>5. Opened(L, a) = Opened(L, b)
  BY <1>2 DEF Opened
<1> QED BY <1>2, <1>4, <1>5, Zenon DEF Parsed

(* Nothing is parsed at first. *)
LEMMA ParsedFirst ==
  ASSUME NEW S, NEW L \in Seq(S)
  PROVE  Parsed(L, 0) = [cmds |-> << >>, current |-> NoCommand]
<1> DEFINE n == Len(L)
           P == Pipes(L)
           A == NamedIn(L, Opened(L, 0))
<1>1. n \in Nat /\ P \subseteq 1..n /\ A \subseteq 1..n
  BY PlacesFacts
<1>2. Rank(P, 0) = 0 /\ Rank(A, 0) = 0
  <2> HIDE DEF P, A
  <2> QED BY <1>1, RankFacts
<1>3. Shorter(0, MaxCommands) = 0
  BY CapacityAssumption DEF Shorter
<1>4. Closed(L, Rank(P, 0)) = << >>
  <2>1. Closed(L, 0) = [k \in 1..0 |-> CommandUpto(L, k, Cardinality(NamedIn(L, k)))]
    BY <1>3 DEF Closed
  <2>2. 1..0 = {}
    OBVIOUS
  <2>3. Closed(L, 0) = << >>
    BY <2>1, <2>2
  <2> QED BY <1>2, <2>3
<1>5. CommandUpto(L, Opened(L, 0), Rank(A, 0)) = NoCommand
  BY <1>2 DEF CommandUpto
<1> QED BY <1>4, <1>5, Zenon DEF Parsed

(* Sequences that drop what does not fit. *)
LEMMA CapFacts ==
  ASSUME NEW V, NEW s \in Seq(V), NEW M \in Nat
  PROVE  /\ Capped(s, M) \in Seq(V) /\ Len(Capped(s, M)) = Shorter(Len(s), M)
         /\ \A j \in 1..Len(Capped(s, M)) : j \in 1..Len(s) /\ Capped(s, M)[j] = s[j]
<1>1. CASE Len(s) <= M
  BY <1>1 DEF Capped, Shorter
<1>2. CASE ~(Len(s) <= M)
  <2>1. M <= Len(s) /\ Len(s) \in Nat
    BY <1>2
  <2>2. Capped(s, M) = SubSeq(s, 1, M)
    BY <1>2 DEF Capped
  <2>3. SubSeq(s, 1, M) \in Seq(V) /\ Len(SubSeq(s, 1, M)) = M
        /\ \A j \in 1..M : SubSeq(s, 1, M)[j] = s[j] /\ j \in 1..Len(s)
    BY <2>1
  <2>4. Shorter(Len(s), M) = M
    BY <1>2 DEF Shorter
  <2> QED BY <2>2, <2>3, <2>4
<1> QED BY <1>1, <1>2

(* Equal sequences. *)
LEMMA SameSeq ==
  ASSUME NEW V, NEW s \in Seq(V), NEW t \in Seq(V), Len(s) = Len(t),
         \A j \in 1..Len(s) : s[j] = t[j]
  PROVE  s = t
  OBVIOUS

(* Pushing to what was capped is capping what was pushed to. *)
LEMMA CapGrows ==
  ASSUME NEW V, NEW s \in Seq(V), NEW e \in V, NEW M \in Nat
  PROVE  PushUnlessFull(Capped(s, M), e, M) = Capped(Append(s, e), M)
<1>1. CASE Len(s) < M
  <2>1. Len(s) \in Nat /\ Len(s) <= M /\ Len(Append(s, e)) = Len(s) + 1 /\ Len(s) + 1 <= M
    BY <1>1
  <2> QED BY <1>1, <2>1 DEF Capped, PushUnlessFull
<1>2. CASE ~(Len(s) < M)
  <2> DEFINE u == Append(s, e)
  <2>1. u \in Seq(V) /\ Len(u) = Len(s) + 1 /\ \A j \in 1..Len(s) : u[j] = s[j]
    OBVIOUS
  <2>2. Len(s) \in Nat /\ M <= Len(s)
    BY <1>2
  <2> HIDE DEF u
  <2>3. /\ Capped(s, M) \in Seq(V) /\ Len(Capped(s, M)) = M
        /\ \A j \in 1..M : j \in 1..Len(s) /\ Capped(s, M)[j] = s[j]
    <3>1. Shorter(Len(s), M) = M
      BY <2>2 DEF Shorter
    <3> QED BY <3>1, CapFacts
  <2>4. /\ Capped(u, M) \in Seq(V) /\ Len(Capped(u, M)) = M
        /\ \A j \in 1..M : Capped(u, M)[j] = u[j]
    <3>1. Shorter(Len(u), M) = M
      BY <2>1, <2>2 DEF Shorter
    <3> QED BY <2>1, <3>1, CapFacts
  <2>5. Capped(s, M) = Capped(u, M)
    <3>1. \A j \in 1..Len(Capped(s, M)) : Capped(s, M)[j] = Capped(u, M)[j]
      BY <2>1, <2>3, <2>4
    <3> QED BY <2>3, <2>4, <3>1, SameSeq
  <2>6. PushUnlessFull(Capped(s, M), e, M) = Capped(s, M)
    BY <2>3 DEF PushUnlessFull
  <2> QED BY <2>5, <2>6 DEF u
<1> QED BY <1>1, <1>2

(* Commands as the parser and Meaning build them. *)
CommandSet(S) == [name : Seq(S), args : Seq(Seq(S))]

(* A command has a name exactly when a word has been kept. *)
LEMMA CommandFacts ==
  ASSUME NEW S, NEW L \in Seq(S), NEW k \in Nat, NEW r \in 0..Cardinality(NamedIn(L, k))
  PROVE  /\ CommandUpto(L, k, r) \in CommandSet(S)
         /\ CommandUpto(L, k, r).name = << >> <=> r = 0
         /\ r # 0 => /\ CommandUpto(L, k, r).name = TextsIn(L, k)[1]
                     /\ CommandUpto(L, k, r).args = Capped(SubSeq(TextsIn(L, k), 2, r), MaxArgs)
                     /\ SubSeq(TextsIn(L, k), 2, r) \in Seq(Seq(S))
                     /\ Len(SubSeq(TextsIn(L, k), 2, r)) = r - 1
                     /\ \A j \in 1..(r - 1) : SubSeq(TextsIn(L, k), 2, r)[j] = TextsIn(L, k)[j + 1]
<1> DEFINE m == Cardinality(NamedIn(L, k))
           X == TextsIn(L, k)
           V == Seq(S)
<1>1. m \in Nat /\ X \in Seq(V) /\ Len(X) = m /\ r \in 0..m
      /\ (m # 0 => X[1] # << >>)
  <2>1. m # 0 => NamedIn(L, k) # {}
    BY FS_EmptySet
  <2> QED BY <2>1, TextsFacts
<1>2. CASE r = 0
  <2>1. CommandUpto(L, k, r) = NoCommand
    BY <1>2 DEF CommandUpto
  <2>2. NoCommand \in CommandSet(S) /\ NoCommand.name = << >>
    <3>1. << >> \in Seq(S) /\ << >> \in Seq(Seq(S))
      OBVIOUS
    <3> QED BY <3>1 DEF NoCommand, CommandSet
  <2> QED BY <1>2, <2>1, <2>2
<1>3. CASE r # 0
  <2> DEFINE a == SubSeq(X, 2, r)
             g == Capped(a, MaxArgs)
  <2> HIDE DEF m, X
  <2>1. r \in 1..m
    BY <1>1, <1>3
  <2>2. a \in Seq(V) /\ Len(a) = r - 1 /\ \A j \in 1..(r - 1) : a[j] = X[j + 1]
    <3> HIDE DEF V
    <3>1. 2 \in 1..(m + 1) /\ r \in 0..m
      BY <1>1, <2>1
    <3>2. r < 2 => r = 1
      BY <1>1, <2>1
    <3>3. CASE r < 2
      <4>1. 2..r = {} /\ 1..(r - 1) = {} /\ r = 1
        BY <3>2, <3>3
      <4>2. a = << >>
        BY <1>1, <4>1
      <4> QED BY <4>1, <4>2
    <3>4. CASE ~(r < 2)
      BY <1>1, <2>1, <3>4
    <3> QED BY <3>3, <3>4
  <2> HIDE DEF a, V
  <2>3. g \in Seq(V)
    BY <2>2, CapacityAssumption, CapFacts
  <2>4. X[1] \in V /\ X[1] # << >>
    BY <1>1, <2>1
  <2> HIDE DEF g
  <2>5. CommandUpto(L, k, r) = [name |-> X[1], args |-> g]
    BY <1>3, Zenon DEF CommandUpto, X, g, a
  <2>6. [name |-> X[1], args |-> g] \in CommandSet(S)
    BY <2>3, <2>4 DEF CommandSet, V
  <2> QED BY <1>3, <2>2, <2>4, <2>5, <2>6 DEF g, a, X, V
<1> QED BY <1>2, <1>3

(* The arms of parse_pipeline. *)
LEMMA ParsePipe ==
  ASSUME NEW z, NEW c
  PROVE  ParseToken([cmds |-> z, current |-> c], Pipe)
           = [cmds |-> PushUnlessFull(z, c, MaxCommands), current |-> NoCommand]
<1> DEFINE p == [cmds |-> z, current |-> c]
<1>1. p.cmds = z /\ p.current = c
  OBVIOUS
<1>2. Pipe.pipe = TRUE
  BY DEF Pipe
<1> QED BY <1>1, <1>2 DEF ParseToken

(* A word is the name of a command that has none. *)
LEMMA ParseName ==
  ASSUME NEW z, NEW g, NEW t
  PROVE  ParseToken([cmds |-> z, current |-> [name |-> << >>, args |-> g]], Word(t))
           = [cmds |-> z, current |-> [name |-> t, args |-> g]]
<1> DEFINE c == [name |-> << >>, args |-> g]
           p == [cmds |-> z, current |-> c]
<1>1. p.current.name = << >>
  OBVIOUS
<1>2. Word(t).pipe = FALSE /\ Word(t).text = t
  BY DEF Word
<1>3. ParseToken(p, Word(t)) = [p EXCEPT !.current.name = t]
  BY <1>1, <1>2 DEF ParseToken
<1> QED BY <1>3

(* A word is an argument of a command that has a name. *)
LEMMA ParseArg ==
  ASSUME NEW z, NEW a, NEW g, NEW t, a # << >>
  PROVE  ParseToken([cmds |-> z, current |-> [name |-> a, args |-> g]], Word(t))
           = [cmds |-> z, current |-> [name |-> a, args |-> PushUnlessFull(g, t, MaxArgs)]]
<1> DEFINE c == [name |-> a, args |-> g]
           p == [cmds |-> z, current |-> c]
<1>1. p.current.name = a
  OBVIOUS
<1>2. Word(t).pipe = FALSE /\ Word(t).text = t
  BY DEF Word
<1>3. ParseToken(p, Word(t)) = [p EXCEPT !.current.args = PushUnlessFull(@, t, MaxArgs)]
  <2>1. ~Word(t).pipe /\ ~(p.current.name = << >>)
    BY <1>1, <1>2
  <2> QED BY <1>2, <2>1 DEF ParseToken
<1> QED BY <1>3

(* A pipe closes the command before it. *)
LEMMA CloseStep ==
  ASSUME NEW S, NEW L \in Seq(S), NEW c \in Nat
  PROVE  /\ Closed(L, c) \in Seq(CommandSet(S)) /\ Len(Closed(L, c)) = Shorter(c, MaxCommands)
         /\ PushUnlessFull(Closed(L, c), CommandUpto(L, c + 1, Cardinality(NamedIn(L, c + 1))),
                           MaxCommands) = Closed(L, c + 1)
<1> DEFINE f(k) == CommandUpto(L, k, Cardinality(NamedIn(L, k)))
           V == CommandSet(S)
           M == MaxCommands
<1>1. \A k \in Nat : f(k) \in V
  <2> SUFFICES ASSUME NEW k \in Nat PROVE f(k) \in V
    OBVIOUS
  <2>1. Cardinality(NamedIn(L, k)) \in 0..Cardinality(NamedIn(L, k))
    <3>1. Cardinality(NamedIn(L, k)) \in Nat
      BY TextsFacts
    <3> QED BY <3>1
  <2> QED BY <2>1, CommandFacts
<1>2. \A d : Closed(L, d) = [k \in 1..Shorter(d, M) |-> f(k)]
  BY Zenon DEF Closed
<1> HIDE DEF f, V
<1>3. M \in Nat
  BY CapacityAssumption
<1>4. \A d \in Nat : Shorter(d, M) \in Nat
  BY <1>3 DEF Shorter
<1> HIDE DEF M
<1>5. ASSUME NEW d \in Nat PROVE Closed(L, d) \in Seq(V) /\ Len(Closed(L, d)) = Shorter(d, M)
  <2> DEFINE m == Shorter(d, M)
  <2>1. m \in Nat
    BY <1>4
  <2> HIDE DEF m
  <2>2. [k \in 1..m |-> f(k)] \in [1..m -> V]
    BY <1>1, <2>1
  <2>3. [k \in 1..m |-> f(k)] \in Seq(V) /\ Len([k \in 1..m |-> f(k)]) = m
    BY <2>1, <2>2
  <2> QED BY <1>2, <2>3 DEF m
<1>6. CASE c < M
  <2>1. Shorter(c, M) = c /\ Shorter(c + 1, M) = c + 1
    BY <1>3, <1>6 DEF Shorter
  <2> DEFINE s == [k \in 1..c |-> f(k)]
             t == [k \in 1..(c + 1) |-> f(k)]
  <2>2. Closed(L, c) = s /\ Closed(L, c + 1) = t /\ s \in Seq(V) /\ Len(s) = c
        /\ t \in Seq(V) /\ Len(t) = c + 1
    <3>1. Closed(L, c) = s /\ Closed(L, c + 1) = t
      BY <1>2, <2>1, Zenon
    <3>2. c + 1 \in Nat
      OBVIOUS
    <3> HIDE DEF s, t
    <3> QED BY <1>5, <2>1, <3>1, <3>2
  <2>3. PushUnlessFull(s, f(c + 1), M) = Append(s, f(c + 1))
    BY <1>6, <2>2 DEF PushUnlessFull
  <2>4. \A j \in 1..(c + 1) : t[j] = f(j)
    OBVIOUS
  <2>5. \A j \in 1..c : s[j] = f(j)
    OBVIOUS
  <2> HIDE DEF s, t
  <2>6. Append(s, f(c + 1)) = t
    <3>1. f(c + 1) \in V
      BY <1>1
    <3>2. Append(s, f(c + 1)) \in Seq(V) /\ Len(Append(s, f(c + 1))) = c + 1
          /\ \A j \in 1..(c + 1) : Append(s, f(c + 1))[j] = IF j = c + 1 THEN f(c + 1) ELSE s[j]
      BY <2>2, <3>1
    <3>3. \A j \in 1..(c + 1) : Append(s, f(c + 1))[j] = t[j]
      <4> SUFFICES ASSUME NEW j \in 1..(c + 1) PROVE Append(s, f(c + 1))[j] = t[j]
        OBVIOUS
      <4>1. j = c + 1 \/ j \in 1..c
        OBVIOUS
      <4> QED BY <2>4, <2>5, <3>2, <4>1
    <3> QED BY <2>2, <3>2, <3>3, SameSeq
  <2> QED BY <1>5, <2>2, <2>3, <2>6 DEF f, V, M
<1>7. CASE ~(c < M)
  <2>1. Shorter(c, M) = M /\ Shorter(c + 1, M) = M
    BY <1>3, <1>7 DEF Shorter
  <2>2. Closed(L, c) = Closed(L, c + 1) /\ Len(Closed(L, c)) = M
    BY <1>2, <1>5, <2>1
  <2>3. PushUnlessFull(Closed(L, c), f(c + 1), M) = Closed(L, c)
    BY <1>3, <2>2 DEF PushUnlessFull
  <2> QED BY <1>5, <2>2, <2>3 DEF f, V, M
<1> QED BY <1>6, <1>7

(* The parser's state where a pipe has been read. *)
LEMMA PipeMoves ==
  ASSUME NEW S, NEW L \in Seq(S), NEW p \in Pipes(L)
  PROVE  ParseToken(Parsed(L, p - 1), Pipe) = Parsed(L, p)
<1> DEFINE n == Len(L)
           P == Pipes(L)
           c == Rank(P, p - 1)
           A == NamedIn(L, c + 1)
           B == NamedIn(L, c + 1 + 1)
<1>1. n \in Nat /\ P \subseteq 1..n /\ A \subseteq 1..n /\ B \subseteq 1..n
      /\ p \in 1..n /\ p - 1 \in 0..n /\ p \in 0..n /\ p \in P
  BY PlacesFacts
<1>2. c \in Nat /\ Rank(P, p) = c + 1
  <2> HIDE DEF P, n
  <2> QED BY <1>1, RankFacts
<1>3. \A x \in A : x \in Starts(L) /\ x \in WordsIn(L, c + 1)
  BY PlacesFacts
<1>4. \A x \in B : x \in Starts(L) /\ x \in WordsIn(L, c + 1 + 1)
  BY PlacesFacts
<1> HIDE DEF A, B
<1>5. ASSUME NEW x \in A PROVE Rank(P, x) = c
  <2>1. c + 1 \in Nat
    BY <1>2
  <2>2. c + 1 = Rank(P, x) + 1 /\ Rank(P, x) \in Nat
    BY <1>3, <2>1, WordsFacts
  <2> HIDE DEF c, P
  <2> QED BY <1>2, <2>2
<1>6. ASSUME NEW x \in B PROVE x - 1 \in 0..n /\ Rank(P, x - 1) = c + 1
  <2>1. c + 1 + 1 \in Nat
    BY <1>2
  <2>2. c + 1 + 1 = Rank(P, x) + 1 /\ Rank(P, x) \in Nat /\ Rank(P, x) = Rank(P, x - 1)
        /\ x - 1 \in 0..n
    BY <1>4, <2>1, WordsFacts
  <2> HIDE DEF c, P, n
  <2> QED BY <1>2, <2>2
<1> HIDE DEF P, n, c
<1>c. c = Rank(P, p - 1)
  BY DEF c
<1>7. Rank(A, p - 1) = Cardinality(A)
  <2>1. ASSUME NEW x \in ((p - 1) + 1)..n, x \in A PROVE FALSE
    <3>1. x \in 0..n /\ p <= x
      BY <1>1
    <3>2. Rank(P, p) <= Rank(P, x)
      BY <1>1, <3>1, RankFacts
    <3>3. Rank(P, x) = c
      BY <1>5, <2>1
    <3> QED BY ONLY <1>2, <3>2, <3>3
  <2>2. p - 1 <= n /\ n \in 0..n
    BY <1>1
  <2>3. Rank(A, p - 1) = Rank(A, n)
    BY <1>1, <2>1, <2>2, RankStays
  <2>4. Rank(A, n) = Cardinality(A)
    BY <1>1, RankFacts
  <2> QED BY <2>3, <2>4
<1>8. Rank(B, p) = 0
  <2>1. ASSUME NEW x \in (0 + 1)..p, x \in B PROVE FALSE
    <3>1. x - 1 \in 0..n /\ x - 1 <= p - 1
      BY <1>1
    <3>2. Rank(P, x - 1) <= Rank(P, p - 1)
      BY <1>1, <3>1, RankFacts
    <3>3. Rank(P, x - 1) = c + 1
      BY <1>6, <2>1
    <3> QED BY ONLY <1>2, <1>c, <3>2, <3>3
  <2>2. 0 \in 0..n /\ 0 <= p
    BY <1>1
  <2>3. Rank(B, 0) = Rank(B, p)
    BY <1>1, <2>1, <2>2, RankStays
  <2>4. Rank(B, 0) = 0
    BY <1>1, RankFacts
  <2> QED BY <2>3, <2>4
<1> DEFINE y == CommandUpto(L, c + 1, Cardinality(A))
<1>9. Parsed(L, p - 1) = [cmds |-> Closed(L, c), current |-> y]
  <2>1. Opened(L, p - 1) = c + 1
    BY DEF Opened, c, P
  <2> QED BY <1>7, <2>1, Zenon DEF Parsed, A, c, P
<1>10. Parsed(L, p) = [cmds |-> Closed(L, c + 1), current |-> NoCommand]
  <2>1. Opened(L, p) = c + 1 + 1
    BY <1>2 DEF Opened, P
  <2>2. CommandUpto(L, c + 1 + 1, 0) = NoCommand
    BY DEF CommandUpto
  <2>3. CommandUpto(L, Opened(L, p), Rank(NamedIn(L, Opened(L, p)), p)) = NoCommand
    BY <1>8, <2>1, <2>2, Zenon DEF B
  <2> QED BY <1>2, <2>3, Zenon DEF Parsed, P
<1>12. ParseToken([cmds |-> Closed(L, c), current |-> y], Pipe)
          = [cmds |-> PushUnlessFull(Closed(L, c), y, MaxCommands), current |-> NoCommand]
  <2> HIDE DEF y
  <2> QED BY ParsePipe, Zenon
<1>13. PushUnlessFull(Closed(L, c), y, MaxCommands) = Closed(L, c + 1)
  BY <1>2, CloseStep DEF A
<1> QED BY <1>9, <1>10, <1>12, <1>13, Zenon

(* The parser's state where a word has been read. *)
LEMMA WordMoves ==
  ASSUME NEW S, NEW L \in Seq(S), NEW p \in Starts(L)
  PROVE  ParseToken(Parsed(L, p - 1), Word(TextOf(L, p))) = Parsed(L, p)
<1> DEFINE n == Len(L)
           P == Pipes(L)
           c == Rank(P, p)
           k == c + 1
           A == NamedIn(L, k)
           m == Cardinality(A)
           r == Rank(A, p - 1)
           X == TextsIn(L, k)
           t == TextOf(L, p)
           z == Closed(L, c)
           V == Seq(S)
<1>1. n \in Nat /\ A \subseteq 1..n /\ p \in 1..n /\ p - 1 \in 0..n /\ p \in 0..n /\ t \in V
      /\ c \in Nat /\ Rank(P, p - 1) = c /\ k \in Nat
  <2>1. c \in Nat /\ Rank(P, p - 1) = c /\ p \in 1..n /\ p - 1 \in 0..n /\ p \in 0..n
    BY WordsFacts
  <2>2. k \in Nat
    BY <2>1
  <2> QED BY <2>1, <2>2, PlacesFacts
<1>2. p \in WordsIn(L, k)
  BY <1>1, WordsFacts
<1>3. p \in A <=> Upto(A, p - 1) # {} \/ t # << >>
  BY <1>1, <1>2, NamedFacts
<1>4. /\ m \in Nat /\ X \in Seq(V) /\ Len(X) = m
      /\ \A i \in A : Rank(A, i) \in 1..m /\ X[Rank(A, i)] = TextOf(L, i)
      /\ A # {} => X[1] # << >> /\ m # 0
  BY <1>1, TextsFacts
<1>5. /\ Parsed(L, p - 1) = [cmds |-> z, current |-> CommandUpto(L, k, r)]
      /\ Parsed(L, p) = [cmds |-> z, current |-> CommandUpto(L, k, Rank(A, p))]
  <2>1. Opened(L, p - 1) = k /\ Opened(L, p) = k
    BY <1>1 DEF Opened
  <2> QED BY <1>1, <2>1, Zenon DEF Parsed
<1> SUFFICES ParseToken(Parsed(L, p - 1), Word(t)) = Parsed(L, p)
  OBVIOUS
<1> HIDE DEF n, P, c, A, X, z, V
<1>6. r \in Nat /\ r <= m /\ (r = 0 <=> Upto(A, p - 1) = {})
  BY <1>1, RankFacts
<1>7. CASE p \notin A
  <2>1. r = 0 /\ t = << >>
    BY <1>3, <1>6, <1>7
  <2>2. Rank(A, p) = r
    <3>1. \A x \in ((p - 1) + 1)..p : x \notin A
      <4>1. \A x \in ((p - 1) + 1)..p : x = p
        BY <1>1
      <4> QED BY <1>7, <4>1
    <3>2. p - 1 <= p
      BY <1>1
    <3> QED BY <1>1, <3>1, <3>2, RankStays
  <2>3. CommandUpto(L, k, 0) = [name |-> << >>, args |-> << >>]
    BY DEF CommandUpto, NoCommand
  <2>4. ParseToken([cmds |-> z, current |-> [name |-> << >>, args |-> << >>]], Word(t))
          = [cmds |-> z, current |-> [name |-> t, args |-> << >>]]
    BY ParseName
  <2> HIDE DEF r, t, k
  <2> QED BY <1>5, <2>1, <2>2, <2>3, <2>4, Zenon
<1>8. CASE p \in A
  <2>1. Rank(A, p) = r + 1 /\ Rank(A, p) \in 1..m /\ X[Rank(A, p)] = t /\ X[1] # << >>
    <3>0. Rank(A, p) = Rank(A, p - 1) + 1
      <4>1. n \in Nat /\ A \subseteq 1..n /\ p \in A
        BY <1>1, <1>8
      <4> QED BY ONLY <4>1, RankFacts
    <3>1. Rank(A, p) = r + 1
      BY <1>8, <3>0
    <3> QED BY <1>4, <1>8, <3>1
  <2> HIDE DEF r, t, k, m
  <2>2. r + 1 \in 1..m /\ r + 1 # 0 /\ r \in 0..m /\ r + 1 \in 0..m
    BY <1>4, <1>6, <2>1
  <2> DEFINE a == SubSeq(X, 2, r)
             b == SubSeq(X, 2, r + 1)
  <2>3. CommandUpto(L, k, r + 1) = [name |-> X[1], args |-> Capped(b, MaxArgs)]
    <3>1. ~(r + 1 = 0)
      BY <2>2
    <3> QED BY <3>1, Zenon DEF CommandUpto, X
  <2>4. CASE r = 0
    <3>1. CommandUpto(L, k, 0) = [name |-> << >>, args |-> << >>]
      BY DEF CommandUpto, NoCommand
    <3>2. ParseToken([cmds |-> z, current |-> [name |-> << >>, args |-> << >>]], Word(t))
            = [cmds |-> z, current |-> [name |-> t, args |-> << >>]]
      BY ParseName
    <3>3. Capped(b, MaxArgs) = << >>
      <4>1. b = << >>
        <5>1. r + 1 = 1 /\ 2..1 = {}
          BY <2>4
        <5> QED BY <1>4, <5>1
      <4> QED BY <4>1, CapacityAssumption DEF Capped
    <3>4. X[1] = t
      BY <2>1, <2>4
    <3>5. CommandUpto(L, k, Rank(A, p)) = [name |-> t, args |-> << >>]
      <4> HIDE DEF b
      <4> QED BY <2>1, <2>3, <3>3, <3>4
    <3> QED BY <1>5, <2>4, <3>1, <3>2, <3>5, Zenon
  <2>5. CASE r # 0
    <3>1. CommandUpto(L, k, r) = [name |-> X[1], args |-> Capped(a, MaxArgs)]
      BY <2>5, Zenon DEF CommandUpto, X
    <3>2. ParseToken([cmds |-> z, current |-> [name |-> X[1], args |-> Capped(a, MaxArgs)]], Word(t))
            = [cmds |-> z,
               current |-> [name |-> X[1], args |-> PushUnlessFull(Capped(a, MaxArgs), t, MaxArgs)]]
      <4> HIDE DEF a
      <4> QED BY <2>1, ParseArg
    <3>3. /\ a \in Seq(V) /\ Len(a) = r - 1 /\ \A j \in 1..(r - 1) : a[j] = X[j + 1]
          /\ b \in Seq(V) /\ Len(b) = r /\ \A j \in 1..r : b[j] = X[j + 1]
      <4>1. a \in Seq(V) /\ Len(a) = r - 1 /\ \A j \in 1..(r - 1) : a[j] = X[j + 1]
        BY <1>1, <2>2, <2>5, CommandFacts DEF X, V, m, A
      <4>2. b \in Seq(V) /\ Len(b) = (r + 1) - 1 /\ \A j \in 1..((r + 1) - 1) : b[j] = X[j + 1]
        BY <1>1, <2>2, CommandFacts DEF X, V, m, A
      <4>3. (r + 1) - 1 = r
        BY <1>6
      <4> HIDE DEF a, b
      <4> QED BY <4>1, <4>2, <4>3
    <3> HIDE DEF a, b
    <3>4. Append(a, t) = b
      <4>1. Append(a, t) \in Seq(V) /\ Len(Append(a, t)) = (r - 1) + 1
            /\ \A j \in 1..((r - 1) + 1) : Append(a, t)[j] = IF j = (r - 1) + 1 THEN t ELSE a[j]
        BY <1>1, <1>6, <2>5, <3>3
      <4>2. (r - 1) + 1 = r
        BY <1>6
      <4>3. \A j \in 1..r : Append(a, t)[j] = b[j]
        <5> SUFFICES ASSUME NEW j \in 1..r PROVE Append(a, t)[j] = b[j]
          OBVIOUS
        <5>1. j = r \/ j \in 1..(r - 1)
          BY <1>6
        <5> QED BY <2>1, <3>3, <4>1, <4>2, <5>1
      <4> QED BY <3>3, <4>1, <4>2, <4>3, SameSeq
    <3>5. PushUnlessFull(Capped(a, MaxArgs), t, MaxArgs) = Capped(b, MaxArgs)
      BY <1>1, <3>3, <3>4, CapacityAssumption, CapGrows
    <3> QED BY <1>5, <2>1, <2>3, <3>1, <3>2, <3>5, Zenon
  <2> QED BY <2>4, <2>5
<1> QED BY <1>7, <1>8

(* The parser's state where a token has been read. *)
LEMMA ParsedMoves ==
  ASSUME NEW S, NEW L \in Seq(S), NEW p \in TokensAt(L)
  PROVE  ParseToken(Parsed(L, p - 1), TokOf(L, p)) = Parsed(L, p)
<1>1. CASE p \in Pipes(L)
  BY <1>1, PipeMoves DEF TokOf
<1>2. CASE p \in Starts(L) /\ p \notin Pipes(L)
  BY <1>2, WordMoves DEF TokOf
<1> QED BY <1>1, <1>2 DEF TokensAt

(* A trace visits one position of the line per token. *)
LEMMA TraceFacts ==
  ASSUME NEW S, NEW L \in Seq(S), NEW W, NEW q \in Seq(W), NEW z, Trace(L, 0, q, z)
  PROVE  /\ \A j \in 0..Len(q) : z[j] \in 0..Len(L) /\ j <= z[j]
         /\ z[0] = 0
         /\ \A j \in 1..Len(q) : z[j] \in TokensAt(L) /\ q[j] = TokOf(L, z[j])
                                 /\ Parsed(L, z[j]) = ParseToken(Parsed(L, z[j - 1]), q[j])
         /\ Parsed(L, z[Len(q)]) = Parsed(L, Len(L))
<1> DEFINE n == Len(L)
           m == Len(q)
           K == TokensAt(L)
<1>1. n \in Nat /\ m \in Nat /\ K \subseteq 1..n
  BY PlacesFacts DEF TokensAt
<1>2. /\ z \in [0..m -> 0..(n + 1)] /\ z[0] = 0
      /\ \A j \in 1..m :
           /\ z[j - 1] < z[j] /\ z[j] \in K /\ q[j] = TokOf(L, z[j])
           /\ \A x \in (z[j - 1] + 1)..(z[j] - 1) : x \notin K
      /\ \A x \in (z[m] + 1)..n : x \notin K
  BY DEF Trace
<1> HIDE DEF n, m, K
<1>3. \A j \in 0..m : z[j] \in 0..n
  <2> SUFFICES ASSUME NEW j \in 0..m PROVE z[j] \in 0..n
    OBVIOUS
  <2>1. CASE j = 0
    BY <1>1, <1>2, <2>1
  <2>2. CASE j # 0
    <3>1. j \in 1..m
      BY <1>1, <2>2
    <3>2. z[j] \in 1..n
      BY <1>1, <1>2, <3>1
    <3> QED BY <1>1, <3>2
  <2> QED BY <2>1, <2>2
<1> DEFINE T == {j \in 0..m : j <= z[j]}
<1>4. 0..m \subseteq T
  <2>1. 0 \in T
    BY <1>1, <1>2
  <2>2. ASSUME NEW j \in 1..m, j - 1 \in T PROVE j \in T
    <3>1. j - 1 \in 0..m /\ j \in 0..m /\ j - 1 <= z[j - 1]
      BY <1>1, <2>2
    <3>2. z[j - 1] < z[j] /\ z[j - 1] \in Int /\ z[j] \in Int
      BY <1>1, <1>2, <1>3, <3>1
    <3> QED BY <3>1, <3>2
  <2> HIDE DEF T
  <2> QED BY <1>1, <2>1, <2>2, StepByStep, Zenon
<1>5. ASSUME NEW j \in 1..m
      PROVE  z[j] \in K /\ q[j] = TokOf(L, z[j]) /\ Parsed(L, z[j]) = ParseToken(Parsed(L, z[j - 1]), q[j])
  <2> DEFINE a == z[j - 1]
             b == z[j]
  <2>1. a < b /\ b \in K /\ q[j] = TokOf(L, b) /\ \A x \in (a + 1)..(b - 1) : x \notin K
    BY <1>2
  <2>2. a \in 0..n /\ b \in 1..n
    <3>1. j - 1 \in 0..m
      BY <1>1
    <3> QED BY <1>1, <1>3, <2>1, <3>1
  <2> HIDE DEF a, b
  <2>3. b - 1 \in 0..n /\ a <= b - 1
    BY <1>1, <2>1, <2>2
  <2>4. Parsed(L, a) = Parsed(L, b - 1)
    BY <2>1, <2>2, <2>3, ParsedStays DEF K, n
  <2>5. ParseToken(Parsed(L, b - 1), TokOf(L, b)) = Parsed(L, b)
    BY <2>1, ParsedMoves DEF K
  <2> QED BY <2>1, <2>4, <2>5 DEF a, b
<1>6. Parsed(L, z[m]) = Parsed(L, n)
  <2>1. z[m] \in 0..n /\ n \in 0..n /\ \A x \in (z[m] + 1)..n : x \notin K
    BY <1>1, <1>2, <1>3
  <2>2. z[m] <= n
    BY <1>1, <2>1
  <2> QED BY <2>1, <2>2, ParsedStays DEF K, n
<1>7. \A j \in 0..m : j <= z[j]
  BY <1>4
<1> QED BY <1>2, <1>3, <1>5, <1>6, <1>7 DEF n, m, K

(* What parse_pipeline returns from its last state. *)
Finish(p) ==
  IF p.current.name = << >> THEN p.cmds ELSE PushUnlessFull(p.cmds, p.current, MaxCommands)

(* The parser of some of a line's tokens. *)
LEMMA PipelineFacts ==
  ASSUME NEW S, NEW L \in Seq(S), NEW W, NEW q \in Seq(W), NEW z, Trace(L, 0, q, z),
         NEW u \in Seq(W), Len(u) <= Len(q), \A j \in 1..Len(u) : u[j] = q[j]
  PROVE  ParsePipeline(u) = Finish(Parsed(L, z[Len(u)]))
<1> DEFINE m == Len(u)
           v == [cmds |-> << >>, current |-> NoCommand]
           E(g) == g = [i \in 0..m |-> IF i = 0 THEN v ELSE ParseToken(g[i - 1], u[i])]
           w == CHOOSE g : E(g)
           G == [i \in 0..m |-> Parsed(L, z[i])]
<1>1. m \in Nat /\ Len(q) \in Nat /\ m <= Len(q)
  OBVIOUS
<1>2. ParsePipeline(u) = Finish(w[m])
  BY Zenon DEF ParsePipeline, Finish
<1>3. z[0] = 0 /\ Parsed(L, 0) = v
  <2> HIDE DEF v
  <2>1. z[0] = 0
    BY TraceFacts
  <2> QED BY <2>1, ParsedFirst DEF v
<1>4. \A j \in 1..m : Parsed(L, z[j]) = ParseToken(Parsed(L, z[j - 1]), u[j])
  <2> SUFFICES ASSUME NEW j \in 1..m PROVE Parsed(L, z[j]) = ParseToken(Parsed(L, z[j - 1]), u[j])
    OBVIOUS
  <2>1. j \in 1..Len(q) /\ u[j] = q[j]
    BY <1>1
  <2>2. Parsed(L, z[j]) = ParseToken(Parsed(L, z[j - 1]), q[j])
    BY <2>1, TraceFacts
  <2> QED BY <2>1, <2>2
<1> HIDE DEF m, v
<1>5. \A j \in 1..m : j \in 0..m /\ j - 1 \in 0..m /\ j # 0
  BY <1>1
<1>6. E(G)
  <2>1. \A i \in 0..m : G[i] = IF i = 0 THEN v ELSE ParseToken(G[i - 1], u[i])
    <3> SUFFICES ASSUME NEW i \in 0..m
                 PROVE  G[i] = IF i = 0 THEN v ELSE ParseToken(G[i - 1], u[i])
      OBVIOUS
    <3>1. G[i] = Parsed(L, z[i])
      OBVIOUS
    <3>2. CASE i = 0
      BY <1>3, <3>1, <3>2
    <3>3. CASE i # 0
      <4>1. i \in 1..m
        BY <1>1, <3>3
      <4>2. G[i - 1] = Parsed(L, z[i - 1])
        BY <1>5, <4>1
      <4> QED BY <1>4, <3>1, <3>3, <4>1, <4>2
    <3> QED BY <3>2, <3>3
  <2> QED BY <2>1
<1>7. E(w)
  <2> HIDE DEF G
  <2> QED BY <1>6, Zenon
<1> HIDE DEF w
<1>8. w = [i \in 0..m |-> IF i = 0 THEN v ELSE ParseToken(w[i - 1], u[i])]
  BY <1>7, Zenon
<1>9. 0 \in 0..m /\ m \in 0..m
  BY <1>1
<1>10. w[0] = v /\ \A j \in 1..m : w[j] = ParseToken(w[j - 1], u[j])
  <2>1. w[0] = v
    BY <1>8, <1>9, Zenon
  <2>2. ASSUME NEW j \in 1..m PROVE w[j] = ParseToken(w[j - 1], u[j])
    BY <1>5, <1>8, Zenon
  <2> QED BY <2>1, <2>2
<1> DEFINE T == {j \in 0..m : w[j] = Parsed(L, z[j])}
<1>11. 0..m \subseteq T
  <2>1. 0 \in T
    BY <1>3, <1>9, <1>10
  <2>2. ASSUME NEW j \in 1..m, j - 1 \in T PROVE j \in T
    <3>1. w[j - 1] = Parsed(L, z[j - 1])
      BY <2>2
    <3>2. w[j] = Parsed(L, z[j])
      BY <1>4, <1>10, <3>1
    <3> QED BY <1>5, <3>2
  <2> HIDE DEF T
  <2> QED BY <1>1, <2>1, <2>2, StepByStep, Zenon
<1>12. w[m] = Parsed(L, z[m])
  BY <1>9, <1>11
<1> QED BY <1>2, <1>12 DEF m

-----------------------------------------------------------------------------
(* The parser's commands against what the line means.                      *)
CutOne(c, d) ==
  /\ c.name = d.name /\ Len(c.args) <= Len(d.args)
  /\ c.args = SubSeq(d.args, 1, Len(c.args))

(* What a command keeps is the beginning of what it means. *)
LEMMA CommandCut ==
  ASSUME NEW S, NEW L \in Seq(S), NEW k \in Nat, NEW r \in 0..Cardinality(NamedIn(L, k)),
         r # 0 \/ NamedIn(L, k) = {}
  PROVE  /\ CommandIn(L, k) \in CommandSet(S)
         /\ CutOne(CommandUpto(L, k, r), CommandIn(L, k))
         /\ r = Cardinality(NamedIn(L, k)) /\ Len(CommandIn(L, k).args) <= MaxArgs
              => CommandUpto(L, k, r) = CommandIn(L, k)
<1> DEFINE A == NamedIn(L, k)
           m == Cardinality(A)
           X == TextsIn(L, k)
           V == Seq(S)
           y == CommandUpto(L, k, r)
           d == CommandIn(L, k)
<1>1. m \in Nat /\ X \in Seq(V) /\ Len(X) = m /\ r \in 0..m /\ (A = {} => m = 0)
  <2>1. A = {} => m = 0
    BY FS_EmptySet
  <2> QED BY <2>1, TextsFacts
<1>2. CASE r = 0
  <2>1. y = NoCommand
    BY <1>2 DEF CommandUpto
  <2>2. d = NoCommand
    BY <1>2 DEF CommandIn
  <2>3. NoCommand \in CommandSet(S)
    <3>1. << >> \in Seq(S) /\ << >> \in Seq(Seq(S))
      OBVIOUS
    <3> QED BY <3>1 DEF NoCommand, CommandSet
  <2>4. CutOne(NoCommand, NoCommand)
    <3>1. NoCommand.name = << >> /\ NoCommand.args = << >>
      BY DEF NoCommand
    <3>2. Len(<< >>) = 0 /\ SubSeq(<< >>, 1, 0) = << >>
      OBVIOUS
    <3> QED BY <3>1, <3>2 DEF CutOne
  <2> QED BY <2>1, <2>2, <2>3, <2>4
<1>3. CASE r # 0
  <2> DEFINE a == SubSeq(X, 2, r)
             g == Capped(a, MaxArgs)
             h == Tail(X)
  <2>1. A # {}
    BY <1>1, <1>3
  <2>2. d = [name |-> Head(X), args |-> Tail(X)]
    BY <2>1, Zenon DEF CommandIn
  <2>3. y = [name |-> X[1], args |-> Capped(SubSeq(X, 2, r), MaxArgs)]
    BY <1>3, Zenon DEF CommandUpto
  <2>4. a \in Seq(V) /\ Len(a) = r - 1 /\ \A j \in 1..(r - 1) : a[j] = X[j + 1]
    BY <1>3, CommandFacts
  <2> HIDE DEF A, m, X, V
  <2>5. r \in 1..m /\ m # 0 /\ X # << >>
    BY <1>1, <1>3
  <2>6. /\ X[1] \in V /\ Head(X) = X[1] /\ h \in Seq(V) /\ Len(h) = m - 1
        /\ \A j \in 1..(m - 1) : h[j] = X[j + 1]
    BY <1>1, <2>5
  <2> HIDE DEF a
  <2>7. g \in Seq(V) /\ Len(g) <= r - 1 /\ \A j \in 1..Len(g) : j \in 1..(r - 1) /\ g[j] = a[j]
    <3>0. Len(a) \in Nat
      BY <2>4
    <3>1. Shorter(Len(a), MaxArgs) <= Len(a)
      BY ONLY <3>0, CapacityAssumption DEF Shorter
    <3> QED BY <2>4, <3>1, CapacityAssumption, CapFacts
  <2> DEFINE l == Len(g)
  <2>l. l \in Nat /\ l = Len(g)
    BY <2>7
  <2> HIDE DEF g, h, l
  <2>8. l <= Len(h) /\ \A j \in 1..l : g[j] = h[j]
    <3>1. r <= m /\ r \in Nat
      BY <1>1, <2>5
    <3>2. l <= Len(h)
      BY <1>1, <2>6, <2>7, <2>l, <3>1
    <3>3. \A j \in 1..l : j \in 1..(r - 1) /\ j \in 1..(m - 1)
      BY <1>1, <2>7, <2>l, <3>1
    <3> QED BY <2>4, <2>6, <2>7, <2>l, <3>2, <3>3
  <2>9. g = SubSeq(h, 1, l)
    <3>1. SubSeq(h, 1, l) \in Seq(V) /\ Len(SubSeq(h, 1, l)) = l
          /\ \A j \in 1..l : SubSeq(h, 1, l)[j] = h[j]
      BY <2>6, <2>8, <2>l
    <3> QED BY <2>7, <2>8, <2>l, <3>1, SameSeq
  <2>10. y.name = X[1] /\ y.args = g /\ d.name = X[1] /\ d.args = h
    <3> HIDE DEF y, d
    <3> QED BY <2>2, <2>3, <2>6 DEF g, a, h
  <2>11. d \in CommandSet(S)
    <3>1. d = [name |-> X[1], args |-> h]
      BY <2>2, <2>6 DEF h
    <3> HIDE DEF d
    <3>2. X[1] \in V /\ h \in Seq(V)
      BY <2>6
    <3>3. [name |-> X[1], args |-> h] \in CommandSet(S)
      BY <3>2 DEF CommandSet, V
    <3> QED BY <3>1, <3>3
  <2>12. CutOne(y, d)
    BY <2>8, <2>9, <2>10, <2>l DEF CutOne
  <2>13. ASSUME r = m, Len(d.args) <= MaxArgs PROVE y = d
    <3>1. Len(a) = Len(h) /\ Len(a) <= MaxArgs
      BY <2>4, <2>6, <2>10, <2>13
    <3>2. g = a
      BY <3>1 DEF g, Capped
    <3>3. l = Len(h)
      BY <2>l, <3>1, <3>2
    <3>4. SubSeq(h, 1, l) = h
      <4>1. SubSeq(h, 1, l) \in Seq(V) /\ Len(SubSeq(h, 1, l)) = l
            /\ \A j \in 1..l : SubSeq(h, 1, l)[j] = h[j]
        BY <2>6, <2>8, <2>l
      <4> QED BY <2>6, <3>3, <4>1, SameSeq
    <3>5. g = h
      BY <2>9, <3>4
    <3>6. y = [name |-> X[1], args |-> g] /\ d = [name |-> X[1], args |-> h]
      BY <2>2, <2>3, <2>6, Zenon DEF g, a, h
    <3> HIDE DEF y, d
    <3> QED BY <3>5, <3>6
  <2> QED BY <2>11, <2>12, <2>13 DEF m, A
<1> QED BY <1>2, <1>3

(* What a line means. *)
LEMMA MeaningFacts ==
  ASSUME NEW S, NEW L \in Seq(S)
  PROVE  LET N == Cardinality(Pipes(L))
         IN  /\ N \in Nat /\ Meaning(L) \in Seq(CommandSet(S))
             /\ Len(Meaning(L)) = IF NamedIn(L, N + 1) = {} THEN N ELSE N + 1
             /\ \A k \in 1..Len(Meaning(L)) : Meaning(L)[k] = CommandIn(L, k)
<1> DEFINE N == Cardinality(Pipes(L))
           V == CommandSet(S)
           C == CommandsIn(L)
           f(k) == CommandIn(L, k)
<1>1. N \in Nat
  <2>1. Len(L) \in Nat /\ Pipes(L) \subseteq 1..Len(L)
    BY PlacesFacts
  <2> QED BY <2>1, RankFacts
<1>2. \A k \in Nat : f(k) \in V
  <2> SUFFICES ASSUME NEW k \in Nat PROVE f(k) \in V
    OBVIOUS
  <2> DEFINE m == Cardinality(NamedIn(L, k))
  <2>1. m \in Nat /\ (m = 0 => NamedIn(L, k) = {})
    BY TextsFacts, FS_EmptySet
  <2>2. m \in 0..m /\ (m # 0 \/ NamedIn(L, k) = {})
    BY <2>1
  <2> QED BY <2>2, CommandCut
<1>3. C = [k \in 1..(N + 1) |-> f(k)]
  BY Zenon DEF CommandsIn
<1>4. Meaning(L) = IF NamedIn(L, Len(C)) = {} THEN SubSeq(C, 1, Len(C) - 1) ELSE C
  BY MeaningParts, Zenon
<1> HIDE DEF N, V, C, f
<1>5. C \in [1..(N + 1) -> V] /\ \A k \in 1..(N + 1) : C[k] = f(k)
  BY <1>1, <1>2, <1>3
<1>6. C \in Seq(V) /\ Len(C) = N + 1
  BY <1>1, <1>5
<1>7. CASE NamedIn(L, N + 1) = {}
  <2>1. Meaning(L) = SubSeq(C, 1, N)
    <3>1. (N + 1) - 1 = N
      BY <1>1
    <3> QED BY <1>4, <1>6, <1>7, <3>1
  <2>2. SubSeq(C, 1, N) \in Seq(V) /\ Len(SubSeq(C, 1, N)) = N
        /\ \A k \in 1..N : SubSeq(C, 1, N)[k] = C[k] /\ k \in 1..(N + 1)
    BY <1>1, <1>6
  <2> QED BY <1>1, <1>5, <1>7, <2>1, <2>2 DEF N, V, f
<1>8. CASE NamedIn(L, N + 1) # {}
  <2>1. Meaning(L) = C
    BY <1>4, <1>6, <1>8
  <2> QED BY <1>1, <1>5, <1>6, <1>8, <2>1 DEF N, V, f
<1> QED BY <1>7, <1>8

(* The commands of the parser's last state. *)
LEMMA FinishCut ==
  ASSUME NEW S, NEW L \in Seq(S), NEW a \in 0..Len(L)
  PROVE  CutFrom(Finish(Parsed(L, a)), Meaning(L))
<1> DEFINE n == Len(L)
           P == Pipes(L)
           N == Cardinality(P)
           c == Rank(P, a)
           A == NamedIn(L, c + 1)
           r == Rank(A, a)
           y == CommandUpto(L, c + 1, r)
           V == CommandSet(S)
           M == Meaning(L)
           M0 == MaxCommands
           F == Finish(Parsed(L, a))
           z == Closed(L, c)
           f(k) == CommandUpto(L, k, Cardinality(NamedIn(L, k)))
<1>1. n \in Nat /\ P \subseteq 1..n /\ A \subseteq 1..n /\ a \in 0..n /\ M0 \in Nat
  BY PlacesFacts, CapacityAssumption
<1>2. N \in Nat /\ c \in Nat /\ c <= N
  <2> HIDE DEF P, n
  <2> QED BY <1>1, RankFacts
<1>3. r \in Nat /\ r <= Cardinality(A) /\ Cardinality(A) \in Nat /\ (r # 0 => A # {})
  <2> HIDE DEF A, n
  <2>1. r \in Nat /\ r <= Cardinality(A) /\ Cardinality(A) \in Nat /\ (r = 0 <=> Upto(A, a) = {})
    BY <1>1, RankFacts
  <2>2. Upto(A, a) \subseteq A
    BY DEF Upto
  <2> QED BY <2>1, <2>2
<1>4. y \in V /\ (y.name = << >> <=> r = 0)
  <2>1. r \in 0..Cardinality(A) /\ c + 1 \in Nat
    BY <1>2, <1>3
  <2> QED BY <2>1, CommandFacts
<1>5. /\ M \in Seq(V) /\ Len(M) = (IF NamedIn(L, N + 1) = {} THEN N ELSE N + 1)
      /\ \A k \in 1..Len(M) : M[k] = CommandIn(L, k)
  BY MeaningFacts
<1>6. z \in Seq(V) /\ Len(z) = Shorter(c, M0) /\ \A k \in 1..Len(z) : z[k] = f(k)
  <2>1. z \in Seq(V) /\ Len(z) = Shorter(c, M0)
    BY <1>2, CloseStep
  <2>2. z = [k \in 1..Shorter(c, M0) |-> f(k)]
    BY Zenon DEF Closed
  <2>3. \A k \in 1..Shorter(c, M0) : z[k] = f(k)
    <3> HIDE DEF f, z
    <3> QED BY <2>2
  <2> QED BY <2>1, <2>3
<1>7. F = IF y.name = << >> THEN z ELSE PushUnlessFull(z, y, M0)
  <2>1. Parsed(L, a) = [cmds |-> z, current |-> y]
    BY Zenon DEF Parsed, Opened
  <2>2. \A s, t : Finish([cmds |-> s, current |-> t]) = IF t.name = << >> THEN s ELSE PushUnlessFull(s, t, M0)
    BY DEF Finish
  <2> HIDE DEF z, y
  <2> QED BY <2>1, <2>2
<1>8. ASSUME NEW k \in Nat PROVE CutOne(f(k), CommandIn(L, k))
  <2> DEFINE m == Cardinality(NamedIn(L, k))
  <2>1. m \in Nat /\ (m = 0 => NamedIn(L, k) = {})
    BY TextsFacts, FS_EmptySet
  <2>2. m \in 0..m /\ (m # 0 \/ NamedIn(L, k) = {})
    BY <2>1
  <2> QED BY <2>2, CommandCut
<1>9. r # 0 => CutOne(y, CommandIn(L, c + 1))
  <2>1. r \in 0..Cardinality(A) /\ c + 1 \in Nat
    BY <1>2, <1>3
  <2> QED BY <2>1, CommandCut
<1>10. c + 1 <= Len(M) \/ (r = 0 /\ c <= Len(M))
  <2>1. r # 0 /\ c = N => NamedIn(L, N + 1) # {}
    BY <1>3
  <2> HIDE DEF N, c, r, M, A
  <2> QED BY <1>2, <1>5, <2>1
<1> HIDE DEF n, P, N, c, A, r, y, V, M, M0, F, z, f
<1>11. Len(M) \in Nat /\ Shorter(c, M0) \in Nat /\ Shorter(c, M0) <= c
       /\ (c < M0 => Shorter(c, M0) = c) /\ (~(c < M0) => Shorter(c, M0) = M0)
  BY <1>1, <1>2, <1>5 DEF Shorter
<1>12. ASSUME Len(F) \in Nat, Len(F) <= Len(M), \A k \in 1..Len(F) : CutOne(F[k], CommandIn(L, k))
       PROVE  CutFrom(F, M)
  <2>1. \A k \in 1..Len(F) : k \in 1..Len(M)
    BY <1>11, <1>12
  <2>2. \A k \in 1..Len(F) : CutOne(F[k], M[k])
    BY <1>5, <1>12, <2>1
  <2> QED BY <1>12, <2>2, Zenon DEF CutFrom, CutOne
<1>13. CASE r = 0 \/ ~(c < M0)
  <2>1. F = z
    <3>1. CASE r = 0
      BY <1>4, <1>7, <3>1
    <3>2. CASE r # 0
      <4>1. ~(Len(z) < M0)
        BY <1>1, <1>6, <1>11, <1>13, <3>2
      <4> QED BY <1>4, <1>7, <3>2, <4>1 DEF PushUnlessFull
    <3> QED BY <3>1, <3>2
  <2>2. Len(F) \in Nat /\ Len(F) <= Len(M)
    BY <1>2, <1>6, <1>10, <1>11, <2>1
  <2>3. \A k \in 1..Len(F) : CutOne(F[k], CommandIn(L, k))
    <3> SUFFICES ASSUME NEW k \in 1..Len(F) PROVE CutOne(F[k], CommandIn(L, k))
      OBVIOUS
    <3>1. k \in Nat /\ F[k] = f(k)
      BY <1>6, <2>1, <2>2
    <3> QED BY <1>8, <3>1
  <2> QED BY <1>12, <2>2, <2>3 DEF F, M
<1>14. CASE r # 0 /\ c < M0
  <2>1. F = Append(z, y)
    <3>1. Len(z) < M0
      BY <1>6, <1>11, <1>14
    <3> QED BY <1>4, <1>7, <1>14, <3>1 DEF PushUnlessFull
  <2>2. Len(z) = c
    BY <1>6, <1>11, <1>14
  <2>3. Len(F) = c + 1 /\ \A k \in 1..(c + 1) : F[k] = IF k = c + 1 THEN y ELSE z[k]
    BY <1>2, <1>4, <1>6, <2>1, <2>2
  <2>4. Len(F) \in Nat /\ Len(F) <= Len(M)
    BY <1>2, <1>10, <1>14, <2>3
  <2>5. \A k \in 1..Len(F) : CutOne(F[k], CommandIn(L, k))
    <3> SUFFICES ASSUME NEW k \in 1..(c + 1) PROVE CutOne(F[k], CommandIn(L, k))
      BY <2>3
    <3>1. CASE k = c + 1
      BY <1>9, <1>14, <2>3, <3>1
    <3>2. CASE k # c + 1
      <4>1. k \in 1..c /\ k \in Nat
        BY <1>2, <3>2
      <4>2. F[k] = f(k)
        BY <1>6, <2>2, <2>3, <3>2, <4>1
      <4> QED BY <1>8, <4>1, <4>2
    <3> QED BY <3>1, <3>2
  <2> QED BY <1>12, <2>4, <2>5 DEF F, M
<1> QED BY <1>13, <1>14

(* Nothing is lost where nothing is full. *)
LEMMA FinishAll ==
  ASSUME NEW S, NEW L \in Seq(S), Len(Meaning(L)) <= MaxCommands,
         \A k \in 1..Len(Meaning(L)) : Len(Meaning(L)[k].args) <= MaxArgs
  PROVE  Finish(Parsed(L, Len(L))) = Meaning(L)
<1> DEFINE n == Len(L)
           P == Pipes(L)
           N == Cardinality(P)
           A == NamedIn(L, N + 1)
           r == Cardinality(A)
           y == CommandUpto(L, N + 1, r)
           V == CommandSet(S)
           M == Meaning(L)
           M0 == MaxCommands
           F == Finish(Parsed(L, n))
           f(k) == CommandUpto(L, k, Cardinality(NamedIn(L, k)))
<1>1. n \in Nat /\ P \subseteq 1..n /\ A \subseteq 1..n /\ M0 \in Nat
  BY PlacesFacts, CapacityAssumption
<1>2. N \in Nat /\ Rank(P, n) = N
  <2> HIDE DEF P, n
  <2> QED BY <1>1, RankFacts
<1>3. r \in Nat /\ Rank(A, n) = r /\ (r = 0 <=> A = {})
  <2> HIDE DEF A, n
  <2>1. IsFiniteSet(A) /\ r \in Nat /\ Rank(A, n) = r
    BY <1>1, RankFacts
  <2> QED BY <2>1, FS_EmptySet
<1>4. y.name = << >> <=> r = 0
  <2>1. r \in 0..r /\ N + 1 \in Nat
    BY <1>2, <1>3
  <2> QED BY <2>1, CommandFacts
<1>5. /\ M \in Seq(V) /\ Len(M) = (IF A = {} THEN N ELSE N + 1)
      /\ \A k \in 1..Len(M) : M[k] = CommandIn(L, k)
  BY MeaningFacts
<1>6. F = IF y.name = << >> THEN Closed(L, N) ELSE PushUnlessFull(Closed(L, N), y, M0)
  <2>1. Parsed(L, n) = [cmds |-> Closed(L, N), current |-> y]
    BY <1>2, <1>3, Zenon DEF Parsed, Opened
  <2>2. \A s, t : Finish([cmds |-> s, current |-> t]) = IF t.name = << >> THEN s ELSE PushUnlessFull(s, t, M0)
    BY DEF Finish
  <2> HIDE DEF y
  <2> QED BY <2>1, <2>2
<1>7. PushUnlessFull(Closed(L, N), y, M0) = Closed(L, N + 1)
  BY <1>2, CloseStep
<1>8. F = Closed(L, Len(M))
  <2> HIDE DEF r, A, y, M, F, N
  <2> QED BY <1>3, <1>4, <1>5, <1>6, <1>7
<1>9. Len(M) \in Nat /\ Len(M) <= M0 /\ \A k \in 1..Len(M) : Len(M[k].args) <= MaxArgs
  BY <1>5
<1>10. F \in Seq(V) /\ Len(F) = Len(M) /\ \A k \in 1..Len(M) : F[k] = f(k)
  <2> DEFINE l == Len(M)
  <2>1. Shorter(l, M0) = l
    BY <1>9 DEF Shorter
  <2>2. Closed(L, l) \in Seq(V) /\ Len(Closed(L, l)) = Shorter(l, M0)
    BY <1>9, CloseStep
  <2>3. Closed(L, l) = [k \in 1..Shorter(l, M0) |-> f(k)]
    BY Zenon DEF Closed
  <2> HIDE DEF f, l, F, M0
  <2>4. \A k \in 1..l : Closed(L, l)[k] = f(k)
    BY <2>1, <2>3
  <2> QED BY <1>8, <2>1, <2>2, <2>4 DEF l
<1>11. ASSUME NEW k \in 1..Len(M) PROVE f(k) = CommandIn(L, k)
  <2> DEFINE m == Cardinality(NamedIn(L, k))
  <2>0. k \in Nat /\ Len(CommandIn(L, k).args) <= MaxArgs
    BY <1>5, <1>9
  <2>1. m \in Nat /\ (m = 0 => NamedIn(L, k) = {})
    BY <2>0, TextsFacts, FS_EmptySet
  <2>2. m \in 0..m /\ (m # 0 \/ NamedIn(L, k) = {})
    BY <2>1
  <2> QED BY <2>0, <2>2, CommandCut
<1> HIDE DEF F, M, f, V
<1>12. \A k \in 1..Len(F) : F[k] = M[k]
  BY <1>5, <1>10, <1>11
<1>13. F = M
  BY <1>5, <1>10, <1>12, SameSeq
<1> QED BY <1>13 DEF F, M

(* What tokenize and parse_pipeline make of a line. *)
LEMMA ParseMeans ==
  ASSUME NEW S, NEW L \in Seq(S)
  PROVE  /\ CutFrom(ParsePipeline(Tokenize(L)), Meaning(L))
         /\ (/\ Len(Meaning(L)) <= MaxCommands
             /\ \A k \in 1..Len(Meaning(L)) : Len(Meaning(L)[k].args) <= MaxArgs
             /\ Len(L) <= MaxTokens)
            => ParsePipeline(Tokenize(L)) = Meaning(L)
<1> DEFINE W == TokenSet(S)
<1>1. PICK q \in Seq(W) : \E z : Tokenize(L) = Capped(q, MaxTokens) /\ Trace(L, 0, q, z)
  BY TokenizeFacts
<1>2. PICK z : Tokenize(L) = Capped(q, MaxTokens) /\ Trace(L, 0, q, z)
  BY <1>1
<1> DEFINE u == Capped(q, MaxTokens)
<1> HIDE DEF W
<1>3. /\ u \in Seq(W) /\ Len(u) = Shorter(Len(q), MaxTokens)
      /\ \A j \in 1..Len(u) : u[j] = q[j]
  BY CapacityAssumption, CapFacts
<1>4. Len(q) \in Nat /\ Len(u) \in Nat /\ Len(u) <= Len(q) /\ MaxTokens \in Nat
      /\ (Len(q) <= MaxTokens => Len(u) = Len(q))
  <2>1. Len(q) \in Nat /\ MaxTokens \in Nat
    BY CapacityAssumption
  <2> HIDE DEF u
  <2> QED BY <1>3, <2>1 DEF Shorter
<1> HIDE DEF u
<1>5. ParsePipeline(u) = Finish(Parsed(L, z[Len(u)]))
  BY <1>2, <1>3, <1>4, PipelineFacts
<1>6. /\ \A j \in 0..Len(q) : z[j] \in 0..Len(L) /\ j <= z[j]
      /\ Parsed(L, z[Len(q)]) = Parsed(L, Len(L))
  BY <1>2, TraceFacts
<1>7. CutFrom(ParsePipeline(u), Meaning(L))
  <2>1. z[Len(u)] \in 0..Len(L)
    BY <1>4, <1>6
  <2> QED BY <1>5, <2>1, FinishCut
<1>8. ASSUME Len(Meaning(L)) <= MaxCommands,
             \A k \in 1..Len(Meaning(L)) : Len(Meaning(L)[k].args) <= MaxArgs,
             Len(L) <= MaxTokens
      PROVE  ParsePipeline(u) = Meaning(L)
  <2>1. Len(q) \in 0..Len(q)
    BY <1>4
  <2>2. z[Len(q)] \in 0..Len(L) /\ Len(q) <= z[Len(q)] /\ Len(L) \in Nat
    BY <1>6, <2>1
  <2>3. Len(q) <= MaxTokens
    BY <1>4, <1>8, <2>2
  <2>4. Len(u) = Len(q)
    BY <1>4, <2>3
  <2>5. ParsePipeline(u) = Finish(Parsed(L, Len(L)))
    BY <1>5, <1>6, <2>4
  <2>6. Finish(Parsed(L, Len(L))) = Meaning(L)
    BY <1>8, FinishAll
  <2> QED BY <2>5, <2>6
<1>9. Tokenize(L) = u
  BY <1>2 DEF u
<1> QED BY <1>7, <1>8, <1>9

-----------------------------------------------------------------------------
(* Enter.                                                                  *)

(* str::replace leaves a line alone that does not have the prompt in it. *)
LEMMA ReplaceNothing ==
  ASSUME NEW S, NEW L \in Seq(S), NEW p \in Seq(S), p # << >>, NEW by, ~Contains(L, p)
  PROVE  Replace(L, p, by) = L
<1> DEFINE n == Len(L)
           X(g, i) == CASE i > n -> << >>
                        [] i <= n - Len(p) + 1 /\ At(L, i, p) -> by \o g[i + Len(p)]
                        [] OTHER -> <<L[i]>> \o g[i + 1]
           Y(g, i) == IF i > n THEN << >> ELSE <<L[i]>> \o g[i + 1]
           E(g) == g = [i \in 1..(n + 1) |-> X(g, i)]
           w == CHOOSE g : E(g)
           G == [i \in 1..(n + 1) |-> SubSeq(L, i, n)]
<1>1. n \in Nat /\ Len(p) \in Nat /\ Len(p) > 0
  OBVIOUS
<1>2. Replace(L, p, by) = w[1]
  BY Zenon DEF Replace
<1>3. \A g : \A i \in 1..(n + 1) : X(g, i) = Y(g, i)
  <2>1. \A i \in 1..(n - Len(p) + 1) : ~At(L, i, p)
    BY DEF Contains
  <2>2. ASSUME NEW i \in 1..(n + 1) PROVE ~(i <= n - Len(p) + 1 /\ At(L, i, p))
    <3>1. i <= n - Len(p) + 1 => i \in 1..(n - Len(p) + 1)
      BY <1>1
    <3> QED BY <2>1, <3>1
  <2> QED BY <2>2
<1>4. SubSeq(L, n + 1, n) = << >> /\ SubSeq(L, 1, n) = L
  OBVIOUS
<1>5. ASSUME NEW i \in 1..n
      PROVE  <<L[i]>> \o SubSeq(L, i + 1, n) = SubSeq(L, i, n)
  <2> DEFINE a == SubSeq(L, i + 1, n)
             b == SubSeq(L, i, n)
             c == <<L[i]>> \o a
  <2>1. L[i] \in S
    OBVIOUS
  <2>2. b \in Seq(S) /\ Len(b) = n - i + 1 /\ \A j \in 1..(n - i + 1) : b[j] = L[i + j - 1]
    OBVIOUS
  <2>3. a \in Seq(S) /\ Len(a) = n - i /\ \A j \in 1..(n - i) : a[j] = L[i + j]
    <3>1. CASE i = n
      <4>1. (n + 1)..n = {} /\ 1..0 = {} /\ n - n = 0
        BY <1>1
      <4>2. a = << >>
        BY <3>1, <4>1
      <4> QED BY <3>1, <4>1, <4>2
    <3>2. CASE i # n
      BY <3>2
    <3> QED BY <3>1, <3>2
  <2> HIDE DEF a, b
  <2>4. c \in Seq(S) /\ Len(c) = 1 + (n - i) /\ c[1] = L[i] /\ \A j \in 1..(n - i) : c[j + 1] = a[j]
    <3> DEFINE x == L[i]
               m == n - i
    <3>1. x \in S /\ a \in Seq(S) /\ Len(a) = m
      BY <2>1, <2>3
    <3> HIDE DEF x, m
    <3>2. /\ <<x>> \o a \in Seq(S) /\ Len(<<x>> \o a) = 1 + m /\ (<<x>> \o a)[1] = x
          /\ \A j \in 1..m : (<<x>> \o a)[j + 1] = a[j]
      BY ONLY <3>1
    <3> QED BY <3>2 DEF x, m
  <2> HIDE DEF c, n
  <2>5. i \in Nat /\ i <= n
    BY <1>1
  <2>6. Len(b) = Len(c)
    BY <1>1, <2>2, <2>4, <2>5
  <2>7. \A j \in 1..Len(c) : c[j] = b[j]
    <3> SUFFICES ASSUME NEW j \in 1..(1 + (n - i)) PROVE c[j] = b[j]
      BY <2>4
    <3>1. j \in 1..(n - i + 1)
      BY <1>1, <2>5
    <3>2. CASE j = 1
      <4>1. i + 1 - 1 = i
        BY <2>5
      <4> QED BY <2>2, <2>4, <3>1, <3>2, <4>1
    <3>3. CASE j # 1
      <4>1. j - 1 \in 1..(n - i) /\ (j - 1) + 1 = j /\ i + (j - 1) = i + j - 1
        BY <1>1, <2>5, <3>3
      <4> QED BY <2>2, <2>3, <2>4, <3>1, <4>1
    <3> QED BY <3>2, <3>3
  <2>8. c = b
    BY <2>2, <2>4, <2>6, <2>7, SameSeq
  <2> QED BY <2>8 DEF a, b, c
<1> HIDE DEF n, X
<1>6. \A i \in 1..(n + 1) : G[i] = SubSeq(L, i, n)
  OBVIOUS
<1>7. \A i \in 1..n : i \in 1..(n + 1) /\ i + 1 \in 1..(n + 1) /\ ~(i > n)
  BY <1>1
<1>8. n + 1 \in 1..(n + 1) /\ n + 1 > n /\ \A i \in 1..(n + 1) : i \in 1..n \/ i = n + 1
  BY <1>1
<1>9. E(G)
  <2>1. \A i \in 1..(n + 1) : G[i] = X(G, i)
    <3> SUFFICES ASSUME NEW i \in 1..(n + 1) PROVE G[i] = Y(G, i)
      BY <1>3
    <3> HIDE DEF G
    <3> QED BY <1>4, <1>5, <1>6, <1>7, <1>8
  <2> QED BY <2>1
<1>10. E(w)
  <2> HIDE DEF G
  <2> QED BY <1>9, Zenon
<1> HIDE DEF w
<1>11. w[n + 1] = << >> /\ \A i \in 1..n : w[i] = <<L[i]>> \o w[i + 1]
  <2>1. w = [i \in 1..(n + 1) |-> X(w, i)]
    BY <1>10, Zenon
  <2>2. \A i \in 1..(n + 1) : w[i] = X(w, i)
    BY <2>1, Zenon
  <2>3. \A i \in 1..(n + 1) : w[i] = Y(w, i)
    BY <1>3, <2>2
  <2> QED BY <1>7, <1>8, <2>3
<1> DEFINE T == {d \in 0..n : w[n + 1 - d] = SubSeq(L, n + 1 - d, n)}
<1>12. 0 \in T
  <2>1. n + 1 - 0 = n + 1 /\ 0 \in 0..n
    BY <1>1
  <2> QED BY <1>4, <1>11, <2>1
<1>13. ASSUME NEW d \in 1..n, d - 1 \in T PROVE d \in T
  <2> DEFINE i == n + 1 - d
  <2>1. i \in 1..n /\ n + 1 - (d - 1) = i + 1 /\ d \in 0..n
    BY <1>1
  <2>2. w[i + 1] = SubSeq(L, i + 1, n)
    <3>1. w[n + 1 - (d - 1)] = SubSeq(L, n + 1 - (d - 1), n)
      BY <1>13
    <3> HIDE DEF i
    <3> QED BY <2>1, <3>1
  <2> HIDE DEF i
  <2>3. w[i] = SubSeq(L, i, n)
    BY <1>5, <1>11, <2>1, <2>2
  <2> QED BY <2>1, <2>3 DEF i
<1>14. n \in T
  <2> HIDE DEF T
  <2>1. 0..n \subseteq T
    BY <1>1, <1>12, <1>13, StepByStep, Zenon
  <2> QED BY <1>1, <2>1
<1>15. w[1] = L
  <2>1. n + 1 - n = 1
    BY <1>1
  <2> QED BY <1>4, <1>14, <2>1
<1> QED BY <1>2, <1>15

(* The empty line means nothing. *)
LEMMA MeansNothing == Meaning(<< >>) = << >>
<1> DEFINE e == << >>
           N == Cardinality(Pipes(e))
<1>1. e \in Seq(Chars) /\ Len(e) = 0 /\ 1..0 = {}
  OBVIOUS
<1>2. Pipes(e) = {} /\ NamedIn(e, N + 1) = {}
  <2> HIDE DEF e, N
  <2>1. Pipes(e) \subseteq 1..Len(e) /\ NamedIn(e, N + 1) \subseteq 1..Len(e)
    BY <1>1, PlacesFacts
  <2> QED BY <1>1, <2>1
<1>3. N = 0
  <2> HIDE DEF e
  <2> QED BY <1>2, FS_EmptySet
<1>4. Meaning(e) \in Seq(CommandSet(Chars)) /\ Len(Meaning(e)) = 0
  <2> HIDE DEF e
  <2>1. /\ Meaning(e) \in Seq(CommandSet(Chars))
        /\ Len(Meaning(e)) = IF NamedIn(e, N + 1) = {} THEN N ELSE N + 1
    BY <1>1, MeaningFacts
  <2> QED BY <1>2, <1>3, <2>1
<1> HIDE DEF e
<1>5. Meaning(e) = << >>
  BY <1>4
<1> QED BY <1>5 DEF e

(* RunsWhatWasTyped, of a line and the commands run for it. *)
Means(l, c) ==
  ~Contains(l, Prompt) =>
    /\ CutFrom(c, Meaning(l))
    /\ (/\ Len(Meaning(l)) <= MaxCommands
        /\ \A k \in 1..Len(Meaning(l)) : Len(Meaning(l)[k].args) <= MaxArgs
        /\ Len(l) <= MaxTokens)
       => c = Meaning(l)

(* Enter runs what the line means. *)
LEMMA EnterRuns ==
  ASSUME NEW l \in Seq(Chars)
  PROVE  Means(l, ParsePipeline(Tokenize(Replace(l, Prompt, <<"\n">>))))
<1> DEFINE by == <<"\n">>
<1>1. ASSUME ~Contains(l, Prompt) PROVE Replace(l, Prompt, by) = l
  <2> HIDE DEF by
  <2> QED BY <1>1, TextAssumption, ReplaceNothing
<1> HIDE DEF by
<1>2. Means(l, ParsePipeline(Tokenize(Replace(l, Prompt, by))))
  BY <1>1, ParseMeans DEF Means
<1> QED BY <1>2 DEF by

(* No line has been entered, and no command run. *)
LEMMA TypedStart == Init => RunsWhatWasTyped
<1> SUFFICES ASSUME Init PROVE RunsWhatWasTyped
  OBVIOUS
<1>1. ran.line = << >> /\ ran.cmds = << >>
  BY DEF Init
<1>2. CutFrom(<< >>, << >>)
  BY DEF CutFrom
<1> QED BY <1>1, <1>2, MeansNothing DEF RunsWhatWasTyped

(* Only Enter runs commands, and it runs what the line means. *)
LEMMA TypedStep == EditorInv /\ RunsWhatWasTyped /\ [Next]_vars => RunsWhatWasTyped'
<1> SUFFICES ASSUME EditorInv, RunsWhatWasTyped, [Next]_vars PROVE RunsWhatWasTyped'
  OBVIOUS
<1>1. CASE ran' = ran
  BY <1>1 DEF RunsWhatWasTyped
<1>2. CASE KeyEnter
  <2>1. line \in Seq(Chars)
    <3>1. keys \in Alphabets /\ line \in Lines(keys)
      BY DEF EditorInv, EditorTypes
    <3> QED BY <3>1, LineFacts
  <2> DEFINE c == ParsePipeline(Tokenize(Replace(line, Prompt, <<"\n">>)))
  <2>2. ran' = [line |-> line, cmds |-> c]
    BY <1>2 DEF KeyEnter
  <2>3. Means(line, c)
    BY <2>1, EnterRuns
  <2> HIDE DEF c
  <2>4. ran'.line = line /\ ran'.cmds = c
    BY <2>2
  <2> QED BY <2>3, <2>4 DEF RunsWhatWasTyped, Means
<1>3. KeyEnter \/ ran' = ran
  BY DEF Next, KeyChar, KeyBackspace, KeyUp, KeyDown, Recall, vars
<1> QED BY <1>1, <1>2, <1>3

(* Enter runs the commands the line means, whatever was typed: every       *)
(* command in its place, each with its name and its first arguments, and   *)
(* all of them where no capacity is exceeded.  tokenize and parse_pipeline *)
(* are shown to compute this for every line, by the positions at which the *)
(* automaton of Meaning finds words and pipes.                             *)
THEOREM EditorRunsWhatWasTyped == Spec => []RunsWhatWasTyped
<1>1. QED
  BY TypedStart, TypedStep, EditorInvariance, PTL DEF Spec
=============================================================================
