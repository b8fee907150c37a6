------------------------------- MODULE Screen -------------------------------
(***************************************************************************)
(* kernel/src/screen: the text cursor of the frame buffer.  A cell is 8    *)
(* pixels wide and 9 high; it is modelled by the glyphs drawn into it      *)
(* since it was last cleared, because write_char sets pixels and clears    *)
(* none.                                                                   *)
(***************************************************************************)
EXTENDS Naturals, Sequences

CONSTANTS
  Columns,     \* info.width / 8
  Rows,        \* info.height / 9
  BasicFont    \* characters BASIC_FONTS has; all of them are one byte long

ASSUME ScreenAssumption == Columns \in Nat \ {0} /\ Rows \in Nat \ {0}

Cells == 0..(Columns * Rows - 1)
Position(s) == s.y * Columns + s.x

\* write_char: a space, and what the font does not have, draws nothing.
Glyph(c) == IF c \in BasicFont \ {" "} THEN {c} ELSE {}

\* Writer::new, clear.
BlankScreen == [cells |-> [p \in Cells |-> {}], x |-> 0, y |-> 0]

\* scroll_up: every row takes the next one's pixels, the last is cleared.
ScrollUp(cells) == [p \in Cells |-> IF p + Columns \in Cells THEN cells[p + Columns] ELSE {}]

NextRow(s) ==
  IF s.y + 1 < Rows THEN [s EXCEPT !.x = 0, !.y = s.y + 1]
  ELSE [s EXCEPT !.x = 0, !.cells = ScrollUp(s.cells)]

LeftInRow(s) == IF s.x > 0 THEN [s EXCEPT !.x = s.x - 1] ELSE s
Left(s) ==
  CASE s.x > 0 -> [s EXCEPT !.x = s.x - 1]
    [] s.x = 0 /\ s.y > 0 -> [s EXCEPT !.x = Columns - 1, !.y = s.y - 1]
    [] OTHER -> s

\* write_string_at_cursor, one character.
Put(s, c) ==
  LET drawn == [s EXCEPT !.cells[Position(s)] = @ \cup Glyph(c)]
  IN  CASE c = "BS" -> LET l == Left(s) IN [l EXCEPT !.cells[Position(l)] = {}]
        [] c = "\n" -> NextRow(s)
        [] OTHER -> IF s.x + 1 < Columns THEN [drawn EXCEPT !.x = s.x + 1] ELSE NextRow(drawn)

WriteString(s, text) ==
  LET after[i \in 0..Len(text)] == IF i = 0 THEN s ELSE Put(after[i - 1], text[i])
  IN  after[Len(text)]
=============================================================================
