----------------------------- MODULE ShellLine -----------------------------
(***************************************************************************)
(* kernel/src/task/shell: what the shell does with the keys ShellIo brings *)
(* it.  The line editor, its history, the echo on the screen, and the      *)
(* commands that Enter runs.  Between two keys the shell is at an await.   *)
(***************************************************************************)
EXTENDS Screen, Tokenizer

CONSTANTS
  Prompt,         \* get_prompt(): nothing changes the path from "/"
  Alphabets,      \* sets of characters: the keys of a session
  LineBytes,      \* alphabet -> capacity of a line in bytes, 128
  MaxEnters,      \* alphabet -> bound on the lines entered
  HistorySize     \* 32

\* What a path and DecodedKey::Unicode hold: Enter is an arm of its own, and
\* Backspace a RawKey.
Chars == STRING \ {"\n", "BS"}

ASSUME TextAssumption ==
  /\ Prompt \in Seq(Chars) /\ Prompt # <<>>
  /\ \A a \in Alphabets : a \subseteq Chars

ASSUME HistoryAssumption == HistorySize \in Nat \ {0}

ASSUME RoomAssumption ==
  \A a \in Alphabets :
    LineBytes[a] \in Nat /\ Len(Prompt) + LineBytes[a] < Columns * Rows

VARIABLES
  keys,           \* the session's alphabet
  line,           \* shell_task's line
  entries, index, \* History
  screen,         \* SCREEN_WRITER
  enters,         \* lines entered
  ran,            \* the last line entered and the commands that were run for it
  fresh,          \* no history key since the last Enter
  overcleared     \* clear_line erased more cells than the line had

vars == <<keys, line, entries, index, screen, enters, ran, fresh, overcleared>>

\* UTF-8: what is not in the basic font is a letter of the German layout.
Bytes(text) ==
  LET upto[i \in 0..Len(text)] ==
        IF i = 0 THEN 0 ELSE upto[i - 1] + IF text[i] \in BasicFont THEN 1 ELSE 2
  IN  upto[Len(text)]

Init ==
  /\ keys \in Alphabets /\ enters = 0
  /\ line = <<>> /\ entries = <<>> /\ index = 0
  /\ screen = WriteString(BlankScreen, Prompt)
  /\ ran = [line |-> <<>>, cmds |-> <<>>] /\ fresh = TRUE /\ overcleared = FALSE

Typing == enters < MaxEnters[keys]

(***************************************************************************)
(* Characters and Backspace.                                               *)
(***************************************************************************)
Fits(c) == Bytes(line) + Bytes(<<c>>) <= LineBytes[keys]

KeyChar ==
  /\ Typing
  /\ \E c \in keys :
       /\ Fits(c)
       /\ line' = Append(line, c)
       /\ screen' = WriteString(screen, <<c>>)
  /\ UNCHANGED <<keys, entries, index, enters, ran, fresh, overcleared>>

Erase == <<"BS", " ", "BS">>

KeyBackspace ==
  /\ Typing /\ line # <<>>
  /\ line' = SubSeq(line, 1, Len(line) - 1)
  /\ screen' = WriteString(screen, Erase)
  /\ UNCHANGED <<keys, entries, index, enters, ran, fresh, overcleared>>

(***************************************************************************)
(* History.                                                                *)
(***************************************************************************)
IndexBeforePush == IF Len(entries) < HistorySize THEN Len(entries) ELSE index
IndexAfterPush == IF Len(entries) < HistorySize THEN Len(entries) + 1 ELSE index

ClearLine(s, n) ==
  LET after[i \in 0..n] == IF i = 0 THEN s ELSE WriteString(after[i - 1], Erase)
  IN  after[n]

\* clear_line counts bytes.
Recall(text) ==
  /\ line' = text
  /\ screen' = WriteString(ClearLine(screen, Bytes(line)), text)
  /\ overcleared' = (overcleared \/ Bytes(line) > Len(line))
  /\ fresh' = FALSE
  /\ UNCHANGED <<keys, entries, enters, ran>>

KeyUp ==
  /\ Typing /\ index > 0
  /\ index' = index - 1
  /\ Recall(entries[index' + 1])

BelowNewest == index + 1 < Len(entries)

KeyDown ==
  /\ Typing /\ BelowNewest
  /\ index' = index + 1
  /\ Recall(entries[index' + 1])

(***************************************************************************)
(* Enter.  str::replace turns the prompt's text, should the line have it,  *)
(* into a newline; each command prints some lines or none.                 *)
(***************************************************************************)
At(text, i, what) == SubSeq(text, i, i + Len(what) - 1) = what
Contains(text, what) == \E i \in 1..(Len(text) - Len(what) + 1) : At(text, i, what)
Replace(text, what, by) ==
  LET n == Len(text)
      from[i \in 1..(n + 1)] ==
        CASE i > n -> <<>>
          [] i <= n - Len(what) + 1 /\ At(text, i, what) -> by \o from[i + Len(what)]
          [] OTHER -> <<text[i]>> \o from[i + 1]
  IN  from[1]

Output(rows) == [i \in 1..(2 * rows) |-> IF i % 2 = 1 THEN "o" ELSE "\n"]

KeyEnter ==
  /\ Typing
  /\ LET cmds == ParsePipeline(Tokenize(Replace(line, Prompt, <<"\n">>)))
     IN  /\ ran' = [line |-> line, cmds |-> cmds]
         /\ \E rows \in 0..Len(cmds) :
              screen' = WriteString(screen, <<"\n">> \o Output(rows) \o Prompt)
  /\ entries' = PushUnlessFull(entries, line, HistorySize)
  /\ index' = IndexAfterPush
  /\ line' = <<>> /\ fresh' = TRUE /\ enters' = enters + 1
  /\ UNCHANGED <<keys, overcleared>>

Next == KeyChar \/ KeyBackspace \/ KeyUp \/ KeyDown \/ KeyEnter

Spec == Init /\ [][Next]_vars

(***************************************************************************)
(* Properties.                                                             *)
(***************************************************************************)

\* The types; the line within its capacity, the history's cursor within it.
TypeOK ==
  /\ keys \in Alphabets /\ enters \in Nat /\ fresh \in BOOLEAN /\ overcleared \in BOOLEAN
  /\ line \in Seq(keys) /\ Bytes(line) <= LineBytes[keys]
  /\ Len(entries) <= HistorySize /\ \A i \in 1..Len(entries) : entries[i] \in Seq(keys)
  /\ index \in 0..Len(entries)
  /\ screen.x \in 0..(Columns - 1) /\ screen.y \in 0..(Rows - 1)
  /\ \A p \in Cells : screen.cells[p] \subseteq BasicFont

\* The user sees what Enter will run: the cells up to the cursor show the prompt
\* and the line, across row ends and scrolling, and after the cursor there is
\* nothing. It is lost once clear_line has met a two-byte character.
ScreenShowsLine ==
  overcleared \/
    LET text == Prompt \o line
        first == Position(screen) - Len(text)
    IN  /\ first >= 0
        /\ \A i \in 1..Len(text) : screen.cells[first + i - 1] = Glyph(text[i])
        /\ \A p \in Cells : p >= Position(screen) => screen.cells[p] = {}

\* What is run is what the line means, cut at the end where a capacity is
\* exceeded; the whole of it when none is. Lines with the prompt's text in them
\* are not: str::replace joins what the prompt's space separates.
RunsWhatWasTyped ==
  ~Contains(ran.line, Prompt) =>
    LET meant == Meaning(ran.line)
    IN  /\ CutFrom(ran.cmds, meant)
        /\ (/\ Len(meant) <= MaxCommands
            /\ \A k \in 1..Len(meant) : Len(meant[k].args) <= MaxArgs
            /\ Len(ran.line) <= MaxTokens)
           => ran.cmds = meant

\* While the history has room, the first ArrowUp after Enter brings back the
\* line just entered, and any further key in the history one of its lines, the
\* neighbour of the one it showed before.
RecallsInOrder ==
  [][index' # index /\ enters' = enters =>
       /\ \E i \in 1..Len(entries) : i = index' + 1 /\ line' = entries[i]
       /\ index' \in {index - 1, index + 1}
       /\ fresh /\ enters > 0 /\ enters <= HistorySize => line' = ran.line]_vars
=============================================================================
