----------------------------- MODULE Tokenizer -----------------------------
(***************************************************************************)
(* kernel/src/task/shell/tokenizer: from a line, a sequence of characters, *)
(* to the commands that are run.  All three sequences have a capacity;     *)
(* what does not fit is dropped without a word (push(..).ok()).            *)
(***************************************************************************)
EXTENDS Naturals, Sequences, FiniteSets

CONSTANTS
  MaxTokens,      \* 64
  MaxCommands,    \* 8
  MaxArgs         \* 16

ASSUME CapacityAssumption == MaxTokens \in Nat /\ MaxCommands \in Nat /\ MaxArgs \in Nat

Capped(s, n) == IF Len(s) <= n THEN s ELSE SubSeq(s, 1, n)
PushUnlessFull(s, e, n) == IF Len(s) < n THEN Append(s, e) ELSE s

Pipe == [pipe |-> TRUE, text |-> <<>>]
Word(text) == [pipe |-> FALSE, text |-> text]

\* The first position from i on that holds one of the stops, or one past the end.
Until(line, i, stops) ==
  CHOOSE j \in i..(Len(line) + 1) :
    /\ j <= Len(line) => line[j] \in stops
    /\ \A k \in i..(j - 1) : line[k] \notin stops

\* tokenize: a quote that is not closed runs to the end of the line.
Tokenize(line) ==
  LET n == Len(line)
      from[i \in 1..(n + 2)] ==
        IF i > n THEN <<>>
        ELSE CASE line[i] = " " -> from[i + 1]
               [] line[i] = "|" -> <<Pipe>> \o from[i + 1]
               [] line[i] = "\"" -> LET e == Until(line, i + 1, {"\""})
                                   IN  <<Word(SubSeq(line, i + 1, e - 1))>> \o from[e + 1]
               [] OTHER -> LET e == Until(line, i, {" ", "|"})
                           IN  <<Word(SubSeq(line, i, e - 1))>> \o from[e]
  IN  Capped(from[1], MaxTokens)

\* parse_pipeline: the first word that is not empty is the command's name.
NoCommand == [name |-> <<>>, args |-> <<>>]
ParseWithoutReset(p, t) ==
  CASE t.pipe -> [cmds |-> PushUnlessFull(p.cmds, p.current, MaxCommands),
                  current |-> [p.current EXCEPT !.name = <<>>]]
    [] ~t.pipe /\ p.current.name = <<>> -> [p EXCEPT !.current.name = t.text]
    [] OTHER -> [p EXCEPT !.current.args = PushUnlessFull(@, t.text, MaxArgs)]
ParseToken(p, t) ==
  CASE t.pipe -> [cmds |-> PushUnlessFull(p.cmds, p.current, MaxCommands), current |-> NoCommand]
    [] ~t.pipe /\ p.current.name = <<>> -> [p EXCEPT !.current.name = t.text]
    [] OTHER -> [p EXCEPT !.current.args = PushUnlessFull(@, t.text, MaxArgs)]

ParsePipeline(tokens) ==
  LET after[i \in 0..Len(tokens)] ==
        IF i = 0 THEN [cmds |-> <<>>, current |-> NoCommand]
        ELSE ParseToken(after[i - 1], tokens[i])
      p == after[Len(tokens)]
  IN  IF p.current.name = <<>> THEN p.cmds
      ELSE PushUnlessFull(p.cmds, p.current, MaxCommands)

(***************************************************************************)
(* What a line means, without capacities and without scanning for the ends *)
(* of words: an automaton reads the line, words are the longest stretches  *)
(* in one mode, and pipes outside quotes cut the words into commands.      *)
(***************************************************************************)
Modes(line) ==
  LET mode[i \in 0..Len(line)] ==
        IF i = 0 THEN "gap"
        ELSE LET c == line[i] IN
             CASE mode[i - 1] = "quote" -> IF c = "\"" THEN "gap" ELSE "quote"
               [] mode[i - 1] = "word" -> IF c \in {" ", "|"} THEN "gap" ELSE "word"
               [] OTHER -> IF c \in {" ", "|"} THEN "gap" ELSE IF c = "\"" THEN "quote" ELSE "word"
  IN  mode

Meaning(line) ==
  LET mode == Modes(line)
      Positions == 1..Len(line)
      starts == {i \in Positions : mode[i - 1] = "gap" /\ mode[i] # "gap"}
      pipes == {i \in Positions : line[i] = "|" /\ mode[i - 1] # "quote"}
      End(i) == CHOOSE j \in i..Len(line) :
                  /\ \A k \in i..j : mode[k] = mode[i]
                  /\ j = Len(line) \/ mode[j + 1] # mode[i]
      Text(i) == SubSeq(line, IF mode[i] = "quote" THEN i + 1 ELSE i, End(i))
      Within(k) == {i \in starts : Cardinality({j \in pipes : j < i}) = k - 1}
      Nth(S, n) == CHOOSE i \in S : Cardinality({j \in S : j <= i}) = n
      Named(k) == {i \in Within(k) : \E j \in Within(k) : j <= i /\ Text(j) # <<>>}
      Words(k) == [n \in 1..Cardinality(Named(k)) |-> Text(Nth(Named(k), n))]
      Command(k) == IF Named(k) = {} THEN NoCommand
                    ELSE [name |-> Head(Words(k)), args |-> Tail(Words(k))]
      all == [k \in 1..(Cardinality(pipes) + 1) |-> Command(k)]
  IN  IF Named(Len(all)) = {} THEN SubSeq(all, 1, Len(all) - 1) ELSE all

\* cmds is what is left of meant when things are dropped at the end.
CutFrom(cmds, meant) ==
  /\ Len(cmds) <= Len(meant)
  /\ \A k \in 1..Len(cmds) :
       /\ cmds[k].name = meant[k].name
       /\ Len(cmds[k].args) <= Len(meant[k].args)
       /\ cmds[k].args = SubSeq(meant[k].args, 1, Len(cmds[k].args))
=============================================================================
