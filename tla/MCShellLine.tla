---------------------------- MODULE MCShellLine ----------------------------
EXTENDS ShellLine

Editing == {"a", "umlaut"}
Parsing == {"a", " ", "|", "\"", "/", ">"}
MCAlphabets == {Editing, Parsing}
MCPrompt == <<"/", ">", " ">>
MCBasicFont == {"a", " ", "|", "\"", "/", ">", "o", "\n"}
MCLineBytes == [a \in MCAlphabets |-> IF a = Editing THEN 3 ELSE 5]
MCMaxEnters == [a \in MCAlphabets |-> IF a = Editing THEN 4 ELSE 1]
=============================================================================
