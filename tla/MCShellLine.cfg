SPECIFICATION Spec
CONSTANTS
  Columns = 4
  Rows = 3
  BasicFont <- MCBasicFont
  MaxTokens = 4
  MaxCommands = 2
  MaxArgs = 1
  Prompt <- MCPrompt
  Alphabets <- MCAlphabets
  LineBytes <- MCLineBytes
  MaxEnters <- MCMaxEnters
  HistorySize = 2
INVARIANTS
  ScreenShowsLine
  RunsWhatWasTyped
PROPERTIES
  RecallsInOrder
CHECK_DEADLOCK FALSE
