SPECIFICATION MCSpec
CONSTANTS
  c1 = c1
  c2 = c2
  Calls = {c1, c2}
  Askers <- MCAskers
  MaxLag = 1
  BatchSize = 2
  MaxMessages = 5
  MaxLost = 1
  None = None
  Agents = {agent}
  Messages = {msg}
  Others = {tool1}
  Texts <- MCTexts
  Prefix = 2
  MaxEvents = 4
INVARIANTS AnswerCoversSubagents TimeoutExplained InOrderOnce OnlyOvertakenMissing NothingHidden
PROPERTIES LoopEnds TerminalIsLast
CHECK_DEADLOCK FALSE
