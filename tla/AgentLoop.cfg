SPECIFICATION FairSpec
CONSTANTS
  note = note
  signoff = signoff
  Tools = {note, signoff}
  TerminalTools = {signoff}
  MaxIterations = 2
  MaxCalls = 2
  Window = 2
  MaxOffered = 3
  MaxTurns = 2
INVARIANTS CallsAnswered TerminalToolEnds AnsweredTurnNarratesItself
PROPERTIES TurnsEnd
