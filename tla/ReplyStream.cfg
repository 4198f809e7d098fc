SPECIFICATION FairReplySpec
CONSTANTS
  Scripts <- ScriptSet
  MaxIndex = 2
  MaxChunk = 8
INVARIANTS ChunkingIsInvisible FinishedCallsWhole
PROPERTIES CancelStops CallReturns
CHECK_DEADLOCK FALSE
