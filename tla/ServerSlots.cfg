SPECIFICATION Spec
CONSTANTS
  NSlots = 2
  NCtx = 5
  NBatch = 3
  NUbatch = 3
  AddBos = 1
  CtxShift = TRUE
  ContBatching = TRUE
  Prompts <- Chats
  NoKeep = NoKeep
  SystemPrompts <- Systems
  Samples = {0}
  MaxSaved = 2
  Risks = {}
INVARIANTS
  TypeOK
  SamplesItsContext
  ReusedIsThere
  RoomForBatch
