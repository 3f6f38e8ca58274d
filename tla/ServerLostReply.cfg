SPECIFICATION FairSpec
CONSTANTS
  Requests = {"save"}
  Tasks = {1}
  TasksOf <- OneSave
  Kind <- OneSaveKind
  IdSlot <- OneSaveIdSlot
  AnySlot = AnySlot
  NoTask = NoTask
  NSlots = 1
  PromptBatches = 1
  MaxTokens = 1
  Faults = {}
PROPERTIES
  RecvReturns
CHECK_DEADLOCK FALSE
