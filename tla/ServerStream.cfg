SPECIFICATION FairSpec
CONSTANTS
  AnySlot = AnySlot
  NoTask = NoTask
  Requests = {"multi", "stream"}
  Tasks = {1, 2, 3}
  TasksOf <- StreamTasksOf
  Kind <- StreamKind
  IdSlot <- AnyIdSlot
  NSlots = 1
  PromptBatches = 1
  MaxTokens = 2
  Faults = {"empty", "large", "context_full", "decode", "disconnect"}
INVARIANTS
  TypeOK
  NothingLost
  ResultsInOrder
  BusySlotKeepsLoopTurning
PROPERTIES
  EveryRequestServed
  SlotsAreFreed
