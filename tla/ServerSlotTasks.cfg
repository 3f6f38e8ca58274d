SPECIFICATION FairSpec
CONSTANTS
  AnySlot = AnySlot
  NoTask = NoTask
  Requests = {"embed", "pinned", "save", "metrics"}
  Tasks = {1, 2, 3, 4}
  TasksOf <- MixedTasksOf
  Kind <- MixedKind
  IdSlot <- MixedIdSlot
  NSlots = 2
  PromptBatches = 2
  MaxTokens = 1
  Faults = {"launch", "restore", "system_prompt", "terminate"}
INVARIANT
  OnePlace
PROPERTY
  LoopStops
CHECK_DEADLOCK FALSE
