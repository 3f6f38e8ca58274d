SPECIFICATION FairAppSpec
CONSTANTS
  NLen = 3
  Buffers <- SmallBuffers
  PromptLens = {1, 4}
  MaxJobs = 3
  MaxMessages = 3
  MaxDownloads = 2
  MaxInputs = 3
  Faults = {"load", "batch", "decode"}
  Risks = {"restart", "turn"}
INVARIANTS
  NoUseAfterFree
  AnswersItsPrompt
  AnswersStandInPlace
PROPERTIES
  CallsEnd
  DownloadSettles
CHECK_DEADLOCK FALSE
