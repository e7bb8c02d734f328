SPECIFICATION FairSpec
CONSTANTS
  Jobs = {j1, j2}
  MaxVersion = 1
  Chunks = 2
  PromptDispatch = FALSE
INVARIANTS BusyHasJob
PROPERTIES UpdatesEnd
