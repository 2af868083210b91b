SPECIFICATION MCSpec
CONSTANTS
  NumBlocks = 3
  MaxAccess = 5
  MaxEntries = 5
  Reqs <- MCReqs
  PromptLen <- MCPromptLen
  DecodeLen <- MCDecodeLen
  MaxSum = 3
  Workers = {1, 2}
  Layouts <- MCLayouts
  Chunks = {"a", "b"}
  MaxPlans = 6
INVARIANTS
  PoolExact
  PlainBatchesSound
  PlansKeptApart
  SavedIsFound
PROPERTY ImplementsFreeList
CHECK_DEADLOCK FALSE
