SPECIFICATION Spec
CONSTANTS
  Size = 8
  CheckAt = 3
  CutPercent = 60
  MaxVals = 6
  EvictNote = 4
  MaxPend = 4
  MaxGroups = 3
  MaxAdds = 6
  TupleCounts = {0, 2}
  GroupCounts = {1, 2}
  HashOf <- MCHashOf
  MaxScenarios = 2
  MergeRows = 3
  MergeParts = 2
  SampleRows = 2
  Estimates = {2, 3}
  MaxMerges = 3
INVARIANTS GTypeOK CacheConsistent FlushReplaysRowPath AddsAsDocumented EvictedGone LiveListsHeld MergeOwnResult
CHECK_DEADLOCK FALSE
