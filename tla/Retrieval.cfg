SPECIFICATION Spec
CONSTANTS
  Chunks = {1, 2, 3, 4}
  Signals = {1, 2, 3, 4, 5}
  Modules = {5}
  FileOf <- MCFileOf
  ChunkOf <- MCChunkOf
  Relations <- MCRelations
  Graphs <- MCGraphs
  SeedCost <- MCSeedCost
  Recalls <- MCRecalls
  MaxHops = 3
  MaxPopped = 5
  MaxExamined = 8
  MaxEntries = 6
  MaxExpanded = 3
INVARIANTS TypeOK EvidenceIsBest
