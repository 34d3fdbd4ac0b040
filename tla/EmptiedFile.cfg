SPECIFICATION AnswerSpec
CONSTANTS
  Files = {1}
  Inodes = {1, 2}
  Texts <- MCTexts
  Workspaces <- MCOneFile
  Limit = 2
  MaxEdits = 1
  ChunkLines = 1
  Windows = {0}
  Standings <- MCStandings
  MaxRanked = 1
  MaxMerged = 2
INVARIANT QueriesAnswer
