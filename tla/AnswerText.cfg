SPECIFICATION AnswerSpec
CONSTANTS
  Files = {1, 2}
  Inodes = {1, 2, 3, 4, 5}
  Texts <- MCTexts
  Workspaces <- MCWorkspaces
  Limit = 2
  MaxEdits = 2
  ChunkLines = 1
  Windows = {0, 1}
  Standings <- MCStandings
  MaxRanked = 2
  MaxMerged = 2
INVARIANTS TypeOK ReadIsWhole AcceptedIsOneMoment LinesInPlace RecalledIsShown
