SPECIFICATION Spec
CONSTANTS
  blank = blank
  plain = plain
  decl = decl
  imp = imp
  Paths = {1, 2, 3}
  Texts <- MCTexts
  Blank = blank
  Importers = {imp}
  Users = {imp}
  Declarers = {decl}
  Candidates = {2, 3}
  TestPaths = {1}
  Conventions = {3}
  MaxTargets = 1
  BatchSize = 2
  MinTombstones = 1
  PurgeLimit = 2
  MaxRuns = 3
  MaxDeaths = 1
  Absent = Absent
  NoSignal = NoSignal
CHECK_DEADLOCK FALSE
INVARIANTS TypeOK ReadyGraphIsFull CommitAccepted PurgeLeavesNoOrphans
