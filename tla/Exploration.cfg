SPECIFICATION Spec
CONSTANTS
  a = a
  b = b
  c = c
  Snapshots <- MCSnapshots
  Kind <- MCKind
  Rankings <- MCRankings
  MaxFrozen = 3
  MaxPlanned = 3
  MaxProbes = 2
  MaxFused = 6
  InitialTopK = 2
  FollowupTopK = 2
  MaxItems = 2
  MaxShown = 2
  MaxPublications = 2
INVARIANTS TypeOK AnswerIsFused
PROPERTIES CoverageKept
