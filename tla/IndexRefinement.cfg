SPECIFICATION Spec
CONSTANTS
  Paths = {p1, p2}
  Contents = {blank, text}
  Blank = blank
  Gens = {g1, g2, g3, g4, g5}
  ManifestIds = {m1, m2, m3}
  Absent = Absent
  None = None
  MaxEdits = 2
  MaxCrashes = 2
  MaxEvents = 3
  MaxObservation = 2
INVARIANTS TypeOK ReadyBound ReadyContentExact ReadyReaderLoads PublishedGenerationKept CommitNeverRejected
PROPERTIES CommitMatchesFence ImplementsAtomicIndex
