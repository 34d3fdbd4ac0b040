SPECIFICATION HealthSpec
CONSTANTS
  Paths = {p1}
  Contents = {blank, text}
  Blank = blank
  Gens = {g1, g2, g3, g4}
  ManifestIds = {m1, m2, m3}
  Absent = Absent
  None = None
  MaxEdits = 1
  MaxCrashes = 1
  MaxEvents = 2
  MaxObservation = 2
INVARIANTS HealthTypeOK ReportWasTrue CorruptNeverReady
