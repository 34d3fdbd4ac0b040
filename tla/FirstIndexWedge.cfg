SPECIFICATION LiveSpec
CONSTANTS
  Paths = {p1}
  Contents = {blank, text}
  Blank = blank
  Gens = {g1, g2, g3, g4, g5}
  ManifestIds = {m1, m2, m3}
  Absent = Absent
  None = None
  MaxEdits = 0
  MaxCrashes = 2
  MaxEvents = 3
  MaxObservation = 2
PROPERTIES FirstIndexRecovers
