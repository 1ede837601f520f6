\* Software that selects drives with one LDCR, without deselecting first.
SPECIFICATION Spec
CONSTANTS
  Drives = {1, 2}
  Tracks = 2
  SectorsPerTrack = 2
  SectorBytes = 2
  IdBytes = 1
  Values = {0, 1}
  Images <- MCImages
  ReadOnly = {2}
  MaxWritten = 1
  Rules = {"transfer", "load"}
INVARIANT NoAssertFails
