\* Software that keeps all rules, one image to write and one that is protected.
SPECIFICATION Spec
CONSTANTS
  Drives = {1, 2}
  Tracks = 2
  SectorsPerTrack = 2
  SectorBytes = 2
  IdBytes = 1
  Values = {0, 1}
  Images <- MCImages
  ReadOnly = {2}
  MaxWritten = 1
  Rules = {"select", "transfer", "load"}
INVARIANTS
  TypeOK
  FileFollowsUnit
PROPERTIES
  SectorsWhole
