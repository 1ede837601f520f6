\* Several sessions: what a mount finds after any handler, and what it would
\* find between any two writes.
SPECIFICATION SessionsSpec
CONSTANTS
  SectorCount = 6
  FirstDataSector = 4
  SectorBytes = 2
  HdrChains = 3
  MaxFileChains = 3
  Names = {1, 2, 3}
  TIName <- MCTIName
  LinuxName <- MCLinuxName
  Attrs = {0}
  MaxObjs = 2
  Handles = {h1}
  Requests <- MCAppendRequests
  MaxRef = 1
  MidSectorAppend = FALSE
INVARIANTS
  TypeOK
  OwnedSectors
  DirectorySorted
  ImageMountable
  ImageCurrent
  NamesChangeAtOnce
  CrashExposesOneFile
