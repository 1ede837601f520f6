\* As MCDiskVolume.cfg, but a write that starts inside a sector the file has
\* may run past its end.
SPECIFICATION Spec
CONSTANTS
  SectorCount = 7
  FirstDataSector = 4
  SectorBytes = 2
  HdrChains = 3
  MaxFileChains = 3
  Names = {1, 2}
  TIName <- MCTIName
  LinuxName <- MCLinuxName
  Attrs = {0}
  MaxObjs = 2
  Handles = {h1, h2}
  Requests <- MCRequests
  MaxRef = 2
  MidSectorAppend = TRUE
SYMMETRY Symmetry
INVARIANT ChainsMatchHeader
