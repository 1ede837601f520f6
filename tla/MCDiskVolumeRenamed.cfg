\* As MCDiskVolume.cfg: is an unlinked file always open?
SPECIFICATION Spec
CONSTANTS
  SectorCount = 7
  FirstDataSector = 4
  SectorBytes = 2
  HdrChains = 3
  MaxFileChains = 3
  Names = {1, 2}
  TIName <- MCTIName
  LinuxName <- MCLinuxName
  Attrs = {0}
  MaxObjs = 2
  Handles = {h1, h2}
  Requests <- MCRequests
  MaxRef = 2
  MidSectorAppend = FALSE
SYMMETRY Symmetry
INVARIANT UnlinkedIsOpen
