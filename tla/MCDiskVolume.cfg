\* One mounted session: two open files that grow into each other's gaps,
\* late closes of unlinked files, renames, a disk that fills up.
SPECIFICATION Spec
CONSTANTS
  SectorCount = 7
  FirstDataSector = 4
  SectorBytes = 2
  HdrChains = 3
  MaxFileChains = 3
  Names = {1, 2}
  TIName <- MCTIName
  LinuxName <- MCLinuxName
  Attrs = {0}
  MaxObjs = 2
  Handles = {h1, h2}
  Requests <- MCRequests
  MaxRef = 2
  MidSectorAppend = FALSE
SYMMETRY Symmetry
INVARIANTS
  HandlesLive
  NoLeak
  ChainsMatchHeader
  WriteLandsInPlace
