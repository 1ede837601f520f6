SPECIFICATION Spec
CONSTANTS
  CellSamples = 3
  FlushSamples = 2
  MaxCells = 4
  TapeRules = {"restart", "modulation"}
  Channels = {2, 3}
  Noise = 3
  Volumes = {0, 1}
  LowBits = {1}
  HighBits = {0, 1}
  LowRange = 4
  FirstByte = 2
  NoisePeriods = {1, 3}
  SampleCount = 2
  Fifo = 4
  AuxSamples = {0, 1}
  MaxCommands = 3
  Dots = 2
  TextDots = 1
  Columns = 2
  Rows = 2
  TextColumns = 3
  Chars = 4
  CharsPerColour = 2
  Sprites = 3
  EarlyClock = 32
  PerLine = 2
  MemoryEnd = 16384
  Accesses <- MCAccesses
  FirstRegisters <- MCFirst
  MaxUses = 4
  Addresses <- MCAddresses
  Stores <- MCStores
  Selections = {2176, 3840}
  Images <- MCImages
  MaxMemory = 3
  ByteRange = 4
  Targets = {0, 3, 7, 15}
  MaxRoutine = 2
  Pcs = 4
  Words = {0, 2, 4}
  WordValues = {0, 1}
  MaxBreaks = 2
  MaxConditions = 2
  Scripts <- MCScripts
  FirstScript = "config"
  Typed <- MCTyped
  MaxTyped = 4
  MaxExecuted = 3
  TapeByteBits = 4
  BlockData = 2
  BlockPreamble = 4
  TapePreamble = 14
  FirstPreamble = 30
  NextPreamble = 8
  RecordPreamble = 40
  TapePrograms <- MCTapePrograms
  DamagedBits = {1, 4}
  ProgramTop = 14295
  ByteValues = 256
  Numbers = {1, 10, 256, 32767}
  Bodies <- MCBodies
  MaxLines = 3
  SectorBytes = 8
  MaxRecord = 6
  Lengths = {0, 1, 2, 3, 4, 5, 6}
  MaxText = 4
INVARIANTS
  PartsTypeOK
  LevelsSurvive
  CounterIsRemaining
  ScreenShowsMemory
  MemoryKeepsWrites
  GromPlaceKept
  
  TapeRestored
  
  RecordsSurvive
PROPERTIES
  RingIsQueue
  VolumeIsHeard
  SpritesReported
  RunHeedsUser
