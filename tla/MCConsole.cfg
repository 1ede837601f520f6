\* Two keys that share a matrix position, rows on the timer's CRU bit and the
\* next one, a program that enables, masks, loads, scans and waits.
SPECIFICATION Spec
CONSTANTS
  Lines = {2, 3, 7}
  Rows = {0, 4}
  Cols = {0, 1}
  Keys = {"fctn", "left", "hash"}
  KeyAt <- MCKeyAt
  AlphaKey = "hash"
  Program <- MCProgram
  Handler <- MCHandler
  InstPerInterrupt = 1
  MaxEvents = 1
INVARIANTS
  TypeOK
  ContextKept
  NoStuckKeys
PROPERTIES
  RetraceNotLost
