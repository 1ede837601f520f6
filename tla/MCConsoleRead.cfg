\* As MCConsoleWait.cfg, with a program that reads bits in timer mode.
SPECIFICATION Spec
CONSTANTS
  Lines = {2, 3, 7}
  Rows = {0, 4}
  Cols = {0, 1}
  Keys = {}
  KeyAt <- MCKeyAt
  AlphaKey = "hash"
  Program <- MCReadingProgram
  Handler <- MCHandler
  InstPerInterrupt = 2
  MaxEvents = 1
INVARIANT StateIsInput
