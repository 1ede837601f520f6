\* A program that waits: no keys, the two timers, every way to mask them.
SPECIFICATION FairSpec
CONSTANTS
  Lines = {2, 3, 7}
  Rows = {0, 4}
  Cols = {0, 1}
  Keys = {}
  KeyAt <- MCKeyAt
  AlphaKey = "hash"
  Program <- MCWaitingProgram
  Handler <- MCHandler
  InstPerInterrupt = 2
  MaxEvents = 1
PROPERTIES
  RetraceEndsWait
  TimerEndsWait
