\* Values around the boundaries of words and bytes, and every pair of instructions.
SPECIFICATION Spec
CONSTANTS
  WordBits = 16
  ByteSign = 128
  Ram <- MCRam
  Rom <- MCRom
  Program <- MCProgram
  Starts <- MCStarts
  MaxInstructions = 2
INVARIANT
  TypeOK
PROPERTIES
  OrderDecidesJumps
  SumsAreExact
  ShiftsAreExact
  DivisionUndoesProduct
  ReturnUndoesCall
