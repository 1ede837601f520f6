\* Transfers to and from the CRU, among them those with a count of 0.
SPECIFICATION Spec
CONSTANTS
  WordBits = 16
  ByteSign = 128
  Ram <- MCRam
  Rom <- MCRom
  Program <- MCTransfers
  Starts <- MCStarts
  MaxInstructions = 2
PROPERTY
  WholeWordSent
