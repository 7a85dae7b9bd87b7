\* Values up to 40 units; 8 and 16 bytes stand for 2048 and 8192.
SPECIFICATION FieldFairSpec
CONSTANTS
  MaxUnits = 40
  InitialLen = 8
  Padding = 3
  StreamBuffer = 16
  Counts = {16, 24}
  Limit = 36
  Conversions <- Sound
  DisplaySizes = {2, 12, 40}
  Estimates <- Guesses
CHECK_DEADLOCK FALSE
INVARIANTS
  ConvertedWhole
  ValueWhole
  StreamInOrder
PROPERTIES
  ReadEnds
