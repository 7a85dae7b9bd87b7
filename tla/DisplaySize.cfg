\* A first piece of 12 bytes, where the rest is put behind 8.
SPECIFICATION FieldSpec
CONSTANTS
  MaxUnits = 40
  InitialLen = 8
  Padding = 3
  StreamBuffer = 16
  Counts = {16, 24}
  Limit = 36
  Conversions <- Sound
  DisplaySizes = {2, 12, 40}
  Estimates = {0}
CHECK_DEADLOCK FALSE
INVARIANT
  RestFollows
