\* Static and buffered statements and every fetch style; results may fail to be built.
SPECIFICATION Spec
CONSTANTS
  MaxItems = 2
  MaxRows = 2
  MaxCols = 1
  MaxStreams = 1
  Cursors = {"static", "buffered"}
  Moves <- AnyMove
  SendAtExec = {FALSE, TRUE}
  BatchContinue = {FALSE}
  ParamKinds = {"stream"}
  MetadataFails = {FALSE, TRUE}
INVARIANTS
  CurrentRowExists
  BufferedAgrees
PROPERTIES
  HasRowsHonest
  ReadsInOrder
