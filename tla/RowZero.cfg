\* A buffered statement and a relative move by nothing.
SPECIFICATION Spec
CONSTANTS
  MaxItems = 1
  MaxRows = 1
  MaxCols = 1
  MaxStreams = 1
  Cursors = {"buffered"}
  Moves <- Relative
  SendAtExec = {TRUE}
  BatchContinue = {FALSE}
  ParamKinds = {"none"}
  MetadataFails = {FALSE}
INVARIANTS
  RowFound
