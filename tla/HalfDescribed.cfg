\* A forward-only statement of which a column cannot be described.
SPECIFICATION Spec
CONSTANTS
  MaxItems = 1
  MaxRows = 1
  MaxCols = 2
  MaxStreams = 1
  Cursors = {"forward"}
  Moves <- NextOnly
  SendAtExec = {TRUE}
  BatchContinue = {FALSE}
  ParamKinds = {"none"}
  MetadataFails = {FALSE, TRUE}
INVARIANTS
  ColumnsCounted
