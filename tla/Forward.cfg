\* A forward-only statement, batches of two results.
SPECIFICATION FairSpec
CONSTANTS
  MaxItems = 2
  MaxRows = 2
  MaxCols = 2
  MaxStreams = 1
  Cursors = {"forward"}
  Moves <- NextOnly
  SendAtExec = {TRUE}
  BatchContinue = {FALSE, TRUE}
  ParamKinds = {"none", "output"}
  MetadataFails = {FALSE}
INVARIANTS
  SkippedFlushIsSafe
  ColumnCountFresh
  WholeRow
  RowsInOrder
  DrainStopsOnlyAtErrors
PROPERTIES
  NullOnlyToContinue
  FlushTerminates
