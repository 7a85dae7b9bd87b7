\* A buffered statement whose buffer cannot be built.
SPECIFICATION Spec
CONSTANTS
  MaxItems = 1
  MaxRows = 1
  MaxCols = 1
  MaxStreams = 1
  Cursors = {"buffered"}
  Moves <- NextOnly
  SendAtExec = {TRUE}
  BatchContinue = {FALSE}
  ParamKinds = {"none"}
  MetadataFails = {FALSE}
INVARIANTS
  FailedIsCancelled
