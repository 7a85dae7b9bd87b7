\* Re-execution while ODBC waits for stream data.
SPECIFICATION FairSpec
CONSTANTS
  MaxItems = 1
  MaxRows = 1
  MaxCols = 1
  MaxStreams = 1
  Cursors = {"forward"}
  Moves <- NextOnly
  SendAtExec = {FALSE}
  BatchContinue = {FALSE}
  ParamKinds = {"stream"}
  MetadataFails = {FALSE}
PROPERTIES
  FlushTerminates
