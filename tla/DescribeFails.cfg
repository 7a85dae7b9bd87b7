\* A PDOStatement of which a column cannot be described.
SPECIFICATION PdoSpec
CONSTANTS
  MaxItems = 1
  MaxRows = 1
  MaxCols = 1
  MaxStreams = 1
  Cursors = {"forward"}
  Moves <- NextOnly
  SendAtExec = {TRUE}
  BatchContinue = {FALSE}
  ParamKinds = {"none"}
  MetadataFails = {TRUE}
  BindOrders <- Unbound
  FetchModes = {"all"}
  NameChars = {"k"}
  MaxValue = 1
INVARIANTS
  ReadDescribed
