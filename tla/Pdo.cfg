\* A PDOStatement, batches of two results, columns bound in any order.
SPECIFICATION PdoFairSpec
CONSTANTS
  MaxItems = 2
  MaxRows = 2
  MaxCols = 2
  MaxStreams = 1
  Cursors = {"forward"}
  Moves <- NextOnly
  SendAtExec = {TRUE}
  BatchContinue = {FALSE, TRUE}
  ParamKinds = {"output"}
  MetadataFails = {FALSE, TRUE}
  BindOrders <- LaterFirst
  FetchModes = {"all", "lazy"}
  NameChars = {"k", "j"}
  MaxValue = 3
INVARIANTS
  EmulationFaithful
  InStep
  CacheIsPrefix
PROPERTIES
  NoAssertFails
  LoopsEnd
