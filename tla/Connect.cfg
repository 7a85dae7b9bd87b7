SPECIFICATION Spec
CONSTANTS
  Hosts <- MCHosts
  Requests <- MCRequests
  MaxConnects = 2
  Records <- MCRecords
  MaxRecords = 2
  MaxErrors = 2
  MaxCalls = 2
  MaxItems = 2
CHECK_DEADLOCK FALSE
INVARIANTS
  DataSourceRead
  DiagnosticsTold
  NothingLeftBehind
  OwnIdentity
  DriverSearchSound
