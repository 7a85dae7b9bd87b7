\* Both extensions; statements sent packet by packet; every connection call may fail, the link may break.
SPECIFICATION Spec
CONSTANTS
  s1 = s1
  s2 = s2
  Stmts <- TwoStmts
  Faults = {"SQLEndTran", "SQLSetConnectAttr", "link"}
  Apis = {"sqlsrv", "pdo_sqlsrv"}
  Streams = {"stream"}
  MaxTxns = 3
CHECK_DEADLOCK FALSE
SYMMETRY Symmetry
INVARIANTS
  OpenWorkIsCurrent
  ClosedClean
PROPERTIES
  CommittedOnlyOnRequest
