\* Two statements and three streams of one connection, in every order of letting go.
SPECIFICATION Spec
CONSTANTS
  Stmts = {1, 2}
  Streams = {x1, x2, x3}
  NoStream = NoStream
  Conn = Conn
CHECK_DEADLOCK FALSE
INVARIANTS
  NothingGoneUsed
  StatementsAccountedFor
