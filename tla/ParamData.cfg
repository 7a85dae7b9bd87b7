\* A stream parameter, and tables of one to three rows and two columns.
SPECIFICATION FairSpec
CONSTANTS
  Tables <- AllTables
  Space = 4
  Slack = 3
  Batch = 4
  Utf8 = TRUE
CHECK_DEADLOCK FALSE
INVARIANTS
  SentInStep
  PacketsWhole
PROPERTIES
  SendingEnds
