\* The outputs of a statement whose first result is empty and not the last.
SPECIFICATION Spec
CONSTANTS
  Slots <- TwoSlots
  Decls <- Mixed
  Kinds = {"null", "int", "string"}
  Extensions = {"sqlsrv", "pdo"}
  CancelSends = FALSE
INVARIANT
  OutputsWaitForResults
