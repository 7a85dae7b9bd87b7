\* Two parameters, executed again and again.
SPECIFICATION Spec
CONSTANTS
  Slots <- TwoSlots
  Decls <- Mixed
  Kinds = {"null", "int", "string", "stream"}
  Extensions = {"sqlsrv", "pdo"}
  CancelSends = FALSE
INVARIANTS
  InputsLive
  OutputsArrive
