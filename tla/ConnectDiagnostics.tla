------------------------- MODULE ConnectDiagnostics -------------------------
(***************************************************************************)
(* What a script learns of a connect that failed.                          *)
(***************************************************************************)
EXTENDS Connect, Diagnostics

(* What a failed connect, as any failed call, leaves for the script to ask *)
(* is as Diagnostics states it (util.cpp, pdo_util.cpp).                   *)
DiagnosticsTold == phase = "failed" => DiagnosticsAgree

=============================================================================
