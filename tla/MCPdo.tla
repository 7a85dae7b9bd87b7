------------------------------- MODULE MCPdo -------------------------------
(* Values for the constants of PdoStatement a cfg cannot write itself.     *)
EXTENDS PdoStatement, Quoting

NextOnly  == {[style |-> "SQL_FETCH_NEXT", offset |-> 0]}
Unbound    == {<< >>}
LaterFirst == {<< >>, <<1>>}

(* Queries of up to four characters, bound and executed twice.             *)
Emulated == INSTANCE EmulatedPrepare WITH MaxQuery <- 4, MaxExecutions <- 2

(* A prepared statement that PDO emulates sends each parameter as it was   *)
(* bound, and the server reads of a quoted value what it was               *)
(* (sql_string_parser and pdo_sqlsrv_dbh_quote).                           *)
EmulationFaithful == phase = "ready" => Emulated!EmulatedAsBound /\ QuoteReadsBack

=============================================================================
