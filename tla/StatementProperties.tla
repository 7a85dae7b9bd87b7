------------------------- MODULE StatementProperties -------------------------
(***************************************************************************)
(* What the sqlsrv statement state machine promises its script, and what   *)
(* comments and documentation in the source say of it.                     *)
(***************************************************************************)
EXTENDS Statement

(* sqlsrv_execute skips its flush loop when the statement was not executed *)
(* or is past its last result: then no result may be left on the handle,   *)
(* or SQLExecute would meet an open cursor.                                *)
SkippedFlushIsSafe ==
  phase # "none" /\ (~executed \/ past_next_result_end) => odbc.state = "idle"

(* The column count kept for the whole life of a result is the count of    *)
(* that result, never of an earlier one, however the statement got there.  *)
ColumnCountFresh ==
  odbc.state = "open" /\ column_count # ACTIVE_NUM_COLS_INVALID
    => column_count = Head(odbc.batch).cols

(* The k-th row a script is told of is the k-th row of the result, whether *)
(* or not sqlsrv_has_rows fetched the first one ahead.                     *)
RowsInOrder ==
  /\ OnRowset(odbc) /\ conf.cursor = "forward" /\ fetch_called
       => odbc.at = delivered \/ odbc.at = Head(odbc.batch).rows + 1
  /\ OnRowset(odbc) /\ Prefetched /\ ~past_fetch_end => odbc.at = 1 /\ delivered = 0

(* A row that sqlsrv_fetch just made current can be read from its first    *)
(* field.                                                                  *)
FreshRow ==
  call.fn = "sqlsrv_fetch" /\ call.ret = "true" => last_field_index = -1

(* A statement that is destroyed leaves results behind only where its      *)
(* draining met a failed statement of the batch.                           *)
DrainStopsOnlyAtErrors == phase = "none" /\ Pending(odbc) => OnError(odbc)

(* On a forward-only statement no function finds current_results NULL,     *)
(* however fetches, errors, cancels and executions follow each other, but  *)
(* for BatchErrorContinue, where a failed statement leaves it so           *)
(* (stmt.cpp 628, core_stmt.cpp 1053-1063).                                *)
NullOnlyToContinue == [][call'.ret = "crash" /\ call.ret # "crash" => conf.continue]_vars

(* sqlsrv_fetch_array returns every column of the row: the names and the   *)
(* metadata fetch_fields_common indexes with the number of columns are     *)
(* those of the current result, never of an earlier one.                   *)
WholeRow ==
  /\ OnRowset(odbc) => /\ fetch_fields_count \in {0, Head(odbc.batch).cols}
                       /\ current_meta_data \in {0, Head(odbc.batch).cols}
  /\ call.fn = "sqlsrv_fetch_array" /\ call.ret = "true" /\ OnRowset(odbc)
       => call.fields = Head(odbc.batch).cols

(* "get the numer of columns in the result set" (stmt.cpp 1828): what      *)
(* sqlsrv_fetch_array takes for their number is it, also when describing   *)
(* one of them failed before.                                              *)
ColumnsCounted ==
  call.fn = "sqlsrv_fetch_array" /\ call.ret = "true" /\ OnRowset(odbc)
    => call.fields = Head(odbc.batch).cols

(* "if the statement executed but failed in a subsequent operation before  *)
(* returning, we need to remove all the parameters and cancel the          *)
(* statement" (core_stmt.cpp 522-524): between two calls a statement that  *)
(* is not executed has nothing open.                                       *)
FailedIsCancelled == phase = "ready" /\ ~executed => ~Pending(odbc)

(* While ODBC waits for stream data the statement shows no result.         *)
NoRowsWhileSending ==
  odbc.state = "need_data" => /\ ~fetch_called /\ ~has_rows
                              /\ column_count = ACTIVE_NUM_COLS_INVALID

(* While a buffered statement shows a rowset, its object holds exactly the *)
(* rows of the current result.                                             *)
BufferedAgrees ==
  OnRowset(odbc) /\ current_results.kind = "buffered"
    => current_results.rows = Head(odbc.batch).rows

(* Fields are read only from a row that exists: when a scrollable          *)
(* statement says that a row is current, its cursor is on one, whatever    *)
(* fetches, failing or past either end, and sqlsrv_has_rows came before.   *)
(* The one exception is the buffered cursor of which SQL_FETCH_RELATIVE 0  *)
(* was asked before its first row.                                         *)
CurrentRowExists ==
  fetch_called /\ conf.cursor # "forward" =>
    CASE current_results.kind = "buffered" ->
           \/ current_results.at \in 1 .. current_results.rows
           \/ current_results.at = 0 /\ current_results.stayed
      [] current_results.kind = "odbc" /\ OnRowset(odbc) -> odbc.at \in 1 .. Head(odbc.batch).rows
      [] OTHER -> TRUE

(* Where the script stands in the current result.                          *)
Row == IF odbc.state # "open" \/ phase = "none" THEN 0
       ELSE IF current_results.kind = "null" /\ conf.cursor # "forward" THEN 0
       ELSE IF Prefetched /\ ~past_fetch_end THEN 0
       ELSE IF current_results.kind = "buffered" THEN current_results.at
       ELSE odbc.at

(* A buffered result without rows that sqlsrv_has_rows takes for one with  *)
(* rows since SQL_FETCH_RELATIVE 0 succeeded on it.                        *)
Deceived == /\ current_results.kind = "buffered"
            /\ current_results.rows = 0 /\ current_results.stayed

(* If sqlsrv_has_rows returns true while the cursor is before the first    *)
(* row, the fetch of the next row does not say that there are no rows.     *)
Truthful ==
  /\ ~Deceived
  /\ call.fn = "sqlsrv_has_rows" /\ call.ret = "true"
  /\ OnRowset(odbc) /\ Row = 0
  /\ call'.fn \in {"sqlsrv_fetch", "sqlsrv_fetch_array"} /\ call'.to = "SQL_FETCH_NEXT"
  => call'.ret # "null"

(* Asking whether there are rows does not move a script's place in them,   *)
(* as long as it is not past the end, whatever cursor it has.              *)
KeepsPlace ==
  call'.fn = "sqlsrv_has_rows" /\ call'.ret = "true" /\ OnRowset(odbc)
  /\ Row <= Head(odbc.batch).rows => Row' = Row

(* get_row finds a row in the cache whenever a field is asked for          *)
(* ("Failed to find row %1!d! in the cache", core_results.cpp 848).        *)
RowFound == call.ret # "no_row"

(* sqlsrv_has_rows tells the truth and leaves no trace (stmt.cpp 1800).    *)
HasRowsHonest == [][Truthful /\ KeepsPlace]_vars

(* sqlsrv_execute returns.                                                 *)
FlushTerminates == phase = "flush" ~> phase # "flush"

(* The statement implements the reader.                                    *)
Fetching == call.fn \in {"sqlsrv_fetch", "sqlsrv_fetch_array"} /\ call.ret \notin {"crash", "no_row"}

Told ==
  IF Fetching /\ call.to # "SQL_FETCH_NEXT" THEN "jump"
  ELSE CASE Fetching /\ call.ret = "true" -> "row"
         [] Fetching /\ call.ret = "null" -> "end"
         [] call.ret = "false" -> "error"
         [] OTHER -> "other"

Reader == INSTANCE ResultReader
            WITH results <- odbc.batch, row <- Row, told <- Told
ReadsInOrder == Reader!ReaderSpec
=============================================================================
