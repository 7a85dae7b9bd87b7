----------------------------- MODULE OdbcHandle -----------------------------
(***************************************************************************)
(* The ODBC statement handle (HSTMT) as the driver sees it: EXTERNAL.  No  *)
(* line of it is in this repository; each operator gives the outcomes the  *)
(* callers under source/ are written for.                                  *)
(*                                                                         *)
(* A handle is a record.  "batch" holds the results of the executed batch  *)
(* that the application has not moved past, the current one first; "at" is *)
(* the cursor position in the current rowset, 0 before the first row and   *)
(* one more than the number of rows after the last; "togo" counts the      *)
(* stream parameters whose data ODBC has still to ask for.                 *)
(***************************************************************************)
EXTENDS Integers, Sequences

CONSTANTS MaxItems,    \* longest batch
          MaxRows,     \* longest rowset
          MaxCols,     \* widest rowset
          MaxStreams   \* most stream parameters of one statement

ASSUME OdbcAssumption == /\ MaxItems \in Nat \ {0}
                         /\ MaxRows \in Nat
                         /\ MaxCols \in Nat \ {0}
                         /\ MaxStreams \in Nat \ {0}

(* One result of a batch: a rowset of "rows" rows, the affected-row count  *)
(* of a statement that returns no rows, or the marker SQLMoreResults       *)
(* leaves on a statement that failed in mid-batch.                         *)
Rowsets == [kind : {"rowset"}, cols : 1 .. MaxCols, rows : 0 .. MaxRows]
Counts  == [kind : {"count"}, cols : {0}, rows : 0 .. 1]
Errors  == [kind : {"error"}, cols : {0}, rows : {0}]
Items   == Rowsets \cup Counts \cup Errors

(* What a server may answer: the first result is not an error marker,      *)
(* because an error in the first statement fails the execution itself.     *)
Batches == { b \in UNION { [1 .. k -> Items] : k \in 1 .. MaxItems } :
               b[1] \notin Errors }

Handles == [state : {"idle", "open", "need_data"},
            batch : Seq(Items), at : Nat, togo : 0 .. MaxStreams]

Idle     == [state |-> "idle", batch |-> << >>, at |-> 0, togo |-> 0]
Opened(b) == [state |-> "open", batch |-> b, at |-> 0, togo |-> 0]
Asking(n) == [state |-> "need_data", batch |-> << >>, at |-> 0, togo |-> n]

OnRowset(h) == h.state = "open" /\ Head(h.batch).kind = "rowset"
OnError(h)  == h.state = "open" /\ Head(h.batch).kind = "error"

(* Something is left that SQLMoreResults could still move to, or a cursor  *)
(* that is still open.                                                     *)
Pending(h) == h.state = "open"

SQL_ERROR     == -1
SQL_SUCCESS   == 0
SQL_NEED_DATA == 99
SQL_NO_DATA   == 100

(* SQLExecute and SQLExecDirect.  With stream parameters bound the driver  *)
(* asks for their data first; a first statement that changed no row is     *)
(* reported as SQL_NO_DATA; an open cursor or an execution in progress is  *)
(* a sequence error that leaves the handle as it was.                      *)
SQLExecute(h, streams) ==
  {[r |-> SQL_ERROR, h |-> h]} \cup
  IF h.state # "idle" THEN {}
  ELSE IF streams
       THEN { [r |-> SQL_NEED_DATA, h |-> Asking(n)] : n \in 1 .. MaxStreams }
       ELSE { [r |-> SQL_SUCCESS, h |-> Opened(b)] : b \in Batches } \cup
            { [r |-> SQL_NO_DATA, h |-> Opened(b)] :
                b \in { c \in Batches : c[1].kind = "count" /\ c[1].rows = 0 } }

(* SQLParamData: asks for the next stream parameter, or, when there is no  *)
(* more, runs the statement.  Legal only while data is needed.             *)
SQLParamData(h) ==
  {[r |-> SQL_ERROR, h |-> h]} \cup
  IF h.state # "need_data" THEN {}
  ELSE IF h.togo > 0
       THEN {[r |-> SQL_NEED_DATA, h |-> [h EXCEPT !.togo = @ - 1]]}
       ELSE { [r |-> SQL_SUCCESS, h |-> Opened(b)] : b \in Batches }

(* SQLMoreResults discards what is left of the current result.  Moving to  *)
(* a failed statement returns SQL_ERROR and stays in the batch; a handle   *)
(* that waits for parameter data refuses the call and does not change.     *)
SQLMoreResults(h) ==
  IF h.state = "need_data" THEN [r |-> SQL_ERROR, h |-> h]
  ELSE IF h.state = "idle" \/ Len(h.batch) = 1 THEN [r |-> SQL_NO_DATA, h |-> Idle]
  ELSE LET next == Opened(Tail(h.batch))
       IN  [r |-> IF OnError(next) THEN SQL_ERROR ELSE SQL_SUCCESS, h |-> next]

(* SQLNumResultCols.  On an idle handle the answer depends on whether it   *)
(* was prepared and with what; every one is possible.                      *)
SQLNumResultCols(h) ==
  IF h.state = "need_data" \/ OnError(h) THEN {SQL_ERROR}
  ELSE IF h.state = "idle" THEN {SQL_ERROR} \cup 0 .. MaxCols
  ELSE {Head(h.batch).cols}

(* Where a cursor over n rows goes from row "at".                          *)
Moved(move, at, n) ==
  LET asked == CASE move.style = "SQL_FETCH_NEXT"     -> at + 1
                 [] move.style = "SQL_FETCH_PRIOR"    -> at - 1
                 [] move.style = "SQL_FETCH_FIRST"    -> IF n > 0 THEN 1 ELSE n + 1
                 [] move.style = "SQL_FETCH_LAST"     -> n
                 [] move.style = "SQL_FETCH_RELATIVE" -> at + move.offset
                 [] move.style = "SQL_FETCH_ABSOLUTE" /\ move.offset < 0 -> n + 1 + move.offset
                 [] OTHER -> move.offset
  IN IF asked < 0 THEN 0 ELSE IF asked > n THEN n + 1 ELSE asked

(* SQLFetchScroll.  A fetch that fails on the server ends the rowset of a  *)
(* forward-only cursor and leaves another one where it was.                *)
SQLFetchScroll(h, move, forwardOnly) ==
  IF ~OnRowset(h) \/ (forwardOnly /\ move.style # "SQL_FETCH_NEXT")
  THEN {[r |-> SQL_ERROR, h |-> h]}
  ELSE LET n  == Head(h.batch).rows
           to == Moved(move, h.at, n)
       IN  {[r |-> IF to \in 1 .. n THEN SQL_SUCCESS ELSE SQL_NO_DATA,
             h |-> [h EXCEPT !.at = to]],
            [r |-> SQL_ERROR, h |-> IF forwardOnly THEN [h EXCEPT !.at = n + 1] ELSE h]}

(* SQLGetData needs a cursor on a row, and may fail.                       *)
SQLGetData(h) ==
  {SQL_ERROR} \cup
  IF OnRowset(h) /\ h.at \in 1 .. Head(h.batch).rows THEN {SQL_SUCCESS} ELSE {}

(* SQLCancel ends a data-at-execution sequence and discards the results.   *)
SQLCancel(h) == Idle
=============================================================================
