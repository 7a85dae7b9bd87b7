------------------------------ MODULE Statement ------------------------------
(***************************************************************************)
(* One sqlsrv statement resource: the state machine that                   *)
(* shared/core_stmt.cpp and sqlsrv/stmt.cpp keep over an ODBC handle.      *)
(* Every PHP function on a statement is one action, except sqlsrv_execute, *)
(* whose flush loop makes an ODBC round trip per iteration: there each     *)
(* iteration is a step, so that whether it ends is a question of liveness. *)
(***************************************************************************)
EXTENDS OdbcHandle

CONSTANTS Cursors,        \* the values of cursor_type a script may ask for
          Moves,          \* the fetch styles and offsets a script may pass to sqlsrv_fetch
          SendAtExec,     \* the values of SendStreamParamsAtExec
          BatchContinue,  \* the values of the connection's BatchErrorContinue
          ParamKinds,     \* what the script binds: nothing, inputs, an output, a stream
          MetadataFails   \* {FALSE}, or BOOLEAN when describing a column may fail

Styles == {"SQL_FETCH_NEXT", "SQL_FETCH_PRIOR", "SQL_FETCH_FIRST", "SQL_FETCH_LAST",
           "SQL_FETCH_ABSOLUTE", "SQL_FETCH_RELATIVE"}

ASSUME StatementAssumption ==
  /\ Cursors \subseteq {"forward", "static", "buffered"}
  /\ Moves \subseteq [style : Styles, offset : Int]
  /\ SendAtExec \subseteq BOOLEAN
  /\ BatchContinue \subseteq BOOLEAN
  /\ ParamKinds \subseteq {"none", "input", "output", "stream"}
  /\ MetadataFails \subseteq BOOLEAN

VARIABLES
  phase,                \* "none": no statement; "ready": between two calls; "flush": inside sqlsrv_execute
  conf,                 \* what was fixed when the statement was created
  odbc,                 \* the ODBC handle
  executed, past_fetch_end, past_next_result_end, has_rows, fetch_called,
  last_field_index,
  column_count,         \* cached SQLNumResultCols
  current_meta_data,    \* size of the vector of column metadata
  fetch_fields_count,   \* size of the array of cached field names
  current_results,      \* the result set object; "stayed" is history: a fetch of its row 0 succeeded
  params_z,             \* the bound PHP array; "lost" once an error threw it away
  outputs,              \* the output parameters in the container
  current_param,        \* a stream parameter is being sent
  call,                 \* history: the last call and what it returned to the script
  delivered             \* history: rows of the current result the script was told of

flags  == <<executed, past_fetch_end, past_next_result_end, has_rows, fetch_called>>
caches == <<last_field_index, column_count, current_meta_data, fetch_fields_count>>
params == <<params_z, outputs, current_param>>
vars   == <<phase, conf, odbc, flags, caches, current_results, params, call, delivered>>

ACTIVE_NUM_COLS_INVALID == -99

NullResults     == [kind |-> "null", rows |-> 0, at |-> 0, stayed |-> FALSE]
OdbcResults     == [kind |-> "odbc", rows |-> 0, at |-> 0, stayed |-> FALSE]
BufferedAllButOne(n) ==   \* mutant
  [kind |-> "buffered", rows |-> IF n > 0 THEN n - 1 ELSE 0, at |-> 0, stayed |-> FALSE]
BufferedRows(n) == [kind |-> "buffered", rows |-> n, at |-> 0, stayed |-> FALSE]

Confs == [prepared : BOOLEAN, cursor : Cursors, send : SendAtExec, continue : BatchContinue]
NoConf == [prepared |-> FALSE, cursor |-> "forward", send |-> TRUE, continue |-> FALSE]

Return(fn, ret) == call' = [fn |-> fn, to |-> "none", ret |-> ret, fields |-> 0]
Fetched(fn, move, ret, n) == call' = [fn |-> fn, to |-> move.style, ret |-> ret, fields |-> n]

HandleOK  == odbc \in Handles /\ (odbc.state = "open" => odbc.batch # << >>)
FlagsOK   == /\ executed \in BOOLEAN /\ past_fetch_end \in BOOLEAN /\ past_next_result_end \in BOOLEAN
             /\ has_rows \in BOOLEAN /\ fetch_called \in BOOLEAN
CachesOK  == /\ last_field_index \in -1 .. MaxCols - 1
             /\ column_count \in {ACTIVE_NUM_COLS_INVALID} \cup 0 .. MaxCols
             /\ current_meta_data \in 0 .. MaxCols
             /\ fetch_fields_count \in 0 .. MaxCols
ResultsOK == current_results \in [kind : {"null", "odbc", "buffered"}, rows : Nat, at : Nat,
                                   stayed : BOOLEAN]
ParamsOK  == /\ params_z \in ParamKinds \cup {"none", "lost"}
             /\ outputs \in {"none", "bound", "final"}
             /\ current_param \in BOOLEAN
CallOK    == call.ret \in {"true", "false", "null", "value", "crash", "no_row", "pending"} /\ delivered \in Nat

Typed ==
  /\ conf \in Confs \cup {NoConf}
  /\ HandleOK /\ FlagsOK /\ CachesOK /\ ResultsOK /\ ParamsOK /\ CallOK

TypeOK == phase \in {"none", "ready", "flush"} /\ Typed

-----------------------------------------------------------------------------
(* The parts the handlers share.                                           *)

(* Mutant of ResetForNewResult: what does not belong to the row outlives   *)
(* the result.                                                             *)
ResetOnlyRow ==
  /\ fetch_called' = FALSE /\ has_rows' = FALSE /\ past_fetch_end' = FALSE
  /\ last_field_index' = -1 /\ delivered' = 0
  /\ UNCHANGED <<past_next_result_end, current_meta_data, fetch_fields_count>>

(* What sqlsrv_stmt::new_result_set and the two destructions it makes put  *)
(* back, apart from column_count, which an execution may set again before  *)
(* it returns.                                                             *)
ResetForNewResult ==
  /\ fetch_called' = FALSE /\ has_rows' = FALSE
  /\ past_next_result_end' = FALSE /\ past_fetch_end' = FALSE
  /\ last_field_index' = -1
  /\ current_meta_data' = 0
  /\ fetch_fields_count' = 0
  /\ delivered' = 0

(* The result set object new_result_set builds on handle h.  A buffered    *)
(* one reads the whole rowset in its constructor, which may run into the   *)
(* memory limit after some row, or into a failing fetch, and throw: then   *)
(* there is no object, and the cursor stays open.                          *)
NewResults(h, cursor) ==
  IF cursor # "buffered" THEN {[ok |-> TRUE, h |-> h, res |-> OdbcResults]}
  ELSE UNION {
    IF c = SQL_ERROR THEN {[ok |-> FALSE, h |-> h, res |-> NullResults]}
    ELSE IF c = 0 THEN {[ok |-> TRUE, h |-> h, res |-> BufferedRows(0)]}
    ELSE LET n == Head(h.batch).rows
         IN  {[ok |-> TRUE, h |-> [h EXCEPT !.at = n + 1], res |-> BufferedRows(n)]} \cup
             { [ok |-> FALSE, h |-> [h EXCEPT !.at = k], res |-> NullResults] : k \in 1 .. n + 1 }
    : c \in SQLNumResultCols(h) }

(* The cursor over the buffered rows.  It can never get further away than  *)
(* just before the first row or just after the last; a relative move by    *)
(* nothing from before the first row passes both checks and succeeds.      *)
BufferedFetch(move) ==
  LET n  == current_results.rows
      by == CASE move.style = "SQL_FETCH_NEXT" -> 1
              [] move.style = "SQL_FETCH_PRIOR" -> -1
              [] OTHER -> move.offset
      relative == move.style \in {"SQL_FETCH_NEXT", "SQL_FETCH_PRIOR", "SQL_FETCH_RELATIVE"}
      to == CASE move.style = "SQL_FETCH_FIRST" -> 1
              [] move.style = "SQL_FETCH_LAST" -> n
              [] OTHER -> IF relative THEN current_results.at + by ELSE by
  IN CASE to <= 0 /\ (by < 0 \/ ~relative) -> [r |-> SQL_NO_DATA, res |-> [current_results EXCEPT !.at = 0]]
       [] to > n -> [r |-> SQL_NO_DATA, res |-> [current_results EXCEPT !.at = n + 1]]
       [] OTHER  -> [r |-> SQL_SUCCESS,
                     res |-> [current_results EXCEPT !.at = to, !.stayed = @ \/ to = 0]]

(* Mutant: the buffered cursor takes the place after the last row for one. *)
FetchOnePast(move) ==
  LET b == BufferedFetch(move)
  IN {[r |-> IF b.res.at > 0 THEN SQL_SUCCESS ELSE b.r, h |-> odbc, res |-> b.res]}

(* Moving the result set's cursor: the ODBC cursor, or the one over the    *)
(* buffered rows.                                                          *)
ResultsFetch(move) ==
  IF current_results.kind = "buffered"
  THEN {[r |-> BufferedFetch(move).r, h |-> odbc, res |-> BufferedFetch(move).res]}
  ELSE { [r |-> o.r, h |-> o.h, res |-> current_results] :
           o \in SQLFetchScroll(odbc, move, conf.cursor = "forward") }

(* A script counts rows from 0, ODBC from 1.                               *)
OneBased(move) == IF move.style = "SQL_FETCH_RELATIVE" THEN move ELSE [move EXCEPT !.offset = @ + 1]

(* get_row finds no row in the cache where the cursor is: an assertion.    *)
NoSuchRow(res) == res.kind = "buffered" /\ res.at \notin 1 .. res.rows

ResultsGetData(h, res) ==
  IF NoSuchRow(res) THEN {}
  ELSE IF res.kind = "buffered" THEN {SQL_SUCCESS, SQL_ERROR} ELSE SQLGetData(h)

(* finalize_output_parameters: a value handed over once stays as it is.    *)
Finalized(o) == IF o = "bound" THEN "final" ELSE o

(* A dereference of a NULL current_results ends the PHP process, a failing *)
(* assertion the script; what is created next lives in another one.        *)
Gone ==
  /\ phase' = "none" /\ conf' = NoConf
  /\ executed' = FALSE /\ past_fetch_end' = FALSE /\ past_next_result_end' = FALSE
  /\ has_rows' = FALSE /\ fetch_called' = FALSE
  /\ last_field_index' = -1 /\ column_count' = ACTIVE_NUM_COLS_INVALID
  /\ current_meta_data' = 0 /\ fetch_fields_count' = 0
  /\ current_results' = NullResults
  /\ params_z' = "none" /\ outputs' = "none" /\ current_param' = FALSE
  /\ delivered' = 0

Crash(fn) == Gone /\ odbc' = Idle /\ Return(fn, "crash")
Dies(fn)  == Gone /\ odbc' = Idle /\ Return(fn, "no_row")

-----------------------------------------------------------------------------
(* Execution.                                                              *)

(* SQLExecute or SQLExecDirect, and, when asked for, the sending of every  *)
(* stream parameter; a failure to send ends in SQLCancel.                  *)
Ran(h, c, p) ==
  UNION { IF o.r = SQL_NEED_DATA /\ c.send
          THEN {[r |-> SQL_ERROR, h |-> SQLCancel(o.h)]} \cup
               { [r |-> SQL_NEED_DATA, h |-> Opened(b)] : b \in Batches }
          ELSE {o} : o \in SQLExecute(h, p = "stream") }

(* An array that was dropped leaves parameter markers unbound, and ODBC    *)
(* refuses to execute.                                                     *)
Executions(h, c, p) == IF p = "lost" THEN {[r |-> SQL_ERROR, h |-> h]} ELSE Ran(h, c, p)

HasAnyResult(h) == Head(h.batch).cols # 0 \/ Head(h.batch).rows > 0

(* core_sqlsrv_execute on handle h for a statement configured as c with    *)
(* parameters p; "ex" is the executed flag on entry.  When the first       *)
(* result is asked for, its column count stays cached.                     *)
ExecuteFails(h, ex) ==
  /\ odbc' = IF ex THEN SQLCancel(h) ELSE h
  /\ executed' = ex
  /\ outputs' = "none" /\ current_param' = FALSE

(* Mutant: only the count of a result that was looked at is new.           *)
ReturnsOldCount(o, n, c, bound) ==
  LET looked == c.send /\ o.r # SQL_NO_DATA
  IN /\ odbc' = n.h
     /\ executed' = TRUE
     /\ column_count' = IF looked THEN Head(n.h.batch).cols ELSE column_count
     /\ outputs' = IF c.send /\ (o.r = SQL_NO_DATA \/ ~HasAnyResult(n.h))
                   THEN Finalized(bound) ELSE bound
     /\ current_param' = FALSE

ExecuteReturns(o, n, c, bound) ==
  LET looked == c.send /\ o.r # SQL_NO_DATA
  IN /\ odbc' = n.h
     /\ executed' = TRUE
     /\ column_count' = IF looked THEN Head(n.h.batch).cols ELSE ACTIVE_NUM_COLS_INVALID
     /\ outputs' = IF c.send /\ (o.r = SQL_NO_DATA \/ ~HasAnyResult(n.h))
                   THEN Finalized(bound) ELSE bound
     /\ current_param' = FALSE

(* After new_result_set, looking for a result may fail, and so may handing *)
(* over the outputs.                                                       *)
ExecuteFailsLate(o, n, c, bound) ==
  /\ c.send
  /\ o.r # SQL_NO_DATA \/ bound = "bound"
  /\ odbc' = SQLCancel(n.h)
  /\ executed' = TRUE
  /\ column_count' \in {ACTIVE_NUM_COLS_INVALID} \cup
                        IF o.r = SQL_NO_DATA THEN {} ELSE {Head(n.h.batch).cols}
  /\ outputs' = "none" /\ current_param' = FALSE

core_sqlsrv_execute(h, c, p, ex, fn) ==
  LET bound == IF p = "output" THEN "bound" ELSE "none" IN
  \E o \in Executions(h, c, p) :
    \/ /\ o.r = SQL_ERROR
       /\ ExecuteFails(o.h, ex)
       /\ Return(fn, "false")
       /\ UNCHANGED <<past_fetch_end, past_next_result_end, has_rows, fetch_called,
                      caches, current_results, delivered>>
    \/ /\ o.r # SQL_ERROR
       /\ ResetForNewResult
       /\ \E n \in NewResults(o.h, c.cursor) :
            /\ current_results' = n.res
            /\ \/ n.ok /\ ExecuteReturns(o, n, c, bound) /\ Return(fn, "true")
               \/ n.ok /\ ExecuteFailsLate(o, n, c, bound) /\ Return(fn, "false")
               \/ /\ ~n.ok /\ ExecuteFails(n.h, ex) /\ Return(fn, "false")
                  /\ column_count' = ACTIVE_NUM_COLS_INVALID

(* bind_params, then core_sqlsrv_execute.  Binding clears "executed"; a    *)
(* failure to bind drops the array.                                        *)
BindAndExecute ==
  /\ phase' = "ready"
  /\ conf' = conf
  /\ \/ /\ core_sqlsrv_execute(odbc, conf, params_z,
                               executed /\ params_z \in {"none", "lost"}, "sqlsrv_execute")
        /\ params_z' = params_z
     \/ /\ params_z \notin {"none", "lost"}
        /\ executed' = FALSE
        /\ params_z' = "lost" /\ outputs' = "none" /\ current_param' = FALSE
        /\ Return("sqlsrv_execute", "false")
        /\ UNCHANGED <<odbc, past_fetch_end, past_next_result_end, has_rows, fetch_called,
                       caches, current_results, delivered>>

-----------------------------------------------------------------------------
(* The PHP functions.                                                      *)

sqlsrv_prepare(c, p) ==
  /\ phase = "none"
  /\ phase' = "ready"
  /\ conf' = c
  /\ odbc' = Idle
  /\ params_z' = p
  /\ Return("sqlsrv_prepare", "true")
  /\ UNCHANGED <<flags, caches, current_results, outputs, current_param, delivered>>

(* A statement that fails to execute is destroyed at once, without the     *)
(* draining of sqlsrv_stmt_dtor.                                           *)
QuerySucceeds(c, p) ==
  /\ core_sqlsrv_execute(Idle, c, p, FALSE, "sqlsrv_query")
  /\ call'.ret = "true"
  /\ phase' = "ready" /\ conf' = c /\ params_z' = p

QueryFails(c, p) ==
  /\ \E o \in Executions(Idle, c, p) :
       \/ o.r = SQL_ERROR /\ odbc' = o.h
       \/ /\ o.r # SQL_ERROR
          /\ \E n \in NewResults(o.h, c.cursor) :
               \/ ~n.ok /\ odbc' = n.h
               \/ /\ n.ok /\ c.send
                  /\ o.r # SQL_NO_DATA \/ p = "output"
                  /\ odbc' = SQLCancel(n.h)
  /\ Gone
  /\ Return("sqlsrv_query", "false")

sqlsrv_query(c, p) == phase = "none" /\ (QuerySucceeds(c, p) \/ QueryFails(c, p))

sqlsrv_execute ==
  /\ phase = "ready"
  /\ \/ /\ ~conf.prepared
        /\ Return("sqlsrv_execute", "false")
        /\ UNCHANGED <<phase, conf, odbc, flags, caches, current_results, params, delivered>>
     \/ /\ conf.prepared /\ executed /\ ~past_next_result_end
        /\ phase' = "flush"
        /\ Return("sqlsrv_execute", "pending")
        /\ UNCHANGED <<conf, odbc, flags, caches, current_results, params, delivered>>
     \/ conf.prepared /\ ~(executed /\ ~past_next_result_end) /\ BindAndExecute

(* core_sqlsrv_next_result.  The two flags say whether an error cancels    *)
(* the statement and is thrown, or is reported and leaves the batch        *)
(* navigable; with neither, an error is passed over in silence.            *)
NextResultRefused(throw, fn) ==
  /\ ~executed \/ past_next_result_end
  /\ odbc' = IF throw THEN SQLCancel(odbc) ELSE odbc
  /\ Return(fn, "false")
  /\ UNCHANGED <<flags, caches, current_results, outputs, delivered>>

NextResultThrows(m, fn) ==
  /\ m.r = SQL_ERROR
  /\ odbc' = SQLCancel(m.h)
  /\ Return(fn, "false")
  /\ UNCHANGED <<flags, caches, current_results, outputs, delivered>>

NextResultReports(m, fn) ==
  /\ m.r = SQL_ERROR
  /\ odbc' = m.h
  /\ current_results' = NullResults
  /\ fetch_called' = FALSE /\ has_rows' = FALSE /\ past_fetch_end' = FALSE
  /\ last_field_index' = -1
  /\ column_count' = ACTIVE_NUM_COLS_INVALID /\ current_meta_data' = 0
  /\ delivered' = 0
  /\ Return(fn, "true")
  /\ UNCHANGED <<executed, past_next_result_end, fetch_fields_count, outputs>>

(* Mutant: the end of the results is not remembered.                       *)
EndForgotten(m, finalize, fn) ==
  /\ m.r = SQL_NO_DATA
  /\ odbc' = m.h
  /\ Return(fn, IF finalize THEN "null" ELSE "pending")
  /\ UNCHANGED <<flags, caches, current_results, outputs, delivered>>

(* sqlsrv_next_result also forgets the metadata, the flush loop does not.  *)
NextResultEnds(m, finalize, fn) ==
  /\ m.r = SQL_NO_DATA
  /\ odbc' = m.h
  /\ past_next_result_end' = TRUE
  /\ outputs' = IF finalize THEN Finalized(outputs) ELSE outputs
  /\ IF finalize
     THEN column_count' = ACTIVE_NUM_COLS_INVALID /\ current_meta_data' = 0
     ELSE UNCHANGED <<column_count, current_meta_data>>
  /\ Return(fn, IF finalize THEN "null" ELSE "pending")
  /\ UNCHANGED <<executed, past_fetch_end, has_rows, fetch_called, last_field_index,
                 fetch_fields_count, current_results, delivered>>

(* An output cannot be handed over: the end is not noted.                  *)
NextResultEndThrows(m, finalize, fn) ==
  /\ m.r = SQL_NO_DATA
  /\ finalize /\ outputs = "bound"
  /\ odbc' = m.h
  /\ Return(fn, "false")
  /\ UNCHANGED <<flags, caches, current_results, outputs, delivered>>

(* The next result becomes current, unless building it throws.             *)
NextResultMoves(m, throw, fn) ==
  /\ ResetForNewResult
  /\ column_count' = ACTIVE_NUM_COLS_INVALID
  /\ \E n \in NewResults(m.h, conf.cursor) :
       /\ odbc' = IF ~n.ok /\ throw THEN SQLCancel(n.h) ELSE n.h
       /\ current_results' = n.res
       /\ Return(fn, IF ~n.ok THEN "false" ELSE IF fn = "sqlsrv_execute" THEN "pending" ELSE "true")
  /\ UNCHANGED <<executed, outputs>>

(* Mutant: an error is reported whether or not the caller goes on over it. *)
NextResultAlwaysReports(finalize, throw, report, fn) ==
  \/ NextResultRefused(throw, fn)
  \/ /\ executed /\ ~past_next_result_end
     /\ LET m == SQLMoreResults(odbc)
        IN \/ NextResultReports(m, fn)
           \/ NextResultEnds(m, finalize, fn)
           \/ NextResultEndThrows(m, finalize, fn)
           \/ m.r = SQL_SUCCESS /\ NextResultMoves(m, throw, fn)

core_sqlsrv_next_result(finalize, throw, report, fn) ==
  \/ NextResultRefused(throw, fn)
  \/ /\ executed /\ ~past_next_result_end
     /\ LET m == SQLMoreResults(odbc)
        IN \/ throw /\ NextResultThrows(m, fn)
           \/ report /\ NextResultReports(m, fn)
           \/ NextResultEnds(m, finalize, fn)
           \/ NextResultEndThrows(m, finalize, fn)
           \/ /\ m.r = SQL_SUCCESS \/ (m.r = SQL_ERROR /\ ~throw /\ ~report)
              /\ NextResultMoves(m, throw, fn)

sqlsrv_next_result ==
  /\ phase = "ready"
  /\ core_sqlsrv_next_result(TRUE, ~conf.continue, conf.continue, "sqlsrv_next_result")
  /\ UNCHANGED <<phase, conf, params_z, current_param>>

(* One iteration of the flush loop of sqlsrv_execute, and what follows it. *)
FlushStep ==
  /\ phase = "flush"
  /\ \/ /\ ~past_next_result_end
        /\ core_sqlsrv_next_result(FALSE, FALSE, FALSE, "sqlsrv_execute")
        /\ phase' = IF call'.ret = "false" THEN "ready" ELSE "flush"
        /\ UNCHANGED <<conf, params_z, current_param>>
     \/ past_next_result_end /\ BindAndExecute

(* core_sqlsrv_fetch up to the point where it moves the cursor.            *)
FetchRefused ==
  \/ /\ past_next_result_end \/ ~executed \/ past_fetch_end
     /\ UNCHANGED column_count
  \/ /\ ~past_next_result_end /\ executed /\ ~past_fetch_end /\ ~fetch_called
     /\ \/ /\ column_count = ACTIVE_NUM_COLS_INVALID
           /\ SQL_ERROR \in SQLNumResultCols(odbc)
           /\ UNCHANGED column_count
        \/ /\ 0 \in IF column_count # ACTIVE_NUM_COLS_INVALID THEN {column_count}
                    ELSE SQLNumResultCols(odbc)
           /\ column_count' = 0

FetchAllowed(c) ==
  /\ ~past_next_result_end /\ executed /\ ~past_fetch_end
  /\ IF fetch_called THEN c = column_count
     ELSE /\ c \notin {SQL_ERROR, 0}
          /\ c \in IF column_count # ACTIVE_NUM_COLS_INVALID THEN {column_count}
                   ELSE SQLNumResultCols(odbc)

(* sqlsrv_has_rows already fetched the first row of a forward-only result. *)
Prefetched == conf.cursor = "forward" /\ has_rows /\ ~fetch_called

(* The outcomes of core_sqlsrv_fetch once it is allowed.                   *)
FetchedAhead == [r |-> SQL_SUCCESS, h |-> odbc, res |-> current_results]

(* Mutant: the row that sqlsrv_has_rows fetched is fetched over.           *)
FetchesAgain(move) ==
  IF current_results.kind = "null" THEN {} ELSE ResultsFetch(OneBased(move))

Fetches(move) ==
  IF Prefetched THEN {FetchedAhead}
  ELSE IF current_results.kind = "null" THEN {}
  ELSE ResultsFetch(OneBased(move))

(* Mutant: the last row stays current after the end.                       *)
EndsOnRow(o) ==
  /\ o.r = SQL_NO_DATA
  /\ past_fetch_end' = (conf.cursor = "forward")
  /\ UNCHANGED <<fetch_called, has_rows, delivered>>

FetchEnds(o) ==
  /\ o.r = SQL_NO_DATA
  /\ past_fetch_end' = (conf.cursor = "forward")
  /\ fetch_called' = FALSE
  /\ UNCHANGED <<has_rows, delivered>>

FetchFails(o) ==
  /\ o.r = SQL_ERROR
  /\ UNCHANGED <<past_fetch_end, fetch_called, has_rows, delivered>>

FetchLands(o) ==
  /\ o.r = SQL_SUCCESS
  /\ fetch_called' = TRUE
  /\ has_rows' = TRUE
  /\ delivered' = IF conf.cursor = "forward" THEN delivered + 1 ELSE delivered
  /\ UNCHANGED past_fetch_end

(* get_resultset_meta_data: the column count (the size of the metadata     *)
(* vector if it is not empty) and how many columns the vector ends with.   *)
(* Describing a column may fail, and leaves the ones before it in the      *)
(* vector.                                                                 *)
Described(cached, h) ==
  IF current_meta_data # 0
  THEN {[cols |-> current_meta_data, column_count |-> cached, size |-> current_meta_data]}
  ELSE UNION {
    { [cols |-> c, column_count |-> IF c = SQL_ERROR THEN cached ELSE c, size |-> k] :
        k \in IF c = SQL_ERROR THEN {0}
              ELSE {c} \cup IF TRUE \in MetadataFails /\ c > 0 THEN 0 .. c - 1 ELSE {} }
    : c \in IF cached # ACTIVE_NUM_COLS_INVALID THEN {cached} ELSE SQLNumResultCols(h) }

WholeVector(d) == d.cols # SQL_ERROR /\ d.size = d.cols

FetchOnly(move) ==
  /\ last_field_index' = IF Prefetched THEN last_field_index ELSE -1
  /\ Fetched("sqlsrv_fetch", move, "true", 0)
  /\ UNCHANGED <<current_meta_data, fetch_fields_count>>

(* fetch_fields_common: describe the columns, remember their names when    *)
(* the array is associative, and read every field in order.                *)
FetchFields(c, o, move) ==
  LET before == IF Prefetched THEN last_field_index ELSE -1 IN
  \E d \in Described(c, o.h) :
    /\ current_meta_data' = d.size
    /\ \/ /\ ~WholeVector(d)
          /\ last_field_index' = before
          /\ Fetched("sqlsrv_fetch_array", move, "false", 0)
          /\ UNCHANGED fetch_fields_count
       \/ /\ WholeVector(d)
          /\ fetch_fields_count' \in {fetch_fields_count, IF fetch_fields_count = 0 THEN d.cols
                                                          ELSE fetch_fields_count}
          /\ \/ /\ SQL_ERROR \in ResultsGetData(o.h, o.res) \/ before > 0
                /\ last_field_index' \in before .. d.cols - 2
                /\ Fetched("sqlsrv_fetch_array", move, "false", 0)
             \/ /\ SQL_SUCCESS \in ResultsGetData(o.h, o.res) /\ before <= 0
                /\ last_field_index' = d.cols - 1
                /\ Fetched("sqlsrv_fetch_array", move, "true", d.cols)

FetchDies(c, move) ==
  \E o \in Fetches(move) :
    /\ o.r = SQL_SUCCESS /\ NoSuchRow(o.res)
    /\ \E d \in Described(c, o.h) : WholeVector(d)

(* core_sqlsrv_fetch, alone (sqlsrv_fetch) or followed by the reading of   *)
(* the row (sqlsrv_fetch_array, sqlsrv_fetch_object).                      *)
core_sqlsrv_fetch(move, fn) ==
  \/ /\ FetchRefused
     /\ Fetched(fn, move, "false", 0)
     /\ UNCHANGED <<phase, conf, odbc, flags, last_field_index, current_meta_data,
                    fetch_fields_count, current_results, params, delivered>>
  \/ \E c \in {ACTIVE_NUM_COLS_INVALID} \cup 0 .. MaxCols :
       /\ FetchAllowed(c)
       /\ \/ ~Prefetched /\ current_results.kind = "null" /\ Crash(fn)
          \/ fn = "sqlsrv_fetch_array" /\ FetchDies(c, move) /\ Dies(fn)
          \/ \E o \in Fetches(move) :
               /\ column_count' = c
               /\ odbc' = o.h /\ current_results' = o.res
               /\ \/ FetchEnds(o) /\ Fetched(fn, move, "null", 0) /\ UNCHANGED <<last_field_index,
                                               current_meta_data, fetch_fields_count>>
                  \/ FetchFails(o) /\ Fetched(fn, move, "false", 0) /\ UNCHANGED <<last_field_index,
                                               current_meta_data, fetch_fields_count>>
                  \/ FetchLands(o) /\ IF fn = "sqlsrv_fetch" THEN FetchOnly(move)
                                      ELSE FetchFields(c, o, move)
               /\ UNCHANGED <<phase, conf, executed, past_next_result_end, params>>

sqlsrv_fetch(move)       == phase = "ready" /\ core_sqlsrv_fetch(move, "sqlsrv_fetch")
sqlsrv_fetch_array(move) == phase = "ready" /\ core_sqlsrv_fetch(move, "sqlsrv_fetch_array")

(* sqlsrv_get_field for column i, when it is not asked for as a stream.    *)
WellCalled(d, i) == WholeVector(d) /\ i < d.cols /\ executed /\ fetch_called /\ last_field_index <= i

GetsField(i) ==
  /\ \E d \in Described(column_count, odbc) :
       /\ column_count' = d.column_count
       /\ current_meta_data' = d.size
       /\ \/ /\ ~WellCalled(d, i) \/ SQL_ERROR \in ResultsGetData(odbc, current_results)
             /\ Return("sqlsrv_get_field", "false")
             /\ UNCHANGED last_field_index
          \/ /\ WellCalled(d, i) /\ SQL_SUCCESS \in ResultsGetData(odbc, current_results)
             /\ Return("sqlsrv_get_field", "value")
             /\ last_field_index' = i
  /\ UNCHANGED <<phase, conf, odbc, flags, fetch_fields_count, current_results, params, delivered>>

sqlsrv_get_field(i) ==
  /\ phase = "ready"
  /\ \/ GetsField(i)
     \/ /\ NoSuchRow(current_results)
        /\ \E d \in Described(column_count, odbc) : WellCalled(d, i)
        /\ Dies("sqlsrv_get_field")

First == [style |-> "SQL_FETCH_FIRST", offset |-> 0]

(* Mutant: a scrollable cursor stays on the row it looked at.              *)
LooksAndStays ==
  /\ ~has_rows /\ ~fetch_called
  /\ \E c \in SQLNumResultCols(odbc) :
       \/ c \in {SQL_ERROR, 0} /\ UNCHANGED <<odbc, current_results, has_rows>>
       \/ /\ c \notin {SQL_ERROR, 0} /\ current_results.kind # "null"
          /\ \E o \in ResultsFetch(First) :
               odbc' = o.h /\ current_results' = o.res /\ has_rows' = (o.r = SQL_SUCCESS)

(* determine_stmt_has_rows: a scrollable cursor looks at its first row and *)
(* goes back before it, a forward-only one keeps the row it fetched.       *)
LooksAhead ==
  /\ ~has_rows /\ ~fetch_called
  /\ \E c \in SQLNumResultCols(odbc) :
       \/ c \in {SQL_ERROR, 0} /\ UNCHANGED <<odbc, current_results, has_rows>>
       \/ /\ c \notin {SQL_ERROR, 0} /\ conf.cursor = "forward"
          /\ \E o \in SQLFetchScroll(odbc, [style |-> "SQL_FETCH_NEXT", offset |-> 0], TRUE) :
               odbc' = o.h /\ has_rows' = (o.r = SQL_SUCCESS) /\ UNCHANGED current_results
       \/ /\ c \notin {SQL_ERROR, 0} /\ conf.cursor # "forward" /\ current_results.kind # "null"
          /\ \E o \in ResultsFetch(First) :
               /\ has_rows' = (o.r = SQL_SUCCESS)
               /\ IF o.r = SQL_SUCCESS /\ current_results.kind = "odbc"
                  THEN odbc' = [o.h EXCEPT !.at = 0] /\ current_results' = o.res
                  ELSE /\ odbc' = o.h
                       /\ current_results' = [o.res EXCEPT !.at = IF o.r = SQL_SUCCESS THEN 0 ELSE @]

(* The step back before the first row fails: has_rows is set already.      *)
LookThrows ==
  /\ ~has_rows /\ ~fetch_called
  /\ SQLNumResultCols(odbc) \ {SQL_ERROR, 0} # {}
  /\ conf.cursor # "forward" /\ current_results.kind = "odbc"
  /\ \E o \in ResultsFetch(First) : o.r = SQL_SUCCESS /\ odbc' = o.h
  /\ has_rows' = TRUE
  /\ UNCHANGED current_results

sqlsrv_has_rows ==
  /\ phase = "ready"
  /\ \/ /\ ~executed
        /\ Return("sqlsrv_has_rows", "false")
        /\ UNCHANGED <<odbc, current_results, has_rows>>
     \/ /\ executed /\ (has_rows \/ fetch_called)
        /\ Return("sqlsrv_has_rows", IF has_rows THEN "true" ELSE "false")
        /\ UNCHANGED <<odbc, current_results, has_rows>>
     \/ /\ executed /\ LooksAhead
        /\ Return("sqlsrv_has_rows", IF has_rows' THEN "true" ELSE "false")
     \/ /\ executed /\ LookThrows
        /\ Return("sqlsrv_has_rows", "false")
  /\ UNCHANGED <<phase, conf, executed, past_fetch_end, past_next_result_end, fetch_called,
                 caches, params, delivered>>

HasRowsCrashes ==
  /\ phase = "ready" /\ executed /\ ~has_rows /\ ~fetch_called
  /\ conf.cursor # "forward" /\ current_results.kind = "null"
  /\ SQLNumResultCols(odbc) \ {SQL_ERROR, 0} # {}
  /\ Crash("sqlsrv_has_rows")

(* sqlsrv_rows_affected on a forward-only statement, sqlsrv_num_rows on a  *)
(* scrollable one: both ask current_results.                               *)
RowCount(fn) ==
  /\ phase = "ready"
  /\ \/ /\ ~executed \/ (conf.cursor = "forward") # (fn = "sqlsrv_rows_affected")
        /\ Return(fn, "false")
        /\ UNCHANGED <<phase, conf, odbc, flags, caches, current_results, params, delivered>>
     \/ /\ executed /\ (conf.cursor = "forward") = (fn = "sqlsrv_rows_affected")
        /\ IF current_results.kind = "null" THEN Crash(fn)
           ELSE /\ \/ Return(fn, "value")
                   \/ current_results.kind = "odbc" /\ Return(fn, "false")
                /\ UNCHANGED <<phase, conf, odbc, flags, caches, current_results, params, delivered>>

(* core_sqlsrv_send_stream_packet, one packet.  The end of a stream lets   *)
(* the next call ask ODBC for the next parameter; an error drops all the   *)
(* parameters and cancels.                                                 *)
PacketFails ==
  /\ odbc' = SQLCancel(odbc)
  /\ outputs' = "none" /\ current_param' = FALSE
  /\ Return("sqlsrv_send_stream_data", "false")

SendPacket(h) ==
  /\ odbc' = h
  /\ current_param' \in BOOLEAN
  /\ Return("sqlsrv_send_stream_data", "true")
  /\ UNCHANGED outputs

sqlsrv_send_stream_data ==
  /\ phase = "ready"
  /\ \/ /\ conf.send
        /\ Return("sqlsrv_send_stream_data", "null")
        /\ UNCHANGED <<odbc, outputs, current_param>>
     \/ ~conf.send /\ PacketFails
     \/ ~conf.send /\ current_param /\ SendPacket(odbc)
     \/ /\ ~conf.send /\ ~current_param
        /\ \E o \in SQLParamData(odbc) :
             \/ o.r = SQL_NEED_DATA /\ SendPacket(o.h)
             \/ /\ o.r = SQL_SUCCESS
                /\ odbc' = o.h /\ current_param' = FALSE
                /\ Return("sqlsrv_send_stream_data", "null")
                /\ UNCHANGED outputs
  /\ UNCHANGED <<phase, conf, flags, caches, current_results, params_z, delivered>>

sqlsrv_cancel ==
  /\ phase = "ready"
  /\ \/ odbc' = SQLCancel(odbc) /\ Return("sqlsrv_cancel", "true")
     \/ odbc' = odbc /\ Return("sqlsrv_cancel", "false")
  /\ UNCHANGED <<phase, conf, flags, caches, current_results, params, delivered>>

(* Mutant: one call of SQLMoreResults instead of the loop.                 *)
DrainedOnce(h)    == IF h.state = "open" /\ Len(h.batch) > 1 THEN Opened(Tail(h.batch)) ELSE Idle

(* sqlsrv_stmt_dtor, which sqlsrv_free_stmt, sqlsrv_close and the end of   *)
(* the request run: SQLMoreResults is called for as long as it succeeds.   *)
Drained(h) ==
  LET stops == { i \in 2 .. Len(h.batch) : h.batch[i].kind = "error" }
      first == CHOOSE i \in stops : \A j \in stops : i <= j
  IN IF h.state # "open" THEN h
     ELSE IF stops = {} THEN Idle
     ELSE Opened(SubSeq(h.batch, first, Len(h.batch)))

sqlsrv_free_stmt ==
  /\ phase = "ready"
  /\ odbc' = IF executed /\ ~past_next_result_end THEN Drained(odbc) ELSE odbc
  /\ Gone
  /\ Return("sqlsrv_free_stmt", "true")

-----------------------------------------------------------------------------
Init ==
  /\ phase = "none" /\ conf = NoConf
  /\ odbc = Idle
  /\ executed = FALSE /\ past_fetch_end = FALSE /\ past_next_result_end = FALSE
  /\ has_rows = FALSE /\ fetch_called = FALSE
  /\ last_field_index = -1 /\ column_count = ACTIVE_NUM_COLS_INVALID
  /\ current_meta_data = 0 /\ fetch_fields_count = 0
  /\ current_results = NullResults
  /\ params_z = "none" /\ outputs = "none" /\ current_param = FALSE
  /\ call = [fn |-> "none", to |-> "none", ret |-> "null", fields |-> 0]
  /\ delivered = 0

Next ==
  \/ \E c \in Confs, p \in ParamKinds :
       \/ c.prepared /\ sqlsrv_prepare(c, p)
       \/ ~c.prepared /\ sqlsrv_query(c, p)
  \/ sqlsrv_execute
  \/ FlushStep
  \/ sqlsrv_next_result
  \/ \E move \in Moves : sqlsrv_fetch(move) \/ sqlsrv_fetch_array(move)
  \/ \E i \in 0 .. MaxCols - 1 : sqlsrv_get_field(i)
  \/ sqlsrv_has_rows \/ HasRowsCrashes
  \/ RowCount("sqlsrv_rows_affected") \/ RowCount("sqlsrv_num_rows")
  \/ sqlsrv_send_stream_data
  \/ sqlsrv_cancel
  \/ sqlsrv_free_stmt

Spec == Init /\ [][Next]_vars

(* The flush loop runs inside one PHP call: nothing else runs until it is  *)
(* over, and nothing holds it up.                                          *)
FairSpec == Spec /\ WF_vars(FlushStep)

=============================================================================
