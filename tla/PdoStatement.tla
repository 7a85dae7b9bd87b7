---------------------------- MODULE PdoStatement ----------------------------
(***************************************************************************)
(* One PDOStatement of pdo_sqlsrv: the handlers of pdo_stmt.cpp over the   *)
(* core of Statement, and what PDO itself keeps and checks around them.    *)
(*                                                                         *)
(* PDO is external: it remembers whether the statement was executed and    *)
(* which columns it has, has them described after an execution and after   *)
(* nextRowset, and reads the bound columns of a row it fetched in the      *)
(* order they were bound, then the others; a PDORow reads on demand.  Each *)
(* call of a handler, and each round trip of its loops, is a step.         *)
(***************************************************************************)
EXTENDS Statement

CONSTANTS BindOrders,   \* the columns a script may bind, in the order it binds them
          FetchModes    \* "all": every column; "bound": the bound ones; "lazy": a PDORow

ASSUME PdoAssumption == /\ << >> \in BindOrders
                        /\ BindOrders \subseteq Seq(0 .. MaxCols - 1)
                        /\ FetchModes \subseteq {"all", "bound", "lazy"}

VARIABLES pdo,           \* what PDO knows: executed, column_count, columns described, a PDORow;
                         \* "refused" is history: describing a column of this result failed
          binds,         \* bound_columns, in order
          todo,          \* the columns of the row PDO has still to read
          bound_types,   \* bound_column_param_types: whether there is one, and what it says
          php_types,     \* current_meta_data[i]->sqlsrv_php_type
          field_cache,   \* the types of the fields of a row read so far
          on_row,        \* history: the row the cache was filled from is still the current one
          given          \* history: the type each column of the row was given with

pdo_vars  == <<pdo, binds, todo, bound_types, php_types, field_cache, on_row, given>>
stmt_vars == <<phase, conf, odbc, flags, caches, current_results, params, call, delivered>>
all_vars  == <<stmt_vars, pdo_vars>>

NoColumns == -1   \* stmt->columns is NULL
Columns   == 0 .. MaxCols - 1
Types     == {"default", "string", "bound"}
Unread    == [i \in Columns |-> "none"]
Invalid   == [i \in Columns |-> "invalid"]
NoTypes   == [made |-> FALSE, cols |-> {}]
NewPdo    == [executed |-> FALSE, column_count |-> 0, columns |-> NoColumns, row |-> FALSE,
              refused |-> FALSE]

PdoTypeOK ==
  /\ phase \in {"none", "ready", "flush", "run", "count", "describe", "next", "close"}
  /\ pdo \in [executed : BOOLEAN, column_count : 0 .. MaxCols, columns : NoColumns .. MaxCols,
              row : BOOLEAN, refused : BOOLEAN]
  /\ binds \in BindOrders
  /\ bound_types \in [made : BOOLEAN, cols : SUBSET Columns]
  /\ php_types \in [Columns -> Types \cup {"invalid"}]
  /\ field_cache \in [Columns -> Types \cup {"none"}]
  /\ given \in [Columns -> Types \cup {"none"}]
  /\ on_row \in BOOLEAN

PdoInit ==
  /\ Init
  /\ pdo = NewPdo
  /\ binds = << >> /\ bound_types = NoTypes
  /\ todo = <<>>
  /\ php_types = Invalid /\ field_cache = Unread /\ given = Unread
  /\ on_row = FALSE

Between == phase = "ready" /\ todo = <<>>

PdoGone == /\ pdo' = NewPdo /\ todo' = << >> /\ binds' = << >> /\ bound_types' = NoTypes
           /\ php_types' = Invalid /\ field_cache' = Unread /\ given' = Unread /\ on_row' = FALSE

(* A failing SQLSRV_ASSERT ends the script.                                *)
Stops(fn) == /\ Crash(fn)
             /\ PdoGone

(* The metadata of a result takes the types saved for its columns along.   *)
MetadataFollows == php_types' = IF current_meta_data' = 0 THEN Invalid ELSE php_types
ResultLost      == on_row' = FALSE /\ UNCHANGED <<field_cache, given>>
---------------------------------------------------------------------------
prepare(c, p) ==
  /\ phase = "none" /\ c.prepared
  /\ phase' = "ready" /\ conf' = c /\ odbc' = Idle /\ params_z' = p
  /\ Return("prepare", "true")
  /\ UNCHANGED <<flags, caches, current_results, outputs, current_param, delivered, pdo_vars>>

(* Mutant: only a row that is being read is in the way.                    *)
RowUnfinished == fetch_called /\ ~past_next_result_end

(* Something of the batch is left.                                         *)
Unfinished == executed /\ ~past_next_result_end

(* PDOStatement::execute: the hook of a parameter flushes what is left of  *)
(* the batch before it binds it, and so does the handler before it runs.   *)
execute ==
  /\ Between
  /\ phase' = IF Unfinished THEN "flush" ELSE "run"
  /\ Return("execute", "pending")
  /\ UNCHANGED <<conf, odbc, flags, caches, current_results, params, delivered, pdo_vars>>

(* Mutant: the end of the batch is not remembered.                         *)
FlushEndForgotten(m, finalize, fn) ==
  /\ m.r = SQL_NO_DATA
  /\ odbc' = m.h
  /\ Return(fn, "pending")
  /\ UNCHANGED <<flags, outputs, caches, current_results, delivered>>

FlushEnds(m, finalize, fn) ==
  /\ m.r = SQL_NO_DATA
  /\ odbc' = m.h
  /\ past_next_result_end' = TRUE
  /\ outputs' = IF finalize THEN Finalized(outputs) ELSE outputs
  /\ Return(fn, "pending")
  /\ UNCHANGED <<executed, past_fetch_end, has_rows, fetch_called, caches, current_results, delivered>>

FlushMoves(m, throw, fn) ==
  /\ ResetForNewResult
  /\ column_count' = ACTIVE_NUM_COLS_INVALID
  /\ \E n \in NewResults(m.h, conf.cursor) :
       /\ odbc' = IF ~n.ok /\ throw THEN SQLCancel(n.h) ELSE n.h
       /\ current_results' = n.res
       /\ Return(fn, IF n.ok THEN "pending" ELSE "false")
  /\ UNCHANGED <<executed, outputs>>

(* core_sqlsrv_next_result as execute and closeCursor call it: an error is *)
(* thrown, or passed over in silence.                                      *)
Flushed(finalize, throw, fn) ==
  LET m == SQLMoreResults(odbc) IN
  /\ \/ throw /\ NextResultThrows(m, fn)
     \/ FlushEnds(m, finalize, fn)
     \/ NextResultEndThrows(m, finalize, fn)
     \/ /\ m.r = SQL_SUCCESS \/ (m.r = SQL_ERROR /\ ~throw)
        /\ FlushMoves(m, throw, fn)
  /\ MetadataFollows /\ ResultLost
  /\ UNCHANGED <<conf, params_z, current_param, pdo, binds, todo, bound_types>>

ExecuteFlush ==
  /\ phase = "flush"
  /\ Flushed(FALSE, ~conf.continue, "execute")
  /\ phase' = IF call'.ret = "false" THEN "ready" ELSE IF past_next_result_end' THEN "run" ELSE "flush"

(* Binding a parameter may fail, which frees all of them.                  *)
BindFails ==
  /\ phase = "run" /\ params_z # "none"
  /\ phase' = "ready"
  /\ outputs' = "none" /\ current_param' = FALSE
  /\ Return("execute", "false")
  /\ UNCHANGED <<conf, odbc, flags, caches, current_results, params_z, delivered, pdo_vars>>

(* Mutant: PDO goes on with the columns it has.                            *)
ColumnsKept == pdo' = pdo

(* PDO describes the columns of every execution anew.                      *)
ColumnsFreed == pdo' = [pdo EXCEPT !.executed = FALSE, !.column_count = 0, !.columns = NoColumns,
                                     !.refused = FALSE]

ExecuteRuns ==
  /\ phase = "run"
  /\ core_sqlsrv_execute(odbc, conf, params_z, executed, "execute")
  /\ \/ call'.ret = "false" /\ phase' = "ready" /\ UNCHANGED pdo
     \/ call'.ret = "true" /\ phase' = "count" /\ ColumnsFreed
  /\ MetadataFollows /\ ResultLost
  /\ UNCHANGED <<conf, params_z, binds, todo, bound_types>>

(* How many columns the result has: known, asked for, or none at an error  *)
(* marker, where ODBC has no cursor to ask.                                *)
ColumnCounts ==
  IF current_results.kind = "null" THEN {0}
  ELSE IF column_count = ACTIVE_NUM_COLS_INVALID THEN SQLNumResultCols(odbc) ELSE {column_count}

(* The end of execute and of nextRowset; counting rows may fail, too.  PDO *)
(* has the columns described of a statement it takes for new.              *)
CountColumns ==
  /\ phase = "count"
  /\ \/ /\ pdo' = pdo
        /\ phase' = "ready"
        /\ column_count' \in {column_count} \cup (ColumnCounts \ {SQL_ERROR})
        /\ Return(call.fn, "false")
     \/ \E c \in ColumnCounts \ {SQL_ERROR} :
          /\ column_count' = c
          /\ pdo' = [pdo EXCEPT !.executed = TRUE, !.column_count = c,
                                !.columns = IF pdo.executed THEN @ ELSE 0]
          /\ phase' = IF pdo.executed THEN "ready" ELSE "describe"
          /\ Return(call.fn, "pending")
  /\ UNCHANGED <<conf, odbc, flags, last_field_index, current_meta_data, fetch_fields_count,
                 current_results, params, delivered, binds, todo, bound_types,
                 php_types, field_cache, on_row, given>>

(* PDO has the columns described one by one; describe_col adds each to the *)
(* vector and asserts that it is in step.                                  *)
describe_col ==
  /\ phase = "describe" /\ pdo.columns < pdo.column_count
  /\ \/ /\ current_meta_data # pdo.columns
        /\ Stops("describe_col")
     \/ /\ current_meta_data = pdo.columns
        /\ current_meta_data' = current_meta_data + 1
        /\ pdo' = [pdo EXCEPT !.columns = @ + 1]
        /\ UNCHANGED <<phase, call>>
        /\ UNCHANGED <<conf, odbc, flags, last_field_index, column_count, fetch_fields_count,
                       current_results, params, delivered, binds, todo, bound_types, php_types, field_cache,
                       on_row, given>>

(* A column cannot be described: PDO goes no further, execute fails,       *)
(* nextRowset does not, and the statement counts as executed.              *)
DescribeFails ==
  /\ phase = "describe" /\ pdo.columns < pdo.column_count
  /\ TRUE \in MetadataFails
  /\ phase' = "ready"
  /\ pdo' = [pdo EXCEPT !.refused = TRUE]
  /\ Return(call.fn, IF call.fn = "execute" THEN "false" ELSE "true")
  /\ UNCHANGED <<conf, odbc, flags, caches, current_results, params, delivered, binds, todo,
                 bound_types, php_types, field_cache, on_row, given>>

DescribeEnds ==
  /\ phase = "describe" /\ pdo.columns = pdo.column_count
  /\ phase' = "ready"
  /\ Return(call.fn, "true")
  /\ UNCHANGED <<conf, odbc, flags, caches, current_results, params, delivered, pdo_vars>>
---------------------------------------------------------------------------
(* PDOStatement::bindColumn: PDO keeps the order of first binding.         *)
bindColumn(c) ==
  /\ Between
  /\ \A i \in DOMAIN binds : binds[i] # c
  /\ binds' = Append(binds, c) /\ binds' \in BindOrders
  /\ UNCHANGED <<stmt_vars, pdo, todo, bound_types, php_types, field_cache, on_row, given>>

(* The types a script bound columns with, remembered at each fetch.        *)
BoundTypes ==
  bound_types' = IF binds = << >> THEN bound_types
                 ELSE [made |-> TRUE,
                       cols |-> bound_types.cols \cup
                                { binds[i] : i \in { j \in DOMAIN binds : binds[j] < pdo.column_count } }]

(* What PDO reads of a row in each mode: the bound columns, then the rest. *)
ToRead(mode) ==
  binds \o IF mode = "all" THEN [i \in 1 .. pdo.column_count |-> i - 1] ELSE << >>

(* Mutant: the cache of the row before is kept.                            *)
CacheKept == UNCHANGED field_cache

CacheCleaned == field_cache' = Unread

(* PDOStatement::fetch.  core_sqlsrv_fetch cleans the cache unless the     *)
(* results are at their end.                                               *)
fetch(mode, move) ==
  /\ Between /\ pdo.executed
  /\ core_sqlsrv_fetch(move, "sqlsrv_fetch")
  /\ IF call'.ret = "crash" THEN PdoGone
     ELSE /\ BoundTypes
          /\ pdo' = [pdo EXCEPT !.row = mode = "lazy" /\ call'.ret = "true"]
          /\ todo' = IF call'.ret = "true" THEN ToRead(mode) ELSE << >>
          /\ on_row' = (call'.ret = "true")
          /\ IF past_next_result_end THEN UNCHANGED <<field_cache, given>>
             ELSE CacheCleaned /\ given' = Unread
          /\ UNCHANGED <<binds, php_types>>
---------------------------------------------------------------------------
(* The type pdo_sqlsrv_stmt_get_col_data asks column c with, and the one a *)
(* column is read with when a later one is asked for before it.            *)
TypeOf(c)  == IF binds = << >> THEN "default" ELSE IF c \in bound_types.cols THEN "bound" ELSE "string"
SavedType(i) == IF php_types[i] = "invalid" THEN "default" ELSE php_types[i]

Skipped(c) == last_field_index + 1 .. c - 1
CanGetField == fetch_called /\ SQL_SUCCESS \in ResultsGetData(odbc, current_results)

(* core_sqlsrv_get_field: the columns before c that were skipped are read  *)
(* and cached first, because ODBC reads only forward.                      *)
FieldRead(c) ==
  /\ CanGetField /\ last_field_index <= c
  /\ \A i \in Skipped(c) : field_cache[i] = "none"
  /\ last_field_index' = c
  /\ field_cache' = [i \in Columns |-> IF i \in Skipped(c) THEN SavedType(i)
                                       ELSE IF i = c THEN TypeOf(c) ELSE field_cache[i]]
  /\ php_types' = [i \in Columns |-> IF i \in Skipped(c) THEN SavedType(i)
                                     ELSE IF i = c THEN TypeOf(c) ELSE php_types[i]]
  /\ given' = [given EXCEPT ![c] = TypeOf(c)]

FieldCached(c) ==
  /\ field_cache[c] # "none"
  /\ given' = [given EXCEPT ![c] = field_cache[c]]
  /\ php_types' = [php_types EXCEPT ![c] = TypeOf(c)]
  /\ UNCHANGED <<last_field_index, field_cache>>

(* An error on the way: the type asked for is refused, or the read of some *)
(* column fails; the columns read before it stay in the cache.             *)
FieldFails(c) ==
  /\ UNCHANGED given
  /\ \/ /\ TypeOf(c) = "bound"
        /\ php_types' = [php_types EXCEPT ![c] = "default"]
        /\ UNCHANGED <<last_field_index, field_cache>>
     \/ /\ field_cache[c] = "none"
        /\ \E k \in last_field_index .. c - 1 \cup {last_field_index} :
             /\ k > last_field_index => CanGetField
             /\ \A i \in last_field_index + 1 .. k : field_cache[i] = "none"
             /\ last_field_index' = k
             /\ field_cache' = [i \in Columns |-> IF i \in last_field_index + 1 .. k THEN SavedType(i)
                                                  ELSE field_cache[i]]
             /\ php_types' = [i \in Columns |->
                                IF i = c THEN TypeOf(c)
                                ELSE IF i \in Skipped(c) /\ i <= k + 1 THEN SavedType(i) ELSE php_types[i]]

(* The assertions on the way, and the array of types bound columns need.   *)
FieldStops(c) ==
  \/ c >= current_meta_data
  \/ binds # << >> /\ ~bound_types.made
  \/ /\ field_cache[c] = "none" /\ executed
     /\ \E i \in Skipped(c) : /\ field_cache[i] # "none"
                             /\ (i = last_field_index + 1 \/ CanGetField)

(* The buffered cursor is on no row, and get_row asserts that it is.       *)
FieldMissesRow(c) ==
  /\ c < current_meta_data
  /\ field_cache[c] = "none" /\ executed /\ fetch_called
  /\ NoSuchRow(current_results)

get_col_data(c, fn) ==
  \/ FieldStops(c) /\ Stops(fn)
  \/ FieldMissesRow(c) /\ Dies(fn) /\ PdoGone
  \/ /\ c < current_meta_data /\ (binds = << >> \/ bound_types.made)
     /\ \/ FieldCached(c) /\ Return(fn, "value")
        \/ field_cache[c] = "none" /\ executed /\ FieldRead(c) /\ Return(fn, "value")
        \/ FieldFails(c) /\ Return(fn, "false")
     /\ UNCHANGED <<phase, conf, odbc, flags, column_count, current_meta_data, fetch_fields_count,
                    current_results, params, delivered, pdo, binds, bound_types, on_row>>

(* PDO reads the row it fetched; an error does not stop it.  A column that *)
(* was bound and is not in this result is passed over.                     *)
ReadColumn ==
  /\ phase = "ready" /\ todo # << >>
  /\ \/ /\ Head(todo) < pdo.column_count
        /\ get_col_data(Head(todo), "fetch")
        /\ todo' = IF call'.ret \in {"crash", "no_row"} THEN << >> ELSE Tail(todo)
     \/ /\ Head(todo) >= pdo.column_count
        /\ todo' = Tail(todo)
        /\ UNCHANGED <<stmt_vars, pdo, binds, bound_types, php_types, field_cache, on_row, given>>

(* A PDORow reads a column when the script asks for it, whatever happened  *)
(* to the statement since.                                                 *)
PDORow(c) ==
  /\ Between /\ pdo.row /\ c < pdo.column_count
  /\ get_col_data(c, "PDORow")
  /\ UNCHANGED todo
---------------------------------------------------------------------------
(* PDOStatement::nextRowset.  PDO forgets the columns before it asks.      *)
nextRowset ==
  /\ Between /\ pdo.executed
  /\ core_sqlsrv_next_result(TRUE, ~conf.continue, conf.continue, "nextRowset")
  /\ IF call'.ret = "true"
     THEN phase' = "count" ELSE phase' = phase
  /\ ColumnsFreed
  /\ MetadataFollows /\ ResultLost
  /\ UNCHANGED <<conf, params_z, current_param, binds, todo, bound_types>>

(* PDOStatement::closeCursor skips what is left of the batch.              *)
closeCursor ==
  /\ Between
  /\ IF Unfinished
     THEN phase' = "close" /\ Return("closeCursor", "pending") /\ UNCHANGED pdo
     ELSE phase' = phase /\ Return("closeCursor", "true") /\ pdo' = [pdo EXCEPT !.executed = FALSE]
  /\ UNCHANGED <<conf, odbc, flags, caches, current_results, params, delivered, binds, todo,
                 bound_types, php_types, field_cache, on_row, given>>

CloseStep ==
  /\ phase = "close"
  /\ IF past_next_result_end
     THEN /\ phase' = "ready" /\ pdo' = [pdo EXCEPT !.executed = FALSE]
          /\ Return("closeCursor", "true")
          /\ UNCHANGED <<conf, odbc, flags, caches, current_results, params, delivered, binds, todo,
                         bound_types, php_types, field_cache, on_row, given>>
     ELSE /\ Flushed(TRUE, TRUE, "closeCursor")
          /\ phase' = IF call'.ret = "false" THEN "ready" ELSE "close"

getColumnMeta(i) ==
  /\ Between
  /\ IF i >= pdo.column_count \/ pdo.columns = NoColumns
     THEN Return("getColumnMeta", "false") /\ UNCHANGED <<phase, conf, odbc, flags, caches,
                                             current_results, params, delivered, pdo_vars>>
     ELSE \/ i >= current_meta_data /\ Stops("getColumnMeta")
          \/ /\ i < current_meta_data
             /\ \E ret \in {"value", "false"} : Return("getColumnMeta", ret)
             /\ UNCHANGED <<phase, conf, odbc, flags, caches, current_results, params, delivered,
                            pdo_vars>>

free ==
  /\ Between
  /\ odbc' = IF Unfinished THEN Drained(odbc) ELSE odbc
  /\ Gone /\ PdoGone
  /\ Return("free", "true")
---------------------------------------------------------------------------
PdoNext ==
  \/ \E c \in Confs, p \in ParamKinds : prepare(c, p)
  \/ execute \/ ExecuteFlush \/ BindFails \/ ExecuteRuns
  \/ CountColumns \/ describe_col \/ DescribeFails \/ DescribeEnds
  \/ \E c \in Columns : bindColumn(c)
  \/ \E mode \in FetchModes, move \in Moves : fetch(mode, move)
  \/ ReadColumn
  \/ \E c \in Columns : PDORow(c)
  \/ nextRowset
  \/ closeCursor \/ CloseStep
  \/ \E i \in Columns : getColumnMeta(i)
  \/ free

PdoSpec == PdoInit /\ [][PdoNext]_all_vars

(* A handler's loops run inside one call: nothing holds them up.           *)
PdoFairSpec == PdoSpec /\ WF_all_vars(ExecuteFlush) /\ WF_all_vars(CloseStep)
---------------------------------------------------------------------------
(* No handler of a fetch, an execution or nextRowset runs into one of the  *)
(* assertions that tie the metadata to PDO's columns, or into a field that *)
(* was cached before the ones in front of it, unless it reads a result of  *)
(* which describing a column failed.                                       *)
NoAssertFails ==
  [][call'.ret = "crash" /\ call.ret # "crash"
       => \/ call'.fn \in {"getColumnMeta", "PDORow"}
          \/ call'.fn = "fetch" /\ pdo.refused]_all_vars

(* While PDO takes the statement for executed, the columns it had          *)
(* described and the driver's metadata have the same width, the columns it *)
(* counts are those of the result the handle stands on, and all of them    *)
(* are described unless one was refused; over re-execution and nextRowset. *)
ColumnsInSync ==
  phase = "ready" /\ pdo.executed /\ odbc.state = "open" =>
    /\ pdo.columns = current_meta_data
    /\ pdo.column_count = Head(odbc.batch).cols
    /\ pdo.columns = pdo.column_count \/ pdo.refused

(* "Invalid column number in pdo_sqlsrv_stmt_get_col_data": a column that  *)
(* PDO reads of a row it fetched is described (pdo_stmt.cpp 807).          *)
ReadDescribed == ~(call.fn = "fetch" /\ call.ret = "crash")

(* The fields of the current row that are cached are those up to the last  *)
(* one ODBC gave, whatever order PDO asked in and whatever failed: so a    *)
(* column asked for late is never refused for its place.                   *)
CacheIsPrefix ==
  on_row => \A c \in Columns : field_cache[c] # "none" <=> c <= last_field_index

(* "To close the cursor means we make the statement ready for execution    *)
(* again": after closeCursor, the handle has no cursor and no results.     *)
CloseReady == call.fn = "closeCursor" /\ call.ret = "true" => ~Pending(odbc)

(* What PDO takes the statement for is what the driver and ODBC have: the  *)
(* columns while it is executed, nothing once a cursor that is not client- *)
(* side was closed.                                                        *)
InStep == PdoTypeOK /\ ColumnsInSync /\ CloseReady

(* The loops of execute and closeCursor come to an end.                    *)
LoopsEnd == phase \in {"flush", "close"} ~> phase \notin {"flush", "close"}
===========================================================================
