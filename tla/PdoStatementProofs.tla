------------------------- MODULE PdoStatementProofs -------------------------
(***************************************************************************)
(* Proofs about a PDOStatement for every length of batch, rowset and       *)
(* result, every order of binding columns and every choice of the other    *)
(* constants: its types and its field cache first, then how PDO, the       *)
(* driver and ODBC keep in step, and last the values that are quoted.      *)
(***************************************************************************)
EXTENDS PdoStatement, Quoting, StatementProofs, Induction

(* A row fetched ahead is behind the end of its result, and a statement    *)
(* that is gone has fetched none.                                          *)
NotAhead == /\ Prefetched => past_fetch_end
            /\ phase = "none" => ~has_rows

ToDoOK == todo \in Seq(Columns)

Base == PdoTypeOK /\ Typed /\ ToDoOK /\ NotAhead /\ CacheIsPrefix

(* Where the flags of a row come from that is fetched ahead.               *)
FlagsStay == UNCHANGED <<conf, has_rows, fetch_called, past_fetch_end>> \/ has_rows' = FALSE

ColumnTypes == [Columns -> Types \cup {"invalid"}]
CacheTypes  == [Columns -> Types \cup {"none"}]
PdoRecords  == [executed : BOOLEAN, column_count : 0 .. MaxCols, columns : NoColumns .. MaxCols,
                row : BOOLEAN, refused : BOOLEAN]

-----------------------------------------------------------------------------
(* The parts the handlers share.                                           *)

LEMMA AheadStays ==
  ASSUME NotAhead, FlagsStay, phase' = "none" => phase = "none" \/ has_rows' = FALSE
  PROVE  NotAhead'
BY DEF NotAhead, FlagsStay, Prefetched

LEMMA PdoConstants ==
  /\ NewPdo \in PdoRecords
  /\ << >> \in BindOrders /\ NoTypes \in [made : BOOLEAN, cols : SUBSET Columns]
  /\ Invalid \in ColumnTypes /\ Unread \in CacheTypes
  /\ << >> \in Seq(Columns)
<1>1. MaxCols \in Nat /\ NoColumns = -1
  BY OdbcAssumption DEF OdbcAssumption, NoColumns
<1>2. NewPdo \in PdoRecords
  BY <1>1 DEF NewPdo, PdoRecords
<1>3. Invalid \in ColumnTypes /\ Unread \in CacheTypes
  BY DEF Invalid, Unread, ColumnTypes, CacheTypes
<1> QED
  BY <1>2, <1>3, PdoAssumption, EmptySeq DEF PdoAssumption, NoTypes

LEMMA FreedType ==
  ASSUME pdo \in PdoRecords, ColumnsFreed
  PROVE  /\ pdo' \in PdoRecords
         /\ ~pdo'.executed /\ pdo'.column_count = 0 /\ pdo'.columns = NoColumns
<1>1. MaxCols \in Nat /\ NoColumns = -1
  BY OdbcAssumption DEF OdbcAssumption, NoColumns
<1>2. NoColumns \in NoColumns .. MaxCols /\ 0 \in 0 .. MaxCols
  BY <1>1
<1> QED
  BY <1>2 DEF ColumnsFreed, PdoRecords

(* An assertion that fails, or the end of the statement, leaves nothing.   *)
LEMMA PdoGoneBase ==
  ASSUME Gone, PdoGone, HandleOK', CallOK'
  PROVE  Base'
<1>1. PdoTypeOK' /\ ToDoOK'
  BY PdoConstants DEF Gone, PdoGone, PdoTypeOK, ToDoOK, ColumnTypes, CacheTypes, PdoRecords
<1>2. Typed'
  BY GoneType DEF Typed
<1>3. NotAhead' /\ CacheIsPrefix'
  BY DEF Gone, PdoGone, NotAhead, CacheIsPrefix, Prefetched
<1> QED
  BY <1>1, <1>2, <1>3 DEF Base

LEMMA CrashBase ==
  ASSUME NEW fn, Crash(fn) \/ Dies(fn), PdoGone
  PROVE  Base'
<1>1. Typed' /\ Gone
  BY CrashType, DiesType DEF TypeOK, Crash, Dies
<1> QED
  BY <1>1, PdoGoneBase DEF Typed

(* The metadata that follows a result, and the row that is lost with it.   *)
LEMMA FollowsType ==
  ASSUME PdoTypeOK, MetadataFollows, ResultLost
  PROVE  /\ php_types' \in ColumnTypes /\ field_cache' \in CacheTypes /\ given' \in CacheTypes
         /\ on_row' = FALSE /\ CacheIsPrefix'
BY PdoConstants DEF PdoTypeOK, MetadataFollows, ResultLost, CacheIsPrefix, ColumnTypes, CacheTypes

LEMMA ExecuteBase ==
  ASSUME Base, ExecuteRuns
  PROVE  Base'
<1>1. /\ Typed /\ Live(odbc) /\ conf \in AnyConf /\ executed \in BOOLEAN
      /\ PdoTypeOK /\ ToDoOK /\ NotAhead
  BY DEF Base, Typed, HandleOK, FlagsOK, Live, AnyConf
<1>2. core_sqlsrv_execute(odbc, conf, params_z, executed, "execute")
  BY DEF ExecuteRuns
<1>3. /\ HandleOK' /\ FlagsOK' /\ CachesOK' /\ ResultsOK' /\ CallOK'
      /\ outputs' \in {"none", "bound", "final"} /\ current_param' \in BOOLEAN
  BY <1>1, <1>2, ExecuteType
<1>4. UNCHANGED <<conf, params_z, binds, todo, bound_types>> /\ MetadataFollows /\ ResultLost
  BY DEF ExecuteRuns
<1>5. Typed'
  BY <1>1, <1>3, <1>4 DEF Typed, ParamsOK
<1>6. FlagsStay
  BY <1>2, <1>4 DEF core_sqlsrv_execute, ResetForNewResult, FlagsStay
<1>7. /\ phase' \in {"ready", "count"} /\ (UNCHANGED pdo \/ ColumnsFreed)
  BY DEF ExecuteRuns
<1>8. pdo' \in PdoRecords
  BY <1>1, <1>7, FreedType DEF PdoTypeOK, PdoRecords
<1>9. PdoTypeOK' /\ CacheIsPrefix'
  BY <1>1, <1>4, <1>7, <1>8, FollowsType DEF PdoTypeOK, ColumnTypes, CacheTypes, PdoRecords
<1> QED
  BY <1>1, <1>4, <1>5, <1>6, <1>7, <1>9, AheadStays DEF Base, ToDoOK

(* What the flush of a batch does to the handle and the flags.             *)
LEMMA FlushedType ==
  ASSUME Typed, PdoTypeOK, NEW finalize, NEW throw, NEW fn, Flushed(finalize, throw, fn)
  PROVE  Typed' /\ FlagsStay
<1> DEFINE m == SQLMoreResults(odbc)
<1>1. Live(odbc)
  BY DEF Typed, HandleOK, Live
<1>2. /\ Live(m.h)
      /\ m.r \in {SQL_SUCCESS, SQL_ERROR} => m.h.state \in {"open", "need_data"}
  BY <1>1, MoreResultsLive
<1>3. UNCHANGED <<conf, params_z, current_param>>
  BY DEF Flushed
<1> HIDE DEF m
<1>4. CASE NextResultThrows(m, fn)
  <2>1. /\ odbc' = Idle /\ call'.ret = "false"
        /\ UNCHANGED <<flags, caches, current_results, outputs, delivered>>
    BY <1>4 DEF NextResultThrows, SQLCancel, Return
  <2>2. HandleOK'
    BY <2>1, IdleLive DEF HandleOK, Live
  <2>3. CallOK'
    BY <2>1, DeliveredType DEF CallOK
  <2> QED
    BY <1>3, <2>1, <2>2, <2>3
       DEF Typed, FlagsOK, CachesOK, ResultsOK, ParamsOK, flags, caches, FlagsStay
<1>5. CASE FlushEnds(m, finalize, fn)
  <2>1. HandleOK'
    BY <1>2, <1>5 DEF FlushEnds, HandleOK, Live
  <2>2. outputs' \in {"none", "bound", "final"}
    BY <1>5, FinalizedType DEF FlushEnds, Typed, ParamsOK
  <2>3. CallOK'
    BY <1>5, ReturnType, DeliveredType DEF FlushEnds
  <2>4. FlagsOK' /\ CachesOK' /\ ResultsOK'
    BY <1>5 DEF FlushEnds, Typed, FlagsOK, CachesOK, ResultsOK, caches
  <2> QED
    BY <1>3, <1>5, <2>1, <2>2, <2>3, <2>4 DEF Typed, ParamsOK, FlagsStay, FlushEnds
<1>6. CASE m.r \in {SQL_SUCCESS, SQL_ERROR} /\ FlushMoves(m, throw, fn)
  <2>1. PICK n \in NewResults(m.h, conf.cursor) :
          /\ odbc' = IF ~n.ok /\ throw THEN SQLCancel(n.h) ELSE n.h
          /\ current_results' = n.res
          /\ Return(fn, IF n.ok THEN "pending" ELSE "false")
    BY <1>6 DEF FlushMoves
  <2>2. Live(n.h) /\ n.res \in ResultSets
    BY <1>2, <1>6, NewResultsType
  <2>3. HandleOK'
    BY <2>1, <2>2, IdleLive DEF HandleOK, Live, SQLCancel
  <2>4. ResultsOK'
    BY <2>1, <2>2 DEF ResultsOK, ResultSets
  <2>5. ResetForNewResult /\ column_count' = ACTIVE_NUM_COLS_INVALID /\ UNCHANGED <<executed, outputs>>
    BY <1>6 DEF FlushMoves
  <2>6. FlagsOK' /\ CachesOK' /\ has_rows' = FALSE
    BY <2>5, ResetType DEF Typed, FlagsOK, CachesOK
  <2>7. CallOK'
    BY <2>1, <2>5, ResetType, ReturnType
  <2> QED
    BY <1>3, <2>3, <2>4, <2>5, <2>6, <2>7 DEF Typed, ParamsOK, FlagsStay
<1>7. CASE NextResultEndThrows(m, finalize, fn)
  <2>1. /\ odbc' = m.h /\ Return(fn, "false")
        /\ UNCHANGED <<flags, caches, current_results, outputs, delivered>>
    BY <1>7 DEF NextResultEndThrows
  <2>2. HandleOK'
    BY <1>2, <2>1 DEF HandleOK, Live
  <2>3. CallOK'
    BY <2>1, ReturnType, DeliveredType
  <2> QED
    BY <1>3, <2>1, <2>2, <2>3
       DEF Typed, FlagsOK, CachesOK, ResultsOK, ParamsOK, flags, caches, FlagsStay
<1> QED
  BY <1>4, <1>5, <1>6, <1>7 DEF Flushed, m

LEMMA FlushedBase ==
  ASSUME Base, NEW finalize, NEW throw, NEW fn, Flushed(finalize, throw, fn),
         phase # "none", phase' \in {"ready", "flush", "run", "close"}
  PROVE  Base'
<1>1. /\ Typed /\ PdoTypeOK /\ ToDoOK /\ NotAhead
  BY DEF Base
<1>2. Typed' /\ FlagsStay
  BY <1>1, FlushedType
<1>3. MetadataFollows /\ ResultLost /\ UNCHANGED <<pdo, binds, todo, bound_types>>
  BY DEF Flushed
<1>4. PdoTypeOK' /\ CacheIsPrefix'
  BY <1>1, <1>3, FollowsType DEF PdoTypeOK, ColumnTypes, CacheTypes, PdoRecords
<1> QED
  BY <1>1, <1>2, <1>3, <1>4, AheadStays DEF Base, ToDoOK

LEMMA NextRowsetBase ==
  ASSUME Base, nextRowset
  PROVE  Base'
<1>1. /\ Typed /\ PdoTypeOK /\ ToDoOK /\ NotAhead /\ phase = "ready"
  BY DEF Base, nextRowset, Between
<1>2. /\ core_sqlsrv_next_result(TRUE, ~conf.continue, conf.continue, "nextRowset")
      /\ UNCHANGED <<conf, params_z, current_param, binds, todo, bound_types>>
      /\ MetadataFollows /\ ResultLost /\ ColumnsFreed /\ phase' \in {"count", "ready"}
  BY <1>1 DEF nextRowset
<1>3. /\ HandleOK' /\ FlagsOK' /\ CachesOK' /\ ResultsOK' /\ CallOK'
      /\ outputs' \in {"none", "bound", "final"}
  BY <1>1, <1>2, CoreNextResultType
<1>4. Typed'
  BY <1>1, <1>2, <1>3 DEF Typed, ParamsOK
<1>5. FlagsStay
  BY <1>2 DEF core_sqlsrv_next_result, NextResultRefused, NextResultThrows, NextResultReports,
              NextResultEnds, NextResultEndThrows, NextResultMoves, ResetForNewResult, flags, FlagsStay
<1>6. pdo' \in PdoRecords
  BY <1>1, <1>2, FreedType DEF PdoTypeOK, PdoRecords
<1>7. PdoTypeOK' /\ CacheIsPrefix'
  BY <1>1, <1>2, <1>6, FollowsType DEF PdoTypeOK, ColumnTypes, CacheTypes, PdoRecords
<1> QED
  BY <1>1, <1>2, <1>4, <1>5, <1>7, AheadStays DEF Base, ToDoOK

(* Calls that touch neither the row nor what is cached of it.              *)
LEMMA UntouchedBase ==
  ASSUME Base, Typed', phase \in {"none", "ready", "flush", "run", "count", "describe", "next", "close"},
         phase' \in {"ready", "flush", "run", "count", "describe", "close"},
         UNCHANGED <<has_rows, fetch_called, past_fetch_end, last_field_index, todo, bound_types,
                     php_types, field_cache, given, on_row>>,
         conf' = conf \/ phase = "none",
         pdo' \in PdoRecords, binds' \in BindOrders
  PROVE  Base'
<1>1. PdoTypeOK' /\ ToDoOK' /\ CacheIsPrefix'
  BY DEF Base, PdoTypeOK, ToDoOK, CacheIsPrefix, PdoRecords
<1>2. NotAhead'
  BY DEF Base, NotAhead, Prefetched
<1> QED
  BY <1>1, <1>2 DEF Base

LEMMA PrepareBase ==
  ASSUME Base, NEW c \in Confs, NEW p \in ParamKinds, prepare(c, p)
  PROVE  Base'
<1>1. HandleOK'
  BY IdleLive DEF prepare, HandleOK, Live
<1>2. CallOK'
  BY ReturnType, DeliveredType DEF Base, prepare
<1>3. Typed'
  BY <1>1, <1>2 DEF Base, prepare, Typed, FlagsOK, CachesOK, ResultsOK, ParamsOK, flags, caches
<1> QED
  BY <1>3, UntouchedBase DEF Base, prepare, PdoTypeOK, PdoRecords, pdo_vars, flags, caches

(* Nothing changes but the phase, what is called, and what PDO knows.      *)
LEMMA CalledBase ==
  ASSUME Base, NEW fn, NEW ret \in {"true", "false", "null", "value", "pending"},
         Return(fn, ret), phase' \in {"ready", "flush", "run", "count", "describe", "close"},
         UNCHANGED <<conf, odbc, flags, caches, current_results, params, delivered, binds, todo,
                     bound_types, php_types, field_cache, given, on_row>>,
         pdo' \in PdoRecords
  PROVE  Base'
<1>1. CallOK'
  BY ReturnType, DeliveredType DEF Base
<1>2. Typed'
  BY <1>1 DEF Base, Typed, HandleOK, FlagsOK, CachesOK, ResultsOK, ParamsOK, flags, caches, params
<1> QED
  BY <1>2, UntouchedBase DEF Base, PdoTypeOK, flags, caches

LEMMA ExecuteCallBase ==
  ASSUME Base, execute
  PROVE  Base'
<1>1. pdo \in PdoRecords
  BY DEF Base, PdoTypeOK, PdoRecords
<1> QED
  BY <1>1, CalledBase DEF execute, pdo_vars

LEMMA BindFailsBase ==
  ASSUME Base, BindFails
  PROVE  Base'
<1>1. /\ Typed /\ outputs' = "none" /\ current_param' = FALSE
      /\ UNCHANGED <<conf, odbc, flags, caches, current_results, params_z, delivered>>
  BY DEF Base, BindFails
<1>2. CallOK'
  BY <1>1, ReturnType, DeliveredType DEF BindFails
<1>3. HandleOK' /\ FlagsOK' /\ CachesOK' /\ ResultsOK'
  BY <1>1 DEF Typed, HandleOK, FlagsOK, CachesOK, ResultsOK, flags, caches
<1>4. Typed'
  BY <1>1, <1>2, <1>3 DEF Typed, ParamsOK
<1> QED
  BY <1>4, UntouchedBase DEF Base, BindFails, PdoTypeOK, PdoRecords, pdo_vars, flags, caches

LEMMA CountsType ==
  ASSUME Typed, NEW c \in ColumnCounts, c # SQL_ERROR
  PROVE  /\ c \in 0 .. MaxCols
         /\ current_results.kind = "null" => c = 0
         /\ current_results.kind # "null" /\ odbc.state = "open" =>
              c = Head(odbc.batch).cols \/ (c = column_count /\ column_count # ACTIVE_NUM_COLS_INVALID)
<1>1. Live(odbc) /\ column_count \in {ACTIVE_NUM_COLS_INVALID} \cup 0 .. MaxCols /\ MaxCols \in Nat
  BY OdbcAssumption DEF OdbcAssumption, Typed, HandleOK, Live, CachesOK
<1>2. CASE current_results.kind = "null"
  BY <1>1, <1>2 DEF ColumnCounts
<1>3. CASE current_results.kind # "null" /\ column_count = ACTIVE_NUM_COLS_INVALID
  <2>1. c \in SQLNumResultCols(odbc)
    BY <1>3 DEF ColumnCounts
  <2> QED
    BY <1>1, <1>3, <2>1, NumResultColsType
<1>4. CASE current_results.kind # "null" /\ column_count # ACTIVE_NUM_COLS_INVALID
  BY <1>1, <1>4 DEF ColumnCounts
<1> QED
  BY <1>2, <1>3, <1>4

LEMMA CountColumnsBase ==
  ASSUME Base, CountColumns
  PROVE  Base'
<1>1. /\ UNCHANGED <<conf, odbc, flags, last_field_index, current_meta_data, fetch_fields_count,
                     current_results, params, delivered, binds, todo, bound_types,
                     php_types, field_cache, on_row, given>>
      /\ phase' \in {"ready", "describe"}
      /\ Return(call.fn, "false") \/ Return(call.fn, "pending")
  <2>1. CASE phase' = "ready" /\ Return(call.fn, "false")
    BY <2>1 DEF CountColumns
  <2>2. CASE phase' \in {"ready", "describe"} /\ Return(call.fn, "pending")
    BY <2>2 DEF CountColumns
  <2> QED
    BY <2>1, <2>2 DEF CountColumns
<1>2. Typed /\ pdo \in PdoRecords /\ MaxCols \in Nat
  BY OdbcAssumption DEF OdbcAssumption, Base, PdoTypeOK, PdoRecords
<1>3. column_count' \in {ACTIVE_NUM_COLS_INVALID} \cup 0 .. MaxCols /\ pdo' \in PdoRecords
  <2>1. CASE pdo' = pdo /\ column_count' \in {column_count} \cup (ColumnCounts \ {SQL_ERROR})
    BY <1>2, <2>1, CountsType DEF Typed, CachesOK
  <2>2. ASSUME NEW c \in ColumnCounts \ {SQL_ERROR}, column_count' = c,
               pdo' = [pdo EXCEPT !.executed = TRUE, !.column_count = c,
                                  !.columns = IF pdo.executed THEN @ ELSE 0]
        PROVE  column_count' \in {ACTIVE_NUM_COLS_INVALID} \cup 0 .. MaxCols /\ pdo' \in PdoRecords
    <3>1. c \in 0 .. MaxCols
      BY <1>2, <2>2, CountsType
    <3>2. 0 \in NoColumns .. MaxCols
      BY <1>2 DEF NoColumns
    <3>3. (IF pdo.executed THEN pdo.columns ELSE 0) \in NoColumns .. MaxCols
      BY <1>2, <3>2 DEF PdoRecords
    <3>4. pdo' = [executed |-> TRUE, column_count |-> c,
                  columns |-> IF pdo.executed THEN pdo.columns ELSE 0, row |-> pdo.row,
                  refused |-> pdo.refused]
      BY <1>2, <2>2 DEF PdoRecords
    <3> QED
      BY <1>2, <2>2, <3>1, <3>3, <3>4 DEF PdoRecords
  <2> QED
    BY <2>1, <2>2 DEF CountColumns
<1>4. CallOK'
  BY <1>1, <1>2, ReturnType, DeliveredType
<1>5. Typed'
  BY <1>1, <1>2, <1>3, <1>4 DEF Typed, HandleOK, FlagsOK, CachesOK, ResultsOK, ParamsOK, flags, params
<1> QED
  BY <1>1, <1>3, <1>5, UntouchedBase DEF Base, PdoTypeOK, flags

LEMMA DescribeColBase ==
  ASSUME Base, describe_col
  PROVE  Base'
<1>1. CASE Stops("describe_col")
  BY <1>1, CrashBase DEF Stops
<1>2. CASE /\ current_meta_data = pdo.columns
           /\ current_meta_data' = current_meta_data + 1
           /\ pdo' = [pdo EXCEPT !.columns = @ + 1]
           /\ UNCHANGED <<phase, call>>
           /\ UNCHANGED <<conf, odbc, flags, last_field_index, column_count, fetch_fields_count,
                          current_results, params, delivered, binds, todo, bound_types, php_types,
                          field_cache, on_row, given>>
  <2>1. /\ pdo \in PdoRecords /\ MaxCols \in Nat /\ phase = "describe" /\ pdo.columns < pdo.column_count
        /\ current_meta_data \in 0 .. MaxCols
    BY OdbcAssumption DEF OdbcAssumption, Base, PdoTypeOK, PdoRecords, describe_col, Typed, CachesOK
  <2>2. pdo.columns + 1 \in 0 .. MaxCols /\ pdo.columns + 1 \in NoColumns .. MaxCols
    BY <1>2, <2>1 DEF PdoRecords, NoColumns
  <2>3. pdo' \in PdoRecords
    BY <1>2, <2>1, <2>2 DEF PdoRecords
  <2>4. Typed'
    BY <1>2, <2>2 DEF Base, Typed, HandleOK, FlagsOK, CachesOK, ResultsOK, ParamsOK, CallOK, flags, params
  <2> QED
    BY <1>2, <2>1, <2>3, <2>4, UntouchedBase DEF Base, PdoTypeOK, flags
<1> QED
  BY <1>1, <1>2 DEF describe_col

LEMMA DescribeFailsBase ==
  ASSUME Base, DescribeFails
  PROVE  Base'
<1>1. pdo \in PdoRecords /\ pdo' = [pdo EXCEPT !.refused = TRUE]
  BY DEF Base, PdoTypeOK, PdoRecords, DescribeFails
<1>2. pdo' \in PdoRecords
  BY <1>1 DEF PdoRecords
<1>3. PICK ret \in {"true", "false"} : Return(call.fn, ret)
  BY DEF DescribeFails
<1> QED
  BY <1>2, <1>3, CalledBase DEF DescribeFails

LEMMA DescribeEndsBase ==
  ASSUME Base, DescribeEnds
  PROVE  Base'
<1>1. pdo \in PdoRecords
  BY DEF Base, PdoTypeOK, PdoRecords
<1> QED
  BY <1>1, CalledBase DEF DescribeEnds, pdo_vars

LEMMA BindColumnBase ==
  ASSUME Base, NEW c \in Columns, bindColumn(c)
  PROVE  Base'
<1>1. Typed'
  BY DEF Base, bindColumn, stmt_vars, Typed, HandleOK, FlagsOK, CachesOK, ResultsOK, ParamsOK, CallOK,
         flags, caches, params
<1> QED
  BY <1>1, UntouchedBase DEF Base, bindColumn, Between, stmt_vars, PdoTypeOK, PdoRecords, flags, caches

-----------------------------------------------------------------------------
(* Fetching a row, and reading its columns.                                *)

(* The columns a script bound, and those PDO reads of a row.               *)
LEMMA BoundTypesType ==
  ASSUME PdoTypeOK, BoundTypes
  PROVE  /\ bound_types' \in [made : BOOLEAN, cols : SUBSET Columns]
         /\ binds # << >> => bound_types'.made
<1>1. CASE binds = << >>
  BY <1>1 DEF BoundTypes, PdoTypeOK
<1>2. CASE binds # << >>
  <2> DEFINE B == { binds[i] : i \in { j \in DOMAIN binds : binds[j] < pdo.column_count } }
  <2>1. binds \in Seq(Columns)
    BY PdoAssumption DEF PdoAssumption, PdoTypeOK, Columns
  <2>2. B \subseteq Columns
    BY <2>1
  <2>3. bound_types' = [made |-> TRUE, cols |-> bound_types.cols \cup B]
    BY <1>2 DEF BoundTypes
  <2>4. bound_types.cols \subseteq Columns
    BY DEF PdoTypeOK
  <2> HIDE DEF B
  <2>5. bound_types.cols \cup B \in SUBSET Columns
    BY <2>2, <2>4
  <2> QED
    BY <2>3, <2>5
<1> QED
  BY <1>1, <1>2

LEMMA ToReadType ==
  ASSUME PdoTypeOK, NEW mode
  PROVE  ToRead(mode) \in Seq(Columns)
<1>1. binds \in Seq(Columns)
  BY PdoAssumption DEF PdoAssumption, PdoTypeOK, Columns
<1> DEFINE n == pdo.column_count
           all == [i \in 1 .. n |-> i - 1]
<1>2. n \in 0 .. MaxCols /\ MaxCols \in Nat
  BY OdbcAssumption DEF OdbcAssumption, PdoTypeOK
<1> HIDE DEF n
<1>3. all \in [1 .. n -> Columns]
  BY <1>2 DEF Columns
<1>4. all \in Seq(Columns)
  <2>1. n \in Nat
    BY <1>2
  <2> QED
    BY <1>3, <2>1, SeqDef
<1> HIDE DEF all
<1>5. << >> \in Seq(Columns)
  BY EmptySeq
<1>6. (IF mode = "all" THEN all ELSE << >>) \in Seq(Columns)
  BY <1>4, <1>5
<1>7. ToRead(mode) = binds \o IF mode = "all" THEN all ELSE << >>
  BY DEF ToRead, n, all
<1> QED
  BY <1>1, <1>6, <1>7, ConcatProperties

(* The three ways a fetch of PDO ends: it is refused, it crashes, or it    *)
(* moves the cursor.                                                       *)
Refuses(to) ==
  /\ FetchRefused /\ Fetched("sqlsrv_fetch", to, "false", 0)
  /\ UNCHANGED <<phase, conf, odbc, flags, last_field_index, current_meta_data,
                 fetch_fields_count, current_results, params, delivered>>

MovesOn(c, o, to) ==
  /\ FetchAllowed(c) /\ column_count' = c
  /\ odbc' = o.h /\ current_results' = o.res
  /\ \/ FetchEnds(o) /\ call'.ret = "null" /\ UNCHANGED last_field_index
     \/ FetchFails(o) /\ call'.ret = "false" /\ UNCHANGED last_field_index
     \/ FetchLands(o) /\ call'.ret = "true" /\ FetchOnly(to)
  /\ call'.fn = "sqlsrv_fetch"
  /\ UNCHANGED <<phase, conf, executed, past_next_result_end, params, current_meta_data,
                 fetch_fields_count>>

LEMMA FetchIs ==
  ASSUME NEW to \in Moves, core_sqlsrv_fetch(to, "sqlsrv_fetch")
  PROVE  \/ Refuses(to)
         \/ /\ Crash("sqlsrv_fetch") /\ ~Prefetched /\ current_results.kind = "null"
            /\ \E c \in {ACTIVE_NUM_COLS_INVALID} \cup 0 .. MaxCols : FetchAllowed(c)
         \/ \E c \in {ACTIVE_NUM_COLS_INVALID} \cup 0 .. MaxCols : \E o \in Fetches(to) : MovesOn(c, o, to)
<1>1. CASE /\ FetchRefused /\ Fetched("sqlsrv_fetch", to, "false", 0)
           /\ UNCHANGED <<phase, conf, odbc, flags, last_field_index, current_meta_data,
                          fetch_fields_count, current_results, params, delivered>>
  BY <1>1 DEF Refuses
<1>2. ASSUME NEW c \in {ACTIVE_NUM_COLS_INVALID} \cup 0 .. MaxCols, FetchAllowed(c),
             NEW o \in Fetches(to), column_count' = c, odbc' = o.h, current_results' = o.res,
             \/ FetchEnds(o) /\ Fetched("sqlsrv_fetch", to, "null", 0)
                  /\ UNCHANGED <<last_field_index, current_meta_data, fetch_fields_count>>
             \/ FetchFails(o) /\ Fetched("sqlsrv_fetch", to, "false", 0)
                  /\ UNCHANGED <<last_field_index, current_meta_data, fetch_fields_count>>
             \/ FetchLands(o) /\ FetchOnly(to),
             UNCHANGED <<phase, conf, executed, past_next_result_end, params>>
      PROVE  MovesOn(c, o, to)
  BY <1>2 DEF MovesOn, FetchOnly, Fetched
<1> QED
  BY <1>1, <1>2 DEF core_sqlsrv_fetch

LEMMA FetchBase ==
  ASSUME Base, NEW mode, NEW to \in Moves, fetch(mode, to)
  PROVE  Base'
<1>1. /\ Typed /\ PdoTypeOK /\ ToDoOK /\ NotAhead /\ CacheIsPrefix
      /\ phase = "ready" /\ core_sqlsrv_fetch(to, "sqlsrv_fetch")
  BY DEF Base, fetch, Between
<1>2. CASE call'.ret = "crash"
  <2>1. PdoGone
    BY <1>2 DEF fetch
  <2>2. ~Refuses(to) /\ \A c, o : ~MovesOn(c, o, to)
    BY <1>2 DEF Refuses, MovesOn, Fetched
  <2>3. Crash("sqlsrv_fetch")
    BY <1>1, <2>2, FetchIs
  <2> QED
    BY <2>1, <2>3, CrashBase
<1>3. CASE call'.ret # "crash"
  <2>1. /\ BoundTypes /\ UNCHANGED <<binds, php_types>>
        /\ pdo' = [pdo EXCEPT !.row = mode = "lazy" /\ call'.ret = "true"]
        /\ todo' = IF call'.ret = "true" THEN ToRead(mode) ELSE << >>
        /\ on_row' = (call'.ret = "true")
        /\ IF past_next_result_end THEN UNCHANGED <<field_cache, given>>
           ELSE CacheCleaned /\ given' = Unread
    BY <1>3 DEF fetch
  <2>2. ~Crash("sqlsrv_fetch")
    BY <1>3 DEF Crash, Return
  <2>3. Typed' /\ phase' \in {phase, "none"}
    BY <1>1, FetchType
  <2>4. phase' = "ready" /\ conf' = conf
    BY <1>1, <2>2, FetchIs DEF Refuses, MovesOn
  <2>5. pdo' \in PdoRecords
    <3>1. PICK b \in BOOLEAN : b = (mode = "lazy" /\ call'.ret = "true")
      OBVIOUS
    <3>2. pdo' = [pdo EXCEPT !.row = b] /\ pdo \in PdoRecords
      BY <1>1, <2>1, <3>1 DEF PdoTypeOK, PdoRecords
    <3> QED
      BY <3>2 DEF PdoRecords
  <2>6. ToDoOK'
    BY <1>1, <2>1, ToReadType, EmptySeq DEF ToDoOK
  <2>7. field_cache' \in CacheTypes /\ given' \in CacheTypes
    BY <1>1, <2>1, PdoConstants DEF PdoTypeOK, CacheTypes, CacheCleaned
  <2>8. PdoTypeOK'
    BY <1>1, <2>1, <2>4, <2>5, <2>7, BoundTypesType DEF PdoTypeOK, PdoRecords, CacheTypes
  <2>9. NotAhead' /\ CacheIsPrefix'
    <3>1. CASE Refuses(to)
      <4>1. call'.ret = "false" /\ UNCHANGED <<conf, has_rows, fetch_called, past_fetch_end>>
        BY <3>1 DEF Refuses, Fetched, flags
      <4> QED
        BY <1>1, <2>1, <2>4, <4>1 DEF NotAhead, CacheIsPrefix, Prefetched
    <3>2. ASSUME NEW c, NEW o \in Fetches(to), MovesOn(c, o, to)
          PROVE  NotAhead' /\ CacheIsPrefix'
      <4>1. CASE FetchEnds(o) /\ call'.ret = "null"
        BY <2>1, <2>4, <4>1 DEF FetchEnds, NotAhead, Prefetched, CacheIsPrefix
      <4>2. CASE FetchFails(o) /\ call'.ret = "false"
        BY <1>1, <2>1, <2>4, <4>2 DEF FetchFails, NotAhead, Prefetched, CacheIsPrefix
      <4>3. CASE FetchLands(o) /\ call'.ret = "true" /\ FetchOnly(to)
        <5>1. ~past_next_result_end /\ ~past_fetch_end
          BY <3>2 DEF MovesOn, FetchAllowed
        <5>2. ~Prefetched /\ last_field_index' = -1
          BY <1>1, <4>3, <5>1 DEF NotAhead, FetchOnly
        <5>3. field_cache' = Unread
          BY <2>1, <5>1 DEF CacheCleaned
        <5>4. CacheIsPrefix'
          BY <5>2, <5>3, OdbcAssumption DEF OdbcAssumption, CacheIsPrefix, Unread, Columns
        <5>5. NotAhead'
          BY <2>4, <4>3 DEF FetchLands, NotAhead, Prefetched
        <5> QED
          BY <5>4, <5>5
      <4> QED
        BY <3>2, <4>1, <4>2, <4>3 DEF MovesOn
    <3> QED
      BY <1>1, <2>2, <3>1, <3>2, FetchIs
  <2> QED
    BY <2>3, <2>6, <2>8, <2>9 DEF Base
<1> QED
  BY <1>2, <1>3

(* The type a column is read with is never "none", which says that it was  *)
(* not read.                                                               *)
LEMMA TypesAre ==
  ASSUME PdoTypeOK, NEW c \in Columns
  PROVE  TypeOf(c) \in Types /\ SavedType(c) \in Types /\ "none" \notin Types
BY DEF PdoTypeOK, TypeOf, SavedType, Types

(* What reading column c does to the cache and to the place of the handle. *)
LEMMA FieldKeeps ==
  ASSUME Base, NEW c \in Columns,
         \/ FieldCached(c)
         \/ field_cache[c] = "none" /\ FieldRead(c)
         \/ FieldFails(c),
         on_row' = on_row
  PROVE  /\ php_types' \in ColumnTypes /\ field_cache' \in CacheTypes /\ given' \in CacheTypes
         /\ last_field_index' \in -1 .. MaxCols - 1
         /\ CacheIsPrefix'
<1>1. /\ PdoTypeOK /\ CacheIsPrefix /\ MaxCols \in Nat
      /\ last_field_index \in -1 .. MaxCols - 1
      /\ php_types \in ColumnTypes /\ field_cache \in CacheTypes /\ given \in CacheTypes
  BY OdbcAssumption DEF OdbcAssumption, Base, Typed, CachesOK, PdoTypeOK, ColumnTypes, CacheTypes
<1>2. TypeOf(c) \in Types
  BY <1>1, TypesAre
<1>3. \A i \in Columns : SavedType(i) \in Types
  BY <1>1, TypesAre
<1>4. "none" \notin Types
  BY DEF Types
<1>5. c \in 0 .. MaxCols - 1 /\ \A i \in Columns : i \in Int /\ i >= 0
  BY <1>1 DEF Columns
<1>6. CASE FieldCached(c)
  <2>1. given' = [given EXCEPT ![c] = field_cache[c]] /\ php_types' = [php_types EXCEPT ![c] = TypeOf(c)]
        /\ UNCHANGED <<last_field_index, field_cache>>
    BY <1>6 DEF FieldCached
  <2>2. given' \in CacheTypes /\ php_types' \in ColumnTypes
    BY <1>1, <1>2, <2>1 DEF CacheTypes, ColumnTypes
  <2> QED
    BY <1>1, <2>1, <2>2 DEF CacheIsPrefix
<1>7. CASE field_cache[c] = "none" /\ FieldRead(c)
  <2>1. /\ last_field_index <= c /\ last_field_index' = c
        /\ field_cache' = [i \in Columns |-> IF i \in Skipped(c) THEN SavedType(i)
                                             ELSE IF i = c THEN TypeOf(c) ELSE field_cache[i]]
        /\ php_types' = [i \in Columns |-> IF i \in Skipped(c) THEN SavedType(i)
                                           ELSE IF i = c THEN TypeOf(c) ELSE php_types[i]]
        /\ given' = [given EXCEPT ![c] = TypeOf(c)]
    BY <1>7 DEF FieldRead
  <2>2. field_cache' \in CacheTypes
    BY <1>1, <1>2, <1>3, <2>1 DEF CacheTypes
  <2>3. php_types' \in ColumnTypes
    BY <1>1, <1>2, <1>3, <2>1 DEF ColumnTypes
  <2>4. given' \in CacheTypes
    BY <1>1, <1>2, <2>1 DEF CacheTypes
  <2>5. ASSUME on_row, NEW i \in Columns
        PROVE  field_cache'[i] # "none" <=> i <= c
    <3>1. field_cache[i] # "none" <=> i <= last_field_index
      BY <1>1, <2>5 DEF CacheIsPrefix
    <3>2. i \in Skipped(c) <=> i > last_field_index /\ i < c
      BY <1>1, <1>5 DEF Skipped
    <3>3. field_cache'[i] = IF i \in Skipped(c) THEN SavedType(i)
                            ELSE IF i = c THEN TypeOf(c) ELSE field_cache[i]
      BY <2>1
    <3> QED
      BY <1>1, <1>2, <1>3, <1>4, <1>5, <2>1, <3>1, <3>2, <3>3
  <2>6. CacheIsPrefix'
    BY <2>1, <2>5 DEF CacheIsPrefix
  <2> QED
    BY <1>1, <1>5, <2>1, <2>2, <2>3, <2>4, <2>6
<1>8. CASE FieldFails(c)
  <2>1. given' = given
    BY <1>8 DEF FieldFails
  <2>2. CASE /\ php_types' = [php_types EXCEPT ![c] = "default"]
             /\ UNCHANGED <<last_field_index, field_cache>>
    <3>1. php_types' \in ColumnTypes
      BY <1>1, <2>2 DEF ColumnTypes, Types
    <3> QED
      BY <1>1, <2>1, <2>2, <3>1 DEF CacheIsPrefix
  <2>3. ASSUME field_cache[c] = "none",
               NEW k \in last_field_index .. c - 1 \cup {last_field_index},
               last_field_index' = k,
               field_cache' = [i \in Columns |-> IF i \in last_field_index + 1 .. k THEN SavedType(i)
                                                 ELSE field_cache[i]],
               php_types' = [i \in Columns |->
                               IF i = c THEN TypeOf(c)
                               ELSE IF i \in Skipped(c) /\ i <= k + 1 THEN SavedType(i) ELSE php_types[i]]
        PROVE  /\ php_types' \in ColumnTypes /\ field_cache' \in CacheTypes
               /\ last_field_index' \in -1 .. MaxCols - 1
               /\ CacheIsPrefix'
    <3>1. k \in Int /\ k >= last_field_index /\ k \in -1 .. MaxCols - 1
      BY <1>1, <1>5, <2>3
    <3>2. field_cache' \in CacheTypes
      BY <1>1, <1>3, <2>3 DEF CacheTypes
    <3>3. php_types' \in ColumnTypes
      BY <1>1, <1>2, <1>3, <2>3 DEF ColumnTypes
    <3>4. ASSUME on_row, NEW i \in Columns
          PROVE  field_cache'[i] # "none" <=> i <= k
      <4>1. field_cache[i] # "none" <=> i <= last_field_index
        BY <1>1, <3>4 DEF CacheIsPrefix
      <4>2. i \in last_field_index + 1 .. k <=> i > last_field_index /\ i <= k
        BY <1>1, <1>5, <3>1
      <4>3. field_cache'[i] = IF i \in last_field_index + 1 .. k THEN SavedType(i) ELSE field_cache[i]
        BY <2>3
      <4> QED
        BY <1>1, <1>3, <1>4, <1>5, <3>1, <4>1, <4>2, <4>3
    <3>5. CacheIsPrefix'
      BY <2>3, <3>4 DEF CacheIsPrefix
    <3> QED
      BY <2>3, <3>1, <3>2, <3>3, <3>5
  <2> QED
    BY <1>1, <1>8, <2>1, <2>2, <2>3 DEF FieldFails
<1> QED
  BY <1>6, <1>7, <1>8

(* Reading a column, for PDO or on demand, stops or keeps everything but   *)
(* the place in the row and the types.                                     *)
ColumnRead(fn) ==
  /\ call' = [fn |-> fn, to |-> "none", ret |-> call'.ret, fields |-> 0] /\ call'.ret \in {"value", "false"}
  /\ UNCHANGED <<phase, conf, odbc, flags, column_count, current_meta_data, fetch_fields_count,
                 current_results, params, delivered, pdo, binds, bound_types, on_row>>

LEMMA GetColBase ==
  ASSUME Base, NEW c \in Columns, NEW fn, get_col_data(c, fn)
  PROVE  \/ FieldStops(c) /\ Stops(fn) /\ Base'
         \/ Dies(fn) /\ PdoGone /\ Base'
         \/ ColumnRead(fn) /\ (ToDoOK' => Base')
<1>1. CASE FieldStops(c) /\ Stops(fn)
  BY <1>1, CrashBase DEF Stops
<1>2. CASE FieldMissesRow(c) /\ Dies(fn) /\ PdoGone
  BY <1>2, CrashBase
<1>3. CASE /\ \/ FieldCached(c) /\ Return(fn, "value")
              \/ field_cache[c] = "none" /\ executed /\ FieldRead(c) /\ Return(fn, "value")
              \/ FieldFails(c) /\ Return(fn, "false")
           /\ UNCHANGED <<phase, conf, odbc, flags, column_count, current_meta_data, fetch_fields_count,
                          current_results, params, delivered, pdo, binds, bound_types, on_row>>
  <2>1. ColumnRead(fn)
    BY <1>3 DEF ColumnRead, Return
  <2>2. /\ php_types' \in ColumnTypes /\ field_cache' \in CacheTypes /\ given' \in CacheTypes
        /\ last_field_index' \in -1 .. MaxCols - 1
        /\ CacheIsPrefix'
    BY <1>3, FieldKeeps
  <2>3. CallOK'
    BY <2>1, DeliveredType DEF ColumnRead, Base, CallOK
  <2>4. Typed'
    BY <2>1, <2>2, <2>3 DEF ColumnRead, Base, Typed, HandleOK, FlagsOK, CachesOK, ResultsOK, ParamsOK,
                            flags, params
  <2>5. PdoTypeOK'
    BY <2>1, <2>2 DEF ColumnRead, Base, PdoTypeOK, ColumnTypes, CacheTypes
  <2>6. NotAhead'
    BY <2>1 DEF ColumnRead, Base, NotAhead, Prefetched, flags
  <2> QED
    BY <2>1, <2>2, <2>4, <2>5, <2>6 DEF Base
<1> QED
  BY <1>1, <1>2, <1>3 DEF get_col_data

LEMMA ReadColumnBase ==
  ASSUME Base, ReadColumn
  PROVE  Base'
<1>1. /\ todo \in Seq(Columns) /\ todo # << >>
      /\ Head(todo) \in Columns /\ Tail(todo) \in Seq(Columns)
  BY HeadTailProperties DEF Base, ToDoOK, ReadColumn
<1>2. CASE /\ get_col_data(Head(todo), "fetch")
           /\ todo' = IF call'.ret \in {"crash", "no_row"} THEN << >> ELSE Tail(todo)
  <2>1. ToDoOK'
    BY <1>1, <1>2, EmptySeq DEF ToDoOK
  <2> QED
    BY <1>1, <1>2, <2>1, GetColBase
<1>3. CASE /\ todo' = Tail(todo)
           /\ UNCHANGED <<stmt_vars, pdo, binds, bound_types, php_types, field_cache, on_row, given>>
  <2>1. ToDoOK' /\ NotAhead' /\ CacheIsPrefix'
    BY <1>1, <1>3 DEF Base, ToDoOK, NotAhead, Prefetched, CacheIsPrefix, stmt_vars, flags, caches
  <2>2. Typed'
    BY <1>3 DEF Base, Typed, HandleOK, FlagsOK, CachesOK, ResultsOK, ParamsOK, CallOK,
                stmt_vars, flags, caches, params
  <2>3. PdoTypeOK'
    BY <1>3 DEF Base, PdoTypeOK, stmt_vars
  <2> QED
    BY <2>1, <2>2, <2>3 DEF Base
<1> QED
  BY <1>2, <1>3 DEF ReadColumn

LEMMA PDORowBase ==
  ASSUME Base, NEW c \in Columns, PDORow(c)
  PROVE  Base'
<1>1. ToDoOK'
  BY DEF Base, ToDoOK, PDORow
<1> QED
  BY <1>1, GetColBase DEF PDORow

LEMMA CloseCursorBase ==
  ASSUME Base, closeCursor
  PROVE  Base'
<1>1. pdo \in PdoRecords /\ [pdo EXCEPT !.executed = FALSE] \in PdoRecords /\ phase = "ready"
  BY DEF Base, PdoTypeOK, PdoRecords, closeCursor, Between
<1>2. CASE phase' = "close" /\ Return("closeCursor", "pending") /\ UNCHANGED pdo
  BY <1>1, <1>2, CalledBase DEF closeCursor
<1>3. CASE phase' = phase /\ Return("closeCursor", "true") /\ pdo' = [pdo EXCEPT !.executed = FALSE]
  BY <1>1, <1>3, CalledBase DEF closeCursor
<1> QED
  BY <1>2, <1>3 DEF closeCursor

LEMMA CloseStepBase ==
  ASSUME Base, CloseStep
  PROVE  Base'
<1>1. [pdo EXCEPT !.executed = FALSE] \in PdoRecords
  BY DEF Base, PdoTypeOK, PdoRecords
<1>2. CASE past_next_result_end
  BY <1>1, <1>2, CalledBase DEF CloseStep
<1>3. CASE ~past_next_result_end
  BY <1>3, FlushedBase DEF CloseStep
<1> QED
  BY <1>2, <1>3

LEMMA ColumnMetaBase ==
  ASSUME Base, NEW i \in Columns, getColumnMeta(i)
  PROVE  Base'
<1>1. CASE Stops("getColumnMeta")
  BY <1>1, CrashBase DEF Stops
<1>2. CASE /\ \E ret \in {"value", "false"} : Return("getColumnMeta", ret)
           /\ UNCHANGED <<phase, conf, odbc, flags, caches, current_results, params, delivered, pdo_vars>>
  <2>1. pdo \in PdoRecords /\ phase' = "ready"
    BY <1>2 DEF Base, PdoTypeOK, PdoRecords, getColumnMeta, Between
  <2> QED
    BY <1>2, <2>1, CalledBase DEF pdo_vars
<1> QED
  BY <1>1, <1>2 DEF getColumnMeta

LEMMA FreeBase ==
  ASSUME Base, free
  PROVE  Base'
<1>1. Live(odbc)
  BY DEF Base, Typed, HandleOK, Live
<1>2. HandleOK'
  BY <1>1, DrainedLive DEF free, HandleOK, Live
<1>3. CallOK' /\ Gone /\ PdoGone
  BY ReturnType DEF free, Gone
<1> QED
  BY <1>2, <1>3, PdoGoneBase

LEMMA InitBase == PdoInit => Base
<1> SUFFICES ASSUME PdoInit PROVE Base
  OBVIOUS
<1>1. Typed
  BY InitType DEF PdoInit, TypeOK
<1>2. PdoTypeOK /\ ToDoOK
  BY PdoConstants DEF PdoInit, Init, PdoTypeOK, ToDoOK, ColumnTypes, CacheTypes, PdoRecords
<1>3. NotAhead /\ CacheIsPrefix
  BY DEF PdoInit, Init, NotAhead, CacheIsPrefix, Prefetched
<1> QED
  BY <1>1, <1>2, <1>3 DEF Base

LEMMA NextBase == Base /\ [PdoNext]_all_vars => Base'
<1> SUFFICES ASSUME Base, [PdoNext]_all_vars PROVE Base'
  OBVIOUS
<1>1. ASSUME NEW c \in Confs, NEW p \in ParamKinds, prepare(c, p) PROVE Base'
  BY <1>1, PrepareBase
<1>2. CASE execute
  BY <1>2, ExecuteCallBase
<1>3. CASE ExecuteFlush
  <2>1. Flushed(FALSE, ~conf.continue, "execute") /\ phase = "flush" /\ phase' \in {"ready", "run", "flush"}
    BY <1>3 DEF ExecuteFlush
  <2> QED
    BY <2>1, FlushedBase
<1>4. CASE BindFails
  BY <1>4, BindFailsBase
<1>5. CASE ExecuteRuns
  BY <1>5, ExecuteBase
<1>6. CASE CountColumns
  BY <1>6, CountColumnsBase
<1>7. CASE describe_col
  BY <1>7, DescribeColBase
<1>8. CASE DescribeEnds
  BY <1>8, DescribeEndsBase
<1>9. ASSUME NEW c \in Columns, bindColumn(c) PROVE Base'
  BY <1>9, BindColumnBase
<1>10. ASSUME NEW mode \in FetchModes, NEW to \in Moves, fetch(mode, to) PROVE Base'
  BY <1>10, FetchBase
<1>11. CASE ReadColumn
  BY <1>11, ReadColumnBase
<1>12. ASSUME NEW c \in Columns, PDORow(c) PROVE Base'
  BY <1>12, PDORowBase
<1>13. CASE nextRowset
  BY <1>13, NextRowsetBase
<1>14. CASE closeCursor
  BY <1>14, CloseCursorBase
<1>15. CASE CloseStep
  BY <1>15, CloseStepBase
<1>16. ASSUME NEW i \in Columns, getColumnMeta(i) PROVE Base'
  BY <1>16, ColumnMetaBase
<1>17. CASE free
  BY <1>17, FreeBase
<1>18. CASE DescribeFails
  BY <1>18, DescribeFailsBase
<1>19. CASE UNCHANGED all_vars
  <2>1. ToDoOK' /\ NotAhead' /\ CacheIsPrefix'
    BY <1>19 DEF Base, ToDoOK, NotAhead, Prefetched, CacheIsPrefix, all_vars, stmt_vars, pdo_vars, flags, caches
  <2>2. Typed'
    BY <1>19 DEF Base, Typed, HandleOK, FlagsOK, CachesOK, ResultsOK, ParamsOK, CallOK,
                 all_vars, stmt_vars, flags, caches, params
  <2>3. PdoTypeOK'
    BY <1>19 DEF Base, PdoTypeOK, all_vars, stmt_vars, pdo_vars
  <2> QED
    BY <2>1, <2>2, <2>3 DEF Base
<1> QED
  BY <1>1, <1>2, <1>3, <1>4, <1>5, <1>6, <1>7, <1>8, <1>9, <1>10, <1>11, <1>12, <1>13, <1>14, <1>15,
     <1>16, <1>17, <1>18, <1>19 DEF PdoNext

LEMMA AlwaysBase == PdoSpec => []Base
BY InitBase, NextBase, PTL DEF PdoSpec

(* Every variable of a PDOStatement, of PDO and of the driver keeps its    *)
(* type.                                                                   *)
THEOREM PdoTypeCorrect == PdoSpec => [](PdoTypeOK /\ Typed)
<1>1. Base => PdoTypeOK /\ Typed
  BY DEF Base
<1> QED
  BY <1>1, AlwaysBase, PTL

(* The cached fields of the current row are those up to the last one read  *)
(* from ODBC (core_sqlsrv_get_field), in whatever order PDO and the script *)
(* ask for columns and whichever read fails.                               *)
THEOREM CacheHasNoGap == PdoSpec => []CacheIsPrefix
<1>1. Base => CacheIsPrefix
  BY DEF Base
<1> QED
  BY <1>1, AlwaysBase, PTL

-----------------------------------------------------------------------------
(* How PDO, the driver and ODBC keep in step, on statements whose cursor   *)
(* is not client-side.  Behind a failed execution a client-side one has no *)
(* result set object, which a fetch then looks for.                        *)
NoBuffer == current_results.kind # "buffered"

(* A statement that was not executed, or is behind its last result, has no *)
(* open cursor.                                                            *)
CursorGone == phase # "none" /\ (~executed \/ past_next_result_end) => odbc.state # "open"

(* A column count that is kept is the one of the current result.           *)
CountFits == odbc.state = "open" /\ column_count # ACTIVE_NUM_COLS_INVALID
               => column_count = Head(odbc.batch).cols

(* A result without an object is an error marker, and the driver knows by  *)
(* the time PDO may fetch that it has no columns.                          *)
ObjectMissing ==
  current_results.kind = "null" =>
    /\ ~fetch_called
    /\ phase = "count" /\ odbc.state = "open" => Head(odbc.batch).cols = 0
    /\ pdo.executed /\ executed /\ ~past_next_result_end => column_count = 0

(* The columns PDO has, in each phase.                                     *)
ColumnsFollow ==
  /\ phase \in {"none", "count"} => ~pdo.executed
  /\ phase = "count" => current_meta_data = 0
  /\ phase = "describe" =>
       /\ pdo.executed /\ pdo.columns = current_meta_data /\ pdo.columns <= pdo.column_count
       /\ odbc.state = "open" => pdo.column_count = Head(odbc.batch).cols
  /\ phase = "run" => odbc.state # "open"
  /\ ColumnsInSync

(* PDO reads columns only of a row that is there.                          *)
RowFollows ==
  todo # << >> =>
    /\ phase = "ready" /\ pdo.executed /\ on_row
    /\ odbc.state = "open" /\ executed /\ ~past_next_result_end
    /\ binds # << >> => bound_types.made

(* Columns are counted and described inside these two calls.               *)
Named == phase \in {"count", "describe"} => call.fn \in {"execute", "nextRowset"}

HandleFollows == NoBuffer /\ CursorGone /\ CountFits /\ ObjectMissing
Follows       == HandleFollows /\ ColumnsFollow /\ RowFollows /\ Named /\ CloseReady

(* A step at which a failing assertion may stop the script.                *)
StopAllowed ==
  call'.ret = "crash" /\ call.ret # "crash"
    => \/ call'.fn \in {"getColumnMeta", "PDORow"}
       \/ call'.fn = "fetch" /\ pdo.refused

LEMMA PdoGoneFollows ==
  ASSUME Gone, PdoGone, call'.fn # "closeCursor", StopAllowed
  PROVE  Follows' /\ StopAllowed
<1>1. HandleFollows'
  BY DEF Gone, PdoGone, HandleFollows, NoBuffer, CursorGone, CountFits, ObjectMissing, NullResults
<1>2. ColumnsFollow' /\ RowFollows'
  BY DEF Gone, PdoGone, ColumnsFollow, RowFollows, ColumnsInSync, NewPdo
<1>3. Named' /\ CloseReady'
  BY DEF Gone, Named, CloseReady
<1> QED
  BY <1>1, <1>2, <1>3 DEF Follows

(* Only what PDO knows and the phase of the call change.                   *)
LEMMA CalledFollows ==
  ASSUME Follows, phase # "none", phase' # "count", todo' = << >>,
         UNCHANGED <<executed, past_next_result_end, fetch_called, odbc, column_count, current_results>>,
         pdo'.executed => pdo.executed,
         ColumnsFollow', Named', CloseReady', StopAllowed
  PROVE  Follows' /\ StopAllowed
<1>1. HandleFollows'
  BY DEF Follows, HandleFollows, NoBuffer, CursorGone, CountFits, ObjectMissing
<1>2. RowFollows'
  BY DEF RowFollows
<1> QED
  BY <1>1, <1>2 DEF Follows

LEMMA IdleWhenNotReady ==
  ASSUME Follows, phase # "ready"
  PROVE  todo = << >>
BY DEF Follows, RowFollows

LEMMA PrepareFollows ==
  ASSUME Follows, NEW c \in Confs, NEW p \in ParamKinds, prepare(c, p)
  PROVE  Follows' /\ StopAllowed
<1>1. /\ phase = "none" /\ phase' = "ready" /\ odbc' = Idle /\ call'.fn = "prepare" /\ call'.ret = "true"
      /\ UNCHANGED <<executed, past_next_result_end, fetch_called, column_count, current_meta_data,
                     current_results, pdo, todo>>
  BY DEF prepare, Return, flags, caches, pdo_vars
<1>2. ~pdo.executed /\ todo = << >> /\ odbc'.state = "idle"
  BY <1>1, IdleWhenNotReady DEF Follows, ColumnsFollow, Idle
<1>3. HandleFollows'
  BY <1>1, <1>2 DEF Follows, HandleFollows, NoBuffer, CursorGone, CountFits, ObjectMissing
<1>4. ColumnsFollow' /\ RowFollows'
  BY <1>1, <1>2 DEF ColumnsFollow, RowFollows, ColumnsInSync
<1>5. Named' /\ CloseReady' /\ StopAllowed
  BY <1>1 DEF Named, CloseReady, StopAllowed
<1> QED
  BY <1>3, <1>4, <1>5 DEF Follows

LEMMA ExecuteCallFollows ==
  ASSUME Follows, execute
  PROVE  Follows' /\ StopAllowed
<1>1. /\ phase = "ready" /\ todo' = << >>
      /\ phase' = IF executed /\ ~past_next_result_end THEN "flush" ELSE "run"
      /\ call'.fn = "execute" /\ call'.ret = "pending"
      /\ UNCHANGED <<executed, past_next_result_end, fetch_called, odbc, column_count, current_results, pdo>>
  BY DEF execute, Between, Unfinished, Return, flags, caches, pdo_vars
<1>2. phase' = "run" => odbc.state # "open"
  BY <1>1 DEF Follows, HandleFollows, CursorGone
<1>3. ColumnsFollow'
  BY <1>1, <1>2 DEF ColumnsFollow, ColumnsInSync
<1>4. Named' /\ CloseReady' /\ StopAllowed
  BY <1>1 DEF Named, CloseReady, StopAllowed
<1> QED
  BY <1>1, <1>3, <1>4, CalledFollows

(* What the flush of a batch leaves without client-side cursors: a         *)
(* cancelled handle, the end of the batch, or the next result.             *)
LEMMA FlushedIs ==
  ASSUME "buffered" \notin Cursors, Typed, NEW finalize, NEW throw, NEW fn, Flushed(finalize, throw, fn)
  PROVE  /\ call'.fn = fn /\ UNCHANGED <<executed, pdo, todo>>
         /\ \/ /\ odbc'.state # "open" /\ call'.ret = "false"
               /\ UNCHANGED <<past_next_result_end, fetch_called, column_count, current_results>>
            \/ /\ odbc'.state # "open" /\ call'.ret = "pending" /\ past_next_result_end'
               /\ UNCHANGED <<fetch_called, column_count, current_results>>
            \/ /\ odbc'.state = "open" => odbc.state = "open"
               /\ call'.ret = "pending" /\ ~past_next_result_end' /\ ~fetch_called'
               /\ column_count' = ACTIVE_NUM_COLS_INVALID /\ current_results'.kind = "odbc"
<1> DEFINE m == SQLMoreResults(odbc)
<1>1. Live(odbc) /\ conf.cursor # "buffered"
  BY DEF Typed, HandleOK, Live, Confs, NoConf
<1>2. /\ m.r = SQL_NO_DATA => m.h.state = "idle"
      /\ m.h.state = "open" => odbc.state = "open"
  BY <1>1, MoreResultsLive, MoreResultsMoves
<1>3. UNCHANGED <<pdo, todo>>
  BY DEF Flushed
<1> HIDE DEF m
<1>4. CASE NextResultThrows(m, fn)
  BY <1>3, <1>4 DEF NextResultThrows, SQLCancel, Idle, Return, flags, caches
<1>5. CASE FlushEnds(m, finalize, fn)
  BY <1>2, <1>3, <1>5 DEF FlushEnds, Return, caches
<1>6. CASE FlushMoves(m, throw, fn)
  <2>1. PICK n \in NewResults(m.h, conf.cursor) :
          /\ odbc' = IF ~n.ok /\ throw THEN SQLCancel(n.h) ELSE n.h
          /\ current_results' = n.res
          /\ Return(fn, IF n.ok THEN "pending" ELSE "false")
    BY <1>6 DEF FlushMoves
  <2>2. n = [ok |-> TRUE, h |-> m.h, res |-> OdbcResults]
    BY <1>1 DEF NewResults
  <2>3. odbc' = m.h /\ current_results'.kind = "odbc" /\ call'.fn = fn /\ call'.ret = "pending"
    BY <2>1, <2>2 DEF OdbcResults, Return
  <2>4. /\ executed' = executed /\ ~past_next_result_end' /\ ~fetch_called'
        /\ column_count' = ACTIVE_NUM_COLS_INVALID
    BY <1>6 DEF FlushMoves, ResetForNewResult
  <2> QED
    BY <1>2, <1>3, <2>3, <2>4
<1>7. CASE NextResultEndThrows(m, finalize, fn)
  <2>1. m.r = SQL_NO_DATA /\ odbc' = m.h /\ Return(fn, "false")
        /\ UNCHANGED <<flags, caches, current_results>>
    BY <1>7 DEF NextResultEndThrows
  <2> QED
    BY <1>2, <1>3, <2>1 DEF Return, flags, caches
<1> QED
  BY <1>4, <1>5, <1>6, <1>7 DEF Flushed, m

LEMMA FlushedFollows ==
  ASSUME "buffered" \notin Cursors, Typed, Follows, NEW finalize, NEW throw, NEW fn,
         Flushed(finalize, throw, fn), phase \in {"flush", "close"},
         \/ phase' = "ready" /\ call'.ret = "false"
         \/ phase' = "run" /\ call'.ret = "pending" /\ past_next_result_end'
         \/ phase' \in {"flush", "close"} /\ call'.ret = "pending"
  PROVE  Follows' /\ StopAllowed
<1>1. /\ call'.fn = fn /\ UNCHANGED <<executed, pdo, todo>>
      /\ \/ /\ odbc'.state # "open" /\ call'.ret = "false"
            /\ UNCHANGED <<past_next_result_end, fetch_called, column_count, current_results>>
         \/ /\ odbc'.state # "open" /\ call'.ret = "pending" /\ past_next_result_end'
            /\ UNCHANGED <<fetch_called, column_count, current_results>>
         \/ /\ odbc'.state = "open" => odbc.state = "open"
            /\ call'.ret = "pending" /\ ~past_next_result_end' /\ ~fetch_called'
            /\ column_count' = ACTIVE_NUM_COLS_INVALID /\ current_results'.kind = "odbc"
  BY FlushedIs
<1>2. todo = << >>
  BY IdleWhenNotReady
<1>3. HandleFollows'
  BY <1>1 DEF Follows, HandleFollows, NoBuffer, CursorGone, CountFits, ObjectMissing
<1>4. ColumnsFollow' /\ RowFollows' /\ Named'
  BY <1>1, <1>2 DEF ColumnsFollow, ColumnsInSync, RowFollows, Named
<1>5. CloseReady' /\ StopAllowed
  BY <1>1 DEF CloseReady, StopAllowed
<1> QED
  BY <1>3, <1>4, <1>5 DEF Follows

LEMMA ExecuteFlushFollows ==
  ASSUME "buffered" \notin Cursors, Typed, Follows, ExecuteFlush
  PROVE  Follows' /\ StopAllowed
<1>1. /\ Flushed(FALSE, ~conf.continue, "execute") /\ phase = "flush"
      /\ phase' = IF call'.ret = "false" THEN "ready" ELSE IF past_next_result_end' THEN "run" ELSE "flush"
  BY DEF ExecuteFlush
<1>2. call'.ret \in {"false", "pending"}
  BY <1>1, FlushedIs
<1> QED
  BY <1>1, <1>2, FlushedFollows

LEMMA CloseStepFollows ==
  ASSUME "buffered" \notin Cursors, Typed, Follows, CloseStep
  PROVE  Follows' /\ StopAllowed
<1>1. CASE past_next_result_end
  <2>1. /\ phase = "close" /\ phase' = "ready" /\ UNCHANGED todo
        /\ pdo' = [pdo EXCEPT !.executed = FALSE]
        /\ call'.fn = "closeCursor" /\ call'.ret = "true"
        /\ UNCHANGED <<executed, past_next_result_end, fetch_called, odbc, column_count, current_results>>
    BY <1>1 DEF CloseStep, Return, flags, caches
  <2>2. odbc.state # "open" /\ todo' = << >>
    BY <1>1, <2>1, IdleWhenNotReady DEF Follows, HandleFollows, CursorGone
  <2>3. ColumnsFollow' /\ Named' /\ CloseReady' /\ StopAllowed
    BY <2>1, <2>2 DEF ColumnsFollow, ColumnsInSync, Named, CloseReady, StopAllowed, Pending
  <2>4. pdo'.executed => pdo.executed
    <3>1. CASE pdo'.executed = FALSE
      BY <3>1
    <3>2. CASE pdo' = pdo
      BY <3>2
    <3> QED
      BY <2>1, <3>1, <3>2
  <2> QED
    BY <2>1, <2>2, <2>3, <2>4, CalledFollows
<1>2. CASE ~past_next_result_end
  <2>1. /\ Flushed(TRUE, TRUE, "closeCursor") /\ phase = "close"
        /\ phase' = IF call'.ret = "false" THEN "ready" ELSE "close"
    BY <1>2 DEF CloseStep
  <2>2. call'.ret \in {"false", "pending"}
    BY <2>1, FlushedIs
  <2> QED
    BY <2>1, <2>2, FlushedFollows
<1> QED
  BY <1>1, <1>2

LEMMA CloseCursorFollows ==
  ASSUME Follows, closeCursor, pdo \in PdoRecords
  PROVE  Follows' /\ StopAllowed
<1>1. /\ phase = "ready" /\ todo' = << >> /\ call'.fn = "closeCursor"
      /\ UNCHANGED <<executed, past_next_result_end, fetch_called, odbc, column_count, current_results>>
  BY DEF closeCursor, Between, Return, flags, caches
<1>2. CASE phase' = "close" /\ Return("closeCursor", "pending") /\ UNCHANGED pdo
  <2>1. ColumnsFollow' /\ Named' /\ CloseReady' /\ StopAllowed
    BY <1>1, <1>2 DEF ColumnsFollow, ColumnsInSync, Named, CloseReady, StopAllowed, Return
  <2> QED
    BY <1>1, <1>2, <2>1, CalledFollows
<1>3. CASE ~Unfinished /\ phase' = phase /\ Return("closeCursor", "true") /\ pdo' = [pdo EXCEPT !.executed = FALSE]
  <2>1. odbc.state # "open" /\ ~pdo'.executed
    BY <1>1, <1>3 DEF Unfinished, Follows, HandleFollows, CursorGone, PdoRecords
  <2>2. ColumnsFollow' /\ Named' /\ CloseReady' /\ StopAllowed
    BY <1>1, <1>3, <2>1 DEF ColumnsFollow, ColumnsInSync, Named, CloseReady, StopAllowed, Return, Pending
  <2> QED
    BY <1>1, <1>3, <2>1, <2>2, CalledFollows
<1> QED
  BY <1>2, <1>3 DEF closeCursor

LEMMA BindFailsFollows ==
  ASSUME Follows, BindFails
  PROVE  Follows' /\ StopAllowed
<1>1. /\ phase = "run" /\ phase' = "ready" /\ call'.fn = "execute" /\ call'.ret = "false"
      /\ UNCHANGED <<executed, past_next_result_end, fetch_called, odbc, column_count, current_results,
                     pdo, todo>>
  BY DEF BindFails, Return, flags, caches, pdo_vars
<1>2. todo = << >> /\ odbc.state # "open"
  BY <1>1, IdleWhenNotReady DEF Follows, ColumnsFollow
<1>3. ColumnsFollow' /\ Named' /\ CloseReady' /\ StopAllowed
  BY <1>1, <1>2 DEF ColumnsFollow, ColumnsInSync, Named, CloseReady, StopAllowed
<1> QED
  BY <1>1, <1>2, <1>3, CalledFollows

LEMMA ExecuteRunsFollows ==
  ASSUME "buffered" \notin Cursors, Base, Follows, ExecuteRuns
  PROVE  Follows' /\ StopAllowed
<1>1. /\ Typed /\ Live(odbc) /\ conf \in AnyConf /\ conf.cursor # "buffered" /\ executed \in BOOLEAN
      /\ pdo \in PdoRecords /\ phase = "run" /\ UNCHANGED todo
  BY DEF Base, Typed, HandleOK, FlagsOK, Live, AnyConf, PdoTypeOK, PdoRecords, ExecuteRuns, Confs, NoConf
<1>2. odbc.state # "open" /\ todo' = << >>
  BY <1>1, IdleWhenNotReady DEF Follows, ColumnsFollow
<1> DEFINE bound == IF params_z = "output" THEN "bound" ELSE "none"
<1>3. PICK o \in Executions(odbc, conf, params_z) :
        \/ /\ o.r = SQL_ERROR
           /\ ExecuteFails(o.h, executed)
           /\ Return("execute", "false")
           /\ UNCHANGED <<past_fetch_end, past_next_result_end, has_rows, fetch_called,
                          caches, current_results, delivered>>
        \/ /\ o.r # SQL_ERROR
           /\ ResetForNewResult
           /\ \E n \in NewResults(o.h, conf.cursor) :
                /\ current_results' = n.res
                /\ \/ n.ok /\ ExecuteReturns(o, n, conf, bound) /\ Return("execute", "true")
                   \/ n.ok /\ ExecuteFailsLate(o, n, conf, bound) /\ Return("execute", "false")
                   \/ /\ ~n.ok /\ ExecuteFails(n.h, executed) /\ Return("execute", "false")
                      /\ column_count' = ACTIVE_NUM_COLS_INVALID
  BY DEF ExecuteRuns, core_sqlsrv_execute
<1>4. CASE o.r = SQL_ERROR
  <2>1. /\ ExecuteFails(o.h, executed) /\ call'.fn = "execute" /\ call'.ret = "false"
        /\ UNCHANGED <<past_next_result_end, fetch_called, column_count, current_results>>
    BY <1>3, <1>4 DEF Return, caches
  <2>2. odbc' \in {odbc, Idle} /\ executed' = executed
    BY <1>1, <1>4, <2>1, ExecutionsType DEF ExecuteFails, SQLCancel
  <2>3. odbc'.state # "open"
    BY <1>2, <2>2 DEF Idle
  <2>4. phase' = "ready" /\ UNCHANGED pdo
    BY <2>1 DEF ExecuteRuns
  <2>5. HandleFollows'
    BY <2>1, <2>2, <2>3, <2>4
       DEF Follows, HandleFollows, NoBuffer, CursorGone, CountFits, ObjectMissing
  <2>6. ColumnsFollow' /\ RowFollows' /\ Named' /\ CloseReady' /\ StopAllowed
    BY <1>2, <2>1, <2>3, <2>4 DEF ColumnsFollow, ColumnsInSync, RowFollows, Named, CloseReady, StopAllowed
  <2> QED
    BY <2>5, <2>6 DEF Follows
<1>5. CASE o.r # SQL_ERROR
  <2>1. PICK n \in NewResults(o.h, conf.cursor) :
          /\ current_results' = n.res
          /\ \/ n.ok /\ ExecuteReturns(o, n, conf, bound) /\ Return("execute", "true")
             \/ n.ok /\ ExecuteFailsLate(o, n, conf, bound) /\ Return("execute", "false")
             \/ /\ ~n.ok /\ ExecuteFails(n.h, executed) /\ Return("execute", "false")
                /\ column_count' = ACTIVE_NUM_COLS_INVALID
    BY <1>3, <1>5
  <2>2. n.ok /\ n.res = OdbcResults
    BY <1>1 DEF NewResults
  <2>3. current_results'.kind = "odbc" /\ ~past_next_result_end' /\ ~fetch_called' /\ current_meta_data' = 0
    BY <1>3, <1>5, <2>1, <2>2 DEF OdbcResults, ResetForNewResult
  <2>4. CASE ExecuteReturns(o, n, conf, bound) /\ Return("execute", "true")
    <3>1. /\ executed' = TRUE /\ call'.fn = "execute" /\ call'.ret = "true"
          /\ column_count' # ACTIVE_NUM_COLS_INVALID
               => odbc'.state = "open" /\ column_count' = Head(odbc'.batch).cols
      BY <1>1, <1>5, <2>4, ExecuteReturnsType DEF Return
    <3>2. phase' = "count" /\ ColumnsFreed
      BY <3>1 DEF ExecuteRuns
    <3>3. ~pdo'.executed
      BY <1>1, <3>2, FreedType
    <3>4. HandleFollows'
      BY <2>3, <3>1 DEF HandleFollows, NoBuffer, CursorGone, CountFits, ObjectMissing
    <3>5. ColumnsFollow' /\ RowFollows' /\ Named' /\ CloseReady' /\ StopAllowed
      BY <1>2, <2>3, <3>1, <3>2, <3>3
         DEF ColumnsFollow, ColumnsInSync, RowFollows, Named, CloseReady, StopAllowed
    <3> QED
      BY <3>4, <3>5 DEF Follows
  <2>5. CASE ExecuteFailsLate(o, n, conf, bound) /\ Return("execute", "false")
    <3>1. odbc'.state # "open" /\ executed' = TRUE /\ call'.fn = "execute" /\ call'.ret = "false"
      BY <2>5 DEF ExecuteFailsLate, SQLCancel, Idle, Return
    <3>2. phase' = "ready" /\ UNCHANGED pdo
      BY <3>1 DEF ExecuteRuns
    <3>3. HandleFollows'
      BY <2>3, <3>1, <3>2 DEF HandleFollows, NoBuffer, CursorGone, CountFits, ObjectMissing
    <3>4. ColumnsFollow' /\ RowFollows' /\ Named' /\ CloseReady' /\ StopAllowed
      BY <1>2, <3>1, <3>2 DEF ColumnsFollow, ColumnsInSync, RowFollows, Named, CloseReady, StopAllowed
    <3> QED
      BY <3>3, <3>4 DEF Follows
  <2> QED
    BY <2>1, <2>2, <2>4, <2>5
<1> QED
  BY <1>4, <1>5

LEMMA CountColumnsFollows ==
  ASSUME Base, Follows, CountColumns
  PROVE  Follows' /\ StopAllowed
<1>1. /\ Typed /\ pdo \in PdoRecords /\ phase = "count" /\ call.fn \in {"execute", "nextRowset"}
      /\ ~pdo.executed /\ current_meta_data = 0
      /\ UNCHANGED <<executed, past_next_result_end, fetch_called, odbc, current_results, current_meta_data,
                     todo>>
  BY DEF Base, PdoTypeOK, PdoRecords, CountColumns, Follows, Named, ColumnsFollow, flags
<1>2. todo' = << >>
  BY <1>1, IdleWhenNotReady
<1>3. ASSUME NEW c \in ColumnCounts, c # SQL_ERROR
      PROVE  /\ c \in 0 .. MaxCols
             /\ odbc.state = "open" => c = Head(odbc.batch).cols
             /\ current_results.kind = "null" => c = 0
  BY <1>1, <1>3, CountsType DEF Follows, HandleFollows, CountFits, ObjectMissing
<1>4. CASE /\ pdo' = pdo /\ phase' = "ready"
           /\ column_count' \in {column_count} \cup (ColumnCounts \ {SQL_ERROR})
           /\ Return(call.fn, "false")
  <2>1. CountFits'
    BY <1>1, <1>3, <1>4 DEF Follows, HandleFollows, CountFits
  <2>2. HandleFollows'
    BY <1>1, <1>4, <2>1 DEF Follows, HandleFollows, NoBuffer, CursorGone, ObjectMissing
  <2>3. ColumnsFollow' /\ RowFollows' /\ Named' /\ CloseReady' /\ StopAllowed
    BY <1>1, <1>2, <1>4 DEF ColumnsFollow, ColumnsInSync, RowFollows, Named, CloseReady, StopAllowed, Return
  <2> QED
    BY <2>2, <2>3 DEF Follows
<1>5. ASSUME NEW c \in ColumnCounts, c # SQL_ERROR, column_count' = c,
             pdo' = [pdo EXCEPT !.executed = TRUE, !.column_count = c,
                                !.columns = IF pdo.executed THEN @ ELSE 0],
             phase' = IF pdo.executed THEN "ready" ELSE "describe", Return(call.fn, "pending")
      PROVE  Follows' /\ StopAllowed
  <2>1. /\ c \in 0 .. MaxCols /\ (odbc.state = "open" => c = Head(odbc.batch).cols)
        /\ (current_results.kind = "null" => c = 0)
    BY <1>3, <1>5
  <2>2. phase' = "describe" /\ pdo'.executed /\ pdo'.column_count = c /\ pdo'.columns = 0 /\ 0 <= c
    BY <1>1, <1>5, <2>1, OdbcAssumption DEF OdbcAssumption, PdoRecords
  <2>3. HandleFollows'
    BY <1>1, <1>5, <2>1, <2>2
       DEF Follows, HandleFollows, NoBuffer, CursorGone, CountFits, ObjectMissing
  <2>4. ColumnsFollow'
    BY <1>1, <2>1, <2>2 DEF ColumnsFollow, ColumnsInSync
  <2>5. RowFollows' /\ Named' /\ CloseReady' /\ StopAllowed
    BY <1>1, <1>2, <1>5 DEF RowFollows, Named, CloseReady, StopAllowed, Return
  <2> QED
    BY <2>3, <2>4, <2>5 DEF Follows
<1> QED
  BY <1>4, <1>5 DEF CountColumns

LEMMA DescribeColFollows ==
  ASSUME Base, Follows, describe_col
  PROVE  Follows' /\ StopAllowed
<1>1. /\ phase = "describe" /\ pdo.columns = current_meta_data /\ pdo.columns < pdo.column_count
      /\ pdo.executed /\ (odbc.state = "open" => pdo.column_count = Head(odbc.batch).cols)
      /\ pdo \in PdoRecords
  BY DEF Base, PdoTypeOK, PdoRecords, Follows, ColumnsFollow, describe_col
<1>2. /\ current_meta_data' = current_meta_data + 1
      /\ pdo' = [pdo EXCEPT !.columns = @ + 1]
      /\ UNCHANGED <<phase, call>>
      /\ UNCHANGED <<executed, past_next_result_end, fetch_called, odbc, column_count, current_results, todo>>
  BY <1>1 DEF describe_col, flags
<1>3. /\ pdo'.executed /\ pdo'.column_count = pdo.column_count /\ pdo'.columns = pdo.columns + 1
      /\ pdo.columns + 1 <= pdo.column_count
  BY <1>1, <1>2, OdbcAssumption DEF OdbcAssumption, PdoRecords, NoColumns
<1>4. todo' = << >>
  BY <1>1, <1>2, IdleWhenNotReady
<1>5. ColumnsFollow'
  BY <1>1, <1>2, <1>3 DEF ColumnsFollow, ColumnsInSync
<1>6. Named' /\ CloseReady' /\ StopAllowed
  BY <1>2 DEF Follows, Named, CloseReady, StopAllowed
<1> QED
  BY <1>1, <1>2, <1>4, <1>5, <1>6, CalledFollows

LEMMA DescribeFailsFollows ==
  ASSUME Base, Follows, DescribeFails
  PROVE  Follows' /\ StopAllowed
<1>1. /\ phase = "describe" /\ pdo.executed /\ pdo.columns = current_meta_data
      /\ (odbc.state = "open" => pdo.column_count = Head(odbc.batch).cols)
      /\ call.fn \in {"execute", "nextRowset"} /\ pdo \in PdoRecords
  BY DEF Base, PdoTypeOK, PdoRecords, Follows, ColumnsFollow, Named, DescribeFails
<1>2. /\ phase' = "ready" /\ pdo' = [pdo EXCEPT !.refused = TRUE]
      /\ call'.fn = call.fn /\ call'.ret \in {"true", "false"}
      /\ UNCHANGED <<executed, past_next_result_end, fetch_called, odbc, column_count, current_meta_data,
                     current_results, todo>>
  BY DEF DescribeFails, Return, flags, caches
<1>3. /\ pdo'.executed /\ pdo'.refused
      /\ pdo'.columns = pdo.columns /\ pdo'.column_count = pdo.column_count
  BY <1>1, <1>2 DEF PdoRecords
<1>4. todo' = << >>
  BY <1>1, <1>2, IdleWhenNotReady
<1>5. ColumnsFollow' /\ Named' /\ CloseReady' /\ StopAllowed
  BY <1>1, <1>2, <1>3 DEF ColumnsFollow, ColumnsInSync, Named, CloseReady, StopAllowed
<1> QED
  BY <1>1, <1>2, <1>4, <1>5, CalledFollows

LEMMA DescribeEndsFollows ==
  ASSUME Base, Follows, DescribeEnds
  PROVE  Follows' /\ StopAllowed
<1>1. /\ phase = "describe" /\ pdo.columns = current_meta_data /\ pdo.columns = pdo.column_count
      /\ (odbc.state = "open" => pdo.column_count = Head(odbc.batch).cols)
      /\ call.fn \in {"execute", "nextRowset"} /\ phase' = "ready" /\ Return(call.fn, "true")
      /\ UNCHANGED <<executed, past_next_result_end, fetch_called, odbc, column_count, current_meta_data,
                     current_results, pdo, todo>>
  BY DEF Follows, ColumnsFollow, Named, DescribeEnds, flags, caches, pdo_vars
<1>2. todo' = << >>
  BY <1>1, IdleWhenNotReady
<1>3. ColumnsFollow' /\ Named' /\ CloseReady' /\ StopAllowed
  BY <1>1 DEF ColumnsFollow, ColumnsInSync, Named, CloseReady, StopAllowed, Return
<1> QED
  BY <1>1, <1>2, <1>3, CalledFollows

LEMMA BindColumnFollows ==
  ASSUME Follows, NEW c \in Columns, bindColumn(c)
  PROVE  Follows' /\ StopAllowed
<1>1. /\ todo = << >> /\ phase = "ready"
      /\ UNCHANGED <<phase, executed, past_next_result_end, fetch_called, odbc, column_count,
                     current_meta_data, current_results, call, pdo, todo>>
  BY DEF bindColumn, Between, stmt_vars, flags, caches
<1>2. ColumnsFollow' /\ Named' /\ CloseReady' /\ StopAllowed
  BY <1>1 DEF Follows, ColumnsFollow, ColumnsInSync, Named, CloseReady, StopAllowed
<1> QED
  BY <1>1, <1>2, CalledFollows

LEMMA ColumnMetaFollows ==
  ASSUME Follows, NEW i \in Columns, getColumnMeta(i)
  PROVE  Follows' /\ StopAllowed
<1>1. CASE Stops("getColumnMeta")
  <2>1. Gone /\ PdoGone /\ call'.fn = "getColumnMeta"
    BY <1>1 DEF Stops, Crash, Return
  <2> QED
    BY <2>1, PdoGoneFollows DEF StopAllowed
<1>2. CASE /\ \E ret \in {"value", "false"} : Return("getColumnMeta", ret)
           /\ UNCHANGED <<phase, conf, odbc, flags, caches, current_results, params, delivered, pdo_vars>>
  <2>1. /\ todo = << >> /\ phase = "ready" /\ call'.fn = "getColumnMeta" /\ call'.ret # "crash"
        /\ UNCHANGED <<phase, executed, past_next_result_end, fetch_called, odbc, column_count,
                       current_meta_data, current_results, pdo, todo>>
    BY <1>2 DEF getColumnMeta, Between, Return, flags, caches, pdo_vars
  <2>2. ColumnsFollow' /\ Named' /\ CloseReady' /\ StopAllowed
    BY <2>1 DEF Follows, ColumnsFollow, ColumnsInSync, Named, CloseReady, StopAllowed
  <2> QED
    BY <2>1, <2>2, CalledFollows
<1> QED
  BY <1>1, <1>2 DEF getColumnMeta

LEMMA FreeFollows ==
  ASSUME free
  PROVE  Follows' /\ StopAllowed
<1>1. Gone /\ PdoGone /\ call'.fn = "free" /\ call'.ret = "true"
  BY DEF free, Return
<1> QED
  BY <1>1, PdoGoneFollows DEF StopAllowed

(* A fetch of PDO that is allowed finds a result set object: one that is   *)
(* missing is known to have no columns.                                    *)
LEMMA ObjectIsThere ==
  ASSUME Base, Follows, phase = "ready", pdo.executed, NEW c, FetchAllowed(c)
  PROVE  current_results.kind # "null"
<1>1. SUFFICES ASSUME current_results.kind = "null" PROVE FALSE
  OBVIOUS
<1>2. ~fetch_called /\ executed /\ ~past_next_result_end /\ column_count = 0
  BY <1>1 DEF FetchAllowed, Follows, HandleFollows, ObjectMissing
<1>3. c # 0 /\ c \in {column_count}
  BY <1>2 DEF FetchAllowed, ACTIVE_NUM_COLS_INVALID
<1> QED
  BY <1>2, <1>3

LEMMA FetchMovesFollows ==
  ASSUME Base, Follows, phase = "ready", pdo.executed, NEW to \in Moves,
         NEW c, NEW o \in Fetches(to), MovesOn(c, o, to)
  PROVE  /\ HandleFollows'
         /\ odbc'.state = odbc.state /\ odbc'.batch = odbc.batch
         /\ call'.ret = "true" => odbc.state = "open"
         /\ call'.ret # "crash"
<1>1. /\ Typed /\ NotAhead /\ Live(odbc) /\ FetchAllowed(c) /\ column_count' = c
      /\ odbc' = o.h /\ current_results' = o.res /\ phase' = phase
      /\ UNCHANGED <<executed, past_next_result_end>>
  BY DEF Base, Typed, HandleOK, Live, MovesOn
<1>2. executed /\ ~past_next_result_end /\ ~past_fetch_end /\ ~Prefetched
  BY <1>1 DEF FetchAllowed, NotAhead
<1>3. current_results.kind \notin {"null", "buffered"} /\ o \in ResultsFetch(OneBased(to))
  BY <1>1, <1>2, ObjectIsThere DEF Follows, HandleFollows, NoBuffer, Fetches
<1>4. PICK x \in SQLFetchScroll(odbc, OneBased(to), conf.cursor = "forward") :
        o = [r |-> x.r, h |-> x.h, res |-> current_results]
  BY <1>1, <1>3, ResultsFetchType, MoveTypes
<1>5. /\ odbc'.state = odbc.state /\ odbc'.batch = odbc.batch /\ current_results' = current_results
      /\ ~OnRowset(odbc) => o.r = SQL_ERROR
  <2>1. PICK b \in BOOLEAN : b = (conf.cursor = "forward")
    OBVIOUS
  <2>2. x \in SQLFetchScroll(odbc, OneBased(to), b) /\ OneBased(to) \in AnyMoves
    BY <1>4, <2>1, MoveTypes
  <2> QED
    BY <1>1, <1>4, <2>2, ScrollLive
<1>6. call'.ret = "true" => o.r = SQL_SUCCESS
  BY DEF MovesOn, FetchLands
<1>7. call'.ret = "true" => odbc.state = "open"
  BY <1>5, <1>6 DEF OnRowset, SQL_SUCCESS, SQL_ERROR
<1>8. odbc.state = "open" /\ c # ACTIVE_NUM_COLS_INVALID => c = Head(odbc.batch).cols
  <2> SUFFICES ASSUME odbc.state = "open", c # ACTIVE_NUM_COLS_INVALID PROVE c = Head(odbc.batch).cols
    OBVIOUS
  <2>1. CASE c = column_count
    BY <2>1 DEF Follows, HandleFollows, CountFits
  <2>2. CASE c \in SQLNumResultCols(odbc) /\ c # SQL_ERROR
    BY <1>1, <2>2, NumResultColsType
  <2> QED
    BY <1>1, <2>1, <2>2 DEF FetchAllowed
<1>9. HandleFollows'
  BY <1>1, <1>2, <1>3, <1>5, <1>8
     DEF Follows, HandleFollows, NoBuffer, CursorGone, CountFits, ObjectMissing
<1>10. call'.ret # "crash"
  BY DEF MovesOn
<1> QED
  BY <1>5, <1>7, <1>9, <1>10

LEMMA FetchFollows ==
  ASSUME Base, Follows, NEW mode, NEW to \in Moves, fetch(mode, to)
  PROVE  Follows' /\ StopAllowed
<1>1. /\ Typed /\ PdoTypeOK /\ pdo \in PdoRecords /\ Live(odbc)
      /\ phase = "ready" /\ todo = << >> /\ pdo.executed /\ core_sqlsrv_fetch(to, "sqlsrv_fetch")
  BY DEF Base, Typed, HandleOK, Live, PdoTypeOK, PdoRecords, fetch, Between
<1>2. \/ Refuses(to)
      \/ \E c, o : o \in Fetches(to) /\ MovesOn(c, o, to)
  BY <1>1, FetchIs, ObjectIsThere
<1>3. /\ call'.ret # "crash" /\ call'.fn = "sqlsrv_fetch" /\ phase' = "ready"
      /\ UNCHANGED <<executed, past_next_result_end, current_meta_data>>
  BY <1>1, <1>2 DEF Refuses, MovesOn, Fetched, flags
<1>4. /\ BoundTypes /\ UNCHANGED binds
      /\ pdo' = [pdo EXCEPT !.row = mode = "lazy" /\ call'.ret = "true"]
      /\ todo' = IF call'.ret = "true" THEN ToRead(mode) ELSE << >>
      /\ on_row' = (call'.ret = "true")
  BY <1>3 DEF fetch
<1>5. /\ pdo'.executed /\ pdo'.columns = pdo.columns /\ pdo'.column_count = pdo.column_count
      /\ pdo'.refused = pdo.refused
  BY <1>1, <1>4 DEF PdoRecords
<1>6. /\ HandleFollows' /\ odbc'.state = odbc.state /\ odbc'.batch = odbc.batch
      /\ call'.ret = "true" => odbc.state = "open" /\ executed /\ ~past_next_result_end
  <2>1. CASE Refuses(to)
    <3>1. /\ FetchRefused /\ call'.ret = "false"
          /\ UNCHANGED <<fetch_called, odbc, current_results>>
      BY <2>1 DEF Refuses, Fetched, flags
    <3>2. column_count' = column_count \/ (column_count' = 0 /\ 0 \in
            IF column_count # ACTIVE_NUM_COLS_INVALID THEN {column_count} ELSE SQLNumResultCols(odbc))
      BY <3>1 DEF FetchRefused
    <3>3. CASE column_count' = column_count
      BY <1>1, <1>3, <1>5, <3>1, <3>3
         DEF Follows, HandleFollows, NoBuffer, CursorGone, CountFits, ObjectMissing
    <3>4. CASE column_count' = 0 /\ 0 \in SQLNumResultCols(odbc)
      <4>1. odbc.state = "open" => Head(odbc.batch).cols = 0
        BY <1>1, <3>4, NumResultColsType DEF SQL_ERROR
      <4> QED
        BY <1>1, <1>3, <1>5, <3>1, <3>4, <4>1
           DEF Follows, HandleFollows, NoBuffer, CursorGone, CountFits, ObjectMissing
    <3> QED
      BY <3>1, <3>2, <3>3, <3>4
  <2>2. ASSUME NEW c, NEW o \in Fetches(to), MovesOn(c, o, to)
        PROVE  /\ HandleFollows' /\ odbc'.state = odbc.state /\ odbc'.batch = odbc.batch
               /\ call'.ret = "true" => odbc.state = "open" /\ executed /\ ~past_next_result_end
    <3>1. executed /\ ~past_next_result_end
      BY <2>2 DEF MovesOn, FetchAllowed
    <3> QED
      BY <1>1, <1>5, <2>2, <3>1, FetchMovesFollows
  <2> QED
    BY <1>2, <2>1, <2>2
<1>7. ColumnsFollow'
  BY <1>1, <1>3, <1>5, <1>6 DEF Follows, ColumnsFollow, ColumnsInSync
<1>8. RowFollows'
  BY <1>1, <1>3, <1>4, <1>5, <1>6, BoundTypesType DEF RowFollows
<1>9. Named' /\ CloseReady' /\ StopAllowed
  BY <1>3 DEF Named, CloseReady, StopAllowed
<1> QED
  BY <1>6, <1>7, <1>8, <1>9 DEF Follows

-----------------------------------------------------------------------------
(* Reading columns.                                                        *)

(* While PDO reads the row it fetched, no assertion of get_col_data fails: *)
(* the metadata has all the columns PDO has unless one was refused, and    *)
(* none that was skipped is cached.                                        *)
LEMMA FieldDoesNotStop ==
  ASSUME Base, Follows, todo # << >>, NEW c \in Columns, c < pdo.column_count, ~pdo.refused
  PROVE  ~FieldStops(c)
<1>1. /\ phase = "ready" /\ pdo.executed /\ on_row /\ odbc.state = "open"
      /\ (binds # << >> => bound_types.made)
  BY DEF Follows, RowFollows
<1>2. current_meta_data = pdo.column_count
  BY <1>1 DEF Follows, ColumnsFollow, ColumnsInSync
<1>3. /\ \A i \in Columns : field_cache[i] # "none" <=> i <= last_field_index
      /\ last_field_index \in -1 .. MaxCols - 1 /\ MaxCols \in Nat /\ c \in 0 .. MaxCols - 1
  BY <1>1, OdbcAssumption DEF OdbcAssumption, Base, CacheIsPrefix, Typed, CachesOK, Columns
<1>4. ASSUME NEW i \in Skipped(c) PROVE field_cache[i] = "none"
  <2>1. i \in Columns /\ i > last_field_index
    BY <1>3 DEF Skipped, Columns
  <2> QED
    BY <1>3, <2>1
<1>5. ~(c >= current_meta_data)
  <2>1. pdo.column_count \in 0 .. MaxCols
    BY DEF Base, PdoTypeOK
  <2> QED
    BY <1>2, <1>3, <2>1
<1> QED
  BY <1>1, <1>4, <1>5 DEF FieldStops

(* Reading a column leaves what the invariant is about alone.              *)
LEMMA ColumnReadFollows ==
  ASSUME Follows, phase = "ready", NEW fn, fn # "closeCursor", ColumnRead(fn),
         todo' = todo \/ (todo # << >> /\ todo' = Tail(todo))
  PROVE  Follows' /\ StopAllowed
<1>1. /\ call'.fn = fn /\ call'.ret # "crash" /\ phase' = "ready"
      /\ UNCHANGED <<executed, past_next_result_end, fetch_called, odbc, column_count, current_meta_data,
                     current_results, pdo, binds, bound_types, on_row>>
  BY DEF ColumnRead, flags
<1>2. HandleFollows'
  BY <1>1 DEF Follows, HandleFollows, NoBuffer, CursorGone, CountFits, ObjectMissing
<1>3. ColumnsFollow'
  BY <1>1 DEF Follows, ColumnsFollow, ColumnsInSync
<1>4. RowFollows'
  BY <1>1 DEF Follows, RowFollows
<1>5. Named' /\ CloseReady' /\ StopAllowed
  BY <1>1 DEF Named, CloseReady, StopAllowed
<1> QED
  BY <1>2, <1>3, <1>4, <1>5 DEF Follows

LEMMA ReadColumnFollows ==
  ASSUME Base, Follows, ReadColumn
  PROVE  Follows' /\ StopAllowed
<1>1. phase = "ready" /\ todo # << >> /\ Head(todo) \in Columns
  BY HeadTailProperties DEF Base, ToDoOK, ReadColumn
<1>2. CASE /\ Head(todo) < pdo.column_count
           /\ get_col_data(Head(todo), "fetch")
           /\ todo' = IF call'.ret \in {"crash", "no_row"} THEN << >> ELSE Tail(todo)
  <2>1. CASE ColumnRead("fetch")
    <3>1. todo' = Tail(todo)
      BY <1>2, <2>1 DEF ColumnRead
    <3> QED
      BY <1>1, <2>1, <3>1, ColumnReadFollows
  <2>2. CASE FieldStops(Head(todo)) /\ Stops("fetch")
    <3>1. Gone /\ PdoGone /\ call'.fn = "fetch"
      BY <2>2 DEF Stops, Crash, Return
    <3>2. pdo.refused
      BY <1>1, <1>2, <2>2, FieldDoesNotStop
    <3> QED
      BY <3>1, <3>2, PdoGoneFollows DEF StopAllowed
  <2>3. CASE Dies("fetch") /\ PdoGone
    <3>1. Gone /\ call'.fn = "fetch" /\ call'.ret = "no_row"
      BY <2>3 DEF Dies, Return
    <3> QED
      BY <2>3, <3>1, PdoGoneFollows DEF StopAllowed
  <2> QED
    BY <1>1, <1>2, <2>1, <2>2, <2>3, GetColBase
<1>3. CASE /\ todo' = Tail(todo)
           /\ UNCHANGED <<stmt_vars, pdo, binds, bound_types, php_types, field_cache, on_row, given>>
  <2>1. UNCHANGED <<phase, executed, past_next_result_end, fetch_called, odbc, column_count,
                    current_meta_data, current_results, call, pdo, binds, bound_types, on_row>>
    BY <1>3 DEF stmt_vars, flags, caches
  <2>2. HandleFollows' /\ ColumnsFollow'
    BY <2>1 DEF Follows, HandleFollows, NoBuffer, CursorGone, CountFits, ObjectMissing,
                ColumnsFollow, ColumnsInSync
  <2>3. RowFollows'
    BY <1>1, <2>1 DEF Follows, RowFollows
  <2>4. Named' /\ CloseReady' /\ StopAllowed
    BY <2>1 DEF Follows, Named, CloseReady, StopAllowed
  <2> QED
    BY <2>2, <2>3, <2>4 DEF Follows
<1> QED
  BY <1>2, <1>3 DEF ReadColumn

LEMMA PDORowFollows ==
  ASSUME Base, Follows, NEW c \in Columns, PDORow(c)
  PROVE  Follows' /\ StopAllowed
<1>1. phase = "ready" /\ todo' = todo /\ get_col_data(c, "PDORow")
  BY DEF PDORow, Between
<1>2. CASE Stops("PDORow")
  <2>1. Gone /\ PdoGone /\ call'.fn = "PDORow"
    BY <1>2 DEF Stops, Crash, Return
  <2> QED
    BY <2>1, PdoGoneFollows DEF StopAllowed
<1>3. CASE Dies("PDORow") /\ PdoGone
  <2>1. Gone /\ call'.fn = "PDORow"
    BY <1>3 DEF Dies, Return
  <2> QED
    BY <1>3, <2>1, PdoGoneFollows DEF StopAllowed
<1>4. CASE ColumnRead("PDORow")
  BY <1>1, <1>4, ColumnReadFollows
<1> QED
  BY <1>1, <1>2, <1>3, <1>4, GetColBase

-----------------------------------------------------------------------------
LEMMA NextRowsetFollows ==
  ASSUME "buffered" \notin Cursors, Base, Follows, nextRowset
  PROVE  Follows' /\ StopAllowed
<1> DEFINE m == SQLMoreResults(odbc)
           throw == ~conf.continue
           fn == "nextRowset"
<1>1. /\ Live(odbc) /\ conf.cursor # "buffered" /\ pdo \in PdoRecords
      /\ phase = "ready" /\ todo' = << >>
      /\ core_sqlsrv_next_result(TRUE, throw, conf.continue, fn)
      /\ call'.ret = "true" => phase' = "count"
      /\ call'.ret # "true" => phase' = phase
      /\ ColumnsFreed
  <2>1. /\ phase = "ready" /\ todo = << >> /\ UNCHANGED todo
        /\ core_sqlsrv_next_result(TRUE, throw, conf.continue, fn)
        /\ ColumnsFreed
    BY DEF nextRowset, Between
  <2>2. /\ call'.ret = "true" => phase' = "count"
        /\ call'.ret # "true" => phase' = phase
    BY DEF nextRowset
  <2>3. Live(odbc) /\ conf.cursor # "buffered" /\ pdo \in PdoRecords
    BY DEF Base, Typed, HandleOK, Live, PdoTypeOK, PdoRecords, Confs, NoConf
  <2> QED
    BY <2>1, <2>2, <2>3
<1>2. /\ m.r = SQL_NO_DATA => m.h.state = "idle"
      /\ m.h.state = "open" => odbc.state = "open"
      /\ m.r = SQL_ERROR /\ m.h.state = "open" => OnError(m.h)
      /\ Live(m.h)
  BY <1>1, MoreResultsLive, MoreResultsMoves
<1>3. ~pdo'.executed
  BY <1>1, FreedType
<1>4. RowFollows'
  BY <1>1 DEF RowFollows
<1> HIDE DEF m, throw
<1>5. ASSUME call'.fn = fn, call'.ret = "true", current_meta_data' = 0, HandleFollows'
      PROVE  Follows' /\ StopAllowed
  <2>1. phase' = "count"
    BY <1>1, <1>5
  <2>2. ColumnsFollow' /\ Named' /\ CloseReady' /\ StopAllowed
    BY <1>3, <1>5, <2>1 DEF ColumnsFollow, ColumnsInSync, Named, CloseReady, StopAllowed
  <2> QED
    BY <1>4, <1>5, <2>2 DEF Follows
<1>6. ASSUME call'.fn = fn, call'.ret \in {"false", "null"}, HandleFollows'
      PROVE  Follows' /\ StopAllowed
  <2>1. phase' = "ready"
    BY <1>1, <1>6
  <2>2. ColumnsFollow' /\ Named' /\ CloseReady' /\ StopAllowed
    BY <1>3, <1>6, <2>1 DEF ColumnsFollow, ColumnsInSync, Named, CloseReady, StopAllowed
  <2> QED
    BY <1>4, <1>6, <2>2 DEF Follows
<1>7. CASE NextResultRefused(throw, fn)
  <2>1. /\ odbc' \in {odbc, Idle} /\ call'.fn = fn /\ call'.ret = "false"
        /\ UNCHANGED <<executed, past_next_result_end, fetch_called, column_count, current_results>>
        /\ phase' = "ready"
    BY <1>1, <1>7 DEF NextResultRefused, SQLCancel, Return, flags, caches
  <2>2. HandleFollows'
    BY <1>1, <1>3, <2>1
       DEF Follows, HandleFollows, NoBuffer, CursorGone, CountFits, ObjectMissing, Idle
  <2> QED
    BY <1>6, <2>1, <2>2
<1>8. CASE NextResultThrows(m, fn)
  <2>1. /\ odbc'.state # "open" /\ call'.fn = fn /\ call'.ret = "false"
        /\ UNCHANGED <<executed, past_next_result_end, fetch_called, column_count, current_results>>
        /\ phase' = "ready"
    BY <1>1, <1>8 DEF NextResultThrows, SQLCancel, Idle, Return, flags, caches
  <2>2. HandleFollows'
    BY <1>3, <2>1 DEF Follows, HandleFollows, NoBuffer, CursorGone, CountFits, ObjectMissing
  <2> QED
    BY <1>6, <2>1, <2>2
<1>9. CASE executed /\ ~past_next_result_end /\ NextResultReports(m, fn)
  <2>1. /\ odbc' = m.h /\ m.r = SQL_ERROR /\ current_results' = NullResults
        /\ ~fetch_called' /\ column_count' = ACTIVE_NUM_COLS_INVALID /\ current_meta_data' = 0
        /\ call'.fn = fn /\ call'.ret = "true"
        /\ UNCHANGED <<executed, past_next_result_end>>
    BY <1>9 DEF NextResultReports, Return
  <2>2. odbc'.state = "open" => Head(odbc'.batch).cols = 0
    <3> SUFFICES ASSUME odbc'.state = "open" PROVE Head(m.h.batch).cols = 0
      BY <2>1
    <3>1. Head(m.h.batch) \in Items /\ Head(m.h.batch).kind = "error"
      BY <1>2, <2>1, HeadType DEF OnError
    <3> QED
      BY <3>1 DEF Items, Rowsets, Counts, Errors
  <2>3. HandleFollows'
    BY <1>3, <1>9, <2>1, <2>2
       DEF HandleFollows, NoBuffer, CursorGone, CountFits, ObjectMissing, NullResults
  <2> QED
    BY <1>5, <2>1, <2>3
<1>10. CASE NextResultEnds(m, TRUE, fn)
  <2>1. /\ odbc'.state # "open" /\ past_next_result_end'
        /\ UNCHANGED <<executed, fetch_called, current_results>>
        /\ call'.fn = fn /\ call'.ret = "null"
    BY <1>2, <1>10 DEF NextResultEnds, Return
  <2>2. phase' = "ready"
    BY <1>1, <2>1
  <2>3. HandleFollows'
    BY <2>1, <2>2 DEF Follows, HandleFollows, NoBuffer, CursorGone, CountFits, ObjectMissing
  <2> QED
    BY <1>6, <2>1, <2>3
<1>11. CASE executed /\ ~past_next_result_end /\ NextResultMoves(m, throw, fn)
  <2>1. PICK n \in NewResults(m.h, conf.cursor) :
          /\ odbc' = IF ~n.ok /\ throw THEN SQLCancel(n.h) ELSE n.h
          /\ current_results' = n.res
          /\ Return(fn, IF ~n.ok THEN "false" ELSE IF fn = "sqlsrv_execute" THEN "pending" ELSE "true")
    BY <1>11 DEF NextResultMoves
  <2>2. n = [ok |-> TRUE, h |-> m.h, res |-> OdbcResults]
    BY <1>1 DEF NewResults
  <2>3. current_results'.kind = "odbc" /\ call'.fn = fn /\ call'.ret = "true"
    BY <2>1, <2>2 DEF OdbcResults, Return
  <2>4. /\ executed' = executed /\ ~past_next_result_end' /\ ~fetch_called' /\ current_meta_data' = 0
        /\ column_count' = ACTIVE_NUM_COLS_INVALID
    BY <1>11 DEF NextResultMoves, ResetForNewResult
  <2>5. HandleFollows'
    BY <1>11, <2>3, <2>4 DEF HandleFollows, NoBuffer, CursorGone, CountFits, ObjectMissing
  <2> QED
    BY <1>5, <2>3, <2>4, <2>5
<1>12. CASE NextResultEndThrows(m, TRUE, fn)
  <2>1. m.r = SQL_NO_DATA /\ odbc' = m.h /\ call'.fn = fn /\ call'.ret = "false"
        /\ UNCHANGED <<executed, past_next_result_end, fetch_called, column_count, current_results>>
    BY <1>12 DEF NextResultEndThrows, Return, flags, caches
  <2>2. odbc'.state # "open" /\ phase' = "ready"
    BY <1>1, <1>2, <2>1
  <2>3. HandleFollows'
    BY <1>3, <2>1, <2>2 DEF Follows, HandleFollows, NoBuffer, CursorGone, CountFits, ObjectMissing
  <2> QED
    BY <1>6, <2>1, <2>3
<1> QED
  BY <1>1, <1>7, <1>8, <1>9, <1>10, <1>11, <1>12 DEF core_sqlsrv_next_result, m, throw

-----------------------------------------------------------------------------
LEMMA InitFollows == PdoInit => Follows
<1> SUFFICES ASSUME PdoInit PROVE Follows
  OBVIOUS
<1>1. HandleFollows
  BY DEF PdoInit, Init, Idle, HandleFollows, NoBuffer, CursorGone, CountFits, ObjectMissing, NullResults
<1>2. ColumnsFollow /\ RowFollows
  BY DEF PdoInit, Init, ColumnsFollow, RowFollows, ColumnsInSync, NewPdo
<1>3. Named /\ CloseReady
  BY DEF PdoInit, Init, Named, CloseReady
<1> QED
  BY <1>1, <1>2, <1>3 DEF Follows

LEMMA NextFollows ==
  ASSUME "buffered" \notin Cursors, Base, Follows, [PdoNext]_all_vars
  PROVE  Follows' /\ StopAllowed
<1>0. Typed /\ pdo \in PdoRecords
  BY DEF Base, PdoTypeOK, PdoRecords
<1>1. ASSUME NEW c \in Confs, NEW p \in ParamKinds, prepare(c, p) PROVE Follows' /\ StopAllowed
  BY <1>1, PrepareFollows
<1>2. CASE execute
  BY <1>2, ExecuteCallFollows
<1>3. CASE ExecuteFlush
  BY <1>0, <1>3, ExecuteFlushFollows
<1>4. CASE BindFails
  BY <1>4, BindFailsFollows
<1>5. CASE ExecuteRuns
  BY <1>5, ExecuteRunsFollows
<1>6. CASE CountColumns
  BY <1>6, CountColumnsFollows
<1>7. CASE describe_col
  BY <1>7, DescribeColFollows
<1>8. CASE DescribeEnds
  BY <1>8, DescribeEndsFollows
<1>9. ASSUME NEW c \in Columns, bindColumn(c) PROVE Follows' /\ StopAllowed
  BY <1>9, BindColumnFollows
<1>10. ASSUME NEW mode \in FetchModes, NEW to \in Moves, fetch(mode, to) PROVE Follows' /\ StopAllowed
  BY <1>10, FetchFollows
<1>11. CASE ReadColumn
  BY <1>11, ReadColumnFollows
<1>12. ASSUME NEW c \in Columns, PDORow(c) PROVE Follows' /\ StopAllowed
  BY <1>12, PDORowFollows
<1>13. CASE nextRowset
  BY <1>13, NextRowsetFollows
<1>14. CASE closeCursor
  BY <1>0, <1>14, CloseCursorFollows
<1>15. CASE CloseStep
  BY <1>0, <1>15, CloseStepFollows
<1>16. ASSUME NEW i \in Columns, getColumnMeta(i) PROVE Follows' /\ StopAllowed
  BY <1>16, ColumnMetaFollows
<1>17. CASE free
  BY <1>17, FreeFollows
<1>18. CASE DescribeFails
  BY <1>18, DescribeFailsFollows
<1>19. CASE UNCHANGED all_vars
  <2>1. UNCHANGED <<phase, executed, past_next_result_end, fetch_called, odbc, column_count,
                    current_meta_data, current_results, call, pdo, todo, binds, bound_types, on_row>>
    BY <1>19 DEF all_vars, stmt_vars, pdo_vars, flags, caches
  <2>2. HandleFollows' /\ ColumnsFollow'
    BY <2>1 DEF Follows, HandleFollows, NoBuffer, CursorGone, CountFits, ObjectMissing,
                ColumnsFollow, ColumnsInSync
  <2>3. RowFollows' /\ Named' /\ CloseReady' /\ StopAllowed
    BY <2>1 DEF Follows, RowFollows, Named, CloseReady, StopAllowed
  <2> QED
    BY <2>2, <2>3 DEF Follows
<1> QED
  BY <1>1, <1>2, <1>3, <1>4, <1>5, <1>6, <1>7, <1>8, <1>9, <1>10, <1>11, <1>12, <1>13, <1>14, <1>15,
     <1>16, <1>17, <1>18, <1>19 DEF PdoNext

LEMMA AlwaysFollows ==
  ASSUME "buffered" \notin Cursors
  PROVE  PdoSpec => []Follows
<1>1. Base /\ Follows /\ [PdoNext]_all_vars => Follows'
  BY NextFollows
<1> QED
  BY <1>1, InitFollows, AlwaysBase, PTL DEF PdoSpec

(* Over executions, nextRowset and closeCursor in any order, and whichever *)
(* description of a column fails, an executed statement whose cursor is    *)
(* not client-side has as many columns described in PDO as in the driver's *)
(* metadata, counts as many as the result on the handle has, and has not   *)
(* described all of them only if one was refused; a closed cursor leaves   *)
(* nothing on the handle (pdo_sqlsrv_stmt_execute, _next_rowset,           *)
(* _close_cursor, _describe_col).                                          *)
THEOREM ColumnsStayInStep ==
  ASSUME "buffered" \notin Cursors
  PROVE  PdoSpec => []InStep
<1>1. Base /\ Follows => InStep
  BY DEF Base, Follows, ColumnsFollow, InStep
<1> QED
  BY <1>1, AlwaysBase, AlwaysFollows, PTL

(* On such a statement no assertion of describe_col and get_col_data fails *)
(* while PDO executes, fetches and moves on, unless it reads a result of   *)
(* which describing a column failed, and no fetch looks for a result set   *)
(* object that is missing.  getColumnMeta and a PDORow, asked for a column *)
(* of a result that is gone, may run into one.                             *)
THEOREM NoAssertionFails ==
  ASSUME "buffered" \notin Cursors
  PROVE  PdoSpec => NoAssertFails
<1>1. Base /\ Follows /\ [PdoNext]_all_vars => StopAllowed
  BY NextFollows
<1>2. StopAllowed =>
        (call'.ret = "crash" /\ call.ret # "crash"
           => \/ call'.fn \in {"getColumnMeta", "PDORow"}
              \/ call'.fn = "fetch" /\ pdo.refused)
  BY DEF StopAllowed
<1> QED
  BY <1>1, <1>2, AlwaysBase, AlwaysFollows, PTL DEF PdoSpec, NoAssertFails

-----------------------------------------------------------------------------
(***************************************************************************)
(* Values that are quoted.  What the driver writes and what the server     *)
(* reads are both defined from one character to the next; behind what was  *)
(* written for the first characters of a value, exactly these were read.   *)
(***************************************************************************)
Chars == NameChars \cup {Apostrophe}

(* A value as a sequence.                                                  *)
LEMMA ValueIsText ==
  ASSUME NEW v \in Values
  PROVE  v \in Seq(Chars) /\ Len(v) \in Nat /\ v = [i \in 1 .. Len(v) |-> v[i]]
<1>1. PICK n \in 0 .. MaxValue : v \in [1 .. n -> Chars]
  BY DEF Values, Chars
<1>2. n \in Nat
  BY QuotingAssumption
<1> QED
  BY <1>1, <1>2

(* Appending.                                                              *)
LEMMA Appended ==
  ASSUME NEW S, NEW s \in Seq(S), NEW c \in S
  PROVE  /\ Append(s, c) \in Seq(S) /\ Len(Append(s, c)) = Len(s) + 1
         /\ \A k \in 1 .. Len(s) : Append(s, c)[k] = s[k]
         /\ Append(s, c)[Len(s) + 1] = c
  OBVIOUS

(* What is written up to each character.                                   *)
LEMMA TwiceTyped ==
  ASSUME NEW s \in Seq(Chars), NEW c \in Chars
  PROVE  Twice(s, c) \in Seq(Chars)
BY Appended DEF Twice

LEMMA DoubledSteps ==
  ASSUME NEW v \in Seq(Chars)
  PROVE  /\ Doubled(v) \in [0 .. Len(v) -> Seq(Chars)] /\ Doubled(v)[0] = << >>
         /\ \A i \in 1 .. Len(v) : Doubled(v)[i] = Twice(Doubled(v)[i - 1], v[i])
<1> DEFINE n == Len(v)
           b == << >>
           step == [p \in (1 .. n) \X Seq(Chars) |-> Twice(p[2], v[p[1]])]
           Def(g) == g = [i \in 0 .. Len(v) |-> IF i = 0 THEN << >> ELSE Twice(g[i - 1], v[i])]
<1>1. n \in Nat /\ b \in Seq(Chars) /\ \A i \in 1 .. n : v[i] \in Chars
  OBVIOUS
<1>2. step \in StepsOver(n, Seq(Chars))
  <2>1. ASSUME NEW p \in (1 .. n) \X Seq(Chars) PROVE Twice(p[2], v[p[1]]) \in Seq(Chars)
    <3>1. p[1] \in 1 .. n /\ p[2] \in Seq(Chars)
      OBVIOUS
    <3> QED
      BY <1>1, <3>1, TwiceTyped
  <2> QED
    BY <2>1 DEF StepsOver
<1>3. PICK f : Stepwise(f, n, Seq(Chars), b, step)
  <2> HIDE DEF step, b, n
  <2> QED
    BY <1>1, <1>2, StepwiseExists
<1>4. /\ f \in [0 .. n -> Seq(Chars)] /\ f[0] = << >>
      /\ \A i \in 1 .. n : f[i] = Twice(f[i - 1], v[i])
  <2>1. ASSUME NEW i \in 1 .. n PROVE f[i] = Twice(f[i - 1], v[i])
    <3>1. i - 1 \in 0 .. n /\ f[i - 1] \in Seq(Chars)
      BY <1>3 DEF Stepwise
    <3>2. <<i, f[i - 1]>> \in (1 .. n) \X Seq(Chars)
      BY <3>1
    <3>3. step[<<i, f[i - 1]>>] = Twice(f[i - 1], v[i])
      BY <3>2
    <3>4. f[i] = step[<<i, f[i - 1]>>]
      <4> HIDE DEF step
      <4> QED
        BY <1>3 DEF Stepwise
    <3> QED
      BY <3>3, <3>4
  <2> QED
    BY <1>3, <2>1 DEF Stepwise
<1>5. Def(f)
  <2>1. f = [i \in 0 .. n |-> f[i]]
    BY <1>4
  <2>2. ASSUME NEW i \in 0 .. n PROVE f[i] = IF i = 0 THEN << >> ELSE Twice(f[i - 1], v[i])
    BY <1>1, <1>4
  <2> HIDE DEF n
  <2>3. [i \in 0 .. n |-> f[i]] = [i \in 0 .. n |-> IF i = 0 THEN << >> ELSE Twice(f[i - 1], v[i])]
    BY <2>2
  <2> QED
    BY <2>1, <2>3 DEF n
<1> DEFINE D == CHOOSE g : Def(g)
<1>6. Doubled(v) = D
  BY DEF Doubled
<1>7. Def(D)
  <2> HIDE DEF Def
  <2> QED
    BY <1>5
<1> HIDE DEF D
<1>8. D = [i \in 0 .. n |-> IF i = 0 THEN << >> ELSE Twice(D[i - 1], v[i])]
  BY <1>7
<1>9. /\ D[0] = << >>
      /\ \A i \in 1 .. n : D[i] = Twice(D[i - 1], v[i])
  <2> HIDE DEF n
  <2>1. 0 \in 0 .. n /\ \A i \in 1 .. n : i \in 0 .. n /\ i # 0
    BY <1>1
  <2> QED
    BY <1>8, <2>1
<1>10. 0 .. n \subseteq { i \in 0 .. n : D[i] \in Seq(Chars) }
  <2> DEFINE T == { i \in 0 .. n : D[i] \in Seq(Chars) }
  <2> HIDE DEF n
  <2>1. 0 \in T
    <3>1. D[0] \in Seq(Chars) /\ 0 \in 0 .. n
      BY <1>1, <1>9
    <3> QED
      BY <3>1
  <2>2. ASSUME NEW i \in 1 .. n, i - 1 \in T PROVE i \in T
    <3>1. D[i] = Twice(D[i - 1], v[i]) /\ v[i] \in Chars
      BY <1>1, <1>9
    <3>2. D[i - 1] \in Seq(Chars) /\ i \in 0 .. n
      BY <1>1, <2>2
    <3>3. D[i] \in Seq(Chars)
      BY <3>1, <3>2, TwiceTyped
    <3> QED
      BY <3>2, <3>3
  <2> HIDE DEF T
  <2>3. 0 .. n \subseteq T
    BY <1>1, <2>1, <2>2, UpTheNumbers
  <2> QED
    BY <2>3 DEF T
<1>11. D \in [0 .. n -> Seq(Chars)]
  <2> HIDE DEF n
  <2> QED
    BY <1>8, <1>10
<1> QED
  BY <1>6, <1>9, <1>11

-----------------------------------------------------------------------------
(* What is read after each character.                                      *)
Gots == [text : Seq(Chars), odd : BOOLEAN, whole : BOOLEAN]

LEMMA NoneReadTyped == NoneRead \in Gots
BY DEF NoneRead, Gots

LEMMA ReadOnTyped ==
  ASSUME NEW g \in Gots, NEW c \in Chars
  PROVE  ReadOn(g, c) \in Gots
<1> DEFINE first == c = Apostrophe /\ ~g.odd
           t == IF first THEN g.text ELSE Append(g.text, c)
           w == g.whole /\ (g.odd => c = Apostrophe)
<1>1. g.text \in Seq(Chars) /\ g.odd \in BOOLEAN /\ g.whole \in BOOLEAN
  BY DEF Gots
<1>2. t \in Seq(Chars)
  BY <1>1, Appended
<1>3. first \in BOOLEAN /\ w \in BOOLEAN
  OBVIOUS
<1>4. ReadOn(g, c) = [text |-> t, odd |-> first, whole |-> w]
  BY DEF ReadOn
<1> HIDE DEF first, t, w
<1> QED
  BY <1>2, <1>3, <1>4 DEF Gots

LEMMA UnquotedSteps ==
  ASSUME NEW body \in Seq(Chars)
  PROVE  /\ Unquoted(body) \in [0 .. Len(body) -> Gots] /\ Unquoted(body)[0] = NoneRead
         /\ \A i \in 1 .. Len(body) : Unquoted(body)[i] = ReadOn(Unquoted(body)[i - 1], body[i])
<1> DEFINE n == Len(body)
           b == NoneRead
           step == [p \in (1 .. n) \X Gots |-> ReadOn(p[2], body[p[1]])]
           Def(g) == g = [i \in 0 .. Len(body) |-> IF i = 0 THEN NoneRead ELSE ReadOn(g[i - 1], body[i])]
<1>1. n \in Nat /\ b \in Gots /\ \A i \in 1 .. n : body[i] \in Chars
  BY NoneReadTyped
<1>2. step \in StepsOver(n, Gots)
  <2>1. ASSUME NEW p \in (1 .. n) \X Gots PROVE ReadOn(p[2], body[p[1]]) \in Gots
    <3>1. p[1] \in 1 .. n /\ p[2] \in Gots
      OBVIOUS
    <3> QED
      BY <1>1, <3>1, ReadOnTyped
  <2> QED
    BY <2>1 DEF StepsOver
<1>3. PICK f : Stepwise(f, n, Gots, b, step)
  <2> HIDE DEF step, b, n
  <2> QED
    BY <1>1, <1>2, StepwiseExists
<1>4. /\ f \in [0 .. n -> Gots] /\ f[0] = NoneRead
      /\ \A i \in 1 .. n : f[i] = ReadOn(f[i - 1], body[i])
  <2>1. ASSUME NEW i \in 1 .. n PROVE f[i] = ReadOn(f[i - 1], body[i])
    <3>1. i - 1 \in 0 .. n /\ f[i - 1] \in Gots
      BY <1>3 DEF Stepwise
    <3>2. <<i, f[i - 1]>> \in (1 .. n) \X Gots
      BY <3>1
    <3>3. step[<<i, f[i - 1]>>] = ReadOn(f[i - 1], body[i])
      BY <3>2
    <3>4. f[i] = step[<<i, f[i - 1]>>]
      <4> HIDE DEF step
      <4> QED
        BY <1>3 DEF Stepwise
    <3> QED
      BY <3>3, <3>4
  <2> QED
    BY <1>3, <2>1 DEF Stepwise
<1>5. Def(f)
  <2>1. f = [i \in 0 .. n |-> f[i]]
    BY <1>4
  <2>2. ASSUME NEW i \in 0 .. n PROVE f[i] = IF i = 0 THEN NoneRead ELSE ReadOn(f[i - 1], body[i])
    BY <1>1, <1>4
  <2> HIDE DEF n
  <2>3. [i \in 0 .. n |-> f[i]] = [i \in 0 .. n |-> IF i = 0 THEN NoneRead ELSE ReadOn(f[i - 1], body[i])]
    BY <2>2
  <2> QED
    BY <2>1, <2>3 DEF n
<1> DEFINE D == CHOOSE g : Def(g)
<1>6. Unquoted(body) = D
  BY DEF Unquoted
<1>7. Def(D)
  <2> HIDE DEF Def
  <2> QED
    BY <1>5
<1> HIDE DEF D
<1>8. D = [i \in 0 .. n |-> IF i = 0 THEN NoneRead ELSE ReadOn(D[i - 1], body[i])]
  BY <1>7
<1>9. /\ D[0] = NoneRead
      /\ \A i \in 1 .. n : D[i] = ReadOn(D[i - 1], body[i])
  <2> HIDE DEF n
  <2>1. 0 \in 0 .. n /\ \A i \in 1 .. n : i \in 0 .. n /\ i # 0
    BY <1>1
  <2> QED
    BY <1>8, <2>1
<1>10. 0 .. n \subseteq { i \in 0 .. n : D[i] \in Gots }
  <2> DEFINE T == { i \in 0 .. n : D[i] \in Gots }
  <2> HIDE DEF n
  <2>1. 0 \in T
    <3>1. D[0] \in Gots /\ 0 \in 0 .. n
      BY <1>1, <1>9
    <3> QED
      BY <3>1
  <2>2. ASSUME NEW i \in 1 .. n, i - 1 \in T PROVE i \in T
    <3>1. D[i] = ReadOn(D[i - 1], body[i]) /\ body[i] \in Chars
      BY <1>1, <1>9
    <3>2. D[i - 1] \in Gots /\ i \in 0 .. n
      BY <1>1, <2>2
    <3>3. D[i] \in Gots
      BY <3>1, <3>2, ReadOnTyped
    <3> QED
      BY <3>2, <3>3
  <2> HIDE DEF T
  <2>3. 0 .. n \subseteq T
    BY <1>1, <2>1, <2>2, UpTheNumbers
  <2> QED
    BY <2>3 DEF T
<1>11. D \in [0 .. n -> Gots]
  <2> HIDE DEF n
  <2> QED
    BY <1>8, <1>10
<1> QED
  BY <1>6, <1>9, <1>11

-----------------------------------------------------------------------------
(* What is written of a value begins with what was written before.         *)
LEMMA TwiceExtends ==
  ASSUME NEW s \in Seq(Chars), NEW c \in Chars
  PROVE  /\ Len(Twice(s, c)) = Len(s) + (IF c = Apostrophe THEN 2 ELSE 1)
         /\ \A k \in 1 .. Len(s) : Twice(s, c)[k] = s[k]
         /\ Twice(s, c)[Len(s) + 1] = c
         /\ c = Apostrophe => Twice(s, c)[Len(s) + 2] = c
<1> DEFINE a == Append(s, c)
<1>1. /\ a \in Seq(Chars) /\ Len(a) = Len(s) + 1 /\ Len(s) \in Nat
      /\ \A k \in 1 .. Len(s) : a[k] = s[k]
      /\ a[Len(s) + 1] = c
  BY Appended
<1> HIDE DEF a
<1>2. CASE c = Apostrophe
  <2>1. Twice(s, c) = Append(a, c)
    BY <1>2 DEF Twice, a
  <2>2. /\ Len(Append(a, c)) = Len(a) + 1
        /\ \A k \in 1 .. Len(a) : Append(a, c)[k] = a[k]
        /\ Append(a, c)[Len(a) + 1] = c
    BY <1>1, Appended
  <2> QED
    BY <1>1, <1>2, <2>1, <2>2
<1>3. CASE c # Apostrophe
  <2>1. Twice(s, c) = a
    BY <1>3 DEF Twice, a
  <2> QED
    BY <1>1, <1>3, <2>1
<1> QED
  BY <1>2, <1>3

LEMMA DoubledGrows ==
  ASSUME NEW v \in Seq(Chars), NEW j \in 0 .. Len(v), NEW i \in 0 .. j
  PROVE  /\ Len(Doubled(v)[i]) <= Len(Doubled(v)[j])
         /\ \A k \in 1 .. Len(Doubled(v)[i]) : Doubled(v)[j][k] = Doubled(v)[i][k]
<1> DEFINE D == Doubled(v)
           n == Len(v)
           Begins(x, y) == Len(x) <= Len(y) /\ \A k \in 1 .. Len(x) : y[k] = x[k]
           T == { m \in 0 .. n : \A h \in 0 .. m : Begins(D[h], D[m]) }
<1>1. /\ n \in Nat /\ \A m \in 1 .. n : v[m] \in Chars
  OBVIOUS
<1>2. /\ D \in [0 .. n -> Seq(Chars)]
      /\ \A m \in 1 .. n : D[m] = Twice(D[m - 1], v[m])
  BY DoubledSteps
<1> HIDE DEF D, n
<1>3. 0 \in T
  <2>1. Len(D[0]) \in Nat
    BY <1>1, <1>2
  <2>2. Begins(D[0], D[0])
    BY <2>1
  <2>3. \A h \in 0 .. 0 : h = 0
    OBVIOUS
  <2> QED
    BY <1>1, <2>2, <2>3
<1>4. ASSUME NEW m \in 1 .. n, m - 1 \in T PROVE m \in T
  <2>1. /\ D[m - 1] \in Seq(Chars) /\ D[m] \in Seq(Chars) /\ D[m] = Twice(D[m - 1], v[m]) /\ v[m] \in Chars
    BY <1>1, <1>2
  <2>2. Begins(D[m - 1], D[m])
    <3>1. PICK s \in Seq(Chars) : s = D[m - 1]
      BY <2>1
    <3>2. PICK c \in Chars : c = v[m]
      BY <2>1
    <3>3. D[m] = Twice(s, c) /\ Len(s) \in Nat
      BY <2>1, <3>1, <3>2
    <3>4. /\ Len(Twice(s, c)) = Len(s) + (IF c = Apostrophe THEN 2 ELSE 1)
          /\ \A k \in 1 .. Len(s) : Twice(s, c)[k] = s[k]
      BY TwiceExtends
    <3>5. Len(s) <= Len(D[m]) /\ \A k \in 1 .. Len(s) : D[m][k] = s[k]
      BY <3>3, <3>4
    <3> QED
      BY <3>1, <3>5
  <2>3. ASSUME NEW h \in 0 .. m PROVE Begins(D[h], D[m])
    <3>1. CASE h = m
      <4>1. Len(D[m]) \in Nat
        BY <2>1
      <4> QED
        BY <3>1, <4>1
    <3>2. CASE h # m
      <4>1. h \in 0 .. m - 1 /\ h \in 0 .. n
        BY <1>1, <3>2
      <4>2. Begins(D[h], D[m - 1])
        BY <1>4, <4>1
      <4>3. Len(D[h]) \in Nat /\ Len(D[m - 1]) \in Nat /\ Len(D[m]) \in Nat
        BY <1>2, <2>1, <4>1
      <4> QED
        BY <2>2, <4>2, <4>3
    <3> QED
      BY <3>1, <3>2
  <2> HIDE DEF Begins
  <2> QED
    BY <1>1, <2>3
<1>5. 0 .. n \subseteq T
  <2> HIDE DEF T
  <2> QED
    BY <1>1, <1>3, <1>4, UpTheNumbers
<1>6. j \in T
  BY <1>5 DEF n
<1>7. Begins(D[i], D[j])
  BY <1>6
<1> QED
  BY <1>7 DEF D

-----------------------------------------------------------------------------
(* A character that was written as it must be is read.                     *)
LEMMA CharacterRead ==
  ASSUME NEW text \in Seq(Chars), NEW c \in Chars
  PROVE  LET g == [text |-> text, odd |-> FALSE, whole |-> TRUE]
             h == [text |-> Append(text, c), odd |-> FALSE, whole |-> TRUE]
         IN  /\ c # Apostrophe => ReadOn(g, c) = h
             /\ c = Apostrophe => ReadOn(ReadOn(g, c), c) = h
<1> DEFINE g == [text |-> text, odd |-> FALSE, whole |-> TRUE]
           h == [text |-> Append(text, c), odd |-> FALSE, whole |-> TRUE]
           m == [text |-> text, odd |-> TRUE, whole |-> TRUE]
<1>1. ASSUME c # Apostrophe PROVE ReadOn(g, c) = h
  BY <1>1 DEF ReadOn
<1>2. ASSUME c = Apostrophe PROVE ReadOn(g, c) = m /\ ReadOn(m, c) = h
  BY <1>2 DEF ReadOn
<1> QED
  BY <1>1, <1>2

(* Behind what was written for the first i characters, these are read.     *)
LEMMA BodyRead ==
  ASSUME NEW v \in Seq(Chars), NEW i \in 0 .. Len(v)
  PROVE  Unquoted(Doubled(v)[Len(v)])[Len(Doubled(v)[i])]
           = [text |-> [k \in 1 .. i |-> v[k]], odd |-> FALSE, whole |-> TRUE]
<1> DEFINE D == Doubled(v)
           n == Len(v)
           body == D[n]
           R == Unquoted(body)
           Got(m) == [text |-> [k \in 1 .. m |-> v[k]], odd |-> FALSE, whole |-> TRUE]
           T == { m \in 0 .. n : R[Len(D[m])] = Got(m) }
<1>1. n \in Nat /\ \A m \in 1 .. n : v[m] \in Chars
  OBVIOUS
<1>2. /\ D \in [0 .. n -> Seq(Chars)] /\ D[0] = << >>
      /\ \A m \in 1 .. n : D[m] = Twice(D[m - 1], v[m])
  BY DoubledSteps
<1>3. \A m \in 0 .. n : /\ Len(D[m]) <= Len(body)
                        /\ \A k \in 1 .. Len(D[m]) : body[k] = D[m][k]
  <2>1. n \in 0 .. Len(v)
    BY <1>1
  <2>2. ASSUME NEW m \in 0 .. n
        PROVE  Len(D[m]) <= Len(body) /\ \A k \in 1 .. Len(D[m]) : body[k] = D[m][k]
    <3> HIDE DEF n
    <3> QED
      BY <2>1, DoubledGrows
  <2> QED
    BY <2>2
<1>4. body \in Seq(Chars)
  BY <1>1, <1>2
<1> HIDE DEF D, n, body
<1>5. /\ R[0] = NoneRead
      /\ \A p \in 1 .. Len(body) : R[p] = ReadOn(R[p - 1], body[p])
  BY <1>4, UnquotedSteps
<1> HIDE DEF R
<1>6. 0 \in T
  <2>1. Len(D[0]) = 0 /\ [k \in 1 .. 0 |-> v[k]] = << >>
    BY <1>2
  <2> QED
    BY <1>1, <1>5, <2>1 DEF NoneRead
<1>7. ASSUME NEW m \in 1 .. n, m - 1 \in T PROVE m \in T
  <2> DEFINE text == [k \in 1 .. m - 1 |-> v[k]]
  <2>1. /\ m - 1 \in 0 .. n /\ m \in 0 .. n
        /\ D[m - 1] \in Seq(Chars) /\ v[m] \in Chars /\ D[m] = Twice(D[m - 1], v[m])
    BY <1>1, <1>2
  <2>2. PICK s \in Seq(Chars) : s = D[m - 1]
    BY <2>1
  <2>3. PICK c \in Chars : c = v[m]
    BY <2>1
  <2>4. PICK l \in Nat : l = Len(s)
    OBVIOUS
  <2>5. /\ m - 1 \in 0 .. n /\ m \in 0 .. n
        /\ s \in Seq(Chars) /\ c \in Chars /\ l \in Nat /\ D[m] = Twice(s, c)
    BY <2>1, <2>2, <2>3, <2>4
  <2>6. /\ Len(D[m]) = l + (IF c = Apostrophe THEN 2 ELSE 1)
        /\ D[m][l + 1] = c
        /\ c = Apostrophe => D[m][l + 2] = c
    BY <2>5, <2>4, TwiceExtends
  <2>7. /\ Len(D[m]) <= Len(body) /\ Len(body) \in Nat
        /\ \A k \in 1 .. Len(D[m]) : body[k] = D[m][k]
    BY <1>3, <1>4, <2>5
  <2>8. /\ text \in Seq(Chars)
        /\ Append(text, c) = [k \in 1 .. m |-> v[k]]
    <3>1. m - 1 \in Nat /\ (\A k \in 1 .. m - 1 : v[k] \in Chars) /\ c = v[m]
      BY <1>1, <2>3
    <3>2. text \in Seq(Chars) /\ Len(text) = m - 1
      BY <3>1
    <3>3. Append(text, c) = [k \in 1 .. (m - 1) + 1 |-> IF k = m THEN c ELSE text[k]]
      BY <3>1, <3>2
    <3> QED
      BY <3>1, <3>2, <3>3
  <2>9. R[l] = [text |-> text, odd |-> FALSE, whole |-> TRUE]
    BY <1>7, <2>2, <2>4
  <2> DEFINE g == [text |-> text, odd |-> FALSE, whole |-> TRUE]
             h == [text |-> Append(text, c), odd |-> FALSE, whole |-> TRUE]
  <2>10. /\ c # Apostrophe => ReadOn(g, c) = h
         /\ c = Apostrophe => ReadOn(ReadOn(g, c), c) = h
    <3> HIDE DEF text
    <3> QED
      BY <2>5, <2>8, CharacterRead
  <2>11. h = Got(m)
    BY <2>8
  <2> HIDE DEF text, g, h, Got
  <2>12. R[l + 1] = ReadOn(g, c)
    <3>1. l + 1 \in 1 .. Len(D[m]) /\ l + 1 \in 1 .. Len(body) /\ (l + 1) - 1 = l
      BY <2>5, <2>6, <2>7
    <3>2. body[l + 1] = c
      BY <2>6, <2>7, <3>1
    <3> QED
      BY <1>5, <2>9, <3>1, <3>2 DEF g
  <2>13. CASE c # Apostrophe
    <3>1. Len(D[m]) = l + 1
      BY <2>6, <2>13
    <3>2. ReadOn(g, c) = Got(m)
      BY <2>10, <2>11, <2>13
    <3>3. R[l + 1] = Got(m)
      BY <2>12, <3>2
    <3>4. R[Len(D[m])] = Got(m)
      BY <3>1, <3>3
    <3> QED
      BY <2>5, <3>4
  <2>14. CASE c = Apostrophe
    <3>1. Len(D[m]) = l + 2
      BY <2>6, <2>14
    <3>2. l + 2 \in 1 .. Len(D[m]) /\ l + 2 \in 1 .. Len(body) /\ (l + 2) - 1 = l + 1
      BY <2>5, <2>7, <3>1
    <3>3. body[l + 2] = c
      BY <2>6, <2>7, <2>14, <3>2
    <3>4. R[l + 2] = ReadOn(ReadOn(g, c), c)
      BY <1>5, <2>12, <3>2, <3>3
    <3>5. R[Len(D[m])] = Got(m)
      BY <2>10, <2>11, <2>14, <3>1, <3>4
    <3> QED
      BY <2>5, <3>5
  <2> QED
    BY <2>13, <2>14
<1>8. 0 .. n \subseteq T
  <2> HIDE DEF T
  <2> QED
    BY <1>1, <1>6, <1>7, UpTheNumbers
<1>9. i \in T
  BY <1>8 DEF n
<1> QED
  BY <1>9 DEF R, D, n, body

-----------------------------------------------------------------------------
(* Sequences put together, and a part of one.                              *)
Joins(S, s, t, r) ==
  /\ r \in Seq(S) /\ Len(r) = Len(s) + Len(t)
  /\ \A i \in 1 .. Len(s) : r[i] = s[i]
  /\ \A i \in 1 .. Len(t) : r[Len(s) + i] = t[i]
LEMMA Joined ==
  ASSUME NEW S, NEW s \in Seq(S), NEW t \in Seq(S)
  PROVE  Joins(S, s, t, s \o t)
  BY DEF Joins

LEMMA Cut ==
  ASSUME NEW S, NEW t \in Seq(S), NEW body \in Seq(S), NEW k \in Nat, k + Len(body) <= Len(t),
         \A i \in 1 .. Len(body) : t[k + i] = body[i]
  PROVE  SubSeq(t, k + 1, k + Len(body)) = body
<1> DEFINE u == SubSeq(t, k + 1, k + Len(body))
<1>1. u = [i \in 1 .. Len(body) |-> t[k + i]]
  OBVIOUS
<1>2. body = [i \in 1 .. Len(body) |-> body[i]]
  OBVIOUS
<1> HIDE DEF u
<1>3. u = body
  BY <1>1, <1>2
<1> QED
  BY <1>3 DEF u

(* A text in a frame.                                                      *)
LEMMA Framed ==
  ASSUME NEW S, NEW m \in Seq(S), NEW q \in S, NEW body \in Seq(S),
         NEW t, t = m \o <<q>> \o body \o <<q>>
  PROVE  /\ t \in Seq(S) /\ Len(t) = Len(m) + Len(body) + 2
         /\ \A i \in 1 .. Len(m) : t[i] = m[i]
         /\ t[Len(m) + 1] = q
         /\ SubSeq(t, Len(m) + 2, Len(t) - 1) = body
<1>1. PICK p : p = <<q>>
  OBVIOUS
<1>2. PICK a : a = m \o p
  OBVIOUS
<1>3. PICK b : b = a \o body
  OBVIOUS
<1>4. t = b \o p
  BY <1>1, <1>2, <1>3
<1>5. p \in Seq(S) /\ Len(p) = 1 /\ p[1] = q
  BY <1>1
<1>6. Joins(S, m, p, a)
  BY <1>2, <1>5, Joined
<1>7. Joins(S, a, body, b)
  <2>1. a \in Seq(S)
    BY <1>6 DEF Joins
  <2> QED
    BY <1>3, <2>1, Joined
<1>8. Joins(S, b, p, t)
  <2>1. b \in Seq(S)
    BY <1>7 DEF Joins
  <2> QED
    BY <1>4, <1>5, <2>1, Joined
<1>9. Len(m) \in Nat /\ Len(body) \in Nat /\ Len(a) = Len(m) + 1 /\ Len(t) = Len(m) + Len(body) + 2
  BY <1>5, <1>6, <1>7, <1>8 DEF Joins
<1>10. \A i \in 1 .. Len(body) : t[Len(a) + i] = body[i]
  BY <1>7, <1>8, <1>9, <1>5 DEF Joins
<1>11. SubSeq(t, Len(a) + 1, Len(a) + Len(body)) = body
  BY <1>8, <1>9, <1>10, Cut DEF Joins
<1>12. Len(a) + 1 = Len(m) + 2 /\ Len(a) + Len(body) = Len(t) - 1
  BY <1>9
<1> QED
  BY <1>5, <1>6, <1>7, <1>8, <1>9, <1>11, <1>12 DEF Joins

-----------------------------------------------------------------------------
(* A text between quotes, behind a mark or not.                            *)
LEMMA BetweenQuotes ==
  ASSUME NEW body \in Seq(Chars), NEW mark \in {<< >>, <<"N">>},
         NEW t, t = mark \o <<Apostrophe>> \o body \o <<Apostrophe>>
  PROVE  /\ t[1] = IF mark = << >> THEN Apostrophe ELSE "N"
         /\ SubSeq(t, Len(mark) + 2, Len(t) - 1) = body
<1> DEFINE S == Chars \cup {"N"}
<1>1. mark \in Seq(S) /\ Apostrophe \in S /\ body \in Seq(S)
  <2>1. Apostrophe \in S
    BY DEF Chars
  <2>2. << >> \in Seq(S) /\ <<"N">> \in Seq(S)
    OBVIOUS
  <2>3. body \in Seq(S)
    <3>1. Chars \subseteq S
      OBVIOUS
    <3> HIDE DEF S
    <3> QED
      BY <3>1, SeqMonotonic
  <2> HIDE DEF S
  <2> QED
    BY <2>1, <2>2, <2>3
<1> HIDE DEF S
<1>2. /\ \A i \in 1 .. Len(mark) : t[i] = mark[i]
      /\ t[Len(mark) + 1] = Apostrophe
      /\ SubSeq(t, Len(mark) + 2, Len(t) - 1) = body
  BY <1>1, Framed
<1>3. CASE mark = << >>
  <2>1. Len(mark) = 0
    BY <1>3
  <2> QED
    BY <1>2, <1>3, <2>1
<1>4. CASE mark = <<"N">>
  <2>1. Len(mark) = 1 /\ mark[1] = "N" /\ mark # << >>
    BY <1>4
  <2> QED
    BY <1>2, <2>1
<1> QED
  BY <1>3, <1>4

(* What is marked as binary is everything behind the mark.                 *)
LEMMA BehindMark ==
  ASSUME NEW v \in Seq(Chars), NEW t, t = <<"0x">> \o v
  PROVE  t[1] = "0x" /\ SubSeq(t, 2, Len(t)) = v
<1> DEFINE S == Chars \cup {"0x"}
<1>1. PICK m : m = <<"0x">>
  OBVIOUS
<1>2. m \in Seq(S) /\ Len(m) = 1 /\ m[1] = "0x"
  BY <1>1
<1>3. v \in Seq(S) /\ Len(v) \in Nat
  <2>1. \A i \in 1 .. Len(v) : v[i] \in S
    OBVIOUS
  <2> QED
    BY <2>1
<1> HIDE DEF S
<1>4. t = m \o v
  BY <1>1
<1>5. Joins(S, m, v, t)
  BY <1>2, <1>3, <1>4, Joined
<1>6. /\ t \in Seq(S) /\ Len(t) = 1 + Len(v) /\ t[1] = "0x"
      /\ \A i \in 1 .. Len(v) : t[1 + i] = v[i]
  BY <1>2, <1>5 DEF Joins
<1>7. SubSeq(t, 1 + 1, 1 + Len(v)) = v
  BY <1>3, <1>6, Cut
<1> QED
  BY <1>6, <1>7

LEMMA QuotedReadBack ==
  ASSUME NEW v \in Values, NEW e \in Encodings, NEW national \in BOOLEAN, NEW nature \in Natures
  PROVE  LET l == Literal(Quote(v, e, national, nature)) IN
         /\ l.whole /\ l.value = v
         /\ l.kind = IF e = "binary" THEN "binary"
                     ELSE IF National(national, e, nature) THEN "utf8" ELSE "char"
<1> DEFINE t == Quote(v, e, national, nature)
           l == Literal(t)
           n == Len(v)
           body == Doubled(v)[n]
<1>1. v \in Seq(Chars) /\ n \in Nat /\ v = [i \in 1 .. n |-> v[i]]
  BY ValueIsText
<1>2. CASE e = "binary"
  <2>1. t = <<"0x">> \o v
    BY <1>2 DEF Quote
  <2> HIDE DEF t
  <2>2. t[1] = "0x" /\ SubSeq(t, 2, Len(t)) = v
    BY <1>1, <2>1, BehindMark
  <2>3. l = [kind |-> "binary", value |-> v, whole |-> TRUE]
    BY <2>2 DEF Literal
  <2> HIDE DEF l
  <2>4. l.kind = "binary" /\ l.value = v /\ l.whole
    BY <2>3
  <2> QED
    BY <1>2, <2>4 DEF l, t
<1>3. CASE e # "binary"
  <2> DEFINE mark == IF National(national, e, nature) THEN <<"N">> ELSE << >>
             start == IF t[1] = "N" THEN 2 ELSE 1
  <2>1. t = mark \o <<Apostrophe>> \o body \o <<Apostrophe>>
    BY <1>3 DEF Quote
  <2>2. body \in Seq(Chars)
    BY <1>1, DoubledSteps
  <2>3. mark \in {<< >>, <<"N">>} /\ (mark = << >>) = ~National(national, e, nature)
    OBVIOUS
  <2> HIDE DEF t, body, mark
  <2>4. /\ t[1] = IF mark = << >> THEN Apostrophe ELSE "N"
        /\ SubSeq(t, Len(mark) + 2, Len(t) - 1) = body
    BY <2>1, <2>2, <2>3, BetweenQuotes
  <2>5. Apostrophe # "N" /\ Apostrophe # "0x" /\ "N" # "0x"
    BY DEF Apostrophe
  <2>6. /\ t[1] # "0x" /\ (t[1] = "N" <=> National(national, e, nature))
        /\ start + 1 = Len(mark) + 2
    <3>1. CASE mark = << >>
      <4>1. t[1] = Apostrophe /\ Len(mark) = 0
        BY <2>4, <3>1
      <4>2. t[1] # "0x" /\ t[1] # "N" /\ start = 1
        BY <2>5, <4>1
      <4>3. ~National(national, e, nature)
        BY <2>3, <3>1, Zenon
      <4>4. (t[1] = "N" <=> National(national, e, nature))
        BY <4>2, <4>3
      <4> QED
        BY <4>1, <4>2, <4>4
    <3>2. CASE mark = <<"N">>
      <4>1. t[1] = "N" /\ Len(mark) = 1 /\ mark # << >>
        BY <2>4, <3>2
      <4>2. t[1] # "0x" /\ t[1] = "N" /\ start = 2
        BY <2>5, <4>1
      <4>3. National(national, e, nature)
        BY <2>3, <4>1, Zenon
      <4>4. (t[1] = "N" <=> National(national, e, nature))
        BY <4>2, <4>3
      <4> QED
        BY <4>1, <4>2, <4>4
    <3> QED
      BY <2>3, <3>1, <3>2
  <2>7. SubSeq(t, start + 1, Len(t) - 1) = body
    BY <2>4, <2>6
  <2> DEFINE got == Unquoted(body)[Len(body)]
  <2>8. got = [text |-> [k \in 1 .. n |-> v[k]], odd |-> FALSE, whole |-> TRUE]
    <3>1. n \in 0 .. Len(v)
      BY <1>1
    <3> QED
      BY <1>1, <3>1, BodyRead DEF body
  <2>9. l = [kind |-> IF t[1] = "N" THEN "utf8" ELSE "char", value |-> got.text,
             whole |-> got.whole /\ ~got.odd]
    <3> DEFINE k == IF t[1] = "N" THEN "utf8" ELSE "char"
    <3> HIDE DEF got
    <3> QED
      BY <2>6, <2>7 DEF Literal, got
  <2> HIDE DEF got
  <2>10. got.text = v /\ got.whole = TRUE /\ got.odd = FALSE
    BY <1>1, <2>8
  <2> HIDE DEF l
  <2>11. l.value = v /\ l.whole /\ l.kind = IF t[1] = "N" THEN "utf8" ELSE "char"
    BY <2>9, <2>10
  <2>12. l.kind = IF National(national, e, nature) THEN "utf8" ELSE "char"
    BY <2>6, <2>11
  <2> QED
    BY <1>3, <2>11, <2>12 DEF l, t
<1> QED
  BY <1>2, <1>3

(* Whatever value is quoted, of any length and characters, and in whatever *)
(* encoding: no character of it ends its literal early, and the server     *)
(* reads the value (pdo_dbh.cpp, pdo_sqlsrv_dbh_quote).                    *)
THEOREM QuotedValuesAreWhole == QuoteReadsBack
<1> SUFFICES ASSUME NEW v \in Values, NEW e \in Encodings, NEW dbhNational \in BOOLEAN, NEW nature \in Natures
             PROVE  LET t == Literal(Quote(v, e, dbhNational, nature)) IN
                    /\ t.whole /\ t.value = v
                    /\ e # "binary" => /\ nature = "national" => t.kind = "utf8"
                                       /\ nature = "char" => t.kind = "char"
                    /\ e = "binary" \/ (nature = "unsaid" /\ ~dbhNational) => t.kind = KindOf(e)
  BY DEF QuoteReadsBack
<1> DEFINE t == Literal(Quote(v, e, dbhNational, nature))
<1>1. /\ t.whole /\ t.value = v
      /\ t.kind = IF e = "binary" THEN "binary" ELSE IF National(dbhNational, e, nature) THEN "utf8" ELSE "char"
  BY QuotedReadBack
<1> HIDE DEF t
<1>2. ASSUME e # "binary", nature = "national" PROVE t.kind = "utf8"
  BY <1>1, <1>2 DEF National
<1>3. ASSUME e # "binary", nature = "char" PROVE t.kind = "char"
  BY <1>1, <1>3 DEF National
<1>4. ASSUME e = "binary" PROVE t.kind = KindOf(e)
  BY <1>1, <1>4 DEF KindOf
<1>5. ASSUME e # "binary", nature = "unsaid", ~dbhNational PROVE t.kind = KindOf(e)
  <2>1. National(dbhNational, e, nature) = (e = "utf8")
    BY <1>5 DEF National
  <2> QED
    BY <1>1, <1>5, <2>1 DEF KindOf
<1> QED
  BY <1>1, <1>2, <1>3, <1>4, <1>5 DEF t

=============================================================================
