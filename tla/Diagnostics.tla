----------------------------- MODULE Diagnostics -----------------------------
(***************************************************************************)
(* What a script learns of a call that failed: the error handlers of both  *)
(* extensions, which gather the diagnostic records of an ODBC handle; the  *)
(* lists of sqlsrv_errors; and the last error of PDO's objects, which the  *)
(* statements that PDO::exec and PDO::lastInsertId make for themselves     *)
(* leave to the connection.                                                *)
(* A record is [state, native, readable]: it is not readable when its text *)
(* cannot be fetched or converted.  A list that is NULL is empty here.     *)
(***************************************************************************)
EXTENDS Integers, Sequences

CONSTANTS Records,      \* the diagnostic records that ODBC gives
          MaxRecords,   \* bound on the records of a handle
          MaxErrors,    \* bound on the errors met in one function
          MaxCalls,     \* bound on the calls before the one that failed
          MaxItems      \* bound on the results of a batch

ASSUME DiagnosticsAssumption ==
  /\ Records \subseteq [state : STRING, native : Int, readable : BOOLEAN]
  /\ MaxRecords \in Nat /\ MaxErrors \in Nat /\ MaxCalls \in Nat /\ MaxItems \in Nat

Odbc         == 0                            \* SQLSRV_ERROR_ODBC
OfDriver(c)  == [state |-> "IMSSP", native |-> c, readable |-> TRUE]
Unavailable  == OfDriver(-107)
NoError      == <<>>

-----------------------------------------------------------------------------
(* A handle: its records in ODBC, and what a buffered result set that is   *)
(* current keeps of its own last call, at most one record.                 *)
Handle(odbc, own) == [odbc |-> odbc, own |-> own]

(* Each call of the buffered result set forgets the error of the one       *)
(* before; a call of ODBC itself does not.                                 *)
KeepsOwn(h, op)  == [h EXCEPT !.own = IF op.error = NoError THEN @ ELSE op.error]  \* mutant: kept
OwnAfter(h, op)  == [h EXCEPT !.own = op.error]
After(h, op)     == IF op.buffered THEN OwnAfter(h, op) ELSE [h EXCEPT !.odbc = op.error]

(* What each of a sequence of calls leaves, from a handle without errors.  *)
Left(ops) ==
  LET left[n \in 0 .. Len(ops)] == IF n = 0 THEN Handle(NoError, NoError) ELSE After(left[n - 1], ops[n])
  IN  left

(* core_sqlsrv_get_odbc_error, for record one, two and so on while there   *)
(* are any: the first that cannot be read ends it.                         *)
Readable(s)   == CHOOSE n \in 0 .. Len(s) :
                   (\A i \in 1 .. n : s[i].readable) /\ (n # Len(s) => ~s[n + 1].readable)
ReadableOf(s) == SubSeq(s, 1, Readable(s))
RecordsOf(h)  == IF h.own # NoError THEN h.own ELSE ReadableOf(h.odbc)

-----------------------------------------------------------------------------
(* sqlsrv.  Warnings that are never made errors, -1 for any native code.   *)
WarningsToIgnore ==
  { <<"01000", 5701>>, <<"01000", 5703>>, <<"01S02", -1>>, <<"01001", -1>>, <<"01003", -1>>,
    <<"01000", 40608>>, <<"01000", 9927>> }
ignore_warning(r) == \E n \in {r.native, -1} : <<r.state, n>> \in WarningsToIgnore

(* handle_errors_and_warnings: the driver's own error comes first, then    *)
(* whatever is on the handle; an error of ODBC that left nothing is told   *)
(* as such.                                                                *)
Nothing(found, code, warning)  == <<>>                     \* mutant: nothing for no record
Fallback(found, code, warning) ==
  IF code = Odbc /\ found = <<>> /\ ~warning THEN <<Unavailable>> ELSE <<>>
Gathered(h, code, warning) ==
  (IF code = Odbc THEN <<>> ELSE <<OfDriver(code)>>)
    \o RecordsOf(h) \o Fallback(RecordsOf(h), code, warning)

(* copy_error_to_zval: an error is reported, a warning when it is made one *)
(* and is not of those.                                                    *)
copy_error_to_zval(q, r, warning, asErrors) ==
  IF ~warning \/ (asErrors /\ ~ignore_warning(r))
  THEN [q EXCEPT !.errors = Append(@, r)] ELSE [q EXCEPT !.warnings = Append(@, r)]

Chained(q, all, warning, asErrors) ==
  LET chain[i \in 0 .. Len(all)] ==
        IF i = 0 THEN q ELSE copy_error_to_zval(chain[i - 1], all[i], warning, asErrors)
  IN  chain

handle_errors_and_warnings(q, h, code, warning, asErrors) ==
  LET all  == Gathered(h, code, warning)
      done == Chained(q, all, warning, asErrors)[Len(all)] IN
  [done EXCEPT !.ignored = warning /\ (asErrors => Len(done.errors) = Len(q.errors))]

(* reset_errors, at the start of a function; sqlsrv_errors.                *)
reset_errors == [errors |-> <<>>, warnings |-> <<>>, ignored |-> TRUE]
sqlsrv_errors(q, flags) ==
  (IF flags \in {"all", "errors"} THEN q.errors ELSE <<>>)
    \o (IF flags \in {"all", "warnings"} THEN q.warnings ELSE <<>>)

(* A function goes from one check to the next, and ends with the first     *)
(* that is not ignored.                                                    *)
Checks(checks, asErrors) ==
  LET done[n \in 0 .. Len(checks)] ==
        IF n = 0 THEN reset_errors
        ELSE IF ~done[n - 1].ignored THEN done[n - 1]
        ELSE handle_errors_and_warnings(done[n - 1], checks[n].handle, checks[n].code,
                                        checks[n].warning, asErrors)
  IN  done

-----------------------------------------------------------------------------
(* PDO.  An object's SQLSTATE and the chain of its last error.             *)
reset        == [state |-> "00000", last |-> NoError]
format_or_get_all_errors(h, code) ==
  IF code # Odbc THEN <<OfDriver(code)>>
  ELSE IF RecordsOf(h) = <<>> THEN <<Unavailable>> ELSE RecordsOf(h)

Modes == {"silent", "warning", "exception"}
Handled(h, code, warning, mode, ofStatement) ==
  LET chain == format_or_get_all_errors(h, code) IN
  [object  |-> [state |-> chain[1].state, last |-> chain],
   thrown  |-> ~warning /\ mode = "exception",
   raised  |-> ~warning /\ mode = "warning" /\ ~ofStatement,
   ignored |-> warning]

(* PDO::errorInfo and the exception: the first error, and the others when  *)
(* the ini setting asks for them.                                          *)
errorInfo(last, more) == IF last = NoError \/ more THEN last ELSE <<last[1]>>

(* A connection after an operation with a statement of its own failed      *)
(* takes the statement's error, for the statement goes.                    *)
KeepsQuiet(last) == [state |-> "00000", last |-> last]      \* mutant: no SQLSTATE
Takes(last)      == [state |-> last[1].state, last |-> last]

(* PDO::exec: all results are gone through when the first one has columns  *)
(* or changed rows, and the count of the last is the answer.  An item of a *)
(* batch is [columns, rows, error].                                        *)
FirstErrorIn(items) ==
  CHOOSE i \in 1 .. Len(items) + 1 :
    (i # Len(items) + 1 => items[i].error # NoError) /\ \A j \in 1 .. i - 1 : items[j].error = NoError
core_sqlsrv_has_any_result(item) == item.columns # 0 \/ item.rows > 0
pdo_sqlsrv_dbh_do(items) ==
  LET seen == IF items[1].error # NoError \/ core_sqlsrv_has_any_result(items[1])
              THEN Len(items) ELSE 1
      bad  == FirstErrorIn(items)
      rows == items[seen].rows IN
  IF bad <= seen THEN [connection |-> Takes(items[bad].error), rows |-> -1]
  ELSE [connection |-> reset, rows |-> IF rows = -1 THEN 0 ELSE rows]

-----------------------------------------------------------------------------
(* Everything up to the bounds.                                            *)
UpTo(S, n)  == UNION { [1 .. m -> S] : m \in 0 .. n }
RecordLists == UpTo(Records, MaxRecords)
Errors      == { e \in RecordLists : e # <<>> /\ e[1].readable }
Own         == { NoError, <<OfDriver(-33)>> }
Met         == [handle : { Handle(o, w) : o \in RecordLists, w \in Own },
                code : {Odbc, -33}, warning : BOOLEAN]
Operations  == { op \in [buffered : BOOLEAN, error : Errors \cup Own] : op.buffered => op.error \in Own }
Items       == [columns : {0, 1}, rows : {-1, 0, 2}, error : {NoError} \cup Errors]
Batches     == UpTo(Items, MaxItems) \ {<<>>}

(* sqlsrv: a function fails exactly when sqlsrv_errors has an error to     *)
(* tell, whatever warnings are made errors, and every record that could be *)
(* read of the checks it came to is told once, as error or as warning      *)
(* (util.cpp, handle_errors_and_warnings).                                 *)
ToTell(check) == Len(RecordsOf(check.handle)) + (IF check.code = Odbc THEN 0 ELSE 1)
Available(checks) ==
  LET told[n \in 0 .. Len(checks)] == IF n = 0 THEN 0 ELSE told[n - 1] + ToTell(checks[n])
  IN  told
FailsWithErrors ==
  \A checks \in UpTo(Met, MaxErrors), asErrors \in BOOLEAN :
    LET q   == Checks(checks, asErrors)[Len(checks)]
        all == sqlsrv_errors(q, "all") IN
    /\ (sqlsrv_errors(q, "errors") = <<>>) <=> q.ignored
    /\ \A i \in DOMAIN all : all[i].readable
    /\ q.ignored => Len(all) = Available(checks)[Len(checks)]
    /\ ~asErrors /\ (\A i \in DOMAIN checks : checks[i].warning) => q.ignored

(* A call's error is the one told behind it, but for a call of ODBC when   *)
(* the last call of the buffered result set before it failed: that one's   *)
(* error is still kept (core_results.cpp, get_diag_rec).                   *)
Stands(ops) ==
  \E i \in DOMAIN ops :
    ops[i].buffered /\ ops[i].error # NoError /\ \A j \in DOMAIN ops : j > i => ~ops[j].buffered
OwnErrorTold ==
  \A ops \in UpTo(Operations, MaxCalls), last \in Operations :
    last.error # NoError /\ (last.buffered \/ ~Stands(ops)) =>
      RecordsOf(After(Left(ops)[Len(ops)], last)) = ReadableOf(last.error)

(* PDO: exec answers false exactly when a result it went through failed,   *)
(* with that failure's SQLSTATE on the connection, and goes through all    *)
(* but those behind a first result that has no columns and changed nothing *)
(* (pdo_dbh.cpp, pdo_sqlsrv_dbh_do).                                       *)
ExecTellsFirst ==
  \A items \in Batches :
    LET done  == pdo_sqlsrv_dbh_do(items)
        wrong == { i \in DOMAIN items : items[i].error # NoError }
        quiet == items[1].error = NoError /\ items[1].columns = 0 /\ items[1].rows <= 0 IN
    IF wrong = {} \/ quiet
    THEN done.rows >= 0 /\ done.connection = reset
    ELSE /\ done.rows = -1
         /\ \E i \in wrong : /\ done.connection.state = items[i].error[1].state
                           /\ done.connection.last = items[i].error /\ \A j \in wrong : i <= j

(* PDO: whatever an operation met, the SQLSTATE of the object is that of   *)
(* the first error of errorInfo, and an error is thrown in exception mode  *)
(* alone (pdo_util.cpp, pdo_sqlsrv_handle_dbh_error).                      *)
StateIsFirst ==
  \A m \in Met, mode \in Modes, ofStatement \in BOOLEAN, more \in BOOLEAN :
    LET done == Handled(m.handle, m.code, m.warning, mode, ofStatement)
        info == errorInfo(done.object.last, more) IN
    /\ info # <<>> /\ info[1].state = done.object.state /\ info[1].readable
    /\ done.thrown => ~done.raised /\ ~done.ignored
    /\ mode = "silent" => ~done.thrown /\ ~done.raised

DiagnosticsAgree == FailsWithErrors /\ OwnErrorTold /\ ExecTellsFirst /\ StateIsFirst

=============================================================================
