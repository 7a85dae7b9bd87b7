# Verification of the Microsoft Drivers for PHP for SQL Server

TLA+ models of the two PHP extensions in this repository, `sqlsrv` and
`pdo_sqlsrv`, with TLC runs on small instances and TLAPS proofs for all
values of the constants. Every definition is translated from the code under
`source/`; `PROJECT.json` names, for each, the lines it stands for. ODBC, the
driver manager, PDO and SQL Server are not in this repository: they are
modelled from how the code calls them, and marked external.

Contents: [the system](#the-system), [the modules](#the-modules),
[the runs](#the-runs), [the proofs](#the-proofs),
[disagreements](#where-the-code-and-its-comments-disagree),
[not modelled](#what-is-not-modelled), [plan](#plan).

## The system

Both extensions are thin handlers over one core (`source/shared`). A PHP
script calls a handler; the handler calls core functions; they call ODBC
through wrappers that turn an `SQL_ERROR` into a C++ exception, which the
handler catches and reports as `false`. All state lives in a connection
object, a statement object and the ODBC handles below them. A request is
served by one thread, so two handlers of one connection never overlap; what is
shared between threads (ZTS builds) is the token cache, the environment
handles, the pool of iconv converters, and the driver manager's connection
pool.

| component | state | operations | what makes it correct |
|---|---|---|---|
| Statement (`shared/core_stmt.cpp`, `sqlsrv/stmt.cpp`) | `executed`, `fetch_called`, `has_rows`, `past_fetch_end`, `past_next_result_end`, `last_field_index`, cached `column_count`, column metadata and field names, `current_results` | prepare, query, execute, fetch, get_field, has_rows, next_result, rows_affected, send_stream_data, cancel, free | flags and caches agree with the ODBC handle after any order of calls; rows in order, once; a re-execution flushes what is left, and ends |
| Result sets (`shared/core_results.cpp`) | forward or scrollable ODBC cursor; the client-side buffer, its place and the pieces of a field already read | fetch, get_data, row_count | the buffer is the current result; a current row exists; a field read in pieces is the field |
| Parameter container (`core_stmt.cpp`) | bound parameters, output parameters still to be finalized, stream being sent, table-valued parameters | bind, send packet, finalize outputs, clean up | each output finalized once, with its value; streams sent in order |
| Field streams (`shared/core_stream.cpp`) | the PHP stream, its statement's reference | open, read, close | the bytes are the field's; closing in any order frees everything once |
| Connection and transactions (`shared/core_conn.cpp`, `sqlsrv/conn.cpp`, `pdo_sqlsrv/pdo_dbh.cpp`) | `in_transaction` (sqlsrv), `in_txn` (PDO), autocommit mode of the HDBC | begin, commit, rollback, close | flag, mode and open work agree; nothing commits unasked; a close leaves nothing open |
| Statement table (`sqlsrv/conn.cpp`) | `conn->stmts`, each statement's `conn` and `conn_index` | insert, remove, close all | whichever is freed first, nothing dangles |
| Access token cache (`shared/core_conn.cpp`) | list of entries with `last_used`, the TTL | get, touch, expire, destroy | one allocation for a token; it outlives the pooled connections that use it |
| Connecting (`core_conn.cpp`) | driver version, options, connection string | pick the driver, build the string, connect | the drivers are tried in order, the right error is reported |
| pdo_sqlsrv statement (`pdo_sqlsrv/pdo_stmt.cpp`) | PDO's column descriptors, `field_cache`, bound parameters, over the core statement | execute, fetch, get_col_data, next_rowset, close_cursor, set_attr | a cached field is one of the current row |
| pdo_sqlsrv parsers (`pdo_sqlsrv/pdo_parser.cpp`) | position, state of the automaton | connection string, placeholders | every accepted text parses to what was meant |
| Errors (`sqlsrv/util.cpp`, `pdo_util.cpp`, `core_util.cpp`) | errors and warnings arrays, `warnings_return_as_errors` | reset, append, ignore | errors of the last call only |
| Encodings (`localizationimpl.cpp`, `core_util.cpp`, `interlockedslist.h`) | none; the pool of iconv converters, shared by threads | convert in either direction, strictly or not; borrow, return | what is read back is what was written; a converter has one user |
| Wide printf, platform types, initialisation | — | — | text and glue |

Interactions: a handler of the statement reaches the connection for its
options (`batch_error_continue`); a connection destroys its statements before
it rolls back and disconnects; a field stream holds a reference to its
statement; closing a connection touches the token cache before the physical
connection goes back to the driver manager's pool.

What is hard here is less concurrency than *protocol*: several flags and
caches that shadow the state of an ODBC handle, changed by a dozen functions a
script may call in any order, each of which may fail in the middle; two-call
operations (`SQLEndTran`, then `SQLSetConnectAttr`) whose first half may fail;
looking ahead (`sqlsrv_has_rows`); a loop of round trips that ends only when a
flag says so; and, in the token cache and the converter pool, time and other
threads. The list of
hazards, each at its line and with the properties that catch it, is in
`PROJECT.json`.

## The modules

| modules | what they model |
|---|---|
| `OdbcHandle`, `Statement`, `ResultReader`, `StatementProperties` | the sqlsrv statement |
| `PdoStatement` | the PDO statement, over the operators of `Statement` |
| `FieldPieces` | a long value in pieces |
| `Params`, `ParamData` | the parameters of a statement, and the data sent for one |
| `Resources` | who keeps whom alive, who frees whom |
| `OdbcConnection`, `Transaction`, `TransactionProperties` | transactions of both extensions |
| `Connect`, `DsnParser`, `EmulatedPrepare` | connecting, the texts PDO parses |
| `Quoting` | values PDO quotes |
| `Diagnostics`, `ConnectDiagnostics` | what a script is told of errors; the same at a failed connect |
| `TokenCache` | access tokens |
| `ConverterPool`, `ConverterPoolSpec`, `Utf` | encodings |

A module `MC*` gives constants to TLC; a module `*Proofs` holds theorems:
`StatementProofs`, `PdoStatementProofs`, `ParamsProofs`, `ResourcesProofs`,
`ConnectProofs` (`Connect`, `Diagnostics`), `ValueProofs` (`ParamData`,
`FieldPieces`) and `SharedProofs` (`Transaction`, `TokenCache`,
`ConverterPool`, three kinds of state that several parties share). `Induction`
has the lemmas about induction and recursive functions that the proofs of
values, quoted values and diagnostics cite. Modules whose proofs stand in one module have
names of their own for their specification: `FieldSpec`, `TokenSpec`,
`PoolSpec`, with `FieldTypeOK` and so on.

### Statement

`OdbcHandle` (external) is the HSTMT: a record with the batch still ahead, the
cursor's place in its current result, and the number of stream parameters
still asked for. Each ODBC function is an operator that gives the *set* of
outcomes (return code and handle); failures are in every set.

`Statement` is one statement resource. Its variables carry the names of the
fields of `sqlsrv_stmt` and `ss_sqlsrv_stmt`. One PHP call is one action
(`sqlsrv_prepare`, `QuerySucceeds`/`QueryFails` for `sqlsrv_query`,
`sqlsrv_fetch`, `sqlsrv_fetch_array`, `sqlsrv_get_field`, `sqlsrv_has_rows`,
`sqlsrv_next_result`, `RowCount`, `sqlsrv_send_stream_data`, `sqlsrv_cancel`,
`sqlsrv_free_stmt`), because nothing can run between two ODBC calls of one
handler on one statement. The exception is `sqlsrv_execute`: its flush loop is
taken apart into steps (`FlushStep`) so that "does it end" can be asked. The
core functions a handler shares (`core_sqlsrv_execute`, `core_sqlsrv_fetch`,
`core_sqlsrv_next_result`, `new_result_set` as `ResetForNewResult` and
`NewResults`) are operators used by the actions. Data is abstracted to its
shape: a result is a number of rows and columns. `call` (what the script was
told), `delivered` (rows it was told of) and `current_results.stayed` (a fetch
of row 0 of a buffer succeeded) are history that no guard reads. `call.ret` is
"crash" where the code goes through a NULL `current_results`, and "no_row"
where the assertion of `get_row` fails. `BufferedFetch` is the buffered cursor
with all six fetch styles and its two clamps, `OneBased` the counting of the
rows from 0 that `core_sqlsrv_fetch` turns into ODBC's, `Moved` (external) what
a server cursor does.

`StatementProperties` holds the properties; `ResultReader` is the abstract
specification of what a reading script is promised: rows of the current result
one by one, in order, "no more rows" only after the last. `ReadsInOrder` says
that `Statement` implements it, under the mapping `results <- odbc.batch`,
`row <- Row` (where the script stands, with a row that was only looked at not
counted), `told <- Told`.

### PDO statement

`PdoStatement` extends `Statement` and shares its core operators (execute,
fetch, next result), as `pdo_stmt.cpp` shares `core_stmt.cpp`. `pdo` is what
PDO itself remembers (external): whether the statement was executed, the column
count, how many columns it has had described. A PHP call is taken apart where
PDO or a loop goes through several handlers: an execution is `execute`,
`ExecuteFlush` for each round trip of the flush, `ExecuteRuns`, `CountColumns`,
and `describe_col` for each column; a fetch is `fetch` and then a `ReadColumn`
for each column, bound columns first and in the order they were bound, which is
the order in which PDO asks; a column that is bound but not in this result is
passed over. `PDORow` reads a lazily fetched row on demand.
`field_cache` holds for each column the type it was cached with; `given` and
`on_row` are history. `Stops` is an assertion of the driver failing
(`SQLSRV_ASSERT`), which ends the script. `DescribeFails` is the handler that
returns 0: PDO stops describing, `execute` fails, `nextRowset` does not, and the
statement counts as executed with fewer columns described than it has;
`pdo.refused`, history, remembers it for the result.

Not obvious in the code and in the model: `bound_column_param_types` is
allocated once, for the first result's columns; a `bindColumn` after a lazy
fetch leads to a read through its NULL pointer (`Stops`); from PHP 8.1 on a
column no longer bound keeps the type it was bound with. `CloseReady` is
claimed of cursors that are not client-side, for the reason `BufferedAgrees`
has (a failed statement makes a buffered next_result throw).

### A long value in pieces

`FieldPieces` has a value of `units`, numbered 1, 2, ..., and the loops that
carry it: `LobRead` (`read_lob_field`, from the driver into the row cache),
`StringFirst`/`StringGrow`/`StringRest` (`get_field_as_string`),
`StreamRead` (`sqlsrv_stream_read`). What one read of the source gives is
`Copied`/`ValuePiece`, from `binary_to_string`, `to_same_string` and their like in
the buffered result set, and from how the code treats the answers of
`SQLGetData` for the driver; a driver may tell how much is left or not
(`sized`), and what it tells of wide characters it makes narrow ones of is off by
`estimate` until it has converted all of them, since `core_stmt.cpp:1833` calls
it an estimate. The first piece of a string (`FirstSizes`) is read into the
initial length, into exactly the value's length, or, where the driver converts
to narrow text, into any display size a column may have (`calc_string_size`);
the rest goes behind the initial length (`RestAt`), whichever it was. A
conversion may fail (`Translates`). Buffers count bytes, terminators and units
as the code does. 8 and 16 bytes stand for the buffers of 2048 and 8192, all multiples of four.
`MCField`'s `Sound` leaves out the three combinations whose values do not
arrive (see [disagreements](#where-the-code-and-its-comments-disagree)).

### Parameters

`Params` is the pair of containers `input_params` and `output_params` over any
number of executions: for each position a record (kept types, indicator,
whether it holds a variable), what ODBC was last told of it (`bound`: nothing, a
live record, a freed one), and the script's variable with who wrote it last
(`by`). An execution is a `Bind` per position, `Run` and `AfterRun`, each of
which may fail; then streams are sent packet by packet, by `send_all_packets`
or by the script; outputs are handed over by the last `sqlsrv_next_result`, or
by the execution itself if its first result has neither columns nor affected
rows: with `odbc = "done"` nothing follows and the driver has written them, with
`odbc = "results"` more follows, the records hold what the binding left
(`Unwritten`), and the variable counts as handed over "early".
Every use ODBC makes of a pointer (`Used`) is looked at, and `stale` remembers
if one was of a freed record.

`ParamData` is one parameter while it is sent. For a table-valued parameter
the driver asks for a row and then for its cells; `placeholder` is the memory
it reads scalar cells from, `current_row` of each column and `tvp_row` are kept
apart as in the code. For a stream, `calc_utf8_missing` completes a character
that a packet of UTF-8 would cut.

### Resources

`Resources` has the connection, the table of its statements, the statements,
their resources with reference counts, and the field streams. Destructors call
one another; `stack` is the call stack, so that each destructor's steps come in
the code's order, and `wrong` remembers a use after a free. The script calls
`sqlsrv_prepare`, `sqlsrv_get_field`, `sqlsrv_free_stmt`, `sqlsrv_close`,
`fclose`, lets variables go (`Unset`), and the request ends.

### Transactions

`OdbcConnection` (external) is the HDBC and the session on the server: the
autocommit mode, the work statements did, each tagged with the transaction the
script was in when it executed it, and the statements waiting for stream data.
`SQLEndTran` and `SQLSetConnectAttr` are out of sequence while a statement
waits for data, may fail, and may lose the link.

`Transaction` holds the transaction calls of both extensions; `api` says which
one. `sqlsrv_commit` and `sqlsrv_rollback` clear `in_transaction` *before* the
core call; PDO clears `in_txn` only after the handler succeeded. A close of
sqlsrv destroys the statements first; a close of PDO rolls back what PDO
believes in progress. `broken` records, for the properties only, that a commit
or rollback of sqlsrv failed. `TransactionProperties` states the properties.

The `Statement` and `Transaction` modules meet in what a statement waiting for
stream data does to its connection: `Statement` keeps the stream protocol,
`Transaction` only the fact that the statement is being sent.

### Connecting

`Connect` goes through `sqlsrv_connect` or PDO's handle factory in the code's
phases: `CheckOption` per option (the tables of both extensions), `Allocate`
(the environment handle, the pool), `StartString` (server, credentials,
token), `SetOption` per option, `FinishString`, then `UseSpecifiedDriver` or
`SearchDriver` per driver tried, `FinishConnect` (the key vault, the server's
version), `Close` or `GiveUp`. A connection string is a sequence of keyword and
value; `conn.string` is wiped after an attempt as in the code, so the next
attempt needs its copy. The driver manager (external) pools by the string
alone. A host says which drivers are installed and whether the platform is
Windows.

`DsnParser` and `EmulatedPrepare` are the two parsers of `pdo_parser.cpp` as
recursive functions, each beside the grammar it is to follow.
`EmulatedPrepare` also has PDO's substitution (external), since the encoding of
a value is found by an internal pointer into the placeholders that quoting
advances. `Quoting` has the quoting itself, `pdo_sqlsrv_dbh_quote`: `Doubled` is
what is written of a value up to each of its characters. Beside it stands the
server's reading of a literal (external): `Unquoted` is what it has after each
character, and whether a quote ended the literal early.

`Diagnostics` has both extensions' gathering of errors and warnings. A handle
is its ODBC records and the own error of a buffered result set; `Left` is what
a sequence of calls leaves on it, `Gathered` the records a check finds,
`Chained` how `copy_error_to_zval` sorts them into errors and warnings, and
`Checks` a function of sqlsrv with the checks it comes to, of which it passes
those that were ignored. `Handled` and `errorInfo` are PDO's, and
`pdo_sqlsrv_dbh_do` is `PDO::exec`, which throws in the middle of a batch.
What it says of these is `DiagnosticsAgree`; `ConnectDiagnostics` claims it of
every failed connect.

These three have no state between calls, so they have no variables: their
properties are facts over all bounded inputs, checked in the states of
`Connect` and `PdoStatement` where their code runs.

### Token cache

`TokenCache` has the clock, the cache, the connections of all threads and the
driver manager's pool. Each operation under the mutex is one step; connecting
and closing are two steps each (`StartConnect` then `ConnectNew`,
`ConnectPooled` or `ConnectFails`; `StartClose` then `Disconnect`), since
other threads run in between. The driver keeps the raw pointer it was given
(`driver`) as long as the physical connection lives, which may be longer than
the PHP connection. `found` is a history field: whether the touch met an entry.
`MaxDisconnect` bounds how long `SQLDisconnect` may take; allocations are
numbered and never reused, so that a reclaimed one can be told from a new one.

### Encodings

`Utf` has the conversions between UTF-8 and UTF-16 (strict and lenient, with
any room), Windows-1252 and the helpers that step over characters, beside the
definition of a well-formed text. `ConverterPool` is `IConvCachePool` and the
list of `interlockedslist.h` it is built on, one step for each access to shared
memory: the looks at the head and the depth before the lock is taken, the spin,
each assignment under it. `ConverterPoolSpec` is what threads are promised; the
list, the lock and the counter have no counterpart in it.

## The runs

| run | question | bounds | result |
|---|---|---|---|
| `Forward` | a forward-only statement under every order of calls | batches of 2 results, 2 rows, 2 columns, with and without `BatchErrorContinue` and output parameters | holds |
| `Scrollable` | static and client-side cursors under all six fetch styles; streams sent by the script or the driver; failing column descriptions and buffers | batches of 2, 2 rows, 1 column, 1 stream; absolute offsets -3, -1, 0, 1, 3, relative -2, 0, 2 | holds |
| `FlushForever` | re-execution while ODBC waits for stream data | 1 result, 1 row | `FlushTerminates` violated |
| `Pdo` | a PDOStatement under every order of calls; emulated prepares; quoting | batches of 2 results, 2 rows, 2 columns, the second column bound or none; queries of 4 characters, 2 executions, values of 3 characters; any column may fail to be described | holds |
| `Fields` | a value into the cache, as a string, through a stream; conversions of text | values to 40 units; 15 bytes and 12 code units at the edges of the encodings, texts of 4 bytes or 3 units; display sizes 2, 12, 40; guesses 5 or 2 too low, exact, 4 too high | holds |
| `Params` | binding, executing, sending, handing over, again and again | 2 positions, 3 declarations, 4 kinds of values, both extensions | holds |
| `ParamData` | a stream, a table of 1 to 3 rows and 2 columns | packets of 4 bytes, characters of 1 to 4 | holds |
| `Resources` | letting go of everything in every order | 2 statements, 3 streams | holds |
| `Transactions` | both extensions, every call may fail, the link may break | 2 statements, 3 transactions | holds |
| `Connect` | both extensions' options, drivers, tokens, key vault, pooling; data source names; diagnostics | 48 requests, every set of drivers, 2 connects; names of 7 characters; 2 records of 4, 2 checks, 2 calls before, 2 results | holds |
| `Tokens` | connect, pool, reuse, close and time | 2 connections, 2 tokens, CPTimeout 2, floor 3 (TTL 4), disconnect 1, clock to 7 | holds |
| `Converters` | threads borrow and return converters | 3 threads, 4 converters, a pool for 1 | holds |

Six more configurations are not among the runs of `PROJECT.json`. Each has one
property that a comment or an assertion of the code states and the code breaks,
and TLC ends with the counterexample:

| configuration | module | question | violated |
|---|---|---|---|
| `RowZero.cfg` | `MCStatement` | a relative move by 0 on a buffered cursor | `RowFound` |
| `HalfDescribed.cfg` | `MCStatement` | describing a column fails, the script goes on | `ColumnsCounted` |
| `BufferFails.cfg` | `MCStatement` | the rows of a buffered result cannot be read | `FailedIsCancelled` |
| `DescribeFails.cfg` | `MCPdo` | PDO fetches though a column was not described | `ReadDescribed` |
| `DisplaySize.cfg` | `MCField` | a first piece longer than the initial length is cut | `RestFollows` |
| `EarlyOutputs.cfg` | `MCParams` | an empty first result with others behind it | `OutputsWaitForResults` |

What the passing runs show, property by property:

- `Forward`: `SkippedFlushIsSafe` (a skipped flush had nothing to flush),
  `ColumnCountFresh` and `WholeRow` (caches belong to the current result, on
  every one of the ways a result changes, and an array fetch returns all
  columns), `RowsInOrder`, `DrainStopsOnlyAtErrors`, `NullOnlyToContinue` (only
  `BatchErrorContinue` leaves a script with a missing result object),
  `FlushTerminates`.
- `Scrollable`: `CurrentRowExists` and `BufferedAgrees` (scrolling past either
  end, failing fetches; the one row that is not there is `RowZero.cfg`'s),
  `HasRowsHonest` (looking ahead neither lies nor moves),
  and the refinement `ReadsInOrder`.
- `Pdo`: `InStep` (PDO's described columns and the driver's metadata keep one
  width, PDO counts the columns of the result, all are described unless one was
  refused, and closing leaves nothing), `NoAssertFails` (but for reading a
  result of which a column was refused), `CacheIsPrefix` (a late
  column is never refused), `LoopsEnd`, `EmulationFaithful`
  (each placeholder gets its value in its encoding, and the server reads a quoted
  value to its end and finds the value).
- `Fields`: `ValueWhole` (what the cache keeps is the value and within the
  limit; a string is the whole value if its first piece was enough or of the
  initial length (`Fits`), and the padding makes up for the guess (`Padded`)),
  `StreamInOrder` (no gap, nothing foreign, whole but for the place of a
  terminator and what the driver guessed too low), `ReadEnds`, `ConvertedWhole`.
- `Params`: `InputsLive` (no stale pointer, no type left from a NULL, the stream
  awaited is the one sent), `OutputsArrive` (handed over once, in order, or an
  error; also early).
- `ParamData`: `SentInStep` (the row of each column and of the table in step,
  and every cell sent), `PacketsWhole` (no character of UTF-8 cut),
  `SendingEnds`.
- `Resources`: `NothingGoneUsed`, `StatementsAccountedFor`.
- `Transactions`: `OpenWorkIsCurrent` (nothing of an earlier transaction is open
  unless a commit or rollback of sqlsrv failed), `ClosedClean`, and
  `CommittedOnlyOnRequest` (work of a transaction turns committed in no other
  step than a commit).
- `Connect`: `NothingLeftBehind` (secrets, error mode, handle, on every way
  out), `OwnIdentity` (no pooled connection of another token),
  `DriverSearchSound`, `DataSourceRead`, `DiagnosticsTold` (a failure has an
  error to tell, each record is told once, an earlier call's error is not told
  for a later one, `PDO::exec` tells of the first result that failed).
- `Tokens`: `SameTokenSamePointer` and `PooledTokensLive`.
- `Converters`: `ListWhole`, `NoMoreThanThreads`, and the refinement
  `ImplementsPool`.

Why the bounds are enough. Batches of two results have every pair of
neighbours (rowset, count, error marker). Two rows tell first, last and middle
places from past-the-end; with one row a prefetched row and the last row
coincide. Two columns tell a short row from a whole one, and let a column be
read before the one in front of it. The offsets name
each of two rows from the start and the first from the end, a place before and
one behind them, a move by nothing and moves across the result. `Scrollable` keeps
one column because scrolling does not depend on the number; `MetadataFails` is off in `Forward`,
where `WholeRow` is checked, because a failing description breaks it (see
below). Forty units are more than two of the largest buffer and every residue of
the lengths at which a piece is cut; the limit of 36 lies between two doublings
of the cache's buffer. A display size is less than the initial length, between it and
the longest value, or no less than that; a guess is off by less than the padding
of 3, by more, or too high. Two positions tell one parameter's failure from the
other's success, before and behind it. A packet of four bytes cuts a character
of two, three or four at each of its bytes. Two statements and three streams
give a statement with two streams, of which one is active, beside another.
Three transactions let one fail, one be retried and one follow. Two connects
let the second meet what the first left in the pool. The clock runs to nearly
two TTLs, so an entry can expire, be created again and expire once more. Three
threads are a thread in the lock, one that spins, and one whose look is stale;
a pool for one is overshot by two. Of the four diagnostic records one is an
error, one a warning that is never made an error, one that may be, and one that
cannot be read; two in a list put each in front of each, and two checks, calls
or results let the second meet what the first left. Symmetry is used over interchangeable
statements, connections and tokens only, and in no run with a liveness property.

Deadlock is checked for the statements, the parameters and the converters,
where some call is always possible; a closed connection, a value that was read,
a parameter that was sent and an ended request have no successor, and the
bounded clock and number of connects end, so those runs do not check it.

Fairness. `FairSpec` of `Statement` has weak fairness of `FlushStep` alone: the
loop runs inside one PHP call, nothing else of the script runs until it
returns, and nothing in the loop waits. `PdoFairSpec` has the same of the two
loops of `PdoStatement`. `FieldPieces` assumes it of the loops inside one call
and, for a stream, of a reader that goes on to the end; `ParamData` of the
sending loop. No other fairness is assumed of the script, which may stop
calling at any time.

Each property of a passing run comes with a mutant in `PROJECT.json`, and a
property of several parts with one for more than one of them: a plausible slip
in the code (a forgotten reset, a flag set too early, a touch left out) written
as an operator next to the definition it replaces, under which the run finds
the property violated.

## The proofs

| module | theorem | property |
|---|---|---|
| `StatementProofs` | `TypeCorrect` | `TypeOK` |
| | `RowsComeInOrder` | `RowsInOrder` |
| | `ColumnCountIsFresh` | `ColumnCountFresh` |
| | `FetchedRowIsFresh` | `FreshRow` |
| | `NothingWhileSending` | `NoRowsWhileSending` |
| | `CurrentRowIsThere` | `CurrentRowExists` |
| | `BufferedResultAgrees` | `BufferedAgrees` |
| | `HasRowsIsHonest` | `HasRowsHonest` |
| | `StatementReadsInOrder` | `ReadsInOrder` |
| | `WholeRowIsRead` | `WholeRow`, if `TRUE \notin MetadataFails` |
| | `NullOnlyWithoutBuffers` | `NullOnlyToContinue`, if `"buffered" \notin Cursors` |
| | `SkippedFlushWithoutBuffers` | `SkippedFlushIsSafe`, if `"buffered" \notin Cursors` |
| | `DrainWithoutBuffers` | `DrainStopsOnlyAtErrors`, if `"buffered" \notin Cursors` |
| `PdoStatementProofs` | `PdoTypeCorrect` | `PdoTypeOK`, `Typed` |
| | `CacheHasNoGap` | `CacheIsPrefix` |
| | `ColumnsStayInStep` | `InStep`, if `"buffered" \notin Cursors` |
| | `NoAssertionFails` | `NoAssertFails`, if `"buffered" \notin Cursors` |
| | `QuotedValuesAreWhole` | `QuoteReadsBack`, a conjunct of `EmulationFaithful` |
| `ParamsProofs` | `BoundParametersAreLive` | `TypeOK`, `BoundLive`, `NullForgotten` |
| | `ParametersOfTheExecution` | `InputsLive`, if `CancelSends = FALSE` |
| | `OutputsArriveOnce` | `OutputsArrive` |
| `ResourcesProofs` | `NothingIsUsedAfterItsEnd` | `NothingGoneUsed` |
| | `EveryStatementIsAccountedFor` | `StatementsAccountedFor` |
| `ConnectProofs` | `NothingStaysOfAConnect` | `NothingLeftBehind` |
| | `ConnectionsKeepTheirIdentity` | `OwnIdentity` |
| | `DriverSearchIsSound` | `DriverSearchSound` |
| | `FailuresAreTold` | `DiagnosticsAgree` |
| | `FailedConnectIsTold` | `DiagnosticsTold` |
| `ValueProofs` | `ParameterArrivesWhole` | `SentInStep` |
| | `PacketsEndWithCharacters` | `PacketsWhole`, if `Slack >= 3` and `Batch <= Space + Slack` |
| | `ValuesArriveWhole` | `ValueWhole`, if every conversion is `Faithful` |
| | `StreamsInOrder` | `StreamInOrder`, if every conversion is `Faithful` |
| `SharedProofs` | `TypeCorrect` | `TypeOK` |
| | `FlagFollowsMode` | `ModeFollowsFlag` |
| | `OnlyCurrentWorkIsOpen` | `OpenWorkIsCurrent` |
| | `EndsForSure` | `EndedMeansEnded` |
| | `ClosesClean` | `ClosedClean` |
| | `CommitsOnlyOnRequest` | `CommittedOnlyOnRequest` |
| | `TokensTypeCorrect` | `TokenTypeOK` |
| | `PooledTokensStayAlive` | `PooledTokensLive` |
| | `OneAllocationPerToken` | `SameTokenSamePointer` |
| | `PoolTypes` | `PoolTypeOK` |
| | `LockExcludes` | `MutualExclusion` |
| | `ConverterNotShared` | `NotShared` |
| | `ListIsWhole` | `ListWhole` |
| | `PoolNeverOvergrows` | `NoMoreThanThreads` |
| | `PoolRefines` | `ImplementsPool` |

All hold for every value of the constants that satisfies the assumptions of the
modules: `OdbcAssumption` (the bounds are natural numbers, results have a
column), `StatementAssumption` (the options are among the known ones),
`PdoAssumption` (bound columns are numbered, known fetch modes),
`ConnectionAssumption`, `TransactionAssumption` (known faults and extensions, a
bound on transactions), `ParamsAssumption` (numbered positions, known kinds),
`ResourcesAssumption` (the connection, the statements and the streams are
different things), `ParamDataAssumption` (a table has rows of one width, and the cells of
a column are NULL or of one kind: `populate_cell_placeholder` and
`send_data_packet` convert each cell to what the column was bound as), `FieldAssumption` (the buffers are multiples of four bytes, the limit and
the sizes are natural numbers), `ConnectAssumption` (what a host and a request
are), `DiagnosticsAssumption` (what a diagnostic record is),
`PoolAssumption` (finitely many threads, a pool for at least one),
`QuotingAssumption` (a bound on the length of a value) and
`TokenCacheAssumption`. The last one says that `CPTimeout + MaxDisconnect` is at
most the TTL: the TTL is twice CPTimeout and at least 120 seconds, so this is a
disconnect that takes no longer than CPTimeout, or a minute if that is less; a
longer one is outside the guarantee.

Seven theorems of the statements and the parameters have a hypothesis, each
because the code breaks the property without it (see [disagreements](#where-the-code-and-its-comments-disagree)):
no cursor is buffered, since a buffer that cannot be built leaves the cursor
open and no result object; describing a column does not fail, since that leaves
the metadata short; the script does not cancel while a stream is awaited, since
`current_param` stays. Three of the values have one. `Faithful` conversions are
those of the driver, and those of the row cache but text of the code page as
wide characters and text as binary, which the code gets wrong: they are
exactly the run's `Sound`. A packet has room for the bytes that complete its
last character, and for a piece of a string: the buffer of `send_data_packet`
is one byte longer than PHP's, a packet asks for three bytes less than it has,
and a piece is at most PHP's buffer (`core_stmt.cpp` 2607-2645, 3676-3692). These are the
settings of the runs, too.

The arguments:

- *Statement* (`StatementProofs`). Its first lemmas state what every ODBC
  operator returns for every handle. `RowsInOrder` is not
  inductive: that the k-th row told is the k-th row of the result holds only if
  the flags say at every moment where the ODBC cursor stands. `Safe` adds that
  (`Place`), that nothing was told of a result before it was there (`NothingYet`,
  `NothingTold`), that a forward-only statement never reads from a buffer
  (`ReadsFromOdbc`) and that no field was read of a row that was only looked at
  (`NoFieldRead`). `FreshRow` and `NoRowsWhileSending` are proved and not run:
  they follow from a statement's reset and would say little on an instance.
- *Scrolling and buffers* (`StatementProofs`). `CurrentRowExists` and
  `BufferedAgrees` need one invariant, `Placed`: the result object is of its
  cursor's kind and a buffer has the rows of the current result (`ObjectFits`),
  the handle is within its result (`HandleFits`), and the flags say whether a
  cursor is in front of the rows, behind them or on one (`RowFits`,
  `RowIsThere`). For it every action is shown to be one of four: it leaves the
  script's place (`StaysPut`), it starts a result or has none (`Leaves`), it
  fetches in one direction (`Reaches(to)`), or it looks for a first row
  (`Looked`). From the same four follow the action property `HasRowsHonest` and
  the refinement: `StaysPut` is a `Look` or a `SayError`, `Leaves` a `Move` or
  `Nothing`, `Reaches(to)` a `HandRow`, `SayEnd`, `Jump` or `SayError`, and
  `Looked` a `Look` or a `StartOver`.
- *Missing objects and columns* (`StatementProofs`). `NoneMissing` adds to
  `NullOnlyToContinue` that an executed statement without a result object is one
  with `BatchErrorContinue`; the theorem is of the first such call, since the
  property asks for a step that begins it. `ColumnsKnown` adds to `WholeRow` that
  nothing is kept of columns while data is still being sent. Flushing and
  draining have an invariant of their own (`NothingLeft`).
- *PDO statement* (`PdoStatementProofs`). `Base` has the types and, for
  `CacheIsPrefix`, that a row fetched ahead lies behind the end of what PDO may
  fetch (`NotAhead`), since such a fetch would keep the place of the row before.
  It needs no hypothesis. `InStep` and `NoAssertFails` need a second invariant,
  `Follows`, on top of it: a kept column count is the current result's
  (`CountFits`), which is what PDO is told; a statement that was not executed or
  is behind its last result has no open cursor (`CursorGone`), which makes a
  closed one ready; a result without an object is known to have no columns by
  the time PDO may fetch (`ObjectMissing`), so that the fetch is refused before
  it looks for the object; PDO's columns, in each phase of an execution
  (`ColumnsFollow`, of which a refused description is a case of its own); and
  the columns still to be read belong to a row that is
  there (`RowFollows`), so that by `CacheIsPrefix` no skipped column is cached.
- *Quoted values* (`PdoStatementProofs`). Once the server has read what was
  written of the first i characters of a value, it has exactly these and no
  quote waits for a second (`BodyRead`, carried over the characters by
  `UpTheNumbers`): a character costs one character or two, and what was written
  before it stays (`DoubledGrows`). What stands between the outer quotes is that
  text, whatever mark is in front (`Framed`, `BetweenQuotes`).
- *Parameters*. `InputsLive` speaks of the moment of an execution only. The
  invariant says for each phase what ODBC, the records and the flags may be
  (`AtFlush`, `AtBind`, `AtRun`, `AtSend`, `AtNeed`, `AtResults`, `AtReady`);
  what ODBC may still write to is bound, and held unless all outputs went early
  (`HeldOutputs`, `Writable`), so no output can be freed before the results are
  over; a derived type is that of the value
  last bound (`TypesOfInputs`); and an output that is still held was not handed
  over, nor was one behind an output that cannot be read (`Orderly`).
- *Data being sent* (`ValueProofs`). `SentInStep` speaks of the end, so `IInv`
  says for each moment what has been sent: of the current cell the first `pos`
  bytes (`CellSoFar`), of the current row the cells in front of the one asked
  for (`RowSoFar`), of the rows above it everything (`RowsSoFar`), with the
  row of every column counted against the table's (`CellCounts`). That a column
  is sent at execution in every row or in none follows from the assumption that
  a column is of one kind (`TableShape`). The lengths are sums over a text. They exist and grow
  with every character by at most four (`SumsExist`, `MissingFound`), which is
  what lets `calc_utf8_missing` find the end of a cut character within three
  bytes, for `PacketsWhole`.
- *Values in pieces* (`ValueProofs`). A value is 1, 2, ..., n, so that what was
  received is right when it is `Value(k)` for the k received. `FieldInv` says
  so of the buffer of each loop: of the row cache while it reads, with what it
  will ask for next (`Collected`); of what it keeps (`Kept`); of the string
  while it grows and of its rest (`Assembled`); of the stream (`Streamed`),
  which is also where the bytes that may be missing at the end are bounded.
  A string that was cut has the initial length behind it, or is
  outside of what is claimed (`FirstFits`); the padding is what a guess that is
  too low may take. `FreshCache` and `NotBegun` say that a cache is read into an empty buffer, and
  that a source is at its start when a string or a stream begins. The arithmetic is of
  lengths in bytes that are multiples of a unit of one, two or four.
- *Errors* (`ConnectProofs`). A handler's lists come from three nested
  recursions: records of a handle, checks of a function, calls before it. Each
  is a function over 0 .. n that satisfies its step (`Stepwise` of
  `Induction`), and what is claimed of it is carried from one number to the
  next by `UpTheNumbers`: after each check the lists hold only readable
  records, as many as there were to tell, and a check that was passed over
  left no error; a buffered result set keeps an own error exactly when the last
  of its calls failed (`Stands`). `FirstErrorIn` of `PDO::exec` and `Readable`
  are least numbers.
- *Resources*. The invariant lists the stacks that can occur: under the work on
  one statement (`Working`) there is only the script, the opening of its stream,
  the connection that closes its statements, or the end of the request
  (`Bases`); all other statements are `AtRest`, that is, their references are
  those of the script and their streams. The steps of the destructors are then
  steps from one of the listed stacks to another.
- *Transactions*. `Agreement` relates flag, mode and open work while the
  connection is in use; `EndedMeansEnded` and `ClosedClean` join the invariant
  because they speak of the last call, which every later call replaces. The
  action property follows from the invariant: the steps that turn autocommit
  on find nothing open, since they are reached only after a successful
  `SQLEndTran`.
- *Connecting*. What is held follows the phase (`HandleFollows`, `Quiet`). The
  string has each keyword once (`Single` of `At`), because an option's treatment
  adds at most its own keyword and the table of options that were given has no key
  twice (`Distinct`); `Written` says which keywords the phase has reached, and
  `WholeSent` that every attempt sent all of them, which for the second and third
  driver is the copy. `Identity` relates tokens and strings: the fingerprint in a
  connection string is the one of the token it was or will be connected with, for
  the attempt, the open connection and every pooled one, so that two connections
  with equal strings have equal tokens. `Searched` has the drivers that were
  tried.
- *Token cache*. One entry for each content and each allocation (`CacheOK`);
  what a connection holds was allocated for its token (`HolderOK`); while it
  closes, the entry was used since the close began (`CloseOK`); a pooled
  connection arrived within `MaxDisconnect` of such a use and stays for
  `CPTimeout` (`PooledOK`), so the TTL cannot have run out. `CacheStep` is all
  that the other connections and the pool need to know of a lookup or a touch.
- *Converter pool*. The lock excludes because only the thread inside it changes
  `Mutex`; what a thread read of the list under the lock then stays true until
  it leaves, and what it read before the lock is never relied on. From that, an
  entry is in the list or with one thread; `NoMoreThanThreads` counts threads
  without a converter, and each pushed entry comes from a thread that just
  became one. `ListShape` ranks the entries that wait, each one above the next,
  so that the list has no cycle and reaches every entry; an entry that is pushed
  gets a rank above all. The refinement is proved from the invariant: `Unlink`
  is a `Borrow`, `SetHead` and a close are a `Return`, the rest stutters.

The library's induction theorems take a predicate as an operator, which the
provers cannot use. `Induction` has what is needed of them with a set in the
place of the predicate and a function in the place of the step: a nonempty set
of numbers has a least one (`LeastNumber`, from the well-founded order of
finite sets), a set that has 0 and, with each number up to n, the next one has
all of them (`UpTheNumbers`), and a first value and a step make a function
(`StepwiseExists`). It needs each recursion to be a function up to a bound, and
so serves no RECURSIVE operator.

Only model-checked: liveness (`FlushTerminates`, `LoopsEnd`, `ReadEnds`,
`SendingEnds`), which TLAPS 1.4.5 does not prove under fairness, and
`ConvertedWhole`, the placeholders in `EmulationFaithful` and `DataSourceRead`,
facts about texts whose definitions (`Utf`, `EmulatedPrepare`, `DsnParser`) are
RECURSIVE, which the provers cannot expand.

## Where the code and its comments disagree

`FlushForever` has a run of its own (an expected violation; `PROJECT.json`
"findings" quotes the line), the next six a configuration that ends with the
counterexample:

- `FlushForever`: with `SendStreamParamsAtExec` off, executing again while ODBC
  still asks for data never leaves the flush loop (`sqlsrv/stmt.cpp:295`).
- `RowZero`: `SQL_FETCH_RELATIVE` 0 before the first row of a buffered cursor
  succeeds, and reading a field ends the script in `get_row`'s assertion
  (`core_results.cpp:722`). `CurrentRowExists` excepts that place
  (`stayed`), and `HasRowsHonest` a buffer without rows where it happened
  (`Deceived`).
- `HalfDescribed`: when describing a later column fails, the metadata vector
  stays short, and the next fetch takes its size for the number of columns
  (`sqlsrv/stmt.cpp:1831`).
- `BufferFails`: a buffered result that could not be built leaves the cursor
  open with `executed` false (`core_stmt.cpp:526`), and the next execution is
  not preceded by a flush (`sqlsrv/stmt.cpp:292`). `Forward`, which checks
  `SkippedFlushIsSafe`, has no buffered cursor.
- `DescribeFails`: the same in PDO, where a fetch then fails the assertion of
  `pdo_sqlsrv_stmt_get_col_data` (`pdo_stmt.cpp:808`); `NoAssertFails` excepts
  a result of which a column was refused.
- `EarlyOutputs`: outputs are finalized after the first result if that has no
  columns and no affected rows (`core_stmt.cpp:515`), although
  `core_stmt.cpp:3701` says "after all results are processed". `OutputsArrive`
  asks that each was handed over once, not that the driver had written it.
- `DisplaySize`: behind a first piece of the display size, the rest is put at
  the initial length (`core_stmt.cpp:1842`); `ValueWhole` claims strings whose
  first piece `Fits`.

Each of the following shows as a counterexample when the exclusion that is
named, or that the run's constants make, is taken away.

Statement and result sets:

- The destructor stops draining at the first failed statement of a batch
  (`sqlsrv/stmt.cpp:1350`), though its comment says why it must not;
  `DrainStopsOnlyAtErrors` excludes that case.
- After `BatchErrorContinue` reported a failed statement,
  `sqlsrv_rows_affected` and a fetch use a `current_results` that is NULL
  (`sqlsrv/stmt.cpp:628`); `NullOnlyToContinue` bounds where.
- After `sqlsrv_has_rows`, a fetch that follows `sqlsrv_cancel` still returns
  the row that was fetched ahead (`core_stmt.cpp:590`, against
  `test/functional/sqlsrv/TC35_Cancel.phpt:35`).
- The flush over a failed statement fails for a buffered cursor
  (`core_stmt.cpp:1053`, against
  `test/functional/sqlsrv/sqlsrv_batch_error_continue.phpt:112`).
- A step back to before the first row that fails in `sqlsrv_has_rows` is told as
  an error, and the cursor stays on the row (`sqlsrv/stmt.cpp:1805`).
- `sqlsrv_has_rows` moves a scrollable cursor that ran past the end back before
  the first row (`sqlsrv/stmt.cpp:1805`, against the comment one line above);
  `HasRowsHonest` excludes that case.

PDO statement: a `bindColumn` after a lazy fetch, and `getColumnMeta` of a
column that was not described, run into an assertion or a NULL pointer
(`NoAssertFails` leaves the two calls out); a column may be given with the type
it was bound with for an earlier result; a buffered cursor closed after a
failed statement still has results, and a fetch behind an execution that failed
to build a buffer, on a statement executed before, looks for a result object
that is not there (`core_stmt.cpp:596`).

Values in pieces:

- A driver's guess that is too low by more than the padding of 50 bytes leaves
  the string short, with a warning (`core_stmt.cpp:1834`); `ValueWhole` excludes
  it by `Padded`.
- A stream read takes a length equal to the space asked for as the end
  (`core_stream.cpp:120`): where a terminator takes part of the space, the last
  byte or character is lost. `StreamInOrder` claims all but the place of one
  terminator.
- The row cache's conversion of text of the code page to wide characters tells
  the length of the converted text by the unconverted rest (`MCField`'s
  `Widened`); text read as binary counts the terminator in. Both are outside
  `Sound`.
- A UTF-8 stream whose value is empty ends in a translation error; a packet may
  end between the surrogates of a character (`core_stream.cpp:164`); a buffered
  3.7 read as an integer gives 0; reading a buffered field again never answers
  "no data".

Parameters:

- Cancelling while a stream is awaited leaves `current_param`, and the next
  execution sends a packet before ODBC asked for one (`CancelSends`).
- A position first bound to an integer keeps `SQL_INTEGER` for a string later.
  Re-execution before the results are consumed binds a raw output buffer anew.
- `convert_input_str_to_utf16` drops its old placeholder without freeing it;
  `get_tvp_metadata` overwrites `tvp_columns`; `sqlsrv_send_stream_data` with
  nothing awaited ends in a sequence error that drops the parameters.

Transactions and tokens:

- A failing commit clears `in_transaction` all the same (`sqlsrv/conn.cpp:966`);
  the connection stays in manual-commit mode, the commit cannot be retried, and
  later statements are neither in a transaction nor committed. After a failed
  rollback in sqlsrv, a later begin and commit commit the earlier work as well.
  `OpenWorkIsCurrent` excludes both by `broken`.
- The entry of a connection that is open for longer than the TTL expires
  (`core_conn.cpp:139`), though the comment says it lives until after the last
  close; `PooledTokensLive` is of pooled connections only.
- A comment says that the token is touched after `SQLDisconnect`
  (`core_conn.cpp:197`); the code touches it before, and says why at 643.

Connecting:

- A connect that fails after `SQLDriverConnect` succeeded frees a connected
  handle without `SQLDisconnect` (`handle = "leaked"`); PDO's failed constructor
  leaves `g_pdo_henv`'s driver pointer at the failed object.
- In a data source name, a bare value may hold a single `}` that the connection
  options would have to double.
- A pooled connection on Linux has an unknown server version.

Texts: behind a quoted literal the scan for placeholders stays on the closing
quote, and misses the placeholders that follow (`SeenAsByPDO` claims those in
front of it); the internal pointer advances for strings only, and is reset by
an execution only; `quote` without a statement casts its statement's data to
a connection; the lenient conversion to UTF-8 hides that its room was exactly
filled behind a lone surrogate, and a high surrogate followed by something else
is replaced without being told.

Errors: a buffered result set's error of its last call is told in the place of
a later ODBC error (`core_results.cpp:855`; `OwnErrorTold` excludes it);
records behind one that cannot be read are lost; a driver error also takes
along whatever records the handle still has; `PDO::exec` ignores the rest of a
batch whose first result changed nothing (`pdo_dbh.cpp:1040`); the error of a
failed `PDO::prepare` stays with the statement that is destroyed
(`pdo_dbh.cpp:962`).

## What is not modelled

Transactions that T-SQL text opens by itself (`BEGIN TRAN`), so that "in a
transaction" means what the extension knows. Reuse of a freed address by
`malloc`. Allocation failures, which end the process; behind one, the catch
block of a connect calls through a null pointer (`core_conn.cpp:469`), and
those of `PDO::exec` and `lastInsertId` (`pdo_dbh.cpp:1062`, `1745`) through a
statement that was not created. Weak memory: each access of the converter pool
is atomic and in order. What the script does to a variable while an output has
hold of it, and what the driver still writes to one that was handed over early.

In the statement: `row_count`, `sqlsrv_field_metadata` and `sqlsrv_num_fields`
(they fill the same caches `sqlsrv_get_field` fills), and the values
themselves. In PDO: attributes that store a value, `PDO::exec` and
`lastInsertId` as sequences of calls, scrollable cursors (the same
`core_sqlsrv_fetch`, which the module takes but the run does not ask for; the
proofs hold for them), a column without a name. In the parameters: the shape of the PHP arrays of a table
(`core_stmt.cpp` 3108-3190 and 3215-3320), date and time text, a position that
was a table and then a scalar, Always Encrypted's descriptions, non-seekable
streams, which fail at their end with no error queued. In values: the length the driver tells when
it makes wide characters of narrow ones, which is taken as exact; numbers
converted in one piece, dates, decimal formatting. In resources: a
`sqlsrv_query` that fails after its resource was registered; a stream whose
variable is dropped without `fclose` keeps its statement until the connection
closes, which is modelled and is no error. In connecting: wording, encoding of
the string; the fingerprint of a token is taken as injective. In encodings:
iconv, and the code pages it serves.

Components without a module, with the reason, are in `PROJECT.json`: the wide
printf and the public driver headers have no protocol of their own.

## Plan

Done, with proofs: the statement, the PDO statement, parameters, resources,
transactions, connecting, errors, the token cache, the converter pool, values
in pieces, data being sent. Done, with runs only: parsers, encodings.

Left, in order of importance:

1. **Proofs.** The parsers and the encodings as functions over 0 .. n instead of
   RECURSIVE operators; then, by `Induction`, that a
   data source name is read as its grammar says, and a conversion from UTF-8 to
   UTF-16 and back is the identity on well-formed text.
2. **Model.** A `PDOStatement` as another implementation of `ResultReader`;
   `PDO::exec` and `lastInsertId`; the destruction of the token cache at module
   shutdown; numbers converted by the row cache.
