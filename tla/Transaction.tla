---------------------------- MODULE Transaction ----------------------------
(***************************************************************************)
(* The transaction calls of both extensions over the same core: what they  *)
(* know of the transaction (in_transaction, PDO's in_txn), the mode of the *)
(* ODBC connection, and the work of the statements executed in between.    *)
(*                                                                         *)
(* sqlsrv keeps the flag itself; PDO keeps it for pdo_sqlsrv, sets it when *)
(* the handler succeeded and leaves it when the handler failed.            *)
(***************************************************************************)
EXTENDS OdbcConnection

CONSTANTS Apis,      \* {"sqlsrv", "pdo_sqlsrv"}: the extensions to consider
          Streams,   \* {}, or {"stream"} if statements may be sent packet by packet
          MaxTxns    \* bound on the transactions begun on one connection

ASSUME TransactionAssumption == /\ Apis \subseteq {"sqlsrv", "pdo_sqlsrv"}
                                /\ MaxTxns \in Nat \ {0}

VARIABLES api,             \* the extension the connection belongs to
          in_transaction,  \* what the extension, or PDO, believes
          closed,          \* the connection resource was destroyed
          dbc,             \* the ODBC connection
          txns,            \* history: transactions begun so far
          broken,          \* history: a commit or a rollback of sqlsrv failed
          call             \* the last function and what it returned

vars == <<api, in_transaction, closed, dbc, txns, broken, call>>

Calls == [fn : {"none", "link lost", "connect", "begin", "commit", "rollback", "query", "send",
                "free", "close"},
          r : Results \cup {"refused"}]

TypeOK == /\ api \in Apis
          /\ in_transaction \in BOOLEAN /\ closed \in BOOLEAN /\ broken \in BOOLEAN
          /\ dbc \in Connections
          /\ txns \in 0 .. MaxTxns
          /\ call \in Calls

(* What ODBC answered, or "refused" when the extension asked nothing: true *)
(* is returned for "ok", and always by a close.                            *)
Returns(fn, r) == call' = [fn |-> fn, r |-> r]

(* The transaction a statement executed now is part of.                    *)
Current == IF in_transaction THEN txns ELSE 0

Init == /\ api \in Apis
        /\ in_transaction = FALSE /\ closed = FALSE /\ broken = FALSE
        /\ dbc = Connected
        /\ txns = 0
        /\ call = [fn |-> "connect", r |-> "ok"]

(* core_sqlsrv_commit and core_sqlsrv_rollback: end the transaction, then  *)
(* turn autocommit on; a failure of the first skips the second.            *)
EndAndReturn(d, state) ==
  LET ended == SQLEndTran(d, state) IN
  { o \in ended : ~Succeeded(o) } \cup UNION { SQLSetConnectAttr(o.dbc, TRUE) : o \in { e \in ended : Succeeded(e) } }

core_sqlsrv_commit(d) == EndAndReturn(d, "committed")

(* Mutant: autocommit is turned on before the transaction is ended.        *)
RollbackTurnsOnFirst(d) ==
  UNION { SQLEndTran(o.dbc, "gone") : o \in SQLSetConnectAttr(d, TRUE) }

core_sqlsrv_rollback(d) == EndAndReturn(d, "gone")

core_sqlsrv_begin_transaction(d) == SQLSetConnectAttr(d, FALSE)

(* Refused in a transaction; the flag follows the core call.               *)
BeginRefused == /\ ~closed /\ in_transaction
                /\ Returns("begin", "refused")
                /\ UNCHANGED <<api, in_transaction, closed, dbc, txns, broken>>

begin_transaction ==
  /\ ~closed /\ ~in_transaction
  /\ txns < MaxTxns
  /\ \E o \in core_sqlsrv_begin_transaction(dbc) :
       /\ dbc' = o.dbc
       /\ in_transaction' = Succeeded(o)
       /\ txns' = IF Succeeded(o) THEN txns + 1 ELSE txns
       /\ Returns("begin", o.r)
  /\ UNCHANGED <<api, closed, broken>>

EndRefused == /\ ~closed /\ ~in_transaction
              /\ \E fn \in {"commit", "rollback"} : Returns(fn, "refused")
              /\ UNCHANGED <<api, in_transaction, closed, dbc, txns, broken>>

(* sqlsrv_commit and sqlsrv_rollback clear the flag before the core call.  *)
SqlsrvEnds(fn, outcomes) ==
  /\ api = "sqlsrv" /\ ~closed /\ in_transaction
  /\ in_transaction' = FALSE
  /\ \E o \in outcomes : /\ dbc' = o.dbc
                         /\ broken' = (broken \/ ~Succeeded(o))
                         /\ Returns(fn, o.r)
  /\ UNCHANGED <<api, closed, txns>>

sqlsrv_commit   == SqlsrvEnds("commit", core_sqlsrv_commit(dbc))
sqlsrv_rollback == SqlsrvEnds("rollback", core_sqlsrv_rollback(dbc))

(* Mutant: the flag of PDO is cleared first, as sqlsrv does.               *)
PdoEndsFirst(fn, outcomes) ==
  /\ api = "pdo_sqlsrv" /\ ~closed /\ in_transaction
  /\ in_transaction' = FALSE
  /\ \E o \in outcomes : dbc' = o.dbc /\ Returns(fn, o.r)
  /\ UNCHANGED <<api, closed, txns, broken>>

(* PDO clears its flag only when the handler says that it succeeded.       *)
PdoEnds(fn, outcomes) ==
  /\ api = "pdo_sqlsrv" /\ ~closed /\ in_transaction
  /\ \E o \in outcomes : /\ dbc' = o.dbc
                         /\ in_transaction' = ~Succeeded(o)
                         /\ Returns(fn, o.r)
  /\ UNCHANGED <<api, closed, txns, broken>>

pdo_sqlsrv_dbh_commit   == PdoEnds("commit", core_sqlsrv_commit(dbc))
pdo_sqlsrv_dbh_rollback == PdoEnds("rollback", core_sqlsrv_rollback(dbc))

(* A statement is executed; only sqlsrv lets the script send stream data.  *)
Execute ==
  /\ ~closed
  /\ \E s \in Stmts :
       /\ \A x \in dbc.sending : x.stmt # s
       /\ \E o \in SQLExecDirect(dbc, s, Current, IF api = "sqlsrv" THEN Streams ELSE {}) :
            dbc' = o.dbc /\ Returns("query", o.r)
  /\ UNCHANGED <<api, in_transaction, closed, txns, broken>>

(* sqlsrv_send_stream_data until its last packet.                          *)
SendStreamData ==
  /\ ~closed
  /\ \E x \in dbc.sending : \E o \in SQLPutData(dbc, x) :
       dbc' = o.dbc /\ Returns("send", o.r)
  /\ UNCHANGED <<api, in_transaction, closed, txns, broken>>

(* sqlsrv_cancel or sqlsrv_free_stmt on a statement that is being sent.    *)
GiveUpStatement ==
  /\ ~closed
  /\ \E x \in dbc.sending : dbc' = NotSending(dbc, x.stmt)
  /\ Returns("free", "ok")
  /\ UNCHANGED <<api, in_transaction, closed, txns, broken>>

(* Mutant: the statements are destroyed after the connection was closed.   *)
CloseStmtsLater(d) == d

(* The destructor of the connection destroys its statements first, so that *)
(* none is in the way of the rollback.                                     *)
sqlsrv_conn_close_stmts(d) == [d EXCEPT !.sending = {}]

(* Whether the rollback succeeded is not looked at.                        *)
core_sqlsrv_close(d) == { Outcome(o.r, SQLDisconnect(o.dbc)) : o \in SQLEndTran(d, "gone") }

sqlsrv_close ==
  /\ api = "sqlsrv" /\ ~closed
  /\ \E o \in core_sqlsrv_close(sqlsrv_conn_close_stmts(dbc)) :
       dbc' = o.dbc /\ Returns("close", o.r)
  /\ closed' = TRUE
  /\ UNCHANGED <<api, in_transaction, txns, broken>>

(* PDO rolls back what it believes to be in progress before it closes.     *)
pdo_sqlsrv_dbh_close ==
  /\ api = "pdo_sqlsrv" /\ ~closed
  /\ \E first \in IF in_transaction THEN core_sqlsrv_rollback(dbc) ELSE { Outcome("ok", dbc) } :
       \E o \in core_sqlsrv_close(first.dbc) : dbc' = o.dbc /\ Returns("close", o.r)
  /\ closed' = TRUE /\ in_transaction' = FALSE
  /\ UNCHANGED <<api, txns, broken>>

(* The link to the server breaks between two calls.                        *)
LinkLost ==
  /\ "link" \in Faults /\ ~closed /\ dbc.alive
  /\ dbc' = Broken(dbc, "gone")
  /\ Returns("link lost", "ok")
  /\ UNCHANGED <<api, in_transaction, closed, txns, broken>>

Next == \/ BeginRefused \/ begin_transaction
        \/ EndRefused
        \/ sqlsrv_commit \/ sqlsrv_rollback
        \/ pdo_sqlsrv_dbh_commit \/ pdo_sqlsrv_dbh_rollback
        \/ Execute \/ SendStreamData \/ GiveUpStatement
        \/ sqlsrv_close \/ pdo_sqlsrv_dbh_close
        \/ LinkLost

Spec == Init /\ [][Next]_vars
=============================================================================
