--------------------------- MODULE OdbcConnection ---------------------------
(***************************************************************************)
(* The ODBC connection handle (HDBC) and the server behind it, as far as   *)
(* transactions go: EXTERNAL.  No line of it is in this repository; each   *)
(* operator gives the outcomes its callers under source/ are written for.  *)
(*                                                                         *)
(* A connection is a record.  "work" holds what the statements executed on *)
(* it did, each with the transaction the script was in when it executed it *)
(* (0: none); "sending" the statements whose stream data the script still  *)
(* sends, whose work is not done yet.                                      *)
(***************************************************************************)
EXTENDS Naturals

CONSTANTS Stmts,    \* statement handles
          Faults    \* ODBC calls that may fail on a connection that is alive

ASSUME ConnectionAssumption ==
  Faults \subseteq {"SQLEndTran", "SQLSetConnectAttr", "link"}

Works == [txn : Nat, state : {"open", "committed", "gone"}]

Connections == [connected : BOOLEAN, alive : BOOLEAN, autocommit : BOOLEAN,
                work : SUBSET Works, sending : SUBSET [stmt : Stmts, txn : Nat]]

Connected == [connected |-> TRUE, alive |-> TRUE, autocommit |-> TRUE,
              work |-> {}, sending |-> {}]

OpenWork(d)     == { w \in d.work : w.state = "open" }
Ended(d, state) == { w \in d.work : w.state # "open" }
                     \cup { [txn |-> w.txn, state |-> state] : w \in OpenWork(d) }

(* The server ends what an unreachable client left open.                   *)
Broken(d, state) == [d EXCEPT !.alive = FALSE, !.sending = {}, !.work = Ended(d, state)]

(* What a call answers: "sequence" when it was out of sequence or the link *)
(* is dead, "error" when it failed for reasons of its own.                 *)
Results        == {"ok", "sequence", "error"}
Outcome(r, d)  == [r |-> r, dbc |-> d]
Succeeded(o)   == o.r = "ok"

(* Functions of the connection are out of sequence while a statement of it *)
(* waits for data (HY010), and fail on a dead link.                        *)
Usable(d) == d.alive /\ d.sending = {}

(* SQL_ERROR leaves the transaction active; a link lost in the middle of   *)
(* the call leaves it ended the way that was asked for, or undone.         *)
SQLEndTran(d, state) ==
  IF ~Usable(d) THEN { Outcome("sequence", d) }
  ELSE { Outcome("ok", [d EXCEPT !.work = Ended(d, state)]) }
         \cup { Outcome("error", d) : f \in Faults \cap {"SQLEndTran"} }
         \cup { Outcome("error", Broken(d, s)) : f \in Faults \cap {"link"}, s \in {state, "gone"} }

(* Turning autocommit on commits a transaction that is still open.         *)
SQLSetConnectAttr(d, on) ==
  IF ~Usable(d) THEN { Outcome("sequence", d) }
  ELSE { Outcome("ok", [d EXCEPT !.autocommit = on,
                                 !.work = IF on THEN Ended(d, "committed") ELSE d.work]) }
         \cup { Outcome("error", d) : f \in Faults \cap {"SQLSetConnectAttr"} }

(* A statement that was designated as part of transaction n does its work: *)
(* it is committed at once, or stays open in manual-commit mode.           *)
Done(d, n) ==
  [d EXCEPT !.work = @ \cup { [txn |-> n, state |-> IF d.autocommit THEN "committed" ELSE "open"] }]

(* SQLExecDirect and SQLExecute: the work is done, the driver asks for     *)
(* stream data first, the statement fails, or it fails and the server      *)
(* undoes the transaction it is in (a deadlock, XACT_ABORT).               *)
SQLExecDirect(d, s, n, streams) ==
  IF ~d.alive THEN { Outcome("sequence", d) }
  ELSE { Outcome("ok", Done(d, n)), Outcome("error", d),
         Outcome("error", [d EXCEPT !.work = Ended(d, "gone")]) }
         \cup { Outcome("ok", [d EXCEPT !.sending = @ \cup { [stmt |-> s, txn |-> n] }]) :
                  x \in streams }

(* SQLPutData of the last packet; SQLFreeHandle and SQLCancel give up the  *)
(* statement, and what it waited for with it.                              *)
NotSending(d, s) == [d EXCEPT !.sending = { x \in @ : x.stmt # s }]
SQLPutData(d, x) ==
  LET rest == NotSending(d, x.stmt) IN
  IF ~d.alive THEN { Outcome("sequence", d) }
  ELSE { Outcome("ok", Done(rest, x.txn)), Outcome("error", rest),
         Outcome("error", [rest EXCEPT !.work = Ended(rest, "gone")]) }

(* A connection with a transaction in progress does not disconnect (25000).*)
SQLDisconnect(d) ==
  IF OpenWork(d) = {} THEN [d EXCEPT !.connected = FALSE] ELSE d

=============================================================================
