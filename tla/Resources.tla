------------------------------ MODULE Resources ------------------------------
(***************************************************************************)
(* Who keeps whom alive in sqlsrv: a connection with the table of its      *)
(* statements, the statements, and the streams their fields are read       *)
(* through; and the destructors, which call one another.                   *)
(*                                                                         *)
(* The table points to the resources of the statements without counting; a *)
(* stream counts as a reference to the resource of its statement; a        *)
(* statement counts as a reference to its active stream, so a stream whose *)
(* variable is dropped stays open.  A call of the script pushes what it    *)
(* runs on a stack, and the step on top of it is taken until all is done.  *)
(***************************************************************************)
EXTENDS Naturals, Sequences

CONSTANTS Stmts,      \* the statements the script makes, in that order: 1 .. n
          Streams,    \* the streams it opens
          NoStream,   \* IS_UNDEF
          Conn        \* the connection

ASSUME ResourcesAssumption ==   \* the variables of the script are different things
  /\ Stmts \subseteq Nat /\ NoStream \notin Streams
  /\ Conn \notin Stmts \cup Streams /\ Stmts \cap Streams = {}

VARIABLES conn,     \* "open", "closed"
          table,    \* conn->stmts
          stmt,     \* the statements: mem, whether conn # NULL, active_stream
          res,      \* their resources: "none", "live", "closed" (type -1), "freed"
          refs,     \* how many references each resource counts
          ss,       \* the streams: "none", "open", "freed"
          of,       \* ss->stmt
          script,   \* what the script has variables of
          stack,    \* what runs
          call,     \* the call of the script it runs for
          wrong     \* history: something that was freed was used, or freed again

vars == <<conn, table, stmt, res, refs, ss, of, script, stack, call, wrong>>

Frames == [op : {"active", "open", "destroy", "dtor", "close", "delete", "release"}, s : Stmts,
           x : Streams \cup {NoStream}]
          \cup [op : {"stream"}, x : Streams]
          \cup [op : {"stmts"}, left : SUBSET Stmts]
          \cup [op : {"disconnect", "shutdown"}]

TypeOK ==
  /\ conn \in {"open", "closed"} /\ table \subseteq Stmts
  /\ stmt \in [Stmts -> [mem : {"none", "alloc", "freed"}, conn : BOOLEAN,
                         active : Streams \cup {NoStream}]]
  /\ res \in [Stmts -> {"none", "live", "closed", "freed"}]
  /\ refs \in [Stmts -> 0 .. 2]   \* a variable, and the one stream that is open
  /\ ss \in [Streams -> {"none", "open", "freed"}] /\ of \in [Streams -> Nat]
  /\ script \subseteq {Conn} \cup Stmts \cup Streams
  /\ stack \in Seq(Frames)
  /\ wrong \in BOOLEAN

Init ==
  /\ conn = "open" /\ table = {}
  /\ stmt = [s \in Stmts |-> [mem |-> "none", conn |-> FALSE, active |-> NoStream]]
  /\ res = [s \in Stmts |-> "none"] /\ refs = [s \in Stmts |-> 0]
  /\ ss = [x \in Streams |-> "none"] /\ of = [x \in Streams |-> 0]
  /\ script = {Conn} /\ stack = << >> /\ call = "none" /\ wrong = FALSE

F(op, s)   == [op |-> op, s |-> s, x |-> NoStream]
Allocated(s) == stmt[s].mem = "alloc"
-----------------------------------------------------------------------------
(* What runs.  Needs(C): what is used is there.                            *)

Top(op) == stack # << >> /\ Head(stack).op = op
Then(frames) == stack' = frames \o Tail(stack)
Needs(c) == wrong' = (wrong \/ ~c)

(* close_active_stream.                                                    *)
close_active_stream ==
  /\ Top("active")
  /\ LET s == Head(stack).s
     IN /\ Needs(Allocated(s))
        /\ Then(IF stmt[s].active = NoStream THEN << >>
                ELSE << [op |-> "stream", x |-> stmt[s].active] >>)
  /\ UNCHANGED <<conn, table, stmt, res, refs, ss, of, script, call>>

OpensUnheld == UNCHANGED refs   \* mutant of Held

(* The stream holds a reference to its statement.                          *)
Held == refs' = [refs EXCEPT ![Head(stack).s] = @ + 1]

(* core_get_field_common and convert_to_zval: a field as a stream.         *)
OpenStream ==
  /\ Top("open")
  /\ LET s == Head(stack).s
         x == Head(stack).x
     IN /\ Needs(Allocated(s) /\ res[s] = "live")
        /\ ss' = [ss EXCEPT ![x] = "open"] /\ of' = [of EXCEPT ![x] = s]
        /\ stmt' = [stmt EXCEPT ![s].active = x]
        /\ script' = script \cup {x}
  /\ Held
  /\ Then(<< >>)
  /\ UNCHANGED <<conn, table, res, call>>

Forgets(s) == << >>   \* mutant of LetsGo

(* The last thing a stream does is to let go of its statement.             *)
LetsGo(s) == << F("delete", s) >>

(* sqlsrv_stream_close.                                                    *)
sqlsrv_stream_close ==
  /\ Top("stream")
  /\ LET x == Head(stack).x
         s == of[x]
     IN /\ Needs(ss[x] = "open" /\ Allocated(s))
        /\ stmt' = [stmt EXCEPT ![s].active = NoStream]
        /\ ss' = [ss EXCEPT ![x] = "freed"]
        /\ Then(LetsGo(s))
  /\ UNCHANGED <<conn, table, res, refs, of, script, call>>

(* zend_list_delete: a reference less, and the resource goes with the last *)
(* one.                                                                    *)
zend_list_delete ==
  /\ Top("delete")
  /\ LET s == Head(stack).s
     IN /\ Needs(res[s] \in {"live", "closed"} /\ refs[s] > 0)
        /\ refs' = [refs EXCEPT ![s] = IF @ > 0 THEN @ - 1 ELSE 0]
        /\ Then(IF refs[s] > 1 THEN << >>
                ELSE IF res[s] = "live" THEN <<F("dtor", s), F("release", s)>>
                ELSE <<F("release", s)>>)
        /\ res' = [res EXCEPT ![s] = IF refs[s] <= 1 /\ @ = "live" THEN "closed" ELSE @]
  /\ UNCHANGED <<conn, table, stmt, ss, of, script, call>>

ReleaseResource ==
  /\ Top("release")
  /\ LET s == Head(stack).s
     IN /\ Needs(res[s] = "closed")
        /\ res' = [res EXCEPT ![s] = "freed"]
  /\ Then(<< >>)
  /\ UNCHANGED <<conn, table, stmt, refs, ss, of, script, call>>

(* zend_list_close: the destructor, whoever still has a reference.         *)
zend_list_close ==
  /\ Top("close")
  /\ LET s == Head(stack).s
     IN /\ Needs(res[s] \in {"live", "closed"})
        /\ res' = [res EXCEPT ![s] = IF @ = "live" THEN "closed" ELSE @]
        /\ Then(IF res[s] = "live" THEN << F("dtor", s) >> ELSE << >>)
  /\ UNCHANGED <<conn, table, stmt, refs, ss, of, script, call>>

EntryStays(s) == table   \* mutant of WithoutEntry

(* A statement that still has a connection removes itself from its table.  *)
WithoutEntry(s) == IF stmt[s].conn THEN table \ {s} ELSE table

(* sqlsrv_stmt_dtor; the active stream goes first.                         *)
sqlsrv_stmt_dtor ==
  /\ Top("dtor")
  /\ LET s == Head(stack).s
     IN /\ Needs(Allocated(s) /\ (stmt[s].conn => conn = "open"))
        /\ table' = WithoutEntry(s)
        /\ Then(<< F("active", s), F("destroy", s) >>)
  /\ UNCHANGED <<conn, stmt, res, refs, ss, of, script, call>>

DestroyStatement ==
  /\ Top("destroy")
  /\ LET s == Head(stack).s
     IN /\ Needs(Allocated(s) /\ stmt[s].active = NoStream)
        /\ stmt' = [stmt EXCEPT ![s].mem = "freed"]
  /\ Then(<< >>)
  /\ UNCHANGED <<conn, table, res, refs, ss, of, script, call>>

(* A statement whose connection goes must not look for its table.          *)
Orphaned(s) == [stmt EXCEPT ![s].conn = FALSE]

(* sqlsrv_conn_close_stmts: one entry of the table after the other.        *)
sqlsrv_conn_close_stmts ==
  /\ Top("stmts")
  /\ LET left == Head(stack).left
     IN IF left = {}
        THEN /\ table' = {}
             /\ Then(<< [op |-> "disconnect"] >>)
             /\ UNCHANGED <<stmt, wrong>>
        ELSE LET s == CHOOSE a \in left : \A b \in left : a <= b
             IN /\ Needs(res[s] # "freed" /\ (res[s] = "live" => Allocated(s)))
                /\ IF res[s] = "live"
                   THEN stmt' = Orphaned(s)
                        /\ Then(<< F("close", s), [op |-> "stmts", left |-> left \ {s}] >>)
                   ELSE Then(<< [op |-> "stmts", left |-> left \ {s}] >>) /\ UNCHANGED stmt
                /\ UNCHANGED table
  /\ UNCHANGED <<conn, res, refs, ss, of, script, call>>

(* core_sqlsrv_close: ODBC wants its statements gone.                      *)
core_sqlsrv_close ==
  /\ Top("disconnect")
  /\ conn' = "closed"
  /\ Needs(\A s \in Stmts : ~Allocated(s))
  /\ Then(<< >>)
  /\ UNCHANGED <<table, stmt, res, refs, ss, of, script, call>>

(* PHP closes what is left of a request from the last to the first: a      *)
(* stream was opened after its statement.                                  *)
Shutdown ==
  /\ Top("shutdown")
  /\ LET open == { x \in Streams : ss[x] = "open" }
         live == { s \in Stmts : res[s] = "live" }
     IN \/ \E x \in open : Then(<< [op |-> "stream", x |-> x], Head(stack) >>)
        \/ \E s \in live : /\ \A x \in open : of[x] < s
                           /\ \A r \in live : r <= s
                           /\ Then(<< F("close", s), Head(stack) >>)
        \/ /\ open = {} /\ live = {}
           /\ Then(IF conn = "open" THEN << [op |-> "stmts", left |-> table] >> ELSE << >>)
  /\ UNCHANGED <<conn, table, stmt, res, refs, ss, of, script, call, wrong>>

Runs == \/ close_active_stream \/ OpenStream \/ sqlsrv_stream_close
        \/ zend_list_delete \/ ReleaseResource \/ zend_list_close
        \/ sqlsrv_stmt_dtor \/ DestroyStatement
        \/ sqlsrv_conn_close_stmts \/ core_sqlsrv_close \/ Shutdown
-----------------------------------------------------------------------------
(* What the script does.                                                   *)

Call(name, frames) ==
  /\ stack = << >> /\ call # "shutdown"
  /\ call' = name /\ stack' = frames

(* sqlsrv_prepare, sqlsrv_query: a statement and its resource are made and *)
(* put into the table of the connection.                                   *)
sqlsrv_prepare(s) ==
  /\ Call("prepare", << >>)
  /\ Conn \in script /\ conn = "open"
  /\ res[s] = "none" /\ \A r \in Stmts : r < s => res[r] # "none"
  /\ stmt' = [stmt EXCEPT ![s] = [mem |-> "alloc", conn |-> TRUE, active |-> NoStream]]
  /\ res' = [res EXCEPT ![s] = "live"] /\ refs' = [refs EXCEPT ![s] = 1]
  /\ table' = table \cup {s}
  /\ script' = script \cup {s}
  /\ UNCHANGED <<conn, ss, of, wrong>>

(* sqlsrv_get_field: the stream it opens replaces the one that is open.    *)
sqlsrv_get_field(s, x) ==
  /\ s \in script /\ res[s] = "live" /\ ss[x] = "none"
  /\ Call("get_field", << F("active", s), [op |-> "open", s |-> s, x |-> x] >>)
  /\ UNCHANGED <<conn, table, stmt, res, refs, ss, of, script, wrong>>

(* sqlsrv_execute, sqlsrv_fetch, sqlsrv_next_result, sqlsrv_cancel.        *)
UseStatement(s) ==
  /\ s \in script /\ res[s] = "live"
  /\ Call("use", << F("active", s) >>)
  /\ UNCHANGED <<conn, table, stmt, res, refs, ss, of, script, wrong>>

fclose(x) ==
  /\ x \in script /\ ss[x] = "open"
  /\ Call("fclose", << [op |-> "stream", x |-> x] >>)
  /\ UNCHANGED <<conn, table, stmt, res, refs, ss, of, script, wrong>>

sqlsrv_free_stmt(s) ==
  /\ s \in script /\ res[s] = "live"
  /\ Call("free_stmt", << F("close", s) >>)
  /\ UNCHANGED <<conn, table, stmt, res, refs, ss, of, script, wrong>>

sqlsrv_close ==
  /\ Conn \in script /\ conn = "open"
  /\ Call("close", << [op |-> "stmts", left |-> table] >>)
  /\ script' = script \ {Conn}
  /\ UNCHANGED <<conn, table, stmt, res, refs, ss, of, wrong>>

(* A variable goes out of scope.                                           *)
Unset(v) ==
  /\ v \in script
  /\ Call("unset", CASE v = Conn   -> IF conn = "open" THEN << [op |-> "stmts", left |-> table] >>
                                        ELSE << >>
                     [] v \in Stmts  -> << F("delete", v) >>
                     [] OTHER        -> << >>)
  /\ script' = script \ {v}
  /\ UNCHANGED <<conn, table, stmt, res, refs, ss, of, wrong>>

RequestEnds ==
  /\ Call("shutdown", << [op |-> "shutdown"] >>)
  /\ UNCHANGED <<conn, table, stmt, res, refs, ss, of, script, wrong>>

Next ==
  \/ Runs
  \/ \E s \in Stmts : \/ sqlsrv_prepare(s) \/ UseStatement(s) \/ sqlsrv_free_stmt(s)
                      \/ \E x \in Streams : sqlsrv_get_field(s, x)
  \/ \E x \in Streams : fclose(x)
  \/ \E v \in {Conn} \cup Stmts \cup Streams : Unset(v)
  \/ sqlsrv_close \/ RequestEnds

Spec == Init /\ [][Next]_vars
-----------------------------------------------------------------------------
(* Nothing is used after it was freed and nothing is freed twice, in       *)
(* whatever order the script lets go of connection, statements and         *)
(* streams; and no statement is left when ODBC is to disconnect            *)
(* (conn.cpp 1365-1418, core_stream.cpp 26-50, stmt.cpp 1332-1358).        *)
NothingGoneUsed == ~wrong

(* "Statements should remove themselves from the connection so this        *)
(* shouldn't be out of sync" (conn.cpp 1397): between two calls the table  *)
(* has the statements there are.                                           *)
TableExact ==
  stack = << >> => table = { s \in Stmts : Allocated(s) /\ stmt[s].conn }
                   /\ \A s \in table : res[s] = "live"

(* A statement the script has no variable of and no open stream belongs to *)
(* is freed, and so is its resource.                                       *)
StatementFreed ==
  stack = << >> =>
    \A s \in Stmts \ script :
      /\ Allocated(s) => \E x \in Streams : ss[x] = "open" /\ of[x] = s
      /\ stmt[s].mem = "freed" => res[s] = "freed"

(* Table, resources and allocations account for the same statements        *)
(* between two calls.                                                      *)
StatementsAccountedFor == TypeOK /\ TableExact /\ StatementFreed
=============================================================================
