--------------------------- MODULE StatementProofs ---------------------------
(***************************************************************************)
(* Proofs about the sqlsrv statement for every length of batch, rowset and *)
(* result and every choice of the other constants: its types first, then   *)
(* its safety invariants.                                                  *)
(***************************************************************************)
EXTENDS StatementProperties, SequenceTheorems, WellFoundedInduction, TLAPS

(***************************************************************************)
(* What every call on an ODBC handle preserves and promises, for every     *)
(* size of batch, rowset and result.                                       *)
(***************************************************************************)
(* A handle that is open is on a result.                                   *)
Live(h) == h \in Handles /\ (h.state = "open" => h.batch # << >>)

(* The items of a batch, and the batches a server may answer, are what     *)
(* SQLMoreResults walks over: sequences that are not empty.                *)
LEMMA ItemType ==
  \A i \in Items : /\ i.cols \in 0 .. MaxCols
                   /\ i.rows \in Nat
                   /\ i.kind \in {"rowset", "count", "error"}
BY OdbcAssumption DEF OdbcAssumption, Items, Rowsets, Counts, Errors

LEMMA BatchType ==
  \A b \in Batches : b \in Seq(Items) /\ b # << >>
<1> SUFFICES ASSUME NEW b \in Batches PROVE b \in Seq(Items) /\ b # << >>
  OBVIOUS
<1>1. PICK k \in 1 .. MaxItems : b \in [1 .. k -> Items]
  BY DEF Batches
<1>2. k \in Nat /\ k >= 1
  BY <1>1, OdbcAssumption DEF OdbcAssumption
<1>3. b \in Seq(Items)
  BY <1>1, <1>2, SeqDef
<1>4. Len(b) = k
  BY <1>1, <1>2, <1>3, LenProperties
<1> QED
  BY <1>2, <1>3, <1>4, EmptySeq

LEMMA IdleLive == Live(Idle)
BY OdbcAssumption, EmptySeq DEF OdbcAssumption, Live, Idle, Handles

LEMMA OpenedLive ==
  \A b : b \in Seq(Items) /\ b # << >> =>
           /\ Live(Opened(b))
           /\ Opened(b).state = "open" /\ Opened(b).at = 0 /\ Opened(b).batch = b
BY OdbcAssumption DEF OdbcAssumption, Live, Opened, Handles

(* A live open handle has a current result.                                *)
LEMMA HeadType ==
  ASSUME NEW h, Live(h), h.state = "open"
  PROVE  /\ Head(h.batch) \in Items
         /\ Head(h.batch).cols \in 0 .. MaxCols
         /\ Head(h.batch).rows \in Nat
BY ItemType, HeadTailProperties DEF Live, Handles

(* SQLExecute either fails and leaves the handle alone, or leaves it open  *)
(* before the first row, or waiting for data.                              *)
LEMMA ExecuteLive ==
  ASSUME NEW h, Live(h), NEW s \in BOOLEAN, NEW o \in SQLExecute(h, s)
  PROVE  /\ Live(o.h)
         /\ o.r \in {SQL_ERROR, SQL_SUCCESS, SQL_NO_DATA, SQL_NEED_DATA}
         /\ o.r = SQL_ERROR => o.h = h
         /\ o.r # SQL_ERROR => h.state = "idle" /\ o.h.at = 0
         /\ o.r \in {SQL_SUCCESS, SQL_NO_DATA} => o.h.state = "open"
         /\ o.r = SQL_NEED_DATA => o.h.state = "need_data"
<1>1. CASE o = [r |-> SQL_ERROR, h |-> h]
  BY <1>1 DEF SQL_ERROR, SQL_SUCCESS, SQL_NO_DATA, SQL_NEED_DATA
<1>2. CASE h.state = "idle" /\ s /\ o # [r |-> SQL_ERROR, h |-> h]
  <2>1. PICK n \in 1 .. MaxStreams : o = [r |-> SQL_NEED_DATA, h |-> Asking(n)]
    BY <1>2 DEF SQLExecute
  <2>2. Live(Asking(n)) /\ Asking(n).state = "need_data" /\ Asking(n).at = 0
    BY OdbcAssumption, EmptySeq DEF OdbcAssumption, Live, Asking, Handles
  <2> QED
    BY <1>2, <2>1, <2>2 DEF SQL_ERROR, SQL_SUCCESS, SQL_NO_DATA, SQL_NEED_DATA
<1>3. CASE h.state = "idle" /\ ~s /\ o # [r |-> SQL_ERROR, h |-> h]
  <2>1. PICK b \in Batches : o \in {[r |-> SQL_SUCCESS, h |-> Opened(b)], [r |-> SQL_NO_DATA, h |-> Opened(b)]}
    BY <1>3 DEF SQLExecute
  <2> QED
    BY <1>3, <2>1, BatchType, OpenedLive DEF SQL_ERROR, SQL_SUCCESS, SQL_NO_DATA, SQL_NEED_DATA
<1> QED
  BY <1>1, <1>2, <1>3 DEF SQLExecute

(* SQLParamData changes a handle only while it waits for data.             *)
LEMMA ParamDataLive ==
  ASSUME NEW h, Live(h), NEW o \in SQLParamData(h)
  PROVE  /\ Live(o.h)
         /\ o.r = SQL_ERROR => o.h = h
         /\ o.r # SQL_ERROR => h.state = "need_data"
         /\ o.r = SQL_SUCCESS => o.h.state = "open" /\ o.h.at = 0
         /\ o.r = SQL_NEED_DATA => o.h.state = "need_data" /\ o.h.batch = h.batch
<1>1. CASE o = [r |-> SQL_ERROR, h |-> h]
  BY <1>1 DEF SQL_ERROR, SQL_SUCCESS, SQL_NEED_DATA
<1>2. CASE h.state = "need_data" /\ o = [r |-> SQL_NEED_DATA, h |-> [h EXCEPT !.togo = @ - 1]] /\ h.togo > 0
  <2>1. o.r = SQL_NEED_DATA /\ o.h = [h EXCEPT !.togo = @ - 1]
    BY <1>2
  <2>2. o.h \in Handles /\ o.h.state = "need_data" /\ o.h.batch = h.batch
    BY <1>2, <2>1, OdbcAssumption DEF OdbcAssumption, Live, Handles
  <2> QED
    BY <1>2, <2>1, <2>2 DEF Live, SQL_ERROR, SQL_SUCCESS, SQL_NEED_DATA
<1>3. CASE h.state = "need_data" /\ \E b \in Batches : o = [r |-> SQL_SUCCESS, h |-> Opened(b)]
  BY <1>3, BatchType, OpenedLive DEF SQL_ERROR, SQL_SUCCESS, SQL_NEED_DATA
<1> QED
  BY <1>1, <1>2, <1>3 DEF SQLParamData

(* SQLMoreResults ends on an idle handle, moves to the next result, or     *)
(* fails on the error marker it has moved to or on a handle that waits.    *)
LEMMA MoreResultsLive ==
  ASSUME NEW h, Live(h)
  PROVE  LET m == SQLMoreResults(h) IN
         /\ Live(m.h)
         /\ m.r \in {SQL_ERROR, SQL_SUCCESS, SQL_NO_DATA}
         /\ m.r = SQL_NO_DATA => m.h.state = "idle"
         /\ m.r = SQL_SUCCESS => m.h.state = "open" /\ m.h.at = 0
         /\ m.r = SQL_ERROR => \/ m.h.state = "open" /\ m.h.at = 0
                               \/ m.h.state = "need_data" /\ m.h = h
<1> DEFINE m == SQLMoreResults(h)
<1> USE DEF SQL_ERROR, SQL_SUCCESS, SQL_NO_DATA
<1>1. CASE h.state = "need_data"
  <2>1. m = [r |-> SQL_ERROR, h |-> h]
    BY <1>1 DEF SQLMoreResults
  <2> QED
    BY <1>1, <2>1
<1>2. CASE h.state = "idle" \/ (h.state = "open" /\ Len(h.batch) = 1)
  <2>1. m = [r |-> SQL_NO_DATA, h |-> Idle]
    BY <1>2 DEF SQLMoreResults
  <2> QED
    BY <2>1, IdleLive DEF Idle
<1>4. CASE h.state = "open" /\ Len(h.batch) # 1
  <2>1. h.batch \in Seq(Items) /\ h.batch # << >>
    BY <1>4 DEF Live, Handles
  <2>2. Tail(h.batch) \in Seq(Items) /\ Tail(h.batch) # << >>
    <3>1. Len(h.batch) \in Nat \ {0}
      BY <2>1, EmptySeq
    <3>2. Tail(h.batch) \in Seq(Items) /\ Len(Tail(h.batch)) = Len(h.batch) - 1
      BY <2>1, HeadTailProperties
    <3>3. Len(<< >>) = 0
      BY EmptySeq
    <3>4. ASSUME Tail(h.batch) = << >> PROVE FALSE
      <4>1. Len(Tail(h.batch)) = 0
        BY <3>3, <3>4
      <4> QED
        BY <1>4, <3>1, <3>2, <4>1
    <3> QED
      BY <3>2, <3>4
  <2>3. Live(Opened(Tail(h.batch))) /\ Opened(Tail(h.batch)).state = "open" /\ Opened(Tail(h.batch)).at = 0
    BY <2>2, OpenedLive
  <2>4. m.h = Opened(Tail(h.batch)) /\ m.r \in {SQL_ERROR, SQL_SUCCESS}
    BY <1>4 DEF SQLMoreResults
  <2> QED
    BY <2>3, <2>4
<1>5. h.state \in {"idle", "open", "need_data"}
  BY DEF Live, Handles
<1> QED
  BY <1>1, <1>2, <1>4, <1>5

(* Where it moves to: the rest of the batch, which is another one.          *)
LEMMA MoreResultsMoves ==
  ASSUME NEW h, Live(h)
  PROVE  LET m == SQLMoreResults(h) IN
         /\ m.h.state = "idle" => m.h = Idle
         /\ m.h.state = "need_data" => m.h = h
         /\ m.h.state = "open" => /\ h.state = "open" /\ m.h.batch # h.batch
                                  /\ m.r = SQL_ERROR => OnError(m.h)
<1> DEFINE m == SQLMoreResults(h)
<1>1. CASE h.state = "need_data"
  BY <1>1 DEF SQLMoreResults
<1>2. CASE h.state = "idle" \/ (h.state = "open" /\ Len(h.batch) = 1)
  <2>1. m.h = Idle
    BY <1>2 DEF SQLMoreResults
  <2> QED
    BY <2>1 DEF Idle
<1>3. CASE h.state = "open" /\ Len(h.batch) # 1
  <2>1. /\ m.h = Opened(Tail(h.batch))
        /\ m.r = IF OnError(m.h) THEN SQL_ERROR ELSE SQL_SUCCESS
    BY <1>3 DEF SQLMoreResults
  <2>2. h.batch \in Seq(Items) /\ h.batch # << >>
    BY <1>3 DEF Live, Handles
  <2>3. Len(Tail(h.batch)) = Len(h.batch) - 1 /\ Len(h.batch) \in Nat
    BY <2>2, HeadTailProperties
  <2>4. ASSUME Tail(h.batch) = h.batch PROVE FALSE
    <3>1. PICK l \in Nat : l = Len(h.batch)
      BY <2>3
    <3>2. l = l - 1
      BY <2>3, <2>4, <3>1
    <3> QED
      BY <3>2
  <2> QED
    BY <1>3, <2>1, <2>4 DEF Opened, SQL_ERROR, SQL_SUCCESS
<1>4. h.state \in {"idle", "open", "need_data"}
  BY DEF Live, Handles
<1> QED
  BY <1>1, <1>2, <1>3, <1>4

LEMMA NumResultColsType ==
  ASSUME NEW h, Live(h), NEW c \in SQLNumResultCols(h)
  PROVE  /\ c \in {SQL_ERROR} \cup 0 .. MaxCols
         /\ h.state = "need_data" => c = SQL_ERROR
         /\ h.state = "open" => c \in {SQL_ERROR, Head(h.batch).cols}
BY HeadType DEF SQLNumResultCols, Live, Handles

(* The moves of a cursor: every style, with any offset.                    *)
AnyMoves == [style : Styles, offset : Int]

LEMMA MoveTypes ==
  /\ \A move \in Moves : move \in AnyMoves /\ OneBased(move) \in AnyMoves
  /\ First \in AnyMoves
  /\ [style |-> "SQL_FETCH_NEXT", offset |-> 0] \in AnyMoves
BY StatementAssumption DEF StatementAssumption, AnyMoves, Styles, First, OneBased

(* Wherever a cursor is asked to go, it ends on a place there is.          *)
LEMMA MovedType ==
  ASSUME NEW move \in AnyMoves, NEW at \in Nat, NEW n \in Nat
  PROVE  Moved(move, at, n) \in Nat
<1>1. move.offset \in Int /\ move.style \in Styles
  BY DEF AnyMoves
<1> DEFINE asked == CASE move.style = "SQL_FETCH_NEXT"     -> at + 1
                      [] move.style = "SQL_FETCH_PRIOR"    -> at - 1
                      [] move.style = "SQL_FETCH_FIRST"    -> IF n > 0 THEN 1 ELSE n + 1
                      [] move.style = "SQL_FETCH_LAST"     -> n
                      [] move.style = "SQL_FETCH_RELATIVE" -> at + move.offset
                      [] move.style = "SQL_FETCH_ABSOLUTE" /\ move.offset < 0 -> n + 1 + move.offset
                      [] OTHER -> move.offset
<1>2. asked \in Int
  BY <1>1 DEF Styles
<1>3. Moved(move, at, n) = IF asked < 0 THEN 0 ELSE IF asked > n THEN n + 1 ELSE asked
  BY DEF Moved
<1> HIDE DEF asked
<1> QED
  BY <1>2, <1>3

(* SQLFetchScroll moves the cursor of the current rowset and nothing else; *)
(* on a forward-only one it goes one row on, or past the end.              *)
LEMMA ScrollLive ==
  ASSUME NEW h, Live(h), NEW to \in AnyMoves, NEW forward \in BOOLEAN,
         NEW o \in SQLFetchScroll(h, to, forward)
  PROVE  /\ Live(o.h)
         /\ o.h.state = h.state /\ o.h.batch = h.batch
         /\ ~OnRowset(h) => o.r = SQL_ERROR /\ o.h = h
         /\ OnRowset(h) /\ forward =>
              /\ o.r = SQL_SUCCESS => h.at < Head(h.batch).rows /\ o.h.at = h.at + 1
              /\ o.h.at \in {h.at, h.at + 1, Head(h.batch).rows + 1}
              /\ o.r # SQL_SUCCESS => o.h = h \/ o.h.at = Head(h.batch).rows + 1
<1> USE DEF SQL_ERROR, SQL_SUCCESS, SQL_NO_DATA
<1>1. CASE ~OnRowset(h)
  BY <1>1 DEF SQLFetchScroll
<1>2. CASE OnRowset(h) /\ forward /\ to.style # "SQL_FETCH_NEXT"
  <2>1. o.r = SQL_ERROR /\ o.h = h
    BY <1>2 DEF SQLFetchScroll
  <2> QED
    BY <1>2, <2>1 DEF Live, Handles
<1>3. CASE OnRowset(h) /\ ~(forward /\ to.style # "SQL_FETCH_NEXT")
  <2> DEFINE n == Head(h.batch).rows
             d == Moved(to, h.at, n)
  <2>1. h.at \in Nat /\ n \in Nat
    BY <1>3, HeadType DEF Live, Handles, OnRowset
  <2>2. d \in Nat
    BY <2>1, MovedType
  <2>3. \/ o.h = [h EXCEPT !.at = d] /\ o.r = (IF d \in 1 .. n THEN SQL_SUCCESS ELSE SQL_NO_DATA)
        \/ o.h = [h EXCEPT !.at = n + 1] /\ o.r = SQL_ERROR /\ forward
        \/ o.h = h /\ o.r = SQL_ERROR /\ ~forward
    BY <1>3 DEF SQLFetchScroll
  <2>4. Live(o.h) /\ o.h.state = h.state /\ o.h.batch = h.batch
    BY <2>1, <2>2, <2>3 DEF Live, Handles
  <2>5. o.h.at = d \/ o.h.at = n + 1 \/ o.h = h
    BY <2>3, <2>4 DEF Live, Handles
  <2>6. forward => d = IF h.at < n THEN h.at + 1 ELSE n + 1
    BY <1>3, <2>1 DEF Moved
  <2>7. forward /\ o.r = SQL_SUCCESS => h.at < n /\ o.h.at = h.at + 1
    <3> SUFFICES ASSUME forward, o.r = SQL_SUCCESS PROVE h.at < n /\ o.h.at = h.at + 1
      OBVIOUS
    <3>1. o.h = [h EXCEPT !.at = d] /\ d \in 1 .. n
      BY <2>3
    <3>2. o.h.at = d
      BY <3>1 DEF Live, Handles
    <3> QED
      BY <2>1, <2>6, <3>1, <3>2
  <2>8. forward /\ o.r # SQL_SUCCESS => o.h = h \/ o.h.at = n + 1
    <3> SUFFICES ASSUME forward, o.r # SQL_SUCCESS, o.h # h PROVE o.h.at = n + 1
      OBVIOUS
    <3>1. CASE o.h = [h EXCEPT !.at = n + 1]
      BY <3>1 DEF Live, Handles
    <3>2. CASE o.h = [h EXCEPT !.at = d] /\ d \notin 1 .. n
      <4>1. o.h.at = d
        BY <3>2 DEF Live, Handles
      <4> QED
        BY <2>1, <2>6, <3>2, <4>1
    <3> QED
      BY <2>3, <3>1, <3>2
  <2>9. forward => o.h.at \in {h.at, h.at + 1, n + 1}
    BY <2>5, <2>6
  <2> QED
    BY <1>3, <2>4, <2>7, <2>8, <2>9
<1> QED
  BY <1>1, <1>2, <1>3

-----------------------------------------------------------------------------
(* The operators of the statement.                                         *)

ResultSets == [kind : {"null", "odbc", "buffered"}, rows : Nat, at : Nat,
               stayed : BOOLEAN]

AnyConf == Confs \cup {NoConf}

(* Building a result set object leaves the handle on its result, and       *)
(* leaves it alone altogether unless the cursor is a client-side one.      *)
LEMMA NewResultsType ==
  ASSUME NEW h, Live(h), h.state \in {"open", "need_data"},
         NEW cursor, NEW n \in NewResults(h, cursor)
  PROVE  /\ Live(n.h) /\ n.h.state = h.state /\ n.h.batch = h.batch
         /\ n.ok \in BOOLEAN
         /\ n.res \in ResultSets
         /\ cursor # "buffered" => n = [ok |-> TRUE, h |-> h, res |-> OdbcResults]
<1>1. CASE cursor # "buffered"
  <2>1. n = [ok |-> TRUE, h |-> h, res |-> OdbcResults]
    BY <1>1 DEF NewResults
  <2> QED
    BY <2>1 DEF ResultSets, OdbcResults
<1>2. CASE cursor = "buffered"
  <2>1. PICK c \in SQLNumResultCols(h) :
          n \in IF c = SQL_ERROR THEN {[ok |-> FALSE, h |-> h, res |-> NullResults]}
                ELSE IF c = 0 THEN {[ok |-> TRUE, h |-> h, res |-> BufferedRows(0)]}
                ELSE LET r == Head(h.batch).rows
                     IN  {[ok |-> TRUE, h |-> [h EXCEPT !.at = r + 1], res |-> BufferedRows(r)]} \cup
                         { [ok |-> FALSE, h |-> [h EXCEPT !.at = k], res |-> NullResults] :
                             k \in 1 .. r + 1 }
    BY <1>2 DEF NewResults
  <2>2. CASE c = SQL_ERROR
    <3>1. n = [ok |-> FALSE, h |-> h, res |-> NullResults]
      BY <2>1, <2>2
    <3> QED
      BY <1>2, <3>1 DEF ResultSets, NullResults
  <2>3. CASE c = 0 /\ c # SQL_ERROR
    <3>1. n = [ok |-> TRUE, h |-> h, res |-> BufferedRows(0)]
      BY <2>1, <2>3
    <3> QED
      BY <1>2, <3>1 DEF ResultSets, BufferedRows
  <2>4. CASE c # 0 /\ c # SQL_ERROR
    <3> DEFINE r == Head(h.batch).rows
    <3>1. h.state = "open"
      BY <2>4, NumResultColsType
    <3>2. r \in Nat
      BY <3>1, HeadType
    <3> HIDE DEF r
    <3>3. CASE n = [ok |-> TRUE, h |-> [h EXCEPT !.at = r + 1], res |-> BufferedRows(r)]
      <4>1. n.h = [h EXCEPT !.at = r + 1] /\ n.ok = TRUE /\ n.res = BufferedRows(r)
        BY <3>3
      <4>2. Live(n.h) /\ n.h.state = h.state /\ n.h.batch = h.batch
        BY <3>2, <4>1 DEF Live, Handles
      <4>3. n.res \in ResultSets
        BY <3>2, <4>1 DEF ResultSets, BufferedRows
      <4> QED
        BY <1>2, <4>1, <4>2, <4>3
    <3>4. ASSUME NEW k \in 1 .. r + 1,
                 n = [ok |-> FALSE, h |-> [h EXCEPT !.at = k], res |-> NullResults]
          PROVE  /\ Live(n.h) /\ n.h.state = h.state /\ n.h.batch = h.batch
                 /\ n.ok \in BOOLEAN /\ n.res \in ResultSets
      <4>1. n.h = [h EXCEPT !.at = k] /\ n.ok = FALSE /\ n.res = NullResults
        BY <3>4
      <4>2. Live(n.h) /\ n.h.state = h.state /\ n.h.batch = h.batch
        BY <3>2, <4>1 DEF Live, Handles
      <4>3. n.res \in ResultSets
        BY <4>1 DEF ResultSets, NullResults
      <4> QED
        BY <4>1, <4>2, <4>3
    <3>5. \/ n = [ok |-> TRUE, h |-> [h EXCEPT !.at = r + 1], res |-> BufferedRows(r)]
          \/ \E k \in 1 .. r + 1 : n = [ok |-> FALSE, h |-> [h EXCEPT !.at = k], res |-> NullResults]
      BY <2>1, <2>4 DEF r
    <3> QED
      BY <1>2, <3>3, <3>4, <3>5
  <2> QED
    BY <2>2, <2>3, <2>4
<1> QED
  BY <1>1, <1>2

(* An execution that fails leaves the handle alone or idle; one that does  *)
(* not had an idle handle and leaves it before the first row, or waiting   *)
(* for data when the script sends it.                                      *)
LEMMA ExecutionsType ==
  ASSUME NEW h, Live(h), NEW c, c \in AnyConf, NEW p, NEW o \in Executions(h, c, p)
  PROVE  /\ Live(o.h)
         /\ o.r = SQL_ERROR => o.h = h \/ o.h = Idle
         /\ o.r # SQL_ERROR => /\ h.state = "idle" /\ o.h.at = 0
                               /\ o.h.state \in {"open", "need_data"}
                               /\ c.send => o.h.state = "open"
<1>1. CASE p = "lost"
  <2>1. o = [r |-> SQL_ERROR, h |-> h]
    BY <1>1 DEF Executions
  <2> QED
    BY <2>1
<1>2. CASE p # "lost"
  <2>1. PICK x \in SQLExecute(h, p = "stream") :
          o \in IF x.r = SQL_NEED_DATA /\ c.send
                THEN {[r |-> SQL_ERROR, h |-> SQLCancel(x.h)]} \cup
                     { [r |-> SQL_NEED_DATA, h |-> Opened(b)] : b \in Batches }
                ELSE {x}
    BY <1>2 DEF Executions, Ran
  <2>2. /\ Live(x.h)
        /\ x.r \in {SQL_ERROR, SQL_SUCCESS, SQL_NO_DATA, SQL_NEED_DATA}
        /\ x.r = SQL_ERROR => x.h = h
        /\ x.r # SQL_ERROR => h.state = "idle" /\ x.h.at = 0
        /\ x.r \in {SQL_SUCCESS, SQL_NO_DATA} => x.h.state = "open"
        /\ x.r = SQL_NEED_DATA => x.h.state = "need_data"
    BY ExecuteLive
  <2>3. CASE o = x /\ ~(x.r = SQL_NEED_DATA /\ c.send)
    BY <2>2, <2>3
  <2>4. CASE o = [r |-> SQL_ERROR, h |-> SQLCancel(x.h)]
    BY <2>4, IdleLive DEF SQLCancel
  <2>5. CASE x.r = SQL_NEED_DATA /\ \E b \in Batches : o = [r |-> SQL_NEED_DATA, h |-> Opened(b)]
    BY <2>2, <2>5, BatchType, OpenedLive DEF SQL_ERROR, SQL_NEED_DATA
  <2> QED
    BY <2>1, <2>3, <2>4, <2>5
<1> QED
  BY <1>1, <1>2

(* Handing over the output parameters, an execution that fails and one     *)
(* that returns keep every variable in its type.                           *)
LEMMA FinalizedType ==
  \A v \in {"none", "bound", "final"} : Finalized(v) \in {"none", "final"}
BY DEF Finalized

(* What a call returns is among the answers there are.                     *)
LEMMA ReturnType ==
  ASSUME NEW fn, NEW r \in {"true", "false", "null", "value", "pending"}, Return(fn, r),
         delivered' \in Nat
  PROVE  CallOK'
BY DEF Return, CallOK

LEMMA FetchedType ==
  ASSUME NEW fn, NEW to, NEW r \in {"true", "false", "null"}, NEW n, Fetched(fn, to, r, n),
         delivered' \in Nat
  PROVE  CallOK'
BY DEF Fetched, CallOK

LEMMA DeliveredType == Typed => delivered \in Nat
BY DEF Typed, CallOK

LEMMA GoneType ==
  ASSUME Gone
  PROVE  /\ phase' = "none" /\ conf' = NoConf
         /\ FlagsOK' /\ CachesOK' /\ ResultsOK' /\ ParamsOK' /\ delivered' \in Nat
<1>1. FlagsOK'
  BY DEF Gone, FlagsOK
<1>2. CachesOK'
  BY OdbcAssumption DEF OdbcAssumption, Gone, CachesOK
<1>3. ResultsOK'
  BY DEF Gone, ResultsOK, NullResults
<1>4. ParamsOK'
  BY DEF Gone, ParamsOK
<1> QED
  BY <1>1, <1>2, <1>3, <1>4 DEF Gone

LEMMA ResetType ==
  ASSUME ResetForNewResult
  PROVE  /\ fetch_called' = FALSE /\ has_rows' = FALSE
         /\ past_fetch_end' = FALSE /\ past_next_result_end' = FALSE
         /\ last_field_index' \in -1 .. MaxCols - 1
         /\ current_meta_data' \in 0 .. MaxCols
         /\ fetch_fields_count' \in 0 .. MaxCols
         /\ delivered' \in Nat
BY OdbcAssumption DEF OdbcAssumption, ResetForNewResult

LEMMA ExecuteFailsType ==
  ASSUME NEW h, Live(h), NEW ex \in BOOLEAN, ExecuteFails(h, ex)
  PROVE  HandleOK' /\ executed' \in BOOLEAN /\ outputs' = "none" /\ current_param' = FALSE
<1>1. odbc' = Idle \/ odbc' = h
  BY DEF ExecuteFails, SQLCancel
<1>2. HandleOK'
  BY <1>1, IdleLive DEF HandleOK, Live
<1> QED
  BY <1>2 DEF ExecuteFails

LEMMA ExecuteReturnsType ==
  ASSUME NEW h, Live(h), NEW c, c \in AnyConf, NEW p, NEW o \in Executions(h, c, p),
         o.r # SQL_ERROR, NEW cursor, NEW n \in NewResults(o.h, cursor),
         NEW bound \in {"none", "bound"},
         ExecuteReturns(o, n, c, bound)
  PROVE  /\ HandleOK'
         /\ odbc'.state = o.h.state /\ odbc'.batch = o.h.batch
         /\ executed' = TRUE
         /\ column_count' \in {ACTIVE_NUM_COLS_INVALID} \cup 0 .. MaxCols
         /\ column_count' # ACTIVE_NUM_COLS_INVALID
              => odbc'.state = "open" /\ column_count' = Head(odbc'.batch).cols
         /\ outputs' \in {"none", "bound", "final"}
         /\ current_param' = FALSE
<1>1. Live(o.h) /\ o.h.state \in {"open", "need_data"} /\ (c.send => o.h.state = "open")
  BY ExecutionsType
<1>2. Live(n.h) /\ n.h.state = o.h.state /\ n.h.batch = o.h.batch
  BY <1>1, NewResultsType
<1>3. odbc' = n.h /\ executed' = TRUE /\ current_param' = FALSE
  BY DEF ExecuteReturns
<1>4. HandleOK'
  BY <1>2, <1>3 DEF HandleOK, Live
<1>5. column_count' = ACTIVE_NUM_COLS_INVALID \/ (c.send /\ column_count' = Head(n.h.batch).cols)
  BY DEF ExecuteReturns
<1>6. c.send => Head(n.h.batch).cols \in 0 .. MaxCols
  BY <1>1, <1>2, HeadType
<1>7. outputs' \in {"none", "bound", "final"}
  BY FinalizedType DEF ExecuteReturns
<1> QED
  BY <1>1, <1>2, <1>3, <1>4, <1>5, <1>6, <1>7

LEMMA ExecuteFailsLateType ==
  ASSUME NEW h, Live(h), NEW c, c \in AnyConf, NEW p, NEW o \in Executions(h, c, p),
         o.r # SQL_ERROR, NEW cursor, NEW n \in NewResults(o.h, cursor),
         NEW bound \in {"none", "bound"},
         ExecuteFailsLate(o, n, c, bound)
  PROVE  /\ HandleOK' /\ odbc' = Idle
         /\ executed' = TRUE
         /\ column_count' \in {ACTIVE_NUM_COLS_INVALID} \cup 0 .. MaxCols
         /\ outputs' = "none" /\ current_param' = FALSE
<1>1. Live(o.h) /\ o.h.state = "open"
  BY ExecutionsType DEF ExecuteFailsLate
<1>2. Live(n.h) /\ n.h.state = "open"
  BY <1>1, NewResultsType
<1>3. odbc' = Idle /\ executed' = TRUE /\ outputs' = "none" /\ current_param' = FALSE
  BY DEF ExecuteFailsLate, SQLCancel
<1>4. HandleOK'
  BY <1>3, IdleLive DEF HandleOK, Live
<1>5. column_count' = ACTIVE_NUM_COLS_INVALID \/ column_count' = Head(n.h.batch).cols
  BY DEF ExecuteFailsLate
<1>6. Head(n.h.batch).cols \in 0 .. MaxCols
  BY <1>2, HeadType
<1> QED
  BY <1>3, <1>4, <1>5, <1>6

(* core_sqlsrv_execute: what it leaves in the variables it changes.        *)
LEMMA ExecuteType ==
  ASSUME Typed, NEW h, Live(h), NEW c, c \in AnyConf, NEW p, NEW ex \in BOOLEAN, NEW fn,
         core_sqlsrv_execute(h, c, p, ex, fn)
  PROVE  /\ HandleOK' /\ FlagsOK' /\ CachesOK' /\ ResultsOK' /\ CallOK'
         /\ outputs' \in {"none", "bound", "final"} /\ current_param' \in BOOLEAN
<1> DEFINE bound == IF p = "output" THEN "bound" ELSE "none"
<1>0. bound \in {"none", "bound"}
  OBVIOUS
<1>1. PICK o \in Executions(h, c, p) :
        \/ /\ o.r = SQL_ERROR
           /\ ExecuteFails(o.h, ex)
           /\ Return(fn, "false")
           /\ UNCHANGED <<past_fetch_end, past_next_result_end, has_rows, fetch_called,
                          caches, current_results, delivered>>
        \/ /\ o.r # SQL_ERROR
           /\ ResetForNewResult
           /\ \E n \in NewResults(o.h, c.cursor) :
                /\ current_results' = n.res
                /\ \/ n.ok /\ ExecuteReturns(o, n, c, bound) /\ Return(fn, "true")
                   \/ n.ok /\ ExecuteFailsLate(o, n, c, bound) /\ Return(fn, "false")
                   \/ /\ ~n.ok /\ ExecuteFails(n.h, ex) /\ Return(fn, "false")
                      /\ column_count' = ACTIVE_NUM_COLS_INVALID
  BY DEF core_sqlsrv_execute
<1> HIDE DEF bound
<1>2. /\ Live(o.h)
      /\ o.r # SQL_ERROR => o.h.state \in {"open", "need_data"}
  BY ExecutionsType
<1>3. CASE o.r = SQL_ERROR
  <2>1. /\ ExecuteFails(o.h, ex) /\ Return(fn, "false")
        /\ UNCHANGED <<past_fetch_end, past_next_result_end, has_rows, fetch_called,
                       caches, current_results, delivered>>
    BY <1>1, <1>3
  <2>2. HandleOK' /\ executed' \in BOOLEAN /\ outputs' = "none" /\ current_param' = FALSE
    BY <1>2, <2>1, ExecuteFailsType
  <2> QED
    BY <2>1, <2>2 DEF Typed, FlagsOK, CachesOK, ResultsOK, CallOK, caches, Return
<1>4. CASE o.r # SQL_ERROR
  <2>1. ResetForNewResult
    BY <1>1, <1>4
  <2>2. PICK n \in NewResults(o.h, c.cursor) :
          /\ current_results' = n.res
          /\ \/ n.ok /\ ExecuteReturns(o, n, c, bound) /\ Return(fn, "true")
             \/ n.ok /\ ExecuteFailsLate(o, n, c, bound) /\ Return(fn, "false")
             \/ /\ ~n.ok /\ ExecuteFails(n.h, ex) /\ Return(fn, "false")
                /\ column_count' = ACTIVE_NUM_COLS_INVALID
    BY <1>1, <1>4
  <2>3. Live(n.h) /\ n.res \in ResultSets
    BY <1>2, <1>4, NewResultsType
  <2>4. ResultsOK'
    BY <2>2, <2>3 DEF ResultsOK, ResultSets
  <2>5. CASE ExecuteReturns(o, n, c, bound) /\ Return(fn, "true")
    <3>1. /\ HandleOK' /\ executed' = TRUE
          /\ column_count' \in {ACTIVE_NUM_COLS_INVALID} \cup 0 .. MaxCols
          /\ outputs' \in {"none", "bound", "final"} /\ current_param' = FALSE
      BY <1>0, <1>4, <2>5, ExecuteReturnsType
    <3> QED
      BY <2>1, <2>4, <2>5, <3>1, ResetType DEF FlagsOK, CachesOK, CallOK, Return
  <2>6. CASE ExecuteFails(n.h, ex) /\ Return(fn, "false") /\ column_count' = ACTIVE_NUM_COLS_INVALID
    <3>1. HandleOK' /\ executed' \in BOOLEAN /\ outputs' = "none" /\ current_param' = FALSE
      BY <2>3, <2>6, ExecuteFailsType
    <3> QED
      BY <2>1, <2>4, <2>6, <3>1, ResetType DEF FlagsOK, CachesOK, CallOK, Return
  <2>7. CASE ExecuteFailsLate(o, n, c, bound) /\ Return(fn, "false")
    <3>1. /\ HandleOK' /\ executed' = TRUE
          /\ column_count' \in {ACTIVE_NUM_COLS_INVALID} \cup 0 .. MaxCols
          /\ outputs' = "none" /\ current_param' = FALSE
      BY <1>0, <1>4, <2>7, ExecuteFailsLateType
    <3> QED
      BY <2>1, <2>4, <2>7, <3>1, ResetType DEF FlagsOK, CachesOK, CallOK, Return
  <2> QED
    BY <2>2, <2>5, <2>6, <2>7
<1> QED
  BY <1>3, <1>4

-----------------------------------------------------------------------------
(* One lemma per action: it preserves Typed.                              *)

LEMMA BindAndExecuteType ==
  ASSUME TypeOK, BindAndExecute
  PROVE  TypeOK'
<1>1. Live(odbc) /\ conf \in AnyConf /\ executed \in BOOLEAN
  BY DEF TypeOK, Typed, HandleOK, FlagsOK, Live, AnyConf
<1>2. phase' = "ready" /\ conf' \in Confs \cup {NoConf}
  BY <1>1 DEF BindAndExecute, AnyConf
<1>3. ASSUME core_sqlsrv_execute(odbc, conf, params_z,
                                 executed /\ params_z \in {"none", "lost"}, "sqlsrv_execute"),
             params_z' = params_z
      PROVE  TypeOK'
  <2>1. (executed /\ params_z \in {"none", "lost"}) \in BOOLEAN
    OBVIOUS
  <2>2. /\ HandleOK' /\ FlagsOK' /\ CachesOK' /\ ResultsOK' /\ CallOK'
        /\ outputs' \in {"none", "bound", "final"} /\ current_param' \in BOOLEAN
    BY <1>1, <1>3, <2>1, ExecuteType DEF TypeOK
  <2>3. ParamsOK'
    BY <1>3, <2>2 DEF TypeOK, Typed, ParamsOK
  <2> QED
    BY <1>2, <2>2, <2>3 DEF TypeOK, Typed
<1>4. ASSUME executed' = FALSE,
             params_z' = "lost", outputs' = "none", current_param' = FALSE,
             Return("sqlsrv_execute", "false"),
             UNCHANGED <<odbc, past_fetch_end, past_next_result_end, has_rows, fetch_called,
                         caches, current_results, delivered>>
      PROVE  TypeOK'
  BY <1>2, <1>4 DEF TypeOK, Typed, HandleOK, FlagsOK, CachesOK, ResultsOK, ParamsOK, CallOK, caches, Return
<1> QED
  BY <1>3, <1>4 DEF BindAndExecute

LEMMA PrepareType ==
  ASSUME TypeOK, NEW c \in Confs, NEW p \in ParamKinds, sqlsrv_prepare(c, p)
  PROVE  TypeOK'
<1>1. HandleOK'
  BY IdleLive DEF sqlsrv_prepare, HandleOK, Live
<1> QED
  BY <1>1 DEF sqlsrv_prepare, TypeOK, Typed, FlagsOK, CachesOK, ResultsOK, ParamsOK, CallOK, flags, caches, Return

LEMMA QueryType ==
  ASSUME TypeOK, NEW c \in Confs, NEW p \in ParamKinds, sqlsrv_query(c, p)
  PROVE  TypeOK'
<1>1. CASE QuerySucceeds(c, p)
  <2>1. core_sqlsrv_execute(Idle, c, p, FALSE, "sqlsrv_query") /\ phase' = "ready" /\ conf' = c /\ params_z' = p
    BY <1>1 DEF QuerySucceeds
  <2>2. /\ HandleOK' /\ FlagsOK' /\ CachesOK' /\ ResultsOK' /\ CallOK'
        /\ outputs' \in {"none", "bound", "final"} /\ current_param' \in BOOLEAN
    BY <2>1, IdleLive, ExecuteType DEF AnyConf, TypeOK
  <2> QED
    BY <2>1, <2>2 DEF TypeOK, Typed, ParamsOK
<1>2. CASE QueryFails(c, p)
  <2>1. PICK o \in Executions(Idle, c, p) :
          \/ o.r = SQL_ERROR /\ odbc' = o.h
          \/ /\ o.r # SQL_ERROR
             /\ \E n \in NewResults(o.h, c.cursor) : odbc' = n.h \/ odbc' = Idle
    BY <1>2 DEF QueryFails, SQLCancel
  <2>2. Live(o.h) /\ (o.r # SQL_ERROR => o.h.state \in {"open", "need_data"})
    BY IdleLive, ExecutionsType DEF AnyConf
  <2>3. HandleOK'
    <3>1. CASE o.r = SQL_ERROR /\ odbc' = o.h
      BY <2>2, <3>1 DEF HandleOK, Live
    <3>2. ASSUME o.r # SQL_ERROR, NEW n \in NewResults(o.h, c.cursor),
                 odbc' = n.h \/ odbc' = Idle
          PROVE  HandleOK'
      <4>1. Live(n.h)
        BY <2>2, <3>2, NewResultsType
      <4> QED
        BY <3>2, <4>1, IdleLive DEF HandleOK, Live
    <3> QED
      BY <2>1, <3>1, <3>2
  <2>4. Gone /\ Return("sqlsrv_query", "false")
    BY <1>2 DEF QueryFails
  <2> QED
    BY <2>3, <2>4, GoneType DEF TypeOK, Typed, CallOK, Return
<1> QED
  BY <1>1, <1>2 DEF sqlsrv_query

LEMMA ExecuteActionType ==
  ASSUME TypeOK, sqlsrv_execute
  PROVE  TypeOK'
<1>1. CASE BindAndExecute
  BY <1>1, BindAndExecuteType
<1>2. CASE /\ phase' \in {phase, "flush"}
           /\ \/ Return("sqlsrv_execute", "false")
              \/ Return("sqlsrv_execute", "pending")
           /\ UNCHANGED <<conf, odbc, flags, caches, current_results, params, delivered>>
  <2>1. CallOK'
    BY <1>2, DeliveredType, ReturnType DEF TypeOK
  <2> QED
    BY <1>2, <2>1 DEF TypeOK, Typed, HandleOK, FlagsOK, CachesOK, ResultsOK, ParamsOK, flags, caches, params
<1> QED
  BY <1>1, <1>2 DEF sqlsrv_execute

LEMMA CrashType ==
  ASSUME NEW fn, Crash(fn)
  PROVE  TypeOK'
<1>1. HandleOK'
  BY IdleLive DEF Crash, HandleOK, Live
<1> QED
  BY <1>1, GoneType DEF Crash, TypeOK, Typed, CallOK, Return

LEMMA DiesType ==
  ASSUME NEW fn, Dies(fn)
  PROVE  TypeOK'
<1>1. HandleOK'
  BY IdleLive DEF Dies, HandleOK, Live
<1> QED
  BY <1>1, GoneType DEF Dies, TypeOK, Typed, CallOK, Return

(* Moving to the next result on handle h, wherever SQLMoreResults left it. *)
LEMMA NextResultMovesType ==
  ASSUME Typed, NEW m, Live(m.h), m.h.state \in {"open", "need_data"}, NEW throw, NEW fn,
         NextResultMoves(m, throw, fn)
  PROVE  /\ HandleOK' /\ FlagsOK' /\ CachesOK' /\ ResultsOK' /\ CallOK' /\ outputs' = outputs
<1>1. PICK n \in NewResults(m.h, conf.cursor) :
        /\ odbc' = IF ~n.ok /\ throw THEN SQLCancel(n.h) ELSE n.h
        /\ current_results' = n.res
        /\ Return(fn, IF ~n.ok THEN "false" ELSE IF fn = "sqlsrv_execute" THEN "pending" ELSE "true")
  BY DEF NextResultMoves
<1>2. Live(n.h) /\ n.res \in ResultSets
  BY NewResultsType
<1>3. HandleOK'
  BY <1>1, <1>2, IdleLive DEF HandleOK, Live, SQLCancel
<1>4. ResultsOK'
  BY <1>1, <1>2 DEF ResultsOK, ResultSets
<1>5. CallOK'
  BY <1>1, ResetType DEF NextResultMoves, CallOK, Return
<1> QED
  BY <1>3, <1>4, <1>5, ResetType DEF NextResultMoves, Typed, FlagsOK, CachesOK

(* core_sqlsrv_next_result, from sqlsrv_next_result or the flush loop.     *)
LEMMA CoreNextResultType ==
  ASSUME Typed, NEW finalize, NEW throw, NEW report, NEW fn,
         core_sqlsrv_next_result(finalize, throw, report, fn)
  PROVE  /\ HandleOK' /\ FlagsOK' /\ CachesOK' /\ ResultsOK' /\ CallOK'
         /\ outputs' \in {"none", "bound", "final"}
<1> DEFINE m == SQLMoreResults(odbc)
<1>1. Live(odbc)
  BY DEF Typed, HandleOK, Live
<1>2. /\ Live(m.h)
      /\ m.r \in {SQL_SUCCESS, SQL_ERROR} => m.h.state \in {"open", "need_data"}
  BY <1>1, MoreResultsLive
<1> HIDE DEF m
<1>3. CASE NextResultRefused(throw, fn) \/ NextResultThrows(m, fn)
  <2>1. odbc' \in {odbc, Idle} /\ Return(fn, "false")
        /\ UNCHANGED <<flags, caches, current_results, outputs, delivered>>
    BY <1>3 DEF NextResultRefused, NextResultThrows, SQLCancel
  <2>2. HandleOK'
    BY <1>1, <2>1, IdleLive DEF HandleOK, Live
  <2> QED
    BY <2>1, <2>2 DEF Typed, FlagsOK, CachesOK, ResultsOK, ParamsOK, CallOK, flags, caches, Return
<1>4. CASE NextResultReports(m, fn)
  <2>1. HandleOK'
    BY <1>2, <1>4 DEF NextResultReports, HandleOK, Live
  <2>2. ResultsOK'
    BY <1>4 DEF NextResultReports, ResultsOK, NullResults
  <2>3. CachesOK'
    BY <1>4, OdbcAssumption DEF NextResultReports, OdbcAssumption, Typed, CachesOK
  <2> QED
    BY <1>4, <2>1, <2>2, <2>3 DEF NextResultReports, Typed, FlagsOK, ParamsOK, CallOK, Return
<1>5. CASE NextResultEnds(m, finalize, fn)
  <2>1. HandleOK'
    BY <1>2, <1>5 DEF NextResultEnds, HandleOK, Live
  <2>2. outputs' \in {"none", "bound", "final"}
    BY <1>5, FinalizedType DEF NextResultEnds, Typed, ParamsOK
  <2>3. CachesOK'
    BY <1>5, OdbcAssumption DEF NextResultEnds, OdbcAssumption, Typed, CachesOK
  <2> QED
    BY <1>5, <2>1, <2>2, <2>3 DEF NextResultEnds, Typed, FlagsOK, ResultsOK, CallOK, Return
<1>6. CASE m.r \in {SQL_SUCCESS, SQL_ERROR} /\ NextResultMoves(m, throw, fn)
  BY <1>2, <1>6, NextResultMovesType DEF Typed, ParamsOK
<1>7. CASE NextResultEndThrows(m, finalize, fn)
  <2>1. HandleOK'
    BY <1>2, <1>7 DEF NextResultEndThrows, HandleOK, Live
  <2> QED
    BY <1>7, <2>1 DEF NextResultEndThrows, Typed, FlagsOK, CachesOK, ResultsOK, ParamsOK, CallOK, flags, caches, Return
<1> QED
  BY <1>3, <1>4, <1>5, <1>6, <1>7 DEF core_sqlsrv_next_result, m

LEMMA NextResultType ==
  ASSUME TypeOK, sqlsrv_next_result
  PROVE  TypeOK'
<1>1. core_sqlsrv_next_result(TRUE, ~conf.continue, conf.continue, "sqlsrv_next_result")
      /\ UNCHANGED <<phase, conf, params_z, current_param>>
  BY DEF sqlsrv_next_result
<1>3. /\ HandleOK' /\ FlagsOK' /\ CachesOK' /\ ResultsOK' /\ CallOK'
      /\ outputs' \in {"none", "bound", "final"}
  BY <1>1, CoreNextResultType DEF TypeOK
<1> QED
  BY <1>1, <1>3 DEF TypeOK, Typed, ParamsOK

LEMMA FlushStepType ==
  ASSUME TypeOK, FlushStep
  PROVE  TypeOK'
<1>1. ASSUME core_sqlsrv_next_result(FALSE, FALSE, FALSE, "sqlsrv_execute"),
             phase' \in {"ready", "flush"}, UNCHANGED <<conf, params_z, current_param>>
      PROVE  TypeOK'
  <2>1. /\ HandleOK' /\ FlagsOK' /\ CachesOK' /\ ResultsOK' /\ CallOK'
        /\ outputs' \in {"none", "bound", "final"}
    BY <1>1, CoreNextResultType DEF TypeOK
  <2> QED
    BY <1>1, <2>1 DEF TypeOK, Typed, ParamsOK
<1>2. CASE BindAndExecute
  BY <1>2, BindAndExecuteType
<1> QED
  BY <1>1, <1>2 DEF FlushStep

(* The cursor over the buffered rows stays between just before the first   *)
(* of them and just after the last, and says so; it succeeds off the rows  *)
(* only by staying before the first.                                       *)
LEMMA BufferedFetchType ==
  ASSUME NEW to \in AnyMoves, current_results \in ResultSets
  PROVE  LET b == BufferedFetch(to) IN
         /\ b.r \in {SQL_SUCCESS, SQL_NO_DATA}
         /\ b.res \in ResultSets
         /\ b.res.kind = current_results.kind /\ b.res.rows = current_results.rows
         /\ b.r = SQL_SUCCESS => \/ b.res.at \in 1 .. b.res.rows
                                 \/ b.res.at = 0 /\ b.res.stayed
         /\ b.r = SQL_NO_DATA => b.res.stayed = current_results.stayed
         /\ current_results.stayed => b.res.stayed
<1> DEFINE b  == BufferedFetch(to)
           n  == current_results.rows
           by == CASE to.style = "SQL_FETCH_NEXT" -> 1
                   [] to.style = "SQL_FETCH_PRIOR" -> -1
                   [] OTHER -> to.offset
           relative == to.style \in {"SQL_FETCH_NEXT", "SQL_FETCH_PRIOR", "SQL_FETCH_RELATIVE"}
           place == CASE to.style = "SQL_FETCH_FIRST" -> 1
                      [] to.style = "SQL_FETCH_LAST" -> n
                      [] OTHER -> IF relative THEN current_results.at + by ELSE by
<1>1. n \in Nat /\ current_results.at \in Nat /\ to.offset \in Int
      /\ current_results.stayed \in BOOLEAN /\ current_results.kind \in {"null", "odbc", "buffered"}
  BY DEF ResultSets, AnyMoves
<1>2. by \in Int
  BY <1>1
<1>3. place \in Int /\ (place <= 0 /\ ~(by < 0 \/ ~relative) => place \in Int)
  BY <1>1, <1>2
<1>4. b = CASE place <= 0 /\ (by < 0 \/ ~relative) ->
                 [r |-> SQL_NO_DATA, res |-> [current_results EXCEPT !.at = 0]]
            [] place > n -> [r |-> SQL_NO_DATA, res |-> [current_results EXCEPT !.at = n + 1]]
            [] OTHER -> [r |-> SQL_SUCCESS,
                         res |-> [current_results EXCEPT !.at = place, !.stayed = @ \/ place = 0]]
  BY DEF BufferedFetch
<1>5. relative => place = current_results.at + by
  BY <1>1
<1>6. place <= 0 /\ ~(by < 0 \/ ~relative) => place = 0
  BY <1>1, <1>2, <1>3, <1>5
<1> HIDE DEF b, by, relative, place
<1>7. CASE place <= 0 /\ (by < 0 \/ ~relative)
  <2>1. b = [r |-> SQL_NO_DATA, res |-> [current_results EXCEPT !.at = 0]]
    BY <1>1, <1>3, <1>4, <1>7
  <2> QED
    BY <2>1 DEF ResultSets, SQL_SUCCESS, SQL_NO_DATA, b
<1>8. CASE place > n
  <2>1. b = [r |-> SQL_NO_DATA, res |-> [current_results EXCEPT !.at = n + 1]]
    BY <1>1, <1>3, <1>4, <1>8
  <2> QED
    BY <1>1, <2>1 DEF ResultSets, SQL_SUCCESS, SQL_NO_DATA, b
<1>9. CASE ~(place <= 0 /\ (by < 0 \/ ~relative)) /\ ~(place > n)
  <2>1. b = [r |-> SQL_SUCCESS,
             res |-> [current_results EXCEPT !.at = place, !.stayed = @ \/ place = 0]]
    BY <1>4, <1>9
  <2>2. place \in Nat /\ (place \in 1 .. n \/ place = 0)
    BY <1>1, <1>3, <1>6, <1>9
  <2>3. /\ b.r = SQL_SUCCESS /\ b.res \in ResultSets /\ b.res.kind = current_results.kind
        /\ b.res.rows = n /\ b.res.at = place
        /\ b.res.stayed = (current_results.stayed \/ place = 0)
    BY <1>1, <2>1, <2>2 DEF ResultSets
  <2>4. b.r = SQL_SUCCESS => \/ b.res.at \in 1 .. b.res.rows
                             \/ b.res.at = 0 /\ b.res.stayed
    BY <2>2, <2>3
  <2>5. current_results.stayed => b.res.stayed
    BY <2>3
  <2>6. b.r # SQL_NO_DATA /\ b.r \in {SQL_SUCCESS, SQL_NO_DATA}
    BY <2>3 DEF SQL_SUCCESS, SQL_NO_DATA
  <2> QED
    BY <2>3, <2>4, <2>5, <2>6 DEF b
<1> QED
  BY <1>7, <1>8, <1>9 DEF b

(* Moving a result set's cursor keeps the handle on its result.            *)
LEMMA ResultsFetchType ==
  ASSUME Typed, NEW to \in AnyMoves, NEW o \in ResultsFetch(to)
  PROVE  /\ Live(o.h) /\ o.h.state = odbc.state /\ o.h.batch = odbc.batch
         /\ o.res \in ResultSets
         /\ current_results.kind # "buffered" =>
              \E x \in SQLFetchScroll(odbc, to, conf.cursor = "forward") :
                o = [r |-> x.r, h |-> x.h, res |-> current_results]
<1>1. Live(odbc) /\ current_results \in ResultSets
  BY DEF Typed, HandleOK, Live, ResultsOK, ResultSets
<1>2. CASE current_results.kind = "buffered"
  <2>1. o.h = odbc /\ o.res = BufferedFetch(to).res
    BY <1>2 DEF ResultsFetch
  <2>2. o.res \in ResultSets
    BY <1>1, <2>1, BufferedFetchType
  <2> QED
    BY <1>1, <1>2, <2>1, <2>2
<1>3. CASE current_results.kind # "buffered"
  <2>1. PICK x \in SQLFetchScroll(odbc, to, conf.cursor = "forward") :
          o = [r |-> x.r, h |-> x.h, res |-> current_results]
    BY <1>3 DEF ResultsFetch
  <2>2. (conf.cursor = "forward") \in BOOLEAN
    OBVIOUS
  <2>3. Live(x.h) /\ x.h.state = odbc.state /\ x.h.batch = odbc.batch
    BY <1>1, <2>2, ScrollLive
  <2> QED
    BY <1>1, <2>1, <2>3
<1> QED
  BY <1>2, <1>3

LEMMA FetchesType ==
  ASSUME Typed, NEW to \in Moves, NEW o \in Fetches(to)
  PROVE  Live(o.h) /\ o.h.state = odbc.state /\ o.h.batch = odbc.batch /\ o.res \in ResultSets
<1>1. CASE o = FetchedAhead
  BY <1>1 DEF FetchedAhead, Typed, HandleOK, Live, ResultsOK, ResultSets
<1>2. CASE o \in ResultsFetch(OneBased(to))
  BY <1>2, ResultsFetchType, MoveTypes
<1> QED
  BY <1>1, <1>2 DEF Fetches

(* Describing the columns: the count comes from the cache, or from ODBC    *)
(* when there is none.                                                     *)
LEMMA DescribedType ==
  ASSUME Typed, NEW cached \in {ACTIVE_NUM_COLS_INVALID} \cup 0 .. MaxCols,
         NEW h, Live(h), NEW d \in Described(cached, h)
  PROVE  /\ d.cols \in {SQL_ERROR} \cup 0 .. MaxCols
         /\ d.column_count \in {ACTIVE_NUM_COLS_INVALID} \cup 0 .. MaxCols
         /\ d.size \in 0 .. MaxCols
         /\ d.column_count # cached => /\ cached = ACTIVE_NUM_COLS_INVALID
                                       /\ d.column_count \in SQLNumResultCols(h) \ {SQL_ERROR}
<1>1. current_meta_data \in 0 .. MaxCols
  BY DEF Typed, CachesOK
<1>2. CASE current_meta_data # 0
  <2>1. d = [cols |-> current_meta_data, column_count |-> cached, size |-> current_meta_data]
    BY <1>2 DEF Described
  <2> QED
    BY <1>1, <2>1
<1>3. CASE current_meta_data = 0
  <2> DEFINE Counted == IF cached # ACTIVE_NUM_COLS_INVALID THEN {cached} ELSE SQLNumResultCols(h)
             Sizes(c) == IF c = SQL_ERROR THEN {0}
                         ELSE {c} \cup IF TRUE \in MetadataFails /\ c > 0 THEN 0 .. c - 1 ELSE {}
  <2>1. PICK c \in Counted :
          d \in { [cols |-> c, column_count |-> IF c = SQL_ERROR THEN cached ELSE c, size |-> k] :
                    k \in Sizes(c) }
    BY <1>3 DEF Described
  <2>2. PICK k \in Sizes(c) :
          d = [cols |-> c, column_count |-> IF c = SQL_ERROR THEN cached ELSE c, size |-> k]
    BY <2>1
  <2>3. d.cols = c /\ d.column_count = (IF c = SQL_ERROR THEN cached ELSE c) /\ d.size = k
    BY <2>2
  <2>4. c \in {SQL_ERROR} \cup 0 .. MaxCols
    BY NumResultColsType
  <2>5. k \in 0 .. MaxCols
    <3>1. CASE c = SQL_ERROR
      BY <3>1, OdbcAssumption DEF OdbcAssumption
    <3>2. CASE c # SQL_ERROR
      <4>1. c \in 0 .. MaxCols
        BY <2>4, <3>2
      <4>2. k = c \/ (c > 0 /\ k \in 0 .. c - 1)
        BY <3>2
      <4> QED
        BY <4>1, <4>2, OdbcAssumption DEF OdbcAssumption
    <3> QED
      BY <3>1, <3>2
  <2>6. c # SQL_ERROR /\ c # cached => cached = ACTIVE_NUM_COLS_INVALID /\ c \in SQLNumResultCols(h)
    OBVIOUS
  <2> QED
    BY <2>3, <2>4, <2>5, <2>6
<1> QED
  BY <1>2, <1>3

(* Reading the fields of the row a fetch landed on.                        *)
LEMMA FetchFieldsType ==
  ASSUME Typed, NEW c \in {ACTIVE_NUM_COLS_INVALID} \cup 0 .. MaxCols,
         NEW o, Live(o.h), NEW to, FetchFields(c, o, to)
  PROVE  /\ current_meta_data' \in 0 .. MaxCols
         /\ last_field_index' \in -1 .. MaxCols - 1
         /\ fetch_fields_count' \in 0 .. MaxCols
         /\ call'.ret \in {"true", "false"}
<1> DEFINE before == IF Prefetched THEN last_field_index ELSE -1
<1>1. before \in -1 .. MaxCols - 1
  BY OdbcAssumption DEF OdbcAssumption, Typed, CachesOK
<1>2. fetch_fields_count \in 0 .. MaxCols
  BY DEF Typed, CachesOK
<1>3. PICK d \in Described(c, o.h) :
        /\ current_meta_data' = d.size
        /\ \/ /\ ~WholeVector(d)
              /\ last_field_index' = before
              /\ Fetched("sqlsrv_fetch_array", to, "false", 0)
              /\ UNCHANGED fetch_fields_count
           \/ /\ WholeVector(d)
              /\ fetch_fields_count' \in {fetch_fields_count, d.cols}
              /\ \/ /\ last_field_index' \in before .. d.cols - 2
                    /\ Fetched("sqlsrv_fetch_array", to, "false", 0)
                 \/ /\ last_field_index' = d.cols - 1
                    /\ Fetched("sqlsrv_fetch_array", to, "true", d.cols)
  BY DEF FetchFields
<1> HIDE DEF before
<1>4. d.cols \in {SQL_ERROR} \cup 0 .. MaxCols /\ d.size \in 0 .. MaxCols
  BY DescribedType
<1>5. CASE ~WholeVector(d)
  BY <1>1, <1>2, <1>3, <1>4, <1>5 DEF Fetched
<1>6. CASE WholeVector(d)
  <2>1. d.cols \in 0 .. MaxCols
    BY <1>4, <1>6 DEF WholeVector
  <2>2. fetch_fields_count' \in 0 .. MaxCols
    BY <1>2, <1>3, <1>6, <2>1
  <2>3. last_field_index' \in -1 .. MaxCols - 1
    BY <1>1, <1>3, <1>6, <2>1, OdbcAssumption DEF OdbcAssumption
  <2>4. call'.ret \in {"true", "false"}
    BY <1>3, <1>6 DEF Fetched
  <2> QED
    BY <1>3, <1>4, <2>2, <2>3, <2>4
<1> QED
  BY <1>5, <1>6

LEMMA FetchRefusedType ==
  ASSUME Typed, FetchRefused
  PROVE  column_count' \in {ACTIVE_NUM_COLS_INVALID} \cup 0 .. MaxCols
BY OdbcAssumption DEF OdbcAssumption, FetchRefused, Typed, CachesOK

LEMMA FetchType ==
  ASSUME Typed, NEW to \in Moves, NEW fn, core_sqlsrv_fetch(to, fn)
  PROVE  Typed' /\ phase' \in {phase, "none"}
<1>1. CASE /\ FetchRefused
           /\ Fetched(fn, to, "false", 0)
           /\ UNCHANGED <<phase, conf, odbc, flags, last_field_index, current_meta_data,
                          fetch_fields_count, current_results, params, delivered>>
  <2>1. CallOK'
    BY <1>1, DeliveredType, FetchedType
  <2> QED
    BY <1>1, <2>1, FetchRefusedType
       DEF Typed, HandleOK, FlagsOK, CachesOK, ResultsOK, ParamsOK, flags, params
<1>2. CASE Crash(fn)
  BY <1>2, CrashType, GoneType DEF Crash, TypeOK
<1>4. CASE Dies(fn)
  BY <1>4, DiesType, GoneType DEF Dies, TypeOK
<1>3. ASSUME NEW c \in {ACTIVE_NUM_COLS_INVALID} \cup 0 .. MaxCols,
             NEW o \in Fetches(to),
             column_count' = c,
             odbc' = o.h, current_results' = o.res,
             \/ FetchEnds(o) /\ Fetched(fn, to, "null", 0)
                  /\ UNCHANGED <<last_field_index, current_meta_data, fetch_fields_count>>
             \/ FetchFails(o) /\ Fetched(fn, to, "false", 0)
                  /\ UNCHANGED <<last_field_index, current_meta_data, fetch_fields_count>>
             \/ FetchLands(o) /\ (FetchOnly(to) \/ FetchFields(c, o, to)),
             UNCHANGED <<phase, conf, executed, past_next_result_end, params>>
      PROVE  Typed'
  <2>1. Live(o.h) /\ o.res \in ResultSets
    BY <1>3, FetchesType
  <2>2. HandleOK' /\ ResultsOK' /\ ParamsOK'
    <3>1. HandleOK'
      BY <1>3, <2>1 DEF HandleOK, Live
    <3>2. ResultsOK'
      BY <1>3, <2>1 DEF ResultsOK, ResultSets
    <3>3. ParamsOK'
      BY <1>3 DEF Typed, ParamsOK, params
    <3> QED
      BY <3>1, <3>2, <3>3
  <2>3. FlagsOK' /\ delivered' \in Nat
    <3>1. /\ executed' \in BOOLEAN /\ past_next_result_end' \in BOOLEAN
          /\ has_rows \in BOOLEAN /\ fetch_called \in BOOLEAN /\ past_fetch_end \in BOOLEAN
          /\ delivered \in Nat
      BY <1>3 DEF Typed, FlagsOK, CallOK
    <3>2. CASE FetchEnds(o)
      <4>1. past_fetch_end' \in BOOLEAN /\ fetch_called' \in BOOLEAN /\ UNCHANGED <<has_rows, delivered>>
        BY <3>2 DEF FetchEnds
      <4> QED
        BY <3>1, <4>1 DEF FlagsOK
    <3>3. CASE FetchFails(o)
      BY <3>1, <3>3 DEF FlagsOK, FetchFails
    <3>4. CASE FetchLands(o)
      <4>1. delivered' \in {delivered, delivered + 1} /\ fetch_called' = TRUE /\ has_rows' = TRUE
            /\ UNCHANGED past_fetch_end
        BY <3>4 DEF FetchLands
      <4> QED
        BY <3>1, <4>1 DEF FlagsOK
    <3> QED
      BY <1>3, <3>2, <3>3, <3>4
  <2>4. CASE FetchFields(c, o, to)
    <3>1. /\ current_meta_data' \in 0 .. MaxCols
          /\ last_field_index' \in -1 .. MaxCols - 1
          /\ fetch_fields_count' \in 0 .. MaxCols
          /\ call'.ret \in {"true", "false"}
      BY <2>1, <2>4, FetchFieldsType
    <3>2. CachesOK' /\ CallOK'
      BY <1>3, <2>3, <3>1 DEF CachesOK, CallOK
    <3> QED
      BY <1>3, <2>2, <2>3, <3>2 DEF Typed
  <2>5. CASE FetchOnly(to)
    <3>1. CachesOK'
      BY <1>3, <2>5, OdbcAssumption DEF OdbcAssumption, Typed, CachesOK, FetchOnly
    <3>2. CallOK'
      BY <2>3, <2>5, FetchedType DEF FetchOnly
    <3> QED
      BY <1>3, <2>2, <2>3, <3>1, <3>2 DEF Typed
  <2>6. CASE /\ \E r \in {"null", "false"} : Fetched(fn, to, r, 0)
             /\ UNCHANGED <<last_field_index, current_meta_data, fetch_fields_count>>
    <3>1. CachesOK'
      BY <1>3, <2>6 DEF Typed, CachesOK
    <3>2. CallOK'
      BY <2>3, <2>6, FetchedType
    <3> QED
      BY <1>3, <2>2, <2>3, <3>1, <3>2 DEF Typed
  <2> QED
    BY <1>3, <2>4, <2>5, <2>6
<1> QED
  BY <1>1, <1>2, <1>3, <1>4 DEF core_sqlsrv_fetch

LEMMA GetsFieldType ==
  ASSUME TypeOK, NEW i \in 0 .. MaxCols - 1, GetsField(i)
  PROVE  TypeOK'
<1>1. PICK d \in Described(column_count, odbc) :
        /\ column_count' = d.column_count
        /\ current_meta_data' = d.size
        /\ \/ Return("sqlsrv_get_field", "false") /\ UNCHANGED last_field_index
           \/ Return("sqlsrv_get_field", "value") /\ last_field_index' = i
  BY DEF GetsField
<1>2. UNCHANGED <<phase, conf, odbc, flags, fetch_fields_count, current_results, params, delivered>>
  BY DEF GetsField
<1>3. d.column_count \in {ACTIVE_NUM_COLS_INVALID} \cup 0 .. MaxCols /\ d.size \in 0 .. MaxCols
  BY DescribedType DEF TypeOK, Typed, HandleOK, CachesOK, Live
<1>4. CachesOK'
  BY <1>1, <1>2, <1>3, OdbcAssumption DEF OdbcAssumption, TypeOK, Typed, CachesOK
<1>5. CallOK'
  BY <1>1, <1>2, DeliveredType, ReturnType DEF TypeOK
<1> QED
  BY <1>2, <1>4, <1>5 DEF TypeOK, Typed, HandleOK, FlagsOK, ResultsOK, ParamsOK, flags, params

LEMMA GetFieldType ==
  ASSUME TypeOK, NEW i \in 0 .. MaxCols - 1, sqlsrv_get_field(i)
  PROVE  TypeOK'
BY GetsFieldType, DiesType DEF sqlsrv_get_field

(* Looking for a first row.                                                *)
LEMMA LooksAheadType ==
  ASSUME TypeOK, LooksAhead
  PROVE  /\ Live(odbc') /\ odbc'.state = odbc.state /\ odbc'.batch = odbc.batch
         /\ ResultsOK' /\ has_rows' \in BOOLEAN
<1>1. Live(odbc) /\ current_results \in ResultSets /\ has_rows \in BOOLEAN
  BY DEF TypeOK, Typed, HandleOK, Live, ResultsOK, ResultSets, FlagsOK
<1>2. CASE UNCHANGED <<odbc, current_results, has_rows>>
  BY <1>1, <1>2 DEF TypeOK, Typed, ResultsOK
<1>3. ASSUME NEW o \in SQLFetchScroll(odbc, [style |-> "SQL_FETCH_NEXT", offset |-> 0], TRUE),
             odbc' = o.h, has_rows' = (o.r = SQL_SUCCESS), UNCHANGED current_results
      PROVE  /\ Live(odbc') /\ odbc'.state = odbc.state /\ odbc'.batch = odbc.batch
             /\ ResultsOK' /\ has_rows' \in BOOLEAN
  <2>1. Live(o.h) /\ o.h.state = odbc.state /\ o.h.batch = odbc.batch
    BY <1>1, MoveTypes, ScrollLive
  <2> QED
    BY <1>3, <2>1 DEF TypeOK, Typed, ResultsOK
<1>4. ASSUME NEW o \in ResultsFetch(First),
             has_rows' = (o.r = SQL_SUCCESS),
             odbc' = [o.h EXCEPT !.at = 0] \/ odbc' = o.h,
             \/ current_results' = o.res
             \/ current_results' = [o.res EXCEPT !.at = 0]
             \/ current_results' = [o.res EXCEPT !.at = @]
      PROVE  /\ Live(odbc') /\ odbc'.state = odbc.state /\ odbc'.batch = odbc.batch
             /\ ResultsOK' /\ has_rows' \in BOOLEAN
  <2>1. Live(o.h) /\ o.h.state = odbc.state /\ o.h.batch = odbc.batch /\ o.res \in ResultSets
    BY MoveTypes, ResultsFetchType DEF TypeOK
  <2>2. Live(odbc') /\ odbc'.state = odbc.state /\ odbc'.batch = odbc.batch
    BY <1>4, <2>1 DEF Live, Handles
  <2>3. ResultsOK'
    BY <1>4, <2>1 DEF ResultsOK, ResultSets
  <2> QED
    BY <1>4, <2>2, <2>3
<1> QED
  BY <1>2, <1>3, <1>4 DEF LooksAhead

LEMMA LookThrowsType ==
  ASSUME TypeOK, LookThrows
  PROVE  /\ Live(odbc') /\ odbc'.state = odbc.state /\ odbc'.batch = odbc.batch
         /\ ResultsOK' /\ has_rows' \in BOOLEAN
<1>1. PICK o \in ResultsFetch(First) : o.r = SQL_SUCCESS /\ odbc' = o.h
  BY DEF LookThrows
<1>2. Live(o.h) /\ o.h.state = odbc.state /\ o.h.batch = odbc.batch
  BY MoveTypes, ResultsFetchType DEF TypeOK
<1> QED
  BY <1>1, <1>2 DEF LookThrows, TypeOK, Typed, ResultsOK

LEMMA HasRowsType ==
  ASSUME TypeOK, sqlsrv_has_rows
  PROVE  TypeOK'
<1>1. HandleOK' /\ ResultsOK' /\ has_rows' \in BOOLEAN
  <2>1. CASE LooksAhead
    BY <2>1, LooksAheadType DEF HandleOK, Live
  <2>2. CASE UNCHANGED <<odbc, current_results, has_rows>>
    BY <2>2 DEF TypeOK, Typed, HandleOK, ResultsOK, FlagsOK
  <2>3. CASE LookThrows
    BY <2>3, LookThrowsType DEF HandleOK, Live
  <2> QED
    BY <2>1, <2>2, <2>3 DEF sqlsrv_has_rows
<1>2. \E r \in {"true", "false"} : Return("sqlsrv_has_rows", r)
  BY DEF sqlsrv_has_rows
<1>3. UNCHANGED <<phase, conf, executed, past_fetch_end, past_next_result_end, fetch_called,
                  caches, params, delivered>>
  BY DEF sqlsrv_has_rows
<1>4. CallOK'
  BY <1>2, <1>3, DeliveredType, ReturnType DEF TypeOK
<1> QED
  BY <1>1, <1>3, <1>4 DEF TypeOK, Typed, FlagsOK, CachesOK, ParamsOK, caches, params

LEMMA RowCountType ==
  ASSUME TypeOK, NEW fn, RowCount(fn)
  PROVE  TypeOK'
<1>1. CASE Crash(fn)
  BY <1>1, CrashType
<1>2. CASE /\ Return(fn, "false") \/ Return(fn, "value")
           /\ UNCHANGED <<phase, conf, odbc, flags, caches, current_results, params, delivered>>
  <2>1. CallOK'
    BY <1>2, DeliveredType, ReturnType DEF TypeOK
  <2> QED
    BY <1>2, <2>1 DEF TypeOK, Typed, HandleOK, FlagsOK, CachesOK, ResultsOK, ParamsOK, flags, caches, params
<1> QED
  BY <1>1, <1>2 DEF RowCount

LEMMA SendStreamType ==
  ASSUME TypeOK, sqlsrv_send_stream_data
  PROVE  TypeOK'
<1>1. HandleOK'
  <2>1. Live(odbc)
    BY DEF TypeOK, Typed, HandleOK, Live
  <2>2. CASE odbc' = odbc \/ odbc' = Idle
    BY <2>1, <2>2, IdleLive DEF HandleOK, Live
  <2>3. ASSUME NEW o \in SQLParamData(odbc), odbc' = o.h PROVE HandleOK'
    <3>1. Live(o.h)
      BY <2>1, ParamDataLive
    <3> QED
      BY <2>3, <3>1 DEF HandleOK, Live
  <2> QED
    BY <2>2, <2>3 DEF sqlsrv_send_stream_data, PacketFails, SendPacket, SQLCancel
<1>2. outputs' \in {"none", "bound", "final"} /\ current_param' \in BOOLEAN
  BY DEF sqlsrv_send_stream_data, PacketFails, SendPacket, TypeOK, Typed, ParamsOK
<1>3. \E r \in {"true", "false", "null"} : Return("sqlsrv_send_stream_data", r)
  BY DEF sqlsrv_send_stream_data, PacketFails, SendPacket
<1>4. UNCHANGED <<phase, conf, flags, caches, current_results, params_z, delivered>>
  BY DEF sqlsrv_send_stream_data
<1>5. CallOK'
  BY <1>3, <1>4, DeliveredType, ReturnType DEF TypeOK
<1> QED
  BY <1>1, <1>2, <1>4, <1>5 DEF TypeOK, Typed, FlagsOK, CachesOK, ResultsOK, ParamsOK, flags, caches

LEMMA CancelType ==
  ASSUME TypeOK, sqlsrv_cancel
  PROVE  TypeOK'
<1>1. HandleOK'
  BY IdleLive DEF sqlsrv_cancel, SQLCancel, TypeOK, Typed, HandleOK, Live
<1>2. \E r \in {"true", "false"} : Return("sqlsrv_cancel", r)
  BY DEF sqlsrv_cancel
<1>3. CallOK'
  BY <1>2, DeliveredType, ReturnType DEF sqlsrv_cancel, TypeOK
<1> QED
  BY <1>1, <1>3 DEF sqlsrv_cancel, TypeOK, Typed, FlagsOK, CachesOK, ResultsOK, ParamsOK, flags, caches, params

(* Draining stops at the first failed statement after the current result,  *)
(* with the handle on it, or leaves the handle idle.                       *)
LEMMA DrainedLive ==
  ASSUME NEW h, Live(h)
  PROVE  /\ Live(Drained(h))
         /\ h.state # "open" => Drained(h) = h
         /\ h.state = "open" => Drained(h).state = "idle" \/ OnError(Drained(h))
         /\ h.state = "open" => \/ Drained(h) = Idle
                                \/ /\ OnError(Drained(h)) /\ Drained(h).at = 0
                                   /\ Drained(h).batch # h.batch
<1> DEFINE stops == { i \in 2 .. Len(h.batch) : h.batch[i].kind = "error" }
           first == CHOOSE i \in stops : \A j \in stops : i <= j
<1>1. CASE h.state # "open"
  BY <1>1 DEF Drained
<1>2. CASE h.state = "open" /\ stops = {}
  <2>1. Drained(h) = Idle
    BY <1>2 DEF Drained
  <2> QED
    BY <1>2, <2>1, IdleLive DEF Idle
<1>3. CASE h.state = "open" /\ stops # {}
  <2>1. h.batch \in Seq(Items)
    BY <1>3 DEF Live, Handles
  <2>2. Len(h.batch) \in Nat
    BY <2>1
  <2>3. \E i \in stops : \A j \in stops : i <= j
    <3>1. stops \subseteq Nat
      BY <2>2
    <3> DEFINE less == { p \in Nat \X Nat : p[1] < p[2] }
    <3>2. IsWellFoundedOn(less, Nat)
      BY NatLessThanWellFounded DEF OpToRel
    <3> HIDE DEF less
    <3>3. PICK i \in stops : \A j \in stops : ~(<<j, i>> \in less)
      BY <1>3, <3>1, <3>2, WFMin
    <3>4. \A j \in Nat, k \in Nat : j < k => <<j, k>> \in less
      BY DEF less
    <3>5. ASSUME NEW j \in stops PROVE i <= j
      <4>1. i \in Nat /\ j \in Nat /\ ~(<<j, i>> \in less)
        BY <3>1, <3>3
      <4>2. ~(j < i)
        BY <3>4, <4>1
      <4> QED
        BY <4>1, <4>2
    <3> QED
      BY <3>5
  <2>4. first \in stops
    BY <2>3
  <2> HIDE DEF first
  <2>5. first \in 2 .. Len(h.batch) /\ h.batch[first].kind = "error"
    BY <2>4
  <2> DEFINE rest == SubSeq(h.batch, first, Len(h.batch))
  <2>6. /\ rest \in Seq(Items)
        /\ Len(rest) = Len(h.batch) - first + 1
        /\ rest[1] = h.batch[first]
    BY <2>1, <2>2, <2>5, SubSeqProperties
  <2>7. rest # << >>
    <3>1. Len(<< >>) = 0
      BY EmptySeq
    <3>2. Len(rest) # 0
      BY <2>2, <2>5, <2>6
    <3> QED
      BY <3>1, <3>2
  <2>8. Drained(h) = Opened(rest)
    BY <1>3 DEF Drained, first
  <2> HIDE DEF rest
  <2>9. Live(Opened(rest)) /\ Opened(rest).state = "open" /\ Opened(rest).batch = rest
    BY <2>6, <2>7, OpenedLive
  <2>10. Head(rest) = rest[1]
    BY <2>6, <2>7, HeadTailProperties
  <2>11. rest # h.batch
    BY <2>2, <2>5, <2>6
  <2>12. Opened(rest).at = 0
    BY DEF Opened
  <2> QED
    BY <1>3, <2>5, <2>6, <2>8, <2>9, <2>10, <2>11, <2>12 DEF OnError
<1> QED
  BY <1>1, <1>2, <1>3

LEMMA FreeType ==
  ASSUME TypeOK, sqlsrv_free_stmt
  PROVE  TypeOK'
<1>1. Live(odbc)
  BY DEF TypeOK, Typed, HandleOK, Live
<1>2. HandleOK'
  BY <1>1, DrainedLive DEF sqlsrv_free_stmt, HandleOK, Live
<1> QED
  BY <1>2, GoneType DEF sqlsrv_free_stmt, TypeOK, Typed, CallOK, Return

LEMMA InitType == Init => TypeOK
<1> SUFFICES ASSUME Init PROVE TypeOK
  OBVIOUS
<1>1. HandleOK
  BY IdleLive DEF Init, HandleOK, Live
<1>2. CachesOK
  BY OdbcAssumption DEF OdbcAssumption, Init, CachesOK
<1>3. ResultsOK
  BY DEF Init, ResultsOK, NullResults
<1>4. FlagsOK /\ ParamsOK /\ CallOK
  BY DEF Init, FlagsOK, ParamsOK, CallOK
<1> QED
  BY <1>1, <1>2, <1>3, <1>4 DEF Init, TypeOK, Typed

LEMMA NextType == TypeOK /\ [Next]_vars => TypeOK'
<1> SUFFICES ASSUME TypeOK, [Next]_vars PROVE TypeOK'
  OBVIOUS
<1>1. ASSUME NEW c \in Confs, NEW p \in ParamKinds, sqlsrv_prepare(c, p) PROVE TypeOK'
  BY <1>1, PrepareType
<1>2. ASSUME NEW c \in Confs, NEW p \in ParamKinds, sqlsrv_query(c, p) PROVE TypeOK'
  BY <1>2, QueryType
<1>3. CASE sqlsrv_execute
  BY <1>3, ExecuteActionType
<1>4. CASE FlushStep
  BY <1>4, FlushStepType
<1>5. CASE sqlsrv_next_result
  BY <1>5, NextResultType
<1>6. ASSUME NEW to \in Moves, sqlsrv_fetch(to) \/ sqlsrv_fetch_array(to) PROVE TypeOK'
  BY <1>6, FetchType DEF sqlsrv_fetch, sqlsrv_fetch_array, TypeOK
<1>7. ASSUME NEW i \in 0 .. MaxCols - 1, sqlsrv_get_field(i) PROVE TypeOK'
  BY <1>7, GetFieldType
<1>8. CASE sqlsrv_has_rows
  BY <1>8, HasRowsType
<1>9. CASE HasRowsCrashes
  BY <1>9, CrashType DEF HasRowsCrashes
<1>10. CASE RowCount("sqlsrv_rows_affected") \/ RowCount("sqlsrv_num_rows")
  BY <1>10, RowCountType
<1>11. CASE sqlsrv_send_stream_data
  BY <1>11, SendStreamType
<1>12. CASE sqlsrv_cancel
  BY <1>12, CancelType
<1>13. CASE sqlsrv_free_stmt
  BY <1>13, FreeType
<1>14. CASE UNCHANGED vars
  <2>1. CallOK'
    BY <1>14 DEF vars, TypeOK, Typed, CallOK
  <2> QED
    BY <1>14, <2>1 DEF vars, TypeOK, Typed, HandleOK, FlagsOK, CachesOK, ResultsOK, ParamsOK, flags, caches, params
<1> QED
  BY <1>1, <1>2, <1>3, <1>4, <1>5, <1>6, <1>7, <1>8, <1>9, <1>10, <1>11, <1>12, <1>13, <1>14 DEF Next

(* Every variable of a statement keeps its type, and an open handle is on  *)
(* a result, whatever the script calls in whatever order.                  *)
THEOREM TypeCorrect == Spec => []TypeOK
<1>1. Init => TypeOK
  BY InitType
<1>2. TypeOK /\ [Next]_vars => TypeOK'
  BY NextType
<1> QED
  BY <1>1, <1>2, PTL DEF Spec
-----------------------------------------------------------------------------
(***************************************************************************)
(* The safety invariants.  None is inductive alone: a row is told in its   *)
(* place only if the flags say at every moment where the ODBC cursor       *)
(* stands, and they do only if nothing was told, looked at or counted      *)
(* before the result there is now.                                         *)
(***************************************************************************)

(* Nothing was told of a statement that does not exist.                    *)
NothingYet ==
  phase = "none" => /\ ~fetch_called /\ ~has_rows /\ delivered = 0
                    /\ last_field_index = -1
                    /\ current_results.kind # "buffered"

(* While data is sent there is no result to have told anything of.         *)
NothingTold ==
  odbc.state = "need_data" => /\ ~fetch_called /\ ~has_rows /\ delivered = 0
                              /\ column_count = ACTIVE_NUM_COLS_INVALID

(* A forward-only statement reads from ODBC.                               *)
ReadsFromOdbc == conf.cursor = "forward" => current_results.kind # "buffered"

(* Where a forward-only cursor stands, as the two flags tell: before the   *)
(* first row, on the row that was looked at, or on the last row told of;   *)
(* or else past the end.                                                   *)
Place ==
  phase # "none" /\ OnRowset(odbc) /\ conf.cursor = "forward" =>
    /\ ~has_rows => ~fetch_called /\ delivered = 0
    /\ has_rows /\ ~fetch_called => past_fetch_end \/ (odbc.at = 1 /\ delivered = 0)
    /\ has_rows = fetch_called => odbc.at \in {delivered, Head(odbc.batch).rows + 1}

(* No field was read of a row that is only looked at.                      *)
NoFieldRead ==
  conf.cursor = "forward" /\ ~fetch_called /\ ~past_fetch_end => last_field_index = -1

Safe == /\ NothingYet /\ NothingTold /\ ReadsFromOdbc /\ Place /\ NoFieldRead
        /\ ColumnCountFresh /\ FreshRow

IInv == TypeOK /\ Safe

(* Three ways to keep Safe.  What an execution or a step to the next       *)
(* result puts back is safe whatever was there before.                     *)
LEMMA FreshSafe ==
  ASSUME ~fetch_called', ~has_rows', delivered' = 0, last_field_index' = -1,
         column_count' # ACTIVE_NUM_COLS_INVALID
           => /\ odbc'.state # "need_data"
              /\ odbc'.state = "open" => column_count' = Head(odbc'.batch).cols,
         phase' # "none" /\ OnRowset(odbc)' /\ conf'.cursor = "forward" => odbc'.at = 0,
         phase' = "none" \/ conf'.cursor = "forward" => current_results'.kind # "buffered"
  PROVE  Safe'
BY DEF Safe, NothingYet, NothingTold, ReadsFromOdbc, Place, NoFieldRead, ColumnCountFresh, FreshRow

(* A call that leaves the flags alone and the handle too, or idle.         *)
LEMMA StillSafe ==
  ASSUME Safe,
         UNCHANGED <<conf, has_rows, fetch_called, past_fetch_end, last_field_index,
                     current_results, delivered>>,
         phase' = "none" <=> phase = "none",
         (odbc' = odbc /\ column_count' = column_count) \/ odbc'.state = "idle",
         call'.fn # "sqlsrv_fetch" \/ call'.ret # "true"
  PROVE  Safe'
BY DEF Safe, NothingYet, NothingTold, ReadsFromOdbc, Place, NoFieldRead, ColumnCountFresh, FreshRow, OnRowset

(* A column count that comes from the cache or from ODBC is that of the    *)
(* current result, and there is none while data is sent.                   *)
LEMMA CountSafe ==
  ASSUME TypeOK, Safe,
         odbc'.state = odbc.state, odbc'.batch = odbc.batch,
         \/ column_count' = column_count
         \/ /\ column_count = ACTIVE_NUM_COLS_INVALID
            /\ column_count' \in SQLNumResultCols(odbc) \ {SQL_ERROR}
  PROVE  /\ ColumnCountFresh'
         /\ odbc.state = "need_data" => column_count' = ACTIVE_NUM_COLS_INVALID
<1>1. Live(odbc)
  BY DEF TypeOK, Typed, HandleOK, Live
<1>2. CASE column_count' = column_count
  BY <1>2 DEF Safe, ColumnCountFresh, NothingTold
<1>3. CASE column_count' \in SQLNumResultCols(odbc) \ {SQL_ERROR}
  <2>1. /\ odbc.state = "open" => column_count' = Head(odbc.batch).cols
        /\ odbc.state # "need_data"
    BY <1>1, <1>3, NumResultColsType
  <2> QED
    BY <2>1 DEF ColumnCountFresh
<1> QED
  BY <1>2, <1>3

-----------------------------------------------------------------------------
(* One lemma per action.                                                   *)

(* core_sqlsrv_execute leaves things as they were, but for a cancel, or    *)
(* makes them new.                                                         *)
LEMMA ExecuteSafe ==
  ASSUME NEW h, Live(h), NEW c \in AnyConf, NEW p, NEW ex \in BOOLEAN, NEW fn,
         core_sqlsrv_execute(h, c, p, ex, fn)
  PROVE  \/ /\ odbc' \in {h, Idle} /\ executed' = ex /\ call' = [fn |-> fn, to |-> "none", ret |-> "false", fields |-> 0]
            /\ UNCHANGED <<past_fetch_end, past_next_result_end, has_rows, fetch_called,
                           caches, current_results, delivered>>
         \/ /\ ~fetch_called' /\ ~has_rows' /\ delivered' = 0 /\ last_field_index' = -1
            /\ column_count' # ACTIVE_NUM_COLS_INVALID
                 => /\ odbc'.state # "need_data"
                    /\ odbc'.state = "open" => column_count' = Head(odbc'.batch).cols
            /\ ~past_next_result_end'
            /\ c.cursor # "buffered" => odbc'.at = 0 /\ current_results'.kind = "odbc" /\ executed'
<1> DEFINE bound == IF p = "output" THEN "bound" ELSE "none"
<1>0. bound \in {"none", "bound"}
  OBVIOUS
<1>1. PICK o \in Executions(h, c, p) :
        \/ /\ o.r = SQL_ERROR
           /\ ExecuteFails(o.h, ex)
           /\ Return(fn, "false")
           /\ UNCHANGED <<past_fetch_end, past_next_result_end, has_rows, fetch_called,
                          caches, current_results, delivered>>
        \/ /\ o.r # SQL_ERROR
           /\ ResetForNewResult
           /\ \E n \in NewResults(o.h, c.cursor) :
                /\ current_results' = n.res
                /\ \/ n.ok /\ ExecuteReturns(o, n, c, bound) /\ Return(fn, "true")
                   \/ n.ok /\ ExecuteFailsLate(o, n, c, bound) /\ Return(fn, "false")
                   \/ /\ ~n.ok /\ ExecuteFails(n.h, ex) /\ Return(fn, "false")
                      /\ column_count' = ACTIVE_NUM_COLS_INVALID
  BY DEF core_sqlsrv_execute
<1> HIDE DEF bound
<1>2. /\ Live(o.h)
      /\ o.r = SQL_ERROR => o.h = h \/ o.h = Idle
      /\ o.r # SQL_ERROR => o.h.state \in {"open", "need_data"} /\ o.h.at = 0
  BY ExecutionsType
<1>3. CASE o.r = SQL_ERROR
  BY <1>1, <1>2, <1>3 DEF ExecuteFails, SQLCancel, Return
<1>4. CASE o.r # SQL_ERROR
  <2>1. ResetForNewResult
    BY <1>1, <1>4
  <2>2. PICK n \in NewResults(o.h, c.cursor) :
          /\ current_results' = n.res
          /\ \/ n.ok /\ ExecuteReturns(o, n, c, bound)
             \/ n.ok /\ ExecuteFailsLate(o, n, c, bound)
             \/ ~n.ok /\ column_count' = ACTIVE_NUM_COLS_INVALID
    BY <1>1, <1>4
  <2>3. ~fetch_called' /\ ~has_rows' /\ delivered' = 0 /\ last_field_index' = -1 /\ ~past_next_result_end'
    BY <2>1 DEF ResetForNewResult
  <2>4. column_count' # ACTIVE_NUM_COLS_INVALID
          => /\ odbc'.state # "need_data"
             /\ odbc'.state = "open" => column_count' = Head(odbc'.batch).cols
    <3>1. CASE column_count' = ACTIVE_NUM_COLS_INVALID
      BY <3>1
    <3>2. CASE ExecuteReturns(o, n, c, bound)
      BY <1>0, <1>4, <3>2, ExecuteReturnsType
    <3>3. CASE ExecuteFailsLate(o, n, c, bound)
      BY <3>3 DEF ExecuteFailsLate, SQLCancel, Idle
    <3> QED
      BY <2>2, <3>1, <3>2, <3>3
  <2>5. c.cursor # "buffered" => odbc'.at = 0 /\ current_results'.kind = "odbc" /\ executed'
    <3> SUFFICES ASSUME c.cursor # "buffered" PROVE odbc'.at = 0 /\ current_results'.kind = "odbc" /\ executed'
      OBVIOUS
    <3>1. n = [ok |-> TRUE, h |-> o.h, res |-> OdbcResults]
      BY <1>2, <1>4, NewResultsType
    <3>2. /\ ExecuteReturns(o, n, c, bound) \/ ExecuteFailsLate(o, n, c, bound)
          /\ current_results' = OdbcResults
      BY <2>2, <3>1
    <3>3. odbc' \in {o.h, Idle} /\ executed'
      BY <3>1, <3>2 DEF ExecuteReturns, ExecuteFailsLate, SQLCancel
    <3> QED
      BY <1>2, <1>4, <3>2, <3>3 DEF OdbcResults, Idle
  <2> QED
    BY <2>3, <2>4, <2>5
<1> QED
  BY <1>3, <1>4

LEMMA BindAndExecuteSafe ==
  ASSUME IInv, phase # "none", BindAndExecute
  PROVE  Safe'
<1>1. Live(odbc) /\ conf \in AnyConf /\ executed \in BOOLEAN
  BY DEF IInv, TypeOK, Typed, HandleOK, FlagsOK, Live, AnyConf
<1>2. phase' = "ready" /\ conf' = conf
  BY DEF BindAndExecute
<1>3. ASSUME core_sqlsrv_execute(odbc, conf, params_z,
                                 executed /\ params_z \in {"none", "lost"}, "sqlsrv_execute")
      PROVE  Safe'
  <2>2. CASE /\ odbc' \in {odbc, Idle} /\ call'.ret = "false"
             /\ UNCHANGED <<past_fetch_end, past_next_result_end, has_rows, fetch_called,
                            caches, current_results, delivered>>
    BY <1>2, <2>2, StillSafe DEF IInv, caches, Idle
  <2>3. CASE /\ ~fetch_called' /\ ~has_rows' /\ delivered' = 0 /\ last_field_index' = -1
             /\ column_count' # ACTIVE_NUM_COLS_INVALID
                  => /\ odbc'.state # "need_data"
                     /\ odbc'.state = "open" => column_count' = Head(odbc'.batch).cols
             /\ conf.cursor # "buffered" => odbc'.at = 0 /\ current_results'.kind = "odbc"
    <3>1. phase' # "none"
      BY <1>2
    <3>2. conf'.cursor = "forward" => odbc'.at = 0 /\ current_results'.kind # "buffered"
      BY <1>2, <2>3
    <3> QED
      BY <2>3, <3>1, <3>2, FreshSafe
  <2>4. \/ /\ odbc' \in {odbc, Idle} /\ call'.ret = "false"
           /\ UNCHANGED <<past_fetch_end, past_next_result_end, has_rows, fetch_called,
                          caches, current_results, delivered>>
        \/ /\ ~fetch_called' /\ ~has_rows' /\ delivered' = 0 /\ last_field_index' = -1
           /\ column_count' # ACTIVE_NUM_COLS_INVALID
                => /\ odbc'.state # "need_data"
                   /\ odbc'.state = "open" => column_count' = Head(odbc'.batch).cols
           /\ conf.cursor # "buffered" => odbc'.at = 0 /\ current_results'.kind = "odbc"
    <3> DEFINE ex == executed /\ params_z \in {"none", "lost"}
    <3>1. ex \in BOOLEAN /\ core_sqlsrv_execute(odbc, conf, params_z, ex, "sqlsrv_execute")
      BY <1>3
    <3> HIDE DEF ex
    <3> QED
      BY <1>1, <3>1, ExecuteSafe
  <2> QED
    BY <2>2, <2>3, <2>4
<1>4. ASSUME Return("sqlsrv_execute", "false"),
             UNCHANGED <<odbc, past_fetch_end, past_next_result_end, has_rows, fetch_called,
                         caches, current_results, delivered>>
      PROVE  Safe'
  BY <1>2, <1>4, StillSafe DEF IInv, caches, Return
<1> QED
  BY <1>3, <1>4 DEF BindAndExecute

LEMMA PrepareSafe ==
  ASSUME IInv, NEW c \in Confs, NEW p \in ParamKinds, sqlsrv_prepare(c, p)
  PROVE  Safe'
<1>1. /\ phase = "none" /\ phase' = "ready"
      /\ odbc'.state = "idle"
      /\ UNCHANGED <<has_rows, fetch_called, past_fetch_end, last_field_index, current_results, delivered>>
      /\ call'.fn = "sqlsrv_prepare"
  BY DEF sqlsrv_prepare, flags, caches, Idle, Return
<1> QED
  BY <1>1 DEF IInv, Safe, NothingYet, NothingTold, ReadsFromOdbc, Place, NoFieldRead, ColumnCountFresh,
              FreshRow, OnRowset

LEMMA GoneSafe ==
  ASSUME Gone
  PROVE  Safe'
<1>1. /\ ~fetch_called' /\ ~has_rows' /\ delivered' = 0 /\ last_field_index' = -1
      /\ column_count' = ACTIVE_NUM_COLS_INVALID /\ phase' = "none"
      /\ current_results'.kind # "buffered"
  BY DEF Gone, NullResults
<1> QED
  BY <1>1, FreshSafe

LEMMA QuerySafe ==
  ASSUME IInv, NEW c \in Confs, NEW p \in ParamKinds, sqlsrv_query(c, p)
  PROVE  Safe'
<1>1. CASE QuerySucceeds(c, p)
  <2>1. /\ core_sqlsrv_execute(Idle, c, p, FALSE, "sqlsrv_query")
        /\ call'.ret # "false" /\ phase' = "ready" /\ conf' = c
    BY <1>1 DEF QuerySucceeds
  <2>2. /\ ~fetch_called' /\ ~has_rows' /\ delivered' = 0 /\ last_field_index' = -1
        /\ column_count' # ACTIVE_NUM_COLS_INVALID
             => /\ odbc'.state # "need_data"
                /\ odbc'.state = "open" => column_count' = Head(odbc'.batch).cols
        /\ c.cursor # "buffered" => odbc'.at = 0 /\ current_results'.kind = "odbc"
    <3>1. call' # [fn |-> "sqlsrv_query", to |-> "none", ret |-> "false", fields |-> 0]
      BY <2>1
    <3> QED
      BY <2>1, <3>1, IdleLive, ExecuteSafe DEF AnyConf
  <2>3. conf'.cursor = "forward" => odbc'.at = 0 /\ current_results'.kind # "buffered"
    BY <2>1, <2>2
  <2>4. phase' # "none"
    BY <2>1
  <2> QED
    BY <2>2, <2>3, <2>4, FreshSafe
<1>2. CASE QueryFails(c, p)
  BY <1>2, GoneSafe DEF QueryFails
<1> QED
  BY <1>1, <1>2 DEF sqlsrv_query

LEMMA ExecuteActionSafe ==
  ASSUME IInv, sqlsrv_execute
  PROVE  Safe'
<1>1. phase = "ready"
  BY DEF sqlsrv_execute
<1>2. CASE BindAndExecute
  BY <1>1, <1>2, BindAndExecuteSafe
<1>3. CASE /\ phase' \in {phase, "flush"} /\ call'.fn = "sqlsrv_execute"
           /\ UNCHANGED <<conf, odbc, flags, caches, current_results, params, delivered>>
  BY <1>1, <1>3, StillSafe DEF IInv, flags, caches
<1> QED
  BY <1>2, <1>3 DEF sqlsrv_execute, Return

(* core_sqlsrv_next_result for a statement that exists.                    *)
LEMMA CoreNextResultSafe ==
  ASSUME IInv, phase # "none", phase' # "none", UNCHANGED conf,
         NEW finalize, NEW throw, NEW report, NEW fn, fn # "sqlsrv_fetch",
         core_sqlsrv_next_result(finalize, throw, report, fn)
  PROVE  Safe'
<1> DEFINE m == SQLMoreResults(odbc)
<1>1. Live(odbc)
  BY DEF IInv, TypeOK, Typed, HandleOK, Live
<1>2. /\ Live(m.h)
      /\ m.r = SQL_NO_DATA => m.h.state = "idle"
      /\ m.r \in {SQL_SUCCESS, SQL_ERROR} =>
           \/ m.h.state = "open" /\ m.h.at = 0
           \/ m.h.state = "need_data"
  BY <1>1, MoreResultsLive
<1> HIDE DEF m
<1>3. CASE NextResultRefused(throw, fn) \/ NextResultThrows(m, fn)
  <2>1. odbc' \in {odbc, Idle} /\ call'.fn = fn
        /\ UNCHANGED <<flags, caches, current_results, outputs, delivered>>
    BY <1>3 DEF NextResultRefused, NextResultThrows, SQLCancel, Return
  <2> QED
    BY <2>1, StillSafe DEF IInv, flags, caches, Idle
<1>4. CASE NextResultReports(m, fn)
  <2>1. /\ ~fetch_called' /\ ~has_rows' /\ delivered' = 0 /\ last_field_index' = -1
        /\ column_count' = ACTIVE_NUM_COLS_INVALID
        /\ current_results'.kind # "buffered"
    BY <1>4 DEF NextResultReports, NullResults
  <2>2. OnRowset(odbc') => odbc'.at = 0
    BY <1>2, <1>4 DEF NextResultReports, OnRowset
  <2> QED
    BY <2>1, <2>2, FreshSafe DEF OnRowset
<1>5. CASE NextResultEnds(m, finalize, fn)
  <2>1. /\ odbc'.state = "idle" /\ call'.fn = fn
        /\ UNCHANGED <<has_rows, fetch_called, past_fetch_end, last_field_index, current_results, delivered>>
    BY <1>2, <1>5 DEF NextResultEnds, Return
  <2> QED
    BY <2>1, StillSafe DEF IInv
<1>7. CASE NextResultEndThrows(m, finalize, fn)
  <2>1. /\ odbc'.state = "idle" /\ call'.fn = fn
        /\ UNCHANGED <<has_rows, fetch_called, past_fetch_end, last_field_index, current_results, delivered>>
    BY <1>2, <1>7 DEF NextResultEndThrows, Return, flags, caches
  <2> QED
    BY <2>1, StillSafe DEF IInv
<1>6. CASE m.r \in {SQL_SUCCESS, SQL_ERROR} /\ NextResultMoves(m, throw, fn)
  <2>1. PICK n \in NewResults(m.h, conf.cursor) :
          /\ odbc' = IF ~n.ok /\ throw THEN SQLCancel(n.h) ELSE n.h
          /\ current_results' = n.res
    BY <1>6 DEF NextResultMoves
  <2>2. /\ ~fetch_called' /\ ~has_rows' /\ delivered' = 0 /\ last_field_index' = -1
        /\ column_count' = ACTIVE_NUM_COLS_INVALID
    BY <1>6 DEF NextResultMoves, ResetForNewResult
  <2>3. conf'.cursor = "forward" =>
          /\ current_results'.kind # "buffered"
          /\ OnRowset(odbc') => odbc'.at = 0
    <3> SUFFICES ASSUME conf.cursor = "forward"
                 PROVE  /\ current_results'.kind # "buffered"
                        /\ OnRowset(odbc') => odbc'.at = 0
      OBVIOUS
    <3>1. n = [ok |-> TRUE, h |-> m.h, res |-> OdbcResults]
      BY <1>2, <1>6, NewResultsType
    <3> QED
      BY <1>2, <1>6, <2>1, <3>1 DEF OdbcResults, OnRowset
  <2> QED
    BY <2>2, <2>3, FreshSafe DEF OnRowset
<1> QED
  BY <1>3, <1>4, <1>5, <1>6, <1>7 DEF core_sqlsrv_next_result, m

LEMMA NextResultSafe ==
  ASSUME IInv, sqlsrv_next_result
  PROVE  Safe'
<1>1. core_sqlsrv_next_result(TRUE, ~conf.continue, conf.continue, "sqlsrv_next_result")
      /\ phase = "ready" /\ UNCHANGED <<phase, conf>>
  BY DEF sqlsrv_next_result
<1> QED
  BY <1>1, CoreNextResultSafe

LEMMA FlushStepSafe ==
  ASSUME IInv, FlushStep
  PROVE  Safe'
<1>1. phase = "flush"
  BY DEF FlushStep
<1>2. ASSUME core_sqlsrv_next_result(FALSE, FALSE, FALSE, "sqlsrv_execute"),
             phase' \in {"ready", "flush"}, UNCHANGED conf
      PROVE  Safe'
  BY <1>1, <1>2, CoreNextResultSafe
<1>3. CASE BindAndExecute
  BY <1>1, <1>3, BindAndExecuteSafe
<1> QED
  BY <1>2, <1>3 DEF FlushStep

(* A fetch that was allowed to move the cursor.                            *)
LEMMA FetchMovesSafe ==
  ASSUME IInv, phase = "ready", UNCHANGED <<phase, conf>>,
         NEW to \in Moves, NEW fn, NEW c, FetchAllowed(c), NEW o \in Fetches(to),
         column_count' = c, odbc' = o.h, current_results' = o.res,
         \/ FetchEnds(o) /\ call'.ret = "null" /\ UNCHANGED last_field_index
         \/ FetchFails(o) /\ call'.ret = "false" /\ UNCHANGED last_field_index
         \/ FetchLands(o) /\ IF fn = "sqlsrv_fetch" THEN FetchOnly(to) ELSE FetchFields(c, o, to)
  PROVE  Safe'
<1> USE DEF SQL_ERROR, SQL_SUCCESS, SQL_NO_DATA
<1>1. TypeOK /\ Safe /\ Live(odbc)
  BY DEF IInv, TypeOK, Typed, HandleOK, Live
<1>2. odbc'.state = odbc.state /\ odbc'.batch = odbc.batch
  BY <1>1, FetchesType DEF TypeOK
<1>3. \/ column_count' = column_count
      \/ /\ column_count = ACTIVE_NUM_COLS_INVALID
         /\ column_count' \in SQLNumResultCols(odbc) \ {SQL_ERROR}
  BY DEF FetchAllowed
<1>4. ColumnCountFresh'
  BY <1>1, <1>2, <1>3, CountSafe
<1>5. odbc'.state # "need_data"
  <2> SUFFICES ASSUME odbc.state = "need_data" PROVE FALSE
    BY <1>2
  <2>1. ~fetch_called /\ column_count = ACTIVE_NUM_COLS_INVALID
    BY <1>1 DEF Safe, NothingTold
  <2>2. c \in SQLNumResultCols(odbc) /\ c # SQL_ERROR
    BY <2>1 DEF FetchAllowed
  <2> QED
    BY <1>1, <2>2, NumResultColsType
<1>6. ASSUME conf.cursor = "forward"
      PROVE  \/ o = FetchedAhead /\ Prefetched
             \/ /\ ~Prefetched
                /\ \E x \in SQLFetchScroll(odbc, OneBased(to), TRUE) :
                     o = [r |-> x.r, h |-> x.h, res |-> current_results]
  <2>1. current_results.kind # "buffered"
    BY <1>1, <1>6 DEF Safe, ReadsFromOdbc
  <2>2. CASE Prefetched
    BY <2>2 DEF Fetches
  <2>3. CASE ~Prefetched
    <3>1. o \in ResultsFetch(OneBased(to))
      BY <2>3 DEF Fetches
    <3>2. PICK x \in SQLFetchScroll(odbc, OneBased(to), conf.cursor = "forward") :
            o = [r |-> x.r, h |-> x.h, res |-> current_results]
      BY <1>1, <2>1, <3>1, MoveTypes, ResultsFetchType DEF TypeOK
    <3>3. (conf.cursor = "forward") = TRUE
      BY <1>6
    <3> QED
      BY <2>3, <3>2, <3>3
  <2> QED
    BY <2>2, <2>3
<1>7. ReadsFromOdbc'
  <2> SUFFICES ASSUME conf.cursor = "forward" PROVE current_results' = current_results
    BY <1>1 DEF Safe, ReadsFromOdbc
  <2>1. CASE o = FetchedAhead
    BY <2>1 DEF FetchedAhead
  <2>2. ASSUME NEW x, o = [r |-> x.r, h |-> x.h, res |-> current_results]
        PROVE  current_results' = current_results
    BY <2>2
  <2> QED
    BY <1>6, <2>1, <2>2
<1>8. Place'
  <2> SUFFICES ASSUME OnRowset(odbc), conf.cursor = "forward"
               PROVE  /\ ~has_rows' => ~fetch_called' /\ delivered' = 0
                      /\ has_rows' /\ ~fetch_called' => past_fetch_end' \/ (odbc'.at = 1 /\ delivered' = 0)
                      /\ has_rows' = fetch_called'
                           => odbc'.at \in {delivered', Head(odbc.batch).rows + 1}
    BY <1>2 DEF Place, OnRowset
  <2> DEFINE end == Head(odbc.batch).rows + 1
  <2>1. /\ ~has_rows => ~fetch_called /\ delivered = 0
        /\ has_rows /\ ~fetch_called => past_fetch_end \/ (odbc.at = 1 /\ delivered = 0)
        /\ has_rows = fetch_called => odbc.at \in {delivered, end}
    BY <1>1 DEF Safe, Place
  <2>2. /\ Head(odbc.batch).rows \in Nat /\ end \in Nat /\ odbc.at \in Nat /\ delivered \in Nat
        /\ has_rows \in BOOLEAN /\ fetch_called \in BOOLEAN
    BY <1>1, DeliveredType, HeadType DEF TypeOK, Typed, FlagsOK, Live, Handles, OnRowset
  <2>3. CASE o = FetchedAhead /\ Prefetched
    <3>1. odbc.at = 1 /\ delivered = 0
      BY <2>1, <2>3 DEF Prefetched, FetchAllowed
    <3>2. odbc' = odbc /\ has_rows' = TRUE /\ fetch_called' = TRUE /\ delivered' = delivered + 1
      BY <2>3 DEF FetchedAhead, FetchEnds, FetchFails, FetchLands
    <3> QED
      BY <3>1, <3>2
  <2>4. CASE ~Prefetched
    <3>1. has_rows = fetch_called
      BY <2>1, <2>2, <2>4 DEF Prefetched
    <3>2. PICK x \in SQLFetchScroll(odbc, OneBased(to), TRUE) :
            o = [r |-> x.r, h |-> x.h, res |-> current_results]
      BY <1>6, <2>4
    <3>3. /\ x.r = SQL_SUCCESS => odbc.at < Head(odbc.batch).rows /\ x.h.at = odbc.at + 1
          /\ x.r # SQL_SUCCESS => x.h = odbc \/ x.h.at = end
      BY <1>1, MoveTypes, ScrollLive
    <3>4. o.r = x.r /\ odbc' = x.h
      BY <3>2
    <3> HIDE DEF end
    <3>5. CASE FetchEnds(o)
      <4>1. past_fetch_end' /\ ~fetch_called' /\ UNCHANGED <<has_rows, delivered>>
        BY <3>5 DEF FetchEnds
      <4>2. odbc' = odbc \/ odbc'.at = end
        BY <3>3, <3>4, <3>5 DEF FetchEnds
      <4> QED
        BY <2>1, <2>2, <3>1, <4>1, <4>2 DEF end
    <3>6. CASE FetchFails(o)
      <4>1. /\ fetch_called' = fetch_called /\ has_rows' = has_rows /\ delivered' = delivered
            /\ odbc' = odbc \/ odbc'.at = end
        BY <3>3, <3>4, <3>6 DEF FetchFails
      <4> QED
        BY <2>1, <2>2, <3>1, <4>1 DEF end
    <3>7. CASE FetchLands(o)
      <4>1. fetch_called' /\ has_rows' /\ delivered' = delivered + 1
        BY <3>7 DEF FetchLands
      <4>2. odbc.at < Head(odbc.batch).rows /\ odbc'.at = odbc.at + 1
        BY <3>3, <3>4, <3>7 DEF FetchLands
      <4>3. odbc.at = delivered
        BY <2>1, <2>2, <3>1, <4>2 DEF end
      <4> QED
        BY <4>1, <4>2, <4>3
    <3> QED
      BY <3>5, <3>6, <3>7
  <2> QED
    BY <1>6, <2>3, <2>4
<1>9. NoFieldRead'
  <2> SUFFICES ASSUME conf.cursor = "forward", ~fetch_called', ~past_fetch_end'
               PROVE  last_field_index' = -1
    BY DEF NoFieldRead
  <2>1. FetchFails(o) /\ UNCHANGED last_field_index
    BY DEF FetchEnds, FetchLands
  <2> QED
    BY <1>1, <2>1 DEF Safe, NoFieldRead, FetchFails
<1>10. FreshRow'
  <2> SUFFICES ASSUME call'.fn = "sqlsrv_fetch", call'.ret = "true" PROVE last_field_index' = -1
    BY DEF FreshRow
  <2>1. ~FetchFields(c, o, to)
    BY DEF FetchFields, Fetched
  <2>2. FetchOnly(to)
    BY <2>1
  <2>3. CASE Prefetched
    BY <1>1, <2>2, <2>3 DEF FetchOnly, Prefetched, FetchAllowed, Safe, NoFieldRead
  <2>4. CASE ~Prefetched
    BY <2>2, <2>4 DEF FetchOnly
  <2> QED
    BY <2>3, <2>4
<1>11. NothingTold' /\ NothingYet'
  BY <1>5 DEF NothingTold, NothingYet
<1> QED
  BY <1>4, <1>7, <1>8, <1>9, <1>10, <1>11 DEF Safe

LEMMA FetchSafe ==
  ASSUME IInv, phase = "ready", NEW to \in Moves, NEW fn, core_sqlsrv_fetch(to, fn)
  PROVE  Safe'
<1>1. CASE /\ FetchRefused
           /\ Fetched(fn, to, "false", 0)
           /\ UNCHANGED <<phase, conf, odbc, flags, last_field_index, current_meta_data,
                          fetch_fields_count, current_results, params, delivered>>
  <2>1. \/ column_count' = column_count
        \/ /\ column_count = ACTIVE_NUM_COLS_INVALID
           /\ column_count' \in SQLNumResultCols(odbc) \ {SQL_ERROR}
    BY <1>1 DEF FetchRefused, SQL_ERROR
  <2>2. ColumnCountFresh' /\ (odbc.state = "need_data" => column_count' = ACTIVE_NUM_COLS_INVALID)
    BY <1>1, <2>1, CountSafe DEF IInv
  <2>3. UNCHANGED <<phase, conf, odbc, has_rows, fetch_called, past_fetch_end, last_field_index,
                    current_results, delivered>> /\ call'.ret = "false"
    BY <1>1 DEF flags, Fetched
  <2> QED
    BY <2>2, <2>3 DEF IInv, Safe, NothingYet, NothingTold, ReadsFromOdbc, Place, NoFieldRead, FreshRow, OnRowset
<1>2. CASE Crash(fn) \/ Dies(fn)
  BY <1>2, GoneSafe DEF Crash, Dies
<1>3. ASSUME NEW c, FetchAllowed(c), NEW o \in Fetches(to),
             column_count' = c,
             odbc' = o.h, current_results' = o.res,
             \/ FetchEnds(o) /\ Fetched(fn, to, "null", 0)
                  /\ UNCHANGED <<last_field_index, current_meta_data, fetch_fields_count>>
             \/ FetchFails(o) /\ Fetched(fn, to, "false", 0)
                  /\ UNCHANGED <<last_field_index, current_meta_data, fetch_fields_count>>
             \/ FetchLands(o) /\ IF fn = "sqlsrv_fetch" THEN FetchOnly(to) ELSE FetchFields(c, o, to),
             UNCHANGED <<phase, conf, executed, past_next_result_end, params>>
      PROVE  Safe'
  <2>1. \/ FetchEnds(o) /\ call'.ret = "null" /\ UNCHANGED last_field_index
        \/ FetchFails(o) /\ call'.ret = "false" /\ UNCHANGED last_field_index
        \/ FetchLands(o) /\ IF fn = "sqlsrv_fetch" THEN FetchOnly(to) ELSE FetchFields(c, o, to)
    BY <1>3 DEF Fetched
  <2> QED
    BY <1>3, <2>1, FetchMovesSafe
<1> QED
  BY <1>1, <1>2, <1>3 DEF core_sqlsrv_fetch

LEMMA GetFieldSafe ==
  ASSUME IInv, NEW i \in 0 .. MaxCols - 1, sqlsrv_get_field(i)
  PROVE  Safe'
<1> SUFFICES ASSUME GetsField(i), phase = "ready" PROVE Safe'
  BY GoneSafe DEF sqlsrv_get_field, Dies
<1>1. PICK d \in Described(column_count, odbc) :
        /\ column_count' = d.column_count
        /\ \/ call'.fn = "sqlsrv_get_field" /\ UNCHANGED last_field_index
           \/ call'.fn = "sqlsrv_get_field" /\ fetch_called /\ last_field_index' = i
  BY DEF GetsField, WellCalled, Return
<1>2. UNCHANGED <<phase, conf, odbc, has_rows, fetch_called, past_fetch_end, current_results, delivered>>
      /\ phase = "ready"
  BY DEF GetsField, flags
<1>3. d.column_count # column_count => /\ column_count = ACTIVE_NUM_COLS_INVALID
                                       /\ d.column_count \in SQLNumResultCols(odbc) \ {SQL_ERROR}
  BY DescribedType DEF IInv, TypeOK, Typed, HandleOK, CachesOK, Live
<1>4. ColumnCountFresh' /\ (odbc.state = "need_data" => column_count' = ACTIVE_NUM_COLS_INVALID)
  BY <1>1, <1>2, <1>3, CountSafe DEF IInv
<1> QED
  BY <1>1, <1>2, <1>4
     DEF IInv, Safe, NothingYet, NothingTold, ReadsFromOdbc, Place, NoFieldRead, FreshRow, OnRowset

(* sqlsrv_has_rows on a forward-only statement fetches the row it finds.   *)
LEMMA HasRowsSafe ==
  ASSUME IInv, sqlsrv_has_rows
  PROVE  Safe'
<1> USE DEF SQL_ERROR, SQL_SUCCESS, SQL_NO_DATA
<1>1. TypeOK /\ Safe /\ Live(odbc) /\ phase = "ready"
  BY DEF IInv, TypeOK, Typed, HandleOK, Live, sqlsrv_has_rows
<1>2. /\ UNCHANGED <<phase, conf, past_fetch_end, fetch_called, last_field_index, column_count, delivered>>
      /\ call'.fn = "sqlsrv_has_rows"
  BY DEF sqlsrv_has_rows, caches, Return
<1>3. CASE UNCHANGED <<odbc, current_results, has_rows>>
  BY <1>1, <1>2, <1>3, StillSafe
<1>4. CASE LooksAhead /\ ~UNCHANGED <<odbc, current_results, has_rows>>
  <2>1. ~has_rows /\ ~fetch_called
    BY <1>4 DEF LooksAhead
  <2>2. odbc'.state = odbc.state /\ odbc'.batch = odbc.batch
    BY <1>1, <1>4, LooksAheadType
  <2>3. odbc.state # "need_data"
    <3>1. PICK c \in SQLNumResultCols(odbc) : c # SQL_ERROR
      BY <1>4 DEF LooksAhead
    <3> QED
      BY <1>1, <3>1, NumResultColsType
  <2>4. conf.cursor = "forward" =>
          /\ UNCHANGED current_results
          /\ \E o \in SQLFetchScroll(odbc, [style |-> "SQL_FETCH_NEXT", offset |-> 0], TRUE) :
               odbc' = o.h /\ has_rows' = (o.r = SQL_SUCCESS)
    BY <1>4 DEF LooksAhead
  <2>5. ColumnCountFresh'
    BY <1>1, <1>2, <2>2, CountSafe
  <2>6. Place'
    <3> SUFFICES ASSUME OnRowset(odbc), conf.cursor = "forward"
                 PROVE  /\ delivered' = 0 /\ ~fetch_called'
                        /\ has_rows' => odbc'.at = 1
                        /\ ~has_rows' => odbc'.at \in {delivered', Head(odbc.batch).rows + 1}
      BY <1>2, <2>2 DEF Place, OnRowset
    <3>1. PICK o \in SQLFetchScroll(odbc, [style |-> "SQL_FETCH_NEXT", offset |-> 0], TRUE) :
            odbc' = o.h /\ has_rows' = (o.r = SQL_SUCCESS)
      BY <2>4
    <3>2. /\ o.r = SQL_SUCCESS => odbc.at < Head(odbc.batch).rows /\ o.h.at = odbc.at + 1
          /\ o.r # SQL_SUCCESS => o.h = odbc \/ o.h.at = Head(odbc.batch).rows + 1
      BY <1>1, MoveTypes, ScrollLive
    <3>3. delivered = 0 /\ odbc.at \in {0, Head(odbc.batch).rows + 1}
      BY <1>1, <2>1 DEF Safe, Place, TypeOK, Typed, FlagsOK
    <3>4. Head(odbc.batch).rows \in Nat
      BY <1>1, HeadType DEF OnRowset
    <3>5. delivered' = 0 /\ ~fetch_called'
      BY <1>2, <2>1, <3>3
    <3>6. CASE o.r = SQL_SUCCESS
      <4>1. odbc.at = 0
        BY <3>2, <3>3, <3>4, <3>6
      <4>2. odbc'.at = 1
        BY <3>1, <3>2, <3>6, <4>1
      <4>3. has_rows'
        BY <3>1, <3>6
      <4> QED
        BY <3>5, <4>2, <4>3
    <3>7. CASE o.r # SQL_SUCCESS
      <4>1. odbc' = odbc \/ odbc'.at = Head(odbc.batch).rows + 1
        BY <3>1, <3>2, <3>7
      <4>2. ~has_rows'
        BY <3>1, <3>7
      <4> QED
        BY <3>3, <3>5, <4>1, <4>2
    <3> QED
      BY <3>6, <3>7
  <2>7. ReadsFromOdbc' /\ NoFieldRead' /\ FreshRow' /\ NothingTold' /\ NothingYet'
    BY <1>1, <1>2, <2>2, <2>3, <2>4
       DEF Safe, ReadsFromOdbc, NoFieldRead, FreshRow, NothingTold, NothingYet
  <2> QED
    BY <2>5, <2>6, <2>7 DEF Safe
<1>5. CASE LookThrows
  <2>1. /\ ~fetch_called /\ conf.cursor # "forward" /\ UNCHANGED current_results
        /\ SQLNumResultCols(odbc) \ {SQL_ERROR} # {}
    BY <1>5 DEF LookThrows
  <2>2. odbc'.state = odbc.state /\ odbc'.batch = odbc.batch
    BY <1>1, <1>5, LookThrowsType
  <2>3. odbc.state # "need_data"
    BY <1>1, <2>1, NumResultColsType
  <2>4. ColumnCountFresh'
    BY <1>1, <1>2, <2>2, CountSafe
  <2> QED
    BY <1>1, <1>2, <2>1, <2>2, <2>3, <2>4
       DEF Safe, NothingYet, NothingTold, ReadsFromOdbc, Place, NoFieldRead, FreshRow
<1> QED
  BY <1>3, <1>4, <1>5 DEF sqlsrv_has_rows

LEMMA RowCountSafe ==
  ASSUME IInv, NEW fn, fn # "sqlsrv_fetch", RowCount(fn)
  PROVE  Safe'
<1>1. CASE Crash(fn)
  BY <1>1, GoneSafe DEF Crash
<1>2. CASE /\ call'.fn = fn /\ phase = "ready"
           /\ UNCHANGED <<phase, conf, odbc, flags, caches, current_results, params, delivered>>
  BY <1>2, StillSafe DEF IInv, flags, caches
<1> QED
  BY <1>1, <1>2 DEF RowCount, Return

LEMMA SendStreamSafe ==
  ASSUME IInv, sqlsrv_send_stream_data
  PROVE  Safe'
<1>1. /\ phase = "ready"
      /\ UNCHANGED <<phase, conf, has_rows, fetch_called, past_fetch_end, last_field_index, column_count,
                     current_results, delivered>>
      /\ call'.fn = "sqlsrv_send_stream_data"
  BY DEF sqlsrv_send_stream_data, flags, caches, PacketFails, SendPacket, Return
<1>2. CASE odbc' = odbc \/ odbc' = Idle
  BY <1>1, <1>2, StillSafe DEF IInv, Idle
<1>3. ASSUME NEW o \in SQLParamData(odbc), odbc' = o.h, o.r \in {SQL_NEED_DATA, SQL_SUCCESS}
      PROVE  Safe'
  <2>1. /\ odbc.state = "need_data"
        /\ odbc'.state = "open" => odbc'.at = 0
    BY <1>3, ParamDataLive DEF IInv, TypeOK, Typed, HandleOK, Live, SQL_ERROR, SQL_NEED_DATA, SQL_SUCCESS
  <2>2. ~fetch_called /\ ~has_rows /\ delivered = 0 /\ column_count = ACTIVE_NUM_COLS_INVALID
    BY <2>1 DEF IInv, Safe, NothingTold
  <2> QED
    BY <1>1, <2>1, <2>2 DEF IInv, Safe, NothingYet, NothingTold, ReadsFromOdbc, Place, NoFieldRead,
                            ColumnCountFresh, FreshRow, OnRowset
<1> QED
  BY <1>2, <1>3 DEF sqlsrv_send_stream_data, PacketFails, SendPacket, SQLCancel

LEMMA CancelSafe ==
  ASSUME IInv, sqlsrv_cancel
  PROVE  Safe'
<1>1. /\ phase = "ready" /\ odbc' \in {odbc, Idle}
      /\ UNCHANGED <<phase, conf, flags, caches, current_results, params, delivered>>
      /\ call'.fn = "sqlsrv_cancel"
  BY DEF sqlsrv_cancel, SQLCancel, Return
<1> QED
  BY <1>1, StillSafe DEF IInv, flags, caches, Idle

LEMMA InitSafe == Init => Safe
BY DEF Init, Safe, NothingYet, NothingTold, ReadsFromOdbc, Place, NoFieldRead, ColumnCountFresh, FreshRow,
       Idle, NullResults, OnRowset

LEMMA NextSafe == IInv /\ [Next]_vars => Safe'
<1> SUFFICES ASSUME IInv, [Next]_vars PROVE Safe'
  OBVIOUS
<1>1. ASSUME NEW c \in Confs, NEW p \in ParamKinds, sqlsrv_prepare(c, p) PROVE Safe'
  BY <1>1, PrepareSafe
<1>2. ASSUME NEW c \in Confs, NEW p \in ParamKinds, sqlsrv_query(c, p) PROVE Safe'
  BY <1>2, QuerySafe
<1>3. CASE sqlsrv_execute
  BY <1>3, ExecuteActionSafe
<1>4. CASE FlushStep
  BY <1>4, FlushStepSafe
<1>5. CASE sqlsrv_next_result
  BY <1>5, NextResultSafe
<1>6. ASSUME NEW to \in Moves, sqlsrv_fetch(to) \/ sqlsrv_fetch_array(to) PROVE Safe'
  BY <1>6, FetchSafe DEF sqlsrv_fetch, sqlsrv_fetch_array
<1>7. ASSUME NEW i \in 0 .. MaxCols - 1, sqlsrv_get_field(i) PROVE Safe'
  BY <1>7, GetFieldSafe
<1>8. CASE sqlsrv_has_rows
  BY <1>8, HasRowsSafe
<1>9. CASE HasRowsCrashes
  BY <1>9, GoneSafe DEF HasRowsCrashes, Crash
<1>10. CASE RowCount("sqlsrv_rows_affected") \/ RowCount("sqlsrv_num_rows")
  BY <1>10, RowCountSafe
<1>11. CASE sqlsrv_send_stream_data
  BY <1>11, SendStreamSafe
<1>12. CASE sqlsrv_cancel
  BY <1>12, CancelSafe
<1>13. CASE sqlsrv_free_stmt
  BY <1>13, GoneSafe DEF sqlsrv_free_stmt
<1>14. CASE UNCHANGED vars
  <2>1. UNCHANGED <<phase, conf, odbc, has_rows, fetch_called, past_fetch_end, last_field_index,
                    column_count, current_results, delivered, call>>
    BY <1>14 DEF vars, flags, caches
  <2> QED
    BY <2>1 DEF IInv, Safe, NothingYet, NothingTold, ReadsFromOdbc, Place, NoFieldRead,
                ColumnCountFresh, FreshRow, OnRowset
<1> QED
  BY <1>1, <1>2, <1>3, <1>4, <1>5, <1>6, <1>7, <1>8, <1>9, <1>10, <1>11, <1>12, <1>13, <1>14 DEF Next

LEMMA InductiveInvariant == Spec => []IInv
<1>1. Init => IInv
  BY InitType, InitSafe DEF IInv
<1>2. IInv /\ [Next]_vars => IInv'
  BY NextType, NextSafe DEF IInv
<1> QED
  BY <1>1, <1>2, PTL DEF Spec

-----------------------------------------------------------------------------
(* The k-th row a script is told of is the k-th row of the result, whether *)
(* or not sqlsrv_has_rows fetched the first one ahead.                     *)
THEOREM RowsComeInOrder == Spec => []RowsInOrder
<1>1. IInv => RowsInOrder
  <2> SUFFICES ASSUME IInv, OnRowset(odbc), conf.cursor = "forward"
               PROVE  /\ fetch_called => odbc.at = delivered \/ odbc.at = Head(odbc.batch).rows + 1
                      /\ Prefetched /\ ~past_fetch_end => odbc.at = 1 /\ delivered = 0
    BY DEF RowsInOrder, Prefetched
  <2>1. CASE phase = "none"
    BY <2>1 DEF IInv, Safe, NothingYet, Prefetched
  <2>2. CASE phase # "none"
    BY <2>2 DEF IInv, Safe, Place, Prefetched, TypeOK, Typed, FlagsOK
  <2> QED
    BY <2>1, <2>2
<1> QED
  BY <1>1, InductiveInvariant, PTL

(* The column count that is kept is that of the current result.            *)
THEOREM ColumnCountIsFresh == Spec => []ColumnCountFresh
<1>1. IInv => ColumnCountFresh
  BY DEF IInv, Safe
<1> QED
  BY <1>1, InductiveInvariant, PTL

(* A row that sqlsrv_fetch made current can be read from its first field.  *)
THEOREM FetchedRowIsFresh == Spec => []FreshRow
<1>1. IInv => FreshRow
  BY DEF IInv, Safe
<1> QED
  BY <1>1, InductiveInvariant, PTL

(* While ODBC waits for stream data the statement shows no result.         *)
THEOREM NothingWhileSending == Spec => []NoRowsWhileSending
<1>1. IInv => NoRowsWhileSending
  BY DEF IInv, Safe, NothingTold, NoRowsWhileSending
<1> QED
  BY <1>1, InductiveInvariant, PTL

-----------------------------------------------------------------------------
(* Nothing is left on a handle where nothing is flushed, and nothing but a *)
(* failed statement on one that was drained, as long as no result is       *)
(* buffered: only building a buffered result can fail after the execution  *)
(* succeeded.                                                              *)
NothingLeft == SkippedFlushIsSafe /\ DrainStopsOnlyAtErrors

(* A step within one statement that opens no handle and forgets no result. *)
LEMMA KeptFlushed ==
  ASSUME NothingLeft, phase # "none", phase' # "none",
         \/ odbc'.state = "idle"
         \/ executed' /\ ~past_next_result_end'
         \/ odbc'.state = odbc.state /\ executed' = executed /\ past_next_result_end' = past_next_result_end
  PROVE  NothingLeft'
BY DEF NothingLeft, SkippedFlushIsSafe, DrainStopsOnlyAtErrors

LEMMA BindAndExecuteFlushed ==
  ASSUME TypeOK, NothingLeft, conf.cursor # "buffered", phase # "none",
         ~executed \/ past_next_result_end, BindAndExecute
  PROVE  NothingLeft'
<1>1. Live(odbc) /\ conf \in AnyConf /\ executed \in BOOLEAN /\ odbc.state = "idle"
  BY DEF TypeOK, Typed, HandleOK, FlagsOK, Live, AnyConf, NothingLeft, SkippedFlushIsSafe
<1>2. phase' # "none"
  BY DEF BindAndExecute
<1> DEFINE ex == executed /\ params_z \in {"none", "lost"}
<1>3. CASE core_sqlsrv_execute(odbc, conf, params_z, ex, "sqlsrv_execute")
  <2>1. ex \in BOOLEAN
    BY <1>1
  <2> HIDE DEF ex
  <2>2. odbc' \in {odbc, Idle} \/ (executed' /\ ~past_next_result_end')
    BY <1>1, <1>3, <2>1, ExecuteSafe
  <2> QED
    BY <1>1, <1>2, <2>2, KeptFlushed DEF Idle
<1>4. CASE UNCHANGED odbc
  BY <1>1, <1>2, <1>4, KeptFlushed
<1> QED
  BY <1>3, <1>4 DEF BindAndExecute

LEMMA GoneFlushed ==
  ASSUME phase' = "none", odbc'.state # "open" \/ OnError(odbc')
  PROVE  NothingLeft'
BY DEF NothingLeft, SkippedFlushIsSafe, DrainStopsOnlyAtErrors, Pending, OnError

LEMMA CrashFlushed ==
  ASSUME NEW fn, Crash(fn) \/ Dies(fn)
  PROVE  NothingLeft'
<1>1. phase' = "none" /\ odbc' = Idle
  BY DEF Crash, Dies, Gone
<1> QED
  BY <1>1, GoneFlushed DEF Idle

LEMMA QueryFlushed ==
  ASSUME TypeOK, NothingLeft, NEW c \in Confs, c.cursor # "buffered", NEW p \in ParamKinds, sqlsrv_query(c, p)
  PROVE  NothingLeft'
<1>1. CASE QuerySucceeds(c, p)
  <2>1. /\ core_sqlsrv_execute(Idle, c, p, FALSE, "sqlsrv_query")
        /\ call'.ret # "false" /\ phase' = "ready"
    BY <1>1 DEF QuerySucceeds
  <2>2. ~past_next_result_end' /\ executed'
    <3>1. call' # [fn |-> "sqlsrv_query", to |-> "none", ret |-> "false", fields |-> 0]
      BY <2>1
    <3> QED
      BY <2>1, <3>1, IdleLive, ExecuteSafe DEF AnyConf
  <2> QED
    BY <2>1, <2>2 DEF NothingLeft, SkippedFlushIsSafe, DrainStopsOnlyAtErrors
<1>2. CASE QueryFails(c, p)
  <2>1. PICK o \in Executions(Idle, c, p) :
          \/ o.r = SQL_ERROR /\ odbc' = o.h
          \/ /\ o.r # SQL_ERROR
             /\ \E n \in NewResults(o.h, c.cursor) : (~n.ok /\ odbc' = n.h) \/ odbc' = Idle
    BY <1>2 DEF QueryFails, SQLCancel
  <2>2. /\ Live(o.h)
        /\ o.r = SQL_ERROR => o.h = Idle
        /\ o.r # SQL_ERROR => o.h.state \in {"open", "need_data"}
    BY IdleLive, ExecutionsType DEF AnyConf
  <2>3. o.r # SQL_ERROR => \A n \in NewResults(o.h, c.cursor) : n.ok
    <3> SUFFICES ASSUME o.r # SQL_ERROR, NEW n \in NewResults(o.h, c.cursor) PROVE n.ok
      OBVIOUS
    <3>1. n = [ok |-> TRUE, h |-> o.h, res |-> OdbcResults]
      BY <2>2, NewResultsType
    <3> QED
      BY <3>1
  <2>4. odbc' = Idle /\ phase' = "none"
    BY <1>2, <2>1, <2>2, <2>3 DEF QueryFails, Gone
  <2> QED
    BY <2>4, GoneFlushed DEF Idle
<1> QED
  BY <1>1, <1>2 DEF sqlsrv_query

LEMMA CoreNextResultFlushed ==
  ASSUME TypeOK, NothingLeft, phase # "none", phase' # "none",
         NEW finalize, NEW throw, NEW report, NEW fn,
         core_sqlsrv_next_result(finalize, throw, report, fn)
  PROVE  NothingLeft'
<1> DEFINE m == SQLMoreResults(odbc)
<1>1. Live(odbc)
  BY DEF TypeOK, Typed, HandleOK, Live
<1>2. m.r = SQL_NO_DATA => m.h.state = "idle"
  BY <1>1, MoreResultsLive
<1> HIDE DEF m
<1>3. CASE NextResultRefused(throw, fn) \/ NextResultThrows(m, fn)
  <2>1. odbc' = Idle \/ (odbc' = odbc /\ UNCHANGED <<executed, past_next_result_end>>)
    BY <1>3 DEF NextResultRefused, NextResultThrows, SQLCancel, flags
  <2> QED
    BY <2>1, KeptFlushed DEF Idle
<1>4. CASE executed /\ ~past_next_result_end /\ NextResultReports(m, fn)
  BY <1>4, KeptFlushed DEF NextResultReports
<1>5. CASE NextResultEnds(m, finalize, fn)
  BY <1>2, <1>5, KeptFlushed DEF NextResultEnds
<1>6. CASE executed /\ NextResultMoves(m, throw, fn)
  BY <1>6, KeptFlushed DEF NextResultMoves, ResetForNewResult
<1>7. CASE NextResultEndThrows(m, finalize, fn)
  BY <1>2, <1>7, KeptFlushed DEF NextResultEndThrows
<1> QED
  BY <1>3, <1>4, <1>5, <1>6, <1>7 DEF core_sqlsrv_next_result, m

LEMMA SendStreamFlushed ==
  ASSUME TypeOK, NothingLeft, sqlsrv_send_stream_data
  PROVE  NothingLeft'
<1>1. phase = "ready" /\ phase' = "ready" /\ UNCHANGED <<executed, past_next_result_end>>
  BY DEF sqlsrv_send_stream_data, flags
<1>2. CASE odbc' = odbc \/ odbc' = Idle
  BY <1>1, <1>2, KeptFlushed DEF Idle
<1>3. ASSUME NEW o \in SQLParamData(odbc), odbc' = o.h, o.r \in {SQL_NEED_DATA, SQL_SUCCESS}
      PROVE  NothingLeft'
  <2>1. odbc.state = "need_data"
    BY <1>3, ParamDataLive DEF TypeOK, Typed, HandleOK, Live, SQL_ERROR, SQL_NEED_DATA, SQL_SUCCESS
  <2>2. executed /\ ~past_next_result_end
    BY <1>1, <2>1 DEF NothingLeft, SkippedFlushIsSafe
  <2> QED
    BY <1>1, <2>2, KeptFlushed
<1> QED
  BY <1>2, <1>3 DEF sqlsrv_send_stream_data, PacketFails, SendPacket, SQLCancel

LEMMA FetchFlushed ==
  ASSUME TypeOK, NothingLeft, phase = "ready", NEW to \in Moves, NEW fn, core_sqlsrv_fetch(to, fn)
  PROVE  NothingLeft'
<1>1. CASE UNCHANGED <<phase, odbc, executed, past_next_result_end>>
  BY <1>1, KeptFlushed
<1>2. CASE Crash(fn) \/ Dies(fn)
  BY <1>2, CrashFlushed
<1>3. ASSUME NEW o \in Fetches(to), odbc' = o.h, UNCHANGED <<phase, executed, past_next_result_end>>
      PROVE  NothingLeft'
  <2>1. odbc'.state = odbc.state
    BY <1>3, FetchesType DEF TypeOK
  <2> QED
    BY <1>3, <2>1, KeptFlushed
<1> QED
  BY <1>1, <1>2, <1>3 DEF core_sqlsrv_fetch, flags

LEMMA FreeFlushed ==
  ASSUME TypeOK, NothingLeft, sqlsrv_free_stmt
  PROVE  NothingLeft'
<1>1. Live(odbc) /\ phase = "ready" /\ phase' = "none"
  BY DEF TypeOK, Typed, HandleOK, Live, sqlsrv_free_stmt, Gone
<1>2. CASE executed /\ ~past_next_result_end
  <2>1. odbc' = Drained(odbc)
    BY <1>2 DEF sqlsrv_free_stmt
  <2>2. odbc'.state # "open" \/ OnError(odbc')
    BY <1>1, <2>1, DrainedLive
  <2> QED
    BY <1>1, <2>2, GoneFlushed
<1>3. CASE ~(executed /\ ~past_next_result_end)
  <2>1. odbc' = odbc /\ odbc.state = "idle"
    BY <1>1, <1>3 DEF sqlsrv_free_stmt, NothingLeft, SkippedFlushIsSafe
  <2> QED
    BY <1>1, <2>1, GoneFlushed
<1> QED
  BY <1>2, <1>3

LEMMA NextFlushed ==
  ASSUME "buffered" \notin Cursors
  PROVE  TypeOK /\ NothingLeft /\ [Next]_vars => NothingLeft'
<1> SUFFICES ASSUME TypeOK, NothingLeft, [Next]_vars PROVE NothingLeft'
  OBVIOUS
<1>0. conf.cursor # "buffered" /\ \A c \in Confs : c.cursor # "buffered"
  BY DEF TypeOK, Typed, Confs, NoConf
<1>1. ASSUME NEW c \in Confs, NEW p \in ParamKinds, sqlsrv_prepare(c, p) PROVE NothingLeft'
  BY <1>1 DEF sqlsrv_prepare, Idle, NothingLeft, SkippedFlushIsSafe, DrainStopsOnlyAtErrors
<1>2. ASSUME NEW c \in Confs, NEW p \in ParamKinds, sqlsrv_query(c, p) PROVE NothingLeft'
  BY <1>0, <1>2, QueryFlushed
<1>3. CASE sqlsrv_execute
  <2>1. CASE BindAndExecute /\ ~(executed /\ ~past_next_result_end) /\ phase = "ready"
    BY <1>0, <2>1, BindAndExecuteFlushed
  <2>2. CASE /\ phase = "ready" /\ phase' \in {phase, "flush"}
             /\ UNCHANGED <<odbc, executed, past_next_result_end>>
    BY <2>2, KeptFlushed
  <2> QED
    BY <1>3, <2>1, <2>2 DEF sqlsrv_execute, flags
<1>4. CASE FlushStep
  <2>1. CASE phase = "flush" /\ past_next_result_end /\ BindAndExecute
    BY <1>0, <2>1, BindAndExecuteFlushed
  <2>2. CASE /\ phase = "flush" /\ phase' \in {"ready", "flush"}
             /\ core_sqlsrv_next_result(FALSE, FALSE, FALSE, "sqlsrv_execute")
    BY <2>2, CoreNextResultFlushed
  <2> QED
    BY <1>4, <2>1, <2>2 DEF FlushStep
<1>5. CASE sqlsrv_next_result
  <2>1. /\ phase = "ready" /\ UNCHANGED phase
        /\ core_sqlsrv_next_result(TRUE, ~conf.continue, conf.continue, "sqlsrv_next_result")
    BY <1>5 DEF sqlsrv_next_result
  <2> QED
    BY <2>1, CoreNextResultFlushed
<1>6. ASSUME NEW to \in Moves, sqlsrv_fetch(to) \/ sqlsrv_fetch_array(to) PROVE NothingLeft'
  BY <1>6, FetchFlushed DEF sqlsrv_fetch, sqlsrv_fetch_array
<1>7. ASSUME NEW i \in 0 .. MaxCols - 1, sqlsrv_get_field(i) PROVE NothingLeft'
  BY <1>7, KeptFlushed, CrashFlushed DEF sqlsrv_get_field, GetsField, flags
<1>8. CASE sqlsrv_has_rows
  <2>1. odbc'.state = odbc.state
    BY <1>8, LooksAheadType, LookThrowsType DEF sqlsrv_has_rows
  <2> QED
    BY <1>8, <2>1, KeptFlushed DEF sqlsrv_has_rows
<1>9. CASE HasRowsCrashes
  BY <1>9, CrashFlushed DEF HasRowsCrashes
<1>10. ASSUME NEW fn, RowCount(fn) PROVE NothingLeft'
  <2>1. CASE Crash(fn)
    BY <2>1, CrashFlushed
  <2>2. CASE phase = "ready" /\ UNCHANGED <<phase, odbc, executed, past_next_result_end>>
    BY <2>2, KeptFlushed
  <2> QED
    BY <1>10, <2>1, <2>2 DEF RowCount, flags
<1>11. CASE sqlsrv_send_stream_data
  BY <1>11, SendStreamFlushed
<1>12. CASE sqlsrv_cancel
  BY <1>12, KeptFlushed DEF sqlsrv_cancel, SQLCancel, Idle, flags
<1>13. CASE sqlsrv_free_stmt
  BY <1>13, FreeFlushed
<1>14. CASE UNCHANGED vars
  BY <1>14 DEF vars, flags, NothingLeft, SkippedFlushIsSafe, DrainStopsOnlyAtErrors
<1> QED
  BY <1>1, <1>2, <1>3, <1>4, <1>5, <1>6, <1>7, <1>8, <1>9, <1>10, <1>11, <1>12, <1>13, <1>14 DEF Next

LEMMA AlwaysFlushed ==
  ASSUME "buffered" \notin Cursors
  PROVE  Spec => []NothingLeft
<1>1. Init => NothingLeft
  BY DEF Init, Idle, NothingLeft, SkippedFlushIsSafe, DrainStopsOnlyAtErrors, Pending
<1>2. TypeOK /\ NothingLeft /\ [Next]_vars => NothingLeft'
  BY NextFlushed
<1> QED
  BY <1>1, <1>2, TypeCorrect, PTL DEF Spec

(* Without client-side cursors, a statement that sqlsrv_execute does not   *)
(* flush has nothing to flush: SQLExecute never meets an open cursor.      *)
THEOREM SkippedFlushWithoutBuffers ==
  ASSUME "buffered" \notin Cursors
  PROVE  Spec => []SkippedFlushIsSafe
<1>1. NothingLeft => SkippedFlushIsSafe
  BY DEF NothingLeft
<1> QED
  BY <1>1, AlwaysFlushed, PTL

(* Without client-side cursors, a destroyed statement leaves a result on   *)
(* its handle only where its draining met a failed statement.              *)
THEOREM DrainWithoutBuffers ==
  ASSUME "buffered" \notin Cursors
  PROVE  Spec => []DrainStopsOnlyAtErrors
<1>1. NothingLeft => DrainStopsOnlyAtErrors
  BY DEF NothingLeft
<1> QED
  BY <1>1, AlwaysFlushed, PTL

-----------------------------------------------------------------------------
(***************************************************************************)
(* Where a script stands in a result, whatever cursor it has: the handle,  *)
(* the result set object and the flags have to agree on it.  All steps but *)
(* two, a fetch and a look ahead, leave the place alone, give up the       *)
(* result, or start a new one.                                             *)
(***************************************************************************)
Size(h) == IF OnRowset(h) THEN Head(h.batch).rows ELSE 0
At(h, res) == IF res.kind = "buffered" THEN res.at ELSE h.at
Stands  == At(odbc, current_results)

(* The result set object is of the kind of its cursor, and a buffered one  *)
(* has the rows of the current result.                                     *)
ObjectFits ==
  /\ phase = "none" => current_results.kind = "null" /\ ~past_fetch_end
  /\ current_results.kind # "null" =>
       (current_results.kind = "buffered" <=> conf.cursor = "buffered")
  /\ current_results.kind = "buffered" =>
       /\ odbc.state # "need_data"
       /\ odbc.state = "open" => current_results.rows = Size(odbc)

(* The handle is within its result; a result that is not to be flushed is  *)
(* one that could not be buffered.                                         *)
HandleFits ==
  /\ odbc.state # "open" => odbc.batch = << >>
  /\ odbc.state = "need_data" => ~past_fetch_end
  /\ odbc.state = "open" => odbc.at <= Size(odbc) + 1
  /\ odbc.state = "open" /\ ~OnRowset(odbc) =>
       /\ odbc.at = 0 /\ ~fetch_called /\ ~has_rows
       /\ current_results.kind = "buffered" => current_results.at = 0
  /\ phase # "none" /\ odbc.state # "idle" /\ (~executed \/ past_next_result_end) =>
       conf.cursor = "buffered" /\ current_results.kind = "null"

(* A flag that says there are rows is right, unless a buffered cursor took *)
(* its row 0 for one, and as long as it does not say so, a scrollable      *)
(* cursor is in front of all rows or behind them.                          *)
RowFits ==
  OnRowset(odbc) =>
    /\ current_results.kind = "buffered" => current_results.at <= Size(odbc) + 1
    /\ has_rows => Size(odbc) > 0 \/ (current_results.kind = "buffered" /\ current_results.stayed)
    /\ past_fetch_end => conf.cursor = "forward" /\ odbc.at = Size(odbc) + 1
    /\ conf.cursor # "forward" /\ current_results.kind # "null" /\ ~has_rows =>
         ~fetch_called /\ Stands \in {0, Size(odbc) + 1}

(* A row that counts as current is one, or that row 0.                     *)
RowIsThere ==
  fetch_called /\ conf.cursor # "forward" =>
    /\ current_results.kind = "buffered" =>
         \/ current_results.at \in 1 .. current_results.rows
         \/ current_results.at = 0 /\ current_results.stayed
    /\ current_results.kind = "odbc" /\ OnRowset(odbc) => odbc.at \in 1 .. Size(odbc)

LookTold == call.fn = "sqlsrv_has_rows" /\ call.ret = "true" => has_rows

Placed == ObjectFits /\ HandleFits /\ RowFits /\ RowIsThere /\ LookTold

(* A step that changes nothing of this, or only that the handle has no     *)
(* result any more.                                                        *)
SameFlags ==
  /\ UNCHANGED <<conf, has_rows, fetch_called, past_fetch_end, current_results>>
  /\ phase' = "none" <=> phase = "none"
Kept ==
  /\ SameFlags /\ odbc' = odbc
  /\ \/ UNCHANGED <<executed, past_next_result_end>>
     \/ UNCHANGED past_next_result_end /\ (~executed \/ past_next_result_end)
Idled == SameFlags /\ odbc' = Idle

(* A statement in front of a result, or without one.                       *)
Anew ==
  /\ ~fetch_called /\ ~has_rows /\ ~past_fetch_end
  /\ odbc.state # "open" => odbc.batch = << >>
  /\ odbc.state = "open" => odbc.at <= Size(odbc) + 1 /\ (~OnRowset(odbc) => odbc.at = 0)
  /\ current_results.kind # "null" =>
       (current_results.kind = "buffered" <=> conf.cursor = "buffered")
  /\ current_results.kind = "buffered" =>
       /\ current_results.at = 0 /\ odbc.state # "need_data"
       /\ odbc.state = "open" => current_results.rows = Size(odbc)
  /\ phase = "none" => current_results.kind = "null"
  /\ phase # "none" /\ odbc.state # "idle" =>
       \/ executed /\ ~past_next_result_end
       \/ conf.cursor = "buffered" /\ current_results.kind = "null"
  /\ phase # "none" /\ odbc.state = "open" /\ conf.cursor # "buffered" => odbc.at = 0

(* Each of the three keeps the invariant.                                  *)
LEMMA KeptPlaced ==
  ASSUME Placed, Kept, LookTold'
  PROVE  Placed'
BY DEF Placed, Kept, SameFlags, ObjectFits, HandleFits, RowFits, RowIsThere, Stands, At

LEMMA IdledPlaced ==
  ASSUME Placed, Idled, LookTold'
  PROVE  Placed'
BY DEF Placed, Idled, SameFlags, ObjectFits, HandleFits, RowFits, RowIsThere, OnRowset, Idle

LEMMA SizeType ==
  ASSUME NEW h, Live(h)
  PROVE  Size(h) \in Nat
BY HeadType DEF Size, OnRowset

LEMMA AnewPlaced ==
  ASSUME Live(odbc'), Anew', LookTold'
  PROVE  Placed'
<1>1. Size(odbc') \in Nat
  BY SizeType
<1>2. ObjectFits' /\ HandleFits' /\ RowIsThere'
  BY DEF Anew, ObjectFits, HandleFits, RowIsThere
<1>3. RowFits'
  BY <1>1 DEF Anew, RowFits, Stands, At, OnRowset
<1> QED
  BY <1>2, <1>3 DEF Placed

(* A result set object that was built, or could not be.                    *)
LEMMA NewResultsFit ==
  ASSUME NEW h, Live(h), h.state \in {"open", "need_data"},
         h.state = "open" => h.at = 0,
         NEW cursor, NEW n \in NewResults(h, cursor)
  PROVE  /\ h.state = "open" => n.h.at <= Size(h) + 1
         /\ ~OnRowset(h) => n.h = h
         /\ cursor # "buffered" => n.res.kind = "odbc" /\ n.h = h /\ n.ok
         /\ cursor = "buffered" => n.res.kind = IF n.ok THEN "buffered" ELSE "null"
         /\ n.res.kind = "buffered" => n.res.at = 0 /\ n.res.rows = Size(h) /\ h.state = "open"
<1>0. Size(h) \in Nat
  BY SizeType
<1>1. CASE cursor # "buffered"
  BY <1>0, <1>1, NewResultsType DEF OdbcResults
<1>2. CASE cursor = "buffered"
  <2>1. PICK c \in SQLNumResultCols(h) :
          n \in IF c = SQL_ERROR THEN {[ok |-> FALSE, h |-> h, res |-> NullResults]}
                ELSE IF c = 0 THEN {[ok |-> TRUE, h |-> h, res |-> BufferedRows(0)]}
                ELSE LET r == Head(h.batch).rows
                     IN  {[ok |-> TRUE, h |-> [h EXCEPT !.at = r + 1], res |-> BufferedRows(r)]} \cup
                         { [ok |-> FALSE, h |-> [h EXCEPT !.at = k], res |-> NullResults] :
                             k \in 1 .. r + 1 }
    BY <1>2 DEF NewResults
  <2>2. CASE c = SQL_ERROR
    BY <1>0, <1>2, <2>1, <2>2 DEF NullResults
  <2>3. CASE c = 0 /\ c # SQL_ERROR
    <3>1. n = [ok |-> TRUE, h |-> h, res |-> BufferedRows(0)]
      BY <2>1, <2>3
    <3>2. h.state = "open" /\ ~OnRowset(h)
      <4>1. h.state = "open" /\ Head(h.batch).cols = 0 /\ Head(h.batch) \in Items
        BY <2>3, NumResultColsType, HeadType
      <4> QED
        BY <4>1 DEF OnRowset, Items, Rowsets, Counts, Errors
    <3> QED
      BY <1>2, <3>1, <3>2 DEF BufferedRows, Size
  <2>4. CASE c # 0 /\ c # SQL_ERROR
    <3> DEFINE r == Head(h.batch).rows
    <3>1. h.state = "open" /\ Head(h.batch).cols # 0 /\ Head(h.batch) \in Items
      BY <2>4, NumResultColsType, HeadType
    <3>2. OnRowset(h) /\ Size(h) = r
      BY <3>1 DEF OnRowset, Size, Items, Rowsets, Counts, Errors
    <3>3. \/ n = [ok |-> TRUE, h |-> [h EXCEPT !.at = r + 1], res |-> BufferedRows(r)]
          \/ \E k \in 1 .. r + 1 : n = [ok |-> FALSE, h |-> [h EXCEPT !.at = k], res |-> NullResults]
      BY <2>1, <2>4
    <3>4. h \in Handles
      BY DEF Live
    <3> HIDE DEF r
    <3>5. CASE n = [ok |-> TRUE, h |-> [h EXCEPT !.at = r + 1], res |-> BufferedRows(r)]
      <4>1. n.ok = TRUE /\ n.h = [h EXCEPT !.at = r + 1] /\ n.res = BufferedRows(r)
        BY <3>5
      <4>2. n.h.at = r + 1
        BY <3>4, <4>1 DEF Handles
      <4> QED
        BY <1>0, <1>2, <3>1, <3>2, <4>1, <4>2 DEF BufferedRows
    <3>6. ASSUME NEW k \in 1 .. r + 1, n = [ok |-> FALSE, h |-> [h EXCEPT !.at = k], res |-> NullResults]
          PROVE  /\ n.h.at <= Size(h) + 1 /\ OnRowset(h)
                 /\ ~n.ok /\ n.res.kind = "null"
      <4>1. n.ok = FALSE /\ n.h = [h EXCEPT !.at = k] /\ n.res = NullResults
        BY <3>6
      <4>2. n.h.at = k
        BY <3>4, <4>1 DEF Handles
      <4> QED
        BY <1>0, <3>2, <4>1, <4>2 DEF NullResults
    <3> QED
      BY <1>2, <3>3, <3>5, <3>6
  <2> QED
    BY <2>2, <2>3, <2>4
<1> QED
  BY <1>1, <1>2

LEMMA BuiltAnew ==
  ASSUME NEW h, Live(h), h.state \in {"open", "need_data"},
         h.state = "open" => h.at = 0,
         h.state # "open" => h.batch = << >>,
         NEW n \in NewResults(h, conf'.cursor), current_results' = n.res, odbc' = n.h \/ odbc' = Idle,
         ~fetch_called', ~has_rows', ~past_fetch_end', ~past_next_result_end', phase' # "none",
         executed' \/ ~n.ok
  PROVE  Anew'
<1>1. /\ h.state = "open" => n.h.at <= Size(h) + 1
      /\ ~OnRowset(h) => n.h = h
      /\ conf'.cursor # "buffered" => n.res.kind = "odbc" /\ n.h = h /\ n.ok
      /\ conf'.cursor = "buffered" => n.res.kind = IF n.ok THEN "buffered" ELSE "null"
      /\ n.res.kind = "buffered" => n.res.at = 0 /\ n.res.rows = Size(h) /\ h.state = "open"
  BY NewResultsFit
<1>2. n.h.state = h.state /\ n.h.batch = h.batch /\ n.ok \in BOOLEAN
  BY NewResultsType
<1>3. Size(n.h) = Size(h) /\ (OnRowset(n.h) <=> OnRowset(h))
  BY <1>2 DEF Size, OnRowset
<1>4. CASE odbc' = n.h
  BY <1>1, <1>2, <1>3, <1>4 DEF Anew
<1>5. CASE odbc' = Idle
  BY <1>1, <1>2, <1>5 DEF Anew, Idle
<1> QED
  BY <1>4, <1>5

-----------------------------------------------------------------------------
(* Every action but a fetch that may move and a look ahead leaves the      *)
(* place of the script, or starts anew.                                    *)
Reads    == {"sqlsrv_fetch", "sqlsrv_fetch_array"}
Turns    == odbc'.batch # odbc.batch \/ odbc'.batch = << >> \/ Row = 0
StaysPut == Kept /\ LookTold' /\ (call'.fn \in Reads => call'.ret = "false")
Leaves   == /\ Idled \/ (Anew' /\ Turns)
            /\ call'.fn \in Reads \cup {"sqlsrv_has_rows"} => call'.ret \in {"crash", "no_row"}

(* The handle an execution leaves when it does not fail.                   *)
LEMMA ExecutionsEmpty ==
  ASSUME NEW h, NEW c, NEW p, NEW o \in Executions(h, c, p), o.r # SQL_ERROR
  PROVE  o.h.state # "open" => o.h.batch = << >>
<1>1. PICK x \in SQLExecute(h, p = "stream") :
        o \in IF x.r = SQL_NEED_DATA /\ c.send
              THEN {[r |-> SQL_ERROR, h |-> SQLCancel(x.h)]} \cup
                   { [r |-> SQL_NEED_DATA, h |-> Opened(b)] : b \in Batches }
              ELSE {x}
  BY DEF Executions, Ran
<1>2. o = x \/ \E b \in Batches : o = [r |-> SQL_NEED_DATA, h |-> Opened(b)]
  BY <1>1
<1>3. \A b : Opened(b).state = "open"
  BY DEF Opened
<1>4. \A n : Asking(n).batch = << >>
  BY DEF Asking
<1>5. x.r = SQL_ERROR \/ (\E n : x.h = Asking(n)) \/ (\E b : x.h = Opened(b))
  <2>1. x \in {[r |-> SQL_ERROR, h |-> h]} \cup
              { [r |-> SQL_NEED_DATA, h |-> Asking(n)] : n \in 1 .. MaxStreams } \cup
              { [r |-> SQL_SUCCESS, h |-> Opened(b)] : b \in Batches } \cup
              { [r |-> SQL_NO_DATA, h |-> Opened(b)] :
                b \in { d \in Batches : d[1].kind = "count" /\ d[1].rows = 0 } }
    BY DEF SQLExecute
  <2> QED
    BY <2>1
<1> QED
  BY <1>2, <1>3, <1>4, <1>5

LEMMA ExecutePlaces ==
  ASSUME NEW h, Live(h), NEW c \in AnyConf, NEW p, NEW ex \in BOOLEAN, NEW fn, conf' = c, phase' # "none",
         core_sqlsrv_execute(h, c, p, ex, fn)
  PROVE  /\ call'.fn = fn
         /\ \/ /\ odbc' \in {h, Idle}
               /\ UNCHANGED <<past_fetch_end, past_next_result_end, has_rows, fetch_called, current_results>>
            \/ h.state = "idle" /\ Anew'
<1> DEFINE bound == IF p = "output" THEN "bound" ELSE "none"
<1>1. PICK o \in Executions(h, c, p) :
        /\ call'.fn = fn
        /\ \/ /\ o.r = SQL_ERROR
              /\ ExecuteFails(o.h, ex)
              /\ UNCHANGED <<past_fetch_end, past_next_result_end, has_rows, fetch_called, current_results>>
           \/ /\ o.r # SQL_ERROR
              /\ ResetForNewResult
              /\ \E n \in NewResults(o.h, c.cursor) :
                   /\ current_results' = n.res
                   /\ \/ n.ok /\ ExecuteReturns(o, n, c, bound)
                      \/ n.ok /\ ExecuteFailsLate(o, n, c, bound)
                      \/ ~n.ok /\ ExecuteFails(n.h, ex)
  BY DEF core_sqlsrv_execute, Return
<1> HIDE DEF bound
<1>2. /\ Live(o.h)
      /\ o.r = SQL_ERROR => o.h = h \/ o.h = Idle
      /\ o.r # SQL_ERROR => h.state = "idle" /\ o.h.state \in {"open", "need_data"} /\ o.h.at = 0
  BY ExecutionsType
<1>3. CASE o.r = SQL_ERROR
  BY <1>1, <1>2, <1>3 DEF ExecuteFails, SQLCancel
<1>4. CASE o.r # SQL_ERROR
  <2>1. PICK n \in NewResults(o.h, c.cursor) :
          /\ current_results' = n.res
          /\ \/ n.ok /\ ExecuteReturns(o, n, c, bound)
             \/ n.ok /\ ExecuteFailsLate(o, n, c, bound)
             \/ ~n.ok /\ ExecuteFails(n.h, ex)
    BY <1>1, <1>4
  <2>2. /\ ~fetch_called' /\ ~has_rows' /\ ~past_fetch_end' /\ ~past_next_result_end'
    BY <1>1, <1>4 DEF ResetForNewResult
  <2>3. (odbc' = n.h \/ odbc' = Idle) /\ (executed' \/ ~n.ok)
    BY <2>1 DEF ExecuteReturns, ExecuteFails, ExecuteFailsLate, SQLCancel
  <2>4. o.h.state # "open" => o.h.batch = << >>
    BY <1>4, ExecutionsEmpty
  <2>5. n \in NewResults(o.h, conf'.cursor)
    BY <2>1
  <2>6. Anew'
    BY <1>2, <1>4, <2>1, <2>2, <2>3, <2>4, <2>5, BuiltAnew
  <2> QED
    BY <1>1, <1>2, <1>4, <2>6
<1> QED
  BY <1>3, <1>4

LEMMA BindAndExecuteLeaves ==
  ASSUME IInv, Placed, phase # "none", ~executed \/ past_next_result_end, BindAndExecute
  PROVE  StaysPut \/ Leaves
<1>1. Live(odbc) /\ conf \in AnyConf /\ executed \in BOOLEAN
  BY DEF IInv, TypeOK, Typed, HandleOK, FlagsOK, Live, AnyConf
<1>2. phase' = "ready" /\ conf' = conf
  BY DEF BindAndExecute
<1> DEFINE ex == executed /\ params_z \in {"none", "lost"}
<1>3. CASE core_sqlsrv_execute(odbc, conf, params_z, ex, "sqlsrv_execute")
  <2>1. ex \in BOOLEAN
    BY <1>1
  <2> HIDE DEF ex
  <2>2. /\ call'.fn = "sqlsrv_execute"
        /\ \/ /\ odbc' \in {odbc, Idle}
              /\ UNCHANGED <<past_fetch_end, past_next_result_end, has_rows, fetch_called, current_results>>
           \/ odbc.state = "idle" /\ Anew'
    BY <1>1, <1>2, <1>3, <2>1, ExecutePlaces
  <2>3. CASE odbc.state = "idle" /\ Anew'
    BY <2>2, <2>3 DEF Leaves, Turns, Row, Reads
  <2>4. CASE odbc' \in {odbc, Idle}
              /\ UNCHANGED <<past_fetch_end, past_next_result_end, has_rows, fetch_called, current_results>>
    <3>1. SameFlags
      BY <1>2, <2>4 DEF SameFlags
    <3> QED
      BY <2>2, <2>4, <3>1 DEF StaysPut, Leaves, Kept, Idled, LookTold, Reads
  <2> QED
    BY <2>2, <2>3, <2>4
<1>4. CASE /\ Return("sqlsrv_execute", "false")
           /\ UNCHANGED <<odbc, past_fetch_end, past_next_result_end, has_rows, fetch_called,
                          caches, current_results, delivered>>
  BY <1>2, <1>4 DEF StaysPut, Kept, SameFlags, LookTold, Reads, Return
<1> QED
  BY <1>3, <1>4 DEF BindAndExecute

LEMMA PrepareLeaves ==
  ASSUME IInv, Placed, NEW c \in Confs, NEW p \in ParamKinds, sqlsrv_prepare(c, p)
  PROVE  Leaves
<1>1. /\ phase = "none" /\ phase' = "ready" /\ odbc' = Idle
      /\ UNCHANGED <<has_rows, fetch_called, past_fetch_end, current_results>>
      /\ call'.fn = "sqlsrv_prepare"
  BY DEF sqlsrv_prepare, flags, Return
<1>2. ~has_rows /\ ~fetch_called /\ ~past_fetch_end /\ current_results.kind = "null"
  BY <1>1 DEF IInv, Safe, NothingYet, Placed, ObjectFits
<1>3. Anew'
  BY <1>1, <1>2 DEF Anew, Idle
<1> QED
  BY <1>1, <1>3 DEF Leaves, Turns, Row, Reads

(* A statement that is no more, whatever is left on its handle.            *)
LEMMA GoneAnew ==
  ASSUME Gone,
         odbc'.state # "open" => odbc'.batch = << >>,
         odbc'.state = "open" => odbc'.at <= Size(odbc') + 1 /\ (~OnRowset(odbc') => odbc'.at = 0)
  PROVE  Anew'
BY DEF Gone, Anew, NullResults

LEMMA CrashLeaves ==
  ASSUME NEW fn, Crash(fn) \/ Dies(fn)
  PROVE  Leaves
<1>1. Gone /\ odbc' = Idle /\ call'.ret \in {"crash", "no_row"}
  BY DEF Crash, Dies, Return
<1>2. Anew'
  BY <1>1, GoneAnew DEF Idle
<1> QED
  BY <1>1, <1>2 DEF Leaves, Turns, Idle

LEMMA QueryLeaves ==
  ASSUME IInv, Placed, NEW c \in Confs, NEW p \in ParamKinds, sqlsrv_query(c, p)
  PROVE  Leaves
<1>0. Row = 0
  BY DEF sqlsrv_query, Row
<1>1. CASE QuerySucceeds(c, p)
  <2>1. /\ core_sqlsrv_execute(Idle, c, p, FALSE, "sqlsrv_query")
        /\ call'.ret = "true" /\ phase' = "ready" /\ conf' = c
    BY <1>1 DEF QuerySucceeds
  <2>2. phase' # "none" /\ c \in AnyConf
    BY <2>1 DEF AnyConf
  <2>3. call'.fn = "sqlsrv_query" /\ Anew'
    <3> DEFINE bound == IF p = "output" THEN "bound" ELSE "none"
    <3>1. PICK o \in Executions(Idle, c, p) :
            \/ o.r = SQL_ERROR /\ Return("sqlsrv_query", "false")
            \/ /\ o.r # SQL_ERROR
               /\ ResetForNewResult
               /\ \E n \in NewResults(o.h, c.cursor) :
                    /\ current_results' = n.res
                    /\ \/ ExecuteReturns(o, n, c, bound) /\ Return("sqlsrv_query", "true")
                       \/ Return("sqlsrv_query", "false")
      BY <2>1 DEF core_sqlsrv_execute
    <3> HIDE DEF bound
    <3>9. ~Return("sqlsrv_query", "false")
      BY <2>1 DEF Return
    <3>2. o.r # SQL_ERROR
      BY <3>1, <3>9
    <3>3. PICK n \in NewResults(o.h, c.cursor) :
            current_results' = n.res /\ odbc' = n.h /\ executed' = TRUE
      BY <3>1, <3>2, <3>9 DEF ExecuteReturns
    <3>4. Live(o.h) /\ o.h.state \in {"open", "need_data"} /\ o.h.at = 0
      BY <2>2, <3>2, IdleLive, ExecutionsType
    <3>5. o.h.state # "open" => o.h.batch = << >>
      BY <3>2, ExecutionsEmpty
    <3>6. ~fetch_called' /\ ~has_rows' /\ ~past_fetch_end' /\ ~past_next_result_end'
      BY <3>1, <3>2 DEF ResetForNewResult
    <3>7. n \in NewResults(o.h, conf'.cursor)
      BY <2>1, <3>3
    <3>8. Anew'
      BY <2>1, <2>2, <3>3, <3>4, <3>5, <3>6, <3>7, BuiltAnew
    <3>10. call'.fn = "sqlsrv_query"
      BY <3>1, <3>2 DEF Return
    <3> QED
      BY <3>8, <3>10
  <2> QED
    BY <1>0, <2>3 DEF Leaves, Turns, Reads
<1>2. CASE QueryFails(c, p)
  <2>1. PICK o \in Executions(Idle, c, p) :
          \/ o.r = SQL_ERROR /\ odbc' = o.h
          \/ /\ o.r # SQL_ERROR
             /\ \E n \in NewResults(o.h, c.cursor) : (~n.ok /\ odbc' = n.h) \/ odbc' = Idle
    BY <1>2 DEF QueryFails, SQLCancel
  <2>2. /\ Live(o.h)
        /\ o.r = SQL_ERROR => o.h = Idle
        /\ o.r # SQL_ERROR => o.h.state \in {"open", "need_data"} /\ o.h.at = 0
    BY IdleLive, ExecutionsType DEF AnyConf
  <2>3. CASE o.r = SQL_ERROR
    BY <2>1, <2>2, <2>3, GoneAnew, <1>0, <1>2 DEF Idle, QueryFails, Leaves, Turns, Reads, Return
  <2>5. CASE odbc' = Idle
    BY <2>5, GoneAnew, <1>0, <1>2 DEF Idle, QueryFails, Leaves, Turns, Reads, Return
  <2>4. CASE o.r # SQL_ERROR /\ odbc' # Idle
    <3>1. PICK n \in NewResults(o.h, c.cursor) : odbc' = n.h
      BY <2>1, <2>4
    <3>2. (o.h.state = "open" => n.h.at <= Size(o.h) + 1) /\ (~OnRowset(o.h) => n.h = o.h)
      BY <2>2, <2>4, NewResultsFit
    <3>3. n.h.state = o.h.state /\ n.h.batch = o.h.batch
      BY <2>2, <2>4, NewResultsType
    <3>4. Size(n.h) = Size(o.h) /\ (OnRowset(n.h) <=> OnRowset(o.h))
      BY <3>3 DEF Size, OnRowset
    <3>5. o.h.state # "open" => o.h.batch = << >>
      BY <2>4, ExecutionsEmpty
    <3>6. Anew'
      BY <1>2, <2>2, <2>4, <3>1, <3>2, <3>3, <3>4, <3>5, GoneAnew DEF QueryFails
    <3> QED
      BY <1>0, <1>2, <3>6 DEF QueryFails, Leaves, Turns, Reads, Return
  <2> QED
    BY <2>3, <2>4, <2>5
<1> QED
  BY <1>1, <1>2 DEF sqlsrv_query

LEMMA CoreNextResultLeaves ==
  ASSUME IInv, Placed, phase # "none", phase' # "none", UNCHANGED conf,
         NEW finalize, NEW throw, NEW report, NEW fn, fn \notin Reads \cup {"sqlsrv_has_rows"},
         core_sqlsrv_next_result(finalize, throw, report, fn)
  PROVE  StaysPut \/ Leaves
<1> DEFINE m == SQLMoreResults(odbc)
<1>1. Live(odbc) /\ HandleFits
  BY DEF IInv, TypeOK, Typed, HandleOK, Live, Placed
<1>2. /\ Live(m.h)
      /\ m.r = SQL_NO_DATA => m.h = Idle
      /\ m.r \in {SQL_SUCCESS, SQL_ERROR} =>
           \/ m.h.state = "open" /\ m.h.at = 0 /\ m.h.batch # odbc.batch
           \/ m.h.state = "need_data" /\ m.h = odbc
  BY <1>1, MoreResultsLive, MoreResultsMoves
<1> HIDE DEF m
<1>3. Size(m.h) \in Nat
  BY <1>2, SizeType
<1>4. CASE NextResultRefused(throw, fn) \/ NextResultThrows(m, fn)
  <2>1. odbc' \in {odbc, Idle} /\ call'.fn = fn
        /\ UNCHANGED <<flags, caches, current_results, outputs, delivered>>
    BY <1>4 DEF NextResultRefused, NextResultThrows, SQLCancel, Return
  <2> QED
    BY <2>1 DEF StaysPut, Leaves, Kept, Idled, SameFlags, LookTold, flags, Reads
<1>5. CASE executed /\ ~past_next_result_end /\ NextResultReports(m, fn)
  <2>1. /\ ~fetch_called' /\ ~has_rows' /\ ~past_fetch_end'
        /\ executed' /\ ~past_next_result_end'
        /\ odbc' = m.h /\ current_results'.kind = "null" /\ call'.fn = fn /\ m.r = SQL_ERROR
    BY <1>5 DEF NextResultReports, NullResults, Return
  <2>2. odbc'.state # "open" => odbc'.batch = << >>
    BY <1>1, <1>2, <2>1 DEF HandleFits
  <2>3. Size(odbc') \in Nat
    BY <1>3, <2>1
  <2>4. Anew'
    BY <1>2, <2>1, <2>2, <2>3 DEF Anew
  <2> QED
    BY <1>2, <2>1, <2>2, <2>4 DEF Leaves, Turns
<1>6. CASE NextResultEnds(m, finalize, fn)
  <2>1. /\ odbc' = Idle /\ call'.fn = fn
        /\ UNCHANGED <<has_rows, fetch_called, past_fetch_end, current_results>>
    BY <1>2, <1>6 DEF NextResultEnds, Return
  <2> QED
    BY <2>1 DEF Leaves, Idled, SameFlags
<1>8. CASE NextResultEndThrows(m, finalize, fn)
  <2>1. /\ odbc' = Idle /\ call'.fn = fn
        /\ UNCHANGED <<has_rows, fetch_called, past_fetch_end, current_results>>
    BY <1>2, <1>8 DEF NextResultEndThrows, Return, flags
  <2> QED
    BY <2>1 DEF Leaves, Idled, SameFlags
<1>7. CASE /\ executed /\ ~past_next_result_end
           /\ m.r \in {SQL_SUCCESS, SQL_ERROR} /\ NextResultMoves(m, throw, fn)
  <2>1. PICK n \in NewResults(m.h, conf.cursor) :
          /\ odbc' = IF ~n.ok /\ throw THEN SQLCancel(n.h) ELSE n.h
          /\ current_results' = n.res
          /\ call'.fn = fn
    BY <1>7 DEF NextResultMoves, Return
  <2>2. /\ ~fetch_called' /\ ~has_rows' /\ ~past_fetch_end' /\ ~past_next_result_end' /\ executed'
    BY <1>7 DEF NextResultMoves, ResetForNewResult
  <2>3. m.h.state # "open" => m.h.batch = << >>
    BY <1>1, <1>2, <1>7 DEF HandleFits
  <2>4. Live(m.h) /\ m.h.state \in {"open", "need_data"} /\ (m.h.state = "open" => m.h.at = 0)
    BY <1>2, <1>7
  <2>5. n \in NewResults(m.h, conf'.cursor) /\ current_results' = n.res /\ (odbc' = n.h \/ odbc' = Idle)
    BY <2>1 DEF SQLCancel
  <2>6. Anew'
    BY <2>2, <2>3, <2>4, <2>5, BuiltAnew
  <2>7. n.h.batch = m.h.batch
    BY <2>4, <2>1, NewResultsType
  <2>8. Turns
    BY <1>2, <1>7, <2>3, <2>5, <2>7 DEF Turns, Idle
  <2> QED
    BY <2>1, <2>6, <2>8 DEF Leaves
<1> QED
  BY <1>4, <1>5, <1>6, <1>7, <1>8 DEF core_sqlsrv_next_result, m

LEMMA NextResultLeaves ==
  ASSUME IInv, Placed, sqlsrv_next_result
  PROVE  StaysPut \/ Leaves
<1>1. /\ core_sqlsrv_next_result(TRUE, ~conf.continue, conf.continue, "sqlsrv_next_result")
      /\ phase = "ready" /\ UNCHANGED <<phase, conf>>
  BY DEF sqlsrv_next_result
<1> QED
  BY <1>1, CoreNextResultLeaves DEF Reads

LEMMA FlushStepLeaves ==
  ASSUME IInv, Placed, FlushStep
  PROVE  StaysPut \/ Leaves
<1>1. phase = "flush"
  BY DEF FlushStep
<1>2. ASSUME core_sqlsrv_next_result(FALSE, FALSE, FALSE, "sqlsrv_execute"),
             phase' \in {"ready", "flush"}, UNCHANGED conf
      PROVE  StaysPut \/ Leaves
  BY <1>1, <1>2, CoreNextResultLeaves DEF Reads
<1>3. CASE past_next_result_end /\ BindAndExecute
  BY <1>1, <1>3, BindAndExecuteLeaves
<1> QED
  BY <1>2, <1>3 DEF FlushStep

LEMMA ExecuteActionLeaves ==
  ASSUME IInv, Placed, sqlsrv_execute
  PROVE  StaysPut \/ Leaves
<1>1. phase = "ready"
  BY DEF sqlsrv_execute
<1>2. CASE (~executed \/ past_next_result_end) /\ BindAndExecute
  BY <1>1, <1>2, BindAndExecuteLeaves
<1>3. CASE /\ phase' \in {phase, "flush"} /\ call'.fn = "sqlsrv_execute"
           /\ UNCHANGED <<conf, odbc, flags, caches, current_results, params, delivered>>
  BY <1>1, <1>3 DEF StaysPut, Kept, SameFlags, LookTold, flags, Reads
<1> QED
  BY <1>2, <1>3 DEF sqlsrv_execute, Return

LEMMA GetFieldLeaves ==
  ASSUME IInv, Placed, NEW i \in 0 .. MaxCols - 1, sqlsrv_get_field(i)
  PROVE  StaysPut \/ Leaves
<1>1. CASE GetsField(i)
  <2>1. /\ UNCHANGED <<phase, conf, odbc, flags, current_results>>
        /\ call'.fn = "sqlsrv_get_field"
    BY <1>1 DEF GetsField, Return
  <2> QED
    BY <2>1 DEF StaysPut, Kept, SameFlags, LookTold, flags, Reads
<1>2. CASE Dies("sqlsrv_get_field")
  BY <1>2, CrashLeaves
<1> QED
  BY <1>1, <1>2 DEF sqlsrv_get_field

LEMMA FetchRefusedLeaves ==
  ASSUME Placed, NEW to, NEW fn \in Reads, Fetched(fn, to, "false", 0),
         UNCHANGED <<phase, conf, odbc, flags, current_results>>
  PROVE  StaysPut
<1>1. call'.fn = fn /\ call'.ret = "false"
  BY DEF Fetched
<1> QED
  BY <1>1 DEF StaysPut, Kept, SameFlags, LookTold, flags, Reads

(* sqlsrv_has_rows that changes nothing.                                   *)
LEMMA HasRowsLeaves ==
  ASSUME IInv, Placed, sqlsrv_has_rows, UNCHANGED <<odbc, current_results, has_rows>>
  PROVE  StaysPut
<1>1. /\ UNCHANGED <<phase, conf, executed, past_fetch_end, past_next_result_end, fetch_called>>
      /\ call'.fn = "sqlsrv_has_rows"
      /\ call'.ret = "true" => has_rows
  BY DEF sqlsrv_has_rows, Return
<1> QED
  BY <1>1 DEF StaysPut, Kept, SameFlags, LookTold, Reads

LEMMA RowCountLeaves ==
  ASSUME IInv, Placed, NEW fn, fn \notin Reads \cup {"sqlsrv_has_rows"}, RowCount(fn)
  PROVE  StaysPut \/ Leaves
<1>1. CASE Crash(fn)
  BY <1>1, CrashLeaves
<1>2. CASE /\ call'.fn = fn
           /\ UNCHANGED <<phase, conf, odbc, flags, caches, current_results, params, delivered>>
  BY <1>2 DEF StaysPut, Kept, SameFlags, LookTold, flags, Reads
<1> QED
  BY <1>1, <1>2 DEF RowCount, Return

LEMMA SendStreamLeaves ==
  ASSUME IInv, Placed, sqlsrv_send_stream_data
  PROVE  StaysPut \/ Leaves
<1>1. /\ phase = "ready"
      /\ UNCHANGED <<phase, conf, executed, past_next_result_end, has_rows, fetch_called, past_fetch_end,
                     current_results>>
      /\ call'.fn = "sqlsrv_send_stream_data"
  BY DEF sqlsrv_send_stream_data, flags, PacketFails, SendPacket, Return
<1>2. CASE odbc' = odbc \/ odbc' = Idle
  BY <1>1, <1>2 DEF StaysPut, Leaves, Kept, Idled, SameFlags, LookTold, Reads
<1>3. ASSUME NEW o \in SQLParamData(odbc), odbc' = o.h, o.r \in {SQL_NEED_DATA, SQL_SUCCESS}
      PROVE  Leaves
  <2>1. /\ odbc.state = "need_data"
        /\ odbc'.state = "open" => odbc'.at = 0
        /\ odbc'.state # "open" => odbc'.batch = odbc.batch
        /\ Live(odbc')
    BY <1>3, ParamDataLive DEF IInv, TypeOK, Typed, HandleOK, Live, SQL_ERROR, SQL_NEED_DATA, SQL_SUCCESS
  <2>2. ~fetch_called /\ ~has_rows /\ ~past_fetch_end /\ odbc.batch = << >>
    BY <2>1 DEF IInv, Safe, NothingTold, Placed, HandleFits
  <2>3. Size(odbc') \in Nat
    BY <2>1, SizeType
  <2>4. /\ current_results.kind # "buffered"
        /\ current_results.kind # "null" =>
             (current_results.kind = "buffered" <=> conf.cursor = "buffered")
        /\ \/ executed /\ ~past_next_result_end
           \/ conf.cursor = "buffered" /\ current_results.kind = "null"
    BY <1>1, <2>1 DEF Placed, ObjectFits, HandleFits
  <2>5. Anew'
    BY <1>1, <2>1, <2>2, <2>3, <2>4 DEF Anew
  <2> QED
    BY <1>1, <2>1, <2>5 DEF Leaves, Turns, Row, Reads
<1> QED
  BY <1>2, <1>3 DEF sqlsrv_send_stream_data, PacketFails, SendPacket, SQLCancel

LEMMA CancelLeaves ==
  ASSUME IInv, Placed, sqlsrv_cancel
  PROVE  StaysPut \/ Leaves
<1>1. /\ odbc' \in {odbc, Idle}
      /\ UNCHANGED <<phase, conf, flags, caches, current_results, params, delivered>>
      /\ call'.fn = "sqlsrv_cancel"
  BY DEF sqlsrv_cancel, SQLCancel, Return
<1> QED
  BY <1>1 DEF StaysPut, Leaves, Kept, Idled, SameFlags, LookTold, flags, Reads

(* A statement is destroyed with what its draining leaves, or with a       *)
(* result that could not be buffered and was never drained.                *)
LEMMA FreeLeaves ==
  ASSUME IInv, Placed, sqlsrv_free_stmt
  PROVE  Leaves
<1>1. /\ phase = "ready" /\ Gone
      /\ odbc' = IF executed /\ ~past_next_result_end THEN Drained(odbc) ELSE odbc
      /\ call'.fn = "sqlsrv_free_stmt"
  BY DEF sqlsrv_free_stmt, Return
<1>2. Live(odbc) /\ HandleFits
  BY DEF IInv, TypeOK, Typed, HandleOK, Live, Placed
<1>3. CASE odbc.state # "open"
  <2>1. odbc' = odbc /\ odbc.batch = << >>
    BY <1>1, <1>2, <1>3, DrainedLive DEF HandleFits
  <2>2. Anew'
    BY <1>1, <1>3, <2>1, GoneAnew
  <2> QED
    BY <1>1, <2>1, <2>2 DEF Leaves, Turns, Reads
<1>4. CASE odbc.state = "open" /\ executed /\ ~past_next_result_end
  <2>1. /\ odbc' = Idle \/ (odbc'.at = 0 /\ odbc'.batch # odbc.batch)
        /\ Live(odbc') /\ odbc'.state \in {"idle", "open"}
        /\ odbc'.state = "idle" => odbc' = Idle
    <3>1. odbc' = Drained(odbc)
      BY <1>1, <1>4
    <3> QED
      BY <1>2, <1>4, <3>1, DrainedLive DEF OnError, Idle
  <2>2. Size(odbc') \in Nat
    BY <2>1, SizeType
  <2>3. Anew'
    BY <1>1, <2>1, <2>2, GoneAnew DEF Idle
  <2> QED
    BY <1>1, <2>1, <2>3 DEF Leaves, Turns, Idle, Reads
<1>5. CASE odbc.state = "open" /\ ~(executed /\ ~past_next_result_end)
  <2>1. odbc' = odbc
    BY <1>1, <1>5
  <2>2. Anew'
    BY <1>1, <1>2, <1>5, <2>1, GoneAnew DEF HandleFits
  <2>3. Row = 0
    BY <1>1, <1>2, <1>5 DEF HandleFits, Row
  <2> QED
    BY <1>1, <2>2, <2>3 DEF Leaves, Turns, Reads
<1> QED
  BY <1>3, <1>4, <1>5

-----------------------------------------------------------------------------
(* The two actions that move within a result.  Where a cursor over n rows  *)
(* goes, and where the ODBC cursor is after a fetch.                       *)
LEMMA MovedPlace ==
  ASSUME NEW to \in AnyMoves, NEW at \in Nat, NEW n \in Nat, at <= n + 1
  PROVE  /\ Moved(to, at, n) \in 0 .. n + 1
         /\ to.style = "SQL_FETCH_NEXT" => Moved(to, at, n) = IF at < n THEN at + 1 ELSE n + 1
         /\ to.style = "SQL_FETCH_FIRST" => Moved(to, at, n) = IF n > 0 THEN 1 ELSE n + 1
<1>1. to.style \in Styles /\ to.offset \in Int
  BY DEF AnyMoves
<1> DEFINE asked == CASE to.style = "SQL_FETCH_NEXT"     -> at + 1
                      [] to.style = "SQL_FETCH_PRIOR"    -> at - 1
                      [] to.style = "SQL_FETCH_FIRST"    -> IF n > 0 THEN 1 ELSE n + 1
                      [] to.style = "SQL_FETCH_LAST"     -> n
                      [] to.style = "SQL_FETCH_RELATIVE" -> at + to.offset
                      [] to.style = "SQL_FETCH_ABSOLUTE" /\ to.offset < 0 -> n + 1 + to.offset
                      [] OTHER -> to.offset
<1>2. /\ asked \in Int
      /\ to.style = "SQL_FETCH_NEXT" => asked = at + 1
      /\ to.style = "SQL_FETCH_FIRST" => asked = IF n > 0 THEN 1 ELSE n + 1
  BY <1>1 DEF Styles
<1>3. Moved(to, at, n) = IF asked < 0 THEN 0 ELSE IF asked > n THEN n + 1 ELSE asked
  BY DEF Moved
<1> HIDE DEF asked
<1> QED
  BY <1>2, <1>3

LEMMA ScrollPlace ==
  ASSUME NEW h, Live(h), OnRowset(h), NEW to \in AnyMoves, NEW forward \in BOOLEAN,
         NEW o \in SQLFetchScroll(h, to, forward)
  PROVE  /\ o.r \in {SQL_ERROR, SQL_SUCCESS, SQL_NO_DATA}
         /\ o.r # SQL_ERROR => o.h.at = Moved(to, h.at, Size(h))
         /\ o.r = SQL_SUCCESS <=> o.r # SQL_ERROR /\ o.h.at \in 1 .. Size(h)
         /\ o.r # SQL_ERROR /\ forward => to.style = "SQL_FETCH_NEXT"
         /\ o.r = SQL_ERROR => o.h = h \/ (forward /\ o.h.at = Size(h) + 1)
<1> USE DEF SQL_ERROR, SQL_SUCCESS, SQL_NO_DATA
<1> DEFINE n == Size(h)
           d == Moved(to, h.at, n)
<1>1. n \in Nat /\ n = Head(h.batch).rows /\ h \in Handles
  BY SizeType DEF Size, Live
<1>2. CASE forward /\ to.style # "SQL_FETCH_NEXT"
  <2>1. o = [r |-> SQL_ERROR, h |-> h]
    BY <1>2 DEF SQLFetchScroll
  <2> QED
    BY <2>1
<1>3. CASE ~(forward /\ to.style # "SQL_FETCH_NEXT")
  <2>1. o \in {[r |-> IF d \in 1 .. n THEN SQL_SUCCESS ELSE SQL_NO_DATA, h |-> [h EXCEPT !.at = d]],
               [r |-> SQL_ERROR, h |-> IF forward THEN [h EXCEPT !.at = n + 1] ELSE h]}
    BY <1>1, <1>3 DEF SQLFetchScroll
  <2> HIDE DEF d, n
  <2>2. CASE o = [r |-> IF d \in 1 .. n THEN SQL_SUCCESS ELSE SQL_NO_DATA, h |-> [h EXCEPT !.at = d]]
    <3>1. o.r = (IF d \in 1 .. n THEN SQL_SUCCESS ELSE SQL_NO_DATA) /\ o.h = [h EXCEPT !.at = d]
      BY <2>2
    <3>2. o.h.at = d
      BY <1>1, <3>1 DEF Handles
    <3> QED
      BY <1>3, <3>1, <3>2 DEF d, n
  <2>3. CASE o = [r |-> SQL_ERROR, h |-> IF forward THEN [h EXCEPT !.at = n + 1] ELSE h]
    <3>1. o.r = SQL_ERROR /\ o.h = IF forward THEN [h EXCEPT !.at = n + 1] ELSE h
      BY <2>3
    <3>2. o.h = h \/ (forward /\ o.h.at = n + 1)
      BY <1>1, <3>1 DEF Handles
    <3> QED
      BY <3>1, <3>2 DEF n
  <2> QED
    BY <2>1, <2>2, <2>3
<1> QED
  BY <1>2, <1>3

(* Where the cursor over buffered rows is after a fetch: within the rows   *)
(* and the places before and behind them, and on row 0 with success only   *)
(* where it was left there.                                                *)
LEMMA BufferedPlace ==
  ASSUME NEW to \in AnyMoves, current_results \in ResultSets
  PROVE  LET b == BufferedFetch(to)
             n == current_results.rows
         IN /\ b.res.at \in 0 .. n + 1
            /\ b.r = SQL_NO_DATA => b.res.at \in {0, n + 1}
            /\ to.style = "SQL_FETCH_NEXT" =>
                 /\ b.res.at = IF current_results.at < n THEN current_results.at + 1 ELSE n + 1
                 /\ b.r = SQL_SUCCESS <=> current_results.at < n
            /\ to.style = "SQL_FETCH_FIRST" =>
                 /\ b.res.at = IF n > 0 THEN 1 ELSE n + 1
                 /\ b.r = SQL_SUCCESS <=> n > 0
<1> DEFINE b  == BufferedFetch(to)
           n  == current_results.rows
           by == CASE to.style = "SQL_FETCH_NEXT" -> 1
                   [] to.style = "SQL_FETCH_PRIOR" -> -1
                   [] OTHER -> to.offset
           relative == to.style \in {"SQL_FETCH_NEXT", "SQL_FETCH_PRIOR", "SQL_FETCH_RELATIVE"}
           place == CASE to.style = "SQL_FETCH_FIRST" -> 1
                      [] to.style = "SQL_FETCH_LAST" -> n
                      [] OTHER -> IF relative THEN current_results.at + by ELSE by
<1>1. n \in Nat /\ current_results.at \in Nat /\ to.offset \in Int
  BY DEF ResultSets, AnyMoves
<1>2. by \in Int
  BY <1>1
<1>3. /\ place \in Int
      /\ relative => place = current_results.at + by
  BY <1>1, <1>2
<1>4. b = CASE place <= 0 /\ (by < 0 \/ ~relative) ->
                 [r |-> SQL_NO_DATA, res |-> [current_results EXCEPT !.at = 0]]
            [] place > n -> [r |-> SQL_NO_DATA, res |-> [current_results EXCEPT !.at = n + 1]]
            [] OTHER -> [r |-> SQL_SUCCESS,
                         res |-> [current_results EXCEPT !.at = place, !.stayed = @ \/ place = 0]]
  BY DEF BufferedFetch
<1>5. /\ to.style = "SQL_FETCH_NEXT" => place = current_results.at + 1
      /\ to.style = "SQL_FETCH_FIRST" => place = 1
  BY <1>1
<1> HIDE DEF b, by, relative, place, n
<1>6. place <= 0 /\ ~(by < 0 \/ ~relative) => place = 0
  BY <1>1, <1>2, <1>3
<1>7. /\ b.res.at = IF place <= 0 THEN 0 ELSE IF place > n THEN n + 1 ELSE place
      /\ b.r = SQL_SUCCESS => place \in 0 .. n
      /\ b.r = SQL_NO_DATA => place <= 0 \/ place > n
      /\ place \in 1 .. n => b.r = SQL_SUCCESS
  <2>1. CASE place <= 0 /\ (by < 0 \/ ~relative)
    <3>1. b = [r |-> SQL_NO_DATA, res |-> [current_results EXCEPT !.at = 0]]
      BY <1>1, <1>3, <1>4, <2>1
    <3> QED
      BY <1>3, <2>1, <3>1 DEF ResultSets, SQL_SUCCESS, SQL_NO_DATA
  <2>2. CASE place > n
    <3>1. b = [r |-> SQL_NO_DATA, res |-> [current_results EXCEPT !.at = n + 1]]
      BY <1>1, <1>3, <1>4, <2>2
    <3> QED
      BY <1>1, <1>3, <2>2, <3>1 DEF ResultSets, SQL_SUCCESS, SQL_NO_DATA
  <2>3. CASE ~(place <= 0 /\ (by < 0 \/ ~relative)) /\ ~(place > n)
    <3>1. b = [r |-> SQL_SUCCESS,
               res |-> [current_results EXCEPT !.at = place, !.stayed = @ \/ place = 0]]
      BY <1>4, <2>3
    <3>2. b.r = SQL_SUCCESS /\ b.res.at = place
      BY <3>1 DEF ResultSets
    <3> QED
      BY <1>1, <1>3, <1>6, <2>3, <3>2 DEF SQL_SUCCESS, SQL_NO_DATA
  <2> QED
    BY <2>1, <2>2, <2>3
<1>8. b.res.at \in 0 .. n + 1 /\ (b.r = SQL_NO_DATA => b.res.at \in {0, n + 1})
  BY <1>1, <1>3, <1>7
<1>9. to.style = "SQL_FETCH_NEXT" =>
        /\ b.res.at = IF current_results.at < n THEN current_results.at + 1 ELSE n + 1
        /\ b.r = SQL_SUCCESS <=> current_results.at < n
  BY <1>1, <1>5, <1>7
<1>10. to.style = "SQL_FETCH_FIRST" =>
         /\ b.res.at = IF n > 0 THEN 1 ELSE n + 1
         /\ b.r = SQL_SUCCESS <=> n > 0
  BY <1>1, <1>5, <1>7
<1> QED
  BY <1>8, <1>9, <1>10 DEF b, n

(* The same of a result set object, whatever kind it has.                  *)
LEMMA ResultsFetchPlace ==
  ASSUME IInv, Placed, current_results.kind # "null", NEW to \in AnyMoves, NEW o \in ResultsFetch(to)
  PROVE  /\ o.r \in {SQL_ERROR, SQL_SUCCESS, SQL_NO_DATA}
         /\ o.res.kind = current_results.kind /\ o.res.rows = current_results.rows
         /\ current_results.stayed => o.res.stayed
         /\ current_results.kind = "buffered" => o.h = odbc /\ o.r # SQL_ERROR
         /\ current_results.kind # "buffered" =>
              o.res = current_results /\ (~OnRowset(odbc) => o.h = odbc /\ o.r = SQL_ERROR)
         /\ current_results.kind = "buffered" /\ o.r = SQL_SUCCESS =>
              o.res.at \in 1 .. o.res.rows \/ (o.res.at = 0 /\ o.res.stayed)
         /\ OnRowset(odbc) =>
              /\ o.r # SQL_ERROR => At(o.h, o.res) \in 0 .. Size(odbc) + 1
              /\ o.r = SQL_NO_DATA => At(o.h, o.res) \in {0, Size(odbc) + 1}
              /\ o.r = SQL_SUCCESS =>
                   \/ At(o.h, o.res) \in 1 .. Size(odbc)
                   \/ At(o.h, o.res) = 0 /\ o.res.kind = "buffered" /\ o.res.stayed
              /\ o.r # SQL_ERROR /\ to.style = "SQL_FETCH_NEXT" =>
                   /\ At(o.h, o.res) = IF Stands < Size(odbc) THEN Stands + 1 ELSE Size(odbc) + 1
                   /\ o.r = SQL_SUCCESS <=> Stands < Size(odbc)
              /\ o.r # SQL_ERROR /\ to.style = "SQL_FETCH_FIRST" =>
                   /\ At(o.h, o.res) = IF Size(odbc) > 0 THEN 1 ELSE Size(odbc) + 1
                   /\ o.r = SQL_SUCCESS <=> Size(odbc) > 0
              /\ o.r # SQL_ERROR /\ conf.cursor = "forward" => to.style = "SQL_FETCH_NEXT"
              /\ o.r = SQL_ERROR => \/ o.h = odbc
                                    \/ conf.cursor = "forward" /\ o.h.at = Size(odbc) + 1
<1>1. Live(odbc) /\ current_results \in ResultSets /\ ObjectFits /\ HandleFits
  BY DEF IInv, TypeOK, Typed, HandleOK, Live, ResultsOK, ResultSets, Placed
<1>2. CASE current_results.kind = "buffered"
  <2> DEFINE b == BufferedFetch(to)
             n == current_results.rows
  <2>1. o = [r |-> b.r, h |-> odbc, res |-> b.res]
    BY <1>2 DEF ResultsFetch
  <2>2. o.r = b.r /\ o.h = odbc /\ o.res = b.res
    BY <2>1
  <2>3. /\ b.r \in {SQL_SUCCESS, SQL_NO_DATA}
        /\ b.res.kind = current_results.kind /\ b.res.rows = n
        /\ b.r = SQL_SUCCESS => \/ b.res.at \in 1 .. n
                                \/ b.res.at = 0 /\ b.res.stayed
        /\ current_results.stayed => b.res.stayed
    BY <1>1, BufferedFetchType
  <2>4. /\ b.res.at \in 0 .. n + 1
        /\ b.r = SQL_NO_DATA => b.res.at \in {0, n + 1}
        /\ to.style = "SQL_FETCH_NEXT" =>
             /\ b.res.at = IF current_results.at < n THEN current_results.at + 1 ELSE n + 1
             /\ b.r = SQL_SUCCESS <=> current_results.at < n
        /\ to.style = "SQL_FETCH_FIRST" =>
             /\ b.res.at = IF n > 0 THEN 1 ELSE n + 1
             /\ b.r = SQL_SUCCESS <=> n > 0
    BY <1>1, BufferedPlace
  <2> HIDE DEF b, n
  <2>5. conf.cursor # "forward" /\ Stands = current_results.at /\ At(o.h, o.res) = b.res.at
    BY <1>1, <1>2, <2>2, <2>3 DEF ObjectFits, Stands, At
  <2>6. OnRowset(odbc) => n = Size(odbc)
    BY <1>1, <1>2 DEF ObjectFits, OnRowset, n
  <2>7. b.r # SQL_ERROR
    BY <2>3 DEF SQL_ERROR, SQL_SUCCESS, SQL_NO_DATA
  <2> QED
    BY <1>2, <2>2, <2>3, <2>4, <2>5, <2>6, <2>7 DEF n
<1>3. CASE current_results.kind # "buffered"
  <2>1. PICK x \in SQLFetchScroll(odbc, to, conf.cursor = "forward") :
          o = [r |-> x.r, h |-> x.h, res |-> current_results]
    BY <1>3, ResultsFetchType DEF IInv, TypeOK
  <2>2. o.r = x.r /\ o.h = x.h /\ o.res = current_results
    BY <2>1
  <2>3. PICK forward \in BOOLEAN : forward = (conf.cursor = "forward")
    OBVIOUS
  <2>4. ~OnRowset(odbc) => x.r = SQL_ERROR /\ x.h = odbc
    <3>1. x \in SQLFetchScroll(odbc, to, forward)
      BY <2>1, <2>3
    <3> QED
      BY <1>1, <3>1, ScrollLive
  <2>5. OnRowset(odbc) =>
          /\ x.r \in {SQL_ERROR, SQL_SUCCESS, SQL_NO_DATA}
          /\ x.r # SQL_ERROR => x.h.at = Moved(to, odbc.at, Size(odbc))
          /\ x.r = SQL_SUCCESS <=> x.r # SQL_ERROR /\ x.h.at \in 1 .. Size(odbc)
          /\ x.r # SQL_ERROR /\ forward => to.style = "SQL_FETCH_NEXT"
          /\ x.r = SQL_ERROR => x.h = odbc \/ (forward /\ x.h.at = Size(odbc) + 1)
    <3>1. x \in SQLFetchScroll(odbc, to, forward)
      BY <2>1, <2>3
    <3>2. Live(odbc)
      BY <1>1
    <3> QED
      BY <3>1, <3>2, ScrollPlace
  <2>6. At(o.h, o.res) = x.h.at /\ Stands = odbc.at
    BY <1>3, <2>2 DEF At, Stands
  <2>7. CASE ~OnRowset(odbc)
    BY <1>3, <2>2, <2>4, <2>7
  <2>8. CASE OnRowset(odbc)
    <3> DEFINE n == Size(odbc)
               d == Moved(to, odbc.at, n)
    <3>1. n \in Nat /\ odbc.at \in Nat /\ odbc.at <= n + 1
      BY <1>1, <2>8, SizeType DEF HandleFits, Live, Handles, OnRowset
    <3>2. /\ d \in 0 .. n + 1
          /\ to.style = "SQL_FETCH_NEXT" => d = IF odbc.at < n THEN odbc.at + 1 ELSE n + 1
          /\ to.style = "SQL_FETCH_FIRST" => d = IF n > 0 THEN 1 ELSE n + 1
      BY <3>1, MovedPlace
    <3> HIDE DEF n, d
    <3>3. /\ x.r \in {SQL_ERROR, SQL_SUCCESS, SQL_NO_DATA}
          /\ x.r # SQL_ERROR => x.h.at = d
          /\ x.r = SQL_SUCCESS <=> x.r # SQL_ERROR /\ d \in 1 .. n
      BY <2>5, <2>8 DEF n, d
    <3>4. x.r # SQL_ERROR =>
            /\ d \in 0 .. n + 1
            /\ x.r = SQL_NO_DATA => d \in {0, n + 1}
            /\ x.r = SQL_SUCCESS => d \in 1 .. n
            /\ to.style = "SQL_FETCH_NEXT" =>
                 /\ d = IF odbc.at < n THEN odbc.at + 1 ELSE n + 1
                 /\ x.r = SQL_SUCCESS <=> odbc.at < n
            /\ to.style = "SQL_FETCH_FIRST" =>
                 /\ d = IF n > 0 THEN 1 ELSE n + 1
                 /\ x.r = SQL_SUCCESS <=> n > 0
      <4>1. x.r = SQL_NO_DATA => x.r # SQL_SUCCESS
        BY DEF SQL_SUCCESS, SQL_NO_DATA
      <4>2. x.r # SQL_ERROR => (x.r = SQL_SUCCESS <=> d \in 1 .. n)
        BY <3>3
      <4> QED
        BY <3>1, <3>2, <4>1, <4>2
    <3>5. /\ x.r # SQL_ERROR /\ conf.cursor = "forward" => to.style = "SQL_FETCH_NEXT"
          /\ x.r = SQL_ERROR => x.h = odbc \/ (conf.cursor = "forward" /\ x.h.at = n + 1)
      BY <2>3, <2>5, <2>8 DEF n
    <3>6. /\ x.r = SQL_NO_DATA => x.r # SQL_ERROR
          /\ x.r = SQL_SUCCESS => x.r # SQL_ERROR
      BY DEF SQL_ERROR, SQL_SUCCESS, SQL_NO_DATA
    <3>7. /\ x.r # SQL_ERROR => x.h.at \in 0 .. n + 1
          /\ x.r = SQL_NO_DATA => x.h.at \in {0, n + 1}
          /\ x.r = SQL_SUCCESS => x.h.at \in 1 .. n
          /\ x.r # SQL_ERROR /\ to.style = "SQL_FETCH_NEXT" =>
               /\ x.h.at = IF odbc.at < n THEN odbc.at + 1 ELSE n + 1
               /\ x.r = SQL_SUCCESS <=> odbc.at < n
          /\ x.r # SQL_ERROR /\ to.style = "SQL_FETCH_FIRST" =>
               /\ x.h.at = IF n > 0 THEN 1 ELSE n + 1
               /\ x.r = SQL_SUCCESS <=> n > 0
      BY <3>3, <3>4, <3>6
    <3> QED
      BY <1>3, <2>2, <2>6, <2>8, <3>3, <3>5, <3>7 DEF n
  <2> QED
    BY <2>7, <2>8
<1> QED
  BY <1>2, <1>3

(* What a fetch that was allowed tells of where it went.                   *)
Reaches(to) ==
  /\ call'.fn \in Reads /\ call'.to = to.style /\ call'.ret \in {"true", "false", "null"}
  /\ odbc'.batch = odbc.batch
  /\ ~OnRowset(odbc) => odbc.batch = << >> /\ Row' = 0
  /\ OnRowset(odbc) =>
       /\ Row' \in 0 .. Size(odbc) + 1
       /\ to.style = "SQL_FETCH_NEXT" =>
            /\ call'.ret = "true" => Row < Size(odbc) /\ Row' = Row + 1
            /\ call'.ret = "null" => Row >= Size(odbc) /\ Row' = Size(odbc) + 1
            /\ call'.ret = "false" => Row' \in {Row, Row + 1, Size(odbc) + 1}

(* A fetch is allowed on a rowset, or on a handle that has lost its        *)
(* result.                                                                 *)
LEMMA FetchOnRowset ==
  ASSUME IInv, Placed, NEW c, FetchAllowed(c)
  PROVE  OnRowset(odbc) \/ odbc.state = "idle"
<1>1. Live(odbc) /\ Safe /\ HandleFits
  BY DEF IInv, TypeOK, Typed, HandleOK, Live, Placed
<1>2. odbc.state \in {"idle", "open", "need_data"}
  BY <1>1 DEF Live, Handles
<1>3. CASE odbc.state = "need_data"
  <2>1. ~fetch_called /\ column_count = ACTIVE_NUM_COLS_INVALID
    BY <1>1, <1>3 DEF Safe, NothingTold
  <2>2. c \in SQLNumResultCols(odbc) /\ c # SQL_ERROR
    BY <2>1 DEF FetchAllowed
  <2> QED
    BY <1>1, <1>3, <2>2, NumResultColsType
<1>4. CASE odbc.state = "open" /\ ~fetch_called
  <2>1. c \notin {SQL_ERROR, 0}
        /\ c \in IF column_count # ACTIVE_NUM_COLS_INVALID THEN {column_count} ELSE SQLNumResultCols(odbc)
    BY <1>4 DEF FetchAllowed
  <2>2. Head(odbc.batch).cols # 0
    BY <1>1, <1>4, <2>1, NumResultColsType DEF Safe, ColumnCountFresh
  <2>3. Head(odbc.batch) \in Items
    BY <1>1, <1>4, HeadType
  <2> QED
    BY <1>4, <2>2, <2>3 DEF OnRowset, Items, Rowsets, Counts, Errors
<1>5. CASE odbc.state = "open" /\ fetch_called
  BY <1>1, <1>5 DEF HandleFits
<1> QED
  BY <1>2, <1>3, <1>4, <1>5

LEMMA FetchPlaced ==
  ASSUME IInv, Placed, phase = "ready", UNCHANGED <<phase, conf, executed, past_next_result_end>>,
         NEW to \in Moves, NEW fn \in Reads, NEW c, FetchAllowed(c), NEW o \in Fetches(to),
         odbc' = o.h, current_results' = o.res,
         \/ FetchEnds(o) /\ Fetched(fn, to, "null", 0)
         \/ FetchFails(o) /\ Fetched(fn, to, "false", 0)
         \/ FetchLands(o) /\ IF fn = "sqlsrv_fetch" THEN FetchOnly(to) ELSE FetchFields(c, o, to)
  PROVE  Placed' /\ Reaches(to)
<1> USE DEF SQL_ERROR, SQL_SUCCESS, SQL_NO_DATA
<1>1. /\ Live(odbc) /\ Safe /\ current_results \in ResultSets
      /\ has_rows \in BOOLEAN /\ fetch_called \in BOOLEAN
      /\ ObjectFits /\ HandleFits /\ RowFits /\ RowIsThere
  BY DEF IInv, TypeOK, Typed, HandleOK, FlagsOK, Live, ResultsOK, ResultSets, Placed
<1>2. executed /\ ~past_next_result_end /\ ~past_fetch_end
  BY DEF FetchAllowed
<1>3. /\ call'.fn \in Reads /\ call'.to = to.style
      /\ \/ FetchEnds(o) /\ call'.ret = "null"
         \/ FetchFails(o) /\ call'.ret = "false"
         \/ FetchLands(o) /\ call'.ret \in {"true", "false"}
  BY DEF Fetched, FetchOnly, FetchFields, Reads
<1>4. LookTold'
  BY <1>3 DEF LookTold, Reads
<1>5. OnRowset(odbc) \/ odbc.state = "idle"
  BY FetchOnRowset
<1> DEFINE go == OneBased(to)
<1>0. go \in AnyMoves /\ go.style = to.style
  <2>1. to \in AnyMoves /\ go \in AnyMoves
    BY MoveTypes
  <2> QED
    BY <2>1 DEF OneBased, AnyMoves
<1>6. \/ Prefetched /\ o = FetchedAhead
      \/ ~Prefetched /\ current_results.kind # "null" /\ o \in ResultsFetch(go)
  BY DEF Fetches
<1> HIDE DEF go
<1>7. odbc'.state = odbc.state /\ odbc'.batch = odbc.batch
  BY FetchesType DEF IInv, TypeOK
<1>8. current_results'.kind = current_results.kind /\ current_results'.rows = current_results.rows
  BY <1>0, <1>6, ResultsFetchPlace DEF FetchedAhead
<1>9. CASE odbc.state = "idle"
  <2>1. odbc' = odbc
    BY <1>0, <1>6, <1>9, ResultsFetchPlace DEF FetchedAhead, OnRowset
  <2>2. RowIsThere'
    <3> SUFFICES ASSUME fetch_called', conf.cursor # "forward", current_results.kind = "buffered"
                 PROVE  \/ current_results'.at \in 1 .. current_results'.rows
                        \/ current_results'.at = 0 /\ current_results'.stayed
      BY <1>8, <1>9, <2>1 DEF RowIsThere, OnRowset
    <3>1. ~Prefetched
      BY DEF Prefetched
    <3>2. /\ o.r # SQL_ERROR
          /\ o.r = SQL_SUCCESS => o.res.at \in 1 .. o.res.rows \/ (o.res.at = 0 /\ o.res.stayed)
      BY <1>0, <1>6, <3>1, ResultsFetchPlace
    <3>3. FetchLands(o)
      BY <1>3, <3>2 DEF FetchEnds, FetchFails
    <3> QED
      BY <3>2, <3>3 DEF FetchLands
  <2>3. ObjectFits' /\ HandleFits' /\ RowFits'
    BY <1>1, <1>8, <1>9, <2>1 DEF ObjectFits, HandleFits, RowFits, OnRowset
  <2>4. Row' = 0 /\ odbc.batch = << >>
    BY <1>1, <1>9, <2>1 DEF Row, HandleFits
  <2> QED
    BY <1>3, <1>4, <1>9, <2>1, <2>2, <2>3, <2>4 DEF Placed, Reaches, OnRowset
<1>10. CASE OnRowset(odbc) /\ Prefetched
  <2>1. /\ conf.cursor = "forward" /\ has_rows /\ ~fetch_called
        /\ odbc' = odbc /\ current_results' = current_results /\ o.r = SQL_SUCCESS
    BY <1>6, <1>10 DEF Prefetched, FetchedAhead
  <2>2. odbc.at = 1 /\ current_results.kind # "buffered"
    BY <1>1, <1>2, <1>10, <2>1 DEF Safe, Place, ReadsFromOdbc
  <2>3. fetch_called' /\ has_rows' /\ ~past_fetch_end' /\ call'.ret \in {"true", "false"}
    BY <1>2, <1>3, <2>1 DEF FetchEnds, FetchFails, FetchLands
  <2>4. Size(odbc) \in Nat /\ Size(odbc) > 0
    BY <1>1, <1>10, <2>1, <2>2, SizeType DEF RowFits
  <2>5. Row = 0 /\ Row' = 1
    BY <1>2, <1>10, <2>1, <2>2, <2>3 DEF Row, Prefetched, OnRowset
  <2>6. ObjectFits' /\ HandleFits' /\ RowFits' /\ RowIsThere'
    BY <1>1, <1>2, <1>10, <2>1, <2>2, <2>3, <2>4
       DEF ObjectFits, HandleFits, RowFits, RowIsThere, OnRowset
  <2> QED
    BY <1>3, <1>4, <1>7, <1>10, <2>3, <2>4, <2>5, <2>6 DEF Placed, Reaches
<1>11. CASE OnRowset(odbc) /\ ~Prefetched
  <2> DEFINE n  == Size(odbc)
  <2>1. current_results.kind # "null" /\ o \in ResultsFetch(go)
    BY <1>6, <1>11
  <2>2. n \in Nat /\ Stands \in 0 .. n + 1 /\ Stands \in Nat
    <3>1. n \in Nat /\ odbc.at \in Nat /\ current_results.at \in Nat
      BY <1>1, SizeType DEF Live, Handles, ResultSets
    <3> QED
      BY <1>1, <1>11, <3>1 DEF Stands, At, HandleFits, RowFits, OnRowset
  <2>4. /\ o.r \in {SQL_ERROR, SQL_SUCCESS, SQL_NO_DATA}
        /\ current_results.stayed => current_results'.stayed
        /\ current_results.kind = "buffered" => odbc' = odbc /\ o.r # SQL_ERROR
        /\ current_results.kind # "buffered" => current_results' = current_results
        /\ o.r # SQL_ERROR => Stands' \in 0 .. n + 1
        /\ o.r = SQL_NO_DATA => Stands' \in {0, n + 1}
        /\ o.r = SQL_SUCCESS =>
             \/ Stands' \in 1 .. n
             \/ Stands' = 0 /\ current_results.kind = "buffered" /\ current_results'.stayed
        /\ o.r # SQL_ERROR /\ to.style = "SQL_FETCH_NEXT" =>
             /\ Stands' = IF Stands < n THEN Stands + 1 ELSE n + 1
             /\ o.r = SQL_SUCCESS <=> Stands < n
        /\ o.r # SQL_ERROR /\ conf.cursor = "forward" => to.style = "SQL_FETCH_NEXT"
        /\ o.r = SQL_ERROR => odbc' = odbc \/ (conf.cursor = "forward" /\ odbc'.at = n + 1)
    <3>1. Stands' = At(o.h, o.res)
      BY DEF Stands, At
    <3> HIDE DEF SQL_ERROR, SQL_SUCCESS, SQL_NO_DATA
    <3> QED
      BY <1>0, <1>8, <1>11, <2>1, <3>1, ResultsFetchPlace
  <2>5. o.r = SQL_ERROR => Stands' = Stands \/ (conf.cursor = "forward" /\ Stands' = n + 1)
    BY <1>8, <2>4 DEF Stands, At
  <2>6. Size(odbc') = n /\ (OnRowset(odbc') <=> OnRowset(odbc))
    BY <1>7 DEF Size, OnRowset
  <2> HIDE DEF n
  <2>7. /\ Stands' \in 0 .. n + 1
        /\ o.r = SQL_NO_DATA => Stands' \in {0, n + 1}
    BY <2>2, <2>4, <2>5
  <2>8. CASE FetchEnds(o)
    <3>1. /\ o.r = SQL_NO_DATA /\ past_fetch_end' = (conf.cursor = "forward")
          /\ ~fetch_called' /\ has_rows' = has_rows /\ call'.ret = "null"
      BY <1>3, <2>8 DEF FetchEnds, FetchFails, FetchLands
    <3>2. Row = Stands /\ Row' = Stands'
      BY <1>2, <1>8, <1>7, <1>11, <2>1, <3>1 DEF Row, Prefetched, Stands, At, OnRowset
    <3>3. conf.cursor = "forward" => Stands' = n + 1
      BY <2>2, <2>4, <3>1
    <3>4. conf.cursor = "forward" => odbc'.at = n + 1
      BY <1>1, <1>8, <3>3 DEF Safe, ReadsFromOdbc, Stands, At
    <3>5. RowFits'
      <4>1. current_results'.kind = "buffered" => current_results'.at <= n + 1
        BY <2>2, <2>7 DEF Stands, At
      <4>2. has_rows' => n > 0 \/ (current_results'.kind = "buffered" /\ current_results'.stayed)
        BY <1>1, <1>8, <1>11, <2>4, <3>1 DEF RowFits, n
      <4>3. Stands' \in {0, n + 1}
        BY <2>7, <3>1
      <4>4. past_fetch_end' => conf.cursor = "forward" /\ odbc'.at = n + 1
        BY <3>1, <3>4
      <4> QED
        BY <2>6, <3>1, <4>1, <4>2, <4>3, <4>4 DEF RowFits
    <3>6. to.style = "SQL_FETCH_NEXT" => Row >= n /\ Row' = n + 1
      BY <2>2, <2>4, <3>1, <3>2
    <3>7. ObjectFits' /\ HandleFits' /\ RowIsThere'
      BY <1>1, <1>2, <1>7, <1>8, <1>11, <2>2, <2>4, <2>6, <2>7, <3>1
         DEF ObjectFits, HandleFits, RowIsThere, Stands, At, OnRowset, n
    <3> QED
      BY <1>3, <1>4, <1>7, <1>11, <2>7, <3>1, <3>2, <3>5, <3>6, <3>7 DEF Placed, Reaches, n
  <2>9. CASE FetchFails(o)
    <3>1. /\ o.r = SQL_ERROR /\ ~past_fetch_end' /\ call'.ret = "false"
          /\ fetch_called' = fetch_called /\ has_rows' = has_rows
      BY <1>2, <1>3, <2>9 DEF FetchEnds, FetchFails, FetchLands
    <3>2. Row = Stands /\ Row' = Stands'
      BY <1>2, <1>8, <1>7, <1>11, <2>1, <3>1 DEF Row, Prefetched, Stands, At, OnRowset
    <3>3. conf.cursor # "forward" => odbc' = odbc /\ current_results.kind # "buffered"
                                      /\ current_results' = current_results
      BY <2>4, <3>1
    <3>4. RowFits'
      BY <1>1, <1>8, <2>4, <2>6, <2>7, <3>1, <3>3 DEF RowFits, Stands, At, n
    <3>5. Row' \in {Row, n + 1}
      BY <2>5, <3>1, <3>2
    <3>6. RowIsThere'
      BY <1>1, <3>1, <3>3 DEF RowIsThere
    <3>7. ObjectFits' /\ HandleFits'
      BY <1>1, <1>2, <1>7, <1>8, <1>11, <2>2, <2>4, <2>6, <2>7, <3>1
         DEF ObjectFits, HandleFits, Stands, At, OnRowset, n
    <3> QED
      BY <1>3, <1>4, <1>7, <1>11, <2>7, <3>1, <3>2, <3>4, <3>5, <3>6, <3>7 DEF Placed, Reaches, n
  <2>10. CASE FetchLands(o)
    <3>1. /\ o.r = SQL_SUCCESS /\ ~past_fetch_end' /\ fetch_called' /\ has_rows'
          /\ call'.ret \in {"true", "false"}
      BY <1>2, <1>3, <2>10 DEF FetchEnds, FetchFails, FetchLands
    <3>2. Row = Stands /\ Row' = Stands'
      BY <1>2, <1>8, <1>7, <1>11, <2>1, <3>1 DEF Row, Prefetched, Stands, At, OnRowset
    <3>3. \/ Stands' \in 1 .. n /\ n > 0
          \/ Stands' = 0 /\ current_results'.kind = "buffered" /\ current_results'.stayed
      BY <1>8, <2>2, <2>4, <3>1
    <3>4. RowFits'
      BY <1>1, <1>8, <2>2, <2>4, <2>6, <2>7, <3>1, <3>3 DEF RowFits, Stands, At, n
    <3>5. to.style = "SQL_FETCH_NEXT" => Row < n /\ Row' = Row + 1
      BY <2>2, <2>4, <3>1, <3>2
    <3>6. RowIsThere'
      BY <1>1, <1>8, <1>11, <2>6, <3>3 DEF RowIsThere, ObjectFits, Stands, At, OnRowset, n
    <3>7. ObjectFits' /\ HandleFits'
      BY <1>1, <1>2, <1>7, <1>8, <1>11, <2>2, <2>4, <2>6, <2>7, <3>1
         DEF ObjectFits, HandleFits, Stands, At, OnRowset, n
    <3> QED
      BY <1>3, <1>4, <1>7, <1>11, <2>7, <3>1, <3>2, <3>4, <3>5, <3>6, <3>7 DEF Placed, Reaches, n
  <2> QED
    BY <1>3, <2>8, <2>9, <2>10
<1> QED
  BY <1>5, <1>9, <1>10, <1>11

(* What looking for a first row tells of where the script is left.         *)
Looked ==
  /\ call'.fn = "sqlsrv_has_rows" /\ call'.ret \in {"true", "false"}
  /\ odbc'.batch = odbc.batch
  /\ ~OnRowset(odbc) => odbc.batch = << >> /\ Row' = 0
  /\ OnRowset(odbc) =>
       /\ call'.ret = "true" => Row \in {0, Size(odbc) + 1} /\ Row' = 0
       /\ call'.ret = "false" => \/ Row' \in {Row, Size(odbc) + 1}
                                 \/ Row \in {0, Size(odbc) + 1} /\ Row' = 1

LEMMA LookAheadPlaced ==
  ASSUME IInv, Placed, sqlsrv_has_rows, ~UNCHANGED <<odbc, current_results, has_rows>>, LooksAhead,
         Return("sqlsrv_has_rows", IF has_rows' THEN "true" ELSE "false")
  PROVE  Placed' /\ Looked
<1> USE DEF SQL_ERROR, SQL_SUCCESS, SQL_NO_DATA
<1>1. /\ Live(odbc) /\ Safe /\ current_results \in ResultSets
      /\ has_rows \in BOOLEAN /\ fetch_called \in BOOLEAN
      /\ ObjectFits /\ HandleFits /\ RowFits /\ RowIsThere
  BY DEF IInv, TypeOK, Typed, HandleOK, FlagsOK, Live, ResultsOK, ResultSets, Placed
<1>2. /\ phase = "ready" /\ LooksAhead /\ ~has_rows /\ ~fetch_called
      /\ UNCHANGED <<phase, conf, executed, past_fetch_end, past_next_result_end, fetch_called>>
      /\ call'.fn = "sqlsrv_has_rows" /\ call'.ret = IF has_rows' THEN "true" ELSE "false"
  <2>1. /\ phase = "ready"
        /\ UNCHANGED <<phase, conf, executed, past_fetch_end, past_next_result_end, fetch_called>>
    BY DEF sqlsrv_has_rows
  <2> QED
    BY <2>1 DEF LooksAhead, Return
<1>3. odbc'.state = odbc.state /\ odbc'.batch = odbc.batch /\ has_rows' \in BOOLEAN
  BY <1>2, LooksAheadType DEF IInv
<1>4. Size(odbc') = Size(odbc) /\ (OnRowset(odbc') <=> OnRowset(odbc)) /\ Size(odbc) \in Nat
  BY <1>1, <1>3, SizeType DEF Size, OnRowset
<1>5. LookTold' /\ RowIsThere' /\ call'.ret \in {"true", "false"}
  BY <1>2 DEF LookTold, RowIsThere
<1>6. PICK c \in SQLNumResultCols(odbc) :
        /\ c \notin {SQL_ERROR, 0}
        /\ \/ /\ conf.cursor = "forward"
              /\ \E o \in SQLFetchScroll(odbc, [style |-> "SQL_FETCH_NEXT", offset |-> 0], TRUE) :
                   odbc' = o.h /\ has_rows' = (o.r = SQL_SUCCESS) /\ UNCHANGED current_results
           \/ /\ conf.cursor # "forward" /\ current_results.kind # "null"
              /\ \E o \in ResultsFetch(First) :
                   /\ has_rows' = (o.r = SQL_SUCCESS)
                   /\ IF o.r = SQL_SUCCESS /\ current_results.kind = "odbc"
                      THEN odbc' = [o.h EXCEPT !.at = 0] /\ current_results' = o.res
                      ELSE /\ odbc' = o.h
                           /\ current_results' = [o.res EXCEPT !.at = IF o.r = SQL_SUCCESS THEN 0 ELSE @]
  BY <1>2 DEF LooksAhead
<1>7. OnRowset(odbc) \/ odbc.state = "idle"
  <2>1. odbc.state \in {"idle", "open", "need_data"} /\ odbc.state # "need_data"
    BY <1>1, <1>6, NumResultColsType DEF Live, Handles
  <2>2. odbc.state = "open" => Head(odbc.batch).cols # 0 /\ Head(odbc.batch) \in Items
    BY <1>1, <1>6, NumResultColsType, HeadType
  <2> QED
    BY <2>1, <2>2 DEF OnRowset, Items, Rowsets, Counts, Errors
<1>8. CASE conf.cursor = "forward"
  <2>1. PICK o \in SQLFetchScroll(odbc, [style |-> "SQL_FETCH_NEXT", offset |-> 0], TRUE) :
          odbc' = o.h /\ has_rows' = (o.r = SQL_SUCCESS) /\ UNCHANGED current_results
    BY <1>6, <1>8
  <2>2. OnRowset(odbc)
    <3> SUFFICES ASSUME ~OnRowset(odbc) PROVE FALSE
      OBVIOUS
    <3>1. o.r = SQL_ERROR /\ o.h = odbc
      BY <1>1, MoveTypes, ScrollLive
    <3> QED
      BY <1>1, <1>2, <2>1, <3>1
  <2>3. /\ o.r = SQL_SUCCESS => odbc.at < Size(odbc) /\ odbc'.at = odbc.at + 1
        /\ o.r # SQL_SUCCESS => odbc' = odbc \/ odbc'.at = Size(odbc) + 1
    BY <1>1, <2>1, <2>2, MoveTypes, ScrollLive DEF Size
  <2>4. current_results.kind # "buffered" /\ odbc.at \in {0, Size(odbc) + 1}
    BY <1>1, <1>2, <1>8, <2>2 DEF Safe, Place, ReadsFromOdbc, Size
  <2>5. past_fetch_end => odbc.at = Size(odbc) + 1
    BY <1>1, <2>2 DEF RowFits
  <2>6. Row = odbc.at
    BY <1>2, <1>8, <2>2, <2>4 DEF Row, Prefetched, OnRowset
  <2>7. CASE o.r = SQL_SUCCESS
    <3>1. has_rows' /\ odbc.at = 0 /\ odbc'.at = 1 /\ Size(odbc) > 0 /\ ~past_fetch_end'
      <4>1. has_rows'
        BY <2>1, <2>7
      <4>2. odbc.at = 0 /\ odbc'.at = 1 /\ Size(odbc) > 0
        BY <1>4, <2>3, <2>4, <2>7
      <4>3. odbc.at # Size(odbc) + 1
        BY <1>4, <4>2
      <4> QED
        BY <1>2, <2>5, <4>1, <4>2, <4>3
    <3>2. Row' = 0
      BY <1>2, <1>8, <3>1 DEF Row, Prefetched
    <3>3. ObjectFits' /\ HandleFits' /\ RowFits'
      BY <1>1, <1>2, <1>3, <1>4, <1>8, <2>1, <2>2, <2>4, <3>1 DEF ObjectFits, HandleFits, RowFits, OnRowset
    <3> QED
      BY <1>2, <1>3, <1>5, <2>2, <2>6, <3>1, <3>2, <3>3 DEF Placed, Looked
  <2>8. CASE o.r # SQL_SUCCESS
    <3>1. ~has_rows' /\ odbc'.at \in {odbc.at, Size(odbc) + 1} /\ (odbc' = odbc \/ odbc'.at = Size(odbc) + 1)
      BY <2>1, <2>3, <2>8
    <3>2. Row' = odbc'.at
      BY <1>2, <1>3, <1>8, <2>1, <2>2, <2>4, <3>1 DEF Row, Prefetched, OnRowset
    <3>3. ObjectFits' /\ HandleFits' /\ RowFits'
      BY <1>1, <1>2, <1>3, <1>4, <1>8, <2>1, <2>2, <2>4, <2>5, <3>1
         DEF ObjectFits, HandleFits, RowFits, OnRowset
    <3> QED
      BY <1>2, <1>3, <1>5, <2>2, <2>6, <3>1, <3>2, <3>3 DEF Placed, Looked
  <2> QED
    BY <2>7, <2>8
<1>9. CASE conf.cursor # "forward"
  <2>1. PICK o \in ResultsFetch(First) :
          /\ has_rows' = (o.r = SQL_SUCCESS)
          /\ IF o.r = SQL_SUCCESS /\ current_results.kind = "odbc"
             THEN odbc' = [o.h EXCEPT !.at = 0] /\ current_results' = o.res
             ELSE /\ odbc' = o.h
                  /\ current_results' = [o.res EXCEPT !.at = IF o.r = SQL_SUCCESS THEN 0 ELSE @]
    BY <1>6, <1>9
  <2>2. current_results.kind \in {"odbc", "buffered"}
    BY <1>1, <1>6, <1>9 DEF ResultSets
  <2>3. /\ o.r \in {SQL_ERROR, SQL_SUCCESS, SQL_NO_DATA}
        /\ o.res.kind = current_results.kind /\ o.res.rows = current_results.rows
        /\ current_results.kind = "buffered" => o.h = odbc /\ o.r # SQL_ERROR
        /\ current_results.kind # "buffered" =>
             o.res = current_results /\ (~OnRowset(odbc) => o.h = odbc /\ o.r = SQL_ERROR)
        /\ OnRowset(odbc) =>
             /\ o.r # SQL_ERROR =>
                  /\ At(o.h, o.res) = IF Size(odbc) > 0 THEN 1 ELSE Size(odbc) + 1
                  /\ o.r = SQL_SUCCESS <=> Size(odbc) > 0
             /\ o.r = SQL_ERROR => o.h = odbc
    <3>1. First \in AnyMoves /\ First.style = "SQL_FETCH_FIRST"
      BY MoveTypes DEF First
    <3> QED
      BY <1>9, <2>2, <3>1, ResultsFetchPlace
  <2>4. o.res \in ResultSets /\ o.h \in Handles
    BY <2>1, MoveTypes, ResultsFetchType DEF IInv, Live, TypeOK
  <2>5. /\ current_results'.kind = current_results.kind /\ current_results'.rows = current_results.rows
        /\ Stands' = IF o.r = SQL_SUCCESS THEN 0 ELSE At(o.h, o.res)
        /\ o.r # SQL_SUCCESS => odbc' = o.h /\ current_results' = o.res
        /\ current_results.kind = "buffered" => odbc' = odbc
    <3>1. CASE o.r = SQL_SUCCESS /\ current_results.kind = "odbc"
      BY <2>1, <2>3, <2>4, <3>1 DEF Stands, At, Handles
    <3>2. CASE o.r = SQL_SUCCESS /\ current_results.kind = "buffered"
      <4>1. odbc' = o.h /\ current_results' = [o.res EXCEPT !.at = 0]
        BY <2>1, <3>2
      <4> QED
        BY <2>3, <2>4, <3>2, <4>1 DEF Stands, At, ResultSets
    <3>3. CASE o.r # SQL_SUCCESS
      <4>1. odbc' = o.h /\ current_results' = [o.res EXCEPT !.at = @]
        BY <2>1, <3>3
      <4>2. current_results' = o.res
        BY <2>4, <4>1 DEF ResultSets
      <4> QED
        BY <2>3, <3>3, <4>1, <4>2 DEF Stands, At
    <3> QED
      BY <2>2, <3>1, <3>2, <3>3
  <2>6. has_rows' <=> o.r = SQL_SUCCESS
    BY <2>1
  <2>7. ObjectFits'
    BY <1>1, <1>2, <1>3, <1>4, <2>5 DEF ObjectFits, OnRowset
  <2>8. CASE odbc.state = "idle"
    <3>1. RowFits' /\ HandleFits' /\ Row' = 0 /\ odbc.batch = << >>
      BY <1>1, <1>2, <1>3, <2>8 DEF RowFits, HandleFits, Row, OnRowset
    <3> QED
      BY <1>2, <1>3, <1>5, <2>7, <2>8, <3>1 DEF Placed, Looked, OnRowset
  <2>9. CASE OnRowset(odbc)
    <3> DEFINE n == Size(odbc)
    <3>1. Stands \in {0, n + 1} /\ n \in Nat /\ ~past_fetch_end
      BY <1>1, <1>2, <1>4, <1>9, <2>2, <2>9 DEF RowFits
    <3>3. Row = Stands /\ Row' = Stands'
      BY <1>2, <1>3, <1>9, <2>2, <2>5, <2>9 DEF Row, Prefetched, Stands, At, OnRowset
    <3>4. CASE o.r = SQL_SUCCESS
      <4>1. n > 0 /\ Stands' = 0 /\ has_rows'
        BY <2>3, <2>5, <2>6, <2>9, <3>1, <3>4
      <4>2. RowFits'
        BY <1>2, <1>4, <2>9, <3>1, <4>1 DEF RowFits, Stands, At
      <4>3. HandleFits'
        <5>1. odbc'.at <= n + 1
          BY <1>1, <2>2, <2>5, <2>9, <3>1, <4>1 DEF HandleFits, Stands, At, OnRowset
        <5> QED
          BY <1>1, <1>2, <1>3, <1>4, <2>5, <2>9, <5>1 DEF HandleFits, OnRowset
      <4> QED
        BY <1>2, <1>3, <1>5, <2>7, <2>9, <3>1, <3>3, <4>1, <4>2, <4>3 DEF Placed, Looked
    <3>5. CASE o.r # SQL_SUCCESS
      <4>1. ~has_rows' /\ Stands' \in {Stands, n + 1}
        <5>1. CASE o.r = SQL_ERROR
          <6>1. odbc' = odbc /\ current_results' = current_results
            BY <2>2, <2>3, <2>5, <2>9, <3>5, <5>1
          <6> QED
            BY <2>6, <3>5, <6>1 DEF Stands
        <5>2. CASE o.r # SQL_ERROR
          <6>1. Stands' = n + 1
            BY <2>3, <2>5, <2>9, <3>1, <3>5, <5>2
          <6> QED
            BY <2>6, <3>1, <3>5, <6>1
        <5> QED
          BY <5>1, <5>2
      <4>2. RowFits'
        BY <1>2, <1>4, <2>9, <3>1, <4>1 DEF RowFits, Stands, At
      <4>3. HandleFits'
        <5>1. odbc'.at <= n + 1
          BY <1>1, <2>2, <2>5, <2>9, <3>1, <4>1 DEF HandleFits, Stands, At, OnRowset
        <5> QED
          BY <1>1, <1>2, <1>3, <1>4, <2>5, <2>9, <5>1 DEF HandleFits, OnRowset
      <4> QED
        BY <1>2, <1>3, <1>5, <2>7, <2>9, <3>1, <3>3, <4>1, <4>2, <4>3 DEF Placed, Looked
    <3> QED
      BY <3>4, <3>5
  <2> QED
    BY <1>7, <2>8, <2>9
<1> QED
  BY <1>8, <1>9

(* The step back before the first row failed: the script is on that row.   *)
LEMMA LookThrowsPlaced ==
  ASSUME IInv, Placed, sqlsrv_has_rows, LookThrows, Return("sqlsrv_has_rows", "false")
  PROVE  Placed' /\ Looked
<1>1. /\ Live(odbc) /\ ObjectFits /\ HandleFits /\ RowFits
      /\ phase = "ready" /\ ~has_rows /\ ~fetch_called /\ has_rows'
      /\ UNCHANGED <<phase, conf, executed, past_fetch_end, past_next_result_end, fetch_called,
                     current_results>>
      /\ conf.cursor # "forward" /\ current_results.kind = "odbc"
      /\ call'.fn = "sqlsrv_has_rows" /\ call'.ret = "false"
  BY DEF sqlsrv_has_rows, LookThrows, Return, IInv, TypeOK, Typed, HandleOK, Live, Placed
<1>2. PICK o \in ResultsFetch(First) : o.r = SQL_SUCCESS /\ odbc' = o.h
  BY DEF LookThrows
<1>3. First \in AnyMoves /\ First.style = "SQL_FETCH_FIRST"
  BY MoveTypes DEF First
<1>4. SQL_SUCCESS # SQL_ERROR
  BY DEF SQL_SUCCESS, SQL_ERROR
<1>5. /\ o.res = current_results /\ OnRowset(odbc)
      /\ At(o.h, o.res) = IF Size(odbc) > 0 THEN 1 ELSE Size(odbc) + 1
      /\ Size(odbc) > 0
  BY <1>1, <1>2, <1>3, <1>4, ResultsFetchPlace
<1>6. odbc'.state = odbc.state /\ odbc'.batch = odbc.batch
  BY <1>2, <1>3, ResultsFetchType DEF IInv, TypeOK
<1>7. odbc'.at = 1 /\ Size(odbc) \in Nat
  BY <1>1, <1>2, <1>5, SizeType DEF At
<1>8. Size(odbc') = Size(odbc) /\ OnRowset(odbc')
  BY <1>5, <1>6 DEF Size, OnRowset
<1>9. Row \in {0, Size(odbc) + 1} /\ Row' = 1
  BY <1>1, <1>5, <1>6, <1>7 DEF Row, Prefetched, RowFits, Stands, At, OnRowset
<1>10. ObjectFits' /\ HandleFits' /\ RowFits' /\ RowIsThere' /\ LookTold'
  BY <1>1, <1>5, <1>6, <1>7, <1>8 DEF ObjectFits, HandleFits, RowFits, RowIsThere, LookTold, OnRowset
<1> QED
  BY <1>1, <1>5, <1>6, <1>9, <1>10 DEF Placed, Looked

LEMMA LookPlaced ==
  ASSUME IInv, Placed, sqlsrv_has_rows, ~UNCHANGED <<odbc, current_results, has_rows>>
  PROVE  Placed' /\ Looked
<1>1. \/ LooksAhead /\ Return("sqlsrv_has_rows", IF has_rows' THEN "true" ELSE "false")
      \/ LookThrows /\ Return("sqlsrv_has_rows", "false")
  BY DEF sqlsrv_has_rows
<1> QED
  BY <1>1, LookAheadPlaced, LookThrowsPlaced

-----------------------------------------------------------------------------
(* Every step keeps the place and is one of four kinds.                    *)
Steps == StaysPut \/ Leaves \/ (\E to \in Moves : Reaches(to)) \/ Looked

LEMMA StaysPutPlaced ==
  ASSUME Placed, StaysPut
  PROVE  Placed'
BY KeptPlaced DEF StaysPut

LEMMA LeavesPlaced ==
  ASSUME Placed, IInv', Leaves
  PROVE  Placed'
<1>1. LookTold'
  BY DEF Leaves, LookTold
<1>2. Live(odbc')
  BY DEF IInv, TypeOK, Typed, HandleOK, Live
<1> QED
  BY <1>1, <1>2, IdledPlaced, AnewPlaced DEF Leaves

LEMMA FetchSteps ==
  ASSUME IInv, Placed, phase = "ready", NEW to \in Moves, NEW fn \in Reads, core_sqlsrv_fetch(to, fn)
  PROVE  StaysPut \/ Leaves \/ (Placed' /\ Reaches(to))
<1>1. CASE /\ FetchRefused
           /\ Fetched(fn, to, "false", 0)
           /\ UNCHANGED <<phase, conf, odbc, flags, last_field_index, current_meta_data,
                          fetch_fields_count, current_results, params, delivered>>
  BY <1>1, FetchRefusedLeaves
<1>2. CASE Crash(fn) \/ Dies(fn)
  BY <1>2, CrashLeaves
<1>3. ASSUME NEW c, FetchAllowed(c), NEW o \in Fetches(to),
             odbc' = o.h, current_results' = o.res,
             \/ FetchEnds(o) /\ Fetched(fn, to, "null", 0)
                  /\ UNCHANGED <<last_field_index, current_meta_data, fetch_fields_count>>
             \/ FetchFails(o) /\ Fetched(fn, to, "false", 0)
                  /\ UNCHANGED <<last_field_index, current_meta_data, fetch_fields_count>>
             \/ FetchLands(o) /\ IF fn = "sqlsrv_fetch" THEN FetchOnly(to) ELSE FetchFields(c, o, to),
             UNCHANGED <<phase, conf, executed, past_next_result_end, params>>
      PROVE  Placed' /\ Reaches(to)
  <2>1. UNCHANGED <<phase, conf, executed, past_next_result_end>>
    BY <1>3
  <2>2. \/ FetchEnds(o) /\ Fetched(fn, to, "null", 0)
        \/ FetchFails(o) /\ Fetched(fn, to, "false", 0)
        \/ FetchLands(o) /\ IF fn = "sqlsrv_fetch" THEN FetchOnly(to) ELSE FetchFields(c, o, to)
    BY <1>3
  <2> QED
    BY <1>3, <2>1, <2>2, FetchPlaced
<1> QED
  BY <1>1, <1>2, <1>3 DEF core_sqlsrv_fetch

LEMMA NextSteps ==
  ASSUME IInv, Placed, Next
  PROVE  StaysPut \/ Leaves \/ (Placed' /\ Steps)
<1>1. ASSUME NEW c \in Confs, NEW p \in ParamKinds, sqlsrv_prepare(c, p) \/ sqlsrv_query(c, p)
      PROVE  Leaves
  BY <1>1, PrepareLeaves, QueryLeaves
<1>2. CASE sqlsrv_execute
  BY <1>2, ExecuteActionLeaves
<1>3. CASE FlushStep
  BY <1>3, FlushStepLeaves
<1>4. CASE sqlsrv_next_result
  BY <1>4, NextResultLeaves
<1>5. ASSUME NEW to \in Moves, sqlsrv_fetch(to) \/ sqlsrv_fetch_array(to)
      PROVE  StaysPut \/ Leaves \/ (Placed' /\ Steps)
  <2>1. PICK fn \in Reads : core_sqlsrv_fetch(to, fn)
    BY <1>5 DEF sqlsrv_fetch, sqlsrv_fetch_array, Reads
  <2>2. phase = "ready"
    BY <1>5 DEF sqlsrv_fetch, sqlsrv_fetch_array
  <2> QED
    BY <2>1, <2>2, FetchSteps DEF Steps
<1>6. ASSUME NEW i \in 0 .. MaxCols - 1, sqlsrv_get_field(i) PROVE StaysPut \/ Leaves
  BY <1>6, GetFieldLeaves
<1>7. CASE sqlsrv_has_rows
  BY <1>7, HasRowsLeaves, LookPlaced DEF Steps
<1>8. CASE HasRowsCrashes
  BY <1>8, CrashLeaves DEF HasRowsCrashes
<1>9. CASE RowCount("sqlsrv_rows_affected") \/ RowCount("sqlsrv_num_rows")
  BY <1>9, RowCountLeaves DEF Reads
<1>10. CASE sqlsrv_send_stream_data
  BY <1>10, SendStreamLeaves
<1>11. CASE sqlsrv_cancel
  BY <1>11, CancelLeaves
<1>12. CASE sqlsrv_free_stmt
  BY <1>12, FreeLeaves
<1> QED
  BY <1>1, <1>2, <1>3, <1>4, <1>5, <1>6, <1>7, <1>8, <1>9, <1>10, <1>11, <1>12 DEF Next

LEMMA NextPlaced ==
  ASSUME IInv, Placed, IInv', [Next]_vars
  PROVE  Placed' /\ (UNCHANGED vars \/ Steps)
<1>1. CASE Next
  BY <1>1, NextSteps, StaysPutPlaced, LeavesPlaced DEF Steps
<1>2. CASE UNCHANGED vars
  <2>1. UNCHANGED <<phase, conf, odbc, executed, past_fetch_end, past_next_result_end, has_rows,
                    fetch_called, current_results, call>>
    BY <1>2 DEF vars, flags
  <2>2. Kept /\ LookTold'
    BY <2>1 DEF Kept, SameFlags, Placed, LookTold
  <2> QED
    BY <1>2, <2>2, KeptPlaced
<1> QED
  BY <1>1, <1>2

LEMMA InitPlaced == Init => Placed
BY DEF Init, Placed, ObjectFits, HandleFits, RowFits, RowIsThere, LookTold, Idle, NullResults, OnRowset

LEMMA AlwaysPlaced == Spec => []Placed
<1>1. Init => Placed
  BY InitPlaced
<1>2. IInv /\ IInv' /\ Placed /\ [Next]_vars => Placed'
  BY NextPlaced
<1> QED
  BY <1>1, <1>2, InductiveInvariant, PTL DEF Spec

(* While a buffered statement shows a rowset, its object holds exactly the *)
(* rows of the current result.                                             *)
THEOREM BufferedResultAgrees == Spec => []BufferedAgrees
<1>1. Placed => BufferedAgrees
  BY DEF Placed, ObjectFits, BufferedAgrees, OnRowset, Size
<1> QED
  BY <1>1, AlwaysPlaced, PTL

(* Fields of a scrollable statement are read only from a row that exists,  *)
(* but for row 0 of a buffered cursor that SQL_FETCH_RELATIVE 0 left there *)
(* with success.                                                           *)
THEOREM CurrentRowIsThere == Spec => []CurrentRowExists
<1>1. Placed => CurrentRowExists
  BY DEF Placed, RowIsThere, CurrentRowExists, OnRowset, Size
<1> QED
  BY <1>1, AlwaysPlaced, PTL

(* A script's place follows the place of the cursor.                       *)
LEMMA KeptRow ==
  ASSUME Kept
  PROVE  Row' = Row
BY DEF Kept, SameFlags, Row, Prefetched

LEMMA LeavesRow ==
  ASSUME IInv', Leaves
  PROVE  /\ Row' = 0
         /\ odbc'.batch # odbc.batch \/ odbc'.batch = << >> \/ Row = 0
         /\ ~Fetching'
<1>1. ~Fetching'
  BY DEF Leaves, Fetching, Reads
<1>2. CASE Idled
  BY <1>1, <1>2 DEF Idled, Idle, Row
<1>3. CASE Anew' /\ Turns
  <2>1. current_results'.kind \in {"null", "odbc", "buffered"}
    BY DEF IInv, TypeOK, Typed, ResultsOK
  <2>2. Row' = 0
    BY <1>3, <2>1 DEF Anew, Row, Prefetched
  <2> QED
    BY <1>1, <1>3, <2>2 DEF Turns
<1> QED
  BY <1>2, <1>3 DEF Leaves

(* sqlsrv_has_rows tells the truth and leaves no trace; a buffered result  *)
(* without rows whose row 0 was fetched is not covered.                    *)
THEOREM HasRowsIsHonest == Spec => HasRowsHonest
<1>1. ASSUME IInv, IInv', Placed, [Next]_vars
      PROVE  [Truthful /\ KeepsPlace]_vars
  <2>1. UNCHANGED vars \/ Steps
    BY <1>1, NextPlaced
  <2>2. CASE StaysPut
    BY <2>2, KeptRow DEF StaysPut, Truthful, KeepsPlace, Reads
  <2>3. CASE Leaves
    BY <2>3 DEF Leaves, Truthful, KeepsPlace, Reads
  <2>4. ASSUME NEW to \in Moves, Reaches(to)
        PROVE  Truthful /\ KeepsPlace
    <3>1. KeepsPlace
      BY <2>4 DEF Reaches, KeepsPlace, Reads
    <3>2. Truthful
      <4> SUFFICES ASSUME ~Deceived, call.fn = "sqlsrv_has_rows", call.ret = "true", OnRowset(odbc), Row = 0,
                          call'.to = "SQL_FETCH_NEXT", call'.ret = "null"
                   PROVE  FALSE
        BY DEF Truthful
      <4>1. Size(odbc) > 0 /\ Size(odbc) \in Nat
        <5>1. /\ Size(odbc) \in Nat
              /\ Size(odbc) > 0 \/ (current_results.kind = "buffered" /\ current_results.stayed)
              /\ current_results.kind = "buffered" => current_results.rows = Size(odbc)
          BY <1>1, SizeType DEF Placed, LookTold, RowFits, ObjectFits, IInv, TypeOK, Typed, HandleOK, Live,
                                OnRowset
        <5> QED
          BY <5>1 DEF Deceived
      <4>2. Row >= Size(odbc)
        BY <2>4 DEF Reaches
      <4> QED
        BY <4>1, <4>2
    <3> QED
      BY <3>1, <3>2
  <2>5. CASE Looked
    <3>1. Truthful
      BY <2>5 DEF Looked, Truthful
    <3>2. KeepsPlace
      <4> SUFFICES ASSUME call'.ret = "true", OnRowset(odbc), Row <= Head(odbc.batch).rows
                   PROVE  Row' = Row
        BY DEF KeepsPlace
      <4>1. Size(odbc) = Head(odbc.batch).rows /\ Size(odbc) \in Nat
        BY <1>1, SizeType DEF Size, IInv, TypeOK, Typed, HandleOK, Live
      <4>2. Row \in {0, Size(odbc) + 1} /\ Row' = 0
        BY <2>5 DEF Looked
      <4> QED
        BY <4>1, <4>2
    <3> QED
      BY <3>1, <3>2
  <2> QED
    BY <2>1, <2>2, <2>3, <2>4, <2>5 DEF Steps
<1> QED
  BY <1>1, InductiveInvariant, AlwaysPlaced, PTL DEF Spec, HasRowsHonest

-----------------------------------------------------------------------------
(* The statement implements the reader.                                    *)
LEMMA RowWithin ==
  ASSUME IInv, Placed
  PROVE  Reader!Rows \in Nat /\ Size(odbc) <= Reader!Rows /\ Row \in 0 .. Reader!Rows + 1
         /\ (OnRowset(odbc) => odbc.batch # << >> /\ Size(odbc) = Reader!Rows)
<1>1. Live(odbc) /\ current_results \in ResultSets /\ HandleFits /\ RowFits
  BY DEF IInv, TypeOK, Typed, HandleOK, Live, ResultsOK, ResultSets, Placed
<1>2. Size(odbc) \in Nat /\ odbc.at \in Nat /\ current_results.at \in Nat
  BY <1>1, SizeType DEF Live, Handles, ResultSets
<1>3. CASE odbc.state # "open"
  <2>1. Reader!Rows = 0 /\ Row = 0 /\ Size(odbc) = 0 /\ ~OnRowset(odbc)
    BY <1>1, <1>3 DEF Reader!Rows, Row, HandleFits, Size, OnRowset
  <2> QED
    BY <2>1
<1>4. CASE odbc.state = "open"
  <2>1. /\ odbc.batch # << >> /\ Head(odbc.batch).rows \in Nat
        /\ Reader!Rows = Head(odbc.batch).rows
    BY <1>1, <1>4, HeadType DEF Live, Reader!Rows
  <2>2. Size(odbc) <= Reader!Rows /\ (OnRowset(odbc) => Size(odbc) = Reader!Rows)
    BY <2>1 DEF Size
  <2>3. Row \in {0, odbc.at} \/ (Row = current_results.at /\ current_results.kind = "buffered")
    BY DEF Row
  <2>4. odbc.at <= Size(odbc) + 1
    BY <1>1, <1>4 DEF HandleFits
  <2>5. current_results.kind = "buffered" => current_results.at <= Size(odbc) + 1
    BY <1>1, <1>2, <1>4 DEF HandleFits, RowFits
  <2>6. Row \in 0 .. Size(odbc) + 1
    BY <1>2, <2>3, <2>4, <2>5
  <2> QED
    BY <1>2, <2>1, <2>2, <2>6
<1> QED
  BY <1>3, <1>4

LEMMA InitReads == Init => Reader!ReaderInit
BY DEF Init, Idle, Row, Told, Fetching, Reader!ReaderInit

LEMMA NextReads ==
  ASSUME IInv, IInv', Placed, [Next]_vars
  PROVE  [Reader!ReaderNext]_Reader!reader
<1> USE DEF Reader!ReaderNext
<1>1. UNCHANGED vars \/ Steps
  BY NextPlaced
<1>2. CASE UNCHANGED vars
  <2>1. UNCHANGED <<phase, conf, odbc, past_fetch_end, has_rows, fetch_called, current_results, call>>
    BY <1>2 DEF vars, flags
  <2> QED
    BY <2>1 DEF Reader!reader, Row, Prefetched, Told, Fetching
<1>3. CASE StaysPut
  <2>1. Row' = Row /\ odbc'.batch = odbc.batch /\ (call'.fn \in Reads => call'.ret = "false")
    BY <1>3, KeptRow DEF StaysPut, Kept
  <2>2. Told' = "jump" \/ Told' = "error" \/ Told' = "other"
    <3>1. CASE call'.ret = "false"
      BY <3>1 DEF Told, Fetching
    <3>2. CASE call'.ret # "false"
      BY <2>1, <3>2 DEF Told, Fetching, Reads
    <3> QED
      BY <3>1, <3>2
  <2>3. CASE Told' = "jump"
    BY <2>1, <2>3, RowWithin DEF Reader!Jump
  <2>4. CASE Told' = "error"
    BY <2>1, <2>4 DEF Reader!SayError
  <2>5. CASE Told' = "other"
    BY <2>1, <2>5 DEF Reader!Look
  <2> QED
    BY <2>2, <2>3, <2>4, <2>5
<1>4. CASE Leaves
  <2>1. /\ Row' = 0 /\ ~Fetching'
        /\ odbc'.batch # odbc.batch \/ odbc'.batch = << >> \/ Row = 0
    BY <1>4, LeavesRow
  <2>2. Told' = "other" \/ Told' = "error"
    BY <2>1 DEF Told
  <2>3. CASE odbc'.batch # odbc.batch
    BY <2>1, <2>2, <2>3 DEF Reader!Move
  <2>4. CASE odbc'.batch = odbc.batch /\ odbc'.batch = << >>
    BY <2>1, <2>4 DEF Reader!Nothing
  <2>5. CASE odbc'.batch = odbc.batch /\ Row = 0
    BY <2>1, <2>2, <2>5 DEF Reader!Look, Reader!SayError
  <2> QED
    BY <2>1, <2>3, <2>4, <2>5
<1>5. ASSUME NEW to \in Moves, Reaches(to)
      PROVE  Reader!ReaderNext
  <2>1. /\ call'.fn \in Reads /\ call'.to = to.style /\ call'.ret \in {"true", "false", "null"}
        /\ odbc'.batch = odbc.batch
    BY <1>5 DEF Reaches
  <2>2. Fetching'
    BY <2>1 DEF Fetching, Reads
  <2>3. CASE ~OnRowset(odbc)
    BY <1>5, <2>1, <2>3 DEF Reaches, Reader!Nothing
  <2>4. CASE OnRowset(odbc)
    <3>1. /\ Reader!Rows \in Nat /\ odbc.batch # << >> /\ Size(odbc) = Reader!Rows
      BY <2>4, RowWithin
    <3>2. Row' \in 0 .. Reader!Rows + 1
      BY <1>5, <2>4, <3>1 DEF Reaches
    <3>3. CASE to.style # "SQL_FETCH_NEXT"
      <4>1. Told' = "jump"
        BY <2>1, <2>2, <3>3 DEF Told
      <4> QED
        BY <2>1, <3>2, <4>1 DEF Reader!Jump
    <3>4. CASE to.style = "SQL_FETCH_NEXT"
      <4>1. /\ call'.ret = "true" => Row < Reader!Rows /\ Row' = Row + 1
            /\ call'.ret = "null" => Row >= Reader!Rows /\ Row' = Reader!Rows + 1
            /\ call'.ret = "false" => Row' \in {Row, Row + 1, Reader!Rows + 1}
        BY <1>5, <2>4, <3>1, <3>4 DEF Reaches
      <4>2. /\ call'.ret = "true" => Told' = "row"
            /\ call'.ret = "null" => Told' = "end"
            /\ call'.ret = "false" => Told' = "error"
        BY <2>1, <2>2, <3>4 DEF Told
      <4>3. CASE call'.ret = "true"
        BY <2>1, <4>1, <4>2, <4>3 DEF Reader!HandRow
      <4>4. CASE call'.ret = "null"
        BY <2>1, <3>1, <4>1, <4>2, <4>4 DEF Reader!SayEnd
      <4>5. CASE call'.ret = "false"
        BY <2>1, <4>1, <4>2, <4>5 DEF Reader!SayError
      <4> QED
        BY <2>1, <4>3, <4>4, <4>5
    <3> QED
      BY <3>3, <3>4
  <2> QED
    BY <2>3, <2>4
<1>6. CASE Looked
  <2>1. /\ ~Fetching' /\ call'.ret \in {"true", "false"}
        /\ odbc'.batch = odbc.batch
    BY <1>6 DEF Looked, Fetching
  <2>2. /\ call'.ret = "true" => Told' = "other"
        /\ call'.ret = "false" => Told' = "error"
    BY <2>1 DEF Told
  <2>3. CASE ~OnRowset(odbc)
    BY <1>6, <2>1, <2>3 DEF Looked, Reader!Nothing
  <2>4. CASE OnRowset(odbc)
    <3>1. Reader!Rows \in Nat /\ Size(odbc) = Reader!Rows
      BY <2>4, RowWithin
    <3>2. CASE call'.ret = "true"
      <4>1. Row \in {0, Reader!Rows + 1} /\ Row' = 0
        BY <1>6, <2>4, <3>1, <3>2 DEF Looked
      <4> QED
        BY <2>1, <2>2, <3>1, <3>2, <4>1 DEF Reader!Look, Reader!StartOver
    <3>3. CASE call'.ret = "false"
      <4>1. \/ Row' \in {Row, Reader!Rows + 1}
            \/ Row \in {0, Reader!Rows + 1} /\ Row' = 1
        BY <1>6, <2>4, <3>1, <3>3 DEF Looked
      <4>2. Row' \in {Row, Row + 1, Reader!Rows + 1} \cup IF Row > Reader!Rows THEN {1} ELSE {}
        BY <3>1, <4>1
      <4> QED
        BY <2>1, <2>2, <3>3, <4>2 DEF Reader!SayError
    <3> QED
      BY <2>1, <3>2, <3>3
  <2> QED
    BY <2>3, <2>4
<1> QED
  BY <1>1, <1>2, <1>3, <1>4, <1>5, <1>6 DEF Steps

(* A script that reads a batch row by row gets the rows of each result in  *)
(* order, none twice and none left out, whatever it calls in between.      *)
THEOREM StatementReadsInOrder == Spec => ReadsInOrder
<1>1. Init => Reader!ReaderInit
  BY InitReads
<1>2. IInv /\ IInv' /\ Placed /\ [Next]_vars => [Reader!ReaderNext]_Reader!reader
  BY NextReads
<1> QED
  BY <1>1, <1>2, InductiveInvariant, AlwaysPlaced, PTL DEF Spec, ReadsInOrder, Reader!ReaderSpec

-----------------------------------------------------------------------------
(* On a forward-only or a server-side statement only a failed statement of *)
(* a batch, with BatchErrorContinue, leaves no result set object.          *)
NoneMissing ==
  /\ phase = "none" => ~executed
  /\ executed /\ current_results.kind = "null" => conf.continue

LEMMA ExecuteNotMissing ==
  ASSUME NEW h, Live(h), NEW c \in AnyConf, c.cursor # "buffered", NEW p, NEW ex \in BOOLEAN, NEW fn,
         core_sqlsrv_execute(h, c, p, ex, fn)
  PROVE  /\ current_results'.kind = "odbc" \/ (executed' = ex /\ UNCHANGED current_results)
         /\ call'.ret # "crash"
<1>1. PICK o \in Executions(h, c, p) :
        /\ call'.ret # "crash"
        /\ \/ executed' = ex /\ UNCHANGED current_results
           \/ o.r # SQL_ERROR /\ \E n \in NewResults(o.h, c.cursor) : current_results' = n.res
  BY DEF core_sqlsrv_execute, ExecuteFails, Return
<1>2. ASSUME o.r # SQL_ERROR, NEW n \in NewResults(o.h, c.cursor), current_results' = n.res
      PROVE  current_results'.kind = "odbc"
  BY <1>2 DEF NewResults, OdbcResults
<1> QED
  BY <1>1, <1>2

(* A fetch leaves the kind of the result set object alone.                 *)
LEMMA ResultsFetchKind ==
  ASSUME Typed, NEW to \in AnyMoves, NEW o \in ResultsFetch(to)
  PROVE  o.res \in ResultSets /\ o.res.kind = current_results.kind
<1>1. current_results \in ResultSets
  BY DEF Typed, ResultsOK, ResultSets
<1>2. CASE current_results.kind = "buffered"
  <2>1. o.res = BufferedFetch(to).res
    BY <1>2 DEF ResultsFetch
  <2> QED
    BY <1>1, <2>1, BufferedFetchType
<1>3. CASE current_results.kind # "buffered"
  BY <1>1, <1>3, ResultsFetchType
<1> QED
  BY <1>2, <1>3

LEMMA NextMissing ==
  ASSUME "buffered" \notin Cursors, IInv, NoneMissing, [Next]_vars
  PROVE  NoneMissing' /\ (call'.ret = "crash" => call.ret = "crash" \/ conf.continue)
<1> DEFINE Fine == NoneMissing' /\ (call'.ret = "crash" => call.ret = "crash" \/ conf.continue)
<1>1. /\ Live(odbc) /\ conf \in AnyConf /\ conf.cursor # "buffered"
      /\ executed \in BOOLEAN /\ past_next_result_end \in BOOLEAN
  BY DEF IInv, TypeOK, Typed, HandleOK, FlagsOK, Live, AnyConf, Confs, NoConf
<1>2. ASSUME UNCHANGED <<phase, conf, executed, current_results>>, call'.ret # "crash" PROVE Fine
  BY <1>2 DEF NoneMissing
<1>3. ASSUME Gone, call'.ret = "crash" => conf.continue PROVE Fine
  BY <1>3 DEF NoneMissing, Gone
<1>4. ASSUME BindAndExecute, phase # "none" PROVE Fine
  <2>1. phase' = "ready" /\ conf' = conf
    BY <1>4 DEF BindAndExecute
  <2>2. CASE core_sqlsrv_execute(odbc, conf, params_z, executed /\ params_z \in {"none", "lost"},
                                 "sqlsrv_execute")
    <3>1. PICK ex \in BOOLEAN : ex = (executed /\ params_z \in {"none", "lost"})
      BY <1>1
    <3>2. core_sqlsrv_execute(odbc, conf, params_z, ex, "sqlsrv_execute")
      BY <2>2, <3>1
    <3>3. /\ current_results'.kind = "odbc" \/ (executed' = ex /\ UNCHANGED current_results)
          /\ call'.ret # "crash"
      BY <1>1, <3>2, ExecuteNotMissing
    <3> QED
      BY <2>1, <3>1, <3>3 DEF NoneMissing
  <2>3. CASE executed' = FALSE /\ Return("sqlsrv_execute", "false")
    BY <2>1, <2>3 DEF NoneMissing, Return
  <2> QED
    BY <1>4, <2>2, <2>3 DEF BindAndExecute
<1>5. ASSUME NEW finalize, NEW throw, NEW fn, phase # "none", phase' # "none", UNCHANGED conf,
             NEW report, report => conf.continue,
             core_sqlsrv_next_result(finalize, throw, report, fn)
      PROVE  Fine
  <2>1. call'.ret # "crash"
    BY <1>5 DEF core_sqlsrv_next_result, NextResultRefused, NextResultThrows, NextResultReports,
                NextResultEnds, NextResultEndThrows, NextResultMoves, Return
  <2>2. \/ UNCHANGED <<executed, current_results>>
        \/ conf.continue
        \/ \E n \in NewResults(SQLMoreResults(odbc).h, conf.cursor) : current_results' = n.res
    BY <1>5 DEF core_sqlsrv_next_result, NextResultRefused, NextResultThrows, NextResultReports,
                NextResultEnds, NextResultEndThrows, NextResultMoves, flags
  <2>3. ASSUME NEW n \in NewResults(SQLMoreResults(odbc).h, conf.cursor), current_results' = n.res
        PROVE  current_results'.kind = "odbc"
    BY <1>1, <2>3 DEF NewResults, OdbcResults
  <2> QED
    BY <1>5, <2>1, <2>2, <2>3 DEF NoneMissing
<1>6. ASSUME NEW c \in Confs, NEW p \in ParamKinds, sqlsrv_prepare(c, p) PROVE Fine
  <2>1. phase = "none" /\ executed' = executed /\ call'.ret = "true" /\ phase' = "ready"
    BY <1>6 DEF sqlsrv_prepare, Return, flags
  <2> QED
    BY <2>1 DEF NoneMissing
<1>7. ASSUME NEW c \in Confs, NEW p \in ParamKinds, sqlsrv_query(c, p) PROVE Fine
  <2>1. CASE QueryFails(c, p)
    BY <1>3, <2>1 DEF QueryFails, Return
  <2>2. CASE QuerySucceeds(c, p)
    <3>1. /\ core_sqlsrv_execute(Idle, c, p, FALSE, "sqlsrv_query")
          /\ call'.ret = "true" /\ phase' = "ready" /\ conf' = c
      BY <2>2 DEF QuerySucceeds
    <3>2. c \in AnyConf /\ c.cursor # "buffered"
      BY DEF AnyConf, Confs
    <3>3. /\ current_results'.kind = "odbc" \/ (executed' = FALSE /\ UNCHANGED current_results)
          /\ call'.ret # "crash"
      BY <3>1, <3>2, IdleLive, ExecuteNotMissing
    <3> QED
      BY <3>1, <3>3 DEF NoneMissing
  <2> QED
    BY <1>7, <2>1, <2>2 DEF sqlsrv_query
<1>8. CASE sqlsrv_execute
  <2>1. CASE BindAndExecute
    BY <1>4, <1>8, <2>1 DEF sqlsrv_execute
  <2>2. CASE /\ UNCHANGED <<conf, executed, current_results>> /\ call'.ret # "crash"
             /\ phase = "ready" /\ phase' # "none"
    BY <2>2 DEF NoneMissing
  <2> QED
    BY <1>8, <2>1, <2>2 DEF sqlsrv_execute, Return, flags
<1>9. CASE FlushStep
  <2>1. CASE past_next_result_end /\ BindAndExecute
    BY <1>4, <1>9, <2>1 DEF FlushStep
  <2>2. CASE core_sqlsrv_next_result(FALSE, FALSE, FALSE, "sqlsrv_execute") /\ phase' \in {"ready", "flush"}
             /\ UNCHANGED conf
    BY <1>5, <1>9, <2>2 DEF FlushStep
  <2> QED
    BY <1>9, <2>1, <2>2 DEF FlushStep
<1>10. CASE sqlsrv_next_result
  <2>1. /\ core_sqlsrv_next_result(TRUE, ~conf.continue, conf.continue, "sqlsrv_next_result")
        /\ phase = "ready" /\ UNCHANGED <<phase, conf>>
    BY <1>10 DEF sqlsrv_next_result
  <2> QED
    BY <1>5, <2>1
<1>11. ASSUME NEW to \in Moves, NEW fn, phase = "ready", core_sqlsrv_fetch(to, fn) PROVE Fine
  <2>1. CASE executed /\ current_results.kind = "null" /\ Crash(fn)
    BY <1>3, <2>1 DEF Crash, NoneMissing
  <2>2. CASE /\ UNCHANGED <<phase, conf, executed, current_results>> /\ call'.ret = "false"
    BY <1>2, <2>2
  <2>3. ASSUME NEW c, NEW o \in Fetches(to), current_results' = o.res,
               UNCHANGED <<phase, conf, executed>>, call'.ret # "crash"
        PROVE  Fine
    <3>1. o.res.kind = current_results.kind
      <4>1. CASE o = FetchedAhead
        BY <4>1 DEF FetchedAhead
      <4>2. CASE o \in ResultsFetch(OneBased(to))
        BY <4>2, MoveTypes, ResultsFetchKind DEF IInv, TypeOK
      <4> QED
        BY <4>1, <4>2 DEF Fetches
    <3> QED
      BY <2>3, <3>1 DEF NoneMissing
  <2>5. CASE Dies(fn)
    BY <1>3, <2>5 DEF Dies, Return
  <2>4. \/ executed /\ current_results.kind = "null" /\ Crash(fn)
        \/ Dies(fn)
        \/ UNCHANGED <<phase, conf, executed, current_results>> /\ call'.ret = "false"
        \/ \E c : \E o \in Fetches(to) : /\ current_results' = o.res
                                         /\ UNCHANGED <<phase, conf, executed>> /\ call'.ret # "crash"
    <3>1. FetchOnly(to) => call'.ret # "crash"
      BY DEF FetchOnly, Fetched
    <3>2. \A c, o : FetchFields(c, o, to) => call'.ret # "crash"
      BY DEF FetchFields, Fetched
    <3>3. \A ret : Fetched(fn, to, ret, 0) => call'.ret = ret
      BY DEF Fetched
    <3> QED
      BY <1>11, <3>1, <3>2, <3>3 DEF core_sqlsrv_fetch, FetchAllowed, flags
  <2> QED
    BY <2>1, <2>2, <2>3, <2>4, <2>5
<1>12. ASSUME NEW i \in 0 .. MaxCols - 1, sqlsrv_get_field(i) PROVE Fine
  <2>1. CASE GetsField(i)
    BY <1>2, <2>1 DEF GetsField, flags, Return
  <2>2. CASE Dies("sqlsrv_get_field")
    BY <1>3, <2>2 DEF Dies, Return
  <2> QED
    BY <1>12, <2>1, <2>2 DEF sqlsrv_get_field
<1>13. CASE sqlsrv_has_rows
  <2>1. /\ phase = "ready" /\ UNCHANGED <<phase, conf, executed>> /\ call'.ret # "crash"
        /\ LooksAhead \/ UNCHANGED current_results
    BY <1>13 DEF sqlsrv_has_rows, LookThrows, Return
  <2>2. current_results'.kind = current_results.kind
    <3>1. CASE UNCHANGED current_results
      BY <3>1
    <3>2. ASSUME NEW o \in ResultsFetch(First), NEW x,
                 current_results' = o.res \/ current_results' = [o.res EXCEPT !.at = x]
          PROVE  current_results'.kind = current_results.kind
      <4>1. o.res \in ResultSets /\ o.res.kind = current_results.kind
        BY <3>2, MoveTypes, ResultsFetchKind DEF IInv, TypeOK
      <4> QED
        BY <3>2, <4>1 DEF ResultSets
    <3> QED
      BY <2>1, <3>1, <3>2 DEF LooksAhead
  <2> QED
    BY <2>1, <2>2 DEF NoneMissing
<1>14. CASE HasRowsCrashes
  BY <1>3, <1>14 DEF HasRowsCrashes, Crash, NoneMissing
<1>15. ASSUME NEW fn, RowCount(fn) PROVE Fine
  <2>1. CASE executed /\ current_results.kind = "null" /\ Crash(fn)
    BY <1>3, <2>1 DEF Crash, NoneMissing
  <2>2. CASE UNCHANGED <<phase, conf, executed, current_results>> /\ call'.ret # "crash"
    BY <1>2, <2>2
  <2> QED
    BY <1>15, <2>1, <2>2 DEF RowCount, Return, flags
<1>16. CASE sqlsrv_send_stream_data
  BY <1>2, <1>16 DEF sqlsrv_send_stream_data, PacketFails, SendPacket, Return, flags
<1>17. CASE sqlsrv_cancel
  BY <1>2, <1>17 DEF sqlsrv_cancel, Return, flags
<1>18. CASE sqlsrv_free_stmt
  BY <1>3, <1>18 DEF sqlsrv_free_stmt, Return
<1>19. CASE UNCHANGED vars
  BY <1>19 DEF vars, flags, NoneMissing
<1> QED
  BY <1>6, <1>7, <1>8, <1>9, <1>10, <1>11, <1>12, <1>13, <1>14, <1>15, <1>16, <1>17, <1>18, <1>19
     DEF Next, sqlsrv_fetch, sqlsrv_fetch_array

(* On a statement that does not buffer its results no function finds       *)
(* current_results NULL, but where BatchErrorContinue leaves it so after a *)
(* failed statement of the batch.                                          *)
THEOREM NullOnlyWithoutBuffers ==
  ASSUME "buffered" \notin Cursors
  PROVE  Spec => NullOnlyToContinue
<1>1. Init => NoneMissing
  BY DEF Init, NoneMissing
<1>2. IInv /\ NoneMissing /\ [Next]_vars => NoneMissing'
  BY NextMissing
<1>3. IInv /\ NoneMissing /\ [Next]_vars =>
        [call'.ret = "crash" /\ call.ret # "crash" => conf.continue]_vars
  BY NextMissing
<1> QED
  BY <1>1, <1>2, <1>3, InductiveInvariant, PTL DEF Spec, NullOnlyToContinue

-----------------------------------------------------------------------------
(* What is kept of the columns of a result belongs to that result.  While  *)
(* data is sent there is none.                                             *)
NothingKept == odbc.state = "need_data" => fetch_fields_count = 0 /\ current_meta_data = 0
ColumnsKnown     == WholeRow /\ NothingKept

(* A step that keeps it without a fetch: nothing is kept any more, or the  *)
(* handle is as it was or idle.                                            *)
LEMMA ForgottenColumns ==
  ASSUME fetch_fields_count' = 0, current_meta_data' = 0, call'.fn # "sqlsrv_fetch_array"
  PROVE  ColumnsKnown'
BY DEF ColumnsKnown, WholeRow, NothingKept

LEMMA KeptColumns ==
  ASSUME ColumnsKnown, UNCHANGED <<fetch_fields_count, current_meta_data>>,
         odbc' = odbc \/ odbc'.state = "idle",
         call'.fn # "sqlsrv_fetch_array" \/ call'.ret # "true"
  PROVE  ColumnsKnown'
BY DEF ColumnsKnown, WholeRow, NothingKept, OnRowset

LEMMA ExecuteColumns ==
  ASSUME NEW h, Live(h), NEW c \in AnyConf, NEW p, NEW ex \in BOOLEAN, NEW fn,
         core_sqlsrv_execute(h, c, p, ex, fn)
  PROVE  /\ call'.fn = fn
         /\ \/ fetch_fields_count' = 0 /\ current_meta_data' = 0
            \/ /\ odbc' = h \/ odbc' = Idle
               /\ executed' = ex /\ UNCHANGED <<fetch_fields_count, current_meta_data>>
<1>1. PICK o \in Executions(h, c, p) :
        /\ call'.fn = fn
        /\ \/ fetch_fields_count' = 0 /\ current_meta_data' = 0
           \/ /\ o.r = SQL_ERROR
              /\ odbc' = o.h \/ odbc' = Idle
              /\ executed' = ex /\ UNCHANGED <<fetch_fields_count, current_meta_data>>
  BY DEF core_sqlsrv_execute, ExecuteFails, ResetForNewResult, SQLCancel, Return, caches
<1>2. o.r = SQL_ERROR => o.h = h \/ o.h = Idle
  BY ExecutionsType
<1> QED
  BY <1>1, <1>2

LEMMA BindAndExecuteColumns ==
  ASSUME IInv, ColumnsKnown, BindAndExecute
  PROVE  ColumnsKnown'
<1>1. Live(odbc) /\ conf \in AnyConf /\ executed \in BOOLEAN
  BY DEF IInv, TypeOK, Typed, HandleOK, FlagsOK, Live, AnyConf
<1>2. CASE core_sqlsrv_execute(odbc, conf, params_z, executed /\ params_z \in {"none", "lost"},
                               "sqlsrv_execute")
  <2>1. PICK ex \in BOOLEAN : ex = (executed /\ params_z \in {"none", "lost"})
    BY <1>1
  <2>2. core_sqlsrv_execute(odbc, conf, params_z, ex, "sqlsrv_execute")
    BY <1>2, <2>1
  <2>3. /\ call'.fn = "sqlsrv_execute"
        /\ \/ fetch_fields_count' = 0 /\ current_meta_data' = 0
           \/ /\ odbc' = odbc \/ odbc' = Idle
              /\ UNCHANGED <<fetch_fields_count, current_meta_data>>
    BY <1>1, <2>2, ExecuteColumns
  <2> QED
    BY <2>3, ForgottenColumns, KeptColumns DEF Idle
<1>3. CASE UNCHANGED <<odbc, caches>> /\ Return("sqlsrv_execute", "false")
  BY <1>3, KeptColumns DEF caches, Return
<1> QED
  BY <1>2, <1>3 DEF BindAndExecute

LEMMA CoreNextResultColumns ==
  ASSUME IInv, ColumnsKnown, NEW finalize, NEW throw, NEW report, NEW fn, fn # "sqlsrv_fetch_array",
         core_sqlsrv_next_result(finalize, throw, report, fn)
  PROVE  ColumnsKnown'
<1> DEFINE m == SQLMoreResults(odbc)
<1>1. Live(odbc)
  BY DEF IInv, TypeOK, Typed, HandleOK, Live
<1>2. /\ m.r = SQL_NO_DATA => m.h.state = "idle"
      /\ m.r = SQL_ERROR => \/ OnError(m.h)
                            \/ m.h.state = "need_data" /\ m.h = odbc
  BY <1>1, MoreResultsLive, MoreResultsMoves
<1> HIDE DEF m
<1>3. CASE NextResultRefused(throw, fn) \/ NextResultThrows(m, fn)
  <2>1. odbc' \in {odbc, Idle} /\ call'.fn = fn /\ UNCHANGED caches
    BY <1>3 DEF NextResultRefused, NextResultThrows, SQLCancel, Return
  <2> QED
    BY <2>1, KeptColumns DEF caches, Idle
<1>4. CASE NextResultReports(m, fn)
  <2>1. /\ m.r = SQL_ERROR /\ odbc' = m.h /\ call'.fn = fn
        /\ current_meta_data' = 0 /\ fetch_fields_count' = fetch_fields_count
    BY <1>4 DEF NextResultReports, Return
  <2>2. CASE OnError(odbc')
    BY <2>1, <2>2 DEF ColumnsKnown, WholeRow, NothingKept, OnError, OnRowset
  <2>3. CASE odbc' = odbc /\ odbc.state = "need_data"
    BY <2>1, <2>3 DEF ColumnsKnown, WholeRow, NothingKept, OnRowset
  <2> QED
    BY <1>2, <2>1, <2>2, <2>3
<1>5. CASE NextResultEnds(m, finalize, fn)
  <2>1. odbc'.state = "idle" /\ call'.fn = fn
    BY <1>2, <1>5 DEF NextResultEnds, Return
  <2> QED
    BY <2>1 DEF ColumnsKnown, WholeRow, NothingKept, OnRowset
<1>7. CASE NextResultEndThrows(m, finalize, fn)
  <2>1. odbc'.state = "idle" /\ call'.fn = fn
    BY <1>2, <1>7 DEF NextResultEndThrows, Return
  <2> QED
    BY <2>1 DEF ColumnsKnown, WholeRow, NothingKept, OnRowset
<1>6. CASE NextResultMoves(m, throw, fn)
  BY <1>6, ForgottenColumns DEF NextResultMoves, ResetForNewResult, Return
<1> QED
  BY <1>3, <1>4, <1>5, <1>6, <1>7 DEF core_sqlsrv_next_result, m

(* Describing a result: all of its columns, or none where ODBC refuses.    *)
LEMMA DescribedColumns ==
  ASSUME TRUE \notin MetadataFails, TypeOK, ColumnsKnown, NEW cached, NEW h, Live(h),
         h.state = odbc.state, h.batch = odbc.batch,
         OnRowset(odbc) \/ odbc.state = "need_data",
         cached = ACTIVE_NUM_COLS_INVALID \/ (OnRowset(odbc) /\ cached = Head(odbc.batch).cols),
         NEW d \in Described(cached, h)
  PROVE  /\ OnRowset(odbc) => d.size = Head(odbc.batch).cols /\ d.cols = Head(odbc.batch).cols
         /\ odbc.state = "need_data" => d.size = 0
<1>1. CASE current_meta_data # 0
  <2>1. d = [cols |-> current_meta_data, column_count |-> cached, size |-> current_meta_data]
    BY <1>1 DEF Described
  <2> QED
    BY <1>1, <2>1 DEF ColumnsKnown, WholeRow, NothingKept
<1>2. CASE current_meta_data = 0
  <2> DEFINE Counted == IF cached # ACTIVE_NUM_COLS_INVALID THEN {cached} ELSE SQLNumResultCols(h)
             Sizes(c) == IF c = SQL_ERROR THEN {0}
                         ELSE {c} \cup IF TRUE \in MetadataFails /\ c > 0 THEN 0 .. c - 1 ELSE {}
  <2>1. PICK c \in Counted :
          d \in { [cols |-> c, column_count |-> IF c = SQL_ERROR THEN cached ELSE c, size |-> k] :
                    k \in Sizes(c) }
    BY <1>2 DEF Described
  <2>2. PICK k \in Sizes(c) :
          d = [cols |-> c, column_count |-> IF c = SQL_ERROR THEN cached ELSE c, size |-> k]
    BY <2>1
  <2>3. k = IF c = SQL_ERROR THEN 0 ELSE c
    BY <2>2
  <2>4. OnRowset(odbc) => c = Head(odbc.batch).cols /\ c # SQL_ERROR
    <3> SUFFICES ASSUME OnRowset(odbc) PROVE c = Head(odbc.batch).cols /\ c # SQL_ERROR
      OBVIOUS
    <3>1. SQLNumResultCols(h) = {Head(odbc.batch).cols}
      BY DEF SQLNumResultCols, OnRowset, OnError
    <3>2. c = Head(odbc.batch).cols
      BY <2>1, <3>1
    <3>3. Head(odbc.batch).cols \in 0 .. MaxCols
      BY HeadType DEF TypeOK, Typed, HandleOK, Live, OnRowset
    <3> QED
      BY <3>2, <3>3, OdbcAssumption DEF OdbcAssumption, SQL_ERROR
  <2>5. odbc.state = "need_data" => c = SQL_ERROR
    BY <2>1 DEF SQLNumResultCols, OnRowset
  <2> QED
    BY <2>2, <2>3, <2>4, <2>5
<1> QED
  BY <1>1, <1>2

LEMMA FetchColumns ==
  ASSUME TRUE \notin MetadataFails, IInv, IInv', Placed, ColumnsKnown,
         NEW to \in Moves, NEW fn, core_sqlsrv_fetch(to, fn)
  PROVE  ColumnsKnown'
<1>1. CASE UNCHANGED <<odbc, fetch_fields_count, current_meta_data>> /\ call'.ret = "false"
  BY <1>1, KeptColumns
<1>2. CASE Crash(fn) \/ Dies(fn)
  BY <1>2 DEF Crash, Dies, Gone, Return, ColumnsKnown, WholeRow, NothingKept, Idle, OnRowset
<1>3. ASSUME NEW c, FetchAllowed(c), NEW o \in Fetches(to), column_count' = c, odbc' = o.h,
             \/ UNCHANGED <<fetch_fields_count, current_meta_data>> /\ call'.ret # "true"
             \/ FetchOnly(to)
             \/ FetchFields(c, o, to)
      PROVE  ColumnsKnown'
  <2>1. Live(o.h) /\ o.h.state = odbc.state /\ o.h.batch = odbc.batch /\ TypeOK
    BY FetchesType DEF IInv, TypeOK
  <2>2. OnRowset(odbc) \/ odbc.state = "idle"
    BY <1>3, FetchOnRowset
  <2>3. CASE odbc.state = "idle"
    BY <1>3, <2>1, <2>3 DEF ColumnsKnown, WholeRow, NothingKept, OnRowset
  <2>4. CASE OnRowset(odbc)
    <3> DEFINE cols == Head(odbc.batch).cols
    <3>1. OnRowset(odbc') /\ Head(odbc'.batch).cols = cols /\ odbc'.state = "open"
      BY <1>3, <2>1, <2>4 DEF OnRowset
    <3>2. c = ACTIVE_NUM_COLS_INVALID \/ c = cols
      BY <1>3, <3>1 DEF IInv, Safe, ColumnCountFresh
    <3>3. fetch_fields_count \in {0, cols} /\ current_meta_data \in {0, cols}
      BY <2>4 DEF ColumnsKnown, WholeRow
    <3>4. ASSUME fetch_fields_count' \in {0, cols}, current_meta_data' \in {0, cols},
                 call'.fn = "sqlsrv_fetch_array" /\ call'.ret = "true" => call'.fields = cols
          PROVE  ColumnsKnown'
      BY <3>1, <3>4 DEF ColumnsKnown, WholeRow, NothingKept
    <3>5. CASE UNCHANGED <<fetch_fields_count, current_meta_data>> /\ call'.ret # "true"
      BY <3>3, <3>4, <3>5
    <3>6. CASE FetchOnly(to)
      BY <3>3, <3>4, <3>6 DEF FetchOnly, Fetched
    <3>7. CASE FetchFields(c, o, to)
      <4>1. PICK d \in Described(c, o.h) :
              /\ current_meta_data' = d.size
              /\ fetch_fields_count' \in {fetch_fields_count, d.cols}
              /\ call'.ret = "true" => call'.fields = d.cols
        BY <3>7 DEF FetchFields, Fetched
      <4>2. d.size = cols /\ d.cols = cols
        BY <2>1, <2>4, <3>2, DescribedColumns
      <4> QED
        BY <3>3, <3>4, <4>1, <4>2
    <3> QED
      BY <1>3, <3>5, <3>6, <3>7
  <2> QED
    BY <2>2, <2>3, <2>4
<1>4. \/ UNCHANGED <<odbc, fetch_fields_count, current_meta_data>> /\ call'.ret = "false"
      \/ Crash(fn) \/ Dies(fn)
      \/ \E c : FetchAllowed(c) /\ \E o \in Fetches(to) :
           /\ column_count' = c /\ odbc' = o.h
           /\ \/ UNCHANGED <<fetch_fields_count, current_meta_data>> /\ call'.ret # "true"
              \/ FetchOnly(to)
              \/ FetchFields(c, o, to)
  <2>1. \A ret : Fetched(fn, to, ret, 0) => call'.ret = ret
    BY DEF Fetched
  <2> QED
    BY <2>1 DEF core_sqlsrv_fetch
<1> QED
  BY <1>1, <1>2, <1>3, <1>4

LEMMA GetFieldColumns ==
  ASSUME TRUE \notin MetadataFails, IInv, IInv', ColumnsKnown, NEW i \in 0 .. MaxCols - 1, GetsField(i)
  PROVE  ColumnsKnown'
<1>1. PICK d \in Described(column_count, odbc) : current_meta_data' = d.size
  BY DEF GetsField
<1>2. UNCHANGED <<odbc, fetch_fields_count>> /\ call'.fn = "sqlsrv_get_field"
  BY DEF GetsField, Return
<1>3. Live(odbc) /\ TypeOK /\ Safe
  BY DEF IInv, TypeOK, Typed, HandleOK, Live
<1>4. CASE OnRowset(odbc) \/ odbc.state = "need_data"
  <2>1. column_count = ACTIVE_NUM_COLS_INVALID \/ (OnRowset(odbc) /\ column_count = Head(odbc.batch).cols)
    BY <1>3, <1>4 DEF Safe, ColumnCountFresh, NothingTold, OnRowset
  <2>2. /\ OnRowset(odbc) => d.size = Head(odbc.batch).cols
        /\ odbc.state = "need_data" => d.size = 0
    BY <1>3, <1>4, <2>1, DescribedColumns
  <2> QED
    BY <1>1, <1>2, <2>2 DEF ColumnsKnown, WholeRow, NothingKept, OnRowset
<1>5. CASE ~OnRowset(odbc) /\ odbc.state # "need_data"
  BY <1>2, <1>5 DEF ColumnsKnown, WholeRow, NothingKept, OnRowset
<1> QED
  BY <1>4, <1>5

LEMMA NextColumns ==
  ASSUME TRUE \notin MetadataFails, IInv, IInv', Placed, ColumnsKnown, [Next]_vars
  PROVE  ColumnsKnown'
<1>0. Live(odbc)
  BY DEF IInv, TypeOK, Typed, HandleOK, Live
<1>1. ASSUME NEW c \in Confs, NEW p \in ParamKinds, sqlsrv_prepare(c, p) PROVE ColumnsKnown'
  <2>1. UNCHANGED <<fetch_fields_count, current_meta_data>> /\ odbc' = Idle /\ call'.fn = "sqlsrv_prepare"
    BY <1>1 DEF sqlsrv_prepare, caches, Return
  <2> QED
    BY <2>1, KeptColumns DEF Idle
<1>2. ASSUME NEW c \in Confs, NEW p \in ParamKinds, sqlsrv_query(c, p) PROVE ColumnsKnown'
  <2>1. CASE QueryFails(c, p)
    BY <2>1, ForgottenColumns DEF QueryFails, Gone, Return
  <2>2. CASE QuerySucceeds(c, p)
    <3>1. core_sqlsrv_execute(Idle, c, p, FALSE, "sqlsrv_query") /\ c \in AnyConf
      BY <2>2 DEF QuerySucceeds, AnyConf
    <3>2. /\ call'.fn = "sqlsrv_query"
          /\ \/ fetch_fields_count' = 0 /\ current_meta_data' = 0
             \/ odbc' = Idle /\ UNCHANGED <<fetch_fields_count, current_meta_data>>
      BY <3>1, IdleLive, ExecuteColumns
    <3> QED
      BY <3>2, ForgottenColumns, KeptColumns DEF Idle
  <2> QED
    BY <1>2, <2>1, <2>2 DEF sqlsrv_query
<1>3. CASE sqlsrv_execute
  <2>1. CASE BindAndExecute
    BY <2>1, BindAndExecuteColumns
  <2>2. CASE UNCHANGED <<odbc, caches>> /\ call'.fn = "sqlsrv_execute"
    BY <2>2, KeptColumns DEF caches
  <2> QED
    BY <1>3, <2>1, <2>2 DEF sqlsrv_execute, Return
<1>4. CASE FlushStep
  BY <1>4, BindAndExecuteColumns, CoreNextResultColumns DEF FlushStep
<1>5. CASE sqlsrv_next_result
  BY <1>5, CoreNextResultColumns DEF sqlsrv_next_result
<1>6. ASSUME NEW to \in Moves, sqlsrv_fetch(to) \/ sqlsrv_fetch_array(to) PROVE ColumnsKnown'
  BY <1>6, FetchColumns DEF sqlsrv_fetch, sqlsrv_fetch_array
<1>7. ASSUME NEW i \in 0 .. MaxCols - 1, sqlsrv_get_field(i) PROVE ColumnsKnown'
  <2>1. CASE Dies("sqlsrv_get_field")
    BY <2>1, ForgottenColumns DEF Dies, Gone, Return
  <2> QED
    BY <1>7, <2>1, GetFieldColumns DEF sqlsrv_get_field
<1>8. CASE sqlsrv_has_rows
  <2>1. UNCHANGED <<fetch_fields_count, current_meta_data>> /\ call'.fn = "sqlsrv_has_rows"
    BY <1>8 DEF sqlsrv_has_rows, caches, Return
  <2>2. odbc'.state = odbc.state /\ odbc'.batch = odbc.batch
    <3>1. UNCHANGED odbc \/ LooksAhead \/ LookThrows
      BY <1>8 DEF sqlsrv_has_rows
    <3> QED
      BY <3>1, LooksAheadType, LookThrowsType DEF IInv
  <2> QED
    BY <2>1, <2>2 DEF ColumnsKnown, WholeRow, NothingKept, OnRowset
<1>9. CASE HasRowsCrashes
  BY <1>9, ForgottenColumns DEF HasRowsCrashes, Crash, Gone, Return
<1>10. ASSUME NEW fn, fn # "sqlsrv_fetch_array", RowCount(fn) PROVE ColumnsKnown'
  <2>1. CASE Crash(fn)
    BY <1>10, <2>1, ForgottenColumns DEF Crash, Gone, Return
  <2>2. CASE UNCHANGED <<odbc, caches>> /\ call'.fn = fn
    BY <1>10, <2>2, KeptColumns DEF caches
  <2> QED
    BY <1>10, <2>1, <2>2 DEF RowCount, Return
<1>11. CASE sqlsrv_send_stream_data
  <2>1. UNCHANGED <<fetch_fields_count, current_meta_data>> /\ call'.fn = "sqlsrv_send_stream_data"
    BY <1>11 DEF sqlsrv_send_stream_data, caches, PacketFails, SendPacket, Return
  <2>2. CASE odbc' = odbc \/ odbc' = Idle
    BY <2>1, <2>2, KeptColumns DEF Idle
  <2>3. CASE odbc.state = "need_data"
    BY <2>1, <2>3, ForgottenColumns DEF ColumnsKnown, NothingKept
  <2>4. odbc' = odbc \/ odbc' = Idle \/ odbc.state = "need_data"
    <3>1. \A o \in SQLParamData(odbc) : o.r \in {SQL_NEED_DATA, SQL_SUCCESS} => odbc.state = "need_data"
      BY <1>0, ParamDataLive DEF SQL_ERROR, SQL_NEED_DATA, SQL_SUCCESS
    <3> QED
      BY <1>11, <3>1 DEF sqlsrv_send_stream_data, PacketFails, SendPacket, SQLCancel
  <2> QED
    BY <2>2, <2>3, <2>4
<1>12. CASE sqlsrv_cancel
  <2>1. UNCHANGED caches /\ (odbc' = odbc \/ odbc' = Idle) /\ call'.fn = "sqlsrv_cancel"
    BY <1>12 DEF sqlsrv_cancel, SQLCancel, Return
  <2> QED
    BY <2>1, KeptColumns DEF caches, Idle
<1>13. CASE sqlsrv_free_stmt
  BY <1>13, ForgottenColumns DEF sqlsrv_free_stmt, Gone, Return
<1>14. CASE UNCHANGED vars
  <2>1. UNCHANGED <<odbc, fetch_fields_count, current_meta_data, call>>
    BY <1>14 DEF vars, caches
  <2> QED
    BY <2>1 DEF ColumnsKnown, WholeRow, NothingKept, OnRowset
<1> QED
  BY <1>1, <1>2, <1>3, <1>4, <1>5, <1>6, <1>7, <1>8, <1>9, <1>10, <1>11, <1>12, <1>13, <1>14 DEF Next

(* sqlsrv_fetch_array returns every column of the row, as long as columns  *)
(* can be described: the names and the metadata that are kept are those of *)
(* the current result, never of an earlier one.                            *)
THEOREM WholeRowIsRead ==
  ASSUME TRUE \notin MetadataFails
  PROVE  Spec => []WholeRow
<1>1. Init => ColumnsKnown
  BY DEF Init, ColumnsKnown, WholeRow, NothingKept, Idle, OnRowset
<1>2. IInv /\ IInv' /\ Placed /\ ColumnsKnown /\ [Next]_vars => ColumnsKnown'
  BY NextColumns
<1>3. ColumnsKnown => WholeRow
  BY DEF ColumnsKnown
<1> QED
  BY <1>1, <1>2, <1>3, InductiveInvariant, AlwaysPlaced, PTL DEF Spec
=============================================================================
