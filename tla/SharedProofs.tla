---------------------------- MODULE SharedProofs ----------------------------
(***************************************************************************)
(* Proofs about state that several parties share: the transaction of a     *)
(* connection, which its statements work in (Transaction), the tokens that *)
(* the connections of a process hold (TokenCache), and the converters that *)
(* its threads take from one list (ConverterPool).                         *)
(***************************************************************************)
EXTENDS TransactionProperties, TokenCache, ConverterPool, FiniteSetTheorems, TLAPS

States == {"committed", "gone"}

LEMMA EndedWork ==
  ASSUME NEW d \in Connections, NEW s \in States
  PROVE  /\ Ended(d, s) \subseteq Works
         /\ \A w \in Ended(d, s) : w.state # "open"
         /\ \A w \in Ended(d, s) : w \in d.work \/ w.state = s
  BY DEF Ended, OpenWork, Connections, Works, States

(* What every function of the connection leaves as it was.                 *)
Kept(d, e) == /\ e \in Connections
              /\ e.autocommit = d.autocommit
              /\ e.sending \subseteq d.sending
              /\ e = d \/ OpenWork(e) = {}

LEMMA EndTran ==
  ASSUME NEW d \in Connections, NEW s \in States, NEW o \in SQLEndTran(d, s)
  PROVE  /\ o.r \in Results
         /\ Kept(d, o.dbc)
         /\ o.r = "ok" => OpenWork(o.dbc) = {} /\ d.sending = {} /\ o.dbc.sending = {}
         /\ o.r = "sequence" => o.dbc = d /\ ~Usable(d)
         /\ s = "gone" => \A w \in o.dbc.work : w.state = "committed" => w \in d.work
<1> DEFINE e(x) == Ended(d, x)
<1>1. \A x \in States : /\ e(x) \subseteq Works
                        /\ \A w \in e(x) : w.state # "open"
                        /\ \A w \in e(x) : w \in d.work \/ w.state = x
  BY EndedWork
<1>2. s \in States /\ "gone" \in States
  BY DEF States
<1> HIDE DEF e
<1>3. CASE o = Outcome("ok", [d EXCEPT !.work = e(s)]) /\ Usable(d)
  <2> DEFINE c == o.dbc
  <2>1. /\ o.r = "ok" /\ c.work = e(s) /\ d.sending = {} /\ c.sending = {}
        /\ c.autocommit = d.autocommit
        /\ c \in Connections
    BY <1>1, <1>2, <1>3 DEF Outcome, Connections, Usable
  <2>2. OpenWork(c) = {}
    BY <1>1, <1>2, <2>1 DEF OpenWork
  <2>3. s = "gone" => \A w \in c.work : w.state = "committed" => w \in d.work
    BY <1>1, <1>2, <2>1
  <2> QED
    BY <2>1, <2>2, <2>3 DEF Results, Kept
<1>4. CASE o.dbc = d /\ o.r = "error"
  BY <1>1, <1>2, <1>4 DEF Results, Kept
<1>5. CASE o.dbc = d /\ o.r = "sequence" /\ ~Usable(d)
  BY <1>5 DEF Results, Kept
<1>6. ASSUME NEW x \in {s, "gone"}, o.r = "error",
             o.dbc = [d EXCEPT !.alive = FALSE, !.sending = {}, !.work = e(x)]
      PROVE  /\ o.r \in Results /\ o.r = "error"
             /\ Kept(d, o.dbc)
             /\ s = "gone" => \A w \in o.dbc.work : w.state = "committed" => w \in d.work
  <2>1. x \in States
    BY <1>2
  <2> QED
    <3> DEFINE c == o.dbc
    <3>1. /\ c.work = e(x) /\ c.sending = {}
          /\ c.autocommit = d.autocommit
          /\ c \in Connections
      BY <1>1, <2>1, <1>6 DEF Connections
    <3>2. OpenWork(c) = {}
      BY <1>1, <2>1, <3>1 DEF OpenWork
    <3>3. s = "gone" => \A w \in c.work : w.state = "committed" => w \in d.work
      BY <1>1, <2>1, <3>1
    <3> QED
      BY <1>6, <3>1, <3>2, <3>3 DEF Results, Kept
<1>7. \/ o = Outcome("ok", [d EXCEPT !.work = e(s)]) /\ Usable(d)
      \/ o.dbc = d /\ o.r = "error"
      \/ o.dbc = d /\ o.r = "sequence" /\ ~Usable(d)
      \/ \E x \in {s, "gone"} :
           o.r = "error" /\ o.dbc = [d EXCEPT !.alive = FALSE, !.sending = {}, !.work = e(x)]
  BY DEF SQLEndTran, Outcome, Broken, e
<1> QED
  BY <1>3, <1>4, <1>5, <1>6, <1>7

(* Turning autocommit on ends what is open; turning it off ends nothing.   *)
LEMMA AutocommitOn ==
  ASSUME NEW d \in Connections, NEW o \in SQLSetConnectAttr(d, TRUE)
  PROVE  /\ o.r \in Results
         /\ o.dbc \in Connections /\ o.dbc.sending = d.sending /\ o.dbc.alive = d.alive
         /\ o.r # "ok" => o.dbc = d
         /\ o.r = "ok" => o.dbc.autocommit /\ OpenWork(o.dbc) = {} /\ d.sending = {}
         /\ OpenWork(d) = {} => o.dbc.work = d.work
<1> DEFINE e == Ended(d, "committed")
<1>1. /\ e \subseteq Works
      /\ \A w \in e : w.state # "open"
      /\ OpenWork(d) = {} => e = d.work
  BY EndedWork DEF States, Ended, OpenWork
<1> HIDE DEF e
<1>2. \/ o.r # "ok" /\ o.dbc = d /\ o.r \in Results
      \/ o.r = "ok" /\ d.sending = {} /\ o.dbc = [d EXCEPT !.autocommit = TRUE, !.work = e]
  BY DEF SQLSetConnectAttr, Outcome, Usable, Results, e
<1>3. CASE o.r # "ok" /\ o.dbc = d /\ o.r \in Results
  BY <1>3
<1>4. CASE o.r = "ok" /\ d.sending = {} /\ o.dbc = [d EXCEPT !.autocommit = TRUE, !.work = e]
  <2>1. /\ o.dbc.work = e /\ o.dbc.autocommit
        /\ o.dbc.sending = d.sending /\ o.dbc.alive = d.alive
        /\ o.dbc \in Connections
    BY <1>1, <1>4 DEF Connections
  <2> QED
    BY <1>1, <1>4, <2>1 DEF Results, OpenWork
<1> QED
  BY <1>2, <1>3, <1>4

LEMMA AutocommitOff ==
  ASSUME NEW d \in Connections, NEW o \in SQLSetConnectAttr(d, FALSE)
  PROVE  /\ o.r \in Results
         /\ o.dbc \in Connections /\ o.dbc.sending = d.sending /\ o.dbc.alive = d.alive
         /\ o.r # "ok" => o.dbc = d
         /\ o.r = "ok" => ~o.dbc.autocommit /\ d.sending = {}
         /\ o.dbc.work = d.work
<1>1. \/ o.r # "ok" /\ o.dbc = d /\ o.r \in Results
      \/ o.r = "ok" /\ d.sending = {} /\ o.dbc = [d EXCEPT !.autocommit = FALSE, !.work = d.work]
  BY DEF SQLSetConnectAttr, Outcome, Usable, Results
<1>2. CASE o.r # "ok" /\ o.dbc = d /\ o.r \in Results
  BY <1>2
<1>3. CASE /\ o.r = "ok" /\ d.sending = {}
           /\ o.dbc = [d EXCEPT !.autocommit = FALSE, !.work = d.work]
  BY <1>3 DEF Connections, Results
<1> QED
  BY <1>1, <1>2, <1>3

(* Ending a transaction through the core: when it succeeds nothing is open *)
(* and autocommit is on; when it fails and work stays open, it is the same *)
(* work in the same mode.                                                  *)
LEMMA EndReturn ==
  ASSUME NEW d \in Connections, NEW s \in States, NEW o \in EndAndReturn(d, s)
  PROVE  /\ o.r \in Results
         /\ o.dbc \in Connections /\ o.dbc.sending \subseteq d.sending
         /\ o.r = "ok" => OpenWork(o.dbc) = {} /\ o.dbc.autocommit /\ o.dbc.sending = {}
         /\ o.r # "ok" => /\ o.dbc.autocommit = d.autocommit
                          /\ OpenWork(o.dbc) = {} \/ o.dbc = d
         /\ s = "gone" => \A w \in o.dbc.work : w.state = "committed" => w \in d.work
<1>1. \/ o \in SQLEndTran(d, s) /\ o.r # "ok"
      \/ \E e \in SQLEndTran(d, s) : e.r = "ok" /\ o \in SQLSetConnectAttr(e.dbc, TRUE)
  BY DEF EndAndReturn, Succeeded
<1>2. CASE o \in SQLEndTran(d, s) /\ o.r # "ok"
  BY <1>2, EndTran DEF Kept
<1>3. ASSUME NEW e \in SQLEndTran(d, s), e.r = "ok", o \in SQLSetConnectAttr(e.dbc, TRUE)
      PROVE  /\ o.r \in Results
             /\ o.dbc \in Connections /\ o.dbc.sending \subseteq d.sending
             /\ o.r = "ok" => OpenWork(o.dbc) = {} /\ o.dbc.autocommit /\ o.dbc.sending = {}
             /\ o.r # "ok" => o.dbc.autocommit = d.autocommit /\ OpenWork(o.dbc) = {}
             /\ s = "gone" => \A w \in o.dbc.work : w.state = "committed" => w \in d.work
  <2>1. /\ e.dbc \in Connections /\ OpenWork(e.dbc) = {} /\ e.dbc.sending = {}
        /\ e.dbc.autocommit = d.autocommit
        /\ s = "gone" => \A w \in e.dbc.work : w.state = "committed" => w \in d.work
    BY <1>3, EndTran DEF Kept
  <2>2. /\ o.r \in Results
        /\ o.dbc \in Connections /\ o.dbc.sending = e.dbc.sending
        /\ o.r # "ok" => o.dbc = e.dbc
        /\ o.r = "ok" => o.dbc.autocommit /\ o.dbc.work = e.dbc.work
    BY <1>3, <2>1, AutocommitOn
  <2>3. o.dbc.work = e.dbc.work
    BY <2>2
  <2>4. OpenWork(o.dbc) = {}
    BY <2>1, <2>3 DEF OpenWork
  <2>5. s = "gone" => \A w \in o.dbc.work : w.state = "committed" => w \in d.work
    BY <2>1, <2>3
  <2>6. o.r # "ok" => o.dbc.autocommit = d.autocommit
    BY <2>1, <2>2
  <2>7. o.r = "ok" => o.dbc.autocommit /\ o.dbc.sending = {}
    BY <2>1, <2>2
  <2>8. o.dbc.sending \subseteq d.sending
    BY <2>1, <2>2
  <2> QED
    BY <2>2, <2>4, <2>5, <2>6, <2>7, <2>8
<1> QED
  BY <1>1, <1>2, <1>3

(* Executing a statement or sending its last packet adds work of its       *)
(* transaction, open only in manual-commit mode, or undoes what is open.   *)
Worked(d, n, e) == /\ e \in Connections
                   /\ e.autocommit = d.autocommit /\ e.alive = d.alive
                   /\ \A w \in OpenWork(e) : w \in OpenWork(d) \/ (~d.autocommit /\ w.txn = n)
                   /\ OpenWork(e) = {} \/ OpenWork(d) \subseteq OpenWork(e)
                   /\ OpenWork(e) = {} => \A w \in e.work : w.state = "committed" =>
                                             w \in d.work \/ d.autocommit

LEMMA DoneWork ==
  ASSUME NEW d \in Connections, NEW n \in Nat
  PROVE  Worked(d, n, Done(d, n)) /\ Done(d, n).sending = d.sending
<1> DEFINE new == [txn |-> n, state |-> IF d.autocommit THEN "committed" ELSE "open"]
<1>1. new \in Works /\ new.txn = n /\ (new.state = "open" <=> ~d.autocommit)
  BY DEF Works
<1> HIDE DEF new
<1> DEFINE e == [d EXCEPT !.work = d.work \cup {new}]
<1>2. /\ e.work = d.work \cup {new} /\ e.sending = d.sending
      /\ e.autocommit = d.autocommit /\ e.alive = d.alive
      /\ e \in Connections
  BY <1>1 DEF Connections
<1>3. Done(d, n) = e
  BY DEF Done, new
<1> HIDE DEF e
<1>4. Worked(d, n, e)
  BY <1>1, <1>2 DEF Worked, OpenWork
<1> QED
  BY <1>2, <1>3, <1>4

LEMMA UndoneWork ==
  ASSUME NEW d \in Connections, NEW n \in Nat
  PROVE  LET e == [d EXCEPT !.work = Ended(d, "gone")]
         IN  Worked(d, n, e) /\ e.sending = d.sending
<1> DEFINE g == Ended(d, "gone")
           e == [d EXCEPT !.work = g]
<1>1. /\ g \subseteq Works
      /\ \A w \in g : w.state # "open"
      /\ \A w \in g : w \in d.work \/ w.state = "gone"
  BY EndedWork DEF States
<1> HIDE DEF g
<1>2. /\ e.work = g /\ e.sending = d.sending
      /\ e.autocommit = d.autocommit /\ e.alive = d.alive
      /\ e \in Connections
  BY <1>1 DEF Connections
<1> HIDE DEF e
<1>3. OpenWork(e) = {}
  BY <1>1, <1>2 DEF OpenWork
<1>4. \A w \in e.work : w.state = "committed" => w \in d.work
  BY <1>1, <1>2
<1>5. Worked(d, n, e)
  BY <1>2, <1>3, <1>4 DEF Worked
<1> QED
  BY <1>2, <1>5 DEF e, g

LEMMA NotSendingType ==
  ASSUME NEW d \in Connections, NEW s
  PROVE  LET e == NotSending(d, s)
         IN  /\ e \in Connections /\ e.sending \subseteq d.sending
             /\ e.work = d.work /\ e.autocommit = d.autocommit /\ e.alive = d.alive
  BY DEF NotSending, Connections

LEMMA ExecWork ==
  ASSUME NEW d \in Connections, NEW s \in Stmts, NEW n \in Nat, NEW streams,
         NEW o \in SQLExecDirect(d, s, n, streams)
  PROVE  /\ o.r \in Results
         /\ Worked(d, n, o.dbc)
         /\ \A x \in o.dbc.sending : x \in d.sending \/ x.txn = n
         /\ streams = {} => o.dbc.sending \subseteq d.sending
         /\ ~d.alive => o.dbc = d
<1>0. Worked(d, n, d)
  BY DEF Worked, OpenWork
<1> DEFINE u == [d EXCEPT !.work = Ended(d, "gone")]
           q == [d EXCEPT !.sending = d.sending \cup { [stmt |-> s, txn |-> n] }]
<1>1. /\ o.r \in Results
      /\ ~d.alive => o.dbc = d
      /\ o.dbc = d \/ o.dbc = Done(d, n) \/ o.dbc = u \/ (o.dbc = q /\ streams # {})
  <2>1. \/ o = Outcome("sequence", d)
        \/ d.alive /\ o = Outcome("ok", Done(d, n))
        \/ d.alive /\ o = Outcome("error", d)
        \/ d.alive /\ o = Outcome("error", u)
        \/ d.alive /\ streams # {} /\ o = Outcome("ok", q)
    BY DEF SQLExecDirect
  <2> HIDE DEF u, q
  <2> QED
    BY <2>1 DEF Outcome, Results
<1>2. CASE o.dbc = u
  BY <1>1, <1>2, UndoneWork
<1>3. CASE o.dbc = q /\ streams # {}
  <2>1. /\ q.work = d.work /\ q.autocommit = d.autocommit /\ q.alive = d.alive
        /\ q.sending = d.sending \cup { [stmt |-> s, txn |-> n] }
        /\ q \in Connections
    BY DEF Connections
  <2> HIDE DEF q
  <2>2. Worked(d, n, q)
    BY <1>0, <2>1 DEF Worked, OpenWork
  <2> QED
    BY <1>1, <1>3, <2>1, <2>2
<1> QED
  BY <1>0, <1>1, <1>2, <1>3, DoneWork

LEMMA PutWork ==
  ASSUME NEW d \in Connections, NEW x \in d.sending, NEW o \in SQLPutData(d, x)
  PROVE  /\ o.r \in Results
         /\ Worked(d, x.txn, o.dbc)
         /\ o.dbc.sending \subseteq d.sending
         /\ ~d.alive => o.dbc = d
<1> DEFINE e == NotSending(d, x.stmt)
           u == [e EXCEPT !.work = Ended(e, "gone")]
<1>1. /\ e \in Connections /\ e.sending \subseteq d.sending
      /\ e.work = d.work /\ e.autocommit = d.autocommit /\ e.alive = d.alive
  BY NotSendingType
<1>2. x.txn \in Nat
  BY DEF Connections
<1>3. \A c : Worked(e, x.txn, c) => Worked(d, x.txn, c)
  BY <1>1 DEF Worked, OpenWork
<1>4. /\ o.r \in Results
      /\ ~d.alive => o.dbc = d
      /\ o.dbc = d \/ o.dbc = Done(e, x.txn) \/ o.dbc = e \/ o.dbc = u
  BY DEF SQLPutData, Outcome, Results
<1> HIDE DEF e
<1>5. Worked(e, x.txn, e) /\ Worked(d, x.txn, d)
  BY <1>1 DEF Worked, OpenWork
<1>6. Worked(e, x.txn, u) /\ u.sending = e.sending
  BY <1>1, <1>2, UndoneWork
<1>7. Worked(e, x.txn, Done(e, x.txn)) /\ Done(e, x.txn).sending = e.sending
  BY <1>1, <1>2, DoneWork
<1> HIDE DEF u
<1> QED
  BY <1>1, <1>3, <1>4, <1>5, <1>6, <1>7

LEMMA Closing ==
  ASSUME NEW d \in Connections, NEW o \in core_sqlsrv_close(d)
  PROVE  /\ o.r \in Results
         /\ o.dbc \in Connections
         /\ o.r # "error" /\ d.sending = {} /\ (~d.alive => OpenWork(d) = {})
              => ~o.dbc.connected /\ OpenWork(o.dbc) = {}
         /\ \A w \in o.dbc.work : w.state = "committed" => w \in d.work
<1>1. PICK e \in SQLEndTran(d, "gone") : o = Outcome(e.r, SQLDisconnect(e.dbc))
  BY DEF core_sqlsrv_close
<1>2. /\ e.r \in Results
      /\ e.dbc \in Connections
      /\ e.dbc = d \/ OpenWork(e.dbc) = {}
      /\ e.r = "ok" => OpenWork(e.dbc) = {}
      /\ e.r = "sequence" => e.dbc = d /\ ~Usable(d)
      /\ \A w \in e.dbc.work : w.state = "committed" => w \in d.work
  BY EndTran DEF Kept, States
<1> DEFINE c == e.dbc
<1>3. o.r = e.r /\ o.dbc = SQLDisconnect(c)
  BY <1>1 DEF Outcome
<1>4. /\ SQLDisconnect(c) \in Connections
      /\ SQLDisconnect(c).work = c.work
      /\ OpenWork(c) = {} => ~SQLDisconnect(c).connected
  BY <1>2 DEF SQLDisconnect, Connections
<1>5. OpenWork(SQLDisconnect(c)) = OpenWork(c)
  BY <1>4 DEF OpenWork
<1>6. o.r # "error" /\ d.sending = {} /\ (~d.alive => OpenWork(d) = {}) => OpenWork(c) = {}
  BY <1>2, <1>3 DEF Results, Usable
<1> QED
  BY <1>2, <1>3, <1>4, <1>5, <1>6

-----------------------------------------------------------------------------
(* The flag, the mode and the open work of a connection in use agree.      *)
Agreement ==
  /\ in_transaction => ~dbc.autocommit
  /\ ~in_transaction => dbc.autocommit \/ broken
  /\ dbc.autocommit => OpenWork(dbc) = {}
  /\ ~dbc.alive => OpenWork(dbc) = {}
  /\ ~broken => \A w \in OpenWork(dbc) : in_transaction /\ w.txn = txns
  /\ ~broken => \A x \in dbc.sending : x.txn = Current
  /\ api = "pdo_sqlsrv" => dbc.sending = {}

IInv == /\ TypeOK
        /\ ~closed => Agreement
        /\ EndedMeansEnded
        /\ ClosedClean

Step == IInv' /\ NoCommitUnasked

Functions == {"none", "link lost", "connect", "begin", "commit", "rollback", "query", "send",
              "free", "close"}

LEMMA Called ==
  ASSUME NEW fn \in Functions, NEW r \in Results \cup {"refused"}, Returns(fn, r)
  PROVE  call' \in Calls /\ call'.fn = fn /\ call'.r = r
<1>1. call' = [fn |-> fn, r |-> r]
  BY DEF Returns
<1> QED
  BY <1>1 DEF Calls, Functions

LEMMA NothingCommitted ==
  ASSUME dbc \in Connections, \A w \in dbc'.work : w.state = "committed" => w \in dbc.work
  PROVE  NoCommitUnasked
<1>1. ASSUME NEW w \in OpenWork(dbc), [w EXCEPT !.state = "committed"] \in dbc'.work \ dbc.work
      PROVE  FALSE
  <2>1. w \in Works
    BY DEF OpenWork, Connections
  <2>2. [w EXCEPT !.state = "committed"].state = "committed"
    BY <2>1 DEF Works
  <2> QED
    BY <1>1, <2>2
<1> QED
  BY <1>1 DEF NoCommitUnasked

LEMMA InitInv == Init => IInv
<1> SUFFICES ASSUME Init PROVE IInv
  OBVIOUS
<1>1. /\ dbc \in Connections /\ OpenWork(dbc) = {} /\ dbc.sending = {}
      /\ dbc.autocommit /\ dbc.alive
  BY DEF Init, Connected, Connections, OpenWork
<1>2. call \in Calls /\ call.fn = "connect"
  BY DEF Init, Calls, Results
<1>3. ~in_transaction /\ ~closed /\ api \in Apis
  BY DEF Init
<1>4. in_transaction \in BOOLEAN /\ closed \in BOOLEAN /\ broken \in BOOLEAN
  BY DEF Init
<1>5. TypeOK
  <2>1. txns \in 0 .. MaxTxns
    BY TransactionAssumption DEF Init
  <2> QED
    BY <1>1, <1>2, <1>3, <1>4, <2>1 DEF TypeOK
<1>6. Agreement
  BY <1>1, <1>3 DEF Agreement
<1>7. EndedMeansEnded /\ ClosedClean
  BY <1>2, <1>3 DEF EndedMeansEnded, ClosedClean
<1> QED
  BY <1>5, <1>6, <1>7 DEF IInv

LEMMA RefusedStep == IInv /\ (BeginRefused \/ EndRefused) => Step
<1> SUFFICES ASSUME IInv, BeginRefused \/ EndRefused PROVE Step
  OBVIOUS
<1>1. /\ UNCHANGED <<api, in_transaction, closed, dbc, txns, broken>>
      /\ ~closed
      /\ call'.r = "refused" /\ call' \in Calls
  <2>1. UNCHANGED <<api, in_transaction, closed, dbc, txns, broken>> /\ ~closed
    <3>1. CASE BeginRefused
      BY <3>1 DEF BeginRefused
    <3>2. CASE EndRefused
      BY <3>2 DEF EndRefused
    <3> QED
      BY <3>1, <3>2
  <2>2. CASE BeginRefused
    BY <2>2, Called DEF BeginRefused, Functions
  <2>3. CASE EndRefused
    BY <2>3, Called DEF EndRefused, Functions
  <2> QED
    BY <2>1, <2>2, <2>3
<1>2. TypeOK /\ Agreement
  BY <1>1 DEF IInv
<1>3. TypeOK'
  BY <1>1, <1>2 DEF TypeOK
<1>4. Agreement'
  BY <1>1, <1>2 DEF Agreement, OpenWork, Current
<1>5. EndedMeansEnded' /\ ClosedClean'
  BY <1>1 DEF EndedMeansEnded, ClosedClean
<1>6. NoCommitUnasked
  BY <1>1 DEF NoCommitUnasked
<1> QED
  BY <1>3, <1>4, <1>5, <1>6 DEF Step, IInv

LEMMA BeginStep == IInv /\ begin_transaction => Step
<1> SUFFICES ASSUME IInv, begin_transaction PROVE Step
  OBVIOUS
<1>1. TypeOK /\ Agreement /\ ~closed /\ ~in_transaction
  BY DEF IInv, begin_transaction
<1>2. PICK o \in SQLSetConnectAttr(dbc, FALSE) :
        /\ dbc' = o.dbc
        /\ in_transaction' = Succeeded(o)
        /\ txns' = IF Succeeded(o) THEN txns + 1 ELSE txns
        /\ Returns("begin", o.r)
  BY DEF begin_transaction, core_sqlsrv_begin_transaction
<1>3. /\ o.r \in Results
      /\ dbc' \in Connections /\ dbc'.sending = dbc.sending /\ dbc'.alive = dbc.alive
      /\ o.r # "ok" => dbc' = dbc
      /\ o.r = "ok" => ~dbc'.autocommit /\ dbc.sending = {}
      /\ dbc'.work = dbc.work
  BY <1>1, <1>2, AutocommitOff DEF TypeOK
<1>4. OpenWork(dbc)' = OpenWork(dbc) /\ OpenWork(dbc') = OpenWork(dbc)
  BY <1>3 DEF OpenWork
<1>5. api' = api /\ closed' = closed /\ broken' = broken /\ txns < MaxTxns
  BY <1>1 DEF begin_transaction
<1>6. call' \in Calls /\ call'.fn = "begin"
  BY <1>2, <1>3 DEF Returns, Calls
<1>7. txns' \in 0 .. MaxTxns /\ in_transaction' \in BOOLEAN
  <2>1. txns \in Nat /\ MaxTxns \in Nat /\ txns + 1 <= MaxTxns /\ txns \in 0 .. MaxTxns
    BY <1>1, <1>5, TransactionAssumption DEF TypeOK
  <2>2. txns' = txns \/ txns' = txns + 1
    BY <1>2
  <2>3. txns' \in 0 .. MaxTxns
    BY <2>1, <2>2
  <2>4. in_transaction' \in BOOLEAN
    BY <1>2 DEF Succeeded
  <2> QED
    BY <2>3, <2>4
<1>8. TypeOK'
  BY <1>1, <1>3, <1>5, <1>6, <1>7 DEF TypeOK
<1>9. Agreement'
  <2>1. CASE o.r = "ok"
    <3>1. in_transaction' /\ ~dbc'.autocommit /\ dbc'.sending = {}
      BY <1>2, <1>3, <2>1 DEF Succeeded
    <3>2. ~broken => OpenWork(dbc) = {}
      BY <1>1 DEF Agreement
    <3> QED
      BY <1>1, <1>3, <1>4, <1>5, <3>1, <3>2 DEF Agreement, Current
  <2>2. CASE o.r # "ok"
    <3>1. ~in_transaction' /\ dbc' = dbc /\ txns' = txns
      BY <1>2, <1>3, <2>2 DEF Succeeded
    <3> QED
      BY <1>1, <1>4, <1>5, <3>1 DEF Agreement, Current
  <2> QED
    BY <2>1, <2>2
<1>10. EndedMeansEnded' /\ ClosedClean' /\ NoCommitUnasked
  BY <1>1, <1>4, <1>5, <1>6 DEF EndedMeansEnded, ClosedClean, NoCommitUnasked
<1> QED
  BY <1>5, <1>8, <1>9, <1>10 DEF Step, IInv

(* Either extension ends its transaction: if it worked nothing is open; if *)
(* not, PDO is in the same transaction still, and sqlsrv has broken.       *)
LEMMA Ending ==
  ASSUME IInv, ~closed, in_transaction, TypeOK', UNCHANGED <<api, closed, txns>>,
         NEW fn \in {"commit", "rollback"}, NEW s \in States, s = "gone" \/ fn = "commit",
         NEW o \in EndAndReturn(dbc, s), dbc' = o.dbc, Returns(fn, o.r),
         o.r = "ok" => ~in_transaction',
         o.r # "ok" => (in_transaction' /\ (~broken' => ~broken)) \/ (~in_transaction' /\ broken'),
         ~broken' => ~broken
  PROVE  Step
<1>1. TypeOK /\ Agreement
  BY DEF IInv
<1>2. /\ o.r \in Results
      /\ dbc'.sending \subseteq dbc.sending
      /\ o.r = "ok" => OpenWork(dbc') = {} /\ dbc'.autocommit /\ dbc'.sending = {}
      /\ o.r # "ok" => dbc'.autocommit = dbc.autocommit /\ (OpenWork(dbc') = {} \/ dbc' = dbc)
      /\ s = "gone" => \A w \in dbc'.work : w.state = "committed" => w \in dbc.work
  BY <1>1, EndReturn DEF TypeOK
<1>3. call'.fn = fn /\ call'.r = o.r
  BY <1>2, Called DEF Functions
<1>4. ASSUME o.r = "ok" PROVE Agreement' /\ EndedMeansEnded'
  <2>1. Agreement'
    BY <1>2, <1>4 DEF Agreement
  <2>2. EndedMeansEnded'
    BY <1>2, <1>4 DEF EndedMeansEnded
  <2> QED
    BY <2>1, <2>2
<1>5. ASSUME o.r # "ok" PROVE Agreement' /\ EndedMeansEnded'
  <2>1. /\ ~dbc.autocommit /\ ~dbc'.autocommit
        /\ OpenWork(dbc') = {} \/ (OpenWork(dbc') = OpenWork(dbc) /\ dbc'.alive = dbc.alive)
    BY <1>1, <1>2, <1>5 DEF Agreement
  <2>2. Agreement'
    <3>1. CASE broken'
      BY <1>1, <1>2, <2>1, <3>1 DEF Agreement
    <3>2. CASE ~broken'
      <4>1. in_transaction' /\ ~broken
        BY <1>5, <3>2
      <4>2. /\ \A w \in OpenWork(dbc) : w.txn = txns
            /\ \A x \in dbc.sending : x.txn = txns
            /\ api = "pdo_sqlsrv" => dbc.sending = {}
            /\ ~dbc.alive => OpenWork(dbc) = {}
        BY <1>1, <4>1 DEF Agreement, Current
      <4> QED
        BY <1>2, <2>1, <4>1, <4>2 DEF Agreement, Current
    <3> QED
      BY <3>1, <3>2
  <2>3. EndedMeansEnded'
    BY <1>3, <1>5 DEF EndedMeansEnded
  <2> QED
    BY <2>2, <2>3
<1>6. ClosedClean'
  BY DEF ClosedClean
<1>7. NoCommitUnasked
  <2>1. CASE fn = "commit"
    BY <1>3, <2>1 DEF NoCommitUnasked
  <2>2. CASE s = "gone"
    BY <1>1, <1>2, <2>2, NothingCommitted DEF TypeOK
  <2> QED
    BY <2>1, <2>2
<1> QED
  BY <1>4, <1>5, <1>6, <1>7 DEF Step, IInv

LEMMA SqlsrvEndStep == IInv /\ (sqlsrv_commit \/ sqlsrv_rollback) => Step
<1>1. ASSUME IInv, NEW fn \in {"commit", "rollback"}, NEW s \in States, s = "gone" \/ fn = "commit",
             SqlsrvEnds(fn, EndAndReturn(dbc, s))
      PROVE  Step
  <2>1. PICK o \in EndAndReturn(dbc, s) : /\ dbc' = o.dbc
                                          /\ broken' = (broken \/ ~Succeeded(o))
                                          /\ Returns(fn, o.r)
    BY <1>1 DEF SqlsrvEnds
  <2>2. ~closed /\ in_transaction /\ UNCHANGED <<api, closed, txns>> /\ TypeOK
    BY <1>1 DEF SqlsrvEnds, IInv
  <2>3. ~in_transaction' /\ in_transaction' \in BOOLEAN /\ broken' \in BOOLEAN
    BY <1>1, <2>1 DEF SqlsrvEnds
  <2>4. (~broken' => ~broken) /\ (o.r # "ok" => broken')
    BY <2>1 DEF Succeeded
  <2>5. dbc' \in Connections /\ o.r \in Results
    BY <2>1, <2>2, EndReturn DEF TypeOK
  <2>6. call' \in Calls
    BY <2>1, <2>5, Called DEF Functions
  <2>7. TypeOK'
    BY <2>2, <2>3, <2>5, <2>6 DEF TypeOK
  <2> QED
    BY <1>1, <2>1, <2>2, <2>3, <2>4, <2>7, Ending
<1>2. ASSUME IInv, sqlsrv_commit PROVE Step
  BY <1>1, <1>2 DEF sqlsrv_commit, core_sqlsrv_commit, States
<1>3. ASSUME IInv, sqlsrv_rollback PROVE Step
  BY <1>1, <1>3 DEF sqlsrv_rollback, core_sqlsrv_rollback, States
<1> QED
  BY <1>2, <1>3

LEMMA PdoEndStep == IInv /\ (pdo_sqlsrv_dbh_commit \/ pdo_sqlsrv_dbh_rollback) => Step
<1>1. ASSUME IInv, NEW fn \in {"commit", "rollback"}, NEW s \in States, s = "gone" \/ fn = "commit",
             PdoEnds(fn, EndAndReturn(dbc, s))
      PROVE  Step
  <2>1. PICK o \in EndAndReturn(dbc, s) : /\ dbc' = o.dbc
                                          /\ in_transaction' = ~Succeeded(o)
                                          /\ Returns(fn, o.r)
    BY <1>1 DEF PdoEnds
  <2>2. ~closed /\ in_transaction /\ UNCHANGED <<api, closed, txns, broken>> /\ TypeOK
    BY <1>1 DEF PdoEnds, IInv
  <2>3. /\ in_transaction' \in BOOLEAN
        /\ o.r = "ok" => ~in_transaction'
        /\ o.r # "ok" => in_transaction'
    BY <2>1 DEF Succeeded
  <2>4. ~broken' => ~broken
    BY <2>2
  <2>5. dbc' \in Connections /\ o.r \in Results
    BY <2>1, <2>2, EndReturn DEF TypeOK
  <2>6. call' \in Calls
    BY <2>1, <2>5, Called DEF Functions
  <2>7. TypeOK'
    BY <2>2, <2>3, <2>5, <2>6 DEF TypeOK
  <2> QED
    BY <1>1, <2>1, <2>2, <2>3, <2>4, <2>7, Ending
<1>2. ASSUME IInv, pdo_sqlsrv_dbh_commit PROVE Step
  BY <1>1, <1>2 DEF pdo_sqlsrv_dbh_commit, core_sqlsrv_commit, States
<1>3. ASSUME IInv, pdo_sqlsrv_dbh_rollback PROVE Step
  BY <1>1, <1>3 DEF pdo_sqlsrv_dbh_rollback, core_sqlsrv_rollback, States
<1> QED
  BY <1>2, <1>3

(* A statement does work of the current transaction.                       *)
LEMMA Working ==
  ASSUME IInv, ~closed, UNCHANGED <<api, in_transaction, closed, txns, broken>>,
         NEW n, ~broken => n = Current, Worked(dbc, n, dbc'), ~dbc.alive => dbc' = dbc,
         \A x \in dbc'.sending : x \in dbc.sending \/ x.txn = n,
         api = "pdo_sqlsrv" => dbc'.sending \subseteq dbc.sending,
         call' \in Calls, call'.fn \notin {"commit", "rollback"}
  PROVE  Step
<1>1. TypeOK /\ Agreement
  BY DEF IInv
<1>2. TypeOK'
  BY <1>1 DEF TypeOK, Worked
<1>3. /\ dbc'.autocommit = dbc.autocommit /\ dbc'.alive = dbc.alive
      /\ \A w \in OpenWork(dbc') : w \in OpenWork(dbc) \/ (~dbc.autocommit /\ w.txn = n)
      /\ OpenWork(dbc') = {} \/ OpenWork(dbc) \subseteq OpenWork(dbc')
      /\ OpenWork(dbc') = {} => \A w \in dbc'.work : w.state = "committed" =>
                                   w \in dbc.work \/ dbc.autocommit
  BY DEF Worked
<1>4. dbc'.autocommit => OpenWork(dbc') = {}
  BY <1>1, <1>3 DEF Agreement
<1>5. ~dbc'.alive => OpenWork(dbc') = {}
  BY <1>1, <1>3 DEF Agreement
<1>6. ~broken => \A w \in OpenWork(dbc') : in_transaction /\ w.txn = txns
  BY <1>1, <1>3 DEF Agreement, Current
<1>7. ~broken => \A x \in dbc'.sending : x.txn = Current
  BY <1>1 DEF Agreement
<1>8. api = "pdo_sqlsrv" => dbc'.sending = {}
  BY <1>1 DEF Agreement
<1>9. Agreement'
  BY <1>1, <1>3, <1>4, <1>5, <1>6, <1>7, <1>8 DEF Agreement, Current
<1>10. NoCommitUnasked
  <2>1. CASE OpenWork(dbc) \subseteq OpenWork(dbc')
    BY <2>1 DEF NoCommitUnasked
  <2>2. CASE OpenWork(dbc) = {}
    BY <2>2 DEF NoCommitUnasked
  <2>3. CASE OpenWork(dbc') = {} /\ ~dbc.autocommit
    <3>1. dbc \in Connections
      BY <1>1 DEF TypeOK
    <3>2. \A w \in dbc'.work : w.state = "committed" => w \in dbc.work
      BY <1>3, <2>3
    <3> QED
      BY <3>1, <3>2, NothingCommitted
  <2>4. dbc.autocommit => OpenWork(dbc) = {}
    BY <1>1 DEF Agreement
  <2> QED
    BY <1>3, <2>1, <2>2, <2>3, <2>4
<1>11. EndedMeansEnded' /\ ClosedClean'
  BY DEF EndedMeansEnded, ClosedClean
<1> QED
  BY <1>2, <1>9, <1>10, <1>11 DEF Step, IInv

LEMMA ExecuteStep == IInv /\ Execute => Step
<1> SUFFICES ASSUME IInv, Execute PROVE Step
  OBVIOUS
<1>1. ~closed /\ UNCHANGED <<api, in_transaction, closed, txns, broken>>
  BY DEF Execute
<1>2. TypeOK /\ Agreement
  BY <1>1 DEF IInv
<1> DEFINE streams == IF api = "sqlsrv" THEN Streams ELSE {}
<1>0. PICK s \in Stmts : \E o \in SQLExecDirect(dbc, s, Current, streams) :
        dbc' = o.dbc /\ Returns("query", o.r)
  BY DEF Execute
<1>3. PICK o \in SQLExecDirect(dbc, s, Current, streams) : dbc' = o.dbc /\ Returns("query", o.r)
  BY <1>0
<1>4. Current \in Nat
  BY <1>2, TransactionAssumption DEF TypeOK, Current
<1>5. api = "pdo_sqlsrv" => streams = {}
  OBVIOUS
<1> HIDE DEF streams
<1>6. /\ o.r \in Results
      /\ Worked(dbc, Current, dbc')
      /\ \A x \in dbc'.sending : x \in dbc.sending \/ x.txn = Current
      /\ streams = {} => dbc'.sending \subseteq dbc.sending
      /\ ~dbc.alive => dbc' = dbc
  BY <1>2, <1>3, <1>4, ExecWork DEF TypeOK
<1>7. call' \in Calls /\ call'.fn = "query"
  BY <1>3, <1>6, Called DEF Functions
<1> QED
  BY <1>1, <1>5, <1>6, <1>7, Working

LEMMA SendStep == IInv /\ SendStreamData => Step
<1> SUFFICES ASSUME IInv, SendStreamData PROVE Step
  OBVIOUS
<1>1. ~closed /\ UNCHANGED <<api, in_transaction, closed, txns, broken>>
  BY DEF SendStreamData
<1>2. TypeOK /\ Agreement
  BY <1>1 DEF IInv
<1>0. PICK x \in dbc.sending : \E o \in SQLPutData(dbc, x) : dbc' = o.dbc /\ Returns("send", o.r)
  BY DEF SendStreamData
<1>3. PICK o \in SQLPutData(dbc, x) : dbc' = o.dbc /\ Returns("send", o.r)
  BY <1>0
<1>4. ~broken => x.txn = Current
  BY <1>2 DEF Agreement
<1>5. /\ o.r \in Results
      /\ Worked(dbc, x.txn, dbc')
      /\ dbc'.sending \subseteq dbc.sending
      /\ ~dbc.alive => dbc' = dbc
  BY <1>2, <1>3, PutWork DEF TypeOK
<1>6. call' \in Calls /\ call'.fn = "send"
  BY <1>3, <1>5, Called DEF Functions
<1> QED
  BY <1>1, <1>4, <1>5, <1>6, Working

LEMMA GiveUpStep == IInv /\ GiveUpStatement => Step
<1> SUFFICES ASSUME IInv, GiveUpStatement PROVE Step
  OBVIOUS
<1>1. ~closed /\ UNCHANGED <<api, in_transaction, closed, txns, broken>>
  BY DEF GiveUpStatement
<1>2. TypeOK /\ Agreement
  BY <1>1 DEF IInv
<1>3. PICK x \in dbc.sending : dbc' = NotSending(dbc, x.stmt)
  BY DEF GiveUpStatement
<1>4. /\ dbc' \in Connections /\ dbc'.sending \subseteq dbc.sending
      /\ dbc'.work = dbc.work /\ dbc'.autocommit = dbc.autocommit /\ dbc'.alive = dbc.alive
  BY <1>2, <1>3, NotSendingType DEF TypeOK
<1>5. call' \in Calls /\ call'.fn = "free"
  BY Called DEF GiveUpStatement, Functions, Results
<1>6. TypeOK'
  BY <1>1, <1>2, <1>4, <1>5 DEF TypeOK
<1>7. OpenWork(dbc') = OpenWork(dbc)
  BY <1>4 DEF OpenWork
<1>8. Agreement'
  BY <1>1, <1>2, <1>4, <1>7 DEF Agreement, Current
<1>9. EndedMeansEnded' /\ ClosedClean' /\ NoCommitUnasked
  BY <1>1, <1>5, <1>7 DEF EndedMeansEnded, ClosedClean, NoCommitUnasked
<1> QED
  BY <1>6, <1>8, <1>9 DEF Step, IInv

LEMMA LinkLostStep == IInv /\ LinkLost => Step
<1> SUFFICES ASSUME IInv, LinkLost PROVE Step
  OBVIOUS
<1>1. ~closed /\ UNCHANGED <<api, in_transaction, closed, txns, broken>>
  BY DEF LinkLost
<1>2. TypeOK /\ Agreement
  BY <1>1 DEF IInv
<1> DEFINE g == Ended(dbc, "gone")
<1>3. /\ g \subseteq Works
      /\ \A w \in g : w.state # "open"
      /\ \A w \in g : w \in dbc.work \/ w.state = "gone"
  BY <1>2, EndedWork DEF States, TypeOK
<1>4. dbc' = [dbc EXCEPT !.alive = FALSE, !.sending = {}, !.work = g]
  BY DEF LinkLost, Broken
<1> HIDE DEF g
<1>5. /\ dbc'.work = g /\ dbc'.sending = {} /\ dbc'.autocommit = dbc.autocommit
      /\ dbc' \in Connections
  BY <1>2, <1>3, <1>4 DEF TypeOK, Connections
<1>6. OpenWork(dbc') = {}
  BY <1>3, <1>5 DEF OpenWork
<1>7. call' \in Calls /\ call'.fn = "link lost"
  BY Called DEF LinkLost, Functions, Results
<1>8. TypeOK'
  BY <1>1, <1>2, <1>5, <1>7 DEF TypeOK
<1>9. Agreement'
  BY <1>1, <1>2, <1>5, <1>6 DEF Agreement
<1>10. \A w \in dbc'.work : w.state = "committed" => w \in dbc.work
  BY <1>3, <1>5
<1>11. NoCommitUnasked
  BY <1>2, <1>10, NothingCommitted DEF TypeOK
<1>12. EndedMeansEnded' /\ ClosedClean'
  BY <1>1, <1>7 DEF EndedMeansEnded, ClosedClean
<1> QED
  BY <1>8, <1>9, <1>11, <1>12 DEF Step, IInv

(* The statements are gone before the rollback of a close, so it can only  *)
(* fail on a dead link, where nothing is open, or for reasons of its own.  *)
LEMMA SqlsrvCloseStep == IInv /\ sqlsrv_close => Step
<1> SUFFICES ASSUME IInv, sqlsrv_close PROVE Step
  OBVIOUS
<1>1. ~closed /\ closed' = TRUE /\ UNCHANGED <<api, in_transaction, txns, broken>>
  BY DEF sqlsrv_close
<1>2. TypeOK /\ Agreement
  BY <1>1 DEF IInv
<1> DEFINE d == sqlsrv_conn_close_stmts(dbc)
<1>3. PICK o \in core_sqlsrv_close(d) : dbc' = o.dbc /\ Returns("close", o.r)
  BY DEF sqlsrv_close
<1>4. /\ d \in Connections /\ d.sending = {} /\ d.work = dbc.work /\ d.alive = dbc.alive
  BY <1>2 DEF sqlsrv_conn_close_stmts, TypeOK, Connections
<1> HIDE DEF d
<1>5. ~d.alive => OpenWork(d) = {}
  BY <1>2, <1>4 DEF Agreement, OpenWork
<1>6. /\ o.r \in Results /\ dbc' \in Connections
      /\ o.r # "error" => ~dbc'.connected /\ OpenWork(dbc') = {}
      /\ \A w \in dbc'.work : w.state = "committed" => w \in dbc.work
  BY <1>3, <1>4, <1>5, Closing
<1>7. call' \in Calls /\ call'.fn = "close" /\ call'.r = o.r
  BY <1>3, <1>6, Called DEF Functions
<1>8. TypeOK'
  BY <1>1, <1>2, <1>6, <1>7 DEF TypeOK
<1>9. EndedMeansEnded' /\ ClosedClean'
  BY <1>6, <1>7 DEF EndedMeansEnded, ClosedClean
<1>10. NoCommitUnasked
  BY <1>2, <1>6, NothingCommitted DEF TypeOK
<1> QED
  BY <1>1, <1>8, <1>9, <1>10 DEF Step, IInv

LEMMA PdoCloseStep == IInv /\ pdo_sqlsrv_dbh_close => Step
<1> SUFFICES ASSUME IInv, pdo_sqlsrv_dbh_close PROVE Step
  OBVIOUS
<1>1. /\ ~closed /\ closed' = TRUE /\ in_transaction' = FALSE /\ UNCHANGED <<api, txns, broken>>
      /\ api = "pdo_sqlsrv"
  BY DEF pdo_sqlsrv_dbh_close
<1>2. TypeOK /\ Agreement
  BY <1>1 DEF IInv
<1>0. PICK first \in IF in_transaction THEN EndAndReturn(dbc, "gone") ELSE { Outcome("ok", dbc) } :
        \E o \in core_sqlsrv_close(first.dbc) : dbc' = o.dbc /\ Returns("close", o.r)
  BY DEF pdo_sqlsrv_dbh_close, core_sqlsrv_rollback
<1>3. PICK o \in core_sqlsrv_close(first.dbc) : dbc' = o.dbc /\ Returns("close", o.r)
  BY <1>0
<1>4. dbc.sending = {} /\ dbc \in Connections /\ (~dbc.alive => OpenWork(dbc) = {})
  BY <1>1, <1>2 DEF Agreement, TypeOK
<1> DEFINE d == first.dbc
<1>5. /\ d \in Connections /\ d.sending = {}
      /\ d = dbc \/ OpenWork(d) = {}
      /\ \A w \in d.work : w.state = "committed" => w \in dbc.work
  <2>1. CASE in_transaction
    <3>1. first \in EndAndReturn(dbc, "gone")
      BY <1>0, <2>1
    <3>2. /\ first.r = "ok" => OpenWork(d) = {}
          /\ first.r # "ok" => OpenWork(d) = {} \/ d = dbc
          /\ d \in Connections /\ d.sending \subseteq dbc.sending
          /\ \A w \in d.work : w.state = "committed" => w \in dbc.work
      BY <1>4, <3>1, EndReturn DEF States
    <3> QED
      BY <1>4, <3>2
  <2>2. CASE ~in_transaction
    BY <1>0, <1>4, <2>2 DEF Outcome
  <2> QED
    BY <2>1, <2>2
<1>6. ~d.alive => OpenWork(d) = {}
  BY <1>4, <1>5
<1> HIDE DEF d
<1>7. o \in core_sqlsrv_close(d)
  BY <1>3 DEF d
<1>8. /\ o.r \in Results /\ dbc' \in Connections
      /\ o.r # "error" => ~dbc'.connected /\ OpenWork(dbc') = {}
      /\ \A w \in dbc'.work : w.state = "committed" => w \in dbc.work
  BY <1>3, <1>5, <1>6, <1>7, Closing
<1>9. call' \in Calls /\ call'.fn = "close" /\ call'.r = o.r
  BY <1>3, <1>8, Called DEF Functions
<1>10. TypeOK'
  BY <1>1, <1>2, <1>8, <1>9 DEF TypeOK
<1>11. EndedMeansEnded' /\ ClosedClean'
  BY <1>8, <1>9 DEF EndedMeansEnded, ClosedClean
<1>12. NoCommitUnasked
  BY <1>4, <1>8, NothingCommitted
<1> QED
  BY <1>1, <1>10, <1>11, <1>12 DEF Step, IInv
-----------------------------------------------------------------------------
LEMMA NextStep == IInv /\ [Next]_vars => IInv' /\ [NoCommitUnasked]_vars
<1>1. CASE Next
  BY <1>1, RefusedStep, BeginStep, SqlsrvEndStep, PdoEndStep, ExecuteStep, SendStep, GiveUpStep,
     SqlsrvCloseStep, PdoCloseStep, LinkLostStep DEF Next, Step
<1>2. ASSUME IInv, UNCHANGED vars PROVE IInv'
  <2>1. /\ api' = api /\ in_transaction' = in_transaction /\ closed' = closed /\ dbc' = dbc
        /\ txns' = txns /\ broken' = broken /\ call' = call
    BY <1>2 DEF vars
  <2>2. OpenWork(dbc)' = OpenWork(dbc)
    BY <2>1 DEF OpenWork
  <2>3. TypeOK'
    BY <1>2, <2>1 DEF IInv, TypeOK
  <2>4. ~closed' => Agreement'
    BY <1>2, <2>1, <2>2 DEF IInv, Agreement, Current
  <2>5. EndedMeansEnded'
    BY <1>2, <2>1, <2>2 DEF IInv, EndedMeansEnded
  <2>6. ClosedClean'
    BY <1>2, <2>1, <2>2 DEF IInv, ClosedClean
  <2> QED
    BY <2>3, <2>4, <2>5, <2>6 DEF IInv
<1> QED
  BY <1>1, <1>2

LEMMA Inductive == Spec => []IInv
<1>1. Init => IInv
  BY InitInv
<1>2. IInv /\ [Next]_vars => IInv'
  BY NextStep
<1> QED
  BY <1>1, <1>2, PTL DEF Spec

(* The connection keeps its types through every transaction call of both   *)
(* extensions, whatever fails.                                             *)
THEOREM TypeCorrect == Spec => []TypeOK
<1>1. IInv => TypeOK
  BY DEF IInv
<1> QED
  BY Inductive, <1>1, PTL

(* The flag of either extension follows the mode of the ODBC connection.   *)
THEOREM FlagFollowsMode == Spec => []ModeFollowsFlag
<1>1. IInv => ModeFollowsFlag
  BY DEF IInv, Agreement, ModeFollowsFlag
<1> QED
  BY Inductive, <1>1, PTL

(* No work of an earlier transaction, or of none, stays open unless a      *)
(* commit or rollback of sqlsrv failed.                                    *)
THEOREM OnlyCurrentWorkIsOpen == Spec => []OpenWorkIsCurrent
<1>1. IInv => OpenWorkIsCurrent
  BY DEF IInv, Agreement, OpenWorkIsCurrent
<1> QED
  BY Inductive, <1>1, PTL

(* A commit or rollback that returned true ended the transaction.          *)
THEOREM EndsForSure == Spec => []EndedMeansEnded
<1>1. IInv => EndedMeansEnded
  BY DEF IInv
<1> QED
  BY Inductive, <1>1, PTL

(* A close leaves no transaction behind.                                   *)
THEOREM ClosesClean == Spec => []ClosedClean
<1>1. IInv => ClosedClean
  BY DEF IInv
<1> QED
  BY Inductive, <1>1, PTL

(* Work done in a transaction is committed by sqlsrv_commit or PDO::commit *)
(* and by nothing else.                                                    *)
THEOREM CommitsOnlyOnRequest == Spec => CommittedOnlyOnRequest
<1>1. IInv /\ [Next]_vars => [NoCommitUnasked]_vars
  BY NextStep
<1> QED
  BY Inductive, <1>1, PTL DEF Spec, CommittedOnlyOnRequest

-----------------------------------------------------------------------------
(***************************************************************************)
(* TokenCache.                                                             *)
(***************************************************************************)
Active(c) == ~Is(c, "none")

(* One entry for each content and each allocation, none from the future.   *)
CacheOK == /\ \A e, f \in cache : e.token = f.token \/ e.alloc = f.alloc => e = f
           /\ \A e \in cache : e.alloc < next /\ e.last_used <= now

(* What a connection holds was allocated for its token.                    *)
HolderOK(c) == Active(c) => /\ conns[c].holds < next
                            /\ \A e \in cache : e.alloc = conns[c].holds => e.token = conns[c].token

(* The entry of allocation p, used at time t or later.                     *)
UsedSince(p, t) == \E e \in cache : e.alloc = p /\ t <= e.last_used

(* While a connection closes, the touch at its start is recent enough.     *)
CloseOK(c) == Is(c, "closing") => /\ now <= conns[c].since + MaxDisconnect
                                  /\ conns[c].found => UsedSince(conns[c].driver, conns[c].since)

(* A physical connection entered the pool within a disconnect of a touch.  *)
PooledOK(p) == /\ now <= p.since + CPTimeout
               /\ p.found => \E t \in Nat : p.since <= t + MaxDisconnect /\ UsedSince(p.driver, t)

ConnsOK == \A c \in Conns : HolderOK(c) /\ CloseOK(c)
PoolOK  == \A p \in pool : PooledOK(p)

TokenInv == TokenTypeOK /\ CacheOK /\ ConnsOK /\ PoolOK

(* What a lookup and a touch do to the cache while time stands still.      *)
CacheStep == /\ now' = now /\ next' \in Nat /\ next <= next'
             /\ \A e \in cache' : (\E f \in cache : f.alloc = e.alloc /\ f.token = e.token) \/ e.alloc = next
             /\ \A q, t \in Nat : UsedSince(q, t) /\ now <= t + token_cache_ttl =>
                                    \E e \in cache' : e.alloc = q /\ t <= e.last_used

LEMMA TTL == token_cache_ttl \in Nat /\ CPTimeout + MaxDisconnect <= token_cache_ttl
  BY TokenCacheAssumption DEF token_cache_ttl

(* What token_cache_get returns and leaves in the cache.                   *)
LEMMA Get ==
  ASSUME TokenTypeOK, CacheOK, NEW token \in Tokens, NEW p \in 0 .. next, token_cache_get(token, p)
  PROVE  /\ cache' \subseteq Entries /\ next' \in Nat /\ next <= next' /\ p \in Nat /\ p < next'
         /\ \A e, f \in cache' : e.token = f.token \/ e.alloc = f.alloc => e = f
         /\ \A e \in cache' : e.alloc < next' /\ e.last_used <= now
         /\ \A e \in cache' : e.alloc = p => e.token = token
         /\ \A e \in cache' : (\E f \in cache : f.alloc = e.alloc /\ f.token = e.token) \/ e.alloc = next
         /\ \A e \in cache : now <= e.last_used + token_cache_ttl =>
              \E f \in cache' : f.alloc = e.alloc /\ e.last_used <= f.last_used
<1>1. /\ Unexpired \subseteq cache
      /\ \A e \in cache : now <= e.last_used + token_cache_ttl => e \in Unexpired
  BY TTL DEF Unexpired, CacheOK, TokenTypeOK, Entries
<1>2. CASE { e \in Unexpired : e.token = token } = {}
  <2> DEFINE n == [token |-> token, alloc |-> next, last_used |-> now]
  <2>1. p = next /\ next' = next + 1 /\ cache' = Unexpired \cup {n}
    BY <1>2 DEF token_cache_get
  <2>2. n \in Entries /\ n.token = token /\ n.alloc = next /\ n.last_used = now
    BY DEF Entries, TokenTypeOK
  <2> HIDE DEF n
  <2>3. \A e \in Unexpired : e.token # token
    BY <1>2
  <2>4. cache \subseteq Entries /\ next \in Nat /\ now \in Nat
    BY DEF TokenTypeOK
  <2> QED
    BY <1>1, <2>1, <2>2, <2>3, <2>4 DEF CacheOK, Entries
<1>3. CASE { e \in Unexpired : e.token = token } # {}
  <2>1. PICK g \in Unexpired : /\ g.token = token /\ p = g.alloc
                               /\ cache' = (Unexpired \ {g}) \cup { [g EXCEPT !.last_used = now] }
    BY <1>3 DEF token_cache_get
  <2>2. next' = next /\ next \in Nat /\ now \in Nat /\ cache \subseteq Entries
    BY <1>3 DEF token_cache_get, TokenTypeOK
  <2> DEFINE n == [g EXCEPT !.last_used = now]
  <2>3. n \in Entries /\ n.token = g.token /\ n.alloc = g.alloc /\ n.last_used = now
    BY <1>1, <2>2 DEF Entries
  <2>4. cache' = (Unexpired \ {g}) \cup {n}
    BY <2>1
  <2> HIDE DEF n
  <2>5. g \in cache /\ g.alloc < next /\ g.last_used <= now
    BY <1>1 DEF CacheOK
  <2>6. cache' \subseteq Entries
    BY <1>1, <2>2, <2>3, <2>4
  <2>7. \A e, f \in cache' : e.token = f.token \/ e.alloc = f.alloc => e = f
    BY <1>1, <2>3, <2>4, <2>5 DEF CacheOK
  <2>8. \A e \in cache' : e.alloc < next /\ e.last_used <= now
    BY <1>1, <2>2, <2>3, <2>4, <2>5 DEF CacheOK
  <2>9. \A e \in cache' : e.alloc = p => e.token = token
    BY <1>1, <2>1, <2>3, <2>4, <2>5 DEF CacheOK
  <2>10. \A e \in cache' : \E f \in cache : f.alloc = e.alloc /\ f.token = e.token
    BY <1>1, <2>3, <2>4, <2>5
  <2>11. \A e \in cache : now <= e.last_used + token_cache_ttl =>
           \E f \in cache' : f.alloc = e.alloc /\ e.last_used <= f.last_used
    <3> SUFFICES ASSUME NEW e \in cache, now <= e.last_used + token_cache_ttl
                 PROVE  \E f \in cache' : f.alloc = e.alloc /\ e.last_used <= f.last_used
      OBVIOUS
    <3>1. CASE e = g
      BY <2>3, <2>4, <2>5, <3>1
    <3>2. CASE e # g
      BY <1>1, <2>2, <2>4, <3>2 DEF Entries
    <3> QED
      BY <3>1, <3>2
  <2>12. p \in Nat /\ p < next' /\ next' \in Nat /\ next <= next'
    BY <1>1, <2>1, <2>2, <2>5 DEF Entries
  <2> QED
    BY <2>2, <2>6, <2>7, <2>8, <2>9, <2>10, <2>11, <2>12
<1> QED
  BY <1>2, <1>3

(* Nothing that was used recently enough is reclaimed by a lookup.         *)
LEMMA GetKeeps ==
  ASSUME TokenTypeOK, CacheOK, NEW token \in Tokens, NEW p \in 0 .. next, token_cache_get(token, p),
         NEW q \in Nat, NEW t \in Nat, UsedSince(q, t), now <= t + token_cache_ttl
  PROVE  \E e \in cache' : e.alloc = q /\ t <= e.last_used
<1>1. PICK e \in cache : e.alloc = q /\ t <= e.last_used
  BY DEF UsedSince
<1>2. e.last_used \in Nat /\ now \in Nat
  BY DEF TokenTypeOK, Entries
<1>3. now <= e.last_used + token_cache_ttl
  BY <1>1, <1>2, TTL
<1>4. PICK f \in cache' : f.alloc = e.alloc /\ e.last_used <= f.last_used
  BY <1>3, Get
<1>5. f.last_used \in Nat
  BY Get DEF Entries
<1> QED
  BY <1>1, <1>2, <1>4, <1>5

(* What token_cache_touch leaves in the cache.                             *)
LEMMA Touch ==
  ASSUME TokenTypeOK, CacheOK, NEW p \in Nat, token_cache_touch(p)
  PROVE  /\ cache' \subseteq Entries
         /\ \A e, f \in cache' : e.token = f.token \/ e.alloc = f.alloc => e = f
         /\ \A e \in cache' : e.alloc < next /\ e.last_used <= now
         /\ \A e \in cache' : \E f \in cache : f.alloc = e.alloc /\ f.token = e.token
         /\ \A e \in cache : \E f \in cache' : f.alloc = e.alloc /\ e.last_used <= f.last_used
         /\ Allocated(p) => \E f \in cache' : f.alloc = p /\ now <= f.last_used
<1> DEFINE up(e) == IF e.alloc = p THEN [e EXCEPT !.last_used = now] ELSE e
<1>1. cache' = { up(e) : e \in cache }
  BY DEF token_cache_touch
<1>2. now \in Nat /\ next \in Nat /\ cache \subseteq Entries
  BY DEF TokenTypeOK
<1>3. \A e \in Entries : /\ up(e) \in Entries /\ up(e).token = e.token /\ up(e).alloc = e.alloc
                         /\ e.alloc = p => up(e).last_used = now
                         /\ e.alloc # p => up(e).last_used = e.last_used
  BY <1>2 DEF Entries
<1>4. \A e \in cache : e.last_used <= now /\ e.last_used \in Nat /\ e.alloc < next
  BY <1>2 DEF CacheOK, Entries
<1> HIDE DEF up
<1>5. \A e, f \in cache' : e.token = f.token \/ e.alloc = f.alloc => e = f
  BY <1>1, <1>2, <1>3 DEF CacheOK
<1>6. \A e \in cache' : e.alloc < next /\ e.last_used <= now
  BY <1>1, <1>2, <1>3, <1>4
<1>7. \A e \in cache : \E f \in cache' : f.alloc = e.alloc /\ e.last_used <= f.last_used
  <2> SUFFICES ASSUME NEW e \in cache
               PROVE  up(e) \in cache' /\ up(e).alloc = e.alloc /\ e.last_used <= up(e).last_used
    OBVIOUS
  <2> QED
    BY <1>1, <1>2, <1>3, <1>4
<1>8. Allocated(p) => \E f \in cache' : f.alloc = p /\ now <= f.last_used
  <2> SUFFICES ASSUME NEW e \in cache, e.alloc = p
               PROVE  up(e) \in cache' /\ up(e).alloc = p /\ now <= up(e).last_used
    BY DEF Allocated
  <2> QED
    BY <1>1, <1>2, <1>3
<1>9. cache' \subseteq Entries /\ \A e \in cache' : \E f \in cache : f.alloc = e.alloc /\ f.token = e.token
  BY <1>1, <1>2, <1>3
<1> QED
  BY <1>5, <1>6, <1>7, <1>8, <1>9

LEMMA Record ==
  ASSUME NEW s \in {"connecting", "open", "closing"}, NEW token \in Tokens, NEW p \in Nat,
         NEW q \in Nat, NEW b \in BOOLEAN, NEW t \in Nat
  PROVE  [state |-> s, token |-> token, holds |-> p, driver |-> q, found |-> b, since |-> t] \in ConnStates
  BY DEF ConnStates

(* The fields of a connection that is not closed.                          *)
LEMMA Fields ==
  ASSUME TokenTypeOK, NEW c \in Conns, Active(c)
  PROVE  /\ conns[c].state \in {"connecting", "open", "closing"}
         /\ conns[c].token \in Tokens /\ conns[c].holds \in Nat /\ conns[c].driver \in Nat
         /\ conns[c].found \in BOOLEAN /\ conns[c].since \in Nat
         /\ conns[c] \in ConnStates
<1>1. conns[c] \in ConnStates
  BY DEF TokenTypeOK, Active, Is, NoConn
<1> QED
  BY <1>1 DEF ConnStates

(* The updates of a connection, field by field.                            *)
LEMMA Opened ==
  ASSUME NEW r \in ConnStates, NEW n, n = [r EXCEPT !.state = "open"]
  PROVE  n = [state |-> "open", token |-> r.token, holds |-> r.holds, driver |-> r.driver,
              found |-> r.found, since |-> r.since]
BY DEF ConnStates

LEMMA OpenedPooled ==
  ASSUME NEW r \in ConnStates, NEW q, NEW n, n = [r EXCEPT !.state = "open", !.driver = q]
  PROVE  n = [state |-> "open", token |-> r.token, holds |-> r.holds, driver |-> q,
              found |-> r.found, since |-> r.since]
BY DEF ConnStates

LEMMA Closed ==
  ASSUME NEW r \in ConnStates, NEW b, NEW t, NEW n,
         n = [r EXCEPT !.state = "closing", !.since = t, !.found = b]
  PROVE  n = [state |-> "closing", token |-> r.token, holds |-> r.holds, driver |-> r.driver,
              found |-> b, since |-> t]
BY DEF ConnStates
-----------------------------------------------------------------------------
(* A connection that a step leaves alone, and the pool, are still right.   *)
LEMMA Others ==
  ASSUME TokenTypeOK, ConnsOK, CacheStep, NEW d \in Conns, conns'[d] = conns[d]
  PROVE  HolderOK(d)' /\ CloseOK(d)'
<1>1. HolderOK(d)'
  <2> SUFFICES ASSUME Active(d)
               PROVE  /\ conns[d].holds < next'
                      /\ \A e \in cache' : e.alloc = conns[d].holds => e.token = conns[d].token
    BY DEF HolderOK, Active, Is
  <2>1. /\ conns[d].holds < next /\ conns[d].holds \in Nat /\ next \in Nat
        /\ \A e \in cache : e.alloc = conns[d].holds => e.token = conns[d].token
    BY Fields DEF ConnsOK, HolderOK, TokenTypeOK
  <2> QED
    BY <2>1 DEF CacheStep
<1>2. CloseOK(d)'
  <2> SUFFICES ASSUME Is(d, "closing")
               PROVE  /\ now <= conns[d].since + MaxDisconnect
                      /\ conns[d].found => \E e \in cache' : e.alloc = conns[d].driver /\ conns[d].since <= e.last_used
    BY DEF CloseOK, Is, UsedSince, CacheStep
  <2>1. conns[d].driver \in Nat /\ conns[d].since \in Nat /\ now \in Nat
    BY Fields DEF Active, Is, TokenTypeOK
  <2>2. now <= conns[d].since + MaxDisconnect
    BY DEF ConnsOK, CloseOK
  <2>3. now <= conns[d].since + token_cache_ttl
    BY <2>1, <2>2, TTL, TokenCacheAssumption
  <2>4. ASSUME conns[d].found PROVE UsedSince(conns[d].driver, conns[d].since)
    BY <2>4 DEF ConnsOK, CloseOK
  <2> QED
    BY <2>1, <2>2, <2>3, <2>4 DEF CacheStep
<1> QED
  BY <1>1, <1>2

LEMMA StillPooled ==
  ASSUME TokenTypeOK, PoolOK, CacheStep, NEW p \in pool
  PROVE  PooledOK(p)'
<1>1. p.driver \in Nat /\ p.since \in Nat /\ now \in Nat /\ p.found \in BOOLEAN
  BY DEF TokenTypeOK, Pooled
<1>2. now <= p.since + CPTimeout
  BY DEF PoolOK, PooledOK
<1>3. ASSUME p.found PROVE (\E t \in Nat : p.since <= t + MaxDisconnect /\ UsedSince(p.driver, t))'
  <2>1. PICK t \in Nat : p.since <= t + MaxDisconnect /\ UsedSince(p.driver, t)
    BY <1>3 DEF PoolOK, PooledOK
  <2>2. now <= t + token_cache_ttl
    BY <1>1, <1>2, <2>1, TTL, TokenCacheAssumption
  <2>3. \E e \in cache' : e.alloc = p.driver /\ t <= e.last_used
    BY <1>1, <2>1, <2>2 DEF CacheStep
  <2> QED
    BY <2>1, <2>3 DEF UsedSince
<1> QED
  BY <1>2, <1>3 DEF PooledOK, CacheStep

LEMMA SameCache ==
  ASSUME TokenTypeOK, CacheOK, UNCHANGED <<now, cache, next>>
  PROVE  CacheStep /\ CacheOK' /\ (now \in Nat /\ next \in Nat /\ cache \subseteq Entries)'
BY DEF TokenTypeOK, CacheOK, CacheStep, UsedSince

LEMMA TokenInitInv == TokenInit => TokenInv
<1> SUFFICES ASSUME TokenInit PROVE TokenInv
  OBVIOUS
<1>1. TokenTypeOK
  BY DEF TokenInit, TokenTypeOK
<1>2. CacheOK /\ PoolOK
  BY DEF TokenInit, CacheOK, PoolOK
<1>3. \A c \in Conns : conns[c].state = "none"
  BY DEF TokenInit, NoConn
<1>4. ConnsOK
  BY <1>3 DEF ConnsOK, HolderOK, CloseOK, Active, Is
<1> QED
  BY <1>1, <1>2, <1>4 DEF TokenInv

LEMMA StartConnectInv ==
  ASSUME TokenInv, NEW c \in Conns, NEW token \in Tokens, StartConnect(c, token)
  PROVE  TokenInv'
<1> USE DEF TokenInv
<1>1. PICK p \in 0 .. next :
        /\ token_cache_get(token, p)
        /\ conns' = [conns EXCEPT ![c] = [state |-> "connecting", token |-> token, holds |-> p,
                                          driver |-> p, found |-> FALSE, since |-> now]]
  BY DEF StartConnect
<1>2. now' = now /\ pool' = pool /\ now \in Nat /\ conns \in [Conns -> ConnStates \cup {NoConn}]
  BY DEF StartConnect, TokenTypeOK
<1> DEFINE n == [state |-> "connecting", token |-> token, holds |-> p,
                 driver |-> p, found |-> FALSE, since |-> now]
<1>3. /\ cache' \subseteq Entries /\ next' \in Nat /\ next <= next' /\ p \in Nat /\ p < next'
      /\ \A e, f \in cache' : e.token = f.token \/ e.alloc = f.alloc => e = f
      /\ \A e \in cache' : e.alloc < next' /\ e.last_used <= now
      /\ \A e \in cache' : e.alloc = p => e.token = token
      /\ \A e \in cache' : (\E f \in cache : f.alloc = e.alloc /\ f.token = e.token) \/ e.alloc = next
  BY <1>1, Get
<1>4. CacheStep
  BY <1>1, <1>2, <1>3, GetKeeps DEF CacheStep
<1>5. n \in ConnStates /\ n.state = "connecting" /\ n.token = token /\ n.holds = p
  BY <1>2, <1>3, Record
<1>6. conns' = [conns EXCEPT ![c] = n]
  BY <1>1
<1> HIDE DEF n
<1>7. TokenTypeOK'
  BY <1>2, <1>3, <1>5, <1>6 DEF TokenTypeOK
<1>8. CacheOK'
  BY <1>2, <1>3 DEF CacheOK
<1>9. conns'[c] = n /\ \A d \in Conns : d # c => conns'[d] = conns[d]
  BY <1>2, <1>6
<1>10. HolderOK(c)' /\ CloseOK(c)'
  BY <1>3, <1>5, <1>9 DEF HolderOK, CloseOK, Is
<1>11. ConnsOK'
  BY <1>4, <1>9, <1>10, Others DEF ConnsOK
<1>12. PoolOK'
  BY <1>2, <1>4, StillPooled DEF PoolOK
<1> QED
  BY <1>7, <1>8, <1>11, <1>12

(* The steps that neither look a token up nor touch one: what they make    *)
(* of their connection is a connection of the same token, or none.         *)
LEMMA ConnChanges ==
  ASSUME TokenInv, NEW c \in Conns, NEW n \in ConnStates \cup {NoConn}, UNCHANGED <<now, cache, next>>,
         conns' = [conns EXCEPT ![c] = n], Active(c),
         n.state \in {"none", "open"}, n.state = "open" => n.token = conns[c].token /\ n.holds = conns[c].holds
  PROVE  CacheStep /\ CacheOK' /\ ConnsOK' /\ conns' \in [Conns -> ConnStates \cup {NoConn}]
<1> USE DEF TokenInv
<1>1. CacheStep /\ CacheOK'
  BY SameCache
<1>2. conns \in [Conns -> ConnStates \cup {NoConn}]
  BY DEF TokenTypeOK
<1>3. /\ conns' \in [Conns -> ConnStates \cup {NoConn}]
      /\ conns'[c] = n /\ \A d \in Conns : d # c => conns'[d] = conns[d]
  BY <1>2
<1>4. HolderOK(c)
  BY DEF ConnsOK
<1>5. HolderOK(c)' /\ CloseOK(c)'
  BY <1>3, <1>4 DEF HolderOK, CloseOK, Active, Is
<1> QED
  BY <1>1, <1>3, <1>5, Others DEF ConnsOK

LEMMA ConnectNewInv ==
  ASSUME TokenInv, NEW c \in Conns, ConnectNew(c)
  PROVE  TokenInv'
<1> DEFINE n == [conns[c] EXCEPT !.state = "open"]
<1>1. TokenTypeOK /\ Active(c) /\ PoolOK
  BY DEF TokenInv, ConnectNew, Active, Is
<1>2. n \in ConnStates /\ n.state = "open" /\ n.token = conns[c].token /\ n.holds = conns[c].holds
  <2>1. n = [state |-> "open", token |-> conns[c].token, holds |-> conns[c].holds, driver |-> conns[c].driver,
             found |-> conns[c].found, since |-> conns[c].since]
    BY <1>1, Fields, Opened
  <2> HIDE DEF n
  <2> QED
    BY <1>1, <2>1, Fields, Record
<1>3. conns' = [conns EXCEPT ![c] = n] /\ UNCHANGED <<now, cache, next>> /\ pool' = pool
  BY DEF ConnectNew
<1> HIDE DEF n
<1>4. CacheStep /\ CacheOK' /\ ConnsOK' /\ conns' \in [Conns -> ConnStates \cup {NoConn}]
  BY <1>1, <1>2, <1>3, ConnChanges
<1>5. TokenTypeOK'
  BY <1>1, <1>3, <1>4 DEF TokenTypeOK
<1>6. PoolOK'
  BY <1>1, <1>3, <1>4, StillPooled DEF PoolOK
<1> QED
  BY <1>4, <1>5, <1>6 DEF TokenInv

LEMMA ConnectPooledInv ==
  ASSUME TokenInv, NEW c \in Conns, ConnectPooled(c)
  PROVE  TokenInv'
<1>1. TokenTypeOK /\ Active(c) /\ PoolOK
  BY DEF TokenInv, ConnectPooled, Active, Is
<1>2. PICK p \in pool :
        /\ pool' = pool \ {p}
        /\ conns' = [conns EXCEPT ![c].state = "open", ![c].driver = p.driver]
  BY DEF ConnectPooled
<1> DEFINE n == [conns[c] EXCEPT !.state = "open", !.driver = p.driver]
<1>3. n \in ConnStates /\ n.state = "open" /\ n.token = conns[c].token /\ n.holds = conns[c].holds
  <2>1. n = [state |-> "open", token |-> conns[c].token, holds |-> conns[c].holds, driver |-> p.driver,
             found |-> conns[c].found, since |-> conns[c].since]
    BY <1>1, Fields, OpenedPooled
  <2>2. p.driver \in Nat
    BY <1>1 DEF TokenTypeOK, Pooled
  <2> HIDE DEF n
  <2> QED
    BY <1>1, <2>1, <2>2, Fields, Record
<1>4. conns' = [conns EXCEPT ![c] = n] /\ UNCHANGED <<now, cache, next>>
  <2>1. conns \in [Conns -> ConnStates \cup {NoConn}]
    BY <1>1 DEF TokenTypeOK
  <2> QED
    BY <1>2, <2>1 DEF ConnectPooled
<1> HIDE DEF n
<1>5. CacheStep /\ CacheOK' /\ ConnsOK' /\ conns' \in [Conns -> ConnStates \cup {NoConn}]
  BY <1>1, <1>3, <1>4, ConnChanges
<1>6. TokenTypeOK'
  BY <1>1, <1>2, <1>4, <1>5 DEF TokenTypeOK
<1>7. PoolOK'
  BY <1>1, <1>2, <1>5, StillPooled DEF PoolOK
<1> QED
  BY <1>5, <1>6, <1>7 DEF TokenInv

LEMMA ConnectFailsInv ==
  ASSUME TokenInv, NEW c \in Conns, ConnectFails(c)
  PROVE  TokenInv'
<1>1. TokenTypeOK /\ Active(c) /\ PoolOK
  BY DEF TokenInv, ConnectFails, Active, Is
<1>2. conns' = [conns EXCEPT ![c] = NoConn] /\ UNCHANGED <<now, cache, next>> /\ pool' = pool
  BY DEF ConnectFails
<1>3. NoConn.state = "none"
  BY DEF NoConn
<1>4. CacheStep /\ CacheOK' /\ ConnsOK' /\ conns' \in [Conns -> ConnStates \cup {NoConn}]
  BY <1>1, <1>2, <1>3, ConnChanges
<1>5. TokenTypeOK'
  BY <1>1, <1>2, <1>4 DEF TokenTypeOK
<1>6. PoolOK'
  BY <1>1, <1>2, <1>4, StillPooled DEF PoolOK
<1> QED
  BY <1>4, <1>5, <1>6 DEF TokenInv

LEMMA StartCloseInv ==
  ASSUME TokenInv, NEW c \in Conns, StartClose(c)
  PROVE  TokenInv'
<1>1. /\ TokenTypeOK /\ CacheOK /\ ConnsOK /\ PoolOK /\ Active(c) /\ token_cache_touch(conns[c].holds)
      /\ UNCHANGED <<now, next, pool>>
  BY DEF TokenInv, StartClose, Active, Is
<1>2. /\ conns[c].token \in Tokens /\ conns[c].holds \in Nat /\ conns[c].driver \in Nat
      /\ conns[c] \in ConnStates
  BY <1>1, Fields
<1> DEFINE b == Allocated(conns[c].holds) /\ conns[c].driver = conns[c].holds
           n == [conns[c] EXCEPT !.state = "closing", !.since = now, !.found = b]
<1>3. now \in Nat /\ next \in Nat /\ conns \in [Conns -> ConnStates \cup {NoConn}]
  BY <1>1 DEF TokenTypeOK
<1>4. b \in BOOLEAN
  OBVIOUS
<1>5. conns' = [conns EXCEPT ![c] = n]
  BY <1>3 DEF StartClose
<1>6. b => Allocated(conns[c].holds) /\ conns[c].driver = conns[c].holds
  OBVIOUS
<1> HIDE DEF b
<1>7. n = [state |-> "closing", token |-> conns[c].token, holds |-> conns[c].holds, driver |-> conns[c].driver,
           found |-> b, since |-> now]
  BY <1>2, Closed
<1> HIDE DEF n
<1>8. n \in ConnStates
  BY <1>2, <1>3, <1>4, <1>7, Record
<1>9. /\ n.state = "closing" /\ n.token = conns[c].token /\ n.holds = conns[c].holds
      /\ n.driver = conns[c].driver /\ n.found = b /\ n.since = now
  BY <1>7, Zenon
<1>10. /\ cache' \subseteq Entries
       /\ \A e, f \in cache' : e.token = f.token \/ e.alloc = f.alloc => e = f
       /\ \A e \in cache' : e.alloc < next /\ e.last_used <= now
       /\ \A e \in cache' : \E f \in cache : f.alloc = e.alloc /\ f.token = e.token
       /\ \A e \in cache : \E f \in cache' : f.alloc = e.alloc /\ e.last_used <= f.last_used
       /\ Allocated(conns[c].holds) => \E f \in cache' : f.alloc = conns[c].holds /\ now <= f.last_used
  BY <1>1, <1>2, Touch
<1>11. CacheStep
  <2>1. ASSUME NEW q \in Nat, NEW t \in Nat, UsedSince(q, t)
        PROVE  \E e \in cache' : e.alloc = q /\ t <= e.last_used
    <3>1. PICK e \in cache : e.alloc = q /\ t <= e.last_used
      BY <2>1 DEF UsedSince
    <3>2. PICK f \in cache' : f.alloc = e.alloc /\ e.last_used <= f.last_used
      BY <1>10
    <3>3. e.last_used \in Nat /\ f.last_used \in Nat
      BY <1>1, <1>10 DEF TokenTypeOK, Entries
    <3> QED
      BY <3>1, <3>2, <3>3
  <2> QED
    BY <1>1, <1>3, <1>10, <2>1 DEF CacheStep
<1>12. TokenTypeOK'
  BY <1>1, <1>3, <1>5, <1>8, <1>10 DEF TokenTypeOK
<1>13. CacheOK'
  BY <1>1, <1>10 DEF CacheOK
<1>14. conns'[c] = n /\ \A d \in Conns : d # c => conns'[d] = conns[d]
  BY <1>3, <1>5
<1>15. HolderOK(c)'
  <2>1. /\ conns[c].holds < next
        /\ \A e \in cache : e.alloc = conns[c].holds => e.token = conns[c].token
    BY <1>1 DEF ConnsOK, HolderOK
  <2> QED
    BY <1>1, <1>9, <1>10, <1>14, <2>1 DEF HolderOK
<1>16. CloseOK(c)'
  <2>1. now <= now + MaxDisconnect
    BY <1>3, TokenCacheAssumption
  <2>2. b => \E e \in cache' : e.alloc = conns[c].driver /\ now <= e.last_used
    BY <1>6, <1>10
  <2> QED
    BY <1>1, <1>9, <1>14, <2>1, <2>2 DEF CloseOK, UsedSince
<1>17. ConnsOK'
  BY <1>1, <1>11, <1>14, <1>15, <1>16, Others DEF ConnsOK
<1>18. PoolOK'
  BY <1>1, <1>11, StillPooled DEF PoolOK
<1> QED
  BY <1>12, <1>13, <1>17, <1>18 DEF TokenInv

LEMMA DisconnectInv ==
  ASSUME TokenInv, NEW c \in Conns, Disconnect(c)
  PROVE  TokenInv'
<1>1. TokenTypeOK /\ ConnsOK /\ PoolOK /\ Active(c) /\ Is(c, "closing")
  BY DEF TokenInv, Disconnect, Active, Is
<1>2. conns' = [conns EXCEPT ![c] = NoConn] /\ UNCHANGED <<now, cache, next>>
  BY DEF Disconnect
<1>3. NoConn.state = "none"
  BY DEF NoConn
<1>4. CacheStep /\ CacheOK' /\ ConnsOK' /\ conns' \in [Conns -> ConnStates \cup {NoConn}]
  BY <1>1, <1>2, <1>3, ConnChanges DEF TokenInv
<1> PICK p : p = [token |-> conns[c].token, driver |-> conns[c].driver,
                  found |-> conns[c].found, since |-> now]
  OBVIOUS
<1>5. /\ conns[c].token \in Tokens /\ conns[c].driver \in Nat
      /\ conns[c].found \in BOOLEAN /\ conns[c].since \in Nat /\ now \in Nat
  BY <1>1, Fields DEF TokenTypeOK
<1>6. p \in Pooled
  BY <1>5 DEF Pooled
<1>7. p.driver = conns[c].driver /\ p.found = conns[c].found /\ p.since = now
  BY Zenon
<1>8. pool' = pool \cup {p} \/ pool' = pool
  BY DEF Disconnect
<1>9. TokenTypeOK'
  BY <1>1, <1>2, <1>4, <1>6, <1>8 DEF TokenTypeOK
<1>10. PooledOK(p)'
  <2>1. now <= now + CPTimeout
    BY <1>5, TokenCacheAssumption
  <2>2. /\ now <= conns[c].since + MaxDisconnect
        /\ conns[c].found => UsedSince(conns[c].driver, conns[c].since)
    BY <1>1 DEF ConnsOK, CloseOK
  <2>3. conns[c].found => \E e \in cache : e.alloc = conns[c].driver /\ conns[c].since <= e.last_used
    BY <2>2 DEF UsedSince
  <2> QED
    BY <1>2, <1>5, <1>7, <2>1, <2>2, <2>3 DEF PooledOK, UsedSince
<1>11. PoolOK'
  BY <1>1, <1>4, <1>8, <1>10, StillPooled DEF PoolOK
<1> QED
  BY <1>4, <1>9, <1>11 DEF TokenInv

LEMMA TickInv ==
  ASSUME TokenInv, Tick
  PROVE  TokenInv'
<1>1. /\ TokenTypeOK /\ CacheOK /\ ConnsOK /\ PoolOK
      /\ now' = now + 1 /\ UNCHANGED <<cache, next, conns>>
      /\ \A c \in Conns : Is(c, "closing") => now < conns[c].since + MaxDisconnect
      /\ pool' = { p \in pool : now + 1 <= p.since + CPTimeout }
  BY DEF TokenInv, Tick
<1>2. now \in Nat /\ now' \in Nat
  BY <1>1 DEF TokenTypeOK
<1>3. TokenTypeOK'
  BY <1>1, <1>2 DEF TokenTypeOK
<1>4. CacheOK'
  BY <1>1, <1>2 DEF CacheOK, TokenTypeOK, Entries
<1>5. ASSUME NEW c \in Conns PROVE HolderOK(c)' /\ CloseOK(c)'
  <2>1. HolderOK(c)'
    BY <1>1 DEF ConnsOK, HolderOK, Active, Is
  <2>2. CloseOK(c)'
    <3> SUFFICES ASSUME Is(c, "closing")
                 PROVE  /\ now' <= conns[c].since + MaxDisconnect
                        /\ conns[c].found => UsedSince(conns[c].driver, conns[c].since)
      BY <1>1 DEF CloseOK, Is, UsedSince
    <3>1. conns[c].since \in Nat /\ now < conns[c].since + MaxDisconnect
      BY <1>1, Fields DEF Active, Is
    <3>2. now' <= conns[c].since + MaxDisconnect
      BY <1>1, <1>2, <3>1, TokenCacheAssumption
    <3> QED
      BY <1>1, <3>2 DEF ConnsOK, CloseOK
  <2> QED
    BY <2>1, <2>2
<1>6. ASSUME NEW p \in pool' PROVE PooledOK(p)'
  <2>1. p \in pool /\ now' <= p.since + CPTimeout
    BY <1>1
  <2>2. p.found => \E t \in Nat : p.since <= t + MaxDisconnect /\ UsedSince(p.driver, t)
    BY <1>1, <2>1 DEF PoolOK, PooledOK
  <2> QED
    BY <1>1, <2>1, <2>2 DEF PooledOK, UsedSince
<1> QED
  BY <1>3, <1>4, <1>5, <1>6 DEF TokenInv, ConnsOK, PoolOK

LEMMA StutterInv ==
  ASSUME TokenInv, UNCHANGED token_vars
  PROVE  TokenInv'
BY DEF TokenInv, token_vars, TokenTypeOK, CacheOK, ConnsOK, PoolOK, HolderOK, CloseOK, PooledOK, UsedSince, Active, Is

LEMMA TokenInductive == TokenSpec => []TokenInv
<1>1. ASSUME TokenInv, [TokenNext]_token_vars PROVE TokenInv'
  BY <1>1, StartConnectInv, ConnectNewInv, ConnectPooledInv, ConnectFailsInv, StartCloseInv,
     DisconnectInv, TickInv, StutterInv DEF TokenNext
<1> QED
  BY <1>1, TokenInitInv, PTL DEF TokenSpec
-----------------------------------------------------------------------------
(* The cache, the connections and the pool keep their types.               *)
THEOREM TokensTypeCorrect == TokenSpec => []TokenTypeOK
BY TokenInductive, PTL DEF TokenInv

(* The token of a pooled connection outlives it: the touch at the start of *)
(* the close is at most a disconnect old when the connection enters the    *)
(* pool, and CPTimeout more when it leaves, which the TTL covers.          *)
THEOREM PooledTokensStayAlive == TokenSpec => []PooledTokensLive
<1>1. TokenInv => PooledTokensLive
  BY Zenon DEF TokenInv, PoolOK, PooledOK, UsedSince, PooledTokensLive, Allocated
<1> QED
  BY <1>1, TokenInductive, PTL

(* Open connections of one token share its allocation while it is cached.  *)
THEOREM OneAllocationPerToken == TokenSpec => []SameTokenSamePointer
<1>1. TokenInv => SameTokenSamePointer
  <2> SUFFICES ASSUME TokenInv, NEW c \in Conns, NEW d \in Conns, Is(c, "open"), Is(d, "open"),
                      conns[c].token = conns[d].token, Allocated(conns[c].holds), Allocated(conns[d].holds)
               PROVE  conns[c].holds = conns[d].holds
    BY DEF SameTokenSamePointer
  <2>1. PICK e \in cache : e.alloc = conns[c].holds
    BY DEF Allocated
  <2>2. PICK f \in cache : f.alloc = conns[d].holds
    BY DEF Allocated
  <2>3. e.token = conns[c].token /\ f.token = conns[d].token
    BY <2>1, <2>2 DEF TokenInv, ConnsOK, HolderOK, Active, Is
  <2> QED
    BY <2>1, <2>2, <2>3 DEF TokenInv, CacheOK
<1> QED
  BY <1>1, TokenInductive, PTL
-----------------------------------------------------------------------------
(***************************************************************************)
(* ConverterPool.                                                          *)
(***************************************************************************)
LockHeld == \A t \in Threads : pc[t] \in Inside => Mutex = 1

(* A thread has a converter from the moment it takes it to the moment it   *)
(* gives it away, and keeps in oldHead what it popped until then.          *)
LentWhile ==
  \A t \in Threads :
    /\ pc[t] \in {"idle", "spin_pop", "pop", "unlink", "open", "count_up", "unlock_push"}
         => lent[t] = NoConverter
    /\ pc[t] \in {"count_down", "using", "spin_push", "push", "set_next", "set_head"}
         => lent[t] # NoConverter
    /\ pc[t] \in {"count_down", "unlock_pop"} => lent[t] = oldHead[t]

(* The entries are ranked from the last, 1, to the head.                   *)
Ranked(rank) ==
  /\ free = {} => head = NoConverter
  /\ free # {} => head \in free /\ rank[head] = Cardinality(free)
  /\ \A c \in free : rank[c] >= 1 /\ rank[c] <= Cardinality(free)
  /\ \A c \in free : rank[c] = 1 => succ[c] = NoConverter
  /\ \A c \in free : rank[c] > 1 => succ[c] \in free /\ rank[succ[c]] = rank[c] - 1
  /\ \A c, d \in free : rank[c] = rank[d] => c = d

ListShape == \E rank \in [Converters -> Nat] : Ranked(rank)

(* What a thread read of the list under the lock is still so.              *)
Locals ==
  \A t \in Threads :
    /\ pc[t] = "unlink" => oldHead[t] = head /\ head # NoConverter
    /\ pc[t] \in {"set_next", "set_head"} => oldHead[t] = head
    /\ pc[t] = "set_head" => succ[lent[t]] = head
    /\ pc[t] = "unlock_pop" /\ oldHead[t] = NoConverter => head = NoConverter

(* Depth counts the entries, but between the update of the list and its.   *)
Counted ==
  /\ IsFiniteSet(free)
  /\ \A t \in Threads : pc[t] = "count_down" => Depth = Cardinality(free) + 1
  /\ \A t \in Threads : pc[t] = "count_up" => Depth = Cardinality(free) - 1
  /\ (\A t \in Threads : pc[t] \notin {"count_down", "count_up"}) => Depth = Cardinality(free)

(* A destroyed pool is empty and nobody fills it.                          *)
Emptied == destroyed => /\ free = {}
                        /\ \A t \in Threads : pc[t] \in {"idle", "open", "using"}

IndInv == /\ Emptied /\ PoolTypeOK /\ LockHeld /\ MutualExclusion /\ LentWhile /\ NotShared
          /\ ListShape /\ Locals /\ Counted

USE DEF Inside, Popping, Pushing, Labels, Entry, Goto

LEMMA ShapeKept ==
  ASSUME ListShape, UNCHANGED <<head, succ, free>>
  PROVE  ListShape'
<1>1. PICK rank \in [Converters -> Nat] : Ranked(rank)
  BY DEF ListShape
<1>2. Ranked(rank)'
  BY <1>1 DEF Ranked
<1>. QED BY <1>2 DEF ListShape

LEMMA EmptyShape ==
  ASSUME free = {}, head = NoConverter
  PROVE  ListShape
<1>1. [c \in Converters |-> 1] \in [Converters -> Nat]
  OBVIOUS
<1>2. Ranked([c \in Converters |-> 1])
  BY DEF Ranked
<1>. QED BY <1>1, <1>2 DEF ListShape

LEMMA PoolInitInv == PoolInit => IndInv
<1>. SUFFICES ASSUME PoolInit PROVE IndInv
  OBVIOUS
<1>1. PoolTypeOK BY DEF PoolInit, PoolTypeOK
<1>2. LockHeld /\ MutualExclusion /\ Emptied BY DEF PoolInit, LockHeld, MutualExclusion, Emptied
<1>3. LentWhile /\ NotShared BY DEF PoolInit, LentWhile, NotShared
<1>4. ListShape /\ Locals BY EmptyShape DEF PoolInit, Locals
<1>5. Counted BY FS_EmptySet DEF PoolInit, Counted
<1>. QED BY <1>1, <1>2, <1>3, <1>4, <1>5 DEF IndInv

LEMMA AcquireInv ==
  ASSUME IndInv, NEW t \in Threads,
         Acquire(t, "spin_pop", "pop") \/ Acquire(t, "spin_push", "push")
  PROVE  IndInv'
<1>1. PoolTypeOK' BY DEF IndInv, PoolTypeOK, Acquire
<1>2. LockHeld' /\ MutualExclusion' /\ Emptied'
  BY DEF IndInv, PoolTypeOK, LockHeld, MutualExclusion, Emptied, Acquire
<1>3. LentWhile' /\ NotShared'
  BY DEF IndInv, PoolTypeOK, LentWhile, NotShared, Acquire
<1>4. ListShape' /\ Locals'
  <2>1. ListShape' BY ShapeKept DEF IndInv, Acquire
  <2>2. Locals' BY DEF IndInv, PoolTypeOK, Locals, Acquire
  <2>. QED BY <2>1, <2>2
<1>5. Counted'
  BY DEF IndInv, PoolTypeOK, Counted, Acquire
<1>. QED BY <1>1, <1>2, <1>3, <1>4, <1>5 DEF IndInv

LEMMA ReleaseInv ==
  ASSUME IndInv, NEW t \in Threads,
         UnlockPop(t) \/ Release(t, "unlock_push", "idle")
  PROVE  IndInv'
<1>1. PoolTypeOK' BY DEF IndInv, PoolTypeOK, UnlockPop, Release
<1>2. LockHeld' /\ MutualExclusion' /\ Emptied'
  BY DEF IndInv, PoolTypeOK, LockHeld, MutualExclusion, Emptied, UnlockPop, Release
<1>3. LentWhile' /\ NotShared'
  BY DEF IndInv, PoolTypeOK, LentWhile, NotShared, UnlockPop, Release
<1>4. ListShape' /\ Locals'
  <2>1. ListShape' BY ShapeKept DEF IndInv, UnlockPop, Release
  <2>2. Locals' BY DEF IndInv, PoolTypeOK, Locals, UnlockPop, Release
  <2>. QED BY <2>1, <2>2
<1>5. Counted'
  BY DEF IndInv, PoolTypeOK, Counted, UnlockPop, Release
<1>. QED BY <1>1, <1>2, <1>3, <1>4, <1>5 DEF IndInv

LEMMA ReadHeadInv ==
  ASSUME IndInv, NEW t \in Threads, ReadHeadToPop(t) \/ ReadHeadToPush(t)
  PROVE  IndInv'
<1>1. PoolTypeOK' BY DEF IndInv, PoolTypeOK, ReadHeadToPop, ReadHeadToPush
<1>2. LockHeld' /\ MutualExclusion' /\ Emptied'
  BY DEF IndInv, PoolTypeOK, LockHeld, MutualExclusion, Emptied, ReadHeadToPop, ReadHeadToPush
<1>3. LentWhile' /\ NotShared'
  BY DEF IndInv, PoolTypeOK, LentWhile, NotShared, ReadHeadToPop, ReadHeadToPush
<1>4. ListShape' /\ Locals'
  <2>1. ListShape' BY ShapeKept DEF IndInv, ReadHeadToPop, ReadHeadToPush
  <2>2. Locals' BY DEF IndInv, PoolTypeOK, Locals, ReadHeadToPop, ReadHeadToPush
  <2>. QED BY <2>1, <2>2
<1>5. Counted'
  BY DEF IndInv, PoolTypeOK, Counted, ReadHeadToPop, ReadHeadToPush
<1>. QED BY <1>1, <1>2, <1>3, <1>4, <1>5 DEF IndInv

LEMMA UnlinkInv ==
  ASSUME IndInv, NEW t \in Threads, Unlink(t)
  PROVE  IndInv'
<1>0. /\ oldHead[t] = head /\ head # NoConverter /\ head \in free /\ head \in Converters
      /\ lent[t] = NoConverter
  <2>1. oldHead[t] = head /\ head # NoConverter /\ lent[t] = NoConverter
    BY DEF IndInv, Locals, LentWhile, Unlink
  <2>2. head \in free
    BY <2>1 DEF IndInv, ListShape, Ranked
  <2>. QED BY <2>1, <2>2 DEF IndInv, PoolTypeOK
<1>a. \A u \in Threads : u # t => pc[u] \notin Inside
  BY DEF IndInv, PoolTypeOK, MutualExclusion, Unlink
<1>1. PoolTypeOK' BY <1>0 DEF IndInv, PoolTypeOK, Unlink
<1>2. LockHeld' /\ MutualExclusion' /\ Emptied'
  BY DEF IndInv, PoolTypeOK, LockHeld, MutualExclusion, Emptied, Unlink
<1>3. LentWhile' /\ NotShared'
  BY <1>0 DEF IndInv, PoolTypeOK, LentWhile, NotShared, Unlink
<1>4. ListShape'
  <2>1. PICK rank \in [Converters -> Nat] : Ranked(rank)
    BY DEF IndInv, ListShape
  <2>2. IsFiniteSet(free) /\ Cardinality(free) \in Nat
    BY FS_CardinalityType DEF IndInv, Counted
  <2>3. PICK n \in Nat : n = Cardinality(free)
    BY <2>2
  <2>4. free' = free \ {head} /\ IsFiniteSet(free') /\ Cardinality(free') = n - 1
    BY <1>0, <2>2, <2>3, FS_RemoveElement DEF Unlink
  <2>5. free' = {} <=> n = 1
    BY <2>4, FS_EmptySet, FS_CardinalityType
  <2>6. head' = succ[head] /\ succ' = succ
    BY <1>0 DEF Unlink
  <2>7. free \subseteq Converters
    BY DEF IndInv, PoolTypeOK
  <2>8. \A c \in free : rank[c] \in Nat
    BY <2>1, <2>7
  <2>9. rank[head] = n /\ \A c \in free' : c \in free /\ rank[c] # n
    BY <1>0, <2>1, <2>3, <2>4 DEF Ranked
  <2>10. Ranked(rank)'
    <3>1. free' = {} => head' = NoConverter
      BY <1>0, <2>1, <2>5, <2>6, <2>9 DEF Ranked
    <3>2. free' # {} => head' \in free' /\ rank[head'] = n - 1
      <4>1. SUFFICES ASSUME free' # {} PROVE head' \in free' /\ rank[head'] = n - 1
        OBVIOUS
      <4>2. n > 1
        BY <4>1, <2>5, <2>1, <2>3, <1>0, <2>9 DEF Ranked
      <4>3. succ[head] \in free /\ rank[succ[head]] = n - 1
        BY <4>2, <1>0, <2>1, <2>9 DEF Ranked
      <4>4. succ[head] # head
        BY <4>3, <2>9, <2>3
      <4>. QED BY <4>3, <4>4, <2>4, <2>6
    <3>3. \A c \in free' : rank[c] >= 1 /\ rank[c] <= n - 1
      BY <2>1, <2>3, <2>8, <2>9 DEF Ranked
    <3>4. \A c \in free' : rank[c] = 1 => succ'[c] = NoConverter
      BY <2>1, <2>6, <2>9 DEF Ranked
    <3>5. \A c \in free' : rank[c] > 1 => succ'[c] \in free' /\ rank[succ'[c]] = rank[c] - 1
      <4>1. SUFFICES ASSUME NEW c \in free', rank[c] > 1
                     PROVE  succ[c] \in free' /\ rank[succ[c]] = rank[c] - 1
        BY <2>6
      <4>2. succ[c] \in free /\ rank[succ[c]] = rank[c] - 1
        BY <4>1, <2>1, <2>9 DEF Ranked
      <4>3. rank[c] <= n - 1 /\ rank[c] \in Nat
        BY <3>3, <2>8, <2>9
      <4>4. succ[c] # head
        BY <4>2, <4>3, <2>9, <2>3
      <4>. QED BY <4>2, <4>4, <2>4
    <3>6. \A c, d \in free' : rank[c] = rank[d] => c = d
      BY <2>1, <2>9 DEF Ranked
    <3>7. PICK m \in Int : m = n - 1 /\ m = Cardinality(free')
      BY <2>3, <2>4
    <3>8. (\A c \in free' : rank[c] >= 1 /\ rank[c] <= m) /\ (free' # {} => rank[head'] = m)
      BY <3>2, <3>3, <3>7
    <3>. QED BY <3>1, <3>2, <3>4, <3>5, <3>6, <3>7, <3>8 DEF Ranked
  <2>. QED BY <2>10 DEF ListShape
<1>5. Locals'
  BY <1>a DEF IndInv, PoolTypeOK, Locals, Unlink
<1>6. Counted'
  <2>1. Depth = Cardinality(free) /\ IsFiniteSet(free)
    BY <1>a DEF IndInv, PoolTypeOK, Counted, Unlink
  <2>2. IsFiniteSet(free') /\ Cardinality(free') = Cardinality(free) - 1 /\ Cardinality(free) \in Nat
    BY <2>1, <1>0, FS_RemoveElement, FS_CardinalityType DEF Unlink
  <2>3. Depth' = Cardinality(free') + 1
    BY <2>1, <2>2 DEF Unlink
  <2>4. \A u \in Threads : pc'[u] # "count_up"
    BY <1>a DEF Unlink, IndInv, PoolTypeOK
  <2>5. pc'[t] = "count_down"
    BY DEF Unlink, IndInv, PoolTypeOK
  <2>. QED BY <2>2, <2>3, <2>4, <2>5 DEF Counted
<1>. QED BY <1>1, <1>2, <1>3, <1>4, <1>5, <1>6 DEF IndInv

LEMMA SetNextInv ==
  ASSUME IndInv, NEW t \in Threads, SetNext(t)
  PROVE  IndInv'
<1>0. /\ oldHead[t] = head /\ lent[t] # NoConverter /\ lent[t] \in Converters
      /\ lent[t] \notin free
  BY DEF IndInv, PoolTypeOK, Locals, LentWhile, NotShared, SetNext
<1>1. PoolTypeOK' BY <1>0 DEF IndInv, PoolTypeOK, SetNext
<1>2. LockHeld' /\ MutualExclusion' /\ Emptied'
  BY DEF IndInv, PoolTypeOK, LockHeld, MutualExclusion, Emptied, SetNext
<1>3. LentWhile' /\ NotShared'
  BY DEF IndInv, PoolTypeOK, LentWhile, NotShared, SetNext
<1>4. ListShape'
  <2>1. PICK rank \in [Converters -> Nat] : Ranked(rank)
    BY DEF IndInv, ListShape
  <2>2. head' = head /\ free' = free /\ \A c \in free : succ'[c] = succ[c]
    BY <1>0 DEF SetNext, IndInv, PoolTypeOK
  <2>3. Ranked(rank)'
    BY <2>1, <2>2 DEF Ranked
  <2>. QED BY <2>3 DEF ListShape
<1>5. Locals'
  BY <1>0 DEF IndInv, PoolTypeOK, Locals, MutualExclusion, SetNext
<1>6. Counted'
  BY DEF IndInv, PoolTypeOK, Counted, SetNext
<1>. QED BY <1>1, <1>2, <1>3, <1>4, <1>5, <1>6 DEF IndInv

LEMMA SetHeadInv ==
  ASSUME IndInv, NEW t \in Threads, SetHead(t)
  PROVE  IndInv'
<1>0. /\ oldHead[t] = head /\ succ[lent[t]] = head
      /\ lent[t] # NoConverter /\ lent[t] \in Converters /\ lent[t] \notin free
  BY DEF IndInv, PoolTypeOK, Locals, LentWhile, NotShared, SetHead
<1>a. \A u \in Threads : u # t => pc[u] \notin Inside
  BY DEF IndInv, PoolTypeOK, MutualExclusion, SetHead
<1>1. PoolTypeOK' BY <1>0 DEF IndInv, PoolTypeOK, SetHead
<1>2. LockHeld' /\ MutualExclusion' /\ Emptied'
  BY DEF IndInv, PoolTypeOK, LockHeld, MutualExclusion, Emptied, SetHead
<1>3. LentWhile' /\ NotShared'
  BY <1>0 DEF IndInv, PoolTypeOK, LentWhile, NotShared, SetHead
<1>4. ListShape'
  <2>1. PICK rank \in [Converters -> Nat] : Ranked(rank)
    BY DEF IndInv, ListShape
  <2>2. IsFiniteSet(free) /\ Cardinality(free) \in Nat
    BY FS_CardinalityType DEF IndInv, Counted
  <2>3. PICK n \in Nat : n = Cardinality(free)
    BY <2>2
  <2>4. PICK c0 \in Converters : c0 = lent[t]
    BY <1>0
  <2>5. free' = free \cup {c0} /\ Cardinality(free') = n + 1
    BY <1>0, <2>2, <2>3, <2>4, FS_AddElement DEF SetHead
  <2>6. head' = c0 /\ succ' = succ /\ succ[c0] = head /\ c0 \notin free
    BY <1>0, <2>4 DEF SetHead
  <2>7. PICK ranked \in [Converters -> Nat] : ranked = [rank EXCEPT ![c0] = n + 1]
    <3>1. n + 1 \in Nat BY <2>3
    <3>2. [rank EXCEPT ![c0] = n + 1] \in [Converters -> Nat] BY <3>1
    <3>. QED BY <3>2
  <2>8. ranked[c0] = n + 1 /\ \A c \in free : ranked[c] = rank[c]
    BY <2>6, <2>7, <2>4 DEF IndInv, PoolTypeOK
  <2>9. n = 0 <=> free = {}
    BY <2>2, <2>3, FS_EmptySet
  <2>a. head # NoConverter => head \in free /\ free # {}
    BY <2>1 DEF Ranked
  <2>b. NoConverter \notin free
    BY PoolAssumption DEF IndInv, PoolTypeOK
  <2>10. Ranked(ranked)'
    <3>1. free' # {} /\ head' \in free' /\ ranked[head'] = n + 1
      BY <2>5, <2>6, <2>8
    <3>a. \A c \in free : rank[c] \in Nat /\ rank[c] >= 1 /\ rank[c] <= n
      BY <2>1, <2>3 DEF Ranked, IndInv, PoolTypeOK
    <3>2. \A c \in free' : ranked[c] >= 1 /\ ranked[c] <= n + 1
      BY <3>a, <2>3, <2>5, <2>8
    <3>3. \A c \in free' : ranked[c] = 1 => succ'[c] = NoConverter
      BY <2>1, <2>3, <2>5, <2>6, <2>8, <2>9 DEF Ranked
    <3>4. \A c \in free' : ranked[c] > 1 => succ'[c] \in free' /\ ranked[succ'[c]] = ranked[c] - 1
      BY <2>1, <2>3, <2>5, <2>6, <2>8, <2>9 DEF Ranked
    <3>5. \A c, d \in free' : ranked[c] = ranked[d] => c = d
      <4>1. \A c \in free : ranked[c] # ranked[c0]
        BY <3>a, <2>8, <2>3
      <4>2. \A c, d \in free : ranked[c] = ranked[d] => c = d
        BY <2>1, <2>8 DEF Ranked
      <4>. QED BY <4>1, <4>2, <2>5
    <3>6. PICK m \in Int : m = n + 1 /\ m = Cardinality(free')
      BY <2>3, <2>5
    <3>7. (\A c \in free' : ranked[c] >= 1 /\ ranked[c] <= m) /\ ranked[head'] = m
      BY <3>1, <3>2, <3>6
    <3>. QED BY <3>1, <3>3, <3>4, <3>5, <3>6, <3>7 DEF Ranked
  <2>. QED BY <2>10 DEF ListShape
<1>5. Locals'
  BY <1>a DEF IndInv, PoolTypeOK, Locals, SetHead
<1>6. Counted'
  <2>1. Depth = Cardinality(free) /\ IsFiniteSet(free)
    BY <1>a DEF IndInv, PoolTypeOK, Counted, SetHead
  <2>2. IsFiniteSet(free') /\ Cardinality(free') = Cardinality(free) + 1 /\ Cardinality(free) \in Nat
    BY <2>1, <1>0, FS_AddElement, FS_CardinalityType DEF SetHead
  <2>3. Depth' = Cardinality(free') - 1
    BY <2>1, <2>2 DEF SetHead
  <2>4. \A u \in Threads : pc'[u] # "count_down"
    BY <1>a DEF SetHead, IndInv, PoolTypeOK
  <2>5. pc'[t] = "count_up"
    BY DEF SetHead, IndInv, PoolTypeOK
  <2>. QED BY <2>2, <2>3, <2>4, <2>5 DEF Counted
<1>. QED BY <1>1, <1>2, <1>3, <1>4, <1>5, <1>6 DEF IndInv

LEMMA CountInv ==
  ASSUME IndInv, NEW t \in Threads, CountUp(t) \/ CountDown(t)
  PROVE  IndInv'
<1>a. \A u \in Threads : u # t => pc[u] \notin Inside
  BY DEF IndInv, PoolTypeOK, MutualExclusion, CountUp, CountDown
<1>0. IsFiniteSet(free) /\ Cardinality(free) \in Nat /\ Depth' = Cardinality(free)
  BY FS_CardinalityType DEF IndInv, PoolTypeOK, Counted, CountUp, CountDown
<1>1. PoolTypeOK' BY <1>0 DEF IndInv, PoolTypeOK, CountUp, CountDown
<1>2. LockHeld' /\ MutualExclusion' /\ Emptied'
  BY DEF IndInv, PoolTypeOK, LockHeld, MutualExclusion, Emptied, CountUp, CountDown
<1>3. LentWhile' /\ NotShared'
  BY DEF IndInv, PoolTypeOK, LentWhile, NotShared, CountUp, CountDown
<1>4. ListShape' /\ Locals'
  <2>1. ListShape' BY ShapeKept DEF IndInv, CountUp, CountDown
  <2>2. Locals' BY DEF IndInv, PoolTypeOK, Locals, LentWhile, CountUp, CountDown
  <2>. QED BY <2>1, <2>2
<1>6. Counted'
  BY <1>0, <1>a DEF IndInv, PoolTypeOK, Counted, CountUp, CountDown
<1>. QED BY <1>1, <1>2, <1>3, <1>4, <1>6 DEF IndInv

LEMMA OutsideInv ==
  ASSUME IndInv, NEW t \in Threads, BorrowCache(t) \/ Open(t) \/ ReturnCache(t)
  PROVE  IndInv'
<1>1. PoolTypeOK' BY DEF IndInv, PoolTypeOK, BorrowCache, Open, ReturnCache
<1>2. LockHeld' /\ MutualExclusion' /\ Emptied'
  BY DEF IndInv, PoolTypeOK, LockHeld, MutualExclusion, Emptied, BorrowCache, Open, ReturnCache
<1>3. LentWhile'
  BY PoolAssumption DEF IndInv, PoolTypeOK, LentWhile, BorrowCache, Open, ReturnCache
<1>4. NotShared'
  BY PoolAssumption DEF IndInv, PoolTypeOK, NotShared, InUse, BorrowCache, Open, ReturnCache
<1>5. ListShape' /\ Locals'
  <2>1. ListShape' BY ShapeKept DEF IndInv, BorrowCache, Open, ReturnCache
  <2>2. Locals' BY DEF IndInv, PoolTypeOK, Locals, BorrowCache, Open, ReturnCache
  <2>. QED BY <2>1, <2>2
<1>6. Counted'
  BY DEF IndInv, PoolTypeOK, Counted, BorrowCache, Open, ReturnCache
<1>. QED BY <1>1, <1>2, <1>3, <1>4, <1>5, <1>6 DEF IndInv

LEMMA DestroyInv ==
  ASSUME IndInv, DestroyPool
  PROVE  IndInv'
<1>1. /\ PoolTypeOK' /\ LockHeld' /\ MutualExclusion' /\ LentWhile' /\ NotShared' /\ Locals'
      /\ Emptied'
  BY DEF IndInv, PoolTypeOK, LockHeld, MutualExclusion, LentWhile, NotShared, Locals, Emptied,
         DestroyPool
<1>2. ListShape'
  <2>1. [c \in Converters |-> 1] \in [Converters -> Nat]
    OBVIOUS
  <2>2. Ranked([c \in Converters |-> 1])'
    BY DEF Ranked, DestroyPool
  <2>. QED BY <2>1, <2>2 DEF ListShape
<1>3. Counted'
  BY FS_EmptySet DEF IndInv, Counted, DestroyPool
<1>. QED BY <1>1, <1>2, <1>3 DEF IndInv

LEMMA StepInv == IndInv /\ [PoolNext]_pool_vars => IndInv'
<1>. SUFFICES ASSUME IndInv, [PoolNext]_pool_vars PROVE IndInv'
  OBVIOUS
<1>1. CASE UNCHANGED pool_vars
  <2>1. ListShape' BY <1>1, ShapeKept DEF pool_vars, IndInv
  <2>. QED BY <1>1, <2>1 DEF pool_vars, IndInv, PoolTypeOK, LockHeld, MutualExclusion, LentWhile,
                             NotShared, Locals, Counted, Emptied
<1>2. CASE DestroyPool
  BY <1>2, DestroyInv
<1>3. ASSUME NEW t \in Threads, Thread(t) PROVE IndInv'
  BY <1>3, AcquireInv, ReleaseInv, ReadHeadInv, UnlinkInv, SetNextInv, SetHeadInv, CountInv,
     OutsideInv DEF Thread, Holds
<1>. QED BY <1>1, <1>2, <1>3 DEF PoolNext

LEMMA Invariance == PoolSpec => []IndInv
  BY PoolInitInv, StepInv, PTL DEF PoolSpec

(* Two threads are never inside the spin lock of a list at a time          *)
(* (interlockedslist.h 52-107).                                            *)
THEOREM LockExcludes == PoolSpec => []MutualExclusion
  BY Invariance, PTL DEF IndInv

(* The pool's variables stay of their types; Depth is never negative, as   *)
(* interlockedslist.h 80 asserts.                                          *)
THEOREM PoolTypes == PoolSpec => []PoolTypeOK
  BY Invariance, PTL DEF IndInv

(* A converter is in the list or lent to one thread, never both.           *)
THEOREM ConverterNotShared == PoolSpec => []NotShared
  BY Invariance, PTL DEF IndInv
-----------------------------------------------------------------------------
(* The pool is empty when its head is, and each step that adds to it takes *)
(* a converter from a thread.                                              *)
LEMMA EmptyPool ==
  ASSUME IndInv, head = NoConverter
  PROVE  free = {}
  BY PoolAssumption DEF IndInv, PoolTypeOK, ListShape, Ranked

LEMMA WithoutFinite ==
  /\ IsFiniteSet(Without) /\ Cardinality(Without) \in Nat
<1>1. Without \subseteq Threads BY DEF Without
<1>. QED BY <1>1, PoolAssumption, FS_Subset, FS_CardinalityType

LEMMA MoreWithout ==
  ASSUME IndInv, NoMoreThanThreads, free' = free, Without \subseteq Without'
  PROVE  NoMoreThanThreads'
<1>1. Without' \subseteq Threads BY DEF Without
<1>2. IsFiniteSet(Without') /\ Cardinality(Without') \in Nat
  BY <1>1, PoolAssumption, FS_Subset, FS_CardinalityType
<1>3. Cardinality(Without) <= Cardinality(Without')
  BY <1>2, FS_Subset
<1>4. Cardinality(free) \in Nat
  BY FS_CardinalityType DEF IndInv, Counted
<1>. QED BY <1>2, <1>3, <1>4, WithoutFinite DEF NoMoreThanThreads

LEMMA NoneFree ==
  ASSUME free' = {}
  PROVE  NoMoreThanThreads'
<1>1. Without' \subseteq Threads BY DEF Without
<1>2. Cardinality(Without') \in Nat
  BY <1>1, PoolAssumption, FS_Subset, FS_CardinalityType
<1>3. Cardinality(free') = 0
  BY FS_EmptySet
<1>. QED BY <1>2, <1>3 DEF NoMoreThanThreads

LEMMA EnoughStep == IndInv /\ NoMoreThanThreads /\ [PoolNext]_pool_vars => NoMoreThanThreads'
<1>. SUFFICES ASSUME IndInv, NoMoreThanThreads, [PoolNext]_pool_vars PROVE NoMoreThanThreads'
  OBVIOUS
<1>2. CASE UNCHANGED pool_vars
  BY <1>2, MoreWithout DEF pool_vars, Without
<1>3. CASE DestroyPool
  BY <1>3, NoneFree DEF DestroyPool
<1>4. ASSUME NEW t \in Threads, Thread(t) PROVE NoMoreThanThreads'
  <2>1. CASE Unlink(t)
    <3>1. lent[t] = NoConverter /\ oldHead[t] = head /\ head # NoConverter
      BY <2>1 DEF Unlink, IndInv, LentWhile, Locals
    <3>2. head \in free
      BY <3>1 DEF IndInv, ListShape, Ranked
    <3>3. Cardinality(free') = Cardinality(free) - 1 /\ Cardinality(free) \in Nat
      BY <2>1, <3>1, <3>2, FS_RemoveElement, FS_CardinalityType DEF Unlink, IndInv, Counted
    <3>4. t \in Without /\ Without' = Without \ {t}
      BY <2>1, <3>1 DEF Without, Unlink, IndInv, PoolTypeOK
    <3>5. Cardinality(Without') = Cardinality(Without) - 1
      BY <3>4, WithoutFinite, FS_RemoveElement
    <3>. QED BY <3>3, <3>5, WithoutFinite DEF NoMoreThanThreads
  <2>2. CASE SetHead(t)
    <3>1. lent[t] # NoConverter /\ lent[t] \notin free
      BY <2>2 DEF SetHead, IndInv, LentWhile, NotShared
    <3>2. Cardinality(free') = Cardinality(free) + 1 /\ Cardinality(free) \in Nat
      BY <2>2, <3>1, FS_AddElement, FS_CardinalityType DEF SetHead, IndInv, Counted
    <3>3. t \notin Without /\ Without' = Without \cup {t}
      BY <2>2, <3>1 DEF Without, SetHead, IndInv, PoolTypeOK
    <3>4. Cardinality(Without') = Cardinality(Without) + 1
      BY <3>3, WithoutFinite, FS_AddElement
    <3>. QED BY <3>2, <3>4, WithoutFinite DEF NoMoreThanThreads
  <2>3. CASE BorrowCache(t)
    <3>1. CASE destroyed \/ head = NoConverter
      BY <2>3, <3>1, EmptyPool, NoneFree DEF BorrowCache, IndInv, Emptied
    <3>2. CASE ~(destroyed \/ head = NoConverter)
      <4>1. Without \subseteq Without' /\ free' = free
        BY <2>3, <3>2 DEF BorrowCache, Without, IndInv, PoolTypeOK
      <4>. QED BY <4>1, MoreWithout
    <3>. QED BY <3>1, <3>2
  <2>4. CASE UnlockPop(t)
    <3>1. CASE oldHead[t] = NoConverter
      <4>1. free = {}
        BY <2>4, <3>1, EmptyPool DEF UnlockPop, Release, IndInv, Locals
      <4>. QED BY <4>1, <2>4, NoneFree DEF UnlockPop, Release
    <3>2. CASE oldHead[t] # NoConverter
      <4>1. Without \subseteq Without' /\ free' = free
        BY <2>4, <3>2 DEF UnlockPop, Release, Without, IndInv, PoolTypeOK
      <4>. QED BY <4>1, MoreWithout
    <3>. QED BY <3>1, <3>2
  <2>5. CASE Open(t)
    <3>1. Without \subseteq Without' /\ free' = free
      BY <2>5, PoolAssumption DEF Open, Without, IndInv, PoolTypeOK
    <3>. QED BY <3>1, MoreWithout
  <2>6. CASE \/ ReturnCache(t) \/ Acquire(t, "spin_pop", "pop")
             \/ Acquire(t, "spin_push", "push")
             \/ ReadHeadToPop(t) \/ CountDown(t) \/ CountUp(t)
             \/ ReadHeadToPush(t) \/ SetNext(t) \/ Release(t, "unlock_push", "idle")
    <3>1. free' = free
      BY <2>6 DEF ReturnCache, Acquire, ReadHeadToPop, CountDown, CountUp, ReadHeadToPush,
                  SetNext, Release
    <3>2. Without \subseteq Without'
      BY <2>6 DEF ReturnCache, Acquire, ReadHeadToPop, CountDown, CountUp, ReadHeadToPush,
                  SetNext, Release, Without, IndInv, PoolTypeOK
    <3>. QED BY <3>1, <3>2, MoreWithout
  <2>. QED BY <1>4, <2>1, <2>2, <2>3, <2>4, <2>5, <2>6 DEF Thread, Holds
<1>. QED BY <1>2, <1>3, <1>4 DEF PoolNext

LEMMA EnoughInit == PoolInit => NoMoreThanThreads
<1>. SUFFICES ASSUME PoolInit PROVE NoMoreThanThreads
  OBVIOUS
<1>1. Cardinality(free) = 0 BY FS_EmptySet DEF PoolInit
<1>. QED BY <1>1, WithoutFinite DEF NoMoreThanThreads

(* A converter is opened only when all that exist are with threads, though *)
(* the look that decides it is taken without the lock: no more wait than   *)
(* there are threads without one (localizationimpl.cpp 155, 218).          *)
THEOREM PoolNeverOvergrows == PoolSpec => []NoMoreThanThreads
<1>1. IndInv /\ NoMoreThanThreads /\ [PoolNext]_pool_vars => NoMoreThanThreads'
  BY EnoughStep
<1>. QED BY <1>1, Invariance, EnoughInit, PTL DEF PoolSpec
-----------------------------------------------------------------------------
LEMMA InitRefines == PoolInit => Abstract!Init
  BY DEF PoolInit, Abstract!Init

LEMMA StepRefines ==
  ASSUME IndInv, [PoolNext]_pool_vars
  PROVE  [Abstract!Next]_Abstract!vars
<1>1. CASE UNCHANGED pool_vars
  BY <1>1 DEF pool_vars, Abstract!vars
<1>2. CASE DestroyPool
  BY <1>2 DEF DestroyPool, Abstract!Next, Abstract!Destroy
<1>3. ASSUME NEW t \in Threads, Thread(t) PROVE [Abstract!Next]_Abstract!vars
  <2>1. CASE Unlink(t)
    <3>1. /\ lent[t] = NoConverter /\ oldHead[t] \in free /\ oldHead[t] \in Converters
      <4>1. lent[t] = NoConverter /\ oldHead[t] = head /\ head # NoConverter
        BY <2>1 DEF Unlink, IndInv, LentWhile, Locals
      <4>2. head \in free
        BY <4>1 DEF IndInv, ListShape, Ranked
      <4>. QED BY <4>1, <4>2 DEF IndInv, PoolTypeOK
    <3>2. Abstract!Borrow(t, oldHead[t])
      BY <2>1, <3>1 DEF Unlink, Abstract!Borrow
    <3>. QED BY <3>1, <3>2 DEF Abstract!Next
  <2>2. CASE Open(t)
    <3>1. CASE UNCHANGED lent
      BY <2>2, <3>1 DEF Open, Abstract!vars
    <3>2. CASE \E c \in Converters \ InUse : lent' = [lent EXCEPT ![t] = c]
      <4>1. PICK c \in Converters : c \notin InUse /\ lent' = [lent EXCEPT ![t] = c]
        BY <3>2
      <4>2. lent[t] = NoConverter /\ c \notin free /\ free' = free
        BY <2>2, <4>1 DEF Open, InUse, IndInv, LentWhile
      <4>3. c \notin Abstract!Opened
        BY <4>1 DEF InUse, Abstract!Opened
      <4>4. Abstract!Borrow(t, c)
        BY <4>1, <4>2, <4>3 DEF Abstract!Borrow
      <4>. QED BY <4>4 DEF Abstract!Next
    <3>. QED BY <2>2, <3>1, <3>2 DEF Open
  <2>3. CASE SetHead(t)
    <3>1. Abstract!Return(t)
      BY <2>3 DEF SetHead, Abstract!Return, IndInv, LentWhile
    <3>. QED BY <3>1 DEF Abstract!Next
  <2>4. CASE ReturnCache(t)
    <3>1. CASE ~destroyed /\ HasRoom
      BY <2>4, <3>1 DEF ReturnCache, Abstract!vars
    <3>2. CASE ~(~destroyed /\ HasRoom)
      <4>1. Abstract!Return(t)
        BY <2>4, <3>2 DEF ReturnCache, Abstract!Return, IndInv, LentWhile
      <4>. QED BY <4>1 DEF Abstract!Next
    <3>. QED BY <3>1, <3>2
  <2>5. CASE \/ BorrowCache(t) \/ Acquire(t, "spin_pop", "pop") \/ Acquire(t, "spin_push", "push")
             \/ ReadHeadToPop(t) \/ UnlockPop(t) \/ ReadHeadToPush(t) \/ SetNext(t)
             \/ CountUp(t) \/ CountDown(t) \/ Release(t, "unlock_push", "idle")
    BY <2>5 DEF BorrowCache, Acquire, ReadHeadToPop, UnlockPop, Release, ReadHeadToPush,
                SetNext, CountUp, CountDown, Abstract!vars
  <2>. QED BY <1>3, <2>1, <2>2, <2>3, <2>4, <2>5 DEF Thread, Holds
<1>. QED BY <1>1, <1>2, <1>3 DEF PoolNext

(* Whenever the spin lock is free, the list that starts at head goes       *)
(* through every free converter once, ends, and is as long as the counter  *)
(* next to it says (GlobalCache of localizationimpl.cpp).                  *)
THEOREM ListIsWhole == PoolSpec => []ListWhole
<1>1. IndInv => ListWhole
  <2>1. SUFFICES ASSUME IndInv, Mutex = 0
                 PROVE  /\ \E place \in [free -> 1 .. Cardinality(free)] : Numbered(place)
                        /\ Depth = Cardinality(free)
    BY DEF ListWhole
  <2>2. \A t \in Threads : pc[t] \notin {"count_down", "count_up"}
    BY <2>1 DEF IndInv, LockHeld
  <2>3. Depth = Cardinality(free)
    BY <2>1, <2>2 DEF IndInv, Counted
  <2>4. PICK rank \in [Converters -> Nat] : Ranked(rank)
    BY <2>1 DEF IndInv, ListShape
  <2>5. free \subseteq Converters /\ Cardinality(free) \in Nat
    BY <2>1, FS_CardinalityType DEF IndInv, PoolTypeOK, Counted
  <2>. DEFINE place == [c \in free |-> rank[c]]
  <2>6. place \in [free -> 1 .. Cardinality(free)]
    BY <2>4, <2>5 DEF Ranked
  <2>7. Numbered(place)
    <3>1. \A c \in free : rank[c] = 1 \/ rank[c] > 1
      BY <2>4, <2>5 DEF Ranked
    <3>. QED BY <2>4, <2>5, <3>1 DEF Ranked, Numbered
  <2>. QED BY <2>3, <2>6, <2>7
<1>. QED BY <1>1, Invariance, PTL

(* The list under its spin lock gives the threads the pool they are        *)
(* promised: a converter is taken from those that are free or newly        *)
(* opened, for one thread, and free again or closed when it comes back.    *)
THEOREM PoolRefines == PoolSpec => ImplementsPool
<1>1. IndInv /\ [PoolNext]_pool_vars => [Abstract!Next]_Abstract!vars
  BY StepRefines
<1>. QED BY <1>1, InitRefines, Invariance, PTL DEF PoolSpec, Abstract!Spec, ImplementsPool
=============================================================================
