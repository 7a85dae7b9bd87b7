----------------------- MODULE TransactionProperties -----------------------
(***************************************************************************)
(* What the transaction calls promise a script.                            *)
(***************************************************************************)
EXTENDS Transaction

(* While the script is in a transaction nothing it executes is committed   *)
(* by itself; and out of one everything is, unless ending the last one     *)
(* failed.                                                                 *)
ModeFollowsFlag ==
  ~closed => /\ in_transaction => ~dbc.autocommit
             /\ ~in_transaction => dbc.autocommit \/ broken

(* Until a commit or rollback of sqlsrv fails, whatever is still open on   *)
(* the server was executed in the transaction the script is in now: a      *)
(* commit cannot reach further than that.                                  *)
OpenWorkIsCurrent ==
  ~closed /\ ~broken => \A w \in OpenWork(dbc) : in_transaction /\ w.txn = txns

(* A commit or a rollback that returned true left nothing open and the     *)
(* connection in autocommit mode.                                          *)
EndedMeansEnded ==
  call.fn \in {"commit", "rollback"} /\ call.r = "ok"
    => ~in_transaction /\ dbc.autocommit /\ OpenWork(dbc) = {}

(* Closing a connection leaves no transaction behind, though statements of *)
(* it were waiting for stream data, unless SQLEndTran failed for reasons   *)
(* of its own.                                                             *)
ClosedClean == closed /\ call.r # "error" => ~dbc.connected /\ OpenWork(dbc) = {}

(* Work done in a transaction is committed in no other step than a commit  *)
(* the script asked for, whatever failed before.                           *)
NoCommitUnasked ==
  \A w \in OpenWork(dbc) :
    w \notin OpenWork(dbc)' /\ [w EXCEPT !.state = "committed"] \in dbc'.work \ dbc.work
      => call'.fn = "commit"
CommittedOnlyOnRequest == [][NoCommitUnasked]_vars
=============================================================================
