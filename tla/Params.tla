------------------------------- MODULE Params -------------------------------
(***************************************************************************)
(* The parameters of one statement over its executions: the containers     *)
(* input_params and output_params, what ODBC has been told of them, the    *)
(* script's variables they belong to, and the calls that bind, send, read  *)
(* and drop them.                                                          *)
(*                                                                         *)
(* A parameter record outlives an execution: it is found again by its      *)
(* position and keeps what was derived from the value it was first bound   *)
(* with.  ODBC keeps pointers into the records and into the variables, and *)
(* uses them whenever it executes, sends, or is done with all results.     *)
(***************************************************************************)
EXTENDS Integers, FiniteSets

CONSTANTS Slots,        \* the positions of the parameters, 0-based
          Decls,        \* how a statement may declare them, see Declaration
          Kinds,        \* what a variable may hold
          Extensions,   \* "sqlsrv", "pdo"
          CancelSends   \* may a script cancel while a stream is awaited?

InKinds  == {"null", "bool", "int", "bigint", "double", "string", "date", "stream", "bad"}
OutKinds == {"int", "double", "string"}
SqlTypes == {"unknown", "varchar", "integer", "bigint", "float", "wvarchar", "datetimeoffset"}

Declaration == [direction : {"input", "output", "inout"}, out : OutKinds, sql : SqlTypes]

ASSUME ParamsAssumption ==
  /\ Slots \subseteq Nat
  /\ Decls \subseteq [Slots -> Declaration]
  /\ Kinds \subseteq InKinds
  /\ Extensions \subseteq {"sqlsrv", "pdo"}
  /\ CancelSends \in BOOLEAN

VARIABLES conf,      \* extension, declarations, send_streams_at_exec; fixed once chosen
          value,     \* the script's variables: what they hold, and who wrote it
          params,    \* the records of params_container
          bound,     \* what ODBC points to: nothing, a record, or one that is gone
          array,     \* params_z is there (sqlsrv)
          executed, past_next_result_end,
          current_param,
          odbc,      \* "idle", "need" (SQL_NEED_DATA), "results", "done"
          sent,      \* the streams of this execution ODBC has in full
          phase,     \* "ready", or what runs: "flush", "bind", "run", "send"
          next,      \* the positions still to bind
          ret,       \* what the last call returned
          failed,    \* history: an error took outputs of this execution away
          stale      \* history: ODBC used a record that was gone

vars == <<conf, value, params, bound, array, executed, past_next_result_end, current_param,
          odbc, sent, phase, next, ret, failed, stale>>

NoSlot  == -1
NoParam == [php |-> "none", sql |-> "unknown", ind |-> "len", ptr |-> FALSE]
Param   == [php : InKinds, sql : SqlTypes \ {"unknown"},
            ind : {"len", "null", "exec", "bad"},   \* strlen_or_indptr
            ptr : BOOLEAN]                          \* param_ptr_z # NULL

IsInput(s) == conf.decl[s].direction = "input"
Outputs    == { s \in Slots : ~IsInput(s) }
Own(k)     == [kind |-> k, by |-> "script"]

TypeOK ==
  /\ conf \in [ext : Extensions, decl : Decls, send : BOOLEAN]
  /\ value \in [Slots -> [kind : InKinds, by : {"script", "bind", "driver", "early", "final", "twice"}]]
  /\ params \in [Slots -> Param \cup {NoParam}]
  /\ bound \in [Slots -> {"none", "live", "gone"}]
  /\ {array, executed, past_next_result_end, failed, stale} \subseteq BOOLEAN
  /\ current_param \in Slots \cup {NoSlot}
  /\ odbc \in {"idle", "need", "results", "done"}
  /\ sent \subseteq Slots /\ next \subseteq Slots
  /\ phase \in {"ready", "flush", "bind", "run", "send"}
  /\ ret \in {"none", "true", "false", "null", "pending"}

Init ==
  /\ conf \in { c \in [ext : Extensions, decl : Decls, send : BOOLEAN] : c.ext = "sqlsrv" \/ c.send }
  /\ value \in [Slots -> { Own(k) : k \in Kinds }]
  /\ params = [s \in Slots |-> NoParam] /\ bound = [s \in Slots |-> "none"]
  /\ array = TRUE
  /\ executed = FALSE /\ past_next_result_end = FALSE
  /\ current_param = NoSlot /\ odbc = "idle" /\ sent = {}
  /\ phase = "ready" /\ next = {} /\ ret = "none"
  /\ failed = FALSE /\ stale = FALSE

-----------------------------------------------------------------------------
(* Dropping parameters.                                                    *)

Gone(S) == [s \in Slots |-> IF s \in S /\ bound[s] = "live" THEN "gone" ELSE bound[s]]

CleanUpKeepsCurrent(S) ==   \* mutant of clean_up_param_data
  /\ params' = [s \in Slots |-> IF s \in S THEN NoParam ELSE params[s]]
  /\ bound' = Gone(S)
  /\ UNCHANGED current_param

(* clean_up_param_data: the records are freed, ODBC is not told.           *)
clean_up_param_data(S) ==
  /\ params' = [s \in Slots |-> IF s \in S THEN NoParam ELSE params[s]]
  /\ bound' = Gone(S)
  /\ current_param' = NoSlot

ForgetOnly == clean_up_param_data(Slots)   \* mutant of Forget

(* The same, and SQL_RESET_PARAMS.                                         *)
Forget ==
  /\ params' = [s \in Slots |-> NoParam]
  /\ bound' = [s \in Slots |-> "none"]
  /\ current_param' = NoSlot

(* ODBC follows the pointers it has for the positions in S.                *)
Used(S) == stale' = (stale \/ \E s \in S : bound[s] = "gone")
-----------------------------------------------------------------------------
(* Binding one parameter: core_sqlsrv_bind_param.                          *)

(* The SQL type of a value of unknown type.                                *)
Derived(kind) ==
  CASE kind = "null"             -> "varchar"
    [] kind \in {"bool", "int"}  -> "integer"
    [] kind = "bigint"           -> "bigint"
    [] kind = "double"           -> "float"
    [] kind = "date"             -> "datetimeoffset"
    [] OTHER                     -> "wvarchar"

(* Mutant: the type a NULL was bound with stays.                           *)
KeepsType(s) == IF params[s] = NoParam THEN conf.decl[s].sql ELSE params[s].sql

(* The type to start from: what the declaration says for a new record and  *)
(* for an input that was NULL, else what the record says.                  *)
StartType(s) ==
  IF params[s] = NoParam \/ (IsInput(s) /\ params[s].ind = "null")
  THEN conf.decl[s].sql ELSE params[s].sql

Typed(s, kind) == IF StartType(s) = "unknown" THEN Derived(kind) ELSE StartType(s)

Indicator(kind) == CASE kind = "null" -> "null" [] kind = "stream" -> "exec" [] OTHER -> "len"

process_input(s) ==
  LET kind == value[s].kind
  IN /\ kind # "bad"
     /\ params' = [params EXCEPT ![s] = [php |-> kind, sql |-> Typed(s, kind),
                                         ind |-> Indicator(kind), ptr |-> kind = "stream"]]
     /\ UNCHANGED value

(* sqlsrv_param_inout::prepare_param: what goes in must be of the type     *)
(* that comes out, anything can become a string; what only comes out is    *)
(* made of that type at once.                                              *)
Fits(d, kind) ==
  CASE d.direction = "output" -> TRUE
    [] d.out = "int"          -> kind \in {"null", "bool", "int", "bigint"}
    [] d.out = "double"       -> kind \in {"null", "double"}
    [] OTHER                  -> kind # "bad"

process_output(s) ==
  LET d == conf.decl[s]
      kind == value[s].kind
  IN /\ Fits(d, kind)
     /\ params' = [params EXCEPT ![s] = [php |-> d.out, sql |-> Typed(s, d.out),
                                         ind |-> IF kind = "null" THEN "null" ELSE "len",
                                         ptr |-> TRUE]]
     /\ value' = [value EXCEPT ![s] = [kind |-> d.out,
                                       by |-> IF d.out = "string" THEN "bind" ELSE "script"]]

Process(s) == IF IsInput(s) THEN process_input(s) ELSE process_output(s)

Bind ==
  /\ phase = "bind" /\ next # {}
  /\ LET s == CHOOSE x \in next : \A y \in next : x <= y
     IN /\ Process(s)
        /\ bound' = [bound EXCEPT ![s] = "live"]
        /\ next' = next \ {s}
  /\ UNCHANGED <<conf, array, executed, past_next_result_end, current_param, odbc, sent, phase,
                 ret, failed, stale>>

(* A value that cannot be bound, or SQLBindParameter refuses: everything   *)
(* is forgotten; sqlsrv drops its array too.                               *)
BindFails ==
  /\ phase = "bind" /\ next # {}
  /\ Forget
  /\ array' = (conf.ext = "pdo")
  /\ next' = {} /\ phase' = "ready" /\ ret' = "false"
  /\ UNCHANGED <<conf, value, executed, past_next_result_end, odbc, sent, failed, stale>>
-----------------------------------------------------------------------------
(* Outputs.                                                                *)

(* What the driver reports of the outputs when it is done with all results *)
(* and writes them: a string may be too long for its buffer or not         *)
(* translatable, a double beyond an integer; these are "bad".              *)
Reports ==
  { t \in [Outputs -> {"len", "null", "bad"}] :
      \A s \in Outputs : conf.decl[s].out = "int" => t[s] # "bad" }

(* What the driver writes that is looked at again: a record that has handed *)
(* over its output looks no more.                                          *)
Written == { s \in Outputs : bound[s] = "live" /\ params[s].ptr }
Told(p, t) == [s \in Slots |-> IF s \in Written THEN [p[s] EXCEPT !.ind = t[s]] ELSE p[s]]
Filled(v)  == [s \in Slots |-> IF s \in Written THEN [v[s] EXCEPT !.by = "driver"] ELSE v[s]]

(* finalize_output_parameters on records p and variables v: in the order   *)
(* of the positions, up to the first that fails.  One handed over lets go  *)
(* of its variable.  It is handed over early while the driver has still to *)
(* write it, else as final.                                                *)
Failing(p) == { s \in Outputs : p[s].ptr /\ p[s].ind = "bad" }

HandedAll(p) == { s \in Outputs : p[s].ptr }   \* mutant of Handed

HandedFirst(p) == { s \in Outputs : p[s].ptr /\ \A b \in Outputs : s <= b }   \* mutant of Handed

Handed(p) == { s \in Outputs : p[s].ptr /\ \A b \in Failing(p) : s < b }

KeepsHold(p) == p   \* mutant of Released

Released(p)  == [s \in Slots |-> IF s \in Handed(p) THEN [p[s] EXCEPT !.ptr = FALSE] ELSE p[s]]

Final(p, v, how) ==
  [s \in Slots |->
    IF s \notin Handed(p) THEN v[s]
    ELSE [kind |-> IF p[s].ind = "null" THEN "null" ELSE v[s].kind,
          by   |-> IF v[s].by \in {"early", "final"} THEN "twice" ELSE how]]

(* Before the driver writes, a record reads what binding left: no report,  *)
(* and a string that may not be translatable.                              *)
Unwritten == { t \in Reports : \A s \in Outputs : t[s] \in {params[s].ind, "bad"} }

-----------------------------------------------------------------------------
(* Execution.                                                              *)

(* What is left of the batch is flushed first, without handing over the    *)
(* outputs.  While a stream is awaited that flush would never end.         *)
Execute ==
  /\ phase = "ready" /\ odbc # "need"
  /\ phase' = IF executed /\ ~past_next_result_end THEN "flush" ELSE "bind"
  /\ next' = IF array THEN Slots ELSE {}
  /\ executed' = (executed /\ (phase' = "flush" \/ conf.ext = "pdo" \/ ~array))
  /\ ret' = "pending"
  /\ UNCHANGED <<conf, value, params, bound, array, past_next_result_end, current_param, odbc, sent,
                 failed, stale>>

(* The flush comes to the end of the batch.                                *)
Flush ==
  /\ phase = "flush"
  /\ IF odbc = "results"
     THEN /\ \E t \in Reports : params' = Told(params, t)
          /\ value' = Filled(value)
          /\ Used(Outputs)
     ELSE UNCHANGED <<params, value, stale>>
  /\ odbc' = "done"
  /\ past_next_result_end' = TRUE
  /\ phase' = "bind"
  /\ executed' = (conf.ext = "pdo" \/ ~array)
  /\ UNCHANGED <<conf, bound, array, current_param, sent, next, ret, failed>>

(* core_sqlsrv_execute fails: the records are freed, and a statement that  *)
(* counts as executed is cancelled.                                        *)
ExecutionFails(state, ex) ==
  /\ clean_up_param_data(Slots)
  /\ odbc' = IF ex THEN "idle" ELSE state
  /\ phase' = "ready" /\ ret' = "false" /\ failed' = TRUE

AtExec == { s \in Slots : bound[s] # "none" /\ params[s].ind = "exec" }

(* A marker without a binding, or a batch that is not finished.            *)
Refused == odbc = "results" \/ \E s \in Slots : bound[s] = "none"

(* The statement ran: there are results, or none and its outputs at once.  *)
RanWith(p) ==
  \/ odbc' = "results" /\ params' = p /\ UNCHANGED value
  \/ odbc' = "done" /\ value' = Filled(value) /\ \E t \in Reports : params' = Told(p, t)

(* SQLExecute reads everything that is bound.                              *)
Run ==
  /\ phase = "bind" /\ next = {}
  /\ Used(Slots)
  /\ sent' = {}
  /\ \/ /\ ExecutionFails(odbc, executed)
        /\ UNCHANGED <<value, executed, past_next_result_end>>
     \/ /\ ~Refused /\ AtExec # {}
        /\ failed' = FALSE
        /\ odbc' = "need"
        /\ IF conf.send
           THEN phase' = "send" /\ UNCHANGED <<executed, past_next_result_end, ret>>
           ELSE phase' = "ready" /\ executed' = TRUE /\ past_next_result_end' = FALSE /\ ret' = "true"
        /\ UNCHANGED <<value, params, bound, current_param>>
     \/ /\ ~Refused /\ AtExec = {}
        /\ failed' = FALSE
        /\ RanWith(params)
        /\ phase' = "run"
        /\ UNCHANGED <<bound, current_param, executed, past_next_result_end, ret>>
  /\ UNCHANGED <<conf, array, next>>

HandsOver(p, how) ==
  /\ value' = Final(p, value, how)
  /\ executed' = TRUE
  /\ IF Failing(p) # {} THEN ExecutionFails(odbc, TRUE)
     ELSE /\ params' = Released(p)
          /\ phase' = "ready" /\ ret' = "true"
          /\ UNCHANGED <<bound, current_param, odbc, failed>>

(* What core_sqlsrv_execute still does: new_result_set may fail, and unless *)
(* streams are sent later the outputs are handed over if the first result  *)
(* has neither columns nor rows affected, though others may follow.        *)
AfterRun ==
  /\ phase = "run"
  /\ past_next_result_end' = FALSE
  /\ \/ /\ ExecutionFails(odbc, executed)
        /\ UNCHANGED <<value, executed>>
     \/ odbc = "done" /\ conf.send /\ HandsOver(params, "final")
     \/ odbc = "results" /\ conf.send /\ \E t \in Unwritten : HandsOver(Told(params, t), "early")
     \/ /\ ~(odbc = "done" /\ conf.send)
        /\ executed' = TRUE
        /\ phase' = "ready" /\ ret' = "true"
        /\ UNCHANGED <<value, params, bound, current_param, odbc, failed>>
  /\ UNCHANGED <<conf, array, sent, next, stale>>
-----------------------------------------------------------------------------
(* Sending: the loop of send_all_packets, or one sqlsrv_send_stream_data.  *)

Sending == phase = "send" \/ (phase = "ready" /\ ~conf.send)

SendsOn == /\ phase' = phase
           /\ ret' = IF phase = "ready" THEN "true" ELSE ret

(* A packet of a stream, perhaps the last.                                 *)
Packet(s) ==
  /\ odbc = "need"
  /\ \/ current_param' = s /\ sent' = sent
     \/ current_param' = NoSlot /\ sent' = sent \cup {s}
  /\ SendsOn
  /\ UNCHANGED <<value, params, bound, odbc>>

(* SQLParamData: the driver asks for a stream, by its record.              *)
NextParameter ==
  /\ current_param = NoSlot /\ odbc = "need"
  /\ \E s \in AtExec \ sent : Packet(s) /\ Used({s})

MorePackets ==
  /\ current_param # NoSlot
  /\ Packet(current_param)
  /\ UNCHANGED stale

(* SQLParamData: the driver has all it asked for, and runs.                *)
EverythingSent ==
  /\ current_param = NoSlot /\ odbc = "need" /\ AtExec \subseteq sent
  /\ RanWith([s \in Slots |-> IF IsInput(s) THEN NoParam ELSE params[s]])
  /\ bound' = Gone(Slots \ Outputs)
  /\ phase' = IF phase = "send" THEN "run" ELSE "ready"
  /\ ret' = IF phase = "ready" THEN "null" ELSE ret
  /\ UNCHANGED <<current_param, sent>>
  /\ Used(Outputs)

(* An error of the stream or of ODBC, which knows no call out of its       *)
(* order; while it awaits data it does not drop its bindings either.       *)
SendFails ==
  /\ IF odbc = "need" THEN clean_up_param_data(Slots) ELSE Forget
  /\ odbc' = "idle"
  /\ phase' = "ready" /\ ret' = "false"
  /\ failed' = TRUE
  /\ UNCHANGED <<value, sent, stale>>

SendPacket ==
  /\ Sending
  /\ \/ SendFails
     \/ (NextParameter \/ MorePackets \/ EverythingSent) /\ UNCHANGED failed
  /\ UNCHANGED <<conf, array, executed, past_next_result_end, next>>
-----------------------------------------------------------------------------
(* Results.                                                                *)

(* sqlsrv_next_result, nextRowset; while a stream is awaited they fail.    *)
NextResult ==
  /\ phase = "ready" /\ executed /\ ~past_next_result_end
  /\ odbc # "need"
  /\ \/ /\ odbc = "results"                               \* an error, thrown
        /\ odbc' = "idle" /\ ret' = "false"
        /\ UNCHANGED <<value, params, past_next_result_end, failed, stale>>
     \/ /\ odbc = "results"                               \* another result, or an error kept
        /\ ret' = "true"
        /\ UNCHANGED <<value, params, odbc, past_next_result_end, failed, stale>>
     \/ /\ odbc' = "done"                                 \* no more
        /\ \E t \in IF odbc = "results" THEN Reports ELSE {[s \in Outputs |-> params[s].ind]} :
             LET v == IF odbc = "results" THEN Filled(value) ELSE value
                 p == Told(params, t)
             IN /\ value' = Final(p, v, "final")
                /\ params' = Released(p)
                /\ failed' = (failed \/ Failing(p) # {})
                /\ past_next_result_end' = (Failing(p) = {})
                /\ ret' = IF Failing(p) = {} THEN "null" ELSE "false"
        /\ Used(IF odbc = "results" THEN Outputs ELSE {})
  /\ UNCHANGED <<conf, bound, array, executed, current_param, sent, phase, next>>

(* sqlsrv_cancel.                                                          *)
Cancel ==
  /\ phase = "ready" /\ conf.ext = "sqlsrv"
  /\ odbc = "need" => CancelSends
  /\ odbc' = "idle" /\ ret' = "true"
  /\ UNCHANGED <<conf, value, params, bound, array, executed, past_next_result_end, current_param,
                 sent, phase, next, failed, stale>>

(* The script changes a variable, but none an output still has hold of and *)
(* none the driver has yet to write.                                       *)
Assign ==
  /\ phase = "ready" /\ odbc # "need"
  /\ \E s \in Slots, k \in Kinds :
       /\ params[s].ptr => IsInput(s)
       /\ ~(odbc = "results" /\ value[s].by = "early")
       /\ value' = [value EXCEPT ![s] = Own(k)]
       /\ value' # value
  /\ ret' = "none"
  /\ UNCHANGED <<conf, params, bound, array, executed, past_next_result_end, current_param, odbc,
                 sent, phase, next, failed, stale>>

Next ==
  \/ Execute \/ Flush \/ Bind \/ BindFails \/ Run \/ AfterRun
  \/ SendPacket \/ NextResult \/ Cancel \/ Assign

Spec == Init /\ [][Next]_vars
-----------------------------------------------------------------------------
(* Every use ODBC makes of its pointers finds the parameter there: records *)
(* are freed by an error to bind, to execute and to send and when all      *)
(* streams are sent, and before ODBC looks again each position is bound    *)
(* anew or dropped by SQL_RESET_PARAMS (core_stmt.cpp 458-463, 520-530,    *)
(* 1203-1213).                                                             *)
BoundLive == ~stale

(* The type a NULL was bound with is forgotten with the NULL: a value sent *)
(* in a later execution has another type, or the one its statement         *)
(* declares (core_stmt.cpp 401-408).  A type derived from any other value  *)
(* stays with the position.                                                *)
NullForgotten ==
  \A s \in Slots :
    bound[s] = "live" /\ IsInput(s) /\ conf.decl[s].sql # Derived("null") /\ params[s].php # "null"
      => params[s].sql # Derived("null")

(* When the script is told that there are no more results, every output of *)
(* the execution has been handed over, none is left as it was bound or as  *)
(* the driver wrote it, unless an error was reported for one of this       *)
(* execution (core_stmt.cpp 1041-1049).  One handed over early counts: see *)
(* OutputsWaitForResults.                                                  *)
OutputsHandedOver ==
  ret = "null" /\ executed /\ past_next_result_end /\ ~failed
    => \A s \in Outputs : value[s].by \notin {"bind", "driver"}

(* No output is converted a second time, however often results are asked   *)
(* for after an execution or an error handed some over.                    *)
HandedOverOnce == \A s \in Slots : value[s].by # "twice"

(* An output that cannot be handed over keeps hold of its variable, and    *)
(* none after it is handed over, until the statement is executed again     *)
(* (core_stmt.cpp 3706-3715).                                              *)
FailureKeepsOrder ==
  \A s, t \in Outputs : s <= t /\ params[s].ind = "bad" => value[t].by \notin {"early", "final"}

(* Outputs are finalized only when the driver has written them: "To be      *)
(* called after all results are processed" (core_stmt.cpp 3701-3703).      *)
OutputsWaitForResults == \A s \in Slots : value[s].by # "early"

(* The parameter whose stream is being sent is the one the driver asked    *)
(* for and still awaits (core_stmt.cpp 3757-3778).                         *)
CurrentAsked ==
  current_param # NoSlot => /\ odbc = "need" /\ params[current_param].ind = "exec"
                            /\ bound[current_param] = "live"

(* What ODBC is bound to and asks for is a parameter of this execution,    *)
(* whatever failed before, and none has the type of a NULL before it.      *)
InputsLive == TypeOK /\ BoundLive /\ NullForgotten /\ CurrentAsked

(* Every output is handed over once, in order, or an error was told.       *)
OutputsArrive == OutputsHandedOver /\ HandedOverOnce /\ FailureKeepsOrder
=============================================================================
