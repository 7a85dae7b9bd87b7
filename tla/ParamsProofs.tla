----------------------------- MODULE ParamsProofs -----------------------------
(***************************************************************************)
(* The parameters of a statement, for any number of positions, every way   *)
(* to declare them and every sequence of executions: no pointer ODBC has   *)
(* into a record is used when the record is gone, and outputs are handed   *)
(* over once and in order.                                                 *)
(*                                                                         *)
(* The invariant relates where a call is (phase), what ODBC waits for      *)
(* (odbc) and what the statement counts (executed, past_next_result_end)   *)
(* to the records: whenever ODBC may still write an output, the output is  *)
(* held by ODBC, and by the record unless it was handed over early.        *)
(***************************************************************************)
EXTENDS Params, WellFoundedInduction, TLAPS

HeldOutputs == \A s \in Outputs : bound[s] = "live" /\ params[s].ptr

(* While results are pending the outputs are held, or all went early.      *)
Writable(p, v) ==
  /\ \A s \in Outputs : bound[s] = "live"
  /\ (\A s \in Outputs : p[s].ptr) \/ (\A s \in Outputs : v[s].by = "early")

(* An input that was NULL says so, and no other has its type.              *)
TypesOfInputs ==
  \A s \in Slots :
    IsInput(s) /\ params[s] # NoParam =>
      /\ params[s].php = "null" => params[s].ind = "null"
      /\ params[s].php # "null" /\ conf.decl[s].sql # "varchar" => params[s].sql # "varchar"

(* A record that has a variable has not handed it over, and one that could *)
(* not be handed over has it, and so have those after it.                  *)
Orderly(p, v) ==
  /\ \A s \in Slots : v[s].by # "twice"
  /\ \A s \in Outputs : p[s].ptr => v[s].by \notin {"early", "final"}
  /\ \A s \in Outputs : p[s].ind = "bad" => p[s].ptr
  /\ \A s, r \in Outputs : s <= r /\ p[s].ind = "bad" => v[r].by \notin {"early", "final"}

(* sqlsrv without its array binds nothing.                                 *)
NoArray == ~array => /\ \A s \in Slots : bound[s] = "none"
                     /\ phase \in {"flush", "bind"} => next = {}

AtFlush == phase = "flush" =>
  executed /\ ~past_next_result_end /\ (array => next = Slots)

(* A position is bound by this execution, or it is still to come.          *)
AtBind == phase = "bind" =>
  /\ executed => past_next_result_end /\ odbc # "results"
  /\ array => \A s \in Slots \ next :
                bound[s] = "live" /\ (s \in Outputs => params[s].ptr)

AtRun  == phase = "run"  => odbc \in {"results", "done"} /\ ~failed /\ HeldOutputs
AtSend == phase = "send" => odbc = "need" /\ ~failed

AtNeed == odbc = "need" =>
  /\ phase \in {"send", "ready"} /\ HeldOutputs
  /\ \A s \in Slots : bound[s] = "live"
  /\ phase = "ready" => executed /\ ~past_next_result_end

AtResults == odbc = "results" /\ executed /\ phase \in {"ready", "flush"} =>
  Writable(params, value) /\ ~past_next_result_end

AtReady ==
  /\ phase # "ready" => ret = "pending"
  /\ phase = "ready" /\ executed /\ ~past_next_result_end /\ ~failed =>
       \A s \in Outputs : value[s].by \in {"bind", "driver"} => params[s].ptr

Stages == NoArray /\ AtFlush /\ AtBind /\ AtRun /\ AtSend /\ AtNeed /\ AtResults /\ AtReady

IInv ==
  TypeOK /\ ~stale /\ TypesOfInputs /\ Orderly(params, value) /\ Stages /\ OutputsHandedOver
-----------------------------------------------------------------------------
(* Records and variables.                                                  *)

Records   == [Slots -> Param \cup {NoParam}]
Variables == [Slots -> [kind : InKinds, by : {"script", "bind", "driver", "early", "final", "twice"}]]

(* How an output is handed over.                                           *)
Ways == {"early", "final"}

(* The first of some positions is one of them.                             *)
LEMMA FirstIs ==
  ASSUME NEW T \in SUBSET Slots, T # {}
  PROVE  (CHOOSE x \in T : \A y \in T : x <= y) \in T
<1>. DEFINE less == { p \in Nat \X Nat : p[1] < p[2] }
<1>1. IsWellFoundedOn(less, Nat)
  BY NatLessThanWellFounded DEF OpToRel
<1>2. \A j \in Nat, k \in Nat : j < k => <<j, k>> \in less
  OBVIOUS
<1>. HIDE DEF less
<1>3. T \subseteq Nat
  BY ParamsAssumption
<1>4. PICK a \in T : \A b \in T : ~(<<b, a>> \in less)
  BY <1>1, <1>3, WFMin
<1>5. ASSUME NEW b \in T PROVE a <= b
  <2>1. a \in Nat /\ b \in Nat /\ ~(b < a)
    BY <1>2, <1>3, <1>4
  <2>. QED BY <2>1
<1>. QED BY <1>5

LEMMA NoParamIs == NoParam.ptr = FALSE /\ NoParam.ind = "len" /\ NoParam \notin Param
<1>1. NoParam.ptr = FALSE /\ NoParam.ind = "len" /\ NoParam.php = "none"
  BY DEF NoParam
<1>2. \A p \in Param : p.php \in InKinds
  BY DEF Param
<1>. QED BY <1>1, <1>2 DEF InKinds

LEMMA OutputsAre == \A s \in Slots : s \in Outputs <=> ~IsInput(s)
BY DEF Outputs

(* What the driver reports of held outputs changes their indicators.       *)
LEMMA ToldIs ==
  ASSUME NEW p \in Records, NEW t, \A s \in Outputs : t[s] \in {"len", "null", "exec", "bad"},
         \A s \in Written : p[s].ptr
  PROVE  /\ Told(p, t) \in Records
         /\ \A s \in Slots \ Written : Told(p, t)[s] = p[s]
         /\ \A s \in Slots : Told(p, t)[s].ptr = p[s].ptr
         /\ \A s \in Written : Told(p, t)[s].ind = t[s]
<1>1. \A s \in Slots : s \in Written => p[s] \in Param
  BY NoParamIs DEF Records
<1>2. \A s \in Slots : Told(p, t)[s] = IF s \in Written THEN [p[s] EXCEPT !.ind = t[s]] ELSE p[s]
  BY DEF Told
<1>3. Written \subseteq Outputs /\ Outputs \subseteq Slots
  BY DEF Written, Outputs
<1>4. ASSUME NEW s \in Slots, s \in Written
      PROVE  /\ Told(p, t)[s] \in Param /\ Told(p, t)[s].ptr = p[s].ptr
             /\ Told(p, t)[s].ind = t[s]
  BY <1>1, <1>2, <1>3, <1>4 DEF Param
<1>5. ASSUME NEW s \in Slots PROVE Told(p, t)[s] \in Param \cup {NoParam}
  BY <1>2, <1>4 DEF Records
<1>6. Told(p, t) \in Records
  BY <1>5 DEF Told, Records
<1>7. \A s \in Slots : Told(p, t)[s].ptr = p[s].ptr
  BY <1>2, <1>4
<1>. QED BY <1>2, <1>3, <1>4, <1>6, <1>7

LEMMA FilledIs ==
  ASSUME NEW v \in Variables
  PROVE  /\ Filled(v) \in Variables
         /\ \A s \in Slots \ Written : Filled(v)[s] = v[s]
         /\ \A s \in Written : Filled(v)[s].by = "driver"
<1>1. \A s \in Slots : Filled(v)[s] = IF s \in Written THEN [v[s] EXCEPT !.by = "driver"] ELSE v[s]
  BY DEF Filled
<1>2. Written \subseteq Slots
  BY DEF Written, Outputs
<1>3. Filled(v) \in Variables
  BY DEF Filled, Variables
<1>. QED BY <1>1, <1>2, <1>3 DEF Variables

LEMMA FinalIs ==
  ASSUME NEW p \in Records, NEW v \in Variables, NEW how \in Ways
  PROVE  /\ Released(p) \in Records /\ Final(p, v, how) \in Variables
         /\ \A s \in Slots : s \in Handed(p) =>
              /\ Released(p)[s].ptr = FALSE /\ Released(p)[s].ind = p[s].ind
              /\ v[s].by \notin {"early", "final"} => Final(p, v, how)[s].by = how
         /\ \A s \in Slots : s \notin Handed(p) =>
              Released(p)[s] = p[s] /\ Final(p, v, how)[s] = v[s]
<1>1. \A s \in Slots : s \in Handed(p) => p[s] \in Param
  BY NoParamIs DEF Records, Handed
<1>2. ASSUME NEW s \in Slots, s \in Handed(p)
      PROVE  /\ Released(p)[s] \in Param
             /\ Released(p)[s].ptr = FALSE /\ Released(p)[s].ind = p[s].ind
  <2>1. Released(p)[s] = [p[s] EXCEPT !.ptr = FALSE]
    BY <1>2 DEF Released
  <2>. QED BY <1>1, <1>2, <2>1 DEF Param
<1>3. \A s \in Slots : s \notin Handed(p) => Released(p)[s] = p[s] /\ Final(p, v, how)[s] = v[s]
  BY DEF Released, Final
<1>4. Released(p) \in Records
  <2>1. \A s \in Slots : Released(p)[s] \in Param \cup {NoParam}
    BY <1>2, <1>3 DEF Records
  <2>. QED BY <2>1 DEF Released, Records
<1>5. ASSUME NEW s \in Slots, s \in Handed(p)
      PROVE  /\ Final(p, v, how)[s] \in [kind : InKinds, by : {"script", "bind", "driver", "early", "final", "twice"}]
             /\ v[s].by \notin {"early", "final"} => Final(p, v, how)[s].by = how
  <2>1. Final(p, v, how)[s] = [kind |-> IF p[s].ind = "null" THEN "null" ELSE v[s].kind,
                          by   |-> IF v[s].by \in {"early", "final"} THEN "twice" ELSE how]
    BY <1>5 DEF Final
  <2>2. v[s].kind \in InKinds /\ "null" \in InKinds
    BY DEF Variables, InKinds
  <2>. QED BY <2>1, <2>2 DEF Ways
<1>6. Final(p, v, how) \in Variables
  <2>1. \A s \in Slots : Final(p, v, how)[s] \in [kind : InKinds, by : {"script", "bind", "driver", "early", "final", "twice"}]
    BY <1>3, <1>5 DEF Variables
  <2>. QED BY <2>1 DEF Final, Variables
<1>. QED BY <1>2, <1>3, <1>4, <1>5, <1>6

(* The driver writes the outputs that are held, and none is final.         *)
LEMMA WritingIsOrderly ==
  ASSUME NEW p \in Records, NEW v \in Variables, NEW t, \A s \in Outputs : t[s] \in {"len", "null", "exec", "bad"},
         Writable(p, v), Orderly(p, v), \A s \in Outputs : p[s].ptr <=> params[s].ptr
  PROVE  /\ Told(p, t) \in Records /\ Filled(v) \in Variables
         /\ Orderly(Told(p, t), Filled(v))
         /\ \A s \in Outputs : Told(p, t)[s].ptr <=> p[s].ptr
         /\ Writable(Told(p, t), Filled(v))
         /\ \A s \in Slots : IsInput(s) => Told(p, t)[s] = p[s] /\ Filled(v)[s] = v[s]
<1>1. /\ \A s \in Outputs : s \in Written <=> p[s].ptr
      /\ Written \subseteq Outputs /\ Outputs \subseteq Slots
  BY DEF Written, Writable, Outputs
<1>2. \A s \in Slots : s \in Outputs <=> ~IsInput(s)
  BY OutputsAre
<1>3. /\ Told(p, t) \in Records /\ Filled(v) \in Variables
      /\ \A s \in Slots : Told(p, t)[s].ptr = p[s].ptr
      /\ \A s \in Slots \ Written : Told(p, t)[s] = p[s] /\ Filled(v)[s] = v[s]
      /\ \A s \in Written : Filled(v)[s].by = "driver"
  BY <1>1, ToldIs, FilledIs
<1>4. CASE \A s \in Outputs : p[s].ptr
  <2>1. \A s \in Outputs : Filled(v)[s].by = "driver"
    BY <1>1, <1>3, <1>4
  <2>2. \A s \in Slots : Filled(v)[s].by # "twice"
    BY <1>1, <1>3, <2>1 DEF Orderly
  <2>3. Orderly(Told(p, t), Filled(v))
    BY <1>1, <1>3, <1>4, <2>1, <2>2 DEF Orderly
  <2>4. Writable(Told(p, t), Filled(v))
    BY <1>1, <1>3, <1>4 DEF Writable
  <2>. QED BY <1>1, <1>2, <1>3, <2>3, <2>4
<1>5. CASE \A s \in Outputs : v[s].by = "early"
  <2>1. Written = {}
    BY <1>1, <1>5 DEF Orderly
  <2>2. \A s \in Slots : Told(p, t)[s] = p[s] /\ Filled(v)[s] = v[s]
    BY <1>3, <2>1
  <2>3. Orderly(Told(p, t), Filled(v))
    BY <1>1, <2>2 DEF Orderly
  <2>4. Writable(Told(p, t), Filled(v))
    BY <1>1, <1>5, <2>2 DEF Writable
  <2>. QED BY <1>1, <1>3, <2>2, <2>3, <2>4
<1>. QED BY <1>4, <1>5 DEF Writable

(* Handing over from the first to the first that fails.                    *)
LEMMA HandingIsOrderly ==
  ASSUME NEW p \in Records, NEW v \in Variables, Orderly(p, v), NEW how \in Ways
  PROVE  /\ Released(p) \in Records /\ Final(p, v, how) \in Variables
         /\ Orderly(Released(p), Final(p, v, how))
         /\ \A s \in Slots : Final(p, v, how)[s].by # "twice"
         /\ Failing(p) = {} => \A s \in Outputs : p[s].ptr => Final(p, v, how)[s].by = how
         /\ Failing(p) = {} =>
              \A s \in Outputs : Final(p, v, how)[s].by \in {"bind", "driver"} =>
                                  v[s].by \in {"bind", "driver"} /\ ~p[s].ptr
         /\ \A s \in Slots : IsInput(s) => Released(p)[s] = p[s] /\ Final(p, v, how)[s] = v[s]
<1>1. /\ Released(p) \in Records /\ Final(p, v, how) \in Variables
      /\ \A s \in Slots : s \in Handed(p) =>
              /\ Released(p)[s].ptr = FALSE /\ Released(p)[s].ind = p[s].ind
              /\ v[s].by \notin {"early", "final"} => Final(p, v, how)[s].by = how
      /\ \A s \in Slots : s \notin Handed(p) => Released(p)[s] = p[s] /\ Final(p, v, how)[s] = v[s]
  BY FinalIs
<1>2. /\ \A s \in Handed(p) : s \in Outputs /\ p[s].ptr /\ \A b \in Failing(p) : s < b
      /\ \A s \in Outputs : p[s].ptr /\ p[s].ind = "bad" => s \in Failing(p)
      /\ Failing(p) = {} => \A s \in Outputs : p[s].ptr => s \in Handed(p)
  BY DEF Handed, Failing
<1>3. Outputs \subseteq Slots /\ Slots \subseteq Nat /\ \A s \in Slots : s \in Outputs <=> ~IsInput(s)
  BY ParamsAssumption DEF Outputs
<1>4. \A s \in Slots : Final(p, v, how)[s].by # "twice"
  BY <1>1, <1>2 DEF Orderly, Ways
<1>11. \A s, r \in Nat : s <= r => ~(r < s)
  OBVIOUS
<1>12. Outputs \subseteq Nat
  BY <1>3
<1>5. ASSUME NEW s \in Handed(p) PROVE p[s].ind # "bad"
  <2>1. s \in Nat /\ s \in Outputs /\ p[s].ptr
    BY <1>2, <1>12
  <2>2. ~(s < s)
    BY <2>1
  <2>. QED BY <1>2, <2>1, <2>2
<1>6. \A s \in Outputs :
        /\ Released(p)[s].ptr => Final(p, v, how)[s].by \notin {"early", "final"}
        /\ Released(p)[s].ind = "bad" => Released(p)[s].ptr
  BY <1>1, <1>3, <1>5 DEF Orderly
<1>7. ASSUME NEW s \in Outputs, NEW r \in Outputs, s <= r, Released(p)[s].ind = "bad"
      PROVE  Final(p, v, how)[r].by \notin {"early", "final"}
  <2>1. p[s].ind = "bad" /\ s \in Failing(p)
    BY <1>1, <1>2, <1>3, <1>7 DEF Orderly
  <2>2. r \notin Handed(p)
    <3>1. ~(r < s)
      BY <1>7, <1>11, <1>12
    <3>. QED BY <1>2, <2>1, <3>1
  <2>3. Final(p, v, how)[r] = v[r]
    BY <1>1, <1>3, <2>2
  <2>. QED BY <1>7, <2>1, <2>3 DEF Orderly
<1>8. Orderly(Released(p), Final(p, v, how))
  BY <1>4, <1>6, <1>7 DEF Orderly
<1>13. Failing(p) = {} => \A s \in Outputs : p[s].ptr => Final(p, v, how)[s].by = how
  BY <1>1, <1>2, <1>3 DEF Orderly
<1>9. Failing(p) = {} =>
        \A s \in Outputs : Final(p, v, how)[s].by \in {"bind", "driver"} =>
                            v[s].by \in {"bind", "driver"} /\ ~p[s].ptr
  BY <1>1, <1>2, <1>3, <1>13 DEF Ways
<1>10. \A s \in Slots : IsInput(s) => s \notin Handed(p)
  BY <1>2, <1>3
<1>. QED BY <1>1, <1>4, <1>8, <1>9, <1>10, <1>13
-----------------------------------------------------------------------------
(* What a step leaves alone.                                               *)
LEMMA SameOutputs ==
  ASSUME conf' = conf
  PROVE  Outputs' = Outputs /\ \A s \in Slots : IsInput(s)' <=> IsInput(s)
BY DEF Outputs, IsInput

LEMMA InputsCarried ==
  ASSUME IInv, conf' = conf,
         \A s \in Slots : IsInput(s) => params'[s] \in {params[s], NoParam}
  PROVE  TypesOfInputs'
BY DEF IInv, TypesOfInputs, IsInput

LEMMA OrderCarried ==
  ASSUME conf' = conf, Orderly(params', value')
  PROVE  Orderly(params, value)'
BY DEF Orderly, Outputs, IsInput

LEMMA HeldCarried ==
  ASSUME conf' = conf,
         \A s \in Outputs : bound'[s] = "live" /\ params'[s].ptr
  PROVE  HeldOutputs'
BY DEF HeldOutputs, Outputs, IsInput

LEMMA WritableCarried ==
  ASSUME conf' = conf, bound' = bound, Writable(params', value')
  PROVE  Writable(params, value)'
<1>1. Outputs' = Outputs
  BY SameOutputs
<1>. QED BY <1>1 DEF Writable

LEMMA DataKept ==
  ASSUME IInv, UNCHANGED <<conf, params, value>>
  PROVE  /\ params' \in Records /\ value' \in Variables
         /\ TypesOfInputs' /\ Orderly(params, value)'
<1>1. TypesOfInputs'
  BY InputsCarried
<1>2. Orderly(params, value)'
  BY OrderCarried DEF IInv
<1>. QED BY <1>1, <1>2 DEF IInv, TypeOK, Records, Variables

LEMMA DataForgotten ==
  ASSUME IInv, conf' = conf, params' = [s \in Slots |-> NoParam],
         \A s \in Slots : value'[s].by # "twice"
  PROVE  /\ params' \in Records /\ TypesOfInputs' /\ Orderly(params, value)'
<1>1. \A s \in Slots : params'[s] = NoParam
  OBVIOUS
<1>2. TypesOfInputs'
  BY <1>1, InputsCarried
<1>3. Outputs \subseteq Slots
  BY DEF Outputs
<1>4. Orderly(params', value')
  BY <1>1, <1>3, NoParamIs DEF Orderly
<1>5. Orderly(params, value)'
  BY <1>4, OrderCarried
<1>6. params' \in Records
  BY DEF Records
<1>. QED BY <1>2, <1>5, <1>6

(* The records are freed: ODBC keeps its pointers, or not.                 *)
LEMMA CleanedUp ==
  ASSUME IInv, clean_up_param_data(Slots) \/ Forget, conf' = conf, value' \in Variables,
         \A s \in Slots : value'[s].by # "twice"
  PROVE  /\ params' \in Records /\ TypesOfInputs' /\ Orderly(params, value)'
         /\ bound' \in [Slots -> {"none", "live", "gone"}] /\ current_param' = NoSlot
         /\ \A s \in Slots : bound[s] = "none" => bound'[s] = "none"
<1>1. params' = [s \in Slots |-> NoParam] /\ current_param' = NoSlot
  BY DEF clean_up_param_data, Forget
<1>2. /\ bound' \in [Slots -> {"none", "live", "gone"}]
      /\ \A s \in Slots : bound[s] = "none" => bound'[s] = "none"
  BY DEF clean_up_param_data, Forget, Gone, IInv, TypeOK
<1>. QED BY <1>1, <1>2, DataForgotten
-----------------------------------------------------------------------------
(* Binding.                                                                *)
LEMMA ExecuteKeeps ==
  ASSUME IInv, Execute
  PROVE  IInv'
<1>1. /\ phase = "ready" /\ odbc # "need" /\ ret' = "pending"
      /\ phase' = IF executed /\ ~past_next_result_end THEN "flush" ELSE "bind"
      /\ next' = IF array THEN Slots ELSE {}
      /\ executed' = (executed /\ (phase' = "flush" \/ conf.ext = "pdo" \/ ~array))
      /\ UNCHANGED <<conf, value, params, bound, array, past_next_result_end, current_param, odbc,
                     sent, failed, stale>>
  BY DEF Execute
<1>2. /\ params' \in Records /\ value' \in Variables
      /\ TypesOfInputs' /\ Orderly(params, value)'
  BY <1>1, DataKept
<1>3. TypeOK' /\ ~stale'
  BY <1>1, <1>2 DEF IInv, TypeOK, Records, Variables
<1>4. /\ HeldOutputs => HeldOutputs'
      /\ Writable(params, value) => Writable(params, value)'
  BY <1>1, HeldCarried, WritableCarried DEF HeldOutputs
<1>5. NoArray' /\ AtFlush' /\ AtRun' /\ AtSend' /\ AtNeed' /\ AtReady' /\ OutputsHandedOver'
  BY <1>1 DEF IInv, Stages, NoArray, AtFlush, AtRun, AtSend, AtNeed, AtReady, OutputsHandedOver
<1>6. AtBind'
  BY <1>1 DEF IInv, Stages, AtBind, AtResults
<1>7. AtResults'
  BY <1>1, <1>4 DEF IInv, Stages, AtResults
<1>. QED BY <1>2, <1>3, <1>5, <1>6, <1>7 DEF IInv, Stages

LEMMA FlushKeeps ==
  ASSUME IInv, Flush
  PROVE  IInv'
<1>1. /\ phase = "flush" /\ odbc' = "done" /\ past_next_result_end' = TRUE /\ phase' = "bind"
      /\ executed' = (conf.ext = "pdo" \/ ~array)
      /\ UNCHANGED <<conf, bound, array, current_param, sent, next, ret, failed>>
  BY DEF Flush
<1>2. /\ params' \in Records /\ value' \in Variables
      /\ TypesOfInputs' /\ Orderly(params, value)' /\ ~stale' /\ stale' \in BOOLEAN
  <2>1. CASE odbc = "results"
    <3>1. Writable(params, value)
      BY <1>1, <2>1 DEF IInv, Stages, AtFlush, AtResults
    <3>2. PICK t \in Reports : params' = Told(params, t)
      BY <2>1 DEF Flush
    <3>3. value' = Filled(value) /\ Used(Outputs)
      BY <2>1 DEF Flush
    <3>4. \A s \in Outputs : t[s] \in {"len", "null", "exec", "bad"}
      BY DEF Reports
    <3>5. params \in Records /\ value \in Variables /\ Orderly(params, value)
      BY DEF IInv, TypeOK, Records, Variables
    <3>6. /\ params' \in Records /\ value' \in Variables /\ Orderly(params', value')
          /\ \A s \in Slots : IsInput(s) => params'[s] = params[s]
      BY <3>1, <3>2, <3>3, <3>4, <3>5, WritingIsOrderly
    <3>7. stale' = FALSE
      BY <3>1, <3>3 DEF Used, Writable, IInv, TypeOK
    <3>. QED BY <1>1, <3>6, <3>7, OrderCarried, InputsCarried
  <2>2. CASE odbc # "results"
    <3>1. UNCHANGED <<params, value, stale>>
      BY <2>2 DEF Flush
    <3>. QED BY <1>1, <3>1, DataKept DEF IInv, TypeOK
  <2>. QED BY <2>1, <2>2
<1>3. TypeOK'
  BY <1>1, <1>2 DEF IInv, TypeOK, Records, Variables
<1>4. /\ NoArray' /\ AtFlush' /\ AtRun' /\ AtSend' /\ AtNeed' /\ AtResults' /\ AtReady'
      /\ OutputsHandedOver'
  BY <1>1 DEF IInv, Stages, NoArray, AtFlush, AtRun, AtSend, AtNeed, AtResults, AtReady,
              OutputsHandedOver
<1>5. AtBind'
  BY <1>1 DEF IInv, Stages, AtBind, AtFlush
<1>. QED BY <1>2, <1>3, <1>4, <1>5 DEF IInv, Stages

(* The type a value is bound with.                                         *)
LEMMA TypedIs ==
  ASSUME IInv, NEW s \in Slots, NEW kind \in InKinds
  PROVE  /\ Typed(s, kind) \in SqlTypes \ {"unknown"}
         /\ IsInput(s) /\ kind # "null" /\ conf.decl[s].sql # "varchar" => Typed(s, kind) # "varchar"
<1>1. /\ Derived(kind) \in SqlTypes \ {"unknown"}
      /\ kind # "null" => Derived(kind) # "varchar"
  BY DEF Derived, SqlTypes
<1>2. conf.decl[s].sql \in SqlTypes
  BY ParamsAssumption DEF IInv, TypeOK, Declaration
<1>3. params[s] # NoParam => params[s].sql \in SqlTypes
  BY DEF IInv, TypeOK, Param
<1>4. StartType(s) \in SqlTypes
  BY <1>2, <1>3 DEF StartType
<1>5. IsInput(s) /\ conf.decl[s].sql # "varchar" => StartType(s) # "varchar"
  BY DEF StartType, IInv, TypesOfInputs
<1>. QED BY <1>1, <1>4, <1>5 DEF Typed

LEMMA BindKeeps ==
  ASSUME IInv, Bind
  PROVE  IInv'
<1>1. /\ phase = "bind" /\ next # {}
      /\ UNCHANGED <<conf, array, executed, past_next_result_end, current_param, odbc, sent, phase,
                     ret, failed, stale>>
  BY DEF Bind
<1>2. PICK s \in next : /\ Process(s) /\ bound' = [bound EXCEPT ![s] = "live"]
                        /\ next' = next \ {s}
  <2>1. next \subseteq Slots
    BY DEF IInv, TypeOK
  <2>2. (CHOOSE x \in next : \A y \in next : x <= y) \in next
    BY <1>1, <2>1, FirstIs
  <2>. QED BY <2>2 DEF Bind
<1>3. /\ s \in Slots /\ params \in Records /\ value \in Variables
      /\ Outputs \subseteq Slots /\ (s \in Outputs <=> ~IsInput(s))
  BY OutputsAre DEF IInv, TypeOK, Records, Variables, Outputs
<1>4. value[s].kind \in InKinds
  BY <1>3 DEF Variables
<1>5. /\ params' \in Records /\ value' \in Variables
      /\ TypesOfInputs' /\ Orderly(params, value)'
      /\ \A r \in Slots \ {s} : params'[r] = params[r]
      /\ s \in Outputs => params'[s].ptr
  <2>1. CASE IsInput(s)
    <3>. DEFINE kind == value[s].kind
                p == [php |-> kind, sql |-> Typed(s, kind), ind |-> Indicator(kind),
                      ptr |-> kind = "stream"]
    <3>1. params' = [params EXCEPT ![s] = p] /\ value' = value
      BY <1>2, <2>1 DEF Process, process_input
    <3>2. /\ Typed(s, kind) \in SqlTypes \ {"unknown"}
          /\ kind # "null" /\ conf.decl[s].sql # "varchar" => Typed(s, kind) # "varchar"
      BY <1>3, <1>4, <2>1, TypedIs
    <3>3. Indicator(kind) \in {"len", "null", "exec"} /\ (kind = "null" => Indicator(kind) = "null")
      BY DEF Indicator
    <3>4. p \in Param
      BY <1>4, <3>2, <3>3 DEF Param
    <3>. HIDE DEF kind
    <3>5. params' \in Records /\ params'[s] = p /\ \A r \in Slots \ {s} : params'[r] = params[r]
      BY <1>3, <3>1, <3>4 DEF Records
    <3>6. TypesOfInputs'
      BY <1>1, <3>2, <3>3, <3>5 DEF TypesOfInputs, IInv, IsInput
    <3>7. Orderly(params', value')
      BY <1>3, <2>1, <3>1, <3>5 DEF Orderly, IInv
    <3>. QED BY <1>1, <1>3, <2>1, <3>1, <3>5, <3>6, <3>7, OrderCarried
  <2>2. CASE ~IsInput(s)
    <3>. DEFINE d == conf.decl[s]
                p == [php |-> d.out, sql |-> Typed(s, d.out),
                      ind |-> IF value[s].kind = "null" THEN "null" ELSE "len", ptr |-> TRUE]
                v == [kind |-> d.out, by |-> IF d.out = "string" THEN "bind" ELSE "script"]
    <3>1. params' = [params EXCEPT ![s] = p] /\ value' = [value EXCEPT ![s] = v]
      BY <1>2, <2>2 DEF Process, process_output
    <3>2. d.out \in InKinds
      BY <1>3, ParamsAssumption DEF IInv, TypeOK, Declaration, OutKinds, InKinds
    <3>3. Typed(s, d.out) \in SqlTypes \ {"unknown"}
      BY <1>3, <3>2, TypedIs
    <3>4. p \in Param /\ p.ptr = TRUE /\ p.ind # "bad"
      BY <3>2, <3>3 DEF Param
    <3>5. v \in [kind : InKinds, by : {"script", "bind"}]
      BY <3>2
    <3>. HIDE DEF p, v
    <3>6. /\ params' \in Records /\ params'[s] = p
          /\ \A r \in Slots \ {s} : params'[r] = params[r]
      BY <1>3, <3>1, <3>4 DEF Records
    <3>7. /\ value' \in Variables /\ value'[s] = v
          /\ \A r \in Slots \ {s} : value'[r] = value[r]
      BY <1>3, <3>1, <3>5 DEF Variables
    <3>8. TypesOfInputs'
      BY <1>1, <2>2, <3>6 DEF TypesOfInputs, IInv, IsInput
    <3>9. v.by \notin {"early", "final", "twice"}
      BY <3>5
    <3>10. Orderly(params', value')
      BY <1>3, <3>4, <3>6, <3>7, <3>9 DEF Orderly, IInv
    <3>. QED BY <1>1, <3>4, <3>6, <3>7, <3>8, <3>10, OrderCarried
  <2>. QED BY <2>1, <2>2
<1>6. bound' \in [Slots -> {"none", "live", "gone"}] /\ bound'[s] = "live"
      /\ \A r \in Slots \ {s} : bound'[r] = bound[r]
  BY <1>2, <1>3 DEF IInv, TypeOK
<1>7. TypeOK' /\ ~stale'
  BY <1>1, <1>2, <1>5, <1>6 DEF IInv, TypeOK, Records, Variables
<1>8. array
  BY <1>1 DEF IInv, Stages, NoArray
<1>9. AtBind'
  BY <1>1, <1>2, <1>3, <1>5, <1>6, SameOutputs DEF IInv, Stages, AtBind
<1>10. /\ NoArray' /\ AtFlush' /\ AtRun' /\ AtSend' /\ AtNeed' /\ AtResults' /\ AtReady'
       /\ OutputsHandedOver'
  BY <1>1, <1>8 DEF IInv, Stages, NoArray, AtFlush, AtRun, AtSend, AtNeed, AtResults, AtReady,
                   OutputsHandedOver
<1>. QED BY <1>5, <1>7, <1>9, <1>10 DEF IInv, Stages

LEMMA BindFailsKeeps ==
  ASSUME IInv, BindFails
  PROVE  IInv'
<1>1. /\ phase = "bind" /\ next' = {} /\ phase' = "ready" /\ ret' = "false"
      /\ array' = (conf.ext = "pdo") /\ Forget
      /\ UNCHANGED <<conf, value, executed, past_next_result_end, odbc, sent, failed, stale>>
  BY DEF BindFails
<1>2. \A s \in Slots : value[s].by # "twice"
  BY DEF IInv, Orderly
<1>3. /\ params' \in Records /\ TypesOfInputs' /\ Orderly(params, value)'
      /\ bound' = [s \in Slots |-> "none"] /\ current_param' = NoSlot
  BY <1>1, <1>2, CleanedUp DEF Forget, IInv, TypeOK, Variables
<1>4. TypeOK' /\ ~stale'
  BY <1>1, <1>3 DEF IInv, TypeOK, Records
<1>5. NoArray' /\ AtFlush' /\ AtBind' /\ AtRun' /\ AtSend' /\ OutputsHandedOver'
  BY <1>1, <1>3 DEF NoArray, AtFlush, AtBind, AtRun, AtSend, OutputsHandedOver
<1>6. AtNeed' /\ AtResults' /\ AtReady'
  BY <1>1 DEF IInv, Stages, AtBind, AtNeed, AtResults, AtReady
<1>. QED BY <1>3, <1>4, <1>5, <1>6 DEF IInv, Stages
-----------------------------------------------------------------------------
(* Executing.                                                              *)
LEMMA ExecutionFailing ==
  ASSUME IInv, NEW ex \in BOOLEAN, ExecutionFails(odbc, ex), conf' = conf, value' \in Variables,
         \A s \in Slots : value'[s].by # "twice",
         UNCHANGED <<array, next, sent, stale>>,
         executed' \in BOOLEAN, past_next_result_end' \in BOOLEAN,
         executed' => odbc' = "idle", odbc # "need" \/ ex
  PROVE  IInv'
<1>1. /\ clean_up_param_data(Slots) /\ odbc' = IF ex THEN "idle" ELSE odbc
      /\ phase' = "ready" /\ ret' = "false" /\ failed' = TRUE
  BY DEF ExecutionFails
<1>2. /\ params' \in Records /\ TypesOfInputs' /\ Orderly(params, value)'
      /\ bound' \in [Slots -> {"none", "live", "gone"}] /\ current_param' = NoSlot
      /\ \A s \in Slots : bound[s] = "none" => bound'[s] = "none"
  BY <1>1, CleanedUp
<1>3. TypeOK' /\ ~stale'
  BY <1>1, <1>2 DEF IInv, TypeOK, Records, Variables
<1>4. /\ NoArray' /\ AtFlush' /\ AtBind' /\ AtRun' /\ AtSend' /\ AtReady' /\ OutputsHandedOver'
  BY <1>1, <1>2 DEF IInv, Stages, NoArray, AtFlush, AtBind, AtRun, AtSend, AtReady,
                    OutputsHandedOver
<1>5. AtNeed' /\ AtResults'
  BY <1>1 DEF AtNeed, AtResults
<1>. QED BY <1>2, <1>3, <1>4, <1>5 DEF IInv, Stages

(* The statement ran: there are results, or its outputs are written.       *)
LEMMA Ran ==
  ASSUME IInv, NEW p \in Records, RanWith(p), conf' = conf,
         \A s \in Outputs : bound[s] = "live" /\ p[s].ptr /\ p[s] = params[s],
         \A s \in Slots : IsInput(s) => p[s] \in {params[s], NoParam}
  PROVE  /\ params' \in Records /\ value' \in Variables
         /\ TypesOfInputs' /\ Orderly(params, value)'
         /\ \A s \in Outputs : params'[s].ptr
         /\ odbc' \in {"results", "done"}
<1>1. /\ value \in Variables /\ Writable(p, value) /\ Orderly(p, value)
      /\ \A s \in Outputs : p[s].ptr <=> params[s].ptr
  BY DEF IInv, TypeOK, Variables, Orderly, Writable
<1>2. CASE odbc' = "results" /\ params' = p /\ UNCHANGED value
  <2>1. Outputs \subseteq Slots
    BY DEF Outputs
  <2>2. Orderly(params', value')
    BY <1>2, <2>1 DEF IInv, Orderly
  <2>3. TypesOfInputs'
    BY <1>2, InputsCarried
  <2>. QED BY <1>1, <1>2, <2>2, <2>3, OrderCarried
<1>3. CASE odbc' = "done" /\ value' = Filled(value) /\ \E t \in Reports : params' = Told(p, t)
  <2>1. PICK t \in Reports : params' = Told(p, t)
    BY <1>3
  <2>2. \A s \in Outputs : t[s] \in {"len", "null", "exec", "bad"}
    BY DEF Reports
  <2>3. /\ params' \in Records /\ value' \in Variables /\ Orderly(params', value')
        /\ \A s \in Outputs : params'[s].ptr
        /\ \A s \in Slots : IsInput(s) => params'[s] = p[s]
    BY <1>1, <1>3, <2>1, <2>2, WritingIsOrderly
  <2>4. TypesOfInputs'
    BY <2>3, InputsCarried
  <2>. QED BY <1>3, <2>3, <2>4, OrderCarried
<1>. QED BY <1>2, <1>3 DEF RanWith

LEMMA RunKeeps ==
  ASSUME IInv, Run
  PROVE  IInv'
<1>1. /\ phase = "bind" /\ next = {} /\ Used(Slots) /\ sent' = {}
      /\ UNCHANGED <<conf, array, next>>
  BY DEF Run
<1>2. /\ array => \A s \in Slots : bound[s] = "live" /\ (s \in Outputs => params[s].ptr)
      /\ ~array => \A s \in Slots : bound[s] = "none"
      /\ odbc # "need" /\ (executed => past_next_result_end /\ odbc # "results")
  BY <1>1 DEF IInv, Stages, AtBind, AtNeed, NoArray
<1>3. stale' = FALSE
  <2>1. \A s \in Slots : bound[s] # "gone"
    BY <1>2, array \/ ~array
  <2>. QED BY <1>1, <2>1 DEF Used, IInv, TypeOK
<1>4. /\ params \in Records /\ value \in Variables /\ \A s \in Slots : value[s].by # "twice"
      /\ executed \in BOOLEAN /\ past_next_result_end \in BOOLEAN /\ Outputs \subseteq Slots
  BY DEF IInv, TypeOK, Records, Variables, Orderly, Outputs
<1>5. CASE /\ ExecutionFails(odbc, executed)
           /\ UNCHANGED <<value, executed, past_next_result_end>>
  <2>1. phase' = "ready" /\ ret' = "false" /\ failed' = TRUE
        /\ odbc' = IF executed THEN "idle" ELSE odbc
    BY <1>5 DEF ExecutionFails
  <2>2. /\ params' \in Records /\ TypesOfInputs' /\ Orderly(params, value)'
        /\ bound' \in [Slots -> {"none", "live", "gone"}] /\ current_param' = NoSlot
        /\ \A s \in Slots : bound[s] = "none" => bound'[s] = "none"
    BY <1>1, <1>4, <1>5, CleanedUp DEF ExecutionFails
  <2>3. TypeOK' /\ ~stale'
    BY <1>1, <1>3, <1>4, <1>5, <2>1, <2>2 DEF IInv, TypeOK, Records, Variables
  <2>4. /\ NoArray' /\ AtFlush' /\ AtBind' /\ AtRun' /\ AtSend' /\ AtReady' /\ OutputsHandedOver'
        /\ AtNeed' /\ AtResults'
    BY <1>1, <1>2, <1>5, <2>1, <2>2 DEF IInv, Stages, NoArray, AtFlush, AtBind, AtRun, AtSend,
       AtReady, AtNeed, AtResults, OutputsHandedOver
  <2>. QED BY <2>2, <2>3, <2>4 DEF IInv, Stages
<1>6. ASSUME ~Refused
      PROVE  HeldOutputs /\ \A s \in Slots : bound[s] = "live"
  <2>1. \A s \in Slots : bound[s] # "none"
    BY <1>6 DEF Refused
  <2>. QED BY <1>2, <1>4, <2>1 DEF HeldOutputs
<1>7. CASE /\ ~Refused /\ AtExec # {}
           /\ failed' = FALSE
           /\ odbc' = "need"
           /\ IF conf.send
              THEN phase' = "send" /\ UNCHANGED <<executed, past_next_result_end, ret>>
              ELSE phase' = "ready" /\ executed' = TRUE /\ past_next_result_end' = FALSE /\ ret' = "true"
           /\ UNCHANGED <<value, params, bound, current_param>>
  <2>1. HeldOutputs' /\ \A s \in Slots : bound'[s] = "live"
    BY <1>1, <1>6, <1>7, HeldCarried DEF HeldOutputs
  <2>2. /\ params' \in Records /\ value' \in Variables
        /\ TypesOfInputs' /\ Orderly(params, value)'
    BY <1>1, <1>7, DataKept
  <2>3. /\ phase' \in {"send", "ready"}
        /\ phase' = "send" => UNCHANGED <<executed, past_next_result_end, ret>>
        /\ phase' = "ready" => executed' = TRUE /\ past_next_result_end' = FALSE /\ ret' = "true"
    BY <1>7
  <2>4. executed' \in BOOLEAN /\ past_next_result_end' \in BOOLEAN
        /\ ret' \in {"none", "true", "false", "null", "pending"}
    BY <1>4, <2>3 DEF IInv, TypeOK
  <2>5. TypeOK' /\ ~stale'
    BY <1>1, <1>3, <1>7, <2>2, <2>3, <2>4 DEF IInv, TypeOK, Records, Variables
  <2>6. /\ NoArray' /\ AtFlush' /\ AtBind' /\ AtRun' /\ AtSend' /\ OutputsHandedOver'
        /\ AtNeed' /\ AtResults'
    BY <1>1, <1>7, <2>1, <2>3 DEF IInv, Stages, NoArray, AtFlush, AtBind, AtRun, AtSend, AtReady,
       AtNeed, AtResults, OutputsHandedOver
  <2>7. AtReady'
    BY <1>1, <2>1, <2>3 DEF IInv, Stages, AtReady, HeldOutputs
  <2>. QED BY <2>2, <2>5, <2>6, <2>7 DEF IInv, Stages
<1>8. CASE /\ ~Refused /\ AtExec = {}
           /\ failed' = FALSE
           /\ RanWith(params)
           /\ phase' = "run"
           /\ UNCHANGED <<bound, current_param, executed, past_next_result_end, ret>>
  <2>1. /\ params' \in Records /\ value' \in Variables
        /\ TypesOfInputs' /\ Orderly(params, value)'
        /\ \A s \in Outputs : params'[s].ptr
        /\ odbc' \in {"results", "done"}
    BY <1>1, <1>4, <1>6, <1>8, Ran DEF HeldOutputs
  <2>2. HeldOutputs'
    BY <1>1, <1>6, <1>8, <2>1, HeldCarried DEF HeldOutputs
  <2>3. TypeOK' /\ ~stale'
    BY <1>1, <1>3, <1>8, <2>1 DEF IInv, TypeOK, Records, Variables
  <2>4. /\ NoArray' /\ AtFlush' /\ AtBind' /\ AtRun' /\ AtSend' /\ AtReady' /\ OutputsHandedOver'
        /\ AtNeed' /\ AtResults'
    BY <1>1, <1>8, <2>1, <2>2 DEF IInv, Stages, NoArray, AtFlush, AtBind, AtRun, AtSend, AtReady,
       AtNeed, AtResults, OutputsHandedOver
  <2>. QED BY <2>1, <2>3, <2>4 DEF IInv, Stages
<1>. QED BY <1>5, <1>7, <1>8 DEF Run

(* Held outputs are handed over, or one of them fails.                      *)
LEMMA HandsOverKeeps ==
  ASSUME IInv, phase = "run", past_next_result_end' = FALSE,
         UNCHANGED <<conf, array, sent, next, stale>>,
         NEW p \in Records, Orderly(p, value), \A s \in Outputs : p[s].ptr,
         \A s \in Slots : IsInput(s) => p[s] = params[s],
         NEW how \in Ways, odbc = "results" => how = "early",
         HandsOver(p, how)
  PROVE  IInv'
<1>1. /\ value' = Final(p, value, how) /\ executed' = TRUE
      /\ Failing(p) # {} => ExecutionFails(odbc, TRUE)
      /\ Failing(p) = {} => /\ params' = Released(p) /\ phase' = "ready" /\ ret' = "true"
                            /\ UNCHANGED <<bound, current_param, odbc, failed>>
  BY DEF HandsOver
<1>2. /\ odbc \in {"results", "done"} /\ ~failed /\ HeldOutputs /\ value \in Variables
  BY DEF IInv, Stages, AtRun, TypeOK, Variables
<1>3. /\ Released(p) \in Records /\ value' \in Variables
      /\ Orderly(Released(p), value')
      /\ \A s \in Slots : value'[s].by # "twice"
      /\ Failing(p) = {} => \A s \in Outputs : value'[s].by = how
      /\ \A s \in Slots : IsInput(s) => Released(p)[s] = params[s]
  BY <1>1, <1>2, HandingIsOrderly
<1>4. CASE Failing(p) # {}
  <2>1. ExecutionFails(odbc, TRUE)
    BY <1>1, <1>4
  <2>2. odbc' = "idle"
    BY <2>1 DEF ExecutionFails
  <2>. QED BY <1>1, <1>2, <1>3, <2>1, <2>2, ExecutionFailing
<1>5. CASE Failing(p) = {}
  <2>1. /\ params' = Released(p) /\ phase' = "ready" /\ ret' = "true"
        /\ UNCHANGED <<bound, current_param, odbc, failed>>
    BY <1>1, <1>5
  <2>2. TypesOfInputs' /\ Orderly(params, value)'
    BY <1>3, <2>1, InputsCarried, OrderCarried
  <2>3. TypeOK' /\ ~stale'
    BY <1>1, <1>3, <2>1 DEF IInv, TypeOK, Records, Variables
  <2>4. \A s \in Outputs : value'[s].by = how
    BY <1>3, <1>5
  <2>5. AtReady'
    BY <2>1, <2>4, SameOutputs DEF AtReady, Ways
  <2>6. odbc = "results" => Writable(params, value)'
    BY <1>2, <2>1, <2>4, WritableCarried DEF HeldOutputs, Writable
  <2>7. /\ NoArray' /\ AtFlush' /\ AtBind' /\ AtRun' /\ AtSend' /\ OutputsHandedOver'
        /\ AtNeed' /\ AtResults'
    BY <1>1, <1>2, <2>1, <2>6 DEF IInv, Stages, NoArray, AtFlush, AtBind, AtRun, AtSend, AtNeed,
       AtResults, OutputsHandedOver
  <2>. QED BY <2>2, <2>3, <2>5, <2>7 DEF IInv, Stages
<1>. QED BY <1>4, <1>5

LEMMA AfterRunKeeps ==
  ASSUME IInv, AfterRun
  PROVE  IInv'
<1>1. /\ phase = "run" /\ past_next_result_end' = FALSE
      /\ UNCHANGED <<conf, array, sent, next, stale>>
  BY DEF AfterRun
<1>2. /\ odbc \in {"results", "done"} /\ ~failed /\ HeldOutputs
      /\ params \in Records /\ value \in Variables /\ Orderly(params, value)
      /\ \A s \in Slots : value[s].by # "twice"
      /\ executed \in BOOLEAN
  BY <1>1 DEF IInv, Stages, AtRun, TypeOK, Records, Variables, Orderly
<1>3. CASE ExecutionFails(odbc, executed) /\ UNCHANGED <<value, executed>>
  <2>1. executed' => odbc' = "idle"
    BY <1>3 DEF ExecutionFails
  <2>. QED BY <1>1, <1>2, <1>3, <2>1, ExecutionFailing
<1>4. CASE odbc = "done" /\ conf.send /\ HandsOver(params, "final")
  BY <1>1, <1>2, <1>4, HandsOverKeeps DEF HeldOutputs, Ways
<1>6. CASE odbc = "results" /\ conf.send /\ \E t \in Unwritten : HandsOver(Told(params, t), "early")
  <2>1. PICK t \in Unwritten : HandsOver(Told(params, t), "early")
    BY <1>6
  <2>2. \A s \in Outputs : t[s] \in {"len", "null", "exec", "bad"}
    BY DEF Unwritten, Reports
  <2>3. /\ Told(params, t) \in Records
        /\ \A s \in Slots : Told(params, t)[s].ptr = params[s].ptr
        /\ \A s \in Slots \ Written : Told(params, t)[s] = params[s]
    BY <1>2, <2>2, ToldIs DEF Written
  <2>4. Outputs \subseteq Slots /\ Written \subseteq Outputs /\ \A s \in Slots : s \in Outputs <=> ~IsInput(s)
    BY OutputsAre DEF Outputs, Written
  <2>5. \A s \in Outputs : value[s].by \notin {"early", "final"} /\ Told(params, t)[s].ptr
    BY <1>2, <2>3, <2>4 DEF HeldOutputs, Orderly
  <2>6. Orderly(Told(params, t), value)
    BY <1>2, <2>4, <2>5 DEF Orderly
  <2>7. \A s \in Slots : IsInput(s) => Told(params, t)[s] = params[s]
    BY <2>3, <2>4
  <2>. QED BY <1>1, <1>2, <1>6, <2>1, <2>3, <2>5, <2>6, <2>7, HandsOverKeeps DEF Ways
<1>5. CASE /\ ~(odbc = "done" /\ conf.send)
           /\ executed' = TRUE
           /\ phase' = "ready" /\ ret' = "true"
           /\ UNCHANGED <<value, params, bound, current_param, odbc, failed>>
  <2>1. /\ params' \in Records /\ value' \in Variables
        /\ TypesOfInputs' /\ Orderly(params, value)'
    BY <1>1, <1>5, DataKept
  <2>2. HeldOutputs' /\ Writable(params, value)'
    BY <1>1, <1>2, <1>5, HeldCarried, WritableCarried DEF HeldOutputs, Writable
  <2>3. TypeOK' /\ ~stale'
    BY <1>1, <1>5, <2>1 DEF IInv, TypeOK, Records, Variables
  <2>4. /\ NoArray' /\ AtFlush' /\ AtBind' /\ AtRun' /\ AtSend' /\ OutputsHandedOver'
        /\ AtNeed' /\ AtResults'
    BY <1>1, <1>2, <1>5, <2>2 DEF IInv, Stages, NoArray, AtFlush, AtBind, AtRun, AtSend, AtNeed,
       AtResults, OutputsHandedOver
  <2>5. AtReady'
    BY <1>1, <1>5, <2>2 DEF AtReady, HeldOutputs
  <2>. QED BY <2>1, <2>3, <2>4, <2>5 DEF IInv, Stages
<1>. QED BY <1>3, <1>4, <1>5, <1>6 DEF AfterRun
-----------------------------------------------------------------------------
(* Sending.                                                                *)
LEMMA SendFailsKeeps ==
  ASSUME IInv, SendFails, UNCHANGED <<conf, array, executed, past_next_result_end, next>>
  PROVE  IInv'
<1>1. /\ clean_up_param_data(Slots) \/ Forget
      /\ odbc' = "idle" /\ phase' = "ready" /\ ret' = "false" /\ failed' = TRUE
      /\ UNCHANGED <<value, sent, stale>>
  BY DEF SendFails
<1>2. /\ value' \in Variables /\ \A s \in Slots : value'[s].by # "twice"
  BY <1>1 DEF IInv, TypeOK, Variables, Orderly
<1>3. /\ params' \in Records /\ TypesOfInputs' /\ Orderly(params, value)'
      /\ bound' \in [Slots -> {"none", "live", "gone"}] /\ current_param' = NoSlot
      /\ \A s \in Slots : bound[s] = "none" => bound'[s] = "none"
  BY <1>1, <1>2, CleanedUp
<1>4. TypeOK' /\ ~stale'
  BY <1>1, <1>2, <1>3 DEF IInv, TypeOK, Records, Variables
<1>5. /\ NoArray' /\ AtFlush' /\ AtBind' /\ AtRun' /\ AtSend' /\ AtReady' /\ OutputsHandedOver'
      /\ AtNeed' /\ AtResults'
  BY <1>1, <1>3 DEF IInv, Stages, NoArray, AtFlush, AtBind, AtRun, AtSend, AtReady, AtNeed,
     AtResults, OutputsHandedOver
<1>. QED BY <1>3, <1>4, <1>5 DEF IInv, Stages

(* A packet changes how far the streams are, and nothing else.             *)
LEMMA PacketKeeps ==
  ASSUME IInv, Sending, NEW s \in Slots, Packet(s), stale' = FALSE,
         UNCHANGED <<conf, array, executed, past_next_result_end, next, failed>>
  PROVE  IInv'
<1>1. /\ odbc = "need" /\ phase' = phase /\ ret' = IF phase = "ready" THEN "true" ELSE ret
      /\ current_param' \in {s, NoSlot} /\ sent' \in {sent, sent \cup {s}}
      /\ UNCHANGED <<value, params, bound, odbc>>
  BY DEF Packet, SendsOn
<1>2. /\ params' \in Records /\ value' \in Variables
      /\ TypesOfInputs' /\ Orderly(params, value)'
  BY <1>1, DataKept
<1>3. TypeOK' /\ ~stale'
  BY <1>1, <1>2 DEF IInv, TypeOK, Records, Variables
<1>4. HeldOutputs' /\ \A r \in Slots : bound'[r] = "live"
  BY <1>1, HeldCarried DEF IInv, Stages, AtNeed, HeldOutputs
<1>5. /\ NoArray' /\ AtFlush' /\ AtBind' /\ AtRun' /\ AtSend' /\ OutputsHandedOver'
      /\ AtNeed' /\ AtResults'
  BY <1>1, <1>4 DEF IInv, Stages, NoArray, AtFlush, AtBind, AtRun, AtSend, AtNeed,
     AtResults, AtReady, OutputsHandedOver
<1>6. AtReady'
  BY <1>1, <1>4 DEF IInv, Stages, AtReady, HeldOutputs
<1>. QED BY <1>2, <1>3, <1>5, <1>6 DEF IInv, Stages

LEMMA EverythingSentKeeps ==
  ASSUME IInv, Sending, EverythingSent,
         UNCHANGED <<conf, array, executed, past_next_result_end, next, failed>>
  PROVE  IInv'
<1>. DEFINE q == [s \in Slots |-> IF IsInput(s) THEN NoParam ELSE params[s]]
<1>1. /\ odbc = "need" /\ RanWith(q) /\ bound' = Gone(Slots \ Outputs)
      /\ phase' = IF phase = "send" THEN "run" ELSE "ready"
      /\ ret' = IF phase = "ready" THEN "null" ELSE ret
      /\ UNCHANGED <<current_param, sent>> /\ Used(Outputs)
  BY DEF EverythingSent
<1>2. /\ HeldOutputs /\ phase \in {"send", "ready"}
      /\ phase = "ready" => executed /\ ~past_next_result_end
      /\ phase = "send" => ~failed
  BY <1>1 DEF IInv, Stages, AtNeed, AtSend
<1>3. q \in Records
  BY DEF IInv, TypeOK, Records
<1>4. /\ \A s \in Outputs : bound[s] = "live" /\ q[s].ptr /\ q[s] = params[s]
      /\ \A s \in Slots : IsInput(s) => q[s] \in {params[s], NoParam}
  BY <1>2 DEF HeldOutputs, Outputs
<1>. HIDE DEF q
<1>5. /\ params' \in Records /\ value' \in Variables
      /\ TypesOfInputs' /\ Orderly(params, value)'
      /\ \A s \in Outputs : params'[s].ptr
      /\ odbc' \in {"results", "done"}
  BY <1>1, <1>3, <1>4, Ran
<1>6. /\ bound' \in [Slots -> {"none", "live", "gone"}]
      /\ \A s \in Outputs : bound'[s] = "live"
      /\ \A s \in Slots : bound[s] = "none" => bound'[s] = "none"
  BY <1>1, <1>4 DEF Gone, IInv, TypeOK, Outputs
<1>7. HeldOutputs'
  BY <1>5, <1>6, HeldCarried
<1>12. Writable(params, value)'
  BY <1>7 DEF HeldOutputs, Writable
<1>8. stale' = FALSE
  BY <1>1, <1>4 DEF Used, IInv, TypeOK
<1>9. TypeOK' /\ ~stale'
  BY <1>1, <1>5, <1>6, <1>8 DEF IInv, TypeOK, Records, Variables
<1>10. /\ NoArray' /\ AtFlush' /\ AtBind' /\ AtRun' /\ AtSend' /\ OutputsHandedOver'
       /\ AtNeed' /\ AtResults'
  BY <1>1, <1>2, <1>5, <1>6, <1>7, <1>12 DEF IInv, Stages, NoArray, AtFlush, AtBind, AtRun, AtSend, AtNeed,
     AtResults, AtReady, OutputsHandedOver
<1>11. AtReady'
  BY <1>1, <1>2, <1>7 DEF IInv, Stages, AtReady, HeldOutputs
<1>. QED BY <1>5, <1>9, <1>10, <1>11 DEF IInv, Stages

LEMMA SendPacketKeeps ==
  ASSUME IInv, SendPacket
  PROVE  IInv'
<1>1. Sending /\ UNCHANGED <<conf, array, executed, past_next_result_end, next>>
  BY DEF SendPacket
<1>2. CASE SendFails
  BY <1>1, <1>2, SendFailsKeeps
<1>3. CASE NextParameter /\ UNCHANGED failed
  <2>1. PICK s \in AtExec \ sent : Packet(s) /\ Used({s})
    BY <1>3 DEF NextParameter
  <2>2. s \in Slots /\ odbc = "need"
    BY <1>3 DEF AtExec, NextParameter
  <2>3. bound[s] = "live"
    BY <2>2 DEF IInv, Stages, AtNeed
  <2>4. stale' = FALSE
    BY <2>1, <2>3 DEF Used, IInv, TypeOK
  <2>. QED BY <1>1, <1>3, <2>1, <2>2, <2>4, PacketKeeps
<1>4. CASE MorePackets /\ UNCHANGED failed
  <2>1. current_param \in Slots /\ Packet(current_param) /\ stale' = FALSE
    BY <1>4 DEF MorePackets, IInv, TypeOK
  <2>. QED BY <1>1, <1>4, <2>1, PacketKeeps
<1>5. CASE EverythingSent /\ UNCHANGED failed
  BY <1>1, <1>5, EverythingSentKeeps
<1>. QED BY <1>2, <1>3, <1>4, <1>5 DEF SendPacket
-----------------------------------------------------------------------------
(* Results, and what the script does between calls.                        *)

(* Nothing is reported of the outputs: their indicators stay.              *)
LEMMA ToldNothing ==
  ASSUME NEW p \in Records
  PROVE  Told(p, [s \in Outputs |-> p[s].ind]) = p
<1>1. Written \subseteq Outputs
  BY DEF Written
<1>2. ASSUME NEW s \in Slots, s \in Written
      PROVE  [p[s] EXCEPT !.ind = [r \in Outputs |-> p[r].ind][s]] = p[s]
  <2>1. p[s] \in Param \cup {NoParam} /\ [r \in Outputs |-> p[r].ind][s] = p[s].ind
    BY <1>1, <1>2 DEF Records
  <2>2. CASE p[s] \in Param
    BY <2>1, <2>2 DEF Param
  <2>3. CASE p[s] = NoParam
    BY <2>1, <2>3 DEF NoParam
  <2>. QED BY <2>1, <2>2, <2>3
<1>. QED BY <1>2 DEF Told, Records

LEMMA NextResultKeeps ==
  ASSUME IInv, NextResult
  PROVE  IInv'
<1>1. /\ phase = "ready" /\ executed /\ ~past_next_result_end /\ odbc # "need"
      /\ UNCHANGED <<conf, bound, array, executed, current_param, sent, phase, next>>
  BY DEF NextResult
<1>2. /\ params \in Records /\ value \in Variables /\ Orderly(params, value)
      /\ \A s \in Slots : value[s].by # "twice"
  BY DEF IInv, TypeOK, Records, Variables, Orderly
<1>3. CASE /\ odbc = "results" /\ odbc' \in {"idle", "results"} /\ ret' \in {"true", "false"}
           /\ UNCHANGED <<value, params, past_next_result_end, failed, stale>>
  <2>1. /\ params' \in Records /\ value' \in Variables
        /\ TypesOfInputs' /\ Orderly(params, value)'
    BY <1>1, <1>3, DataKept
  <2>2. /\ Writable(params, value)'
        /\ HeldOutputs => HeldOutputs'
    BY <1>1, <1>3, HeldCarried, WritableCarried DEF IInv, Stages, AtResults, HeldOutputs
  <2>3. TypeOK' /\ ~stale'
    BY <1>1, <1>3, <2>1 DEF IInv, TypeOK, Records, Variables
  <2>4. /\ NoArray' /\ AtFlush' /\ AtBind' /\ AtRun' /\ AtSend' /\ OutputsHandedOver'
        /\ AtNeed' /\ AtResults'
    BY <1>1, <1>3, <2>2 DEF IInv, Stages, NoArray, AtFlush, AtBind, AtRun, AtSend, AtNeed,
       AtResults, OutputsHandedOver
  <2>5. AtReady'
    BY <1>1, <1>3, SameOutputs DEF IInv, Stages, AtReady
  <2>. QED BY <2>1, <2>3, <2>4, <2>5 DEF IInv, Stages
<1>4. ASSUME NEW t, NEW v, NEW p,
             odbc' = "done",
             odbc = "results" => t \in Reports /\ v = Filled(value),
             odbc # "results" => t = [s \in Outputs |-> params[s].ind] /\ v = value,
             p = Told(params, t),
             value' = Final(p, v, "final"), params' = Released(p),
             failed' = (failed \/ Failing(p) # {}),
             past_next_result_end' = (Failing(p) = {}),
             ret' = (IF Failing(p) = {} THEN "null" ELSE "false"),
             Used(IF odbc = "results" THEN Outputs ELSE {})
      PROVE  IInv'
  <2>3. /\ p \in Records /\ v \in Variables /\ Orderly(p, v)
        /\ ~failed => \A s \in Outputs : v[s].by \in {"bind", "driver"} => p[s].ptr
        /\ \A s \in Slots : IsInput(s) => p[s] = params[s]
        /\ stale' = FALSE
    <3>1. CASE odbc = "results"
      <4>1. Writable(params, value)
        BY <1>1, <3>1 DEF IInv, Stages, AtResults
      <4>2. \A s \in Outputs : t[s] \in {"len", "null", "exec", "bad"}
        BY <1>4, <3>1 DEF Reports
      <4>3. /\ p \in Records /\ v \in Variables /\ Orderly(p, v)
            /\ Writable(p, v)
            /\ \A s \in Slots : IsInput(s) => p[s] = params[s]
        BY <1>2, <1>4, <3>1, <4>1, <4>2, WritingIsOrderly
      <4>4. stale' = FALSE
        BY <1>4, <3>1, <4>1 DEF Used, Writable, IInv, TypeOK
      <4>5. \A s \in Outputs : v[s].by \in {"bind", "driver"} => p[s].ptr
        BY <4>3 DEF Writable
      <4>. QED BY <4>3, <4>4, <4>5
    <3>2. CASE odbc # "results"
      <4>1. p = params /\ v = value
        BY <1>2, <1>4, <3>2, ToldNothing
      <4>2. stale' = FALSE
        BY <1>4, <3>2 DEF Used, IInv, TypeOK
      <4>3. ~failed => \A s \in Outputs : v[s].by \in {"bind", "driver"} => p[s].ptr
        BY <1>1, <4>1 DEF IInv, Stages, AtReady
      <4>. QED BY <1>2, <4>1, <4>2, <4>3
    <3>. QED BY <3>1, <3>2
  <2>4. /\ params' \in Records /\ value' \in Variables /\ Orderly(params', value')
        /\ Failing(p) = {} =>
              \A s \in Outputs : value'[s].by \in {"bind", "driver"} =>
                                  v[s].by \in {"bind", "driver"} /\ ~p[s].ptr
        /\ \A s \in Slots : IsInput(s) => params'[s] = params[s]
    BY <1>4, <2>3, HandingIsOrderly DEF Ways
  <2>5. TypesOfInputs' /\ Orderly(params, value)'
    BY <1>1, <2>4, InputsCarried, OrderCarried
  <2>6. failed' \in BOOLEAN /\ past_next_result_end' \in BOOLEAN /\ ret' \in {"null", "false"}
    BY <1>4
  <2>7. TypeOK' /\ ~stale'
    BY <1>1, <1>4, <2>3, <2>4, <2>6 DEF IInv, TypeOK, Records, Variables
  <2>8. /\ NoArray' /\ AtFlush' /\ AtBind' /\ AtRun' /\ AtSend' /\ AtNeed' /\ AtResults' /\ AtReady'
    BY <1>1, <1>4 DEF IInv, Stages, NoArray, AtFlush, AtBind, AtRun, AtSend, AtNeed, AtResults, AtReady
  <2>9. OutputsHandedOver'
    <3>1. Failing(p) = {} /\ ~failed => \A s \in Outputs : value'[s].by \notin {"bind", "driver"}
      BY <2>3, <2>4
    <3>. QED BY <1>1, <1>4, <3>1, SameOutputs DEF OutputsHandedOver
  <2>. QED BY <2>5, <2>7, <2>8, <2>9 DEF IInv, Stages
<1>5. CASE /\ odbc' = "done"
           /\ \E t \in IF odbc = "results" THEN Reports ELSE {[s \in Outputs |-> params[s].ind]} :
                LET v == IF odbc = "results" THEN Filled(value) ELSE value
                    p == Told(params, t)
                IN /\ value' = Final(p, v, "final")
                   /\ params' = Released(p)
                   /\ failed' = (failed \/ Failing(p) # {})
                   /\ past_next_result_end' = (Failing(p) = {})
                   /\ ret' = IF Failing(p) = {} THEN "null" ELSE "false"
           /\ Used(IF odbc = "results" THEN Outputs ELSE {})
  <2>1. PICK t \in IF odbc = "results" THEN Reports ELSE {[s \in Outputs |-> params[s].ind]} :
          LET v == IF odbc = "results" THEN Filled(value) ELSE value
              p == Told(params, t)
          IN /\ value' = Final(p, v, "final")
             /\ params' = Released(p)
             /\ failed' = (failed \/ Failing(p) # {})
             /\ past_next_result_end' = (Failing(p) = {})
             /\ ret' = IF Failing(p) = {} THEN "null" ELSE "false"
    BY <1>5
  <2>2. PICK v, p : /\ v = IF odbc = "results" THEN Filled(value) ELSE value
                    /\ p = Told(params, t)
    OBVIOUS
  <2>3. /\ value' = Final(p, v, "final") /\ params' = Released(p)
        /\ failed' = (failed \/ Failing(p) # {})
        /\ past_next_result_end' = (Failing(p) = {})
        /\ ret' = (IF Failing(p) = {} THEN "null" ELSE "false")
    BY <2>1, <2>2
  <2>4. /\ odbc = "results" => t \in Reports /\ v = Filled(value)
        /\ odbc # "results" => t = [s \in Outputs |-> params[s].ind] /\ v = value
    BY <2>1, <2>2
  <2>. QED BY <1>4, <1>5, <2>2, <2>3, <2>4
<1>. QED BY <1>3, <1>5 DEF NextResult

LEMMA CancelKeeps ==
  ASSUME IInv, Cancel
  PROVE  IInv'
<1>1. /\ phase = "ready" /\ odbc' = "idle" /\ ret' = "true"
      /\ UNCHANGED <<conf, value, params, bound, array, executed, past_next_result_end, current_param,
                     sent, phase, next, failed, stale>>
  BY DEF Cancel
<1>2. /\ params' \in Records /\ value' \in Variables
      /\ TypesOfInputs' /\ Orderly(params, value)'
  BY <1>1, DataKept
<1>3. TypeOK' /\ ~stale'
  BY <1>1, <1>2 DEF IInv, TypeOK, Records, Variables
<1>4. /\ NoArray' /\ AtFlush' /\ AtBind' /\ AtRun' /\ AtSend' /\ OutputsHandedOver'
      /\ AtNeed' /\ AtResults'
  BY <1>1 DEF IInv, Stages, NoArray, AtFlush, AtBind, AtRun, AtSend, AtNeed, AtResults,
     OutputsHandedOver
<1>5. AtReady'
  BY <1>1, SameOutputs DEF IInv, Stages, AtReady
<1>. QED BY <1>2, <1>3, <1>4, <1>5 DEF IInv, Stages

LEMMA AssignKeeps ==
  ASSUME IInv, Assign
  PROVE  IInv'
<1>1. /\ phase = "ready" /\ odbc # "need" /\ ret' = "none"
      /\ UNCHANGED <<conf, params, bound, array, executed, past_next_result_end, current_param, odbc,
                     sent, phase, next, failed, stale>>
  BY DEF Assign
<1>2. PICK s \in Slots, k \in Kinds : value' = [value EXCEPT ![s] = Own(k)]
  BY DEF Assign
<1>3. Own(k) \in [kind : InKinds, by : {"script"}]
  BY ParamsAssumption DEF Own
<1>4. /\ value' \in Variables /\ value'[s].by = "script"
      /\ \A r \in Slots \ {s} : value'[r] = value[r]
  BY <1>2, <1>3 DEF IInv, TypeOK, Variables
<1>5. Outputs \subseteq Slots
  BY DEF Outputs
<1>6. Orderly(params', value')
  BY <1>1, <1>4, <1>5 DEF IInv, Orderly
<1>7. TypesOfInputs' /\ Orderly(params, value)'
  BY <1>1, <1>6, InputsCarried, OrderCarried
<1>8. TypeOK' /\ ~stale'
  BY <1>1, <1>4 DEF IInv, TypeOK, Records, Variables
<1>9. HeldOutputs => HeldOutputs'
  BY <1>1, HeldCarried DEF HeldOutputs
<1>12. odbc = "results" /\ Writable(params, value) => Writable(params, value)'
  <2>1. ASSUME odbc = "results", \A r \in Outputs : value[r].by = "early"
        PROVE  \A r \in Outputs : value'[r].by = "early"
    BY <1>1, <1>2, <1>4, <1>5, <2>1 DEF Assign, IInv, TypeOK
  <2>. QED BY <1>1, <2>1, WritableCarried DEF Writable
<1>10. /\ NoArray' /\ AtFlush' /\ AtBind' /\ AtRun' /\ AtSend' /\ OutputsHandedOver'
       /\ AtNeed' /\ AtResults'
  BY <1>1, <1>9, <1>12 DEF IInv, Stages, NoArray, AtFlush, AtBind, AtRun, AtSend, AtNeed, AtResults,
     OutputsHandedOver
<1>11. AtReady'
  BY <1>1, <1>4, <1>5, SameOutputs DEF IInv, Stages, AtReady
<1>. QED BY <1>7, <1>8, <1>10, <1>11 DEF IInv, Stages
-----------------------------------------------------------------------------
LEMMA InitIInv == Init => IInv
<1>. SUFFICES ASSUME Init PROVE IInv
  OBVIOUS
<1>1. /\ params = [s \in Slots |-> NoParam] /\ bound = [s \in Slots |-> "none"]
      /\ array = TRUE /\ executed = FALSE /\ past_next_result_end = FALSE
      /\ current_param = NoSlot /\ odbc = "idle" /\ sent = {}
      /\ phase = "ready" /\ next = {} /\ ret = "none" /\ failed = FALSE /\ stale = FALSE
      /\ conf \in [ext : Extensions, decl : Decls, send : BOOLEAN]
  BY DEF Init
<1>2. \A k \in Kinds : Own(k) \in [kind : InKinds, by : {"script"}]
  BY ParamsAssumption DEF Own
<1>3. value \in [Slots -> { Own(k) : k \in Kinds }]
  BY DEF Init
<1>4. /\ value \in Variables /\ \A s \in Slots : value[s].by = "script"
  BY <1>2, <1>3 DEF Variables
<1>5. params \in Records /\ \A s \in Slots : params[s] = NoParam
  BY <1>1 DEF Records
<1>6. Outputs \subseteq Slots
  BY DEF Outputs
<1>7. TypesOfInputs /\ Orderly(params, value)
  BY <1>4, <1>5, <1>6, NoParamIs DEF TypesOfInputs, Orderly
<1>8. TypeOK
  BY <1>1, <1>4, <1>5 DEF TypeOK, Records, Variables
<1>9. Stages /\ OutputsHandedOver
  BY <1>1 DEF Stages, NoArray, AtFlush, AtBind, AtRun, AtSend, AtNeed, AtResults, AtReady,
     OutputsHandedOver
<1>. QED BY <1>1, <1>7, <1>8, <1>9 DEF IInv

LEMMA StutterIInv ==
  ASSUME IInv, UNCHANGED vars
  PROVE  IInv'
<1>1. UNCHANGED <<conf, value, params, bound, array, executed, past_next_result_end, current_param,
                  odbc, sent, phase, next, ret, failed, stale>>
  BY DEF vars
<1>2. /\ params' \in Records /\ value' \in Variables
      /\ TypesOfInputs' /\ Orderly(params, value)'
  BY <1>1, DataKept
<1>3. TypeOK' /\ ~stale'
  BY <1>1, <1>2 DEF IInv, TypeOK, Records, Variables
<1>4. /\ HeldOutputs => HeldOutputs'
      /\ Writable(params, value) => Writable(params, value)'
  BY <1>1, HeldCarried, WritableCarried DEF HeldOutputs
<1>5. Outputs' = Outputs
  BY <1>1, SameOutputs
<1>6. /\ NoArray' /\ AtFlush' /\ AtBind' /\ AtRun' /\ AtSend' /\ OutputsHandedOver'
      /\ AtNeed' /\ AtResults' /\ AtReady'
  BY <1>1, <1>4, <1>5 DEF IInv, Stages, NoArray, AtFlush, AtBind, AtRun, AtSend, AtNeed, AtResults,
     AtReady, OutputsHandedOver
<1>. QED BY <1>2, <1>3, <1>6 DEF IInv, Stages

LEMMA StepIInv == IInv /\ [Next]_vars => IInv'
BY ExecuteKeeps, FlushKeeps, BindKeeps, BindFailsKeeps, RunKeeps, AfterRunKeeps, SendPacketKeeps,
   NextResultKeeps, CancelKeeps, AssignKeeps, StutterIInv DEF Next

LEMMA Invariance == Spec => []IInv
BY InitIInv, StepIInv, PTL DEF Spec
-----------------------------------------------------------------------------
(* The stream that is being sent.                                          *)
LEMMA NoStreamKept ==
  ASSUME CurrentAsked, odbc # "need", current_param' \in {current_param, NoSlot}
  PROVE  CurrentAsked'
BY DEF CurrentAsked

LEMMA StepAsked ==
  ASSUME IInv, CurrentAsked, [Next]_vars, CancelSends = FALSE
  PROVE  CurrentAsked'
<1>1. phase \in {"flush", "bind", "run"} => odbc # "need"
  BY DEF IInv, Stages, AtNeed
<1>2. CASE Execute \/ NextResult \/ Cancel \/ Assign
  BY <1>2, NoStreamKept DEF Execute, NextResult, Cancel, Assign
<1>3. CASE Flush \/ Bind \/ BindFails
  BY <1>1, <1>3, NoStreamKept DEF Flush, Bind, BindFails, Forget
<1>4. CASE Run \/ AfterRun
  <2>1. phase \in {"bind", "run"}
    BY <1>4 DEF Run, AfterRun
  <2>2. current_param' \in {current_param, NoSlot}
    BY <1>4 DEF Run, AfterRun, HandsOver, ExecutionFails, clean_up_param_data
  <2>. QED BY <1>1, <2>1, <2>2, NoStreamKept
<1>5. CASE SendPacket
  <2>1. CASE SendFails
    BY <2>1 DEF SendFails, clean_up_param_data, Forget, CurrentAsked
  <2>2. CASE NextParameter
    <3>1. PICK s \in AtExec \ sent : Packet(s)
      BY <2>2 DEF NextParameter
    <3>2. params[s].ind = "exec" /\ s \in Slots
      BY DEF AtExec
    <3>3. bound[s] = "live"
      BY <2>2, <3>2 DEF NextParameter, IInv, Stages, AtNeed
    <3>. QED BY <3>1, <3>2, <3>3 DEF Packet, CurrentAsked
  <2>3. CASE MorePackets
    BY <2>3 DEF MorePackets, Packet, CurrentAsked
  <2>4. CASE EverythingSent
    BY <2>4 DEF EverythingSent, CurrentAsked
  <2>. QED BY <1>5, <2>1, <2>2, <2>3, <2>4 DEF SendPacket
<1>6. CASE UNCHANGED vars
  BY <1>6 DEF vars, CurrentAsked
<1>. QED BY <1>2, <1>3, <1>4, <1>5, <1>6 DEF Next

LEMMA LiveAndTyped == IInv => TypeOK /\ BoundLive /\ NullForgotten
<1>. SUFFICES ASSUME IInv PROVE TypeOK /\ BoundLive /\ NullForgotten
  OBVIOUS
<1>1. NoParam.sql = "unknown" /\ Derived("null") = "varchar"
  BY DEF NoParam, Derived
<1>2. NullForgotten
  BY <1>1 DEF IInv, TypesOfInputs, NullForgotten
<1>. QED BY <1>2 DEF IInv, BoundLive

(* Whatever a script binds, sends, fails to send, cancels and executes     *)
(* again, and whatever ODBC refuses: ODBC finds every record it points to, *)
(* and a value has not the type of the NULL before it.  It may have the    *)
(* type of another value before it: an integer type stays for a string.    *)
THEOREM BoundParametersAreLive == Spec => [](TypeOK /\ BoundLive /\ NullForgotten)
BY Invariance, LiveAndTyped, PTL

(* The same, and the parameter a stream is sent for is the one the driver  *)
(* awaits, as long as nobody cancels while it does.                        *)
THEOREM ParametersOfTheExecution ==
  ASSUME CancelSends = FALSE
  PROVE  Spec => []InputsLive
<1>1. Init => CurrentAsked
  BY DEF Init, CurrentAsked
<1>2. IInv /\ CurrentAsked /\ [Next]_vars => CurrentAsked'
  BY StepAsked
<1>3. Spec => []CurrentAsked
  BY <1>1, <1>2, Invariance, PTL DEF Spec
<1>4. IInv /\ CurrentAsked => InputsLive
  BY LiveAndTyped DEF InputsLive
<1>. QED BY <1>3, <1>4, Invariance, PTL

(* Outputs are handed over once, in the order of their positions, up to    *)
(* the first that cannot be, and when "no more results" is said all of     *)
(* them are, unless an error was told.  Not that each is handed over with  *)
(* what the driver wrote: behind an empty first result it may be too early.*)
THEOREM OutputsArriveOnce == Spec => []OutputsArrive
<1>1. IInv => OutputsArrive
  BY DEF IInv, Orderly, OutputsArrive, HandedOverOnce, FailureKeepsOrder
<1>. QED BY <1>1, Invariance, PTL
=============================================================================
