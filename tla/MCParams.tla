------------------------------ MODULE MCParams ------------------------------
(* Declarations for Params: two positions.                                 *)
EXTENDS Params

In(t)         == [direction |-> "input", out |-> "string", sql |-> t]
Out(dir, out) == [direction |-> dir, out |-> out, sql |-> "unknown"]
Pair(a, b)    == [s \in {0, 1} |-> IF s = 0 THEN a ELSE b]

TwoSlots == {0, 1}
Mixed    == { Pair(In("unknown"), Out("inout", "string")), Pair(In("unknown"), In("integer")),
              Pair(Out("output", "string"), Out("inout", "double")) }
=============================================================================
