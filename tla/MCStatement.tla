---------------------------- MODULE MCStatement ----------------------------
(* Values for the constants of Statement that a cfg cannot write itself.   *)
EXTENDS StatementProperties

At(style, offsets) == { [style |-> style, offset |-> o] : o \in offsets }

NextOnly == At("SQL_FETCH_NEXT", {0})
Relative == NextOnly \cup At("SQL_FETCH_RELATIVE", {0})

(* Every style; rows are counted from 0, so the offsets name the rows of a *)
(* result of two, one of them from its end, and places before and after.   *)
AnyMove == UNION { At(style, {0}) : style \in Styles }
           \cup At("SQL_FETCH_ABSOLUTE", {-3, -1, 1, 3}) \cup At("SQL_FETCH_RELATIVE", {-2, 2})
=============================================================================
