---------------------------- MODULE MCParamData ----------------------------
(* Parameters for ParamData: a stream, and tables of two columns.          *)
EXTENDS ParamData

Texts    == { << >>, <<1, 1>>, <<2, 3, 4>>, <<4, 1, 2>>, <<3, 3, 3>> }
Num      == [kind |-> "number", text |-> << >>]
Empty    == [kind |-> "null", text |-> << >>]
Str(t)   == [kind |-> "string", text |-> t]
Strm(t)  == [kind |-> "stream", text |-> t]

Streams  == { << <<Strm(t)>> >> : t \in Texts }
Numbers  == {Num, Empty}
Strings  == {Empty, Str(<< >>), Str(<<2, 3, 4>>)}
Files    == {Empty, Strm(<<1, 1>>), Strm(<<2, 3, 4>>)}
Rows(A, B) == { <<a, b>> : a \in A, b \in B }
TablesOf(R) == { <<r, s>> : r \in R, s \in R } \cup { <<r>> : r \in R }
AllTables == Streams \cup TablesOf(Rows(Numbers, Strings)) \cup TablesOf(Rows(Files, Numbers))
             \cup { <<r, r, s>> : r \in Rows({Empty, Str(<<1, 1>>)}, {Empty, Strm(<<1, 3>>)}),
                                  s \in Rows({Empty, Str(<<1, 1>>)}, {Empty, Strm(<<1, 3>>)}) }
=============================================================================
