----------------------------- MODULE ParamData -----------------------------
(***************************************************************************)
(* What goes out for a parameter the driver asks for while a statement     *)
(* executes: the packets of a stream (sqlsrv_param::send_data_packet) and  *)
(* the rows of a table-valued parameter (sqlsrv_param_tvp), whose cells    *)
(* are read from memory the driver was told of, or asked for one by one.   *)
(*                                                                         *)
(* A cell is NULL, a number, a string or a stream.  The text of a string   *)
(* or of a stream is a sequence of characters, each as many bytes as the   *)
(* sequence says, and byte i of it is the number i.  A stream parameter is *)
(* a table of one cell that is asked for by itself.                        *)
(***************************************************************************)
EXTENDS Integers, Sequences

CONSTANTS Tables,      \* the parameters: rows of cells
          Space,       \* buffer_size, what a packet asks of the stream
          Slack,       \* what the buffer holds beyond that
          Batch,       \* what a piece of a string holds
          Utf8         \* is the encoding UTF-8?

Widths == 1 .. 4
Cells  == [kind : {"null", "number", "string", "stream"}, text : Seq(Widths)]

(* A cell is what the column makes of the value: every column is of one    *)
(* kind, that of its first value, and the code converts the others to it.  *)
ASSUME ParamDataAssumption ==
  /\ Tables \subseteq Seq(Seq(Cells))
  /\ \A t \in Tables : /\ Len(t) > 0
                       /\ \A r \in DOMAIN t : Len(t[r]) = Len(t[1])
                       /\ \A q, r \in DOMAIN t : \A c \in DOMAIN t[1] :
                            "null" \in {t[q][c].kind, t[r][c].kind} \/ t[q][c].kind = t[r][c].kind
  /\ Space \in Nat \ {0} /\ Slack \in Nat /\ Batch \in Nat \ {0}
  /\ Utf8 \in BOOLEAN

VARIABLES table,         \* the value of the parameter
          alone,         \* it is a stream parameter, not a table
          asked,         \* what the driver asks for: a column, TVP, or nothing more
          tvp_row,       \* current_row of the table
          current_row,   \* current_row of each column
          placeholder,   \* the cell the driver reads from a column's placeholder_z
          pos, eof,      \* of the stream that is being sent
          cell,          \* the bytes the driver has of the cell it asked for
          row,           \* the cells it has of the row
          rows,          \* the rows it has
          packet         \* the last packet of text: how long, and does it end with a character

vars == <<table, alone, asked, tvp_row, current_row, placeholder, pos, eof, cell, row, rows, packet>>

TVP     == 0
Nothing == -1
Failed  == -2
Columns == DOMAIN table[1]
Null    == <<"null">>
NoCell  == <<"none">>

(* The first i characters of a text take Bytes(text)[i] bytes.             *)
Bytes(text) ==
  LET sum[i \in 0 .. Len(text)] == IF i = 0 THEN 0 ELSE sum[i - 1] + text[i] IN sum
Size(text)      == Bytes(text)[Len(text)]
Boundary(text)  == { Bytes(text)[i] : i \in 0 .. Len(text) }
Piece(from, to) == [i \in 1 .. to - from |-> from + i]

-----------------------------------------------------------------------------
(* Binding the columns.                                                    *)

(* A column is treated as its first value that is not NULL.                *)
First(t, c) ==
  LET there == { r \in DOMAIN t : t[r][c].kind # "null" }
  IN IF there = {} THEN "null" ELSE t[CHOOSE r \in there : \A q \in there : r <= q][c].kind

AtExec(t) == { c \in DOMAIN t[1] : First(t, c) \in {"string", "stream"} }
Scalar(t) == { c \in DOMAIN t[1] : First(t, c) = "number" }

Init ==
  /\ table \in Tables
  /\ alone \in BOOLEAN
  /\ alone => Len(table) = 1 /\ Len(table[1]) = 1 /\ table[1][1].kind = "stream"
  /\ asked = IF alone THEN 1 ELSE TVP
  /\ tvp_row = 0 /\ current_row = [c \in Columns |-> 0]
  /\ placeholder = [c \in Columns |-> Null]
  /\ pos = 0 /\ eof = FALSE
  /\ cell = << >> /\ row = [c \in Columns |-> NoCell] /\ rows = << >>
  /\ packet = [length |-> 0, whole |-> TRUE]

TypeOK ==
  /\ asked \in {TVP, Nothing, Failed} \cup Columns
  /\ tvp_row \in 0 .. Len(table)
  /\ current_row \in [Columns -> 0 .. Len(table)]
  /\ \A c \in Columns : placeholder[c] = Null \/ placeholder[c][1] \in DOMAIN table
  /\ eof \in BOOLEAN /\ pos \in Nat
  /\ Len(rows) <= Len(table)
-----------------------------------------------------------------------------
(* A stream.                                                               *)

NeverCut(text, p) == 0   \* mutant of calc_utf8_missing

(* The bytes missing of the character that byte p is in.                   *)
calc_utf8_missing(text, p) ==
  IF ~Utf8 THEN 0
  ELSE CHOOSE n \in 0 .. 3 : /\ p + n \in Boundary(text)
                             /\ \A m \in 0 .. n - 1 : p + m \notin Boundary(text)

(* The cell a column sends is the one its own counter says.                *)
Current == table[current_row[asked] + 1][asked]
Asked   == asked \in Columns /\ current_row[asked] < Len(table)
Text    == Current.text

(* A read returns what the stream has, perhaps less than was asked for; it *)
(* notices the end when it comes to it, or when it finds nothing more.     *)
Packet ==
  /\ Asked /\ Current.kind = "stream" /\ ~eof
  /\ \E n \in 0 .. Space :
       /\ IF pos = Size(Text) THEN n = 0 ELSE n > 0 /\ pos + n <= Size(Text)
       /\ LET missing == IF n = 0 THEN 0 ELSE calc_utf8_missing(Text, pos + n)
              end     == pos + n + missing
          IN /\ cell' = cell \o Piece(pos, end)
             /\ pos' = end
             /\ packet' = [length |-> n + missing, whole |-> Utf8 => end \in Boundary(Text)]
             /\ eof' \in IF n = 0 THEN {TRUE} ELSE IF end = Size(Text) THEN BOOLEAN ELSE {FALSE}
  /\ UNCHANGED <<table, alone, asked, tvp_row, current_row, placeholder, row, rows>>

(* The columns the driver still has to ask for after column c.             *)
Later(c)     == { d \in AtExec(table) : d > c }
NextAsked(c) == IF Later(c) = {} THEN TVP ELSE CHOOSE d \in Later(c) : \A e \in Later(c) : d <= e

CellDone(content) ==
  /\ row' = [row EXCEPT ![asked] = content]
  /\ cell' = << >>

StaysPut == UNCHANGED current_row                                  \* mutant of Stepped
Stepped  == current_row' = [current_row EXCEPT ![asked] = @ + 1]

(* Mutant: a stream at its end is rewound and not reported as sent.        *)
StreamResent ==
  /\ Asked /\ eof
  /\ pos' = 0 /\ eof' = FALSE /\ cell' = << >>
  /\ UNCHANGED <<table, alone, asked, tvp_row, current_row, placeholder, row, rows, packet>>

(* At the end a stream is rewound: the driver may ask for it again.        *)
StreamEnds ==
  /\ Asked /\ eof
  /\ pos' = 0 /\ eof' = FALSE
  /\ IF alone
     THEN asked' = Nothing /\ rows' = << [row EXCEPT ![1] = cell] >>
          /\ UNCHANGED <<row, cell, current_row>>
     ELSE /\ CellDone(cell)
          /\ Stepped
          /\ asked' = NextAsked(asked)
          /\ UNCHANGED rows
  /\ UNCHANGED <<table, alone, tvp_row, placeholder, packet>>

(* A stream that cannot be read or rewound, text that cannot be converted, *)
(* an error of the driver.                                                 *)
SendFails ==
  /\ asked \in Columns \cup {TVP}
  /\ asked' = Failed
  /\ UNCHANGED <<table, alone, tvp_row, current_row, placeholder, pos, eof, cell, row, rows, packet>>
-----------------------------------------------------------------------------
(* A table.                                                                *)

(* Mutant: a NULL leaves the placeholder as it is.                         *)
PopulatedButNull(r) ==
  [c \in Columns |-> IF c \notin Scalar(table) \/ table[r][c].kind = "null" THEN placeholder[c]
                     ELSE <<r, c>>]

(* populate_cell_placeholder: the numbers of the row the table is at.      *)
Populated(r) ==
  [c \in Columns |-> IF c \notin Scalar(table) THEN placeholder[c]
                     ELSE IF table[r][c].kind = "null" THEN Null ELSE <<r, c>>]

(* SQLPutData(1): the next row is there.  The driver reads the numbers at  *)
(* once, and asks for the rest.                                            *)
RowAvailable ==
  /\ asked = TVP /\ tvp_row < Len(table)
  /\ tvp_row' = tvp_row + 1
  /\ placeholder' = Populated(tvp_row + 1)
  /\ current_row' = [c \in Columns |-> IF c \in Scalar(table) THEN current_row[c] + 1
                                       ELSE current_row[c]]
  /\ rows' = IF tvp_row = 0 THEN rows ELSE Append(rows, row)
  /\ row' = [c \in Columns |-> IF c \in Scalar(table) THEN placeholder'[c]
                               ELSE IF c \in AtExec(table) THEN NoCell ELSE Null]
  /\ asked' = NextAsked(0)
  /\ UNCHANGED <<table, alone, pos, eof, cell, packet>>

NoMoreRows ==
  /\ asked = TVP /\ tvp_row = Len(table)
  /\ rows' = Append(rows, row)
  /\ asked' = Nothing
  /\ UNCHANGED <<table, alone, tvp_row, current_row, placeholder, pos, eof, cell, row, packet>>

NullCell ==
  /\ Asked /\ Current.kind = "null"
  /\ CellDone(Null)
  /\ Stepped
  /\ asked' = NextAsked(asked)
  /\ UNCHANGED <<table, alone, tvp_row, placeholder, pos, eof, rows, packet>>

(* send_string_data_in_batches.                                            *)
StringCell ==
  /\ Asked /\ Current.kind = "string"
  /\ LET size == Size(Current.text)
         end  == IF size - pos > Batch THEN pos + Batch ELSE size
     IN /\ packet' = [length |-> end - pos, whole |-> TRUE]
        /\ IF end < size
           THEN /\ cell' = cell \o Piece(pos, end) /\ pos' = end
                /\ UNCHANGED <<row, current_row, asked>>
           ELSE /\ CellDone(cell \o Piece(pos, end)) /\ pos' = 0
                /\ Stepped
                /\ asked' = NextAsked(asked)
  /\ UNCHANGED <<table, alone, tvp_row, placeholder, eof, rows>>

Next == \/ Packet \/ StreamEnds \/ SendFails
        \/ RowAvailable \/ NoMoreRows \/ NullCell \/ StringCell

Spec     == Init /\ [][Next]_vars
FairSpec == Spec /\ WF_vars(Next)
-----------------------------------------------------------------------------
(* What the driver has when it asks for nothing more is the parameter:     *)
(* every row in order, every cell of it whole and in its column.           *)
Content(r, c) ==
  CASE table[r][c].kind = "null"   -> Null
    [] table[r][c].kind = "number" -> <<r, c>>
    [] OTHER                       -> Piece(0, Size(table[r][c].text))

SentWhole ==
  asked = Nothing =>
    /\ Len(rows) = Len(table)
    /\ \A r \in DOMAIN table : \A c \in Columns : rows[r][c] = Content(r, c)

(* A column that is asked for a cell is at the row the table announced.    *)
InStep ==
  ~alone => /\ asked \in Columns => current_row[asked] = tvp_row - 1
            /\ asked = TVP => \A c \in AtExec(table) \cup Scalar(table) : current_row[c] = tvp_row

(* What is sent is what is to be sent, cell by cell, as it is asked for.   *)
SentInStep == TypeOK /\ InStep /\ SentWhole

(* Every packet of UTF-8 text ends with a character, and what completes    *)
(* one fits in the buffer (core_stmt.cpp 2619).                            *)
PacketsWhole == packet.whole /\ packet.length <= Space + Slack

(* Sending ends: no stream is read again and again at its end.             *)
SendingEnds == <>(asked \in {Nothing, Failed})
=============================================================================
