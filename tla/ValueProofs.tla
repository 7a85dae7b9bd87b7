---------------------------- MODULE ValueProofs ----------------------------
(***************************************************************************)
(* Proofs about values that travel in pieces, of whatever sizes: what the  *)
(* driver is given for a parameter that is sent while a statement executes *)
(* is the parameter (ParamData), and the pieces of a field make the value  *)
(* again, in the row cache, in a string and in a stream (FieldPieces).     *)
(*                                                                         *)
(* The bytes of a text are a recursive sum.  What is needed of it (it is   *)
(* there, it grows, no character is longer than four bytes) is proved from *)
(* the least number for which it would fail.                               *)
(***************************************************************************)
EXTENDS ParamData, FieldPieces, Induction, SequenceTheorems, TLAPS

-----------------------------------------------------------------------------
(* The bytes of a text.                                                    *)
Sums(text, f, k) ==
  f \in [0 .. k -> Nat] /\ f[0] = 0 /\ \A i \in 1 .. k : f[i] = f[i - 1] + text[i]

(* The sums of a text are there, up to each of its characters.             *)
LEMMA SumsExist ==
  ASSUME NEW text \in Seq(Widths), NEW n \in 0 .. Len(text)
  PROVE  \E f : Sums(text, f, n)
<1> DEFINE S == { k \in 0 .. Len(text) : ~ \E f : Sums(text, f, k) }
<1>0. Len(text) \in Nat /\ \A i \in 1 .. Len(text) : text[i] \in 1 .. 4
  BY DEF Widths
<1>1. SUFFICES ASSUME n \in S PROVE FALSE
  BY DEF S
<1>2. PICK m \in S : \A k \in S : m <= k
  <2>1. S \subseteq Nat /\ S # {}
    BY <1>0, <1>1
  <2> HIDE DEF S
  <2> QED
    BY <2>1, LeastNumber
<1>3. m # 0
  <2>1. Sums(text, [i \in 0 .. 0 |-> 0], 0)
    BY DEF Sums
  <2> QED
    BY <2>1
<1>4. m - 1 \in 0 .. Len(text) /\ m - 1 \notin S
  BY <1>0, <1>2, <1>3
<1>5. PICK f : Sums(text, f, m - 1)
  BY <1>4
<1> DEFINE g == [i \in 0 .. m |-> IF i = m THEN f[m - 1] + text[m] ELSE f[i]]
<1>6. Sums(text, g, m)
  <2>1. m \in 1 .. Len(text) /\ f \in [0 .. m - 1 -> Nat] /\ f[0] = 0
        /\ \A i \in 1 .. m - 1 : f[i] = f[i - 1] + text[i]
    BY <1>0, <1>2, <1>3, <1>5 DEF Sums
  <2>2. g \in [0 .. m -> Nat]
    BY <1>0, <2>1
  <2>3. g[0] = 0
    BY <2>1
  <2>4. ASSUME NEW i \in 1 .. m PROVE g[i] = g[i - 1] + text[i]
    BY <1>0, <2>1
  <2> QED
    BY <2>2, <2>3, <2>4 DEF Sums
<1> QED
  BY <1>6

(* Bytes is the sums of the whole text.                                    *)
LEMMA BytesSum ==
  ASSUME NEW text \in Seq(Widths)
  PROVE  Sums(text, Bytes(text), Len(text))
<1> DEFINE Def(s) == s = [i \in 0 .. Len(text) |-> IF i = 0 THEN 0 ELSE s[i - 1] + text[i]]
<1>0. Len(text) \in Nat /\ \A i \in 1 .. Len(text) : text[i] \in 1 .. 4
  BY DEF Widths
<1>1. PICK f : Sums(text, f, Len(text))
  BY <1>0, SumsExist
<1>2. Def(f)
  BY <1>0, <1>1 DEF Sums
<1>3. Bytes(text) = CHOOSE s : Def(s)
  BY DEF Bytes
<1>4. Def(Bytes(text))
  <2> HIDE DEF Def
  <2> QED
    BY <1>2, <1>3
<1>5. f = Bytes(text)
  <2> DEFINE D == { i \in 0 .. Len(text) : f[i] # Bytes(text)[i] }
  <2>1. SUFFICES ASSUME D # {} PROVE FALSE
    <3>1. f = [i \in 0 .. Len(text) |-> f[i]] /\ Bytes(text) = [i \in 0 .. Len(text) |-> Bytes(text)[i]]
      BY <1>1, <1>4 DEF Sums
    <3> QED
      BY <3>1
  <2>2. PICK m \in D : \A k \in D : m <= k
    <3>1. D \subseteq Nat
      BY <1>0
    <3> HIDE DEF D
    <3> QED
      BY <2>1, <3>1, LeastNumber
  <2>3. Bytes(text)[0] = 0 /\ \A i \in 1 .. Len(text) : Bytes(text)[i] = Bytes(text)[i - 1] + text[i]
    BY <1>0, <1>4
  <2>4. m \in 1 .. Len(text)
    BY <1>0, <1>1, <2>2, <2>3 DEF Sums
  <2>5. m - 1 \in 0 .. Len(text) /\ m - 1 \notin D
    BY <1>0, <2>2, <2>4
  <2> QED
    BY <1>0, <1>1, <2>2, <2>3, <2>4, <2>5 DEF Sums
<1> QED
  BY <1>1, <1>5

(* A text grows by one to four bytes a character.                          *)
LEMMA BytesGrow ==
  ASSUME NEW text \in Seq(Widths)
  PROVE  /\ Len(text) \in Nat
         /\ Bytes(text) \in [0 .. Len(text) -> Nat]
         /\ Bytes(text)[0] = 0
         /\ \A i \in 1 .. Len(text) : Bytes(text)[i] - Bytes(text)[i - 1] \in 1 .. 4
<1>1. Len(text) \in Nat /\ \A i \in 1 .. Len(text) : text[i] \in 1 .. 4
  BY DEF Widths
<1>2. Sums(text, Bytes(text), Len(text))
  BY BytesSum
<1>3. ASSUME NEW i \in 1 .. Len(text) PROVE Bytes(text)[i] - Bytes(text)[i - 1] \in 1 .. 4
  <2>1. Bytes(text)[i] = Bytes(text)[i - 1] + text[i] /\ Bytes(text)[i - 1] \in Nat /\ text[i] \in 1 .. 4
    BY <1>1, <1>2 DEF Sums
  <2> QED
    BY <2>1
<1> QED
  BY <1>1, <1>2, <1>3 DEF Sums

(* No character starts beyond the last byte.                               *)
LEMMA BytesWithin ==
  ASSUME NEW text \in Seq(Widths), NEW i \in 0 .. Len(text)
  PROVE  Bytes(text)[i] <= Size(text)
<1> DEFINE S == { j \in i .. Len(text) : ~ (Bytes(text)[i] <= Bytes(text)[j]) }
<1>0. /\ Len(text) \in Nat
      /\ \A j \in 0 .. Len(text) : Bytes(text)[j] \in Nat
      /\ \A j \in 1 .. Len(text) : Bytes(text)[j] - Bytes(text)[j - 1] \in 1 .. 4
  BY BytesGrow
<1>1. SUFFICES ASSUME S # {} PROVE FALSE
  BY <1>0 DEF Size
<1>2. PICK m \in S : \A k \in S : m <= k
  <2>1. S \subseteq Nat
    BY <1>0
  <2> HIDE DEF S
  <2> QED
    BY <1>1, <2>1, LeastNumber
<1>3. m > i
  BY <1>0, <1>2
<1>4. m - 1 \in i .. Len(text) /\ m - 1 \notin S
  BY <1>0, <1>2, <1>3
<1>5. /\ Bytes(text)[m] - Bytes(text)[m - 1] \in 1 .. 4
      /\ Bytes(text)[m] \in Nat /\ Bytes(text)[m - 1] \in Nat /\ Bytes(text)[i] \in Nat
  BY <1>0, <1>2, <1>3
<1> QED
  BY <1>2, <1>4, <1>5

(* The characters of a text divide all of it.                              *)
LEMMA Boundaries ==
  ASSUME NEW text \in Seq(Widths)
  PROVE  Size(text) \in Nat /\ {0, Size(text)} \subseteq Boundary(text) /\ Boundary(text) \subseteq 0 .. Size(text)
<1>1. Len(text) \in Nat /\ Bytes(text) \in [0 .. Len(text) -> Nat] /\ Bytes(text)[0] = 0
  BY BytesGrow
<1>2. Size(text) \in Nat
  BY <1>1 DEF Size
<1>3. 0 \in Boundary(text) /\ Size(text) \in Boundary(text)
  BY <1>1 DEF Boundary, Size
<1>4. ASSUME NEW b \in Boundary(text) PROVE b \in 0 .. Size(text)
  <2>1. PICK i \in 0 .. Len(text) : b = Bytes(text)[i]
    BY DEF Boundary
  <2>2. Bytes(text)[i] <= Size(text)
    BY BytesWithin
  <2> QED
    BY <1>1, <1>2, <2>1, <2>2
<1> QED
  BY <1>2, <1>3, <1>4

(* From any byte it is three bytes at most to the end of its character.    *)
LEMMA CharacterEnds ==
  ASSUME NEW text \in Seq(Widths), NEW p \in 0 .. Size(text)
  PROVE  \E n \in 0 .. 3 : p + n \in Boundary(text)
<1> DEFINE S == { i \in 0 .. Len(text) : p <= Bytes(text)[i] }
<1>0. /\ Len(text) \in Nat /\ Bytes(text)[0] = 0
      /\ \A j \in 0 .. Len(text) : Bytes(text)[j] \in Nat
      /\ \A j \in 1 .. Len(text) : Bytes(text)[j] - Bytes(text)[j - 1] \in 1 .. 4
  BY BytesGrow
<1>1. PICK m \in S : \A k \in S : m <= k
  <2>1. S \subseteq Nat /\ Len(text) \in S
    BY <1>0 DEF Size
  <2> HIDE DEF S
  <2> QED
    BY <2>1, LeastNumber
<1>2. Size(text) \in Nat /\ p \in Nat
  BY Boundaries
<1>3. CASE m = 0
  <2>1. p = 0 /\ 0 \in Boundary(text)
    BY <1>0, <1>1, <1>2, <1>3, Boundaries
  <2> QED
    BY <2>1
<1>4. CASE m # 0
  <2>1. m \in 1 .. Len(text) /\ m - 1 \in 0 .. Len(text) /\ m - 1 \notin S
    BY <1>0, <1>1, <1>4
  <2>2. /\ Bytes(text)[m] - Bytes(text)[m - 1] \in 1 .. 4
        /\ Bytes(text)[m] \in Nat /\ Bytes(text)[m - 1] \in Nat
        /\ p <= Bytes(text)[m] /\ ~ (p <= Bytes(text)[m - 1])
    BY <1>0, <1>1, <2>1
  <2>3. Bytes(text)[m] - p \in 0 .. 3 /\ p + (Bytes(text)[m] - p) = Bytes(text)[m]
    <3>1. \A a, b, q \in Nat : a - b \in 1 .. 4 /\ q <= a /\ ~ (q <= b) => a - q \in 0 .. 3 /\ q + (a - q) = a
      OBVIOUS
    <3> QED
      BY <1>2, <2>2, <3>1
  <2>4. Bytes(text)[m] \in Boundary(text)
    BY <2>1 DEF Boundary
  <2> QED
    BY <2>3, <2>4
<1> QED
  BY <1>3, <1>4

(* calc_utf8_missing finds that end.                                       *)
LEMMA MissingFound ==
  ASSUME NEW text \in Seq(Widths), NEW p \in 0 .. Size(text)
  PROVE  /\ calc_utf8_missing(text, p) \in 0 .. 3
         /\ p + calc_utf8_missing(text, p) \in 0 .. Size(text)
         /\ Utf8 => p + calc_utf8_missing(text, p) \in Boundary(text)
<1> DEFINE EndsAfter(n) == p + n \in Boundary(text) /\ \A m \in 0 .. n - 1 : p + m \notin Boundary(text)
           S == { n \in 0 .. 3 : p + n \in Boundary(text) }
<1>0. Size(text) \in Nat /\ Boundary(text) \subseteq 0 .. Size(text)
  BY Boundaries
<1>1. CASE ~Utf8
  <2>1. calc_utf8_missing(text, p) = 0
    BY <1>1 DEF calc_utf8_missing
  <2> QED
    BY <1>0, <1>1, <2>1
<1>2. CASE Utf8
  <2>1. PICK n \in S : \A k \in S : n <= k
    <3>1. S \subseteq Nat
      OBVIOUS
    <3>2. \E k \in 0 .. 3 : p + k \in Boundary(text)
      BY CharacterEnds
    <3>3. S # {}
      BY <3>2
    <3> HIDE DEF S
    <3> QED
      BY <3>1, <3>3, LeastNumber
  <2>2. n \in 0 .. 3 /\ EndsAfter(n)
    <3>1. ASSUME NEW m \in 0 .. n - 1, p + m \in Boundary(text) PROVE FALSE
      <4>1. m \in S /\ ~ (n <= m)
        BY <2>1, <3>1
      <4> QED
        BY <2>1, <4>1
    <3> QED
      BY <2>1, <3>1
  <2>3. calc_utf8_missing(text, p) = CHOOSE k \in 0 .. 3 : EndsAfter(k)
    BY <1>2 DEF calc_utf8_missing
  <2>4. calc_utf8_missing(text, p) \in 0 .. 3 /\ EndsAfter(calc_utf8_missing(text, p))
    <3> HIDE DEF EndsAfter
    <3> QED
      BY <2>2, <2>3
  <2> QED
    BY <1>0, <1>2, <2>4
<1> QED
  BY <1>1, <1>2

-----------------------------------------------------------------------------
(* Pieces, and the shape of a table.                                       *)
LEMMA PieceIsText ==
  ASSUME NEW p \in Nat, NEW q \in Nat, p <= q
  PROVE  /\ Piece(p, q) \in Seq(Nat) /\ Len(Piece(p, q)) = q - p
         /\ \A i \in 1 .. q - p : Piece(p, q)[i] = p + i
<1>1. q - p \in Nat
  OBVIOUS
<1>2. \A i \in 1 .. q - p : p + i \in Nat
  OBVIOUS
<1>3. Piece(p, q) \in Seq(Nat)
  BY <1>1, <1>2 DEF Piece
<1> QED
  BY <1>1, <1>3 DEF Piece

(* A piece that continues another makes one piece with it.                 *)
LEMMA PiecesJoin ==
  ASSUME NEW p \in Nat, NEW q \in Nat, p <= q
  PROVE  Piece(0, p) \o Piece(p, q) = Piece(0, q)
<1>1. /\ Piece(0, p) \in Seq(Nat) /\ Len(Piece(0, p)) = p
      /\ \A i \in 1 .. p : Piece(0, p)[i] = i
  BY PieceIsText
<1>2. /\ Piece(p, q) \in Seq(Nat) /\ Len(Piece(p, q)) = q - p
      /\ \A i \in 1 .. q - p : Piece(p, q)[i] = p + i
  BY PieceIsText
<1>3. /\ Piece(0, q) \in Seq(Nat) /\ Len(Piece(0, q)) = q
      /\ \A i \in 1 .. q : Piece(0, q)[i] = i
  BY PieceIsText
<1> DEFINE J == Piece(0, p) \o Piece(p, q)
<1>4. /\ J \in Seq(Nat) /\ Len(J) = p + (q - p)
      /\ \A i \in 1 .. p + (q - p) : J[i] = IF i <= p THEN Piece(0, p)[i] ELSE Piece(p, q)[i - p]
  BY <1>1, <1>2, ConcatProperties
<1>5. p + (q - p) = q
  OBVIOUS
<1>6. ASSUME NEW i \in 1 .. q PROVE J[i] = Piece(0, q)[i]
  <2>1. CASE i <= p
    BY <1>1, <1>3, <1>4, <1>5, <2>1
  <2>2. CASE ~ (i <= p)
    <3>1. i - p \in 1 .. q - p /\ p + (i - p) = i
      BY <2>2
    <3>2. J[i] = Piece(p, q)[i - p]
      BY <1>4, <1>5, <2>2
    <3> QED
      BY <1>2, <1>3, <3>1, <3>2
  <2> QED
    BY <2>1, <2>2
<1> QED
  BY <1>3, <1>4, <1>5, <1>6, SeqEqual

LEMMA NothingYet == Piece(0, 0) = << >>
<1>1. Piece(0, 0) \in Seq(Nat) /\ Len(Piece(0, 0)) = 0
  BY PieceIsText
<1> QED
  BY <1>1, EmptySeq

(* Every row of a table has the same columns, and a cell in each.          *)
LEMMA TableShape ==
  ASSUME table \in Tables
  PROVE  /\ Len(table) \in Nat \ {0} /\ DOMAIN table = 1 .. Len(table)
         /\ Len(table[1]) \in Nat /\ Columns = 1 .. Len(table[1])
         /\ \A r \in DOMAIN table : \A c \in Columns :
              /\ table[r][c].kind \in {"null", "number", "string", "stream"}
              /\ table[r][c].text \in Seq(Widths)
<1>1. /\ table \in Seq(Seq(Cells)) /\ Len(table) > 0
      /\ \A r \in DOMAIN table : Len(table[r]) = Len(table[1])
  BY ParamDataAssumption
<1>2. Len(table) \in Nat \ {0} /\ DOMAIN table = 1 .. Len(table) /\ 1 \in DOMAIN table
  BY <1>1
<1>3. \A r \in DOMAIN table : table[r] \in Seq(Cells)
  BY <1>1, <1>2
<1>4. Len(table[1]) \in Nat /\ Columns = 1 .. Len(table[1])
  BY <1>2, <1>3 DEF Columns
<1>5. ASSUME NEW r \in DOMAIN table, NEW c \in Columns
      PROVE  /\ table[r][c].kind \in {"null", "number", "string", "stream"}
             /\ table[r][c].text \in Seq(Widths)
  <2>1. table[r] \in Seq(Cells) /\ c \in 1 .. Len(table[r])
    BY <1>1, <1>3, <1>4
  <2>2. table[r][c] \in Cells
    BY <2>1, ElementOfSeq
  <2> QED
    BY <2>2 DEF Cells
<1> QED
  BY <1>2, <1>4, <1>5

(* The first value of a column tells what its cells are.                   *)
LEMMA ColumnKinds ==
  ASSUME table \in Tables, NEW c \in Columns
  PROVE  /\ c \in Scalar(table) => \A r \in DOMAIN table : table[r][c].kind \in {"null", "number"}
         /\ c \in AtExec(table) =>
              /\ c \notin Scalar(table)
              /\ \A r \in DOMAIN table : table[r][c].kind \in {"null", "string", "stream"}
         /\ c \notin Scalar(table) \cup AtExec(table) => \A r \in DOMAIN table : table[r][c].kind = "null"
<1> DEFINE there == { r \in DOMAIN table : table[r][c].kind # "null" }
<1>1. /\ DOMAIN table \subseteq Nat /\ Columns = DOMAIN table[1]
      /\ \A r \in DOMAIN table : table[r][c].kind \in {"null", "number", "string", "stream"}
  BY TableShape DEF Columns
<1>2. \A q, r \in DOMAIN table : "null" \in {table[q][c].kind, table[r][c].kind}
                                   \/ table[q][c].kind = table[r][c].kind
  BY <1>1, ParamDataAssumption
<1>3. /\ c \in Scalar(table) <=> First(table, c) = "number"
      /\ c \in AtExec(table) <=> First(table, c) \in {"string", "stream"}
  BY <1>1 DEF Scalar, AtExec
<1>4. CASE there = {}
  <2>1. First(table, c) = "null"
    BY <1>4 DEF First
  <2> QED
    BY <1>3, <1>4, <2>1
<1>5. CASE there # {}
  <2>1. PICK m \in there : \A q \in there : m <= q
    <3>1. there \subseteq Nat
      BY <1>1
    <3> HIDE DEF there
    <3> QED
      BY <1>5, <3>1, LeastNumber
  <2>2. First(table, c) = table[CHOOSE r \in there : \A q \in there : r <= q][c].kind
    BY <1>5 DEF First
  <2>3. PICK r \in there : First(table, c) = table[r][c].kind
    <3> HIDE DEF there
    <3> QED
      BY <2>1, <2>2
  <2>4. \A q \in DOMAIN table : table[q][c].kind \in {"null", First(table, c)}
    BY <1>2, <2>3
  <2> QED
    BY <1>1, <1>3, <2>3, <2>4
<1> QED
  BY <1>4, <1>5

(* The driver asks for the columns in their order.                         *)
LEMMA NextColumn ==
  ASSUME table \in Tables, NEW c \in 0 .. Len(table[1])
  PROVE  /\ AtExec(table) \subseteq Columns /\ Scalar(table) \subseteq Columns
         /\ \/ NextAsked(c) = TVP /\ \A d \in AtExec(table) : d <= c
            \/ /\ NextAsked(c) \in AtExec(table) /\ NextAsked(c) > c
               /\ \A d \in AtExec(table) : d <= c \/ NextAsked(c) <= d
<1>1. Len(table[1]) \in Nat /\ Columns = 1 .. Len(table[1]) /\ Columns = DOMAIN table[1]
  BY TableShape DEF Columns
<1>2. AtExec(table) \subseteq Columns /\ Scalar(table) \subseteq Columns
  BY <1>1 DEF AtExec, Scalar
<1>3. CASE Later(c) = {}
  <2>1. NextAsked(c) = TVP
    BY <1>3 DEF NextAsked
  <2>2. \A d \in AtExec(table) : d <= c
    BY <1>1, <1>2, <1>3 DEF Later
  <2> QED
    BY <1>2, <2>1, <2>2
<1>4. CASE Later(c) # {}
  <2>1. Later(c) \subseteq Nat
    BY <1>1, <1>2 DEF Later
  <2>2. PICK m \in Later(c) : \A e \in Later(c) : m <= e
    BY <1>4, <2>1, LeastNumber
  <2>3. NextAsked(c) \in Later(c) /\ \A e \in Later(c) : NextAsked(c) <= e
    BY <1>4, <2>2 DEF NextAsked
  <2>4. NextAsked(c) \in AtExec(table) /\ NextAsked(c) > c
    BY <2>3 DEF Later
  <2>5. \A d \in AtExec(table) : d <= c \/ NextAsked(c) <= d
    BY <1>1, <1>2, <2>3 DEF Later
  <2> QED
    BY <1>2, <2>4, <2>5
<1> QED
  BY <1>3, <1>4

-----------------------------------------------------------------------------
(* The inductive invariant.                                                *)
Contents == {Null, NoCell} \cup (Nat \X Nat) \cup Seq(Nat)

Fixed ==
  /\ table \in Tables /\ alone \in BOOLEAN
  /\ alone => Len(table) = 1 /\ Len(table[1]) = 1 /\ table[1][1].kind = "stream"

(* The columns before the one asked for are done with the row, the others  *)
(* are not.                                                                *)
CellCounts ==
  /\ asked \in {TVP, Nothing, Failed} \cup Columns
  /\ tvp_row \in 0 .. Len(table)
  /\ current_row \in [Columns -> 0 .. Len(table)]
  /\ alone => asked # TVP /\ current_row[1] = 0
  /\ ~alone => \A c \in Scalar(table) : current_row[c] = tvp_row
  /\ ~alone /\ asked = TVP => \A c \in AtExec(table) : current_row[c] = tvp_row
  /\ ~alone /\ asked \in Columns =>
       /\ asked \in AtExec(table) /\ tvp_row > 0
       /\ \A c \in AtExec(table) : current_row[c] = IF c < asked THEN tvp_row ELSE tvp_row - 1

(* What the driver has of the cell it asked for.                           *)
CellSoFar ==
  /\ pos \in Nat /\ eof \in BOOLEAN
  /\ asked \in Columns \cup {TVP} => cell = Piece(0, pos)
  /\ asked = TVP => pos = 0 /\ ~eof
  /\ asked \in Columns =>
       /\ Current.kind = "null" => pos = 0
       /\ Current.kind # "null" => pos \in 0 .. Size(Text)
       /\ eof => Current.kind = "stream" /\ pos = Size(Text)

(* What it has of the row.                                                 *)
RowSoFar ==
  /\ placeholder \in [Columns -> Contents]
  /\ \A c \in Columns : placeholder[c] = Null \/ placeholder[c][1] \in DOMAIN table
  /\ row \in [Columns -> Contents]
  /\ ~alone /\ asked \in Columns \cup {TVP} /\ tvp_row > 0 =>
       \A c \in Columns : asked = TVP \/ c \notin AtExec(table) \/ c < asked
                            => row[c] = Content(tvp_row, c)

(* What it has of the table.                                               *)
RowsSoFar ==
  /\ rows \in Seq([Columns -> Contents]) /\ Len(rows) <= Len(table)
  /\ ~alone /\ asked \in Columns \cup {TVP} =>
       /\ Len(rows) = IF tvp_row = 0 THEN 0 ELSE tvp_row - 1
       /\ \A r \in 1 .. Len(rows) : \A c \in Columns : rows[r][c] = Content(r, c)
  /\ SentWhole

IInv == Fixed /\ CellCounts /\ CellSoFar /\ RowSoFar /\ RowsSoFar

(* Where a column that is asked for stands.                                *)
LEMMA WhereAsked ==
  ASSUME IInv, asked \in Columns
  PROVE  /\ current_row[asked] + 1 \in DOMAIN table
         /\ Current = table[current_row[asked] + 1][asked]
         /\ Current.kind \in {"null", "number", "string", "stream"} /\ Text \in Seq(Widths)
         /\ Size(Text) \in Nat
         /\ alone => asked = 1 /\ Current.kind = "stream" /\ tvp_row \in Nat
         /\ ~alone => /\ asked \in AtExec(table) /\ tvp_row \in DOMAIN table /\ current_row[asked] + 1 = tvp_row
                      /\ Current.kind # "number"
<1>1. table \in Tables
  BY DEF IInv, Fixed
<1>2. /\ Len(table) \in Nat \ {0} /\ DOMAIN table = 1 .. Len(table)
      /\ Len(table[1]) \in Nat /\ Columns = 1 .. Len(table[1])
      /\ \A r \in DOMAIN table : \A c \in Columns :
           /\ table[r][c].kind \in {"null", "number", "string", "stream"}
           /\ table[r][c].text \in Seq(Widths)
  BY <1>1, TableShape
<1>3. CASE alone
  <2>1. asked = 1 /\ current_row[1] = 0 /\ Len(table) = 1 /\ table[1][1].kind = "stream" /\ tvp_row \in Nat
    BY <1>2, <1>3 DEF IInv, Fixed, CellCounts
  <2>2. Current = table[1][1]
    BY <2>1 DEF Current
  <2>3. Text \in Seq(Widths)
    BY <1>2, <2>1, <2>2 DEF Text
  <2> QED
    BY <1>2, <1>3, <2>1, <2>2, <2>3, Boundaries
<1>4. CASE ~alone
  <2>1. /\ asked \in AtExec(table) /\ tvp_row > 0 /\ tvp_row \in 0 .. Len(table)
        /\ current_row[asked] = tvp_row - 1
    BY <1>2, <1>4 DEF IInv, CellCounts
  <2>2. tvp_row \in DOMAIN table /\ current_row[asked] + 1 = tvp_row
    BY <1>2, <2>1
  <2>3. Current = table[current_row[asked] + 1][asked]
    BY DEF Current
  <2>4. Current.kind \in {"null", "string", "stream"}
    BY <1>1, <2>1, <2>2, <2>3, ColumnKinds
  <2>5. Text \in Seq(Widths)
    BY <1>2, <2>2, <2>3 DEF Text
  <2> QED
    BY <1>4, <2>1, <2>2, <2>3, <2>4, <2>5, Boundaries
<1> QED
  BY <1>3, <1>4

LEMMA InitIInv == Init => IInv
<1> SUFFICES ASSUME Init PROVE IInv
  OBVIOUS
<1>1. table \in Tables /\ alone \in BOOLEAN
  BY DEF Init
<1>2. /\ Len(table) \in Nat \ {0} /\ DOMAIN table = 1 .. Len(table)
      /\ Len(table[1]) \in Nat /\ Columns = 1 .. Len(table[1])
      /\ \A r \in DOMAIN table : \A c \in Columns : table[r][c].text \in Seq(Widths)
  BY <1>1, TableShape
<1>3. Fixed
  BY <1>1 DEF Init, Fixed
<1>4. AtExec(table) \subseteq Columns /\ Scalar(table) \subseteq Columns
  BY <1>1, <1>2, NextColumn
<1>5. CellCounts
  <2>1. alone => asked = 1 /\ 1 \in Columns
    BY <1>2 DEF Init
  <2>2. ~alone => asked = 0 /\ asked \notin Columns
    BY <1>2 DEF Init, TVP
  <2>3. tvp_row = 0 /\ current_row = [c \in Columns |-> 0]
    BY DEF Init
  <2>4. current_row \in [Columns -> 0 .. Len(table)] /\ tvp_row \in 0 .. Len(table)
    BY <1>2, <2>3
  <2> QED
    BY <1>1, <1>4, <2>1, <2>2, <2>3, <2>4 DEF CellCounts, TVP
<1>6. CellSoFar
  <2>1. pos = 0 /\ eof = FALSE /\ cell = Piece(0, pos)
    BY NothingYet DEF Init
  <2>2. asked \in Columns => Current = table[1][1] /\ asked = 1 /\ 0 \in 0 .. Size(Text)
    <3>1. SUFFICES ASSUME asked \in Columns PROVE Current = table[1][1] /\ asked = 1 /\ 0 \in 0 .. Size(Text)
      OBVIOUS
    <3>2. asked = 1 /\ current_row[asked] = 0
      BY <1>2, <3>1 DEF Init, TVP
    <3>3. Current = table[1][1]
      BY <3>2 DEF Current
    <3>4. Text \in Seq(Widths)
      BY <1>2, <3>1, <3>2, <3>3 DEF Text
    <3> QED
      BY <3>2, <3>3, <3>4, Boundaries
  <2> QED
    BY <2>1, <2>2 DEF CellSoFar
<1>7. RowSoFar
  <2>1. placeholder = [c \in Columns |-> Null] /\ row = [c \in Columns |-> NoCell] /\ tvp_row = 0
    BY DEF Init
  <2>2. placeholder \in [Columns -> Contents] /\ row \in [Columns -> Contents]
    BY <2>1 DEF Contents
  <2> QED
    BY <2>1, <2>2 DEF RowSoFar
<1>8. RowsSoFar
  <2>1. rows = << >> /\ tvp_row = 0 /\ asked # Nothing
    BY DEF Init, TVP, Nothing
  <2>2. rows \in Seq([Columns -> Contents]) /\ Len(rows) = 0
    BY <2>1, EmptySeq
  <2> QED
    BY <1>2, <2>1, <2>2 DEF RowsSoFar, SentWhole
<1> QED
  BY <1>3, <1>5, <1>6, <1>7, <1>8 DEF IInv

(* A cell that is whole goes into the row, and the next one is asked for.  *)
LEMMA CellFinished ==
  ASSUME IInv, ~alone, asked \in Columns, NEW content \in Contents,
         content = Content(tvp_row, asked), CellDone(content), Stepped,
         asked' = NextAsked(asked), pos' = 0, eof' = FALSE,
         UNCHANGED <<table, alone, tvp_row, placeholder, rows>>
  PROVE  IInv'
<1>1. table \in Tables /\ table' = table /\ alone' = alone /\ Columns' = Columns
  BY DEF IInv, Fixed, Columns
<1>2. /\ Len(table) \in Nat \ {0} /\ DOMAIN table = 1 .. Len(table)
      /\ Len(table[1]) \in Nat /\ Columns = 1 .. Len(table[1])
      /\ \A r \in DOMAIN table : \A c \in Columns :
           /\ table[r][c].kind \in {"null", "number", "string", "stream"}
           /\ table[r][c].text \in Seq(Widths)
  BY <1>1, TableShape
<1>3. /\ asked \in AtExec(table) /\ tvp_row \in DOMAIN table /\ current_row[asked] + 1 = tvp_row
  BY WhereAsked
<1>4. asked \in 0 .. Len(table[1])
  BY <1>2
<1>5. /\ AtExec(table) \subseteq Columns /\ Scalar(table) \subseteq Columns
      /\ \/ asked' = TVP /\ \A d \in AtExec(table) : d <= asked
         \/ /\ asked' \in AtExec(table) /\ asked' > asked
            /\ \A d \in AtExec(table) : d <= asked \/ asked' <= d
  BY <1>1, <1>4, NextColumn
<1>6. AtExec(table)' = AtExec(table) /\ Scalar(table)' = Scalar(table)
  BY <1>1
<1>7. asked \notin Scalar(table)
  BY <1>1, <1>3, ColumnKinds
<1>8. Fixed'
  BY <1>1 DEF IInv, Fixed
<1>9. CellCounts'
  <2>1. /\ tvp_row \in 0 .. Len(table) /\ tvp_row' = tvp_row
        /\ current_row \in [Columns -> 0 .. Len(table)]
        /\ \A c \in Scalar(table) : current_row[c] = tvp_row
        /\ tvp_row > 0
        /\ \A c \in AtExec(table) : current_row[c] = IF c < asked THEN tvp_row ELSE tvp_row - 1
    BY DEF IInv, CellCounts
  <2>2. current_row' = [current_row EXCEPT ![asked] = tvp_row]
    BY <1>3, <2>1 DEF Stepped
  <2>3. current_row' \in [Columns -> 0 .. Len(table)]
    BY <2>1, <2>2
  <2>4. \A c \in Scalar(table) : current_row'[c] = tvp_row
    BY <1>5, <1>7, <2>1, <2>2
  <2>5. ASSUME asked' = TVP, NEW c \in AtExec(table) PROVE current_row'[c] = tvp_row
    <3>1. asked' \notin AtExec(table)
      BY <1>2, <1>5, <2>5 DEF TVP
    <3>2. c <= asked /\ c \in Nat /\ asked \in Nat /\ c \in Columns
      BY <1>2, <1>5, <3>1
    <3> QED
      BY <2>1, <2>2, <3>2
  <2>6. ASSUME asked' \in Columns, NEW c \in AtExec(table)
        PROVE  current_row'[c] = IF c < asked' THEN tvp_row ELSE tvp_row - 1
    <3>1. asked' # TVP
      BY <1>2, <2>6 DEF TVP
    <3>2. asked' > asked /\ (c <= asked \/ asked' <= c) /\ c \in Nat /\ asked \in Nat /\ asked' \in Nat /\ c \in Columns
      BY <1>2, <1>5, <2>6, <3>1
    <3> QED
      BY <2>1, <2>2, <3>2
  <2>7. asked' \in {TVP} \cup Columns /\ (asked' \in Columns => asked' \in AtExec(table))
    BY <1>2, <1>5 DEF TVP
  <2> QED
    BY <1>1, <1>6, <2>1, <2>3, <2>4, <2>5, <2>6, <2>7 DEF CellCounts
<1>10. CellSoFar'
  <2>1. cell' = Piece(0, 0)
    BY NothingYet DEF CellDone
  <2>2. asked' \in Columns => 0 \in 0 .. Size(Text)'
    <3>1. SUFFICES ASSUME asked' \in Columns PROVE Text' \in Seq(Widths)
      BY Boundaries
    <3>2. current_row'[asked'] = tvp_row - 1 /\ asked' \in Columns
      <4>1. asked' \in AtExec(table)
        BY <1>2, <1>5, <3>1 DEF TVP
      <4> QED
        BY <1>1, <1>6, <1>9, <3>1, <4>1, <1>2 DEF CellCounts
    <3>3. Current' = table[tvp_row][asked']
      BY <1>1, <1>2, <1>3, <3>2 DEF Current
    <3> QED
      BY <1>2, <1>3, <3>1, <3>3 DEF Text
  <2> QED
    BY <1>1, <2>1, <2>2 DEF CellSoFar
<1>11. RowSoFar'
  <2>1. row' = [row EXCEPT ![asked] = content] /\ row \in [Columns -> Contents]
    BY DEF IInv, RowSoFar, CellDone
  <2>2. row' \in [Columns -> Contents]
    BY <2>1
  <2>3. \A c \in Columns : c \notin AtExec(table) \/ c < asked => row[c] = Content(tvp_row, c)
    BY <1>2, <1>3 DEF IInv, RowSoFar
  <2>4. ASSUME NEW c \in Columns, asked' = TVP \/ c \notin AtExec(table) \/ c < asked'
        PROVE  row'[c] = Content(tvp_row, c)
    <3>1. c = asked \/ c \notin AtExec(table) \/ c < asked
      BY <1>2, <1>5, <2>4 DEF TVP
    <3> QED
      BY <1>2, <2>1, <2>3, <3>1
  <2>5. Content(tvp_row, 1)' = Content(tvp_row, 1) /\ \A c : Content(tvp_row, c)' = Content(tvp_row, c)
    BY <1>1 DEF Content
  <2>6. /\ placeholder' \in [Columns -> Contents]
        /\ \A c \in Columns : placeholder'[c] = Null \/ placeholder'[c][1] \in DOMAIN table
    BY DEF IInv, RowSoFar
  <2> QED
    BY <1>1, <1>6, <2>2, <2>4, <2>5, <2>6 DEF RowSoFar
<1>12. RowsSoFar'
  <2>1. asked' # Nothing
    BY <1>2, <1>5 DEF TVP, Nothing
  <2>2. /\ rows \in Seq([Columns -> Contents]) /\ Len(rows) <= Len(table)
        /\ Len(rows) = IF tvp_row = 0 THEN 0 ELSE tvp_row - 1
        /\ \A r \in 1 .. Len(rows) : \A c \in Columns : rows[r][c] = Content(r, c)
    BY DEF IInv, RowsSoFar
  <2>3. \A r, c : Content(r, c)' = Content(r, c)
    BY <1>1 DEF Content
  <2> QED
    BY <1>1, <2>1, <2>2, <2>3 DEF RowsSoFar, SentWhole
<1> QED
  BY <1>8, <1>9, <1>10, <1>11, <1>12 DEF IInv

(* The columns and the shape of the table stay as they are.                *)
LEMMA Still ==
  ASSUME IInv, UNCHANGED <<table, alone>>
  PROVE  /\ table \in Tables /\ Columns' = Columns /\ Fixed'
         /\ AtExec(table)' = AtExec(table) /\ Scalar(table)' = Scalar(table)
         /\ \A r, c : Content(r, c)' = Content(r, c)
         /\ Len(table) \in Nat \ {0} /\ DOMAIN table = 1 .. Len(table)
         /\ Len(table[1]) \in Nat /\ Columns = 1 .. Len(table[1])
<1>1. table \in Tables /\ Columns' = Columns /\ Fixed'
  BY DEF IInv, Fixed, Columns
<1>2. AtExec(table)' = AtExec(table) /\ Scalar(table)' = Scalar(table)
  OBVIOUS
<1>3. \A r, c : Content(r, c)' = Content(r, c)
  BY DEF Content
<1> QED
  BY <1>1, <1>2, <1>3, TableShape

(* Text that is sent comes after what was sent of it.                      *)
LEMMA PacketKeepsIInv == IInv /\ Packet => IInv'
<1> SUFFICES ASSUME IInv, Packet PROVE IInv'
  OBVIOUS
<1>1. asked \in Columns /\ Current.kind = "stream" /\ ~eof
  BY DEF Packet, Asked
<1>2. UNCHANGED <<table, alone, asked, tvp_row, current_row, placeholder, row, rows>>
  BY DEF Packet
<1>3. /\ table \in Tables /\ Columns' = Columns /\ Fixed'
      /\ AtExec(table)' = AtExec(table) /\ Scalar(table)' = Scalar(table)
      /\ \A r, c : Content(r, c)' = Content(r, c)
      /\ Len(table) \in Nat \ {0} /\ DOMAIN table = 1 .. Len(table)
      /\ Len(table[1]) \in Nat /\ Columns = 1 .. Len(table[1])
  BY <1>2, Still
<1>4. Text \in Seq(Widths) /\ Size(Text) \in Nat /\ Current' = Current /\ Text' = Text
  BY <1>1, <1>2, WhereAsked DEF Current, Text
<1>5. pos \in 0 .. Size(Text) /\ cell = Piece(0, pos)
  BY <1>1 DEF IInv, CellSoFar
<1>6. PICK n \in 0 .. Space :
        /\ IF pos = Size(Text) THEN n = 0 ELSE n > 0 /\ pos + n <= Size(Text)
        /\ LET missing == IF n = 0 THEN 0 ELSE calc_utf8_missing(Text, pos + n)
               end     == pos + n + missing
           IN /\ cell' = cell \o Piece(pos, end)
              /\ pos' = end
              /\ eof' \in IF n = 0 THEN {TRUE} ELSE IF end = Size(Text) THEN BOOLEAN ELSE {FALSE}
  BY DEF Packet
<1> DEFINE missing == IF n = 0 THEN 0 ELSE calc_utf8_missing(Text, pos + n)
           end == pos + n + missing
<1>7. n \in Nat /\ pos + n \in 0 .. Size(Text)
  BY <1>4, <1>5, <1>6, ParamDataAssumption
<1>8. end \in 0 .. Size(Text) /\ pos <= end /\ (n = 0 => end = Size(Text))
  <2>1. CASE n = 0
    BY <1>4, <1>5, <1>6, <1>7, <2>1
  <2>2. CASE n # 0
    <3>1. missing = calc_utf8_missing(Text, pos + n)
      BY <2>2
    <3>2. missing \in 0 .. 3 /\ pos + n + missing \in 0 .. Size(Text)
      BY <1>4, <1>7, <3>1, MissingFound
    <3> QED
      BY <1>4, <1>5, <1>7, <2>2, <3>2
  <2> QED
    BY <2>1, <2>2
<1>9. cell' = cell \o Piece(pos, end) /\ pos' = end
      /\ eof' \in IF n = 0 THEN {TRUE} ELSE IF end = Size(Text) THEN BOOLEAN ELSE {FALSE}
  BY <1>6
<1>10. cell' = Piece(0, pos')
  <2> HIDE DEF end
  <2>1. pos \in Nat /\ end \in Nat
    BY <1>4, <1>5, <1>8
  <2> QED
    BY <1>5, <1>8, <1>9, <2>1, PiecesJoin
<1>11. CellSoFar'
  <2> HIDE DEF end
  <2>1. pos' \in 0 .. Size(Text) /\ pos' \in Nat
    BY <1>4, <1>8, <1>9
  <2>3. eof' \in BOOLEAN /\ (eof' => pos' = Size(Text))
    <3>1. CASE n = 0
      BY <1>8, <1>9, <3>1
    <3>2. CASE n # 0 /\ end = Size(Text)
      BY <1>9, <3>2
    <3>3. CASE n # 0 /\ end # Size(Text)
      BY <1>9, <3>3
    <3> QED
      BY <3>1, <3>2, <3>3
  <2>2. asked # TVP
    BY <1>1, <1>3 DEF TVP
  <2> QED
    BY <1>1, <1>2, <1>4, <1>10, <2>1, <2>2, <2>3 DEF CellSoFar
<1>12. CellCounts' /\ RowSoFar' /\ RowsSoFar'
  <2>1. CellCounts'
    BY <1>2, <1>3 DEF IInv, CellCounts
  <2>2. RowSoFar'
    BY <1>2, <1>3 DEF IInv, RowSoFar
  <2>3. RowsSoFar'
    BY <1>2, <1>3 DEF IInv, RowsSoFar, SentWhole
  <2> QED
    BY <2>1, <2>2, <2>3
<1> QED
  BY <1>3, <1>11, <1>12 DEF IInv

LEMMA PieceIsContent ==
  ASSUME NEW n \in Nat
  PROVE  Piece(0, n) \in Contents
BY PieceIsText DEF Contents

LEMMA StreamEndsKeepsIInv == IInv /\ StreamEnds => IInv'
<1> SUFFICES ASSUME IInv, StreamEnds PROVE IInv'
  OBVIOUS
<1>1. asked \in Columns /\ eof /\ pos' = 0 /\ eof' = FALSE
  BY DEF StreamEnds, Asked
<1>2. UNCHANGED <<table, alone, tvp_row, placeholder>>
  BY DEF StreamEnds
<1>3. /\ table \in Tables /\ Columns' = Columns /\ Fixed'
      /\ AtExec(table)' = AtExec(table) /\ Scalar(table)' = Scalar(table)
      /\ \A r, c : Content(r, c)' = Content(r, c)
      /\ Len(table) \in Nat \ {0} /\ DOMAIN table = 1 .. Len(table)
      /\ Len(table[1]) \in Nat /\ Columns = 1 .. Len(table[1])
  BY <1>2, Still
<1>4. /\ Current.kind = "stream" /\ Size(Text) \in Nat /\ cell = Piece(0, Size(Text))
  BY <1>1, WhereAsked DEF IInv, CellSoFar
<1>5. Current = table[current_row[asked] + 1][asked] /\ current_row[asked] + 1 \in DOMAIN table
  BY <1>1, WhereAsked
<1>6. cell = Content(current_row[asked] + 1, asked) /\ cell \in Contents
  <2>1. Content(current_row[asked] + 1, asked) = Piece(0, Size(table[current_row[asked] + 1][asked].text))
    BY <1>4, <1>5 DEF Content
  <2>2. cell \in Contents
    BY <1>4, PieceIsContent
  <2> QED
    BY <1>4, <1>5, <2>1, <2>2 DEF Text
<1>7. CASE alone
  <2>1. asked' = Nothing /\ rows' = << [row EXCEPT ![1] = cell] >> /\ UNCHANGED <<row, cell, current_row>>
    BY <1>7 DEF StreamEnds
  <2>2. Len(table) = 1 /\ Len(table[1]) = 1 /\ asked = 1 /\ current_row[1] = 0
    BY <1>1, <1>3, <1>7 DEF IInv, Fixed, CellCounts
  <2>3. Columns = {1} /\ DOMAIN table = {1}
    BY <1>3, <2>2
  <2>4. row \in [Columns -> Contents]
    BY DEF IInv, RowSoFar
  <2>5. [row EXCEPT ![1] = cell] \in [Columns -> Contents] /\ [row EXCEPT ![1] = cell][1] = cell
    BY <1>6, <2>3, <2>4
  <2>6. rows' \in Seq([Columns -> Contents]) /\ Len(rows') = 1 /\ rows'[1] = [row EXCEPT ![1] = cell]
    BY <2>1, <2>5
  <2>7. asked' \notin Columns /\ asked' # TVP
    BY <2>1, <2>3 DEF Nothing, TVP
  <2>8. CellCounts'
    BY <1>2, <1>3, <1>7, <2>1, <2>7 DEF IInv, CellCounts
  <2>9. CellSoFar'
    BY <1>1, <1>3, <2>7 DEF CellSoFar
  <2>10. RowSoFar'
    BY <1>2, <1>3, <1>7, <2>1 DEF IInv, RowSoFar
  <2>11. cell = Content(1, 1)
    BY <1>6, <2>2
  <2>12. \A r \in DOMAIN table : \A c \in Columns : rows'[r][c] = Content(r, c)
    BY <2>3, <2>5, <2>6, <2>11
  <2>13. RowsSoFar'
    BY <1>2, <1>3, <1>7, <2>2, <2>6, <2>12 DEF RowsSoFar, SentWhole
  <2> QED
    BY <1>3, <2>8, <2>9, <2>10, <2>13 DEF IInv
<1>8. CASE ~alone
  <2>1. CellDone(cell) /\ Stepped /\ asked' = NextAsked(asked) /\ UNCHANGED rows
    BY <1>8 DEF StreamEnds
  <2>2. cell = Content(tvp_row, asked)
    BY <1>1, <1>6, <1>8, WhereAsked
  <2> QED
    BY <1>1, <1>2, <1>6, <1>8, <2>1, <2>2, CellFinished
<1> QED
  BY <1>7, <1>8

LEMMA NullCellKeepsIInv == IInv /\ NullCell => IInv'
<1> SUFFICES ASSUME IInv, NullCell PROVE IInv'
  OBVIOUS
<1>1. asked \in Columns /\ Current.kind = "null" /\ pos = 0 /\ ~eof /\ eof \in BOOLEAN
  BY DEF NullCell, Asked, IInv, CellSoFar
<1>2. ~alone /\ Current = table[tvp_row][asked]
  BY <1>1, WhereAsked DEF IInv, Fixed
<1>3. Null = Content(tvp_row, asked) /\ Null \in Contents
  BY <1>1, <1>2 DEF Content, Contents
<1>4. /\ CellDone(Null) /\ Stepped /\ asked' = NextAsked(asked)
      /\ UNCHANGED <<table, alone, tvp_row, placeholder, rows>> /\ pos' = 0 /\ eof' = FALSE
  BY <1>1 DEF NullCell
<1> QED
  BY <1>1, <1>2, <1>3, <1>4, CellFinished

LEMMA StringCellKeepsIInv == IInv /\ StringCell => IInv'
<1> SUFFICES ASSUME IInv, StringCell PROVE IInv'
  OBVIOUS
<1> DEFINE size == Size(Text)
           end  == IF size - pos > Batch THEN pos + Batch ELSE size
<1>1. asked \in Columns /\ Current.kind = "string" /\ ~eof /\ eof \in BOOLEAN
  BY DEF StringCell, Asked, IInv, CellSoFar
<1>2. UNCHANGED <<table, alone, tvp_row, placeholder, eof, rows>>
  BY DEF StringCell
<1>3. /\ table \in Tables /\ Columns' = Columns /\ Fixed'
      /\ AtExec(table)' = AtExec(table) /\ Scalar(table)' = Scalar(table)
      /\ \A r, c : Content(r, c)' = Content(r, c)
      /\ Len(table) \in Nat \ {0} /\ DOMAIN table = 1 .. Len(table)
      /\ Len(table[1]) \in Nat /\ Columns = 1 .. Len(table[1])
  BY <1>2, Still
<1>4. ~alone /\ tvp_row \in DOMAIN table /\ Current = table[tvp_row][asked] /\ Size(Text) \in Nat
  BY <1>1, WhereAsked
<1>5. pos \in 0 .. size /\ cell = Piece(0, pos)
  BY <1>1 DEF IInv, CellSoFar
<1>6. pos \in Nat /\ end \in Nat /\ pos <= end /\ end <= size
  BY <1>4, <1>5, ParamDataAssumption
<1>7. cell \o Piece(pos, end) = Piece(0, end)
  <2> HIDE DEF end
  <2> QED
    BY <1>5, <1>6, PiecesJoin
<1>8. CASE end < size
  <2>1. cell' = cell \o Piece(pos, end) /\ pos' = end /\ UNCHANGED <<row, current_row, asked>>
    BY <1>8 DEF StringCell, Text
  <2>2. Current' = Current /\ Text' = Text
    BY <1>2, <2>1 DEF Current, Text
  <2>3. asked # TVP
    BY <1>1, <1>3 DEF TVP
  <2>4. CellSoFar'
    <3> HIDE DEF end
    <3>1. pos' \in Nat /\ pos' \in 0 .. Size(Text) /\ cell' = Piece(0, pos')
      BY <1>4, <1>6, <1>7, <2>1
    <3> QED
      BY <1>1, <1>2, <1>3, <2>1, <2>2, <2>3, <3>1 DEF CellSoFar
  <2>5. CellCounts'
    BY <1>2, <1>3, <2>1 DEF IInv, CellCounts
  <2>6. RowSoFar'
    BY <1>2, <1>3, <2>1 DEF IInv, RowSoFar
  <2>7. RowsSoFar'
    BY <1>2, <1>3, <2>1 DEF IInv, RowsSoFar, SentWhole
  <2> QED
    BY <1>3, <2>4, <2>5, <2>6, <2>7 DEF IInv
<1>9. CASE ~ (end < size)
  <2>1. /\ CellDone(cell \o Piece(pos, end)) /\ pos' = 0 /\ Stepped /\ asked' = NextAsked(asked)
    BY <1>9 DEF StringCell, Text
  <2>2. end = size
    BY <1>4, <1>6, <1>9
  <2>3. Content(tvp_row, asked) = Piece(0, size)
    BY <1>1, <1>4 DEF Content, Text
  <2>4. Piece(0, size) \in Contents
    BY <1>4, PieceIsContent
  <2>5. CellDone(Piece(0, size))
    BY <1>7, <2>1, <2>2
  <2> QED
    BY <1>1, <1>2, <1>4, <2>1, <2>3, <2>4, <2>5, CellFinished
<1> QED
  BY <1>8, <1>9

LEMMA SendFailsKeepsIInv == IInv /\ SendFails => IInv'
<1> SUFFICES ASSUME IInv, SendFails PROVE IInv'
  OBVIOUS
<1>1. asked' = Failed
  BY DEF SendFails
<1>2. UNCHANGED <<table, alone, tvp_row, current_row, placeholder, pos, eof, cell, row, rows, packet>>
  BY DEF SendFails
<1>3. /\ table \in Tables /\ Columns' = Columns /\ Fixed'
      /\ AtExec(table)' = AtExec(table) /\ Scalar(table)' = Scalar(table)
      /\ \A r, c : Content(r, c)' = Content(r, c)
      /\ Len(table) \in Nat \ {0} /\ DOMAIN table = 1 .. Len(table)
      /\ Len(table[1]) \in Nat /\ Columns = 1 .. Len(table[1])
  BY <1>2, Still
<1>4. asked' \notin Columns /\ asked' \notin {TVP, Nothing}
  BY <1>1, <1>3 DEF Failed, TVP, Nothing
<1>5. CellCounts'
  BY <1>1, <1>2, <1>3, <1>4 DEF IInv, CellCounts
<1>6. CellSoFar'
  BY <1>2, <1>3, <1>4 DEF IInv, CellSoFar
<1>7. RowSoFar'
  BY <1>2, <1>3, <1>4 DEF IInv, RowSoFar
<1>8. RowsSoFar'
  BY <1>2, <1>3, <1>4 DEF IInv, RowsSoFar, SentWhole
<1> QED
  BY <1>3, <1>5, <1>6, <1>7, <1>8 DEF IInv

(* A row that is whole goes with those before it.                          *)
LEMMA RowIsKept ==
  ASSUME IInv, asked = TVP, tvp_row > 0
  PROVE  /\ Append(rows, row) \in Seq([Columns -> Contents])
         /\ Len(Append(rows, row)) = tvp_row
         /\ \A r \in 1 .. tvp_row : \A c \in Columns : Append(rows, row)[r][c] = Content(r, c)
<1>1. /\ ~alone /\ tvp_row \in Nat /\ tvp_row > 0
  BY DEF IInv, Fixed, CellCounts, TVP
<1>2. /\ rows \in Seq([Columns -> Contents]) /\ row \in [Columns -> Contents]
      /\ Len(rows) = tvp_row - 1
      /\ \A r \in 1 .. Len(rows) : \A c \in Columns : rows[r][c] = Content(r, c)
      /\ \A c \in Columns : row[c] = Content(tvp_row, c)
  BY <1>1 DEF IInv, RowSoFar, RowsSoFar
<1>3. /\ Append(rows, row) \in Seq([Columns -> Contents])
      /\ Len(Append(rows, row)) = Len(rows) + 1
      /\ \A i \in 1 .. Len(rows) : Append(rows, row)[i] = rows[i]
      /\ Append(rows, row)[Len(rows) + 1] = row
  BY <1>2, AppendProperties
<1>4. Len(Append(rows, row)) = tvp_row /\ Append(rows, row)[tvp_row] = row
      /\ \A i \in 1 .. tvp_row - 1 : Append(rows, row)[i] = rows[i]
  BY <1>1, <1>2, <1>3
<1>5. ASSUME NEW r \in 1 .. tvp_row, NEW c \in Columns PROVE Append(rows, row)[r][c] = Content(r, c)
  <2>1. CASE r = tvp_row
    BY <1>2, <1>4, <2>1
  <2>2. CASE r # tvp_row
    <3>1. r \in 1 .. tvp_row - 1
      BY <1>1, <2>2
    <3> QED
      BY <1>2, <1>4, <3>1
  <2> QED
    BY <2>1, <2>2
<1> QED
  BY <1>3, <1>4, <1>5

LEMMA RowAvailableKeepsIInv == IInv /\ RowAvailable => IInv'
<1> SUFFICES ASSUME IInv, RowAvailable PROVE IInv'
  OBVIOUS
<1> DEFINE r == tvp_row + 1
<1>1. asked = TVP /\ tvp_row < Len(table) /\ tvp_row' = r /\ placeholder' = Populated(r) /\ asked' = NextAsked(0)
  BY DEF RowAvailable
<1>2. UNCHANGED <<table, alone, pos, eof, cell>>
  BY DEF RowAvailable
<1>3. /\ table \in Tables /\ Columns' = Columns /\ Fixed'
      /\ AtExec(table)' = AtExec(table) /\ Scalar(table)' = Scalar(table)
      /\ \A q, c : Content(q, c)' = Content(q, c)
      /\ Len(table) \in Nat \ {0} /\ DOMAIN table = 1 .. Len(table)
      /\ Len(table[1]) \in Nat /\ Columns = 1 .. Len(table[1])
  BY <1>2, Still
<1>4. /\ AtExec(table) \subseteq Columns /\ Scalar(table) \subseteq Columns
      /\ \/ asked' = TVP /\ \A d \in AtExec(table) : d <= 0
         \/ /\ asked' \in AtExec(table) /\ asked' > 0
            /\ \A d \in AtExec(table) : d <= 0 \/ asked' <= d
  BY <1>1, <1>3, NextColumn
<1>5. ~alone /\ tvp_row \in Nat /\ r \in DOMAIN table /\ r > 0 /\ r # 0 /\ r \in Nat /\ r - 1 = tvp_row
  BY <1>1, <1>3 DEF IInv, CellCounts
<1>6. \/ asked' = TVP /\ asked' \notin Columns /\ AtExec(table) = {}
      \/ asked' \in AtExec(table) /\ asked' \in Columns /\ asked' # TVP /\ \A d \in AtExec(table) : ~ (d < asked')
  <2>1. \A d \in Columns : d \in Nat /\ d > 0 /\ d # TVP
    BY <1>3 DEF TVP
  <2>2. \A d \in AtExec(table) : d \in Nat /\ d > 0
    BY <1>4, <2>1
  <2>3. CASE asked' = TVP /\ \A d \in AtExec(table) : d <= 0
    <3>1. AtExec(table) = {}
      BY <2>2, <2>3
    <3> QED
      BY <2>1, <2>3, <3>1
  <2>4. CASE /\ asked' \in AtExec(table) /\ asked' > 0
             /\ \A d \in AtExec(table) : d <= 0 \/ asked' <= d
    BY <1>4, <2>1, <2>2, <2>4
  <2> QED
    BY <1>4, <2>3, <2>4
<1>7. /\ \A c \in Scalar(table) : table[r][c].kind \in {"null", "number"} /\ c \notin AtExec(table)
      /\ \A c \in AtExec(table) : c \notin Scalar(table)
      /\ \A c \in Columns : c \notin Scalar(table) \cup AtExec(table) => table[r][c].kind = "null"
  BY <1>3, <1>4, <1>5, ColumnKinds
<1>8. CellCounts'
  <2>1. current_row' = [c \in Columns |-> IF c \in Scalar(table) THEN current_row[c] + 1 ELSE current_row[c]]
    BY DEF RowAvailable
  <2>2. /\ current_row \in [Columns -> 0 .. Len(table)]
        /\ \A c \in Scalar(table) : current_row[c] = tvp_row
        /\ \A c \in AtExec(table) : current_row[c] = tvp_row
    BY <1>1, <1>5 DEF IInv, CellCounts
  <2>3. /\ \A c \in Scalar(table) : current_row'[c] = r
        /\ \A c \in AtExec(table) : current_row'[c] = tvp_row
    BY <1>4, <1>7, <2>1, <2>2
  <2>4. current_row' \in [Columns -> 0 .. Len(table)]
    <3>1. \A c \in Columns : (IF c \in Scalar(table) THEN current_row[c] + 1 ELSE current_row[c]) \in 0 .. Len(table)
      BY <1>3, <1>5, <2>2
    <3> QED
      BY <2>1, <3>1
  <2>5. asked' \in {TVP} \cup Columns /\ tvp_row' \in 0 .. Len(table) /\ tvp_row' > 0 /\ tvp_row' - 1 = tvp_row
    BY <1>1, <1>3, <1>5, <1>6
  <2> HIDE DEF r
  <2> QED
    BY <1>1, <1>2, <1>3, <1>5, <1>6, <2>3, <2>4, <2>5 DEF CellCounts
<1>9. CellSoFar'
  <2>1. pos = 0 /\ ~eof /\ eof \in BOOLEAN /\ cell = Piece(0, 0)
    BY <1>1 DEF IInv, CellSoFar
  <2>2. ASSUME asked' \in Columns PROVE 0 \in 0 .. Size(Text)'
    <3>1. current_row'[asked'] = tvp_row
      <4>1. /\ asked' \in AtExec(table) /\ ~ (asked' < asked') /\ ~alone' /\ asked' \in Columns'
        BY <1>2, <1>3, <1>5, <1>6, <2>2
      <4>2. current_row'[asked'] = tvp_row' - 1
        BY <1>3, <1>8, <4>1 DEF CellCounts
      <4> QED
        BY <1>1, <1>5, <4>2
    <3>2. Current' = table[r][asked']
      BY <1>2, <3>1 DEF Current
    <3>3. Text' \in Seq(Widths)
      BY <1>3, <1>5, <2>2, <3>2, TableShape DEF Text
    <3> QED
      BY <3>3, Boundaries
  <2> QED
    BY <1>2, <1>3, <2>1, <2>2 DEF CellSoFar
<1>10. /\ placeholder' = [c \in Columns |-> IF c \notin Scalar(table) THEN placeholder[c]
                                            ELSE IF table[r][c].kind = "null" THEN Null ELSE <<r, c>>]
       /\ row' = [c \in Columns |-> IF c \in Scalar(table) THEN placeholder'[c]
                                    ELSE IF c \in AtExec(table) THEN NoCell ELSE Null]
  BY <1>1 DEF Populated, RowAvailable
<1>11. /\ Null \in Contents /\ NoCell \in Contents
       /\ \A c \in Columns : <<r, c>> \in Contents /\ <<r, c>>[1] = r
  BY <1>3, <1>5 DEF Contents
<1>12. RowSoFar'
  <2> HIDE DEF r
  <2>1. /\ placeholder \in [Columns -> Contents]
        /\ \A c \in Columns : placeholder[c] = Null \/ placeholder[c][1] \in DOMAIN table
    BY DEF IInv, RowSoFar
  <2>2. /\ placeholder' \in [Columns -> Contents]
        /\ \A c \in Columns : placeholder'[c] = Null \/ placeholder'[c][1] \in DOMAIN table
    BY <1>5, <1>10, <1>11, <2>1
  <2>3. row' \in [Columns -> Contents]
    BY <1>10, <1>11, <2>2
  <2>4. ASSUME NEW c \in Columns, c \notin AtExec(table) PROVE row'[c] = Content(r, c)
    <3>1. CASE c \in Scalar(table)
      BY <1>7, <1>10, <3>1 DEF Content
    <3>2. CASE c \notin Scalar(table)
      BY <1>7, <1>10, <2>4, <3>2 DEF Content
    <3> QED
      BY <3>1, <3>2
  <2>5. \A c \in Columns : (asked' = TVP \/ c \notin AtExec(table) \/ c < asked') => c \notin AtExec(table)
    BY <1>6
  <2> QED
    BY <1>1, <1>2, <1>3, <2>2, <2>3, <2>4, <2>5 DEF RowSoFar
<1>13. RowsSoFar'
  <2>1. rows' = IF tvp_row = 0 THEN rows ELSE Append(rows, row)
    BY DEF RowAvailable
  <2>2. asked' # Nothing
    BY <1>3, <1>6 DEF Nothing, TVP
  <2>3. /\ rows' \in Seq([Columns -> Contents]) /\ Len(rows') = tvp_row
        /\ \A q \in 1 .. tvp_row : \A c \in Columns : rows'[q][c] = Content(q, c)
    <3>1. CASE tvp_row = 0
      <4>1. rows' = rows /\ rows \in Seq([Columns -> Contents]) /\ Len(rows) = 0
        BY <1>1, <1>5, <2>1, <3>1 DEF IInv, RowsSoFar
      <4> QED
        BY <3>1, <4>1
    <3>2. CASE tvp_row # 0
      <4>1. tvp_row > 0 /\ rows' = Append(rows, row)
        BY <1>5, <2>1, <3>2
      <4> QED
        BY <1>1, <4>1, RowIsKept
    <3> QED
      BY <3>1, <3>2
  <2>4. Len(rows') <= Len(table) /\ Len(rows') = tvp_row' - 1 /\ tvp_row' # 0
    BY <1>1, <1>3, <1>5, <2>3
  <2> HIDE DEF r
  <2> QED
    BY <1>1, <1>2, <1>3, <2>2, <2>3, <2>4 DEF RowsSoFar, SentWhole
<1> QED
  BY <1>3, <1>8, <1>9, <1>12, <1>13 DEF IInv

LEMMA NoMoreRowsKeepsIInv == IInv /\ NoMoreRows => IInv'
<1> SUFFICES ASSUME IInv, NoMoreRows PROVE IInv'
  OBVIOUS
<1>1. asked = TVP /\ tvp_row = Len(table) /\ rows' = Append(rows, row) /\ asked' = Nothing
  BY DEF NoMoreRows
<1>2. UNCHANGED <<table, alone, tvp_row, current_row, placeholder, pos, eof, cell, row>>
  BY DEF NoMoreRows
<1>3. /\ table \in Tables /\ Columns' = Columns /\ Fixed'
      /\ AtExec(table)' = AtExec(table) /\ Scalar(table)' = Scalar(table)
      /\ \A r, c : Content(r, c)' = Content(r, c)
      /\ Len(table) \in Nat \ {0} /\ DOMAIN table = 1 .. Len(table)
      /\ Len(table[1]) \in Nat /\ Columns = 1 .. Len(table[1])
  BY <1>2, Still
<1>4. asked' \notin Columns /\ asked' # TVP
  BY <1>1, <1>3 DEF TVP, Nothing
<1>5. CellCounts'
  BY <1>1, <1>2, <1>3, <1>4 DEF IInv, CellCounts
<1>6. CellSoFar'
  BY <1>2, <1>3, <1>4 DEF IInv, CellSoFar
<1>7. RowSoFar'
  BY <1>2, <1>3, <1>4 DEF IInv, RowSoFar
<1>8. RowsSoFar'
  <2>1. /\ rows' \in Seq([Columns -> Contents]) /\ Len(rows') = Len(table)
        /\ \A r \in DOMAIN table : \A c \in Columns : rows'[r][c] = Content(r, c)
    BY <1>1, <1>3, RowIsKept
  <2> QED
    BY <1>1, <1>2, <1>3, <1>4, <2>1 DEF RowsSoFar, SentWhole
<1> QED
  BY <1>3, <1>5, <1>6, <1>7, <1>8 DEF IInv

LEMMA StutterKeepsIInv == IInv /\ UNCHANGED vars => IInv'
<1> SUFFICES ASSUME IInv, UNCHANGED vars PROVE IInv'
  OBVIOUS
<1>1. UNCHANGED <<table, alone, asked, tvp_row, current_row, placeholder, pos, eof, cell, row, rows>>
  BY DEF vars
<1>2. /\ Columns' = Columns /\ Fixed'
      /\ AtExec(table)' = AtExec(table) /\ Scalar(table)' = Scalar(table)
      /\ \A r, c : Content(r, c)' = Content(r, c)
  BY <1>1, Still
<1>3. Current' = Current /\ Text' = Text
  BY <1>1 DEF Current, Text
<1>4. CellCounts' /\ CellSoFar'
  BY <1>1, <1>2, <1>3 DEF IInv, CellCounts, CellSoFar
<1>5. RowSoFar' /\ RowsSoFar'
  BY <1>1, <1>2 DEF IInv, RowSoFar, RowsSoFar, SentWhole
<1> QED
  BY <1>2, <1>4, <1>5 DEF IInv

LEMMA StepKeepsIInv == IInv /\ [Next]_vars => IInv'
BY PacketKeepsIInv, StreamEndsKeepsIInv, SendFailsKeepsIInv, RowAvailableKeepsIInv, NoMoreRowsKeepsIInv,
   NullCellKeepsIInv, StringCellKeepsIInv, StutterKeepsIInv DEF Next

LEMMA Invariance == Spec => []IInv
BY InitIInv, StepKeepsIInv, PTL DEF Spec

-----------------------------------------------------------------------------
LEMMA IInvGivesSentInStep == IInv => SentInStep
<1> SUFFICES ASSUME IInv PROVE SentInStep
  OBVIOUS
<1>1. TypeOK
  BY DEF IInv, CellCounts, CellSoFar, RowSoFar, RowsSoFar, TypeOK
<1>2. InStep
  <2>1. ASSUME ~alone, asked \in Columns PROVE current_row[asked] = tvp_row - 1
    <3>1. asked \in AtExec(table) /\ asked \in Nat
      BY <2>1, TableShape DEF IInv, Fixed, CellCounts
    <3> QED
      BY <2>1, <3>1 DEF IInv, CellCounts
  <2>2. ASSUME ~alone, asked = TVP PROVE \A c \in AtExec(table) \cup Scalar(table) : current_row[c] = tvp_row
    BY <2>2 DEF IInv, CellCounts
  <2> QED
    BY <2>1, <2>2 DEF InStep
<1>3. SentWhole
  BY DEF IInv, RowsSoFar
<1> QED
  BY <1>1, <1>2, <1>3 DEF SentInStep

(* What is sent of a parameter is what is to be sent of it: a column is    *)
(* asked for at the row that was announced, and when the driver asks for   *)
(* nothing more it has every cell of every row, whole and in its place,    *)
(* however the packets were cut (sqlsrv_param_tvp::send_data_packet).      *)
THEOREM ParameterArrivesWhole == Spec => []SentInStep
BY Invariance, IInvGivesSentInStep, PTL

(* Every packet of UTF-8 text ends with a character, and fits the buffer   *)
(* with the bytes that complete its last one, if the buffer keeps three    *)
(* bytes for them and holds a piece of a string (core_stmt.cpp 2619).      *)
THEOREM PacketsEndWithCharacters ==
  ASSUME Slack >= 3, Batch <= Space + Slack
  PROVE  Spec => []PacketsWhole
<1>1. Init => PacketsWhole
  BY ParamDataAssumption DEF Init, PacketsWhole
<1>2. IInv /\ PacketsWhole /\ [Next]_vars => PacketsWhole'
  <2> SUFFICES ASSUME IInv, PacketsWhole, [Next]_vars PROVE PacketsWhole'
    OBVIOUS
  <2>1. CASE Packet
    <3>1. asked \in Columns /\ Current.kind = "stream"
      BY <2>1 DEF Packet, Asked
    <3>2. Text \in Seq(Widths) /\ Size(Text) \in Nat /\ pos \in 0 .. Size(Text)
      BY <3>1, WhereAsked DEF IInv, CellSoFar
    <3>3. PICK n \in 0 .. Space :
            /\ IF pos = Size(Text) THEN n = 0 ELSE n > 0 /\ pos + n <= Size(Text)
            /\ LET missing == IF n = 0 THEN 0 ELSE calc_utf8_missing(Text, pos + n)
                   end     == pos + n + missing
               IN packet' = [length |-> n + missing, whole |-> Utf8 => end \in Boundary(Text)]
      BY <2>1 DEF Packet
    <3>4. n \in Nat /\ n <= Space /\ pos \in Nat /\ pos + n \in 0 .. Size(Text)
      BY <3>2, <3>3, ParamDataAssumption
    <3>5. CASE n = 0
      <4>1. pos = Size(Text)
        BY <3>2, <3>3, <3>5
      <4>2. packet' = [length |-> n + 0, whole |-> Utf8 => pos + n + 0 \in Boundary(Text)]
        BY <3>3, <3>5
      <4>3. pos + n + 0 \in Boundary(Text)
        BY <3>2, <3>5, <4>1, Boundaries
      <4>4. packet'.length = n + 0 /\ packet'.whole = (Utf8 => pos + n + 0 \in Boundary(Text))
        BY <4>2
      <4>5. packet'.whole
        BY <4>3, <4>4
      <4>6. packet'.length <= Space + Slack
        BY <3>4, <4>4, ParamDataAssumption
      <4> QED
        BY <4>5, <4>6 DEF PacketsWhole
    <3>6. CASE n # 0
      <4> DEFINE m == calc_utf8_missing(Text, pos + n)
      <4>1. m \in 0 .. 3 /\ (Utf8 => pos + n + m \in Boundary(Text))
        BY <3>2, <3>4, MissingFound
      <4>2. packet' = [length |-> n + m, whole |-> Utf8 => pos + n + m \in Boundary(Text)]
        BY <3>3, <3>6
      <4> HIDE DEF m
      <4>3. packet'.length = n + m /\ packet'.whole = (Utf8 => pos + n + m \in Boundary(Text))
        BY <4>2
      <4>4. packet'.whole
        BY <4>1, <4>3
      <4>5. packet'.length <= Space + Slack
        BY <3>4, <4>1, <4>3, ParamDataAssumption
      <4> QED
        BY <4>4, <4>5 DEF PacketsWhole
    <3> QED
      BY <3>5, <3>6
  <2>2. CASE StringCell
    <3> DEFINE size == Size(Text)
               end == IF size - pos > Batch THEN pos + Batch ELSE size
    <3>1. asked \in Columns /\ Current.kind = "string"
      BY <2>2 DEF StringCell, Asked
    <3>2. size \in Nat /\ pos \in 0 .. size
      BY <3>1, WhereAsked DEF IInv, CellSoFar
    <3>3. packet' = [length |-> end - pos, whole |-> TRUE]
      BY <2>2 DEF StringCell, Text
    <3>4. end - pos <= Batch
      BY <3>2, ParamDataAssumption
    <3>5. packet'.whole /\ packet'.length <= Space + Slack
      <4>1. end \in Nat
        BY <3>2, ParamDataAssumption
      <4> HIDE DEF end
      <4> QED
        BY <3>2, <3>3, <3>4, <4>1, ParamDataAssumption
    <3> QED
      BY <3>5 DEF PacketsWhole
  <2>3. CASE StreamEnds \/ SendFails \/ RowAvailable \/ NoMoreRows \/ NullCell \/ UNCHANGED vars
    <3>1. UNCHANGED packet
      BY <2>3 DEF StreamEnds, SendFails, RowAvailable, NoMoreRows, NullCell, vars
    <3> QED
      BY <3>1 DEF PacketsWhole
  <2> QED
    BY <2>1, <2>2, <2>3 DEF Next
<1> QED
  BY <1>1, <1>2, Invariance, PTL DEF Spec

-----------------------------------------------------------------------------
(***************************************************************************)
(* FieldPieces.                                                            *)
(***************************************************************************)
(* The conversions that these proofs are about: those of the driver, and   *)
(* those of the row cache that neither misread what is left of a text nor  *)
(* take the terminator of a text into binary data.                         *)
Faithful(f) ==
  \/ f.source = "driver"
  \/ f.source = "buffered" /\ (f.stored \in {"binary", f.target} \/ (f.stored = "wchar" /\ f.target = "char"))

-----------------------------------------------------------------------------
(* Sequences: beginnings of a value.                                       *)
LEMMA ValueIsSeq ==
  ASSUME NEW n \in Nat
  PROVE  /\ Value(n) \in Seq(1 .. n) /\ Value(n) \in Seq(Nat) /\ Len(Value(n)) = n
         /\ \A i \in 1 .. n : Value(n)[i] = i
BY DEF Value

LEMMA NoValue == Value(0) = << >>
BY DEF Value

LEMMA ValueTyped ==
  ASSUME NEW n \in Nat, NEW m \in Nat, n <= m
  PROVE  Value(n) \in Seq(0 .. m)
BY DEF Value

(* A piece put after what came before it.                                  *)
LEMMA PutContinues ==
  ASSUME NEW n \in Nat, NEW a \in Nat, NEW k \in Nat, a + k <= n
  PROVE  Put(Value(a), a, ValuePiece(Value(n), a, k)) = Value(a + k)
<1> DEFINE p == ValuePiece(Value(n), a, k)
<1>1. /\ p = [i \in 1 .. k |-> a + i] /\ Len(p) = k
  <2>1. ASSUME NEW i \in 1 .. k PROVE Value(n)[a + i] = a + i
    <3>1. a + i \in 1 .. n
      OBVIOUS
    <3> QED
      BY <3>1 DEF Value
  <2>2. p = [i \in 1 .. k |-> a + i]
    BY <2>1 DEF ValuePiece
  <2> QED
    BY <2>2
<1>2. Len(Value(a)) = a /\ \A i \in 1 .. a : Value(a)[i] = i
  BY ValueIsSeq
<1>3. ASSUME NEW i \in 1 .. a + k
      PROVE  (IF i > a THEN p[i - a] ELSE IF i <= Len(Value(a)) THEN Value(a)[i] ELSE 0) = i
  <2> HIDE DEF p
  <2>1. CASE i > a
    <3>1. i - a \in 1 .. k /\ a + (i - a) = i
      BY <2>1
    <3> QED
      BY <1>1, <2>1, <3>1
  <2>2. CASE ~ (i > a)
    BY <1>2, <2>2
  <2> QED
    BY <2>1, <2>2
<1> QED
  BY <1>1, <1>3 DEF Put, Value

(* A piece put anywhere.                                                   *)
LEMMA PutTyped ==
  ASSUME NEW n \in Nat, NEW m \in Nat, n <= m, NEW buffer \in Seq(0 .. m),
         NEW offset \in Nat, NEW a \in Nat, NEW k \in Nat, a + k <= n
  PROVE  Put(buffer, offset, ValuePiece(Value(n), a, k)) \in Seq(0 .. m)
<1> DEFINE p == ValuePiece(Value(n), a, k)
<1>1. Len(p) = k /\ \A i \in 1 .. k : p[i] \in 0 .. m
  <2>1. ASSUME NEW i \in 1 .. k PROVE Value(n)[a + i] \in 0 .. m
    <3>1. a + i \in 1 .. n
      OBVIOUS
    <3> QED
      BY <3>1 DEF Value
  <2> QED
    BY <2>1 DEF ValuePiece
<1>2. \A i \in 1 .. Len(buffer) : buffer[i] \in 0 .. m
  OBVIOUS
<1> HIDE DEF p
<1>3. ASSUME NEW i \in 1 .. offset + k
      PROVE  (IF i > offset THEN p[i - offset] ELSE IF i <= Len(buffer) THEN buffer[i] ELSE 0) \in 0 .. m
  <2>1. CASE i > offset
    <3>1. i - offset \in 1 .. k
      BY <2>1
    <3> QED
      BY <1>1, <2>1, <3>1
  <2>2. CASE ~(i > offset)
    BY <1>2, <2>2
  <2> QED
    BY <2>1, <2>2
<1>4. Put(buffer, offset, p) = [i \in 1 .. offset + k |->
        IF i > offset THEN p[i - offset] ELSE IF i <= Len(buffer) THEN buffer[i] ELSE 0]
  BY <1>1 DEF Put
<1>5. offset + k \in Nat
  OBVIOUS
<1>6. Put(buffer, offset, p) \in [1 .. offset + k -> 0 .. m]
  BY <1>3, <1>4
<1> QED
  BY <1>5, <1>6 DEF p

LEMMA PrefixOfValue ==
  ASSUME NEW n \in Nat, NEW k \in Nat, k <= n
  PROVE  Prefix(Value(n), k) = Value(k)
BY ValueIsSeq DEF Prefix, Value

(* A piece appended to what came before it.                                *)
LEMMA PieceContinues ==
  ASSUME NEW n \in Nat, NEW a \in Nat, NEW k \in Nat, a + k <= n
  PROVE  Value(a) \o Prefix(ValuePiece(Value(n), a, k), k) = Value(a + k)
<1> DEFINE p == Prefix(ValuePiece(Value(n), a, k), k)
           J == Value(a) \o p
<1>1. p = [i \in 1 .. k |-> a + i]
  <2>1. ASSUME NEW i \in 1 .. k PROVE Value(n)[a + i] = a + i
    <3>1. a + i \in 1 .. n
      OBVIOUS
    <3> QED
      BY <3>1 DEF Value
  <2>2. ValuePiece(Value(n), a, k) = [i \in 1 .. k |-> a + i]
    BY <2>1 DEF ValuePiece
  <2>3. Len(ValuePiece(Value(n), a, k)) = k
    BY <2>2
  <2> QED
    BY <2>2, <2>3 DEF Prefix
<1>2. p \in Seq(Nat) /\ Len(p) = k /\ \A i \in 1 .. k : p[i] = a + i
  <2> HIDE DEF p
  <2>1. \A i \in 1 .. k : a + i \in Nat
    OBVIOUS
  <2> QED
    BY <1>1, <2>1
<1> HIDE DEF p
<1>3. Value(a) \in Seq(Nat) /\ Len(Value(a)) = a /\ \A i \in 1 .. a : Value(a)[i] = i
  BY ValueIsSeq
<1>4. /\ J \in Seq(Nat) /\ Len(J) = a + k
      /\ \A i \in 1 .. a + k : J[i] = IF i <= a THEN Value(a)[i] ELSE p[i - a]
  <2> DEFINE v == Value(a)
  <2>1. v \in Seq(Nat) /\ Len(v) = a
    BY <1>3
  <2> HIDE DEF v
  <2>2. /\ v \o p \in Seq(Nat) /\ Len(v \o p) = Len(v) + Len(p)
        /\ \A i \in 1 .. Len(v) + Len(p) : (v \o p)[i] = IF i <= Len(v) THEN v[i] ELSE p[i - Len(v)]
    BY <1>2, <2>1, ConcatProperties
  <2> QED
    BY <1>2, <2>1, <2>2 DEF v
<1>5. ASSUME NEW i \in 1 .. a + k PROVE J[i] = i
  <2>1. CASE i <= a
    BY <1>3, <1>4, <2>1
  <2>2. CASE ~ (i <= a)
    <3>1. i - a \in 1 .. k /\ a + (i - a) = i
      BY <2>2
    <3>2. J[i] = p[i - a]
      BY <1>4, <2>2
    <3> QED
      BY <1>2, <3>1, <3>2
  <2> QED
    BY <2>1, <2>2
<1>6. /\ Value(a + k) \in Seq(Nat) /\ Len(Value(a + k)) = a + k
      /\ \A i \in 1 .. a + k : Value(a + k)[i] = i
  BY ValueIsSeq
<1> DEFINE v == Value(a + k)
<1>7. /\ v \in Seq(Nat) /\ Len(v) = a + k
      /\ \A i \in 1 .. a + k : v[i] = i
  BY <1>6
<1> HIDE DEF J, v
<1>8. Len(J) = Len(v) /\ \A i \in 1 .. Len(J) : J[i] = v[i]
  BY <1>4, <1>5, <1>7
<1>9. J = v
  BY <1>4, <1>7, <1>8, SeqEqual
<1> QED
  BY <1>9 DEF J, v, p

-----------------------------------------------------------------------------
(* Lengths in bytes and in units.                                          *)
LEMMA Scaled ==
  ASSUME NEW b \in {1, 2, 4}, NEW x \in Int, NEW y \in Int
  PROVE  /\ x * b \in Int /\ (x >= 0 => x * b >= 0)
         /\ (x + y) * b = x * b + y * b
         /\ (x - y) * b = x * b - y * b
         /\ (x <= y) = (x * b <= y * b)
         /\ (x = y) = (x * b = y * b)
<1>1. CASE b = 1
  BY <1>1
<1>2. CASE b = 2
  BY <1>2
<1>3. CASE b = 4
  BY <1>3
<1> QED
  BY <1>1, <1>2, <1>3

LEMMA Parts ==
  ASSUME NEW b \in {1, 2, 4}, NEW x \in Nat
  PROVE  /\ x \div b \in Nat
         /\ (x \div b) * b <= x /\ x < (x \div b) * b + b
         /\ x % 4 = 0 => (x \div b) * b = x
<1>1. CASE b = 1
  BY <1>1
<1>2. CASE b = 2
  BY <1>2
<1>3. CASE b = 4
  BY <1>3
<1> QED
  BY <1>1, <1>2, <1>3

LEMMA Divided ==
  ASSUME NEW b \in {1, 2, 4}, NEW x \in Nat
  PROVE  (x * b) \div b = x
<1>1. CASE b = 1
  BY <1>1
<1>2. CASE b = 2
  BY <1>2
<1>3. CASE b = 4
  BY <1>3
<1> QED
  BY <1>1, <1>2, <1>3

(* The conversions there are.                                              *)
AllConversions == [source : {"driver", "buffered"}, stored : Types, target : Types]

LEMMA FieldUnits ==
  ASSUME NEW f \in AllConversions, Faithful(f)
  PROVE  /\ UnitBytes(f) \in {1, 2, 4}
         /\ Terminator(f) = Extra(f.target)
         /\ Extra(f.target) \in {0, 1, 2}
<1> f.source \in {"driver", "buffered"} /\ f.stored \in Types /\ f.target \in Types
  BY DEF AllConversions
<1>1. UnitBytes(f) \in {1, 2, 4}
  BY DEF UnitBytes
<1>2. Extra(f.target) \in {0, 1, 2}
  BY DEF Extra
<1>3. Terminator(f) = Extra(f.target)
  BY DEF Terminator, Faithful, Types
<1> QED
  BY <1>1, <1>2, <1>3

(* A piece is no longer than the rest, and as long as the buffer allows.   *)
LEMMA PieceSize ==
  ASSUME NEW f \in AllConversions, Faithful(f),
         NEW space \in Nat, NEW rest \in Nat, space >= Terminator(f)
  PROVE  /\ Copied(f, space, rest) \in Nat /\ Copied(f, space, rest) <= rest
         /\ Cut(f, space, rest) =>
              /\ Copied(f, space, rest) = (space - Terminator(f)) \div UnitBytes(f)
              /\ space - Terminator(f) < Copied(f, space, rest) * UnitBytes(f) + UnitBytes(f)
              /\ (space - Terminator(f)) % 4 = 0 =>
                   Copied(f, space, rest) * UnitBytes(f) = space - Terminator(f)
         /\ ~Cut(f, space, rest) => Copied(f, space, rest) = rest
<1> DEFINE b == UnitBytes(f)
           t == Terminator(f)
           c == Copied(f, space, rest)
<1>1. b \in {1, 2, 4} /\ t \in {0, 1, 2}
  BY FieldUnits
<1>2. space - t \in Nat
  BY <1>1
<1>3. CASE Cut(f, space, rest)
  <2>1. c = (space - t) \div b /\ space < rest * b + t
    <3>1. NoLess(space - t) = space - t
      BY <1>2 DEF NoLess
    <3> QED
      BY <1>3, <3>1 DEF Copied, Cut
  <2> HIDE DEF b, t, c
  <2>2. /\ c \in Nat /\ c * b <= space - t /\ space - t < c * b + b
        /\ (space - t) % 4 = 0 => c * b = space - t
    BY <1>1, <1>2, <2>1, Parts
  <2>3. c * b <= rest * b
    <3>1. c * b \in Int /\ rest * b \in Int
      BY <1>1, <2>2, Scaled
    <3> QED
      BY <1>1, <2>1, <2>2, <3>1
  <2>4. c <= rest
    BY <1>1, <2>2, <2>3, Scaled
  <2> QED
    BY <1>3, <2>1, <2>2, <2>4 DEF b, t, c
<1>4. CASE ~Cut(f, space, rest)
  BY <1>4 DEF Copied
<1> QED
  BY <1>3, <1>4

(* In a buffer of any size, even one smaller than a terminator, there is   *)
(* no more than the rest.                                                  *)
LEMMA PieceBounds ==
  ASSUME NEW f \in AllConversions, Faithful(f), NEW space \in Int, NEW rest \in Nat
  PROVE  Copied(f, space, rest) \in Nat /\ Copied(f, space, rest) <= rest
<1>1. Terminator(f) \in {0, 1, 2}
  BY FieldUnits
<1>2. CASE space >= Terminator(f)
  <2>1. space \in Nat
    BY <1>1, <1>2
  <2> QED
    BY <1>2, <2>1, PieceSize
<1>3. CASE ~(space >= Terminator(f))
  <2>1. space < Terminator(f)
    BY <1>1, <1>3
  <2>2. NoLess(space - Terminator(f)) = 0
    BY <1>1, <2>1 DEF NoLess
  <2>3. 0 \div UnitBytes(f) = 0
    BY FieldUnits
  <2>4. Copied(f, space, rest) = IF Cut(f, space, rest) THEN 0 ELSE rest
    BY <2>2, <2>3 DEF Copied
  <2> QED
    BY <2>4
<1> QED
  BY <1>2, <1>3

(* What the driver's word may be off by.                                   *)
Guess(f) == IF Guessed(f) THEN estimate ELSE 0

LEMMA ToldBounds ==
  ASSUME NEW f \in AllConversions, Faithful(f), estimate \in Int,
         NEW space, NEW rest \in Nat
  PROVE  /\ Told(f, space, rest) \in Nat
         /\ Cut(f, space, rest) => Told(f, space, rest) >= rest * UnitBytes(f) + Guess(f)
         /\ ~Cut(f, space, rest) => Told(f, space, rest) = rest * UnitBytes(f)
<1> DEFINE b == UnitBytes(f)
           n == rest * b
<1>1. n \in Nat
  <2>1. b \in {1, 2, 4}
    BY FieldUnits
  <2> HIDE DEF b
  <2>2. rest * b \in Int /\ rest * b >= 0
    BY <2>1, Scaled
  <2> QED
    BY <2>2
<1>2. ~Cut(f, space, rest) => Told(f, space, rest) = n
  BY DEF Told
<1>3. CASE Guessed(f)
  <2>1. Guess(f) = estimate
    BY <1>3 DEF Guess
  <2>2. CASE Cut(f, space, rest)
    <3>1. Told(f, space, rest) = NoLess(n + estimate)
      BY <1>3, <2>2 DEF Told
    <3> HIDE DEF n
    <3> QED
      BY <1>1, <2>1, <2>2, <3>1 DEF NoLess, n
  <2>3. CASE ~Cut(f, space, rest)
    BY <1>1, <1>2, <2>3
  <2> QED
    BY <2>2, <2>3
<1>4. CASE ~Guessed(f)
  <2>1. Told(f, space, rest) = n /\ Guess(f) = 0
    BY <1>4 DEF Told, Guess
  <2> HIDE DEF n
  <2> QED
    BY <1>1, <2>1 DEF n
<1> QED
  BY <1>3, <1>4

(* What a piece says is left, or that it is unknown where it was cut.      *)
LEMMA LeftTold ==
  ASSUME NEW f \in AllConversions, Faithful(f), NEW known \in BOOLEAN,
         NEW space, NEW from, NEW rest,
         NEW left \in Indicators(f, known, space, from, rest)
  PROVE  IF f.source = "driver" /\ ~known /\ Cut(f, space, rest)
         THEN left = NO_TOTAL ELSE left = Told(f, space, rest)
<1>1. ~(f.source = "buffered" /\ f.stored = "char" /\ f.target = "wchar")
  BY DEF Faithful
<1> QED
  BY <1>1 DEF Indicators

-----------------------------------------------------------------------------
(* The inductive invariant.  What every reader has put together is the     *)
(* beginning of the value up to what it has taken; the sizes it asks for   *)
(* say how much that is.                                                   *)
Halved == field.source = "buffered" /\ field.stored = "wchar" /\ field.target = "char"
Amount == IF Halved THEN units \div 2 ELSE units
UnitSize  == UnitBytes(field)

Shape == /\ FieldTypeOK
         /\ field.stored = "wchar" => units % 2 = 0

NotBegun == reader \in {"idle", "cached"} => taken = 0 /\ ~stream_eof /\ (reader = "cached" => field.source = "buffered")

FreshCache == reader = "idle" => already = 0 /\ held = << >> /\ ~full

Collected ==
  reader = "lob" =>
    /\ field.source = "buffered" /\ ~stream_eof
    /\ taken = already /\ held = Value(taken)
    /\ already <= units /\ already <= to_read
    /\ already > 0 => to_read <= Limit
    /\ full => to_read = units /\ length = units
    /\ sized /\ ~full => already = 0

(* What a string or a stream is made from.                                 *)
Kept ==
  field.source = "buffered" /\ reader \in {"cached", "string", "grow", "rest", "stream", "done"}
    => cached = Value(units) /\ units <= Limit

(* A first piece of another size than the initial one was the whole.       *)
FirstFits == first = InitialLen \/ ~Cut(field, first + Extra(field.target), Amount)

Assembled ==
  /\ reader = "string" => /\ taken = 0 /\ held = << >> /\ ~stream_eof
                          /\ to_read = first
  /\ reader = "grow" => /\ field.source = "driver" /\ ~sized /\ ~stream_eof
                        /\ taken <= Amount /\ to_read \in Nat
                        /\ FirstFits => /\ held = Value(taken)
                                        /\ to_read = taken * UnitSize /\ to_read % 4 = 0
  /\ reader = "rest" => /\ taken <= Amount /\ ~stream_eof
                        /\ ~(field.source = "driver" /\ ~sized)
                        /\ FirstFits => /\ held = Value(taken)
                                        /\ taken * UnitSize = InitialLen
                                        /\ to_read + InitialLen >= Amount * UnitSize + Guess(field)
  /\ reader = "done" /\ ~stream_eof /\ FirstFits /\ Padded
       => held = Value(Amount) /\ length = Amount * UnitSize

Streamed ==
  reader = "stream" \/ (reader = "done" /\ stream_eof)
    => /\ held = Value(taken) /\ taken <= Amount
       /\ length = taken * UnitSize
       /\ stream_eof => (Amount - taken) * UnitSize < Terminator(field) + UnitSize + NoLess(-estimate)

FieldInv == Shape /\ NotBegun /\ FreshCache /\ Collected /\ Kept /\ Assembled /\ Streamed

LEMMA FieldTyped ==
  ASSUME Shape, \A f \in Conversions : Faithful(f)
  PROVE  /\ field \in AllConversions /\ Faithful(field)
         /\ field.source \in {"driver", "buffered"}
         /\ UnitSize \in {1, 2, 4} /\ Terminator(field) = Extra(field.target)
         /\ Extra(field.target) \in {0, 1, 2}
         /\ units \in Nat /\ units <= MaxUnits /\ MaxUnits \in Nat
         /\ Amount \in Nat /\ Amount <= units
<1>1. field \in AllConversions /\ Faithful(field)
  BY FieldAssumption DEF Shape, FieldTypeOK, AllConversions
<1>2. units \in Nat /\ units <= MaxUnits /\ MaxUnits \in Nat
  BY FieldAssumption DEF Shape, FieldTypeOK
<1>3. Amount \in Nat /\ Amount <= units
  BY <1>2 DEF Amount
<1>4. field.source \in {"driver", "buffered"}
  BY <1>1 DEF AllConversions
<1> QED
  BY <1>1, <1>2, <1>3, <1>4, FieldUnits DEF UnitSize

(* The source gives the value: as it is, or half as many characters.       *)
LEMMA SourceIsValue ==
  ASSUME Shape, \A f \in Conversions : Faithful(f), field.source = "buffered" => cached = Value(units)
  PROVE  /\ Source = Value(Amount) /\ Len(Source) = Amount
         /\ Whole = Value(Amount) /\ Len(Whole) = Amount
<1>1. Whole = Value(Amount)
  BY DEF Whole, Amount, Halved
<1>2. Len(Value(Amount)) = Amount
  BY FieldTyped, ValueIsSeq
<1>3. CASE field.source = "driver"
  BY <1>1, <1>2, <1>3 DEF Source, Amount, Halved
<1>4. CASE field.source = "buffered" /\ ~Halved
  BY <1>1, <1>2, <1>4 DEF Source, Amount, Halved
<1>5. CASE Halved
  <2>1. cached = Value(units) /\ Len(cached) = units /\ units \in Nat
    BY <1>5, FieldTyped, ValueIsSeq DEF Halved
  <2>2. Source = [i \in 1 .. units \div 2 |-> IF cached[2 * i] = 2 * i THEN i ELSE 0]
    BY <1>5, <2>1 DEF Source, Halved
  <2>3. ASSUME NEW i \in 1 .. units \div 2
        PROVE  cached[2 * i] = 2 * i
    <3>1. 2 * i \in 1 .. units
      BY <2>1
    <3> QED
      BY <2>1, <3>1 DEF Value
  <2>4. Source = Value(Amount)
    BY <1>5, <2>2, <2>3 DEF Amount, Value
  <2> QED
    BY <1>1, <1>2, <2>4
<1> QED
  BY <1>3, <1>4, <1>5, FieldTyped

-----------------------------------------------------------------------------
(* Initial states.                                                         *)
LEMMA FieldInitInv == FieldInit => FieldInv
<1> SUFFICES ASSUME FieldInit PROVE FieldInv
  OBVIOUS
<1>1. << >> \in Seq(0 .. MaxUnits)
  BY EmptySeq
<1>2. full \in BOOLEAN /\ stream_eof \in BOOLEAN
  BY Zenon DEF FieldInit
<1>3. Shape
  <2>1. estimate \in Int
    BY FieldAssumption DEF FieldInit
  <2> QED
    BY <1>1, <1>2, <2>1 DEF FieldInit, Shape, FieldTypeOK, Readers
<1> QED
  BY <1>3 DEF FieldInit, FieldInv, NotBegun, FreshCache, Collected, Kept, Assembled, Streamed

LEMMA FieldStutterKeeps ==
  ASSUME FieldInv, UNCHANGED field_vars
  PROVE  FieldInv'
BY DEF FieldInv, field_vars, Shape, FieldTypeOK, NotBegun, FreshCache, Collected, Kept, Assembled, Streamed,
       Amount, Halved, UnitSize, FirstFits, Guess, Padded

(* What a value keeps while its field is read.                             *)
LEMMA SameField ==
  ASSUME UNCHANGED <<field, units>>
  PROVE  Amount' = Amount /\ UnitSize' = UnitSize
BY DEF Amount, Halved, UnitSize

LEMMA SameRoom ==
  ASSUME UNCHANGED <<field, units, estimate, first>>
  PROVE  FirstFits' = FirstFits /\ Padded' = Padded /\ Guess(field)' = Guess(field)
BY SameField DEF FirstFits, Padded, Guess

LEMMA LobStartKeeps ==
  ASSUME FieldInv, LobStart
  PROVE  FieldInv'
<1> USE DEF LobStart
<1>1. Shape'
  BY FieldAssumption DEF FieldInv, Shape, FieldTypeOK, Readers
<1>2. Collected'
  <2>1. taken = 0 /\ held = << >> /\ already = 0 /\ ~full /\ ~stream_eof
    BY DEF FieldInv, NotBegun, FreshCache
  <2>2. units >= 0
    BY DEF FieldInv, Shape, FieldTypeOK
  <2>3. InitialLen >= 0
    BY FieldAssumption
  <2> QED
    BY <2>1, <2>2, <2>3, NoValue DEF FieldInv, Shape, FieldTypeOK, Collected
<1> QED
  BY <1>1, <1>2 DEF FieldInv, NotBegun, FreshCache, Kept, Assembled, Streamed

LEMMA GivesUpKeeps ==
  ASSUME FieldInv, GivesUp
  PROVE  FieldInv'
<1>1. /\ reader' \in {"null", "failed"}
      /\ UNCHANGED <<field, units, sized, estimate, taken, already, to_read, full, held, length, stream_eof, cached, first>>
  BY DEF GivesUp, Ends
<1>2. Shape'
  BY <1>1 DEF FieldInv, Shape, FieldTypeOK, Readers
<1> QED
  BY <1>1, <1>2 DEF FieldInv, NotBegun, FreshCache, Collected, Kept, Assembled, Streamed

-----------------------------------------------------------------------------
(* The pieces of the row cache are copied as they are stored.              *)
LEMMA StoredPiece ==
  ASSUME FieldInv, reader = "lob", \A f \in Conversions : Faithful(f)
  PROVE  LET space == to_read - already + Extra(field.stored)
             rest  == units - taken
         IN /\ rest \in Nat
            /\ Cut(Stored, space, rest) = (to_read < units)
            /\ Copied(Stored, space, rest) = IF to_read < units THEN to_read - already ELSE rest
            /\ \A left \in Indicators(Stored, sized, space, taken, rest) :
                 left = IF to_read < units /\ ~sized THEN NO_TOTAL ELSE rest
<1> DEFINE space == to_read - already + Extra(field.stored)
           rest  == units - taken
<1>1. /\ field \in AllConversions /\ units \in Nat /\ to_read \in Int /\ already \in Nat
      /\ taken = already /\ already <= units /\ already <= to_read /\ sized \in BOOLEAN
  BY FieldTyped DEF FieldInv, Shape, FieldTypeOK, Collected
<1>2. rest \in Nat
  BY <1>1
<1>3. Extra(field.stored) \in {0, 1, 2}
  BY <1>1 DEF AllConversions, Types, Extra
<1>4. /\ UnitBytes(Stored) = 1 /\ Terminator(Stored) = Extra(field.stored)
      /\ Stored.source = "driver" /\ ~Guessed(Stored)
  BY DEF Stored, UnitBytes, Terminator, Guessed
<1>5. Cut(Stored, space, rest) = (to_read < units)
  BY <1>1, <1>3, <1>4 DEF Cut
<1>6. Copied(Stored, space, rest) = IF to_read < units THEN to_read - already ELSE rest
  <2>1. NoLess(space - Terminator(Stored)) \div UnitBytes(Stored) = to_read - already
    BY <1>1, <1>3, <1>4 DEF NoLess
  <2> HIDE DEF space, rest
  <2> QED
    BY <1>5, <2>1 DEF Copied
<1>7. ASSUME NEW left \in Indicators(Stored, sized, space, taken, rest)
      PROVE  left = IF to_read < units /\ ~sized THEN NO_TOTAL ELSE rest
  <2>1. rest * UnitBytes(Stored) = rest
    BY <1>2, <1>4
  <2> HIDE DEF rest
  <2>2. left \in (IF ~sized /\ Cut(Stored, space, rest) THEN {NO_TOTAL} ELSE {rest})
    BY <1>4, <1>7, <2>1 DEF Indicators, Told
  <2> QED
    BY <1>5, <2>2
<1> QED
  BY <1>2, <1>5, <1>6, <1>7

(* A piece that was cut: what has been taken is what has been asked for.   *)
LEMMA LobMoreKeeps ==
  ASSUME FieldInv, \A f \in Conversions : Faithful(f), reader = "lob",
         LobMore(to_read - already + Extra(field.stored))
  PROVE  FieldInv'
<1> DEFINE space == to_read - already + Extra(field.stored)
           rest  == units - taken
<1>1. /\ field \in AllConversions /\ field \in Conversions /\ units \in 0 .. MaxUnits /\ MaxUnits \in Nat
      /\ to_read \in Int /\ already \in Nat /\ taken \in Nat
      /\ sized \in BOOLEAN /\ full \in BOOLEAN /\ length \in Int /\ stream_eof = FALSE /\ Limit \in Nat
      /\ cached \in Seq(0 .. MaxUnits) /\ estimate \in Int /\ first \in Nat
  BY FieldTyped, FieldAssumption DEF FieldInv, Shape, FieldTypeOK, Collected
<1>2. /\ field.source = "buffered" /\ taken = already /\ held = Value(taken)
      /\ already <= units /\ already <= to_read /\ (full => to_read = units)
      /\ (sized /\ ~full => already = 0)
      /\ (field.stored = "wchar" => units % 2 = 0)
  BY DEF FieldInv, Collected, Shape
<1>3. /\ to_read < units /\ ~full
      /\ Copied(Stored, space, rest) = to_read - already
      /\ \A left \in Indicators(Stored, sized, space, taken, rest) : left = IF ~sized THEN NO_TOTAL ELSE rest
  <2> HIDE DEF space, rest
  <2>1. /\ Cut(Stored, space, rest) = (to_read < units)
        /\ Copied(Stored, space, rest) = IF to_read < units THEN to_read - already ELSE rest
        /\ \A left \in Indicators(Stored, sized, space, taken, rest) :
             left = IF to_read < units /\ ~sized THEN NO_TOTAL ELSE rest
    BY StoredPiece DEF space, rest
  <2>2. Cut(Stored, space, rest)
    BY DEF LobMore, space, rest
  <2>3. to_read < units
    BY <2>1, <2>2
  <2>4. ~full
    BY <1>1, <1>2, <2>3
  <2> QED
    BY <2>1, <2>3, <2>4
<1>4. /\ taken' = to_read /\ already' = to_read /\ held' = Value(to_read)
      /\ UNCHANGED <<field, units, sized, estimate, stream_eof, cached, first>>
  <2>1. held' = Put(Value(taken), taken, ValuePiece(Value(units), taken, to_read - taken))
    BY <1>2, <1>3 DEF LobMore
  <2>2. taken + (to_read - taken) = to_read /\ to_read - taken \in Nat
    BY <1>1, <1>2
  <2>3. held' = Value(to_read)
    BY <1>1, <1>3, <2>1, <2>2, PutContinues
  <2> QED
    BY <1>1, <1>2, <1>3, <2>2, <2>3 DEF LobMore, AlreadyRead
<1>5. PICK left \in Indicators(Stored, sized, space, taken, rest) :
        \/ /\ left # NO_TOTAL
           /\ LobTotal(left) /\ length' = left
           /\ Ends(IF OverLimit(left) THEN "failed" ELSE "lob")
        \/ /\ left = NO_TOTAL
           /\ to_read' = Grown(to_read)
           /\ Ends(IF OverLimit(Grown(to_read)) THEN "failed" ELSE "lob")
           /\ UNCHANGED <<full, length>>
  BY DEF LobMore
<1>6. to_read \in Nat /\ rest \in Nat
  BY <1>1, <1>2
<1>7. Value(to_read) \in Seq(0 .. MaxUnits)
  BY <1>1, <1>3, <1>6, ValueTyped
<1>8. CASE sized
  <2>1. left = rest /\ already = 0 /\ rest = units
    <3>1. left = rest
      BY <1>3, <1>8
    <3>2. already = 0
      BY <1>2, <1>3, <1>8, Zenon
    <3> QED
      BY <1>1, <1>2, <3>1, <3>2
  <2>2. /\ to_read' = units /\ full' = TRUE /\ length' = units
        /\ reader' = IF units > Limit THEN "failed" ELSE "lob"
    BY <1>1, <1>5, <2>1 DEF NO_TOTAL, LobTotal, Ends, OverLimit
  <2>a. full' \in BOOLEAN /\ stream_eof' \in BOOLEAN
    BY <1>1, <1>4, <2>2, Zenon
  <2>3. Shape'
    BY <1>1, <1>2, <1>4, <1>6, <1>7, <2>a, <2>2 DEF Shape, FieldTypeOK, Readers
  <2>4. Collected'
    BY <1>1, <1>2, <1>3, <1>4, <1>6, <2>2 DEF Collected
  <2> QED
    BY <2>2, <2>3, <2>4 DEF FieldInv, NotBegun, FreshCache, Kept, Assembled, Streamed
<1>9. CASE ~sized
  <2>1. left = NO_TOTAL
    BY <1>3, <1>5, <1>9
  <2>2. /\ to_read' = 2 * to_read /\ full' = FALSE /\ length' = length
        /\ reader' = IF 2 * to_read > Limit THEN "failed" ELSE "lob"
    BY <1>3, <1>5, <2>1 DEF Ends, OverLimit, Grown
  <2>a. full' \in BOOLEAN /\ stream_eof' \in BOOLEAN
    BY <1>1, <1>4, <2>2, Zenon
  <2>3. Shape'
    BY <1>1, <1>2, <1>4, <1>6, <1>7, <2>a, <2>2 DEF Shape, FieldTypeOK, Readers
  <2>4. Collected'
    BY <1>1, <1>2, <1>3, <1>4, <1>6, <1>9, <2>2 DEF Collected
  <2> QED
    BY <2>2, <2>3, <2>4 DEF FieldInv, NotBegun, FreshCache, Kept, Assembled, Streamed
<1> QED
  BY <1>1, <1>8, <1>9

(* The last piece: what was kept is the value, and within the limit.       *)
LEMMA LobLastKeeps ==
  ASSUME FieldInv, \A f \in Conversions : Faithful(f), reader = "lob",
         LobLast(to_read - already + Extra(field.stored))
  PROVE  FieldInv'
<1> DEFINE rest  == units - taken
<1>1. /\ field \in AllConversions /\ field \in Conversions /\ units \in 0 .. MaxUnits /\ MaxUnits \in Nat
      /\ to_read \in Int /\ already \in Nat /\ taken \in Nat
      /\ sized \in BOOLEAN /\ full \in BOOLEAN /\ length \in Int /\ stream_eof = FALSE /\ Limit \in Nat
      /\ cached \in Seq(0 .. MaxUnits) /\ estimate \in Int /\ first \in Nat
  BY FieldTyped, FieldAssumption DEF FieldInv, Shape, FieldTypeOK, Collected
<1>2. /\ field.source = "buffered" /\ taken = already /\ held = Value(taken)
      /\ already <= units /\ already <= to_read /\ (full => length = units)
      /\ (already > 0 => to_read <= Limit)
      /\ (field.stored = "wchar" => units % 2 = 0)
  BY DEF FieldInv, Collected, Shape
<1>3. ~(to_read < units)
  BY StoredPiece DEF LobLast
<1>4. /\ held' = Value(units) /\ length' = units /\ taken' = 0
      /\ UNCHANGED <<field, units, sized, estimate, already, to_read, full, stream_eof, first>>
  <2>1. held' = Put(Value(taken), taken, ValuePiece(Value(units), taken, rest))
    BY <1>2 DEF LobLast
  <2>2. taken + rest = units /\ rest \in Nat
    BY <1>1, <1>2
  <2>3. held' = Value(units)
    BY <1>1, <2>1, <2>2, PutContinues
  <2> QED
    BY <1>1, <1>2, <2>3 DEF LobLast
<1>5. Value(units) \in Seq(0 .. MaxUnits)
  BY <1>1, ValueTyped
<1>8. full' \in BOOLEAN /\ stream_eof' \in BOOLEAN
  BY <1>1, <1>4, Zenon
<1>6. CASE OverLimit(rest) /\ Ends("failed") /\ UNCHANGED cached
  <2>1. Shape'
    BY <1>1, <1>2, <1>4, <1>5, <1>6, <1>8 DEF Shape, FieldTypeOK, Readers, Ends
  <2> QED
    BY <1>6, <2>1 DEF FieldInv, NotBegun, FreshCache, Collected, Kept, Assembled, Streamed, Ends
<1>7. CASE ~OverLimit(rest) /\ Ends("cached") /\ cached' = Prefix(held', length')
  <2>1. cached' = Value(units)
    BY <1>1, <1>4, <1>7, PrefixOfValue
  <2>2. units <= Limit
    BY <1>1, <1>2, <1>3, <1>7 DEF OverLimit
  <2>3. Shape'
    BY <1>1, <1>2, <1>4, <1>5, <1>7, <1>8, <2>1 DEF Shape, FieldTypeOK, Readers, Ends
  <2> QED
    BY <1>1, <1>2, <1>4, <1>7, <2>1, <2>2, <2>3
       DEF FieldInv, NotBegun, FreshCache, Collected, Kept, Assembled, Streamed, Ends
<1> QED
  BY <1>6, <1>7 DEF LobLast

-----------------------------------------------------------------------------
(* A string or a stream is made from the value.                            *)
LEMMA ReadsValue ==
  ASSUME FieldInv, \A f \in Conversions : Faithful(f),
         Ready \/ reader \in {"string", "grow", "rest", "stream", "done"}
  PROVE  Source = Value(Amount) /\ Len(Source) = Amount
<1>1. field.source = "buffered" => cached = Value(units)
  BY DEF FieldInv, Kept, Ready
<1> QED
  BY <1>1, SourceIsValue DEF FieldInv

LEMMA BytesTyped ==
  ASSUME FieldInv, \A f \in Conversions : Faithful(f)
  PROVE  /\ Amount * UnitSize \in Nat /\ taken * UnitSize \in Nat
         /\ InitialLen \in Nat \ {0} /\ InitialLen % 4 = 0
<1>1. /\ UnitSize \in {1, 2, 4} /\ Amount \in Nat /\ taken \in Nat
  BY FieldTyped DEF FieldInv, Shape, FieldTypeOK
<1>2. Amount * UnitSize \in Nat
  <2> HIDE DEF Amount, UnitSize
  <2> QED
    BY <1>1, Scaled
<1>3. taken * UnitSize \in Nat
  <2> HIDE DEF UnitSize
  <2> QED
    BY <1>1, Scaled
<1> QED
  BY <1>2, <1>3, FieldAssumption

LEMMA StringStartKeeps ==
  ASSUME FieldInv, StringStart, \A f \in Conversions : Faithful(f)
  PROVE  FieldInv'
<1>1. /\ reader' = "string" /\ held' = << >> /\ already' = 0
      /\ to_read' \in FirstSizes /\ first' = to_read'
      /\ UNCHANGED <<field, units, sized, estimate, taken, full, length, stream_eof, cached>>
  BY DEF StringStart
<1>2. taken = 0 /\ ~stream_eof
  BY DEF StringStart, Ready, FieldInv, NotBegun
<1>3. to_read' \in Nat
  <2>1. Len(Source) * UnitBytes(field) \in Nat
    <3>1. Len(Source) = Amount
      BY ReadsValue DEF StringStart
    <3> QED
      BY <3>1, BytesTyped DEF UnitSize
  <2>2. InitialLen \in Nat /\ DisplaySizes \subseteq Nat
    BY FieldAssumption
  <2> QED
    BY <1>1, <2>1, <2>2 DEF FirstSizes
<1>4. Shape'
  <2>1. << >> \in Seq(0 .. MaxUnits)
    BY EmptySeq
  <2> QED
    BY <1>1, <1>3, <2>1 DEF FieldInv, Shape, FieldTypeOK, Readers
<1>5. Kept'
  <2>1. Kept /\ (field.source = "buffered" => reader = "cached")
    BY DEF FieldInv, StringStart, Ready
  <2> QED
    BY <1>1, <2>1 DEF Kept
<1>6. Assembled'
  BY <1>1, <1>2, <1>3 DEF Assembled
<1> QED
  BY <1>1, <1>4, <1>5, <1>6 DEF FieldInv, NotBegun, FreshCache, Collected, Streamed

LEMMA StreamStartKeeps ==
  ASSUME FieldInv, StreamStart, \A f \in Conversions : Faithful(f)
  PROVE  FieldInv'
<1>1. /\ reader' = "stream" /\ held' = << >> /\ length' = 0 /\ stream_eof' = FALSE
      /\ UNCHANGED <<field, units, sized, estimate, taken, already, to_read, full, cached, first>>
  BY DEF StreamStart
<1>2. taken = 0
  BY DEF StreamStart, Ready, FieldInv, NotBegun
<1>3. Amount' = Amount /\ UnitSize' = UnitSize
  BY <1>1, SameField
<1>4. Shape'
  <2>1. << >> \in Seq(0 .. MaxUnits)
    BY EmptySeq
  <2>2. stream_eof' \in BOOLEAN
    BY <1>1, Zenon
  <2> QED
    BY <1>1, <2>1, <2>2 DEF FieldInv, Shape, FieldTypeOK, Readers
<1>5. Kept'
  <2>1. Kept /\ (field.source = "buffered" => reader = "cached")
    BY DEF FieldInv, StreamStart, Ready
  <2> QED
    BY <1>1, <2>1 DEF Kept
<1>6. Streamed'
  <2>1. UnitSize \in {1, 2, 4} /\ Amount \in Nat
    BY FieldTyped DEF FieldInv
  <2>2. 0 * UnitSize = 0
    <3> HIDE DEF UnitSize
    <3> QED
      BY <2>1
  <2>3. ~stream_eof' /\ taken' = 0 /\ 0 <= Amount
    BY <1>1, <1>2, <2>1
  <2> QED
    BY <1>1, <1>3, <2>2, <2>3, NoValue DEF Streamed
<1> QED
  BY <1>1, <1>4, <1>5, <1>6 DEF FieldInv, NotBegun, FreshCache, Collected, Assembled

LEMMA StreamEndKeeps ==
  ASSUME FieldInv, StreamEnd
  PROVE  FieldInv'
<1>1. /\ reader = "stream" /\ stream_eof /\ reader' = "done"
      /\ UNCHANGED <<field, units, sized, estimate, taken, already, to_read, full, held, length, stream_eof, cached, first>>
  BY DEF StreamEnd, Ends
<1>2. /\ Amount' = Amount /\ UnitSize' = UnitSize /\ Terminator(field)' = Terminator(field)
      /\ NoLess(-estimate)' = NoLess(-estimate)
  BY <1>1, SameField
<1>3. Shape'
  BY <1>1 DEF FieldInv, Shape, FieldTypeOK, Readers
<1>4. Kept'
  BY <1>1 DEF FieldInv, Kept
<1>5. Streamed'
  <2>1. Streamed
    BY DEF FieldInv
  <2> QED
    BY <1>1, <1>2, <2>1 DEF Streamed
<1> QED
  BY <1>1, <1>3, <1>4, <1>5 DEF FieldInv, NotBegun, FreshCache, Collected, Assembled

(* Every piece of a string is put where the one before it ended.           *)
LEMMA TakeContinues ==
  ASSUME FieldInv, \A f \in Conversions : Faithful(f), reader \in {"string", "grow", "rest"},
         held = Value(taken), taken <= Amount,
         NEW space \in Nat, space >= Terminator(field),
         Take(space, taken * UnitSize)
  PROVE  /\ taken' = taken + Copied(field, space, Amount - taken)
         /\ taken' \in Nat /\ taken' <= Amount /\ held' = Value(taken')
         /\ held' \in Seq(0 .. MaxUnits)
<1> DEFINE c == Copied(field, space, Amount - taken)
<1>1. /\ field \in AllConversions /\ Faithful(field) /\ Amount \in Nat /\ taken \in Nat
      /\ Amount <= units /\ units \in Nat /\ units <= MaxUnits /\ MaxUnits \in Nat
      /\ UnitSize \in {1, 2, 4}
  BY FieldTyped DEF FieldInv, Shape, FieldTypeOK
<1>2. Source = Value(Amount) /\ Len(Source) = Amount
  BY ReadsValue
<1> HIDE DEF Amount
<1>3. c \in Nat /\ c <= Amount - taken
  <2>1. Amount - taken \in Nat
    BY <1>1
  <2> QED
    BY <1>1, <2>1, PieceSize
<1>4. (taken * UnitSize) \div UnitSize = taken
  <2> HIDE DEF UnitSize
  <2> QED
    BY <1>1, Divided
<1>5. held' = Put(Value(taken), taken, ValuePiece(Value(Amount), taken, c)) /\ taken' = taken + c
  BY <1>2, <1>4 DEF Take, UnitSize
<1> HIDE DEF c
<1>6. taken + c <= Amount
  BY <1>1, <1>3
<1>7. held' = Value(taken')
  BY <1>1, <1>3, <1>5, <1>6, PutContinues
<1>8. taken' \in Nat /\ taken' <= Amount /\ taken' <= MaxUnits
  BY <1>1, <1>3, <1>5, <1>6
<1>9. held' \in Seq(0 .. MaxUnits)
  BY <1>1, <1>7, <1>8, ValueTyped
<1> QED
  BY <1>5, <1>7, <1>8, <1>9 DEF c

(* Wherever a piece of a string is put: no more is taken than there is.    *)
LEMMA TakeTyped ==
  ASSUME FieldInv, \A f \in Conversions : Faithful(f), reader \in {"string", "grow", "rest"},
         taken <= Amount, NEW space \in Int, NEW offset \in Nat, Take(space, offset)
  PROVE  taken' \in Nat /\ taken' <= Amount /\ held' \in Seq(0 .. MaxUnits)
<1> DEFINE c == Copied(field, space, Amount - taken)
           o == offset \div UnitBytes(field)
<1>1. /\ field \in AllConversions /\ Faithful(field) /\ Amount \in Nat /\ taken \in Nat
      /\ Amount <= units /\ units \in Nat /\ units <= MaxUnits /\ MaxUnits \in Nat
      /\ held \in Seq(0 .. MaxUnits)
  BY FieldTyped DEF FieldInv, Shape, FieldTypeOK
<1>2. Source = Value(Amount) /\ Len(Source) = Amount
  BY ReadsValue
<1> HIDE DEF Amount
<1>3. c \in Nat /\ c <= Amount - taken
  <2>1. Amount - taken \in Nat
    BY <1>1
  <2> QED
    BY <1>1, <2>1, PieceBounds
<1>4. o \in Nat
  BY <1>1, FieldUnits, Parts
<1>5. held' = Put(held, o, ValuePiece(Value(Amount), taken, c)) /\ taken' = taken + c
  BY <1>2 DEF Take
<1> HIDE DEF c, o
<1>6. taken + c <= Amount /\ Amount <= MaxUnits
  BY <1>1, <1>3
<1>7. held' \in Seq(0 .. MaxUnits)
  BY <1>1, <1>3, <1>4, <1>5, <1>6, PutTyped
<1> QED
  BY <1>1, <1>3, <1>5, <1>6, <1>7

(* The buffer of a string has room for the bytes asked for and the         *)
(* terminator.                                                             *)
LEMMA StringCut ==
  ASSUME FieldInv, \A f \in Conversions : Faithful(f), NEW bytes \in Nat, NEW rest \in Nat
  PROVE  LET space == bytes + Extra(field.target) IN
         /\ space \in Nat /\ space >= Terminator(field)
         /\ Cut(field, space, rest) = (bytes < rest * UnitSize)
         /\ ~Cut(field, space, rest) => Copied(field, space, rest) = rest
         /\ Cut(field, space, rest) /\ bytes % 4 = 0 => Copied(field, space, rest) * UnitSize = bytes
<1> DEFINE space == bytes + Extra(field.target)
<1>1. /\ field \in AllConversions /\ Faithful(field) /\ UnitSize \in {1, 2, 4}
      /\ Terminator(field) = Extra(field.target) /\ Extra(field.target) \in {0, 1, 2}
  BY FieldTyped DEF FieldInv
<1>2. space \in Nat /\ space >= Terminator(field) /\ space - Terminator(field) = bytes
  BY <1>1
<1>3. rest * UnitSize \in Int
  <2> HIDE DEF UnitSize
  <2> QED
    BY <1>1, Scaled
<1>4. Cut(field, space, rest) = (bytes < rest * UnitSize)
  <2>1. (space < rest * UnitSize + Terminator(field)) = (bytes < rest * UnitSize)
    <3> DEFINE e == Extra(field.target)
               m == rest * UnitSize
    <3>1. e \in {0, 1, 2} /\ m \in Int /\ Terminator(field) = e
      BY <1>1, <1>3
    <3> HIDE DEF e, m
    <3>2. (bytes + e < m + e) = (bytes < m)
      BY <3>1
    <3> QED
      BY <3>1, <3>2 DEF e, m
  <2> HIDE DEF space
  <2> QED
    BY <2>1 DEF Cut, UnitSize
<1> HIDE DEF space
<1>5. /\ ~Cut(field, space, rest) => Copied(field, space, rest) = rest
      /\ Cut(field, space, rest) /\ bytes % 4 = 0 => Copied(field, space, rest) * UnitSize = bytes
  BY <1>1, <1>2, PieceSize DEF UnitSize
<1> QED
  BY <1>2, <1>4, <1>5 DEF space

LEMMA LeftOfValue ==
  ASSUME FieldInv, \A f \in Conversions : Faithful(f),
         Ready \/ reader \in {"string", "grow", "rest", "stream", "done"},
         NEW space, NEW left \in Left(space)
  PROVE  IF field.source = "driver" /\ ~sized /\ Cut(field, space, Amount - taken)
         THEN left = NO_TOTAL ELSE left = Told(field, space, Amount - taken)
<1>1. left \in Indicators(field, sized, space, taken, Amount - taken)
  BY ReadsValue DEF Left
<1>2. field \in AllConversions /\ Faithful(field) /\ sized \in BOOLEAN
  BY FieldTyped DEF FieldInv, Shape, FieldTypeOK
<1> QED
  BY <1>1, <1>2, LeftTold DEF UnitSize

LEMMA StringFirstKeeps ==
  ASSUME FieldInv, StringFirst, \A f \in Conversions : Faithful(f)
  PROVE  FieldInv'
<1> DEFINE space == to_read + Extra(field.target)
<1>1. /\ reader = "string" /\ taken = 0 /\ held = << >> /\ stream_eof = FALSE
      /\ to_read = first /\ first \in Nat
  BY DEF StringFirst, FieldInv, Assembled, Shape, FieldTypeOK
<1>2. /\ UnitSize \in {1, 2, 4} /\ Amount \in Nat /\ to_read \in Nat
      /\ InitialLen \in Nat \ {0} /\ InitialLen % 4 = 0 /\ Amount * UnitSize \in Nat
      /\ sized \in BOOLEAN /\ field.source \in {"driver", "buffered"}
  BY <1>1, FieldTyped, BytesTyped DEF FieldInv, Shape, FieldTypeOK
<1>3. /\ space \in Nat /\ space >= Terminator(field)
      /\ Cut(field, space, Amount) = (to_read < Amount * UnitSize)
      /\ ~Cut(field, space, Amount) => Copied(field, space, Amount) = Amount
      /\ Cut(field, space, Amount) /\ to_read % 4 = 0 => Copied(field, space, Amount) * UnitSize = to_read
  BY <1>2, StringCut
<1>4. /\ Amount - taken = Amount /\ taken * UnitSize = 0 /\ 0 <= Amount
  <2> HIDE DEF Amount, UnitSize
  <2> QED
    BY <1>1, <1>2
<1>5. /\ Take(space, 0) /\ Cut(field, space, Len(Source) - taken) = Cut(field, space, Amount)
      /\ UNCHANGED <<field, units, sized, estimate, already, full, stream_eof, cached, first>>
  BY <1>1, <1>4, ReadsValue DEF StringFirst
<1>6. /\ taken' = Copied(field, space, Amount) /\ taken' \in Nat /\ taken' <= Amount
      /\ held' = Value(taken') /\ held' \in Seq(0 .. MaxUnits)
  <2>1. held = Value(taken) /\ taken <= Amount
    BY <1>1, <1>4, NoValue
  <2>2. taken' = taken + Copied(field, space, Amount)
    BY <1>1, <1>3, <1>4, <1>5, <2>1, TakeContinues
  <2>3. /\ taken' \in Nat /\ taken' <= Amount
        /\ held' = Value(taken') /\ held' \in Seq(0 .. MaxUnits)
    BY <1>1, <1>3, <1>4, <1>5, <2>1, TakeContinues
  <2>4. Copied(field, space, Amount) \in Int
    BY <1>2, <1>3, FieldTyped, PieceSize DEF FieldInv
  <2> QED
    BY <1>1, <2>2, <2>3, <2>4
<1>7. PICK left \in Left(space) :
        /\ reader' = IF ~Cut(field, space, Len(Source) - taken) THEN "done"
                     ELSE IF left = NO_TOTAL THEN "grow" ELSE "rest"
        /\ length' = left
        /\ to_read' = IF left = NO_TOTAL THEN InitialLen ELSE left - InitialLen
  BY DEF StringFirst
<1>8. /\ field.source = "driver" /\ ~sized /\ Cut(field, space, Amount) => left = NO_TOTAL
      /\ ~(field.source = "driver" /\ ~sized /\ Cut(field, space, Amount)) => left \in Nat
      /\ ~Cut(field, space, Amount) => left = Amount * UnitSize
      /\ Cut(field, space, Amount) /\ ~(field.source = "driver" /\ ~sized)
           => left >= Amount * UnitSize + Guess(field)
  <2>1. IF field.source = "driver" /\ ~sized /\ Cut(field, space, Amount)
        THEN left = NO_TOTAL ELSE left = Told(field, space, Amount)
    BY <1>1, <1>4, LeftOfValue
  <2>2. /\ Told(field, space, Amount) \in Nat
        /\ Cut(field, space, Amount) => Told(field, space, Amount) >= Amount * UnitSize + Guess(field)
        /\ ~Cut(field, space, Amount) => Told(field, space, Amount) = Amount * UnitSize
    BY <1>2, FieldTyped, ToldBounds DEF FieldInv, Shape, FieldTypeOK, UnitSize
  <2> HIDE DEF Amount, UnitSize, space
  <2> QED
    BY <2>1, <2>2
<1>9. Amount' = Amount /\ UnitSize' = UnitSize
  BY <1>5, SameField
<1>10. FirstFits' = FirstFits /\ Guess(field)' = Guess(field)
  BY <1>5, SameRoom
<1>11. Kept'
  <2>1. Kept
    BY DEF FieldInv
  <2> QED
    BY <1>1, <1>5, <2>1 DEF Kept
<1>12. FirstFits /\ Cut(field, space, Amount) => to_read = InitialLen
  BY <1>1 DEF FirstFits
<1>g. Guess(field) \in Int
  BY DEF Guess, FieldInv, Shape, FieldTypeOK
<1> HIDE DEF space, Amount, UnitSize
<1>13. reader' \in {"done", "grow", "rest"} /\ length' \in Int /\ to_read' \in Int
  <2>1. left \in Int
    BY <1>8 DEF NO_TOTAL
  <2> QED
    BY <1>2, <1>7, <2>1
<1>14. Shape'
  BY <1>5, <1>6, <1>13 DEF FieldInv, Shape, FieldTypeOK, Readers
<1>15. Assembled'
  <2>1. CASE ~Cut(field, space, Amount)
    <3>1. reader' = "done" /\ length' = Amount * UnitSize
      <4>1. ~Cut(field, space, Len(Source) - taken)
        BY <1>5, <2>1
      <4>2. reader' = "done" /\ length' = left
        BY <1>7, <4>1
      <4> QED
        BY <1>8, <2>1, <4>2
    <3>2. held' = Value(Amount)
      BY <1>3, <1>6, <2>1
    <3> QED
      BY <1>9, <3>1, <3>2 DEF Assembled
  <2>2. CASE Cut(field, space, Amount)
    <3>1. FirstFits => taken' * UnitSize = InitialLen
      BY <1>2, <1>3, <1>6, <1>12, <2>2
    <3>2. CASE field.source = "driver" /\ ~sized
      <4>1. left = NO_TOTAL /\ reader' = "grow" /\ to_read' = InitialLen
        BY <1>5, <1>7, <1>8, <2>2, <3>2
      <4> QED
        BY <1>1, <1>2, <1>5, <1>6, <1>9, <1>10, <3>1, <3>2, <4>1 DEF Assembled
    <3>3. CASE ~(field.source = "driver" /\ ~sized)
      <4>1. left \in Nat /\ left # NO_TOTAL /\ left >= Amount * UnitSize + Guess(field)
        BY <1>8, <2>2, <3>3 DEF NO_TOTAL
      <4>2. reader' = "rest" /\ to_read' = left - InitialLen
        BY <1>5, <1>7, <2>2, <4>1
      <4>3. to_read' + InitialLen >= Amount * UnitSize + Guess(field)
        BY <1>2, <1>g, <4>1, <4>2
      <4> QED
        BY <1>1, <1>5, <1>6, <1>9, <1>10, <3>1, <3>3, <4>2, <4>3 DEF Assembled
    <3> QED
      BY <3>2, <3>3
  <2> QED
    BY <2>1, <2>2
<1>16. ~stream_eof'
  BY <1>1, <1>5
<1> QED
  BY <1>11, <1>13, <1>14, <1>15, <1>16 DEF FieldInv, NotBegun, FreshCache, Collected, Streamed

LEMMA StringGrowKeeps ==
  ASSUME FieldInv, StringGrow, \A f \in Conversions : Faithful(f)
  PROVE  FieldInv'
<1> DEFINE space == to_read + Extra(field.target)
           rest  == Amount - taken
<1>1. /\ reader = "grow" /\ field.source = "driver" /\ ~sized /\ stream_eof = FALSE
      /\ taken <= Amount /\ to_read \in Nat
      /\ FirstFits => held = Value(taken) /\ to_read = taken * UnitSize /\ to_read % 4 = 0
  BY DEF StringGrow, FieldInv, Assembled, Shape, FieldTypeOK
<1>2. /\ UnitSize \in {1, 2, 4} /\ Amount \in Nat /\ taken \in Nat /\ rest \in Nat
      /\ Amount * UnitSize \in Nat
  BY <1>1, FieldTyped, BytesTyped DEF FieldInv, Shape, FieldTypeOK
<1> HIDE DEF rest
<1>3. /\ space \in Nat /\ space >= Terminator(field)
      /\ Cut(field, space, rest) = (to_read < rest * UnitSize)
      /\ ~Cut(field, space, rest) => Copied(field, space, rest) = rest
      /\ Cut(field, space, rest) /\ to_read % 4 = 0 => Copied(field, space, rest) * UnitSize = to_read
  BY <1>1, <1>2, StringCut
<1>4. /\ Take(space, to_read)
      /\ Cut(field, space, Len(Source) - taken) = Cut(field, space, rest)
      /\ reader' = IF Cut(field, space, Len(Source) - taken) THEN "grow" ELSE "done"
      /\ UNCHANGED <<field, units, sized, estimate, already, full, stream_eof, cached, first>>
  BY <1>1, ReadsValue DEF StringGrow, rest
<1>5. /\ taken' \in Nat /\ taken' <= Amount /\ held' \in Seq(0 .. MaxUnits)
  BY <1>1, <1>3, <1>4, TakeTyped
<1>6. PICK left \in Left(space) :
        /\ to_read' = to_read + (IF left = NO_TOTAL THEN to_read ELSE left)
        /\ length' = to_read'
  BY DEF StringGrow
<1>7. /\ left = IF Cut(field, space, rest) THEN NO_TOTAL ELSE rest * UnitSize
      /\ rest * UnitSize \in Nat
  <2>1. left = IF Cut(field, space, rest) THEN NO_TOTAL ELSE Told(field, space, rest)
    BY <1>1, LeftOfValue DEF rest
  <2>2. ~Cut(field, space, rest) => Told(field, space, rest) = rest * UnitSize
    BY <1>2, FieldTyped, ToldBounds DEF FieldInv, Shape, FieldTypeOK, UnitSize
  <2>3. rest * UnitSize \in Nat
    <3> HIDE DEF UnitSize
    <3>1. rest * UnitSize \in Int /\ rest * UnitSize >= 0
      BY <1>2, Scaled
    <3> QED
      BY <3>1
  <2> HIDE DEF UnitSize, space
  <2> QED
    BY <2>1, <2>2, <2>3
<1>8. Amount' = Amount /\ UnitSize' = UnitSize /\ FirstFits' = FirstFits
  BY <1>4, SameField, SameRoom
<1>9. Kept'
  BY <1>1, <1>4 DEF Kept
<1>10. FirstFits => /\ taken' = taken + Copied(field, space, rest)
                    /\ held' = Value(taken')
  BY <1>1, <1>3, <1>4, TakeContinues DEF rest
<1>11. to_read' \in Nat /\ length' \in Int /\ reader' \in {"grow", "done"} /\ ~stream_eof'
  <2> HIDE DEF space, UnitSize
  <2>1. left = NO_TOTAL \/ left \in Nat
    BY <1>7
  <2> QED
    BY <1>1, <1>4, <1>6, <2>1
<1>12. Shape'
  BY <1>4, <1>5, <1>11 DEF FieldInv, Shape, FieldTypeOK, Readers
<1>13. Copied(field, space, rest) \in Nat
  BY <1>2, <1>3, FieldTyped, PieceSize DEF FieldInv
<1> HIDE DEF space, Amount, UnitSize
<1>14. CASE Cut(field, space, rest)
  <2>1. reader' = "grow" /\ to_read' = to_read + to_read
    BY <1>4, <1>6, <1>7, <1>14
  <2>2. ASSUME FirstFits
        PROVE  taken' * UnitSize = to_read' /\ to_read' % 4 = 0
    <3>1. Copied(field, space, rest) * UnitSize = taken * UnitSize
      BY <1>1, <1>3, <1>14, <2>2
    <3>2. Copied(field, space, rest) = taken
      BY <1>2, <1>13, <3>1, Scaled
    <3>3. taken' = taken + taken
      BY <1>10, <2>2, <3>2
    <3>4. (taken + taken) * UnitSize = taken * UnitSize + taken * UnitSize
      BY <1>2, Scaled
    <3> QED
      BY <1>1, <2>1, <2>2, <3>3, <3>4
  <2>3. Assembled'
    BY <1>1, <1>4, <1>5, <1>8, <1>10, <1>11, <2>1, <2>2 DEF Assembled
  <2> QED
    BY <1>9, <1>11, <1>12, <2>1, <2>3 DEF FieldInv, NotBegun, FreshCache, Collected, Streamed
<1>15. CASE ~Cut(field, space, rest)
  <2>1. reader' = "done" /\ left = rest * UnitSize
    BY <1>4, <1>7, <1>15
  <2>2. ASSUME FirstFits
        PROVE  held' = Value(Amount) /\ length' = Amount * UnitSize
    <3>1. taken' = Amount
      BY <1>2, <1>3, <1>10, <1>15, <2>2 DEF rest
    <3>2. rest * UnitSize = Amount * UnitSize - taken * UnitSize
      BY <1>2, Scaled DEF rest
    <3>3. left # NO_TOTAL
      BY <1>7, <2>1 DEF NO_TOTAL
    <3> QED
      BY <1>1, <1>2, <1>6, <1>10, <2>1, <2>2, <3>1, <3>2, <3>3
  <2>3. Assembled'
    BY <1>8, <2>1, <2>2 DEF Assembled
  <2> QED
    BY <1>9, <1>11, <1>12, <2>1, <2>3 DEF FieldInv, NotBegun, FreshCache, Collected, Streamed
<1> QED
  BY <1>14, <1>15

LEMMA StringRestKeeps ==
  ASSUME FieldInv, StringRest, \A f \in Conversions : Faithful(f)
  PROVE  FieldInv'
<1> DEFINE space == to_read + Padding
           rest  == Amount - taken
<1>1. /\ reader = "rest" /\ stream_eof = FALSE /\ taken <= Amount /\ to_read \in Int
      /\ ~(field.source = "driver" /\ ~sized)
      /\ FirstFits => /\ held = Value(taken)
                      /\ taken * UnitSize = InitialLen
                      /\ to_read + InitialLen >= Amount * UnitSize + Guess(field)
  BY DEF StringRest, FieldInv, Assembled, Shape, FieldTypeOK
<1>2. /\ UnitSize \in {1, 2, 4} /\ Amount \in Nat /\ taken \in Nat /\ rest \in Nat
      /\ Amount * UnitSize \in Nat /\ InitialLen \in Nat
      /\ Terminator(field) = Extra(field.target) /\ Extra(field.target) \in {0, 1, 2}
      /\ Padding \in Nat /\ Padding >= 2
  BY <1>1, FieldTyped, BytesTyped, FieldAssumption DEF FieldInv, Shape, FieldTypeOK
<1>3. UNCHANGED <<field, units, sized, estimate, already, to_read, full, stream_eof, cached, first>>
  BY DEF StringRest
<1>4. Amount' = Amount /\ UnitSize' = UnitSize /\ FirstFits' = FirstFits /\ Padded' = Padded
  BY <1>3, SameField, SameRoom
<1>5. Kept /\ Shape
  BY DEF FieldInv
<1>6. CASE space >= 0 /\ Take(space, RestAt) /\ reader' \in {"done", "failed"}
           /\ \E left \in Left(space) : length' = InitialLen + left
  <2>1. /\ taken' \in Nat /\ taken' <= Amount /\ held' \in Seq(0 .. MaxUnits)
    BY <1>1, <1>2, <1>6, TakeTyped DEF RestAt
  <2>2. PICK left \in Left(space) : length' = InitialLen + left
    BY <1>6
  <2>3. left = Told(field, space, rest) /\ left \in Nat
    BY <1>1, <1>2, FieldTyped, LeftOfValue, ToldBounds DEF FieldInv, Shape, FieldTypeOK
  <2>4. length' \in Int
    BY <1>2, <2>2, <2>3
  <2>5. Shape'
    BY <1>3, <1>5, <1>6, <2>1, <2>4 DEF Shape, FieldTypeOK, Readers
  <2>6. ASSUME FirstFits, Padded
        PROVE  held' = Value(Amount) /\ length' = Amount * UnitSize
    <3>1. rest * UnitSize = Amount * UnitSize - InitialLen
      <4> HIDE DEF Amount, UnitSize
      <4> QED
        BY <1>1, <1>2, <2>6, Scaled
    <3>2. Guess(field) + Padding >= Extra(field.target) /\ Guess(field) \in Int
      BY <1>2, <1>5, <2>6 DEF Guess, Padded, Shape, FieldTypeOK
    <3>3. space >= rest * UnitSize + Terminator(field) /\ rest * UnitSize \in Int
      <4> HIDE DEF Amount, UnitSize, rest, Guess
      <4> QED
        BY <1>1, <1>2, <2>6, <3>1, <3>2
    <3>4. ~Cut(field, space, rest)
      <4> HIDE DEF space, rest
      <4> QED
        BY <1>1, <1>2, <3>3 DEF Cut, UnitSize, space
    <3>5. Copied(field, space, rest) = rest
      BY <3>4 DEF Copied
    <3>6. space \in Nat /\ space >= Terminator(field)
      <4>1. space \in Int
        BY <1>1, <1>2
      <4>2. rest * UnitSize >= 0
        <5> HIDE DEF rest, UnitSize
        <5> QED
          BY <1>2, Scaled
      <4> HIDE DEF space, rest, UnitSize
      <4> QED
        BY <1>2, <1>6, <3>3, <4>1, <4>2
    <3>7. taken' = taken + rest /\ held' = Value(taken')
      BY <1>1, <1>6, <2>6, <3>5, <3>6, TakeContinues DEF RestAt
    <3>8. taken' = Amount
      BY <1>2, <3>7
    <3>9. left = rest * UnitSize
      BY <1>2, <1>5, <2>3, <3>4, FieldTyped, ToldBounds DEF Shape, FieldTypeOK, UnitSize
    <3> HIDE DEF rest, Amount, UnitSize
    <3> QED
      BY <1>2, <2>2, <3>1, <3>7, <3>8, <3>9
  <2>7. Assembled'
    BY <1>4, <1>6, <2>6 DEF Assembled
  <2> QED
    BY <1>1, <1>3, <1>5, <1>6, <2>5, <2>7
       DEF FieldInv, NotBegun, FreshCache, Collected, Kept, Streamed
<1>7. CASE reader' = "failed" /\ UNCHANGED <<held, taken, length>>
  <2>1. Shape'
    BY <1>3, <1>5, <1>7 DEF Shape, FieldTypeOK, Readers
  <2> QED
    BY <1>3, <1>7, <2>1 DEF FieldInv, NotBegun, FreshCache, Collected, Kept, Assembled, Streamed
<1> QED
  BY <1>6, <1>7 DEF StringRest, Ends

-----------------------------------------------------------------------------
(* Streams.                                                                *)
LEMMA StreamSpace ==
  ASSUME NEW count \in Counts
  PROVE  SpaceFor(count) \in Nat /\ SpaceFor(count) > 4 /\ SpaceFor(count) % 4 = 0
<1>1. count \in Nat /\ count % 8 = 0 /\ count > 8
  BY FieldAssumption
<1>2. count \div 2 \in Nat /\ count \div 2 > 4 /\ (count \div 2) % 4 = 0 /\ count % 4 = 0
  BY <1>1
<1>3. StreamBuffer \in Nat /\ StreamBuffer % 4 = 0 /\ StreamBuffer > 4
  BY FieldAssumption
<1> QED
  BY <1>1, <1>2, <1>3 DEF SpaceFor, Least

(* The bytes a read gives of a piece that was cut are those of the units   *)
(* it copied.                                                              *)
LEMMA GivenIsCopied ==
  ASSUME field \in AllConversions, Faithful(field),
         NEW space \in Nat, space > 4, space % 4 = 0,
         NEW rest, Cut(field, space, rest)
  PROVE  Given(space) = Copied(field, space, rest) * UnitBytes(field)
<1> DEFINE c == Copied(field, space, rest)
           b == UnitBytes(field)
           t == Extra(field.target)
<1>1. c = (space - t) \div b
  <2>1. t \in {0, 1, 2} /\ Terminator(field) = t
    BY FieldUnits
  <2>2. NoLess(space - t) = space - t
    BY <2>1 DEF NoLess
  <2> QED
    BY <2>1, <2>2 DEF Copied
<1>2. /\ field.source \in {"driver", "buffered"}
      /\ field.stored \in {"char", "wchar", "binary"}
      /\ field.target \in {"char", "wchar", "binary"}
  BY DEF AllConversions, Types
<1>3. /\ field.target = "char" => t = 1
      /\ field.target = "wchar" => t = 2
      /\ field.target = "binary" => t = 0
  BY DEF Extra
<1>4. CASE field.target = "binary"
  <2>1. b = 1
    BY <1>4 DEF UnitBytes
  <2>2. c = space
    BY <1>1, <1>3, <1>4, <2>1
  <2>3. Given(space) = space
    BY <1>4 DEF Given
  <2> HIDE DEF b, c
  <2> QED
    BY <2>1, <2>2, <2>3 DEF b, c
<1>5. CASE field.target = "wchar" /\ field.stored = "binary"
  <2>1. b = 4
    BY <1>5 DEF UnitBytes
  <2>2. c = (space - 2) \div 4
    BY <1>1, <1>3, <1>5, <2>1
  <2>3. Given(space) = ((space - 2) \div 4) * 4
    BY <1>5 DEF Given
  <2> HIDE DEF b, c
  <2> QED
    BY <2>1, <2>2, <2>3 DEF b, c
<1>6. CASE field.target = "wchar" /\ field.stored = "char"
  <2>1. b = 2
    BY <1>6 DEF UnitBytes
  <2>2. c = (space - 2) \div 2
    BY <1>1, <1>3, <1>6, <2>1
  <2>3. Given(space) = space - 2
    BY <1>6 DEF Given
  <2>4. ((space - 2) \div 2) * 2 = space - 2
    OBVIOUS
  <2> HIDE DEF b, c
  <2> QED
    BY <2>1, <2>2, <2>3, <2>4 DEF b, c
<1>7. CASE field.target = "wchar" /\ field.stored = "wchar"
  <2>1. b = 1
    BY <1>7 DEF UnitBytes
  <2>2. c = space - 2
    BY <1>1, <1>3, <1>7, <2>1
  <2>3. Given(space) = space - 2
    BY <1>7 DEF Given
  <2> HIDE DEF b, c
  <2> QED
    BY <2>1, <2>2, <2>3 DEF b, c
<1>8. CASE field.target = "char" /\ field.stored = "binary"
  <2>1. b = 2
    BY <1>8 DEF UnitBytes
  <2>2. c = (space - 1) \div 2
    BY <1>1, <1>3, <1>8, <2>1
  <2>3. Given(space) = ((space - 1) \div 2) * 2
    BY <1>8 DEF Given
  <2> HIDE DEF b, c
  <2> QED
    BY <2>1, <2>2, <2>3 DEF b, c
<1>9. CASE field.target = "char" /\ field.stored # "binary"
  <2>1. b = 1
    BY <1>9 DEF UnitBytes
  <2>2. c = space - 1
    BY <1>1, <1>3, <1>9, <2>1
  <2>3. Given(space) = space - 1
    BY <1>9 DEF Given
  <2> HIDE DEF b, c
  <2> QED
    BY <2>1, <2>2, <2>3 DEF b, c
<1> QED
  BY <1>2, <1>4, <1>5, <1>6, <1>7, <1>8, <1>9

LEMMA StreamReadKeeps ==
  ASSUME FieldInv, \A f \in Conversions : Faithful(f), NEW count \in Counts, StreamRead(count)
  PROVE  FieldInv'
<1> DEFINE space == SpaceFor(count)
           rest  == Amount - taken
           c     == Copied(field, space, rest)
           cut   == Cut(field, space, rest)
           none  == field.source = "driver" /\ taken = Amount /\ taken > 0
<1>1. /\ reader = "stream" /\ ~stream_eof /\ held = Value(taken) /\ taken <= Amount /\ length = taken * UnitSize
  BY DEF StreamRead, FieldInv, Streamed
<1>2. /\ UnitSize \in {1, 2, 4} /\ Amount \in Nat /\ taken \in Nat /\ rest \in Nat
      /\ Amount <= units /\ units \in Nat /\ units <= MaxUnits /\ MaxUnits \in Nat
      /\ field \in AllConversions /\ Faithful(field)
      /\ Terminator(field) \in {0, 1, 2} /\ taken * UnitSize \in Nat
  BY <1>1, FieldTyped, BytesTyped DEF FieldInv, Shape, FieldTypeOK
<1>3. space \in Nat /\ space > 4 /\ space % 4 = 0 /\ space >= Terminator(field)
  BY <1>2, StreamSpace
<1>4. Source = Value(Amount) /\ Len(Source) = Amount
  BY <1>1, ReadsValue
<1>5. PICK left \in Left(space) :
        LET given == IF none THEN 0 ELSE IF cut THEN Given(space) ELSE left IN
        /\ taken' = taken + c
        /\ stream_eof' = AtEnd(space, none, left)
        /\ held' = held \o Prefix(ValuePiece(Source, taken, taken' - taken), given \div UnitBytes(field))
        /\ length' = length + given
        /\ reader' = IF ~none /\ field.target = "wchar" /\ given = 0 THEN "failed" ELSE "stream"
  BY <1>4 DEF StreamRead
<1>6. UNCHANGED <<field, units, sized, estimate, already, to_read, full, cached, first>>
  BY DEF StreamRead
<1>7. /\ left = IF field.source = "driver" /\ ~sized /\ cut THEN NO_TOTAL ELSE Told(field, space, rest)
      /\ ~cut => left = rest * UnitSize
      /\ left # NO_TOTAL /\ cut => left >= rest * UnitSize + Guess(field)
  <2>1. left = IF field.source = "driver" /\ ~sized /\ cut THEN NO_TOTAL ELSE Told(field, space, rest)
    BY <1>1, LeftOfValue
  <2>2. /\ ~cut => Told(field, space, rest) = rest * UnitSize
        /\ cut => Told(field, space, rest) >= rest * UnitSize + Guess(field)
    BY <1>2, ToldBounds DEF FieldInv, Shape, FieldTypeOK, UnitSize
  <2> HIDE DEF cut, space, rest, UnitSize
  <2> QED
    BY <2>1, <2>2
<1>t. Told(field, space, rest) \in Nat
  BY <1>2, ToldBounds DEF FieldInv, Shape, FieldTypeOK
<1>g. Guess(field) \in Int /\ NoLess(-estimate) \in Nat /\ Guess(field) + NoLess(-estimate) >= 0
  BY DEF Guess, NoLess, FieldInv, Shape, FieldTypeOK
<1> DEFINE given == IF none THEN 0 ELSE IF cut THEN Given(space) ELSE left
<1> HIDE DEF space, rest, Amount
<1>8. /\ c \in Nat /\ c <= rest
      /\ cut => space - Terminator(field) < c * UnitSize + UnitSize
      /\ ~cut => c = rest
  BY <1>2, <1>3, PieceSize DEF UnitSize
<1>9. rest * UnitSize \in Nat /\ c * UnitSize \in Nat
  <2> HIDE DEF c, UnitSize
  <2> QED
    BY <1>2, <1>8, Scaled
<1>10. given = c * UnitSize
  <2>1. CASE none
    <3>1. rest = 0
      BY <1>2, <2>1 DEF rest
    <3>2. c = 0
      BY <1>8, <3>1
    <3>3. 0 * UnitSize = 0
      <4> HIDE DEF UnitSize
      <4> QED
        BY <1>2
    <3> QED
      BY <2>1, <3>2, <3>3
  <2>2. CASE ~none /\ cut
    BY <1>2, <1>3, <2>2, GivenIsCopied DEF UnitSize
  <2>3. CASE ~none /\ ~cut
    <3>1. left = rest * UnitSize /\ given = left
      BY <1>7, <2>3
    <3> QED
      BY <1>8, <2>3, <3>1
  <2> QED
    BY <2>1, <2>2, <2>3
<1>11. given \div UnitBytes(field) = c
  <2>1. (c * UnitSize) \div UnitSize = c
    <3> HIDE DEF c, UnitSize
    <3> QED
      BY <1>2, <1>8, Divided
  <2> QED
    BY <1>10, <2>1 DEF UnitSize
<1>12. /\ taken' = taken + c
       /\ held' = Value(taken) \o Prefix(ValuePiece(Value(Amount), taken, c), c)
       /\ length' = taken * UnitSize + c * UnitSize
       /\ stream_eof' = AtEnd(space, none, left)
       /\ reader' \in {"failed", "stream"}
  <2>1. taken' = taken + c /\ taken' - taken = c
    <3> HIDE DEF c
    <3> QED
      BY <1>2, <1>5, <1>8
  <2> HIDE DEF given, c, none
  <2> QED
    BY <1>1, <1>4, <1>5, <1>10, <1>11, <2>1 DEF given
<1>13. stream_eof' \in BOOLEAN
  BY <1>12 DEF AtEnd
<1> HIDE DEF given, c, cut, none, UnitSize
<1>14. taken' \in Nat /\ taken' <= Amount /\ taken' <= MaxUnits
  BY <1>2, <1>8, <1>12 DEF rest
<1>15. held' = Value(taken')
  <2>1. taken + c <= Amount
    BY <1>12, <1>14
  <2>2. Value(taken) \o Prefix(ValuePiece(Value(Amount), taken, c), c) = Value(taken + c)
    <3>1. taken \in Nat /\ c \in Nat /\ Amount \in Nat
      BY <1>2, <1>8
    <3> QED
      BY <2>1, <3>1, PieceContinues
  <2> QED
    BY <1>12, <2>2
<1>16. held' \in Seq(0 .. MaxUnits)
  BY <1>2, <1>14, <1>15, ValueTyped
<1>17. length' = taken' * UnitSize /\ length' \in Int
  <2>1. (taken + c) * UnitSize = taken * UnitSize + c * UnitSize
    BY <1>2, <1>8, Scaled
  <2> QED
    BY <1>2, <1>9, <1>12, <2>1
<1>18. /\ Amount' = Amount /\ UnitSize' = UnitSize /\ Terminator(field)' = Terminator(field)
       /\ NoLess(-estimate)' = NoLess(-estimate)
  BY <1>6, SameField
<1>19. stream_eof' => (Amount - taken') * UnitSize < Terminator(field) + UnitSize + NoLess(-estimate)
  <2>1. (Amount - taken') * UnitSize = rest * UnitSize - c * UnitSize
    <3>1. Amount - taken' = rest - c
      BY <1>2, <1>8, <1>12 DEF rest
    <3>2. (rest - c) * UnitSize = rest * UnitSize - c * UnitSize
      BY <1>2, <1>8, Scaled
    <3> QED
      BY <3>1, <3>2
  <2>2. CASE ~cut
    BY <1>2, <1>8, <1>9, <1>g, <2>1, <2>2
  <2>3. CASE cut
    <3>1. SUFFICES ASSUME stream_eof'
                   PROVE  (Amount - taken') * UnitSize < Terminator(field) + UnitSize + NoLess(-estimate)
      OBVIOUS
    <3>2. CASE none
      <4>1. c = rest
        BY <1>2, <1>8, <3>2 DEF rest, none
      <4> QED
        BY <1>2, <1>9, <1>g, <2>1, <4>1
    <3>3. CASE left <= space /\ left # NO_TOTAL
      <4>1. left >= rest * UnitSize + Guess(field) /\ left \in Int
        BY <1>7, <2>3, <3>3, <1>t
      <4> QED
        BY <1>2, <1>3, <1>8, <1>9, <1>g, <2>1, <2>3, <3>3, <4>1
    <3> QED
      BY <1>12, <3>1, <3>2, <3>3 DEF AtEnd
  <2> QED
    BY <2>2, <2>3
<1>20. Shape'
  BY <1>6, <1>12, <1>13, <1>14, <1>16, <1>17 DEF FieldInv, Shape, FieldTypeOK, Readers
<1>21. Kept'
  <2>1. Kept
    BY DEF FieldInv
  <2> QED
    BY <1>1, <1>6, <2>1 DEF Kept
<1>22. Streamed'
  BY <1>14, <1>15, <1>17, <1>18, <1>19 DEF Streamed
<1> QED
  BY <1>12, <1>20, <1>21, <1>22 DEF FieldInv, NotBegun, FreshCache, Collected, Assembled

-----------------------------------------------------------------------------
LEMMA FieldStepKeeps ==
  ASSUME FieldInv, [FieldNext]_field_vars, \A f \in Conversions : Faithful(f)
  PROVE  FieldInv'
<1>1. CASE LobRead
  BY <1>1, LobMoreKeeps, LobLastKeeps DEF LobRead
<1>2. CASE StringRead
  BY <1>2, StringFirstKeeps, StringGrowKeeps, StringRestKeeps DEF StringRead
<1>3. CASE \E count \in Counts : StreamRead(count)
  BY <1>3, StreamReadKeeps
<1>4. CASE LobStart \/ GivesUp \/ StringStart \/ StreamStart \/ StreamEnd
  BY <1>4, LobStartKeeps, GivesUpKeeps, StringStartKeeps, StreamStartKeeps, StreamEndKeeps
<1>5. CASE UNCHANGED field_vars
  BY <1>5, FieldStutterKeeps
<1> QED
  BY <1>1, <1>2, <1>3, <1>4, <1>5 DEF FieldNext

(* The invariant of a field's pieces, if every conversion is sound.        *)
THEOREM FieldInductive ==
  ASSUME \A f \in Conversions : Faithful(f)
  PROVE  FieldSpec => []FieldInv
<1>1. FieldInit => FieldInv
  BY FieldInitInv
<1>2. FieldInv /\ [FieldNext]_field_vars => FieldInv'
  BY FieldStepKeeps
<1> QED
  BY <1>1, <1>2, PTL DEF FieldSpec

(* Whatever the sizes of the buffers, and whether or not the driver tells  *)
(* the length: a value the row cache keeps is the value of the server and  *)
(* within the limit; and a string the script gets is the whole value, if   *)
(* its first piece had room for all of it or had the initial length, and   *)
(* the driver's guess is too low by no more than the padding.              *)
THEOREM ValuesArriveWhole ==
  ASSUME \A f \in Conversions : Faithful(f)
  PROVE  FieldSpec => []ValueWhole
<1>1. FieldInv => ValueWhole
  <2> SUFFICES ASSUME FieldInv PROVE ValueWhole
    OBVIOUS
  <2>1. CachedWhole /\ LimitHonoured
    <3>1. reader = "cached" => cached = Value(units) /\ units <= Limit
      BY DEF FieldInv, NotBegun, Kept
    <3> QED
      BY <3>1 DEF CachedWhole, LimitHonoured
  <2>2. StringWhole
    <3> SUFFICES ASSUME reader = "done", ~stream_eof, Fits, Padded
                 PROVE  held = Whole /\ length = Len(Whole) * UnitBytes(field)
      BY DEF StringWhole
    <3>1. FirstFits
      BY ReadsValue DEF Fits, FirstFits
    <3>3. held = Value(Amount) /\ length = Amount * UnitSize
      BY <3>1 DEF FieldInv, Assembled
    <3>2. Whole = Value(Amount) /\ Len(Whole) = Amount
      BY SourceIsValue DEF FieldInv, Kept
    <3> QED
      BY <3>2, <3>3 DEF UnitSize
  <2> QED
    BY <2>1, <2>2 DEF FieldInv, Shape, ValueWhole
<1> QED
  BY <1>1, FieldInductive, PTL

(* A stream gives the value from its start, without gaps and without what  *)
(* is not of it; where it says it ended no more can be missing than fits   *)
(* into the place of a terminator.                                         *)
THEOREM StreamsInOrder ==
  ASSUME \A f \in Conversions : Faithful(f)
  PROVE  FieldSpec => []StreamInOrder
<1>1. FieldInv => StreamInOrder
  <2> SUFFICES ASSUME FieldInv, reader = "stream" \/ (reader = "done" /\ stream_eof)
               PROVE  /\ held = Prefix(Whole, Len(held)) /\ Len(held) <= Len(Whole)
                      /\ length = Len(held) * UnitBytes(field)
                      /\ stream_eof => (Len(Whole) - Len(held)) * UnitBytes(field)
                                   < Terminator(field) + UnitBytes(field) + NoLess(-estimate)
    BY DEF StreamInOrder
  <2>1. /\ held = Value(taken) /\ taken <= Amount /\ length = taken * UnitSize
        /\ stream_eof => (Amount - taken) * UnitSize < Terminator(field) + UnitSize + NoLess(-estimate)
    BY DEF FieldInv, Streamed
  <2>2. Whole = Value(Amount) /\ Len(Whole) = Amount
    BY SourceIsValue DEF FieldInv, Kept
  <2>3. taken \in Nat /\ Amount \in Nat
    BY FieldTyped DEF FieldInv, Shape, FieldTypeOK
  <2>4. Len(held) = taken
    BY <2>1, <2>3, ValueIsSeq
  <2>5. held = Prefix(Whole, Len(held))
    BY <2>1, <2>2, <2>3, <2>4, PrefixOfValue
  <2> QED
    BY <2>1, <2>2, <2>4, <2>5 DEF UnitSize
<1> QED
  BY <1>1, FieldInductive, PTL
=============================================================================
