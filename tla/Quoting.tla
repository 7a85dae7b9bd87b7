------------------------------ MODULE Quoting ------------------------------
(***************************************************************************)
(* PDO::quote, which PDO also calls for the values that an emulated        *)
(* prepare puts into a query: how the driver writes a value as a literal,  *)
(* and what the server (EXTERNAL) reads of it.  A byte of binary data is   *)
(* one character here, not two hexadecimal digits.                         *)
(***************************************************************************)
EXTENDS Naturals, Sequences

CONSTANTS NameChars,     \* characters of a value, next to the apostrophe
          MaxValue       \* bound on the length of a value

ASSUME QuotingAssumption == MaxValue \in Nat

Apostrophe == "'"
Values     == UNION { [1 .. n -> NameChars \cup {Apostrophe}] : n \in 0 .. MaxValue }
Encodings  == {"invalid", "default", "binary", "char", "utf8"}
Natures    == {"unsaid", "national", "char"}   \* PDO_PARAM_STR_NATL, PDO_PARAM_STR_CHAR

-----------------------------------------------------------------------------
(* pdo_sqlsrv_dbh_quote.                                                   *)
National(dbhNational, encoding, nature) ==
  nature # "char" /\ (dbhNational \/ encoding = "utf8" \/ nature = "national")

(* Every apostrophe is written twice: what is written up to each character.*)
Once(s, c)  == Append(s, c)                      \* mutant: an apostrophe written as it is
Twice(s, c) == IF c = Apostrophe THEN Append(Append(s, c), c) ELSE Append(s, c)
Doubled(v)  == LET written[i \in 0 .. Len(v)] == IF i = 0 THEN <<>> ELSE Twice(written[i - 1], v[i])
               IN  written

Quote(v, encoding, dbhNational, nature) ==
  IF encoding = "binary" THEN <<"0x">> \o v
  ELSE (IF National(dbhNational, encoding, nature) THEN <<"N">> ELSE <<>>)
         \o <<Apostrophe>> \o Doubled(v)[Len(v)] \o <<Apostrophe>>

-----------------------------------------------------------------------------
(* What the server has of a literal after each character between its       *)
(* quotes: an apostrophe waits for its second, which alone may follow it.  *)
NoneRead == [text |-> <<>>, odd |-> FALSE, whole |-> TRUE]
ReadOn(v, c) ==
  LET first == c = Apostrophe /\ ~v.odd IN
  [text  |-> IF first THEN v.text ELSE Append(v.text, c),
   odd   |-> first,
   whole |-> v.whole /\ (v.odd => c = Apostrophe)]
Unquoted(body) ==
  LET got[i \in 0 .. Len(body)] == IF i = 0 THEN NoneRead ELSE ReadOn(got[i - 1], body[i])
  IN  got

Literal(t) ==
  LET start == IF t[1] = "N" THEN 2 ELSE 1
      body  == SubSeq(t, start + 1, Len(t) - 1)
      got   == Unquoted(body)[Len(body)] IN
  IF t[1] = "0x" THEN [kind |-> "binary", value |-> SubSeq(t, 2, Len(t)), whole |-> TRUE]
  ELSE [kind |-> IF t[1] = "N" THEN "utf8" ELSE "char", value |-> got.text, whole |-> got.whole /\ ~got.odd]

-----------------------------------------------------------------------------
(* Whatever a value holds, the server reads its literal to the end and     *)
(* finds the value, in the kind of string that was asked for, or else in   *)
(* that of the encoding (pdo_dbh.cpp, pdo_sqlsrv_dbh_quote).               *)
KindOf(e) == IF e \in {"binary", "utf8"} THEN e ELSE "char"
QuoteReadsBack ==
  \A v \in Values, e \in Encodings, dbhNational \in BOOLEAN, nature \in Natures :
    LET t == Literal(Quote(v, e, dbhNational, nature)) IN
    /\ t.whole /\ t.value = v
    /\ e # "binary" => /\ nature = "national" => t.kind = "utf8"
                       /\ nature = "char" => t.kind = "char"
    /\ e = "binary" \/ (nature = "unsaid" /\ ~dbhNational) => t.kind = KindOf(e)

=============================================================================
