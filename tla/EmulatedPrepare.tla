-------------------------- MODULE EmulatedPrepare --------------------------
(***************************************************************************)
(* Prepares that PDO emulates: the driver records the placeholders of the  *)
(* query, PDO (EXTERNAL) replaces each by a literal that the driver quotes.*)
(* The quoter is told the value, not which placeholder it is for: it counts*)
(* its calls with the internal pointer of the table of placeholders.       *)
(* A query is a sequence of characters, of which those of NameChars can be *)
(* in a name; a binding gives every placeholder what was bound to it.      *)
(***************************************************************************)
EXTENDS Quoting, FiniteSets, FiniteSetsExt

CONSTANTS MaxQuery,      \* bound on the length of a query
          MaxExecutions  \* bound on the number of executions of a statement

Blank      == " "
Quotes     == {Apostrophe, "\""}
QueryChars == NameChars \cup Quotes \cup {":", "?", "=", Blank}
Queries    == UNION { [1 .. n -> QueryChars] : n \in 0 .. MaxQuery }

EndOf(s)           == Len(s) + 1
FirstAt(s, p, S)   == Min({EndOf(s)} \cup { i \in p .. Len(s) : s[i] \in S })
FirstNot(s, p, S)  == Min({EndOf(s)} \cup { i \in p .. Len(s) : s[i] \notin S })

-----------------------------------------------------------------------------
(* parse_sql_string.  A placeholder is the text of its name, or for a      *)
(* question mark its number.  Before an equal sign it is refused.          *)
Named(name)       == [name |-> name, number |-> 0]
Numbered(number)  == [name |-> <<>>, number |-> number]
Parsed(found, ok) == [found |-> found, ok |-> ok]
Skips(s, q) == FirstAt(s, q + 1, {s[q]})          \* to the next quote of the same kind

RECURSIVE Scan(_, _, _)
Scan(s, p, found) ==
  LET q     == FirstAt(s, p, Quotes \cup {":", "?"})
      n     == IF s[q] = ":" THEN FirstNot(s, q + 1, NameChars) ELSE q + 1
      next  == FirstNot(s, n, {Blank})
      added == Append(found, IF s[q] = ":" THEN Named(SubSeq(s, q, n - 1)) ELSE Numbered(Len(found))) IN
  IF q = EndOf(s) THEN Parsed(found, TRUE)
  ELSE IF s[q] \in Quotes THEN Scan(s, Skips(s, q), found)
  ELSE IF next < EndOf(s) /\ s[next] = "=" THEN Parsed(added, FALSE)
  ELSE Scan(s, next, added)

parse_sql_string(s) == Scan(s, 1, <<>>)

-----------------------------------------------------------------------------
(* The parameter the quoter takes itself to be called for: the one of the  *)
(* placeholder at the pointer, which moves on.                             *)
EncodingAt(found, pointer, bound, stmtEncoding) ==
  LET own == bound[found[pointer]].encoding IN
  IF pointer > Len(found) \/ found[pointer] \notin DOMAIN bound THEN stmtEncoding
  ELSE IF own = "invalid" THEN stmtEncoding ELSE own
MoveForward(found, pointer) == IF pointer > Len(found) THEN pointer ELSE pointer + 1

(* PDO puts the values in, in the order of its own placeholders.  Only     *)
(* strings are quoted; a placeholder with nothing bound ends it.           *)
RECURSIVE Substitute(_, _, _, _, _, _)
Substitute(found, wanted, bound, stmt, pointer, texts) ==
  IF wanted = <<>> THEN [ok |-> TRUE, pointer |-> pointer, texts |-> texts]
  ELSE IF Head(wanted) \notin DOMAIN bound THEN [ok |-> FALSE, pointer |-> pointer, texts |-> texts]
  ELSE LET b == bound[Head(wanted)] IN
       IF ~b.string
       THEN Substitute(found, SubSeq(wanted, 2, Len(wanted)), bound, stmt, pointer, Append(texts, b.value))
       ELSE Substitute(found, SubSeq(wanted, 2, Len(wanted)), bound, stmt, MoveForward(found, pointer),
                       Append(texts, Quote(b.value, EncodingAt(found, pointer, bound, stmt), FALSE, "unsaid")))

(* pdo_sqlsrv_stmt_execute, which is not reached when PDO gave up, puts    *)
(* the pointer back to the first placeholder.                              *)
PointerLeft(r)  == r.pointer                       \* mutant: the pointer stays
PointerAfter(r) == IF r.ok THEN 1 ELSE r.pointer

RECURSIVE Executions(_, _, _, _, _)
Executions(found, wanted, bindings, stmt, pointer) ==
  IF bindings = <<>> THEN <<>>
  ELSE LET r == Substitute(found, wanted, bindings[1], stmt, pointer, <<>>) IN
       <<r>> \o Executions(found, wanted, SubSeq(bindings, 2, Len(bindings)), stmt, PointerAfter(r))

-----------------------------------------------------------------------------
(* What PDO finds: a placeholder is a colon with a name, or a question     *)
(* mark, outside literals.                                                 *)
InLiteral(s, i) ==
  LET Open[k \in 0 .. Len(s)] ==         \* the quote that the literal at k began with
        IF k = 0 THEN Blank
        ELSE IF Open[k - 1] = Blank THEN (IF s[k] \in Quotes THEN s[k] ELSE Blank)
        ELSE IF s[k] = Open[k - 1] THEN Blank ELSE Open[k - 1]
  IN  Open[i - 1] # Blank
HasName(s, i) == i < Len(s) /\ s[i] = ":" /\ s[i + 1] \in NameChars
Places(s, last) ==
  { i \in 1 .. last : (HasName(s, i) \/ s[i] = "?") /\ ~InLiteral(s, i) }
PlaceholderAt(s, i, number) ==
  IF s[i] = "?" THEN Numbered(number) ELSE Named(SubSeq(s, i, FirstNot(s, i + 1, NameChars) - 1))
PlaceholdersTo(s, last) ==
  LET P == Places(s, last) IN
  [ n \in 1 .. Cardinality(P) |->
      LET i == CHOOSE i \in P : Cardinality({ j \in P : j < i }) = n - 1 IN PlaceholderAt(s, i, n - 1) ]

(* Queries PDO accepts: no colon without a name; one kind of placeholder.  *)
Regular(s) ==
  /\ \A i \in DOMAIN s : s[i] = ":" => HasName(s, i)
  /\ ~(\E i, j \in DOMAIN s : s[i] = ":" /\ s[j] = "?")
OutputAt(s, last) ==
  \E i \in Places(s, last) :
    LET after == FirstNot(s, FirstNot(s, i + 1, IF s[i] = ":" THEN NameChars ELSE {}), {Blank}) IN
    after < EndOf(s) /\ s[after] = "="

(* The driver sees the placeholders PDO sees up to the first literal, and  *)
(* none after: the quote that ends a literal is taken for one that opens.  *)
SeenAsByPDO(s) ==
  LET last == FirstAt(s, 1, Quotes) - 1 IN
  IF OutputAt(s, last) THEN ~parse_sql_string(s).ok
  ELSE parse_sql_string(s) = Parsed(PlaceholdersTo(s, last), TRUE)

Strings   == [encoding : {"invalid", "binary", "utf8"}, string : {TRUE}, value : {<<Apostrophe>>}]
Own(b, stmt) == IF b.encoding = "invalid" THEN stmt ELSE b.encoding

(* In a query without literals each string goes to the server in its own   *)
(* parameter's encoding, at each execution with whatever is bound then.    *)
QuotedInOwnEncoding(s) ==
  LET found == parse_sql_string(s).found
      bound == { found[i] : i \in DOMAIN found } IN
  \A bindings \in [1 .. MaxExecutions -> [bound -> Strings]], stmt \in {"default", "utf8"} :
    LET results == Executions(found, found, bindings, stmt, 1) IN
    \A n \in 1 .. MaxExecutions : \A i \in DOMAIN found :
      Literal(results[n].texts[i]).kind = KindOf(Own(bindings[n][found[i]], stmt))

(* The parameters of an emulated prepare reach the server as bound.        *)
EmulatedAsBound ==
  \A s \in Queries : Regular(s) =>
    /\ SeenAsByPDO(s)
    /\ (FirstAt(s, 1, Quotes) = EndOf(s) /\ parse_sql_string(s).ok) => QuotedInOwnEncoding(s)

=============================================================================
