----------------------------- MODULE DsnParser -----------------------------
(***************************************************************************)
(* conn_string_parser: how a PDO data source name is read, against the     *)
(* grammar it is meant to read.  A string is a sequence of characters, of  *)
(* which only these matter: the equal sign, the semicolon, the two braces, *)
(* white space, and anything else.  A position beyond the end is EOS.      *)
(***************************************************************************)
EXTENDS Naturals, Sequences, FiniteSets, FiniteSetsExt

CONSTANTS DsnKeys,     \* names of options, as sequences of characters
          Letters,     \* characters of no meaning to the parser
          MaxDsn       \* bound on the length of a string

Space       == " "
Characters  == Letters \cup {"=", ";", "{", "}", Space}
DataSources == UNION { [1 .. n -> Characters] : n \in 0 .. MaxDsn }

(* next, discard_white_spaces: the first place from p on that is no white  *)
(* space; the first place that holds c.                                    *)
FirstOf(s, P) == IF P = {} THEN Len(s) + 1 ELSE Min(P)
Skip(s, p)    == FirstOf(s, { i \in p .. Len(s) : s[i] # Space })
Find(s, p, c) == FirstOf(s, { i \in p .. Len(s) : s[i] = c })
Eos(s, p)     == p > Len(s)

discard_trailing_white_spaces(s) ==
  SubSeq(s, 1, Max({0} \cup { i \in DOMAIN s : s[i] # Space }))

Read(table)   == [ok |-> TRUE, table |-> table]
Refused       == [ok |-> FALSE, table |-> <<>>]
Plus(table, key, value) == Append(table, <<key, value>>)

(* What follows the brace at r, inside a value: the end of the value, or   *)
(* an escaped brace.                                                       *)
EscapeIgnored(s, r) == FALSE                     \* mutant: every right brace ends the value
Escaped(s, r)       == ~Eos(s, r + 1) /\ s[r + 1] = "}"

RECURSIVE Pair(_, _, _), Braced(_, _, _, _, _), NextPair(_, _, _)

(* NextKeyValuePair: p is at a semicolon.                                  *)
NextPair(s, p, table) ==
  LET n == Skip(s, p + 1) IN
  CASE Eos(s, n)                  -> Read(table)
    [] ~Eos(s, n) /\ s[n] = ";"   -> Refused
    [] ~Eos(s, n) /\ s[n] # ";"   -> Pair(s, n, table)

(* ValueContent1 and RCBEncountered: the value began at start with a brace.*)
Braced(s, start, p, key, table) ==
  LET r     == Find(s, p, "}")
      after == Skip(s, r + 1)
      value == Plus(table, key, SubSeq(s, start, r)) IN
  CASE Eos(s, r)                                     -> Refused
    [] ~Eos(s, r) /\ Escaped(s, r)                   ->
         IF Eos(s, r + 2) THEN Refused ELSE Braced(s, start, r + 2, key, table)
    [] ~Eos(s, r) /\ ~Escaped(s, r) /\ Eos(s, after) -> Read(value)
    [] ~Eos(s, r) /\ ~Escaped(s, r) /\ ~Eos(s, after) ->
         IF s[after] = ";" THEN NextPair(s, after, value) ELSE Refused

(* Key, Value and ValueContent2: p is at the first character of a key.     *)
Pair(s, p, table) ==
  LET eq  == Find(s, p, "=")
      key == discard_trailing_white_spaces(SubSeq(s, p, eq - 1))
      v   == Skip(s, eq + 1)
      end == Find(s, v, ";") IN
  CASE Eos(s, eq) \/ key \notin DsnKeys              -> Refused
    [] ~Eos(s, eq) /\ key \in DsnKeys /\ Eos(s, v)   -> Read(Plus(table, key, <<>>))
    [] ~Eos(s, eq) /\ key \in DsnKeys /\ ~Eos(s, v)  ->
         IF s[v] = "{" THEN Braced(s, v, v, key, table)
         ELSE LET after == Plus(table, key, SubSeq(s, v, end - 1)) IN
              IF Eos(s, end) THEN Read(after) ELSE NextPair(s, end, after)

parse_conn_string(s) == IF Eos(s, Skip(s, 1)) THEN Refused ELSE Pair(s, Skip(s, 1), <<>>)

-----------------------------------------------------------------------------
(* The grammar: pieces divided by semicolons, each of them a key, an equal *)
(* sign and a value; a value that begins with a brace ends with the brace  *)
(* that matches it, and doubles every brace inside.                        *)
Blank(s)    == \A i \in DOMAIN s : s[i] = Space
Bare(v)     == v[1] # "{" /\ \A i \in DOMAIN v : v[i] # ";"
Run(b, i, j) == /\ \A k \in i .. j : b[k] = "}"
                /\ i = 1 \/ b[i - 1] # "}"
                /\ j = Len(b) \/ b[j + 1] # "}"
Doubled(b)   == \A i \in DOMAIN b : \A j \in i .. Len(b) : Run(b, i, j) => (j - i) % 2 = 1
Closes(v, j) == v[j] = "}" /\ Doubled(SubSeq(v, 2, j - 1)) /\ Blank(SubSeq(v, j + 1, Len(v)))

(* The readings of a piece: <<key, value>>, one at most.                   *)
Readings(piece) ==
  LET t  == SubSeq(piece, Skip(piece, 1), Len(piece))
      eq == Find(t, 1, "=")
      v  == SubSeq(t, Skip(t, eq + 1), Len(t))
      k  == discard_trailing_white_spaces(SubSeq(t, 1, eq - 1)) IN
  { <<k, w>> : w \in
      IF Eos(t, eq) \/ k \notin DsnKeys THEN {}
      ELSE IF v = <<>> THEN {<<>>}
      ELSE IF v[1] = "{" THEN { SubSeq(v, 1, j) : j \in { j \in 2 .. Len(v) : Closes(v, j) } }
      ELSE IF Bare(v) THEN {v} ELSE {} }

(* The tables that a division of the string at some of its semicolons      *)
(* yields.  After the last semicolon there may be nothing.                 *)
RECURSIVE Tables(_)
Tables(s) ==
  { <<r>> : r \in Readings(s) }
    \cup UNION { LET rest == SubSeq(s, i + 1, Len(s)) IN
                 { <<r>> \o t : r \in Readings(SubSeq(s, 1, i - 1)),
                               t \in Tables(rest) \cup (IF Blank(rest) THEN {<<>>} ELSE {}) }
                 : i \in { i \in DOMAIN s : s[i] = ";" } }

(* A data source name is read as the grammar has it: what is accepted has  *)
(* one meaning, and the table holds it; what has none is refused.          *)
DsnReadAsWritten ==
  \A s \in DataSources :
    LET p == parse_conn_string(s) IN Tables(s) = IF p.ok THEN {p.table} ELSE {}

=============================================================================
