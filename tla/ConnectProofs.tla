--------------------------- MODULE ConnectProofs ---------------------------
(***************************************************************************)
(* Proofs about Connect, for every set of hosts and requests: however a    *)
(* connect ends nothing is left of it, a script that connects with an      *)
(* access token is never handed a connection of another identity, and the  *)
(* search for a driver uses none, and passes over none, that it should not.*)
(* Behind them, for all diagnostic records and all orders of checks: what  *)
(* the script is told of a failure (Diagnostics).                          *)
(***************************************************************************)
EXTENDS ConnectDiagnostics, Induction, SequenceTheorems, FiniteSetTheorems, TLAPS

(* Strings, with the literals of Connect, of which the provers do not know *)
(* that they are strings.                                                  *)
Literals ==
  {"", "null", "none", "unknown", "asked", "known", "password", "clientkey", "yes", "no", "Yes",
   "Server", "UID", "PWD", "Trusted_Connection", "Driver", "MARS", "APP fingerprint",
   "ColumnEncryption", "Failover_Partner", "LoginTimeout", "WSID",
   "option", "server", "token", "braces", "value", "odbc", "warning", "vault", "vault call", "version",
   "encryption needs a newer driver", "specified driver not found", "no driver installed"}
Text == STRING \cup Literals \cup Versions

Asked   == Seq([name : STRING, value : STRING])
Pair    == [key : Text, value : Text]
Pairs   == Seq(Pair)
Strings == Seq(Text \X Text)
Links   == [string : Strings, token : Text]

ConnType ==
  [server : Text, todo : Asked \cup Pairs, table : Pairs, uid : Text, pwd : Text,
   dsnpwd : Text, pooled : BOOLEAN, string : Strings, sent : Strings,
   driver : Versions \cup {"unknown"}, used : Versions \cup {"none"}, tried : 1 .. 3,
   ce : BOOLEAN, mode : Text, id : Text, secret : Text, required : BOOLEAN,
   token : Text, physical : Links,
   handle : {"none", "allocated", "connected", "freed", "leaked"},
   version : Text, error : Text]

Phases == {"idle", "checking", "building", "setting", "choosing", "connected", "open", "failed"}

Types ==
  /\ host \in Hosts /\ connects \in 0 .. MaxConnects /\ phase \in Phases
  /\ conn \in ConnType /\ pool \in SUBSET Links
  /\ caller \in [error_mode : {"silent", "exception"}, server_refs : 0 .. 1]

(* Where a keyword stands in a string, and what a string says of a token.  *)
At(string, k) == { i \in DOMAIN string : string[i][1] = k }
Single(S)     == \E i \in S : S = {i}
Marks(string) == { string[i][2] : i \in At(string, "APP fingerprint") }
Mark(token)   == IF token = "" THEN {} ELSE {token}

Distinct(table) == \A i, j \in DOMAIN table : table[i].key = table[j].key => i = j
OptionKeys(pdo) == LET T == IF pdo THEN PDO_CONN_OPTS ELSE SS_CONN_OPTS
                   IN UNION { T[f] : f \in DOMAIN T }
AllKnown(table, pdo) == Keys(table) \subseteq OptionKeys(pdo)
Mars == "MultipleActiveResultSets"

(* What there is of the handle, and of the secrets and the caller.         *)
HandleFollows ==
  /\ phase = "checking" => conn.handle = "none"
  /\ phase \in {"building", "setting", "choosing"} => conn.handle = "allocated"
  /\ phase \in {"connected", "open"} => conn.handle = "connected"
  /\ phase \in {"idle", "failed"} => conn.handle \in {"none", "freed", "leaked"}
Quiet ==
  ~Connecting => /\ conn.id = "" /\ conn.secret = "" /\ conn.mode = "none" /\ ~conn.required
                 /\ caller = Restored

(* The options, before and while the string is made of them.               *)
Fresh ==
  phase \in {"checking", "building"} =>
    conn.string = <<>> /\ conn.token = "" /\ conn.driver = "unknown"
Optioned ==
  /\ phase \in {"checking", "building", "setting"} =>
       conn.tried = 1 /\ Distinct(conn.table) /\ AllKnown(conn.table, host.pdo)
  /\ phase = "checking" => conn.todo \in Asked
  /\ phase = "setting" =>
       /\ conn.todo \in Pairs /\ Distinct(conn.todo) /\ AllKnown(conn.todo, host.pdo)
       /\ Keys(conn.todo) \subseteq Keys(conn.table)

(* The string: what has been written into it, once.                        *)
Written ==
  /\ phase \in {"setting", "choosing"} =>
       /\ Single(At(conn.string, "Server"))
       /\ conn.driver = "unknown" => At(conn.string, "Driver") = {}
       /\ conn.driver # "unknown" => Single(At(conn.string, "Driver"))
  /\ phase = "setting" =>
       /\ conn.driver # "unknown" => "Driver" \notin Keys(conn.todo)
       /\ IF Has(conn.table, Mars) /\ Mars \notin Keys(conn.todo)
          THEN Single(At(conn.string, "MARS")) ELSE At(conn.string, "MARS") = {}
  /\ phase = "choosing" => Single(At(conn.string, "MARS"))
WholeSent ==
  conn.sent # <<>> => /\ Single(At(conn.sent, "Server")) /\ Single(At(conn.sent, "Driver"))
                      /\ Single(At(conn.sent, "MARS"))

(* Every connection, kept or in use, is marked with the token it was made  *)
(* with.                                                                   *)
Identity ==
  /\ \A p \in pool : Marks(p.string) = Mark(p.token)
  /\ phase = "setting" => Marks(conn.string) = {}
  /\ phase = "choosing" => Marks(conn.string) = Mark(conn.token)
  /\ phase \in {"connected", "open"} =>
       conn.physical.token = conn.token /\ Marks(conn.physical.string) = Mark(conn.token)

(* The search for a driver.                                                *)
Searched ==
  /\ phase = "choosing" =>
       /\ conn.ce => conn.tried # 3
       /\ conn.driver = "unknown" => \A i \in 1 .. 3 : i < conn.tried => Drivers[i] \notin host.installed
  /\ phase \in {"connected", "open"} => (conn.ce => conn.used \in {"17", "18"})
  /\ Connecting => conn.error = "none"
  /\ FallsBack

IInv ==
  /\ Types /\ HandleFollows /\ Quiet /\ Fresh /\ Optioned /\ Written /\ WholeSent
  /\ Identity /\ Searched

-----------------------------------------------------------------------------
Longer(s, t, k, v) ==
  /\ t \in Strings /\ t = Append(s, <<k, v>>) /\ t # <<>>
  /\ \A j : At(t, j) = IF j = k THEN At(s, j) \cup {Len(s) + 1} ELSE At(s, j)
  /\ Marks(t) = IF k = "APP fingerprint" THEN Marks(s) \cup {v} ELSE Marks(s)

(* Writing one more keyword: where it stands, and what the string says of  *)
(* a token after it (add_conn_option).                                     *)
LEMMA Appended ==
  ASSUME NEW s \in Strings, NEW k \in Text, NEW v \in Text
  PROVE  \E t : Longer(s, t, k, v)
<1>0. PICK t : t = Append(s, <<k, v>>)  OBVIOUS
<1> DEFINE S == Text \X Text
<1>1. s \in Seq(S) /\ <<k, v>> \in S  BY DEF Strings
<1> HIDE DEF S
<1>2. /\ t \in Seq(S) /\ Len(t) = Len(s) + 1
      /\ \A i \in 1 .. Len(s) : t[i] = s[i]
      /\ t[Len(s) + 1] = <<k, v>>
  BY <1>0, <1>1, AppendProperties
<1>3. DOMAIN s = 1 .. Len(s) /\ DOMAIN t = 1 .. Len(s) + 1 /\ Len(s) \in Nat  BY <1>1, <1>2
<1>4. t[Len(s) + 1][1] = k /\ t[Len(s) + 1][2] = v
  <2>1. <<k, v>>[1] = k /\ <<k, v>>[2] = v  OBVIOUS
  <2> QED  BY <1>2, <2>1, Zenon
<1>5. DOMAIN t = DOMAIN s \cup {Len(s) + 1} /\ Len(s) + 1 \notin DOMAIN s  BY <1>3
<1>6. ASSUME NEW j
      PROVE  At(t, j) = IF j = k THEN At(s, j) \cup {Len(s) + 1} ELSE At(s, j)
  BY <1>2, <1>3, <1>4, <1>5 DEF At
<1>7. Marks(t) = IF k = "APP fingerprint" THEN Marks(s) \cup {v} ELSE Marks(s)
  <2>1. \A i \in At(s, "APP fingerprint") : t[i] = s[i]  BY <1>2, <1>3 DEF At
  <2>2. At(t, "APP fingerprint") = IF "APP fingerprint" = k THEN At(s, "APP fingerprint") \cup {Len(s) + 1}
                                   ELSE At(s, "APP fingerprint")
    BY <1>6
  <2> DEFINE F == "APP fingerprint"
  <2>3. { t[i][2] : i \in At(s, F) } = { s[i][2] : i \in At(s, F) }  BY <2>1
  <2>4. CASE k = F
    <3>1. Marks(t) = { t[i][2] : i \in At(s, F) \cup {Len(s) + 1} }  BY <2>2, <2>4 DEF Marks
    <3>2. @ = { t[i][2] : i \in At(s, F) } \cup { t[Len(s) + 1][2] }  OBVIOUS
    <3> QED  BY <2>3, <2>4, <3>1, <3>2, <1>4 DEF Marks
  <2>5. CASE k # F
    <3>1. Marks(t) = { t[i][2] : i \in At(s, F) }  BY <2>2, <2>5 DEF Marks
    <3> QED  BY <2>3, <2>5, <3>1 DEF Marks
  <2> QED  BY <2>4, <2>5
<1>8. t # <<>>
  <2>1. Len(t) # 0  BY <1>2, <1>3
  <2> QED  BY <2>1
<1> QED  BY <1>0, <1>2, <1>6, <1>7, <1>8 DEF Longer, Strings, S

(* What the function of an option leaves alone.                            *)
Alike(c, d) ==
  /\ d.todo = c.todo /\ d.table = c.table /\ d.handle = c.handle /\ d.tried = c.tried
  /\ d.sent = c.sent /\ d.error = c.error
Lengthened(c, d, k, v) ==
  /\ d \in ConnType /\ d = With(c, k, v) /\ Longer(c.string, d.string, k, v)
  /\ Alike(c, d) /\ d.driver = c.driver /\ d.ce = c.ce /\ d.token = c.token

(* A connection with one more keyword is that connection, but for its      *)
(* string.                                                                 *)
LEMMA WithIs ==
  ASSUME NEW c \in ConnType, NEW k \in Text, NEW v \in Text
  PROVE  \E d : Lengthened(c, d, k, v)
<1>1. c.string \in Strings  BY DEF ConnType
<1>2. PICK t : Longer(c.string, t, k, v)  BY <1>1, Appended
<1>3. PICK d : d = [c EXCEPT !.string = t]  OBVIOUS
<1>4. d = With(c, k, v)  BY <1>2, <1>3 DEF With, Longer
<1>5. t \in Strings  BY <1>2 DEF Longer
<1>6. d \in ConnType /\ d.string = t /\ Alike(c, d)
  BY <1>3, <1>5 DEF ConnType, Alike
<1>7. d.driver = c.driver /\ d.ce = c.ce /\ d.token = c.token  BY <1>3 DEF ConnType
<1> QED  BY <1>2, <1>4, <1>6, <1>7 DEF Lengthened

(* A connection without the secrets of the key vault (akv_reset), and what *)
(* remains of one that is given up (invalidate).                           *)
Emptied(c, d) ==
  /\ d = Vaultless(c) /\ d \in ConnType
  /\ d.id = "" /\ d.secret = "" /\ d.mode = "none" /\ d.required = FALSE
  /\ d.handle = c.handle /\ d.error = c.error /\ d.physical = c.physical
  /\ d.token = c.token /\ d.ce = c.ce /\ d.used = c.used /\ d.sent = c.sent
  /\ d.driver = c.driver

LEMMA VaultlessIs ==
  ASSUME NEW c \in ConnType
  PROVE  \E d : Emptied(c, d)
<1> DEFINE Like(d) == /\ d.handle = c.handle /\ d.error = c.error /\ d.physical = c.physical
                      /\ d.token = c.token /\ d.ce = c.ce /\ d.used = c.used /\ d.sent = c.sent
                      /\ d.driver = c.driver
<1>1. PICK none \in Text : none = "none"  BY DEF Text, Literals
<1>2. PICK empty \in Text : empty = ""  BY DEF Text, Literals
<1>3. PICK v1 : v1 = [c EXCEPT !.mode = none]  OBVIOUS
<1>4. PICK v2 : v2 = [v1 EXCEPT !.id = empty]  OBVIOUS
<1>5. PICK v3 : v3 = [v2 EXCEPT !.secret = empty]  OBVIOUS
<1>6. PICK v4 : v4 = [v3 EXCEPT !.required = FALSE]  OBVIOUS
<1>7. v1 \in ConnType /\ v1.mode = none /\ Like(v1)  BY <1>3 DEF ConnType
<1>8. v2 \in ConnType /\ v2.mode = none /\ v2.id = empty /\ Like(v2)  BY <1>4, <1>7 DEF ConnType
<1>9. v3 \in ConnType /\ v3.mode = none /\ v3.id = empty /\ v3.secret = empty /\ Like(v3)
  BY <1>5, <1>8 DEF ConnType
<1>10. v4 \in ConnType /\ v4.mode = none /\ v4.id = empty /\ v4.secret = empty /\ v4.required = FALSE
       /\ Like(v4)
  BY <1>6, <1>9 DEF ConnType
<1>11. v4 = Vaultless(c)  BY <1>1, <1>2, <1>3, <1>4, <1>5, <1>6 DEF Vaultless
<1> QED  BY <1>1, <1>2, <1>10, <1>11 DEF Emptied

LEMMA InvalidatedIs ==
  ASSUME NEW c \in ConnType
  PROVE  \E d \in ConnType :
           /\ Invalidated(c) = d
           /\ d.id = "" /\ d.secret = "" /\ d.mode = "none" /\ d.required = FALSE
           /\ d.handle \in {"none", "freed", "leaked"}
           /\ d.sent = c.sent /\ d.driver = c.driver
<1>1. PICK h \in {"none", "freed", "leaked"} :
        h = CASE c.handle = "connected" -> "leaked" [] c.handle = "allocated" -> "freed" [] OTHER -> "none"
  OBVIOUS
<1>0. PICK v : Emptied(c, v)  BY VaultlessIs
<1>2. /\ v = Vaultless(c) /\ v \in ConnType
      /\ v.id = "" /\ v.secret = "" /\ v.mode = "none" /\ v.required = FALSE
      /\ v.sent = c.sent /\ v.driver = c.driver
  BY <1>0 DEF Emptied
<1>3. PICK w : w = [v EXCEPT !.string = <<>>]  OBVIOUS
<1>4. PICK x : x = [w EXCEPT !.handle = h]  OBVIOUS
<1>5. /\ w \in ConnType /\ w.id = v.id /\ w.secret = v.secret /\ w.mode = v.mode
      /\ w.required = v.required /\ w.sent = v.sent /\ w.driver = v.driver
  <2>1. <<>> \in Strings  BY DEF Strings
  <2> QED  BY <1>2, <1>3, <2>1 DEF ConnType
<1>6. /\ x \in ConnType /\ x.id = v.id /\ x.secret = v.secret /\ x.mode = v.mode
      /\ x.required = v.required /\ x.sent = v.sent /\ x.driver = v.driver /\ x.handle = h
  BY <1>4, <1>5 DEF ConnType
<1>7. x = Invalidated(c)  BY <1>1, <1>2, <1>3, <1>4 DEF Invalidated
<1> QED  BY <1>2, <1>6, <1>7

(* What the catch block of the PDO factory gives its caller back.          *)
LEMMA RestoredIs ==
  Restored \in [error_mode : {"silent", "exception"}, server_refs : 0 .. 1]
BY DEF Restored

(* A connect that fails at any of its steps (the catch blocks of           *)
(* core_sqlsrv_connect and of its callers).                                *)
LEMMA FailsKeeps ==
  ASSUME Types, Identity, NEW c \in ConnType, NEW e \in Text, Fails(c, e),
         c.sent # <<>> => /\ Single(At(c.sent, "Server")) /\ Single(At(c.sent, "Driver"))
                          /\ Single(At(c.sent, "MARS")),
         e = "no driver installed" => host.installed = {},
         e = "encryption needs a newer driver" /\ c.driver = "unknown" =>
           host.installed \cap {"17", "18"} = {}
  PROVE  IInv'
<1>1. PICK d \in ConnType :
        /\ Invalidated(c) = d
        /\ d.id = "" /\ d.secret = "" /\ d.mode = "none" /\ d.required = FALSE
        /\ d.handle \in {"none", "freed", "leaked"}
        /\ d.sent = c.sent /\ d.driver = c.driver
  BY InvalidatedIs
<1>2. PICK g : g = [d EXCEPT !.error = e]  OBVIOUS
<1>3. conn' = g /\ phase' = "failed" /\ caller' = Restored
      /\ host' = host /\ pool' = pool /\ connects' = connects
  BY <1>1, <1>2 DEF Fails
<1>4. g \in ConnType  BY <1>2 DEF ConnType
<1>5. /\ g.id = "" /\ g.secret = "" /\ g.mode = "none" /\ g.required = FALSE
      /\ g.handle \in {"none", "freed", "leaked"}
      /\ g.sent = c.sent /\ g.driver = c.driver /\ g.error = e
  BY <1>1, <1>2 DEF ConnType
<1>6. Types'
  BY <1>3, <1>4, RestoredIs DEF Types, Phases
<1>7. HandleFollows' /\ Quiet'  BY <1>3, <1>5 DEF HandleFollows, Quiet, Connecting, Restored
<1>8. Fresh' /\ Optioned' /\ Written'  BY <1>3 DEF Fresh, Optioned, Written
<1>9. WholeSent'  BY <1>3, <1>5 DEF WholeSent
<1>10. Identity'  BY <1>3 DEF Identity
<1>11. Searched'  BY <1>3, <1>5 DEF Searched, Connecting, FallsBack
<1> QED  BY <1>6, <1>7, <1>8, <1>9, <1>10, <1>11 DEF IInv

-----------------------------------------------------------------------------
(* The tables of options: which function treats an option, where that      *)
(* matters for the string (the SS_CONN_OPTS and PDO_CONN_OPTS arrays).     *)
Funcs == {"text", "bool", "int", "attribute", "token", "driver", "encryption", "vault",
          "nothing", "encrypt", "judged"}

LEMMA Tables ==
  /\ DOMAIN Table = Funcs
  /\ Table["text"] = StringOptions.text
  /\ Table["int"] = StringOptions.int
  /\ Table["bool"] \in {StringOptions.bool, StringOptions.bool \cup {"Encrypt"}}
  /\ Table["attribute"] \subseteq {"LoginTimeout", "TraceFile", "TraceOn", "TransactionIsolation"}
  /\ Table["token"] = {"AccessToken"}
  /\ Table["driver"] = {"Driver"}
  /\ Table["encryption"] = {"ColumnEncryption"}
  /\ Table["vault"] = {"KeyStoreAuthentication", "KeyStorePrincipalId", "KeyStoreSecret"}
  /\ Table["nothing"] \subseteq {"ConnectionPooling", "ReturnDatesAsStrings", "BatchErrorContinue",
                                 "FormatDecimals"}
  /\ Table["encrypt"] \subseteq {"Encrypt"}
  /\ Table["judged"] \subseteq {"CharacterSet", "DecimalPlaces", "TransactionIsolation"}
<1>1. CASE host.pdo
  <2>1. Table = [SharedOptions EXCEPT !.encrypt = {"Encrypt"}, !.judged = {"TransactionIsolation"}]
    BY <1>1 DEF Table, PDO_CONN_OPTS
  <2> QED  BY <2>1 DEF SharedOptions, Funcs
<1>2. CASE ~host.pdo
  <2>1. Table = SS_CONN_OPTS  BY <1>2 DEF Table
  <2> QED  BY <2>1 DEF SS_CONN_OPTS, SharedOptions, Funcs
<1> QED  BY <1>1, <1>2

LEMMA Treats ==
  ASSUME NEW k, Known(k)
  PROVE  /\ FuncOf(k) \in Funcs
         /\ FuncOf(k) \in {"text", "bool", "int", "encrypt", "encryption"} =>
              k \notin {"Server", "MARS", "APP fingerprint", "Driver"}
         /\ FuncOf(k) = "encryption" => k = "ColumnEncryption"
         /\ k = "Driver" <=> FuncOf(k) = "driver"
         /\ k = Mars => FuncOf(k) = "bool"
<1>1. PICK f : f = FuncOf(k)  OBVIOUS
<1>2. f \in Funcs /\ k \in Table[f]  BY <1>1, Tables DEF Known, FuncOf
<1>3. f \in {"text", "bool", "int", "encrypt", "encryption"} =>
        k \notin {"Server", "MARS", "APP fingerprint", "Driver"}
  BY <1>2, Tables DEF StringOptions
<1>4. k = "Driver" <=> f = "driver"  BY <1>2, Tables DEF StringOptions, Funcs
<1>5. k = Mars => f = "bool"  BY <1>2, Tables DEF StringOptions, Funcs, Mars
<1>6. f = "encryption" => k = "ColumnEncryption"  BY <1>2, Tables
<1> QED  BY <1>1, <1>2, <1>3, <1>4, <1>5, <1>6

Adds(c, d, keyword) == At(d.string, keyword) = At(c.string, keyword) \cup {Len(c.string) + 1}
Lacks(c, d, keyword) == At(d.string, keyword) = At(c.string, keyword)

(* One option treated: only Driver writes the driver's name, and chooses   *)
(* the driver, only MultipleActiveResultSets writes MARS, and none writes  *)
(* the server's name or a mark.                                            *)
LEMMA FuncIs ==
  ASSUME NEW c \in ConnType, NEW k \in Text, NEW v \in Text, Known(k), NEW d \in func(c, k, v)
  PROVE  /\ d \in ConnType /\ Alike(c, d)
         /\ Lacks(c, d, "Server") /\ Marks(d.string) = Marks(c.string)
         /\ k # "Driver" => d.driver = c.driver /\ Lacks(c, d, "Driver")
         /\ k = "Driver" => d.driver # "unknown" /\ Adds(c, d, "Driver")
         /\ k # Mars => Lacks(c, d, "MARS")
         /\ k = Mars => Adds(c, d, "MARS")
<1>1. PICK f : f = FuncOf(k)  OBVIOUS
<1>2. /\ f \in Funcs
      /\ f \in {"text", "bool", "int", "encrypt", "encryption"} =>
           k \notin {"Server", "MARS", "APP fingerprint", "Driver"}
      /\ f = "encryption" => k = "ColumnEncryption"
      /\ k = "Driver" <=> f = "driver"
      /\ k = Mars => f = "bool"
  BY <1>1, Treats
<1>3. ASSUME NEW w \in Text, NEW b \in ConnType, Alike(c, b), b.string = c.string, b.driver = c.driver,
             NEW j \in Text, j \notin {"Server", "APP fingerprint", "Driver"},
             d = With(b, j, w), k # "Driver", j = "MARS" <=> k = Mars
      PROVE  /\ d \in ConnType /\ Alike(c, d)
             /\ Lacks(c, d, "Server") /\ Marks(d.string) = Marks(c.string)
             /\ d.driver = c.driver /\ Lacks(c, d, "Driver")
             /\ k # Mars => Lacks(c, d, "MARS")
             /\ k = Mars => Adds(c, d, "MARS")
  <2>1. PICK x : Lengthened(b, x, j, w)  BY WithIs
  <2>2. d = x /\ d \in ConnType /\ Alike(b, d) /\ d.driver = b.driver /\ Longer(b.string, d.string, j, w)
    BY <1>3, <2>1 DEF Lengthened
  <2>3. Alike(c, d) /\ d.driver = c.driver  BY <1>3, <2>2 DEF Alike
  <2>4. Longer(c.string, d.string, j, w)  BY <1>3, <2>2
  <2> QED  BY <1>3, <2>2, <2>3, <2>4 DEF Longer, Lacks, Adds
<1>4. ASSUME d \in ConnType, Alike(c, d), d.string = c.string, d.driver = c.driver,
             k # "Driver", k # Mars
      PROVE  /\ Lacks(c, d, "Server") /\ Marks(d.string) = Marks(c.string)
             /\ d.driver = c.driver /\ Lacks(c, d, "Driver") /\ Lacks(c, d, "MARS")
  BY <1>4 DEF Lacks
<1>5. Alike(c, c)  BY DEF Alike
<1>6. CASE f \in {"text", "int"}
  <2>1. d = With(c, k, v) /\ k # Mars /\ k # "Driver"  BY <1>1, <1>2, <1>6 DEF func
  <2> QED  BY <1>2, <1>3, <1>5, <1>6, <2>1
<1>7. CASE f = "bool"
  <2>1. PICK j \in Text, w \in Text :
          d = With(c, j, w) /\ j = (IF k = Mars THEN "MARS" ELSE k)
    <3>1. YesNo(v) \in Text  BY DEF YesNo, Text, Literals
    <3>2. "MARS" \in Text  BY DEF Text, Literals
    <3>3. d = With(c, IF k = Mars THEN "MARS" ELSE k, YesNo(v))  BY <1>1, <1>7 DEF func, Mars
    <3> QED  BY <3>1, <3>2, <3>3
  <2>2. j \notin {"Server", "APP fingerprint", "Driver"} /\ k # "Driver"  BY <1>2, <1>7, <2>1
  <2>3. j = "MARS" <=> k = Mars  BY <1>2, <1>7, <2>1
  <2> QED  BY <1>3, <1>5, <2>1, <2>2, <2>3
<1>8. CASE f = "encrypt"
  <2>1. PICK w \in Text : d = With(c, k, w)
    <3>1. Normal(v) \in Text  BY DEF Normal, Text, Literals
    <3> QED  BY <1>1, <1>8, <3>1 DEF func
  <2> QED  BY <1>2, <1>3, <1>5, <1>8, <2>1
<1>9. CASE f = "driver"
  <2>1. v \in Versions /\ d = With([c EXCEPT !.driver = v], "Driver", v)
    BY <1>1, <1>9 DEF func, driver_set_func
  <2>2. PICK b : b = [c EXCEPT !.driver = v]  OBVIOUS
  <2>3. b \in ConnType /\ Alike(c, b) /\ b.string = c.string /\ b.driver = v
    BY <2>1, <2>2 DEF ConnType, Alike
  <2>4. "Driver" \in Text  BY DEF Text, Literals
  <2>5. PICK x : Lengthened(b, x, "Driver", v)  BY <2>3, <2>4, WithIs
  <2>6. d = x  BY <2>1, <2>2, <2>5 DEF Lengthened
  <2>7. d \in ConnType /\ Alike(b, d) /\ d.driver = v /\ Longer(c.string, d.string, "Driver", v)
    BY <2>3, <2>5, <2>6 DEF Lengthened
  <2>8. Alike(c, d)  BY <2>3, <2>7 DEF Alike
  <2>9. v # "unknown"  BY <2>1 DEF Versions
  <2>10. k = "Driver" /\ k # Mars  BY <1>2, <1>9
  <2> QED  BY <2>7, <2>8, <2>9, <2>10 DEF Longer, Lacks, Adds
<1>10. CASE f = "encryption"
  <2>1. PICK b : b = [c EXCEPT !.ce = v # "disabled"]  OBVIOUS
  <2>2. d = With(b, "ColumnEncryption", v)  BY <1>1, <1>10, <2>1 DEF func, column_encryption_set_func
  <2>3. b \in ConnType /\ Alike(c, b) /\ b.string = c.string /\ b.driver = c.driver
    BY <2>1 DEF ConnType, Alike
  <2> QED  BY <1>2, <1>3, <1>10, <2>2, <2>3
<1>11. CASE f = "vault"
  <2>1. d \in ce_akv_str_set_func(c, k, v)  BY <1>1, <1>11 DEF func
  <2>2. k \in {"KeyStoreAuthentication", "KeyStorePrincipalId", "KeyStoreSecret"}
    BY <1>1, <1>11, Tables DEF Known, FuncOf
  <2>3. d \in ConnType /\ Alike(c, d) /\ d.string = c.string /\ d.driver = c.driver
    <3>1. CASE k = "KeyStoreAuthentication"
      <4>1. PICK m \in Text : d = [c EXCEPT !.mode = m, !.required = TRUE]
        <5>1. v \in DOMAIN VaultModes /\ d = [c EXCEPT !.mode = VaultModes[v], !.required = TRUE]
          BY <2>1, <3>1 DEF ce_akv_str_set_func
        <5>2. v = "KeyVaultPassword" \/ v = "KeyVaultClientSecret"  BY <5>1 DEF VaultModes
        <5>3. VaultModes[v] = "password" \/ VaultModes[v] = "clientkey"  BY <5>2 DEF VaultModes
        <5>4. VaultModes[v] \in Text  BY <5>3 DEF Text, Literals
        <5> QED  BY <5>1, <5>4
      <4>2. PICK b : b = [c EXCEPT !.mode = m]  OBVIOUS
      <4>3. b \in ConnType /\ Alike(c, b) /\ b.string = c.string /\ b.driver = c.driver
        BY <4>2 DEF ConnType, Alike
      <4>4. d = [b EXCEPT !.required = TRUE]  BY <4>1, <4>2
      <4> QED  BY <4>3, <4>4 DEF ConnType, Alike
    <3>2. CASE k = "KeyStorePrincipalId"
      <4>1. d = [c EXCEPT !.id = v, !.required = TRUE]  BY <2>1, <3>2 DEF ce_akv_str_set_func
      <4>2. PICK b : b = [c EXCEPT !.id = v]  OBVIOUS
      <4>3. b \in ConnType /\ Alike(c, b) /\ b.string = c.string /\ b.driver = c.driver
        BY <4>2 DEF ConnType, Alike
      <4>4. d = [b EXCEPT !.required = TRUE]  BY <4>1, <4>2
      <4> QED  BY <4>3, <4>4 DEF ConnType, Alike
    <3>3. CASE k = "KeyStoreSecret"
      <4>1. d = [c EXCEPT !.secret = v, !.required = TRUE]  BY <2>1, <3>3 DEF ce_akv_str_set_func
      <4>2. PICK b : b = [c EXCEPT !.secret = v]  OBVIOUS
      <4>3. b \in ConnType /\ Alike(c, b) /\ b.string = c.string /\ b.driver = c.driver
        BY <4>2 DEF ConnType, Alike
      <4>4. d = [b EXCEPT !.required = TRUE]  BY <4>1, <4>2
      <4> QED  BY <4>3, <4>4 DEF ConnType, Alike
    <3> QED  BY <2>2, <3>1, <3>2, <3>3
  <2>4. k # "Driver" /\ k # Mars  BY <1>2, <1>11
  <2> QED  BY <1>4, <2>3, <2>4
<1>12. CASE f = "token"
  <2>1. d = [c EXCEPT !.token = v]  BY <1>1, <1>12 DEF func, access_token_set_func
  <2>2. d \in ConnType /\ Alike(c, d) /\ d.string = c.string /\ d.driver = c.driver
    BY <2>1 DEF ConnType, Alike
  <2>3. k # "Driver" /\ k # Mars  BY <1>2, <1>12
  <2> QED  BY <1>4, <2>2, <2>3
<1>13. CASE f \in {"judged", "nothing", "attribute"}
  <2>1. d = c  BY <1>1, <1>13 DEF func
  <2>2. k # "Driver" /\ k # Mars  BY <1>2, <1>13
  <2> QED  BY <1>4, <1>5, <2>1, <2>2
<1> QED  BY <1>2, <1>6, <1>7, <1>8, <1>9, <1>10, <1>11, <1>12, <1>13 DEF Funcs

-----------------------------------------------------------------------------
(* The table of options: an option that is put replaces the one of its key *)
(* (zend_hash_index_update), and going through the table takes one at a    *)
(* time.                                                                   *)
LEMMA PutIs ==
  ASSUME NEW t \in Pairs, Distinct(t), NEW o \in Pair
  PROVE  Put(t, o) \in Pairs /\ Distinct(Put(t, o)) /\ Keys(Put(t, o)) \subseteq Keys(t) \cup {o.key}
<1>1. t \in Seq(Pair) /\ DOMAIN t = 1 .. Len(t) /\ Len(t) \in Nat  BY DEF Pairs
<1>2. CASE Has(t, o.key)
  <2>1. PICK n : n = [i \in DOMAIN t |-> IF t[i].key = o.key THEN o ELSE t[i]]  OBVIOUS
  <2>2. n = Put(t, o)  BY <1>2, <2>1 DEF Put
  <2>3. DOMAIN n = DOMAIN t /\ \A i \in DOMAIN n : n[i] \in Pair /\ n[i].key = t[i].key
    BY <1>1, <2>1
  <2>4. n \in Seq(Pair)
    <3>1. n \in [1 .. Len(t) -> Pair]  BY <1>1, <2>1
    <3> QED  BY <1>1, <3>1
  <2>5. Distinct(n)  BY <2>3 DEF Distinct
  <2>6. Keys(n) \subseteq Keys(t)  BY <2>3 DEF Keys
  <2> QED  BY <2>2, <2>4, <2>5, <2>6 DEF Pairs
<1>3. CASE ~Has(t, o.key)
  <2>1. PICK n : n = Append(t, o)  OBVIOUS
  <2>2. n = Put(t, o)  BY <1>3, <2>1 DEF Put
  <2>3. /\ n \in Seq(Pair) /\ Len(n) = Len(t) + 1 /\ n[Len(t) + 1] = o
        /\ \A i \in 1 .. Len(t) : n[i] = t[i]
    BY <1>1, <2>1, AppendProperties
  <2>4. DOMAIN n = 1 .. Len(t) + 1  BY <1>1, <2>3
  <2>5. \A i \in 1 .. Len(t) : n[i].key # o.key  BY <1>1, <1>3, <2>3 DEF Has, Keys
  <2>6. Distinct(n)
    <3> SUFFICES ASSUME NEW i \in DOMAIN n, NEW j \in DOMAIN n, n[i].key = n[j].key
                 PROVE  i = j
      BY DEF Distinct
    <3>1. CASE i \in 1 .. Len(t) /\ j \in 1 .. Len(t)
      BY <1>1, <2>3, <3>1 DEF Distinct
    <3>2. CASE i = Len(t) + 1 /\ j \in 1 .. Len(t)  BY <2>3, <2>5, <3>2
    <3>3. CASE j = Len(t) + 1 /\ i \in 1 .. Len(t)  BY <2>3, <2>5, <3>3
    <3>4. CASE i = Len(t) + 1 /\ j = Len(t) + 1  BY <3>4
    <3> QED  BY <1>1, <2>4, <3>1, <3>2, <3>3, <3>4
  <2>7. Keys(n) \subseteq Keys(t) \cup {o.key}
    <3> SUFFICES ASSUME NEW i \in DOMAIN n, n[i].key # o.key  PROVE n[i].key \in Keys(t)
      BY DEF Keys
    <3>1. i \in DOMAIN t /\ n[i] = t[i]  BY <1>1, <2>3, <2>4
    <3> QED  BY <3>1 DEF Keys
  <2> QED  BY <2>2, <2>3, <2>6, <2>7 DEF Pairs
<1> QED  BY <1>2, <1>3

LEMMA TailIs ==
  ASSUME NEW t \in Pairs, t # <<>>, Distinct(t)
  PROVE  /\ Head(t) \in Pair /\ Tail(t) \in Pairs /\ Distinct(Tail(t))
         /\ Keys(t) = Keys(Tail(t)) \cup {Head(t).key}
         /\ Head(t).key \notin Keys(Tail(t))
<1>1. t \in Seq(Pair) /\ DOMAIN t = 1 .. Len(t) /\ Len(t) \in Nat \ {0} /\ Head(t) = t[1]
  BY DEF Pairs
<1>2. PICK n : n = Tail(t)  OBVIOUS
<1>3. /\ Head(t) \in Pair /\ n \in Seq(Pair) /\ Len(n) = Len(t) - 1
      /\ \A i \in 1 .. Len(n) : n[i] = t[i + 1]
  BY <1>1, <1>2, HeadTailProperties
<1>4. DOMAIN n = 1 .. Len(t) - 1  BY <1>1, <1>3
<1>5. Distinct(n)
  <2> SUFFICES ASSUME NEW i \in DOMAIN n, NEW j \in DOMAIN n, n[i].key = n[j].key  PROVE i = j
    BY DEF Distinct
  <2>1. i + 1 \in DOMAIN t /\ j + 1 \in DOMAIN t /\ t[i + 1].key = t[j + 1].key  BY <1>1, <1>3, <1>4
  <2>2. i + 1 = j + 1  BY <2>1 DEF Distinct
  <2> QED  BY <1>1, <1>4, <2>2
<1>6. Head(t).key \notin Keys(n)
  <2> SUFFICES ASSUME NEW i \in DOMAIN n, n[i].key = t[1].key  PROVE FALSE
    BY <1>1 DEF Keys
  <2>1. i + 1 \in DOMAIN t /\ 1 \in DOMAIN t /\ t[i + 1].key = t[1].key  BY <1>1, <1>3, <1>4
  <2>2. i + 1 = 1  BY <2>1 DEF Distinct
  <2> QED  BY <1>1, <1>4, <2>2
<1>7. Keys(t) = Keys(n) \cup {Head(t).key}
  <2>1. ASSUME NEW i \in DOMAIN t  PROVE t[i].key \in Keys(n) \cup {Head(t).key}
    <3>1. CASE i = 1  BY <1>1, <3>1
    <3>2. CASE i # 1
      <4>1. i - 1 \in DOMAIN n /\ n[i - 1] = t[i]  BY <1>1, <1>3, <1>4, <3>2
      <4> QED  BY <4>1 DEF Keys
    <3> QED  BY <3>1, <3>2
  <2>2. ASSUME NEW i \in DOMAIN n  PROVE n[i].key \in Keys(t)
    <3>1. i + 1 \in DOMAIN t /\ n[i] = t[i + 1]  BY <1>1, <1>3, <1>4
    <3> QED  BY <3>1 DEF Keys
  <2>3. Head(t).key \in Keys(t)  BY <1>1 DEF Keys
  <2> QED  BY <2>1, <2>2, <2>3 DEF Keys
<1> QED  BY <1>2, <1>3, <1>5, <1>6, <1>7 DEF Pairs

(* Only the trace file is ever taken out of the options.                   *)
LEMMA LeftIs ==
  ASSUME NEW t \in Pairs, Distinct(t)
  PROVE  /\ OptionsLeft(t) \in Pairs /\ Distinct(OptionsLeft(t))
         /\ Keys(OptionsLeft(t)) \subseteq Keys(t)
         /\ \A k \in Keys(t) : k # "TraceFile" => k \in Keys(OptionsLeft(t))
<1>1. t \in Seq(Pair) /\ DOMAIN t = 1 .. Len(t) /\ Len(t) \in Nat  BY DEF Pairs
<1>2. CASE ~(Has(t, "TraceFile") /\ ~Traces)
  BY <1>2 DEF OptionsLeft
<1>3. CASE Has(t, "TraceFile") /\ ~Traces
  <2>1. PICK m : m = CHOOSE j \in DOMAIN t : t[j].key = "TraceFile"  OBVIOUS
  <2>2. m \in 1 .. Len(t) /\ t[m].key = "TraceFile"  BY <1>1, <1>3, <2>1 DEF Has, Keys
  <2>3. PICK a : a = SubSeq(t, 1, m - 1)  OBVIOUS
  <2>4. PICK b : b = SubSeq(t, m + 1, Len(t))  OBVIOUS
  <2>5. PICK n : n = a \o b  OBVIOUS
  <2>6. OptionsLeft(t) = n  BY <1>3, <2>1, <2>3, <2>4, <2>5 DEF OptionsLeft
  <2>7. m \in Int /\ m - 1 \in Int /\ m + 1 \in Int /\ Len(t) \in Int /\ 1 \in Int  BY <1>1, <2>2
  <2>8. (\A i \in 1 .. m - 1 : t[i] \in Pair) /\ (\A i \in m + 1 .. Len(t) : t[i] \in Pair)
    BY <1>1, <2>2
  <2>9. a \in Seq(Pair) /\ Len(a) = m - 1 /\ \A i \in 1 .. m - 1 : a[i] = t[i]
    <3>1. /\ a \in Seq(Pair) /\ Len(a) = IF 1 <= m - 1 THEN m - 1 - 1 + 1 ELSE 0
          /\ \A i \in 1 .. m - 1 - 1 + 1 : a[i] = t[1 + i - 1]
      BY <2>3, <2>7, <2>8, SubSeqProperties
    <3> QED  BY <2>2, <3>1
  <2>10. b \in Seq(Pair) /\ Len(b) = Len(t) - m /\ \A i \in 1 .. Len(t) - m : b[i] = t[m + i]
    <3>1. /\ b \in Seq(Pair) /\ Len(b) = IF m + 1 <= Len(t) THEN Len(t) - (m + 1) + 1 ELSE 0
          /\ \A i \in 1 .. Len(t) - (m + 1) + 1 : b[i] = t[m + 1 + i - 1]
      BY <2>4, <2>7, <2>8, SubSeqProperties
    <3>a. PICK l \in Nat : l = Len(t)  BY <1>1
    <3>b. m \in 1 .. l  BY <2>2, <3>a
    <3>c. m \in Nat /\ m <= l  BY <3>b
    <3>d. l - (m + 1) + 1 = l - m /\ l - m \in Nat  BY <3>c
    <3>2. m \in Nat /\ Len(t) - (m + 1) + 1 = Len(t) - m /\ Len(t) - m \in Nat  BY <3>a, <3>c, <3>d
    <3>e. (IF m + 1 <= l THEN l - (m + 1) + 1 ELSE 0) = l - m
      <4>1. CASE m + 1 <= l  BY <3>d, <4>1
      <4>2. CASE ~(m + 1 <= l)
        <5>1. m = l  BY <3>c, <4>2
        <5> QED  BY <3>c, <4>2, <5>1
      <4> QED  BY <4>1, <4>2
    <3>3. Len(b) = Len(t) - m  BY <3>1, <3>a, <3>e
    <3>4. \A i \in 1 .. Len(t) - m : m + 1 + i - 1 = m + i  BY <3>2
    <3> QED  BY <3>1, <3>2, <3>3, <3>4
  <2>11. /\ n \in Seq(Pair) /\ Len(n) = Len(t) - 1
         /\ \A i \in 1 .. Len(t) - 1 : n[i] = IF i < m THEN t[i] ELSE t[i + 1]
    <3>1. /\ n \in Seq(Pair) /\ Len(n) = Len(a) + Len(b)
          /\ \A i \in 1 .. Len(a) + Len(b) : n[i] = IF i <= Len(a) THEN a[i] ELSE b[i - Len(a)]
      BY <2>5, <2>9, <2>10, ConcatProperties
    <3>2. Len(a) + Len(b) = Len(t) - 1  BY <1>1, <2>2, <2>9, <2>10
    <3>3. ASSUME NEW i \in 1 .. Len(t) - 1  PROVE n[i] = IF i < m THEN t[i] ELSE t[i + 1]
      <4>1. CASE i < m
        <5>1. i \in 1 .. m - 1 /\ i <= Len(a)  BY <1>1, <2>2, <2>9, <4>1
        <5>2. n[i] = a[i]  BY <3>1, <3>2, <5>1
        <5> QED  BY <2>9, <4>1, <5>1, <5>2
      <4>2. CASE ~(i < m)
        <5>1. ~(i <= Len(a)) /\ i - Len(a) = i - m + 1 /\ i - m + 1 \in 1 .. Len(t) - m
              /\ m + (i - m + 1) = i + 1
          BY <1>1, <2>2, <2>9, <4>2
        <5>2. n[i] = b[i - m + 1]  BY <3>1, <3>2, <5>1
        <5>3. b[i - m + 1] = t[i + 1]  BY <2>10, <5>1
        <5> QED  BY <4>2, <5>2, <5>3
      <4> QED  BY <4>1, <4>2
    <3> QED  BY <3>1, <3>2, <3>3
  <2>12. DOMAIN n = 1 .. Len(t) - 1  BY <1>1, <2>2, <2>11
  <2>13. ASSUME NEW i \in DOMAIN n
         PROVE  \E j \in DOMAIN t : j = (IF i < m THEN i ELSE i + 1) /\ n[i] = t[j]
    BY <1>1, <2>2, <2>11, <2>12
  <2>14. Distinct(n)
    <3> SUFFICES ASSUME NEW i \in DOMAIN n, NEW j \in DOMAIN n, n[i].key = n[j].key  PROVE i = j
      BY DEF Distinct
    <3>1. PICK x \in DOMAIN t : x = (IF i < m THEN i ELSE i + 1) /\ n[i] = t[x]  BY <2>13
    <3>2. PICK y \in DOMAIN t : y = (IF j < m THEN j ELSE j + 1) /\ n[j] = t[y]  BY <2>13
    <3>3. x = y  BY <3>1, <3>2 DEF Distinct
    <3>4. i \in Nat /\ j \in Nat /\ m \in Nat  BY <1>1, <2>2, <2>12
    <3> QED  BY <3>1, <3>2, <3>3, <3>4
  <2>15. Keys(n) \subseteq Keys(t)  BY <2>13 DEF Keys
  <2>16. ASSUME NEW k \in Keys(t), k # "TraceFile"  PROVE k \in Keys(n)
    <3>1. PICK j \in DOMAIN t : t[j].key = k  BY DEF Keys
    <3>2. j \in 1 .. Len(t) /\ j # m  BY <1>1, <2>2, <2>16, <3>1
    <3>3. CASE j < m
      <4>1. j \in 1 .. Len(t) - 1 /\ n[j] = t[j]  BY <1>1, <2>2, <2>11, <3>2, <3>3
      <4> QED  BY <2>12, <3>1, <4>1 DEF Keys
    <3>4. CASE ~(j < m)
      <4>1. j - 1 \in 1 .. Len(t) - 1 /\ ~(j - 1 < m) /\ j - 1 + 1 = j  BY <1>1, <2>2, <3>2, <3>4
      <4>2. n[j - 1] = t[j]  BY <2>11, <4>1
      <4> QED  BY <2>12, <3>1, <4>1, <4>2 DEF Keys
    <3> QED  BY <3>3, <3>4
  <2> QED  BY <2>6, <2>11, <2>14, <2>15, <2>16 DEF Pairs
<1> QED  BY <1>2, <1>3

LEMMA KnownIs == \A k : Known(k) <=> k \in OptionKeys(host.pdo)
BY DEF Known, OptionKeys, Table

-----------------------------------------------------------------------------
(* Initially there is no connection.                                       *)
LEMMA NoConnIs == NoConn \in ConnType
<1>1. <<>> \in Strings /\ <<>> \in Asked /\ <<>> \in Pairs  BY DEF Strings, Asked, Pairs
<1>2. /\ "" \in Text /\ "null" \in Text /\ "none" \in Text /\ "unknown" \in Text
  BY DEF Text, Literals
<1>3. NoPhysical \in Links  BY <1>1, <1>2 DEF NoPhysical, Physical, Links
<1>4. /\ "unknown" \in Versions \cup {"unknown"} /\ "none" \in Versions \cup {"none"}
      /\ "none" \in {"none", "allocated", "connected", "freed", "leaked"} /\ 1 \in 1 .. 3
      /\ FALSE \in BOOLEAN /\ <<>> \in Asked \cup Pairs
  BY <1>1
<1> QED  BY <1>1, <1>2, <1>3, <1>4, Zenon DEF NoConn, ConnType, Null

LEMMA InitIs == Init => IInv
<1> SUFFICES ASSUME Init  PROVE IInv
  OBVIOUS
<1>1. host \in Hosts /\ phase = "idle" /\ conn = NoConn /\ pool = {} /\ caller = Restored /\ connects = 0
  BY DEF Init, Restored
<1>2. Types
  <2>1. 0 \in 0 .. MaxConnects  BY ConnectAssumption
  <2> QED  BY <1>1, <2>1, NoConnIs, RestoredIs DEF Types, Phases
<1>3. HandleFollows /\ Quiet  BY <1>1 DEF HandleFollows, Quiet, NoConn, Connecting
<1>4. Fresh /\ Optioned /\ Written /\ Identity  BY <1>1 DEF Fresh, Optioned, Written, Identity
<1>5. WholeSent  BY <1>1 DEF WholeSent, NoConn
<1>6. Searched  BY <1>1 DEF Searched, Connecting, FallsBack, NoConn
<1> QED  BY <1>2, <1>3, <1>4, <1>5, <1>6 DEF IInv

(* A failure that says nothing of the drivers.                             *)
LEMMA FailsNow ==
  ASSUME IInv, NEW e \in Text, Fails(conn, e),
         e # "no driver installed", e # "encryption needs a newer driver"
  PROVE  IInv'
BY FailsKeeps DEF IInv, Types, WholeSent

(* A script asks for a connection.                                         *)
LEMMA BeginKeeps ==
  ASSUME IInv, NEW r \in Requests, Begin(r)
  PROVE  IInv'
<1>1. r.server \in STRING /\ r.uid \in STRING /\ r.pwd \in STRING /\ r.options \in Asked
  BY ConnectAssumption DEF Asked
<1>2. r.server \in Text /\ r.uid \in Text /\ r.pwd \in Text  BY <1>1 DEF Text
<1>3. PICK c1 : c1 = [NoConn EXCEPT !.server = r.server]  OBVIOUS
<1>4. PICK c2 : c2 = [c1 EXCEPT !.todo = r.options]  OBVIOUS
<1>5. PICK c3 : c3 = [c2 EXCEPT !.uid = r.uid]  OBVIOUS
<1>6. PICK d : d = [c3 EXCEPT !.pwd = r.pwd]  OBVIOUS
<1>7. PICK n \in ConnType : n = NoConn  BY NoConnIs
<1>8. /\ n.string = <<>> /\ n.token = "" /\ n.driver = "unknown" /\ n.handle = "none"
      /\ n.tried = 1 /\ n.table = <<>> /\ n.sent = <<>> /\ n.error = "none"
  BY <1>7 DEF NoConn
<1>9. /\ c1 \in ConnType
      /\ c1.string = n.string /\ c1.token = n.token /\ c1.driver = n.driver /\ c1.handle = n.handle
      /\ c1.tried = n.tried /\ c1.table = n.table /\ c1.sent = n.sent /\ c1.error = n.error
  BY <1>2, <1>3, <1>7 DEF ConnType
<1>10. /\ c2 \in ConnType /\ c2.todo = r.options
       /\ c2.string = n.string /\ c2.token = n.token /\ c2.driver = n.driver /\ c2.handle = n.handle
       /\ c2.tried = n.tried /\ c2.table = n.table /\ c2.sent = n.sent /\ c2.error = n.error
  BY <1>1, <1>4, <1>9 DEF ConnType
<1>11. /\ c3 \in ConnType /\ c3.todo = r.options
       /\ c3.string = n.string /\ c3.token = n.token /\ c3.driver = n.driver /\ c3.handle = n.handle
       /\ c3.tried = n.tried /\ c3.table = n.table /\ c3.sent = n.sent /\ c3.error = n.error
  BY <1>2, <1>5, <1>10 DEF ConnType
<1>12. /\ d \in ConnType /\ d.todo = r.options
       /\ d.string = n.string /\ d.token = n.token /\ d.driver = n.driver /\ d.handle = n.handle
       /\ d.tried = n.tried /\ d.table = n.table /\ d.sent = n.sent /\ d.error = n.error
  BY <1>2, <1>6, <1>11 DEF ConnType
<1>13. /\ phase' = "checking" /\ conn' = d /\ host' = host /\ pool' = pool
       /\ connects' = connects + 1 /\ connects < MaxConnects
       /\ caller' = IF host.pdo THEN [caller EXCEPT !.error_mode = "exception"] ELSE caller
  <2>1. d = [NoConn EXCEPT !.server = r.server, !.todo = r.options, !.uid = r.uid, !.pwd = r.pwd]
    BY <1>3, <1>4, <1>5, <1>6
  <2> QED  BY <2>1 DEF Begin
<1>14. Types'
  <2>1. connects' \in 0 .. MaxConnects
    <3>1. connects \in Nat /\ MaxConnects \in Nat  BY ConnectAssumption DEF IInv, Types
    <3> QED  BY <1>13, <3>1
  <2>2. caller' \in [error_mode : {"silent", "exception"}, server_refs : 0 .. 1]
    <3>1. caller \in [error_mode : {"silent", "exception"}, server_refs : 0 .. 1]  BY DEF IInv, Types
    <3> QED  BY <1>13, <3>1
  <2>3. "checking" \in Phases  BY DEF Phases
  <2> QED  BY <1>12, <1>13, <2>1, <2>2, <2>3 DEF IInv, Types
<1>15. Quiet' /\ Written'  BY <1>13 DEF Quiet, Connecting, Written
<1>16. HandleFollows' /\ Fresh' /\ WholeSent'
  BY <1>8, <1>12, <1>13 DEF HandleFollows, Fresh, WholeSent
<1>17. Optioned'
  <2>1. Distinct(<<>>) /\ Keys(<<>>) = {}  BY DEF Distinct, Keys
  <2>2. AllKnown(<<>>, host.pdo)  BY <2>1 DEF AllKnown
  <2>3. d.tried = 1 /\ d.table = <<>> /\ d.todo \in Asked  BY <1>1, <1>8, <1>12
  <2> QED  BY <1>13, <2>1, <2>2, <2>3 DEF Optioned
<1>18. Identity'  BY <1>13 DEF IInv, Identity
<1>19. Searched'  BY <1>8, <1>12, <1>13 DEF Searched, FallsBack
<1> QED  BY <1>14, <1>15, <1>16, <1>17, <1>18, <1>19 DEF IInv

(* What every step on the way to a connection string keeps.                *)
LEMMA Making ==
  ASSUME IInv, NEW d \in ConnType, NEW to \in {"checking", "building", "setting", "choosing"},
         conn' = d, phase' = to, host' = host, pool' = pool, connects' = connects,
         caller' \in [error_mode : {"silent", "exception"}, server_refs : 0 .. 1],
         d.sent = conn.sent
  PROVE  Types' /\ Quiet' /\ WholeSent'
<1>1. Types'  BY DEF IInv, Types, Phases
<1>2. Quiet'  BY DEF Quiet, Connecting
<1>3. WholeSent'  BY DEF IInv, WholeSent
<1> QED  BY <1>1, <1>2, <1>3

(* One option is checked, and put into the table.                          *)
Unmoved(c, d) ==
  /\ d.string = c.string /\ d.token = c.token /\ d.driver = c.driver /\ d.handle = c.handle
  /\ d.tried = c.tried /\ d.sent = c.sent /\ d.error = c.error

LEMMA CheckedKeeps ==
  ASSUME IInv, phase = "checking", NEW d \in ConnType, Goes(d, "checking"), Unmoved(conn, d),
         d.todo \in Asked, Distinct(d.table), AllKnown(d.table, host.pdo)
  PROVE  IInv'
<1>1. conn' = d /\ phase' = "checking" /\ host' = host /\ pool' = pool /\ caller' = caller
      /\ connects' = connects
  BY DEF Goes
<1>2. d.sent = conn.sent /\ d.error = conn.error  BY DEF Unmoved
<1>3. caller' \in [error_mode : {"silent", "exception"}, server_refs : 0 .. 1]
  BY <1>1 DEF IInv, Types
<1>4. Types' /\ Quiet' /\ WholeSent'  BY <1>1, <1>2, <1>3, Making
<1>5. HandleFollows' /\ Fresh'  BY <1>1 DEF IInv, HandleFollows, Fresh, Unmoved
<1>6. Optioned'  BY <1>1 DEF IInv, Optioned, Unmoved
<1>7. Written'  BY <1>1 DEF Written
<1>8. Identity'  BY <1>1 DEF IInv, Identity
<1>9. Searched'  BY <1>1, <1>2 DEF IInv, Searched, Connecting, FallsBack
<1> QED  BY <1>4, <1>5, <1>6, <1>7, <1>8, <1>9 DEF IInv

LEMMA CheckOptionKeeps ==
  ASSUME IInv, CheckOption
  PROVE  IInv'
<1>1. phase = "checking" /\ conn.todo # <<>> /\ conn.todo \in Asked /\ conn \in ConnType
  BY DEF CheckOption, IInv, Optioned, Types
<1>2. PICK o : o = Head(conn.todo)  OBVIOUS
<1>3. PICK rest : rest = Tail(conn.todo)  OBVIOUS
<1>4. o \in [name : STRING, value : STRING] /\ rest \in Asked
  <2>1. conn.todo \in Seq([name : STRING, value : STRING])  BY <1>1 DEF Asked
  <2> QED  BY <1>1, <1>2, <1>3, <2>1, HeadTailProperties DEF Asked
<1>5. o.value \in Text  BY <1>4 DEF Text
<1>6. CASE Fails(conn, "option")
  <2>1. "option" \in Text  BY DEF Text, Literals
  <2> QED  BY <1>6, <2>1, FailsNow
<1>7. CASE Goes(IF host.pdo THEN [conn EXCEPT !.todo = rest, !.dsnpwd = o.value]
                ELSE [conn EXCEPT !.todo = rest, !.pwd = o.value], "checking")
  <2>1. PICK c : c = [conn EXCEPT !.todo = rest]  OBVIOUS
  <2>2. c \in ConnType /\ Unmoved(conn, c) /\ c.todo = rest /\ c.table = conn.table
    BY <1>1, <1>4, <2>1 DEF ConnType, Unmoved
  <2>3. PICK d : d = IF host.pdo THEN [c EXCEPT !.dsnpwd = o.value] ELSE [c EXCEPT !.pwd = o.value]
    OBVIOUS
  <2>4. d \in ConnType /\ Unmoved(c, d) /\ d.todo = rest /\ d.table = c.table
    <3>1. CASE host.pdo
      <4>1. d = [c EXCEPT !.dsnpwd = o.value]  BY <2>3, <3>1
      <4> QED  BY <1>5, <2>2, <4>1 DEF ConnType, Unmoved
    <3>2. CASE ~host.pdo
      <4>1. d = [c EXCEPT !.pwd = o.value]  BY <2>3, <3>2
      <4> QED  BY <1>5, <2>2, <4>1 DEF ConnType, Unmoved
    <3> QED  BY <3>1, <3>2
  <2>5. Unmoved(conn, d)  BY <2>2, <2>4 DEF Unmoved
  <2>6. Goes(d, "checking")
    <3>1. d = IF host.pdo THEN [conn EXCEPT !.todo = rest, !.dsnpwd = o.value]
              ELSE [conn EXCEPT !.todo = rest, !.pwd = o.value]
      BY <2>1, <2>3
    <3> QED  BY <1>7, <3>1
  <2>7. Distinct(d.table) /\ AllKnown(d.table, host.pdo)  BY <1>1, <2>2, <2>4 DEF IInv, Optioned
  <2> QED  BY <1>1, <1>4, <2>4, <2>5, <2>6, <2>7, CheckedKeeps
<1>8. CASE Acceptable(o) /\ Goes([conn EXCEPT !.todo = rest,
                 !.table = Put(@, [key |-> Key(o.name), value |-> o.value])], "checking")
  <2>1. PICK k \in Text : k = Key(o.name)
    <3>1. o.name \in STRING  BY <1>4
    <3> QED  BY <3>1 DEF Key, Text, Literals
  <2>2. PICK p \in Pair : p = [key |-> Key(o.name), value |-> o.value]
    <3>1. [key |-> k, value |-> o.value] \in Pair  BY <1>5 DEF Pair
    <3> QED  BY <2>1, <3>1
  <2>3. p.key = k  BY <2>1, <2>2
  <2>4. conn.table \in Pairs /\ Distinct(conn.table) /\ AllKnown(conn.table, host.pdo)
    BY <1>1 DEF IInv, Optioned, ConnType
  <2>5. PICK t : t = Put(conn.table, p)  OBVIOUS
  <2>6. t \in Pairs /\ Distinct(t) /\ Keys(t) \subseteq Keys(conn.table) \cup {p.key}
    BY <2>4, <2>5, PutIs
  <2>7. k \in OptionKeys(host.pdo)  BY <1>8, <2>1, KnownIs DEF Acceptable
  <2>8. AllKnown(t, host.pdo)  BY <2>3, <2>4, <2>6, <2>7 DEF AllKnown
  <2>9. PICK c : c = [conn EXCEPT !.todo = rest]  OBVIOUS
  <2>10. c \in ConnType /\ Unmoved(conn, c) /\ c.todo = rest /\ c.table = conn.table
    BY <1>1, <1>4, <2>9 DEF ConnType, Unmoved
  <2>11. PICK d : d = [c EXCEPT !.table = t]  OBVIOUS
  <2>12. d \in ConnType /\ Unmoved(c, d) /\ d.todo = rest /\ d.table = t
    BY <2>6, <2>10, <2>11 DEF ConnType, Unmoved
  <2>13. Unmoved(conn, d)  BY <2>10, <2>12 DEF Unmoved
  <2>14. Goes(d, "checking")
    <3>1. d = [conn EXCEPT !.todo = rest, !.table = t]  BY <2>9, <2>11
    <3> QED  BY <1>8, <2>2, <2>5, <3>1
  <2> QED  BY <1>1, <1>4, <2>6, <2>8, <2>12, <2>13, <2>14, CheckedKeeps
<1> QED  BY <1>2, <1>3, <1>6, <1>7, <1>8 DEF CheckOption

(* The connection handle is allocated.                                     *)
LEMMA AllocateKeeps ==
  ASSUME IInv, Allocate
  PROVE  IInv'
<1>1. phase = "checking" /\ conn \in ConnType  BY DEF Allocate, IInv, Types
<1>2. CASE Fails(conn, "server")
  <2>1. "server" \in Text  BY DEF Text, Literals
  <2> QED  BY <1>2, <2>1, FailsNow
<1>3. CASE /\ conn' = [conn EXCEPT !.pwd = Password, !.pooled = UsesPool, !.handle = "allocated"]
           /\ caller' = [caller EXCEPT !.server_refs = IF host.pdo THEN 1 ELSE 0]
           /\ phase' = "building"
           /\ UNCHANGED <<host, pool, connects>>
  <2>1. PICK w \in Text : w = Password  BY <1>1 DEF Password, ConnType
  <2>2. PICK u \in BOOLEAN : u = UsesPool
    <3>1. host.odbcinst \in BOOLEAN  BY ConnectAssumption DEF IInv, Types
    <3> QED  BY <3>1 DEF UsesPool, True
  <2>3. PICK a : a = [conn EXCEPT !.pwd = w]  OBVIOUS
  <2>4. PICK b : b = [a EXCEPT !.pooled = u]  OBVIOUS
  <2>5. PICK d : d = [b EXCEPT !.handle = "allocated"]  OBVIOUS
  <2>6. a \in ConnType /\ Unmoved(conn, a) /\ a.table = conn.table
    BY <1>1, <2>3 DEF ConnType, Unmoved
  <2>7. b \in ConnType /\ Unmoved(conn, b) /\ b.table = conn.table
    BY <2>4, <2>6 DEF ConnType, Unmoved
  <2>8. /\ d \in ConnType /\ d.table = conn.table /\ d.string = conn.string /\ d.token = conn.token
        /\ d.driver = conn.driver /\ d.tried = conn.tried /\ d.sent = conn.sent
        /\ d.error = conn.error /\ d.handle = "allocated"
    BY <2>5, <2>7 DEF ConnType, Unmoved
  <2>9. conn' = d  BY <1>3, <2>1, <2>2, <2>3, <2>4, <2>5
  <2>10. caller' \in [error_mode : {"silent", "exception"}, server_refs : 0 .. 1]
    <3>1. caller \in [error_mode : {"silent", "exception"}, server_refs : 0 .. 1]  BY DEF IInv, Types
    <3> QED  BY <1>3, <3>1
  <2>11. Types' /\ Quiet' /\ WholeSent'  BY <1>3, <2>8, <2>9, <2>10, Making
  <2>12. HandleFollows' /\ Fresh'  BY <1>1, <1>3, <2>8, <2>9 DEF IInv, HandleFollows, Fresh
  <2>13. Optioned'  BY <1>1, <1>3, <2>8, <2>9 DEF IInv, Optioned
  <2>14. Written'  BY <1>3 DEF Written
  <2>15. Identity'  BY <1>3 DEF IInv, Identity
  <2>16. Searched'  BY <1>1, <1>3, <2>8, <2>9 DEF IInv, Searched, Connecting, FallsBack
  <2> QED  BY <2>11, <2>12, <2>13, <2>14, <2>15, <2>16 DEF IInv
<1> QED  BY <1>2, <1>3 DEF Allocate

-----------------------------------------------------------------------------
(* The string is begun: it names the server, once, and neither a driver    *)
(* nor MARS nor a token.                                                   *)
Opened(c, d) ==
  /\ d \in ConnType /\ Alike(c, d) /\ d.driver = c.driver /\ d.ce = c.ce /\ d.token = c.token
  /\ Single(At(d.string, "Server")) /\ At(d.string, "Driver") = {} /\ At(d.string, "MARS") = {}
  /\ Marks(d.string) = {}

Other(k) == k \notin {"Server", "Driver", "MARS", "APP fingerprint"}

LEMMA OpenedWith ==
  ASSUME NEW c \in ConnType, NEW d, Opened(c, d), NEW k \in Text, NEW v \in Text, Other(k)
  PROVE  \E e : e = With(d, k, v) /\ Opened(c, e)
<1>1. d \in ConnType  BY DEF Opened
<1>2. PICK e : Lengthened(d, e, k, v)  BY <1>1, WithIs
<1>3. e = With(d, k, v) /\ e \in ConnType /\ Alike(d, e) /\ e.driver = d.driver /\ e.ce = d.ce
      /\ e.token = d.token /\ Longer(d.string, e.string, k, v)
  BY <1>2 DEF Lengthened
<1>4. Alike(c, e)  BY <1>3 DEF Opened, Alike
<1>5. /\ At(e.string, "Server") = At(d.string, "Server") /\ At(e.string, "Driver") = At(d.string, "Driver")
      /\ At(e.string, "MARS") = At(d.string, "MARS") /\ Marks(e.string) = Marks(d.string)
  BY <1>3 DEF Longer, Other
<1> QED  BY <1>3, <1>4, <1>5 DEF Opened

LEMMA CredentialsIs ==
  ASSUME conn \in ConnType, conn.string = <<>>
  PROVE  \E d : d = Credentials /\ Opened(conn, d)
<1>1. conn.server \in Text /\ conn.uid \in Text /\ conn.pwd \in Text  BY DEF ConnType
<1>2. "Server" \in Text /\ "UID" \in Text /\ "PWD" \in Text /\ "Trusted_Connection" \in Text /\ "Yes" \in Text
  BY DEF Text, Literals
<1>3. PICK server : server = With(conn, "Server", conn.server) /\ Opened(conn, server)
  <2>1. PICK s : Lengthened(conn, s, "Server", conn.server)  BY <1>1, <1>2, WithIs
  <2>2. s = With(conn, "Server", conn.server) /\ s \in ConnType /\ Alike(conn, s) /\ s.driver = conn.driver
        /\ s.ce = conn.ce /\ s.token = conn.token /\ Longer(conn.string, s.string, "Server", conn.server)
    BY <2>1 DEF Lengthened
  <2>3. (\A j : At(conn.string, j) = {}) /\ Marks(conn.string) = {}
    <3>1. DOMAIN conn.string = {}  OBVIOUS
    <3>2. \A j : At(conn.string, j) = {}  BY <3>1 DEF At
    <3> QED  BY <3>2 DEF Marks
  <2>4. At(s.string, "Server") = {Len(conn.string) + 1} /\ At(s.string, "Driver") = {}
        /\ At(s.string, "MARS") = {} /\ Marks(s.string) = {}
    <3>1. \A j : At(s.string, j) = IF j = "Server" THEN {Len(conn.string) + 1} ELSE {}
      BY <2>2, <2>3 DEF Longer
    <3>2. Marks(s.string) = Marks(conn.string)  BY <2>2 DEF Longer
    <3> QED  BY <2>3, <3>1, <3>2
  <2> QED  BY <2>2, <2>4 DEF Opened, Single
<1>d. PICK U \in Text, P \in Text, T \in Text, Y \in Text :
        U = "UID" /\ P = "PWD" /\ T = "Trusted_Connection" /\ Y = "Yes"
  BY <1>2
<1>e. Other(U) /\ Other(P) /\ Other(T)  BY <1>d DEF Other
<1>4. PICK u : u = With(server, U, conn.uid) /\ Opened(conn, u)  BY <1>1, <1>3, <1>e, OpenedWith
<1>5. PICK sp : sp = With(server, P, conn.pwd) /\ Opened(conn, sp)  BY <1>1, <1>3, <1>e, OpenedWith
<1>6. PICK up : up = With(u, P, conn.pwd) /\ Opened(conn, up)  BY <1>1, <1>4, <1>e, OpenedWith
<1>7. PICK t : t = With(server, T, Y) /\ Opened(conn, t)  BY <1>3, <1>e, OpenedWith
<1>8. Credentials \in {server, u, sp, up, t}
  BY <1>d, <1>3, <1>4, <1>5, <1>6, <1>7, Zenon DEF Credentials
<1> QED  BY <1>3, <1>4, <1>5, <1>6, <1>7, <1>8

LEMMA StartStringKeeps ==
  ASSUME IInv, StartString
  PROVE  IInv'
<1>1. phase = "building" /\ conn \in ConnType /\ conn.string = <<>> /\ conn.token = "" /\ conn.driver = "unknown"
      /\ conn.handle = "allocated" /\ conn.error = "none" /\ conn.tried = 1
      /\ conn.table \in Pairs /\ Distinct(conn.table) /\ AllKnown(conn.table, host.pdo)
  BY DEF StartString, IInv, Types, Fresh, HandleFollows, Searched, Connecting, Optioned, ConnType
<1>2. caller \in [error_mode : {"silent", "exception"}, server_refs : 0 .. 1]  BY DEF IInv, Types
<1>3. PICK c : c = Credentials /\ Opened(conn, c)  BY <1>1, CredentialsIs
<1>4. CASE \E e \in {"token", "braces"} : Fails(conn, e)
  <2>1. PICK e \in {"token", "braces"} : Fails(conn, e)  BY <1>4
  <2>2. e \in Text /\ e # "no driver installed" /\ e # "encryption needs a newer driver"
    BY DEF Text, Literals
  <2> QED  BY <2>1, <2>2, FailsNow
<1>5. CASE conn.table = <<>> /\ Goes(With(Credentials, "MARS", "yes"), "choosing")
  <2>1. "MARS" \in Text /\ "yes" \in Text  BY DEF Text, Literals
  <2>2. c \in ConnType  BY <1>3 DEF Opened
  <2>3. PICK d : Lengthened(c, d, "MARS", "yes")  BY <2>1, <2>2, WithIs
  <2>4. d = With(c, "MARS", "yes") /\ d \in ConnType /\ Alike(c, d) /\ d.driver = c.driver
        /\ d.token = c.token /\ Longer(c.string, d.string, "MARS", "yes")
    BY <2>3 DEF Lengthened
  <2>5. /\ conn' = d /\ phase' = "choosing" /\ host' = host /\ pool' = pool /\ caller' = caller
        /\ connects' = connects
    BY <1>3, <1>5, <2>4 DEF Goes
  <2>6. d.sent = conn.sent /\ d.error = "none" /\ d.handle = "allocated" /\ d.tried = 1
        /\ d.driver = "unknown" /\ d.token = ""
    BY <1>1, <1>3, <2>4 DEF Opened, Alike
  <2>7. Types' /\ Quiet' /\ WholeSent'  BY <1>2, <2>4, <2>5, <2>6, Making
  <2>8. /\ Single(At(d.string, "Server")) /\ At(d.string, "Driver") = {} /\ Single(At(d.string, "MARS"))
        /\ Marks(d.string) = {}
    BY <1>3, <2>4 DEF Opened, Longer, Single
  <2>9. HandleFollows' /\ Fresh' /\ Optioned'  BY <2>5, <2>6 DEF HandleFollows, Fresh, Optioned
  <2>10. Written'  BY <2>5, <2>6, <2>8 DEF Written
  <2>11. Identity'
    <3>1. Marks(d.string) = Mark(d.token)  BY <2>6, <2>8 DEF Mark
    <3> QED  BY <2>5, <3>1 DEF IInv, Identity
  <2>12. Searched'
    <3>t. PICK tried : tried = d.tried /\ tried = 1  BY <1>1, <1>3, <2>4 DEF Opened, Alike
    <3>1. \A i \in 1 .. 3 : ~(i < d.tried)  BY <3>t
    <3>2. d.tried # 3  BY <3>t
    <3>3. conn'.tried = d.tried /\ conn'.error = "none"  BY <2>5, <2>6
    <3> QED  BY <2>5, <3>1, <3>2, <3>3 DEF IInv, Searched, Connecting, FallsBack
  <2> QED  BY <2>7, <2>9, <2>10, <2>11, <2>12 DEF IInv
<1>6. CASE Goes([Credentials EXCEPT !.todo = OptionsLeft(conn.table)], "setting")
  <2>1. PICK t : t = OptionsLeft(conn.table)  OBVIOUS
  <2>2. /\ t \in Pairs /\ Distinct(t) /\ Keys(t) \subseteq Keys(conn.table)
        /\ Mars \in Keys(conn.table) => Mars \in Keys(t)
    BY <1>1, <2>1, LeftIs DEF Mars
  <2>3. PICK d : d = [c EXCEPT !.todo = t]  OBVIOUS
  <2>4. d \in ConnType /\ d.todo = t /\ d.string = c.string /\ d.driver = c.driver /\ d.token = c.token
        /\ d.table = c.table /\ d.handle = c.handle /\ d.tried = c.tried /\ d.sent = c.sent
        /\ d.error = c.error
    BY <1>3, <2>2, <2>3 DEF ConnType, Opened
  <2>5. /\ conn' = d /\ phase' = "setting" /\ host' = host /\ pool' = pool /\ caller' = caller
        /\ connects' = connects
    BY <1>3, <1>6, <2>1, <2>3 DEF Goes
  <2>6. d.sent = conn.sent /\ d.error = "none" /\ d.handle = "allocated" /\ d.tried = 1
        /\ d.driver = "unknown" /\ d.table = conn.table
    BY <1>1, <1>3, <2>4 DEF Opened, Alike
  <2>7. Types' /\ Quiet' /\ WholeSent'  BY <1>2, <2>4, <2>5, <2>6, Making
  <2>8. /\ Single(At(d.string, "Server")) /\ At(d.string, "Driver") = {} /\ At(d.string, "MARS") = {}
        /\ Marks(d.string) = {}
    BY <1>3, <2>4 DEF Opened
  <2>9. HandleFollows' /\ Fresh'  BY <2>5, <2>6 DEF HandleFollows, Fresh
  <2>10. AllKnown(t, host.pdo)  BY <1>1, <2>2 DEF AllKnown
  <2>11. Optioned'  BY <1>1, <2>2, <2>4, <2>5, <2>6, <2>10 DEF Optioned
  <2>12. Written'
    <3>1. ~(Has(d.table, Mars) /\ Mars \notin Keys(d.todo))  BY <2>2, <2>4, <2>6 DEF Has
    <3> QED  BY <2>5, <2>6, <2>8, <3>1 DEF Written
  <2>13. Identity'  BY <2>5, <2>8 DEF IInv, Identity
  <2>14. Searched'  BY <2>5, <2>6 DEF IInv, Searched, Connecting, FallsBack
  <2> QED  BY <2>7, <2>9, <2>11, <2>12, <2>13, <2>14 DEF IInv
<1> QED  BY <1>4, <1>5, <1>6, Zenon DEF StartString

-----------------------------------------------------------------------------
(* One option after the other is written into the string.                  *)
LEMMA SetOptionKeeps ==
  ASSUME IInv, SetOption
  PROVE  IInv'
<1>1. /\ phase = "setting" /\ conn.todo # <<>> /\ conn \in ConnType /\ conn.handle = "allocated"
      /\ conn.error = "none" /\ conn.tried = 1
      /\ Distinct(conn.table) /\ AllKnown(conn.table, host.pdo)
      /\ conn.todo \in Pairs /\ Distinct(conn.todo) /\ AllKnown(conn.todo, host.pdo)
      /\ Keys(conn.todo) \subseteq Keys(conn.table)
  BY DEF SetOption, IInv, Types, HandleFollows, Searched, Connecting, Optioned
<1>2. /\ Single(At(conn.string, "Server"))
      /\ conn.driver = "unknown" => At(conn.string, "Driver") = {}
      /\ conn.driver # "unknown" => Single(At(conn.string, "Driver")) /\ "Driver" \notin Keys(conn.todo)
      /\ Has(conn.table, Mars) /\ Mars \notin Keys(conn.todo) => Single(At(conn.string, "MARS"))
      /\ ~(Has(conn.table, Mars) /\ Mars \notin Keys(conn.todo)) => At(conn.string, "MARS") = {}
      /\ Marks(conn.string) = {}
  BY <1>1 DEF IInv, Written, Identity
<1>3. PICK o \in Pair : o = Head(conn.todo)  BY <1>1, TailIs
<1>4. PICK rest \in Pairs : rest = Tail(conn.todo)  BY <1>1, TailIs
<1>5. /\ Distinct(rest) /\ Keys(conn.todo) = Keys(rest) \cup {o.key} /\ o.key \notin Keys(rest)
  BY <1>1, <1>3, <1>4, TailIs
<1>6. PICK b : b = [conn EXCEPT !.todo = rest]  OBVIOUS
<1>7. b \in ConnType /\ b.todo = rest /\ b.string = conn.string /\ b.driver = conn.driver
      /\ b.table = conn.table /\ b.handle = conn.handle /\ b.tried = conn.tried /\ b.sent = conn.sent
      /\ b.error = conn.error
  BY <1>1, <1>6 DEF ConnType
<1>8. [conn EXCEPT !.todo = Tail(@)] = b  BY <1>1, <1>4, <1>6
<1>9. CASE \E c \in func(b, o.key, o.value) : Goes(c, "setting")
  <2>1. PICK d \in func(b, o.key, o.value) : Goes(d, "setting")  BY <1>9
  <2>2. PICK k \in Text : k = o.key  BY DEF Pair
  <2>3. PICK v \in Text : v = o.value  BY DEF Pair
  <2>4. Known(k)  BY <1>1, <1>5, <2>2, KnownIs DEF AllKnown
  <2>5. d \in func(b, k, v)  BY <2>1, <2>2, <2>3
  <2>6. /\ d \in ConnType /\ Alike(b, d)
        /\ Lacks(b, d, "Server") /\ Marks(d.string) = Marks(b.string)
        /\ k # "Driver" => d.driver = b.driver /\ Lacks(b, d, "Driver")
        /\ k = "Driver" => d.driver # "unknown" /\ Adds(b, d, "Driver")
        /\ k # Mars => Lacks(b, d, "MARS")
        /\ k = Mars => Adds(b, d, "MARS")
    BY <1>7, <2>4, <2>5, FuncIs
  <2>7. /\ conn' = d /\ phase' = "setting" /\ host' = host /\ pool' = pool /\ caller' = caller
        /\ connects' = connects
    BY <2>1 DEF Goes
  <2>8. d.todo = rest /\ d.table = conn.table /\ d.handle = "allocated" /\ d.sent = conn.sent
        /\ d.error = "none" /\ d.tried = conn.tried
    BY <1>1, <1>7, <2>6 DEF Alike
  <2>9. caller \in [error_mode : {"silent", "exception"}, server_refs : 0 .. 1]  BY DEF IInv, Types
  <2>10. Types' /\ Quiet' /\ WholeSent'  BY <2>6, <2>7, <2>8, <2>9, Making
  <2>11. HandleFollows' /\ Fresh'  BY <2>7, <2>8 DEF HandleFollows, Fresh
  <2>12. Optioned'
    <3>1. AllKnown(rest, host.pdo)  BY <1>1, <1>5 DEF AllKnown
    <3>2. d.tried = 1  BY <1>1, <2>8
    <3> QED  BY <1>1, <1>5, <2>7, <2>8, <3>1, <3>2 DEF Optioned
  <2>13. Single(At(d.string, "Server"))  BY <1>2, <1>7, <2>6 DEF Lacks
  <2>14. /\ d.driver = "unknown" => At(d.string, "Driver") = {}
         /\ d.driver # "unknown" => Single(At(d.string, "Driver")) /\ "Driver" \notin Keys(rest)
    <3>1. CASE k = "Driver"
      <4>1. "Driver" \in Keys(conn.todo) /\ "Driver" \notin Keys(rest)  BY <1>5, <2>2, <3>1
      <4>2. At(conn.string, "Driver") = {}  BY <1>2, <4>1
      <4>3. At(d.string, "Driver") = {Len(conn.string) + 1}  BY <1>7, <2>6, <3>1, <4>2 DEF Adds
      <4> QED  BY <2>6, <3>1, <4>1, <4>3 DEF Single
    <3>2. CASE k # "Driver"
      <4>1. d.driver = conn.driver /\ At(d.string, "Driver") = At(conn.string, "Driver")
        BY <1>7, <2>6, <3>2 DEF Lacks
      <4>2. "Driver" \in Keys(rest) => "Driver" \in Keys(conn.todo)  BY <1>5
      <4> QED  BY <1>2, <4>1, <4>2
    <3> QED  BY <3>1, <3>2
  <2>15. IF Has(conn.table, Mars) /\ Mars \notin Keys(rest)
         THEN Single(At(d.string, "MARS")) ELSE At(d.string, "MARS") = {}
    <3>1. CASE k = Mars
      <4>1. Mars \in Keys(conn.todo) /\ Mars \notin Keys(rest)  BY <1>5, <2>2, <3>1
      <4>2. At(conn.string, "MARS") = {}  BY <1>2, <4>1
      <4>3. At(d.string, "MARS") = {Len(conn.string) + 1}  BY <1>7, <2>6, <3>1, <4>2 DEF Adds
      <4>4. Has(conn.table, Mars)  BY <1>1, <4>1 DEF Has
      <4> QED  BY <4>1, <4>3, <4>4 DEF Single
    <3>2. CASE k # Mars
      <4>1. At(d.string, "MARS") = At(conn.string, "MARS")  BY <1>7, <2>6, <3>2 DEF Lacks
      <4>2. Mars \in Keys(rest) <=> Mars \in Keys(conn.todo)  BY <1>5, <2>2, <3>2
      <4> QED  BY <1>2, <4>1, <4>2
    <3> QED  BY <3>1, <3>2
  <2>16. Written'  BY <2>7, <2>8, <2>13, <2>14, <2>15 DEF Written
  <2>17. Identity'
    <3>1. Marks(d.string) = {}  BY <1>2, <1>7, <2>6
    <3> QED  BY <2>7, <3>1 DEF IInv, Identity
  <2>18. Searched'  BY <2>7, <2>8 DEF IInv, Searched, Connecting, FallsBack
  <2> QED  BY <2>10, <2>11, <2>12, <2>16, <2>17, <2>18 DEF IInv
<1>10. CASE Fails(conn, "value")
  <2>1. "value" \in Text  BY DEF Text, Literals
  <2> QED  BY <1>10, <2>1, FailsNow
<1> QED  BY <1>3, <1>8, <1>9, <1>10 DEF SetOption

(* The string is finished: with MARS when no option wrote it, and with the *)
(* mark of the token.                                                      *)
LEMMA FinishStringKeeps ==
  ASSUME IInv, FinishString
  PROVE  IInv'
<1>1. /\ phase = "setting" /\ conn.todo = <<>> /\ conn \in ConnType /\ conn.handle = "allocated"
      /\ conn.error = "none" /\ conn.tried = 1
  BY DEF FinishString, IInv, Types, HandleFollows, Searched, Connecting, Optioned
<1>2. /\ Single(At(conn.string, "Server"))
      /\ conn.driver = "unknown" => At(conn.string, "Driver") = {}
      /\ conn.driver # "unknown" => Single(At(conn.string, "Driver"))
      /\ Has(conn.table, Mars) => Single(At(conn.string, "MARS"))
      /\ ~Has(conn.table, Mars) => At(conn.string, "MARS") = {}
      /\ Marks(conn.string) = {}
  <2>1. Keys(conn.todo) = {}  BY <1>1 DEF Keys
  <2> QED  BY <1>1, <2>1 DEF IInv, Written, Identity
<1>3. PICK c : /\ c = IF Uses("MultipleActiveResultSets") THEN conn ELSE With(conn, "MARS", "yes")
               /\ c \in ConnType /\ Alike(conn, c) /\ c.driver = conn.driver /\ c.token = conn.token
               /\ Lacks(conn, c, "Server") /\ Lacks(conn, c, "Driver") /\ Single(At(c.string, "MARS"))
               /\ Marks(c.string) = {}
  <2>1. CASE Has(conn.table, Mars)
    <3>1. Alike(conn, conn)  BY DEF Alike
    <3> QED  BY <1>1, <1>2, <2>1, <3>1 DEF Uses, Mars, Lacks
  <2>2. CASE ~Has(conn.table, Mars)
    <3>1. "MARS" \in Text /\ "yes" \in Text  BY DEF Text, Literals
    <3>2. PICK c : Lengthened(conn, c, "MARS", "yes")  BY <1>1, <3>1, WithIs
    <3>3. c = With(conn, "MARS", "yes") /\ c \in ConnType /\ Alike(conn, c) /\ c.driver = conn.driver
          /\ c.token = conn.token /\ Longer(conn.string, c.string, "MARS", "yes")
      BY <3>2 DEF Lengthened
    <3>4. /\ Lacks(conn, c, "Server") /\ Lacks(conn, c, "Driver") /\ Adds(conn, c, "MARS")
          /\ Marks(c.string) = Marks(conn.string)
      BY <3>3 DEF Longer, Lacks, Adds
    <3>5. At(c.string, "MARS") = {Len(conn.string) + 1}  BY <1>2, <2>2, <3>4 DEF Adds
    <3> QED  BY <1>2, <2>2, <3>3, <3>4, <3>5 DEF Uses, Mars, Single
  <2> QED  BY <2>1, <2>2
<1>4. PICK d : /\ d = Marked(c) /\ d \in ConnType /\ Alike(c, d) /\ d.driver = c.driver /\ d.token = c.token
               /\ Lacks(c, d, "Server") /\ Lacks(c, d, "Driver") /\ Lacks(c, d, "MARS")
               /\ Marks(d.string) = Mark(d.token)
  <2>1. CASE c.token = ""
    <3>1. Alike(c, c)  BY DEF Alike
    <3>2. Marked(c) = c  BY <2>1 DEF Marked
    <3>3. Marks(c.string) = Mark(c.token)  BY <1>3, <2>1 DEF Mark
    <3> QED  BY <1>3, <3>1, <3>2, <3>3 DEF Lacks
  <2>2. CASE c.token # ""
    <3>1. "APP fingerprint" \in Text /\ c.token \in Text  BY <1>3 DEF Text, Literals, ConnType
    <3>2. PICK d : Lengthened(c, d, "APP fingerprint", c.token)  BY <1>3, <3>1, WithIs
    <3>3. d = With(c, "APP fingerprint", c.token) /\ d \in ConnType /\ Alike(c, d) /\ d.driver = c.driver
          /\ d.token = c.token /\ Longer(c.string, d.string, "APP fingerprint", c.token)
      BY <3>2 DEF Lengthened
    <3>4. d = Marked(c)  BY <2>2, <3>3 DEF Marked
    <3>5. Lacks(c, d, "Server") /\ Lacks(c, d, "Driver") /\ Lacks(c, d, "MARS")
      BY <3>3 DEF Longer, Lacks
    <3>6. Marks(d.string) = {c.token}  BY <1>3, <3>3 DEF Longer
    <3>7. Marks(d.string) = Mark(d.token)  BY <2>2, <3>3, <3>6 DEF Mark
    <3> QED  BY <3>3, <3>4, <3>5, <3>7
  <2> QED  BY <2>1, <2>2
<1>5. /\ conn' = d /\ phase' = "choosing" /\ host' = host /\ pool' = pool /\ caller' = caller
      /\ connects' = connects
  BY <1>3, <1>4 DEF FinishString, Goes
<1>6. d.handle = "allocated" /\ d.sent = conn.sent /\ d.error = "none" /\ d.tried = conn.tried
      /\ d.driver = conn.driver
  BY <1>1, <1>3, <1>4 DEF Alike
<1>7. caller \in [error_mode : {"silent", "exception"}, server_refs : 0 .. 1]  BY DEF IInv, Types
<1>8. Types' /\ Quiet' /\ WholeSent'  BY <1>4, <1>5, <1>6, <1>7, Making
<1>9. HandleFollows' /\ Fresh' /\ Optioned'  BY <1>5, <1>6 DEF HandleFollows, Fresh, Optioned
<1>10. Written'
  <2>1. /\ At(d.string, "Server") = At(conn.string, "Server")
        /\ At(d.string, "Driver") = At(conn.string, "Driver")
        /\ At(d.string, "MARS") = At(c.string, "MARS")
    BY <1>3, <1>4 DEF Lacks
  <2> QED  BY <1>2, <1>3, <1>5, <1>6, <2>1 DEF Written
<1>11. Identity'  BY <1>4, <1>5 DEF IInv, Identity
<1>12. Searched'
  <2>1. PICK tried : tried = d.tried /\ tried = 1  BY <1>1, <1>6
  <2>2. (\A i \in 1 .. 3 : ~(i < d.tried)) /\ d.tried # 3  BY <2>1
  <2>3. conn'.tried = d.tried /\ conn'.error = "none"  BY <1>5, <1>6
  <2> QED  BY <1>5, <2>2, <2>3 DEF IInv, Searched, Connecting, FallsBack
<1> QED  BY <1>8, <1>9, <1>10, <1>11, <1>12 DEF IInv

-----------------------------------------------------------------------------
(* What SQLDriverConnect can answer: a connection out of the pool was made *)
(* with the same string, thus with the same mark, thus with the same token.*)
LEMMA OutcomeIs ==
  ASSUME IInv, NEW d, NEW s \in Strings, Marks(s) = Mark(conn.token), NEW o \in SQLDriverConnect(d, s)
  PROVE  /\ o.result = "IM002" => d \notin host.installed
         /\ o.result \notin {"success", "info"} => o.physical \in Links
         /\ o.result \in {"success", "info"} =>
              o.physical \in Links /\ o.physical.token = conn.token
              /\ Marks(o.physical.string) = Mark(conn.token)
<1>1. conn \in ConnType /\ pool \subseteq Links /\ \A p \in pool : Marks(p.string) = Mark(p.token)
  BY DEF IInv, Types, Identity
<1>2. PICK t \in Text : t = conn.token  BY <1>1 DEF ConnType
<1>3. NoPhysical \in Links
  <2>1. "" \in Text  BY DEF Text, Literals
  <2>2. <<>> \in Strings  BY DEF Strings
  <2> QED  BY <2>1, <2>2 DEF NoPhysical, Physical, Links
<1>4. PICK p \in Links : p = Physical(s, conn.token) /\ p.string = s /\ p.token = conn.token
  <2>1. PICK p : p = [string |-> s, token |-> t]  OBVIOUS
  <2>2. p \in Links /\ p.string = s /\ p.token = t  BY <2>1 DEF Links
  <2>3. p = Physical(s, conn.token)  BY <1>2, <2>1 DEF Physical
  <2> QED  BY <1>2, <2>2, <2>3
<1>5. CASE d \notin host.installed
  <2>1. o = [result |-> "IM002", physical |-> NoPhysical]  BY <1>5 DEF SQLDriverConnect, Outcome
  <2> QED  BY <1>3, <1>5, <2>1
<1>6. CASE d \in host.installed
  <2>1. \/ o = Outcome("success", Physical(s, conn.token))
        \/ o = Outcome("info", Physical(s, conn.token))
        \/ o = Outcome("error", NoPhysical)
        \/ \E q \in pool : q.string = s /\ o = Outcome("success", q)
    BY <1>6 DEF SQLDriverConnect
  <2>2. CASE o = Outcome("success", Physical(s, conn.token)) \/ o = Outcome("info", Physical(s, conn.token))
    <3>1. o.result \in {"success", "info"} /\ o.physical = p  BY <1>4, <2>2 DEF Outcome
    <3> QED  BY <1>4, <3>1
  <2>3. CASE o = Outcome("error", NoPhysical)
    <3>1. o.result = "error" /\ o.physical = NoPhysical  BY <2>3 DEF Outcome
    <3> QED  BY <1>3, <3>1
  <2>4. CASE \E q \in pool : q.string = s /\ o = Outcome("success", q)
    <3>1. PICK q \in pool : q.string = s /\ o = Outcome("success", q)  BY <2>4
    <3>2. o.result = "success" /\ o.physical = q  BY <3>1 DEF Outcome
    <3>3. Mark(q.token) = Mark(conn.token)  BY <1>1, <3>1
    <3>4. q.token = conn.token  BY <3>3 DEF Mark
    <3> QED  BY <1>1, <3>1, <3>2, <3>4
  <2> QED  BY <2>1, <2>2, <2>3, <2>4
<1> QED  BY <1>5, <1>6

LEMMA SendsIs ==
  ASSUME NEW c \in ConnType, NEW s \in Strings, NEW d \in Versions, NEW o, o.physical \in Links
  PROVE  \E e \in ConnType :
           /\ e = Sends(c, s, d, o)
           /\ e.sent = s /\ e.used = d /\ e.physical = o.physical
           /\ o.result \in {"success", "info"} => e.handle = "connected"
           /\ e.token = c.token /\ e.ce = c.ce /\ e.error = c.error /\ e.driver = c.driver
<1>1. PICK h \in {"none", "allocated", "connected", "freed", "leaked"} :
        h = (IF o.result \in {"success", "info"} THEN "connected" ELSE c.handle)
  BY DEF ConnType
<1>2. PICK v \in Text : v = (IF host.windows \/ o.result = "info" THEN "asked" ELSE "unknown")
  BY DEF Text, Literals
<1>3. PICK c1 : c1 = [c EXCEPT !.sent = s]  OBVIOUS
<1>4. PICK c2 : c2 = [c1 EXCEPT !.used = d]  OBVIOUS
<1>5. PICK c3 : c3 = [c2 EXCEPT !.physical = o.physical]  OBVIOUS
<1>6. PICK c4 : c4 = [c3 EXCEPT !.handle = h]  OBVIOUS
<1>7. PICK c5 : c5 = [c4 EXCEPT !.version = v]  OBVIOUS
<1>8. c1 \in ConnType /\ c1.sent = s /\ c1.handle = c.handle
      /\ c1.token = c.token /\ c1.ce = c.ce /\ c1.error = c.error /\ c1.driver = c.driver
  BY <1>3 DEF ConnType
<1>9. c2 \in ConnType /\ c2.sent = s /\ c2.used = d /\ c2.handle = c.handle
      /\ c2.token = c.token /\ c2.ce = c.ce /\ c2.error = c.error /\ c2.driver = c.driver
  BY <1>4, <1>8 DEF ConnType
<1>10. c3 \in ConnType /\ c3.sent = s /\ c3.used = d /\ c3.physical = o.physical /\ c3.handle = c.handle
       /\ c3.token = c.token /\ c3.ce = c.ce /\ c3.error = c.error /\ c3.driver = c.driver
  BY <1>5, <1>9 DEF ConnType
<1>11. c4 \in ConnType /\ c4.sent = s /\ c4.used = d /\ c4.physical = o.physical /\ c4.handle = h
       /\ c4.token = c.token /\ c4.ce = c.ce /\ c4.error = c.error /\ c4.driver = c.driver
  BY <1>6, <1>10 DEF ConnType
<1>12. c5 \in ConnType /\ c5.sent = s /\ c5.used = d /\ c5.physical = o.physical /\ c5.handle = h
       /\ c5.token = c.token /\ c5.ce = c.ce /\ c5.error = c.error /\ c5.driver = c.driver
  BY <1>7, <1>11 DEF ConnType
<1>13. c5 = Sends(c, s, d, o)
  <2>1. PICK b : b = [c EXCEPT !.sent = s, !.used = d, !.physical = o.physical, !.handle = h, !.version = v]
    OBVIOUS
  <2>2. c5 = b  BY <1>3, <1>4, <1>5, <1>6, <1>7, <2>1
  <2> QED  BY <1>1, <1>2, <2>1, <2>2 DEF Sends
<1> QED  BY <1>1, <1>12, <1>13

(* The connect, once a driver has been found.                              *)
LEMMA ConnectsKeeps ==
  ASSUME IInv, phase = "choosing", NEW d \in Versions, NEW s \in Strings, NEW o \in SQLDriverConnect(d, s),
         Marks(s) = Mark(conn.token), conn.ce => d \in {"17", "18"},
         Single(At(s, "Server")), Single(At(s, "Driver")), Single(At(s, "MARS")),
         ConnectsOrFails(Sends(conn, s, d, o), o)
  PROVE  IInv'
<1>1. conn \in ConnType  BY DEF IInv, Types
<1>2. /\ o.physical \in Links
      /\ o.result \in {"success", "info"} =>
           o.physical.token = conn.token /\ Marks(o.physical.string) = Mark(conn.token)
  BY OutcomeIs
<1>3. PICK c \in ConnType :
        /\ c = Sends(conn, s, d, o)
        /\ c.sent = s /\ c.used = d /\ c.physical = o.physical
        /\ o.result \in {"success", "info"} => c.handle = "connected"
        /\ c.token = conn.token /\ c.ce = conn.ce /\ c.error = conn.error /\ c.driver = conn.driver
  BY <1>1, <1>2, SendsIs
<1>4. CASE \E e \in {"odbc", "warning"} : Fails(c, e)
  <2>1. PICK e \in {"odbc", "warning"} : Fails(c, e)  BY <1>4
  <2>2. e \in Text /\ e # "no driver installed" /\ e # "encryption needs a newer driver"
    BY DEF Text, Literals
  <2>3. Types /\ Identity  BY DEF IInv
  <2> QED  BY <1>3, <2>1, <2>2, <2>3, FailsKeeps
<1>5. CASE o.result \in {"success", "info"} /\ Connected(c, o)
  <2>1. PICK e : e = [c EXCEPT !.string = <<>>]  OBVIOUS
  <2>2. <<>> \in Strings  BY DEF Strings
  <2>3. /\ e \in ConnType /\ e.sent = s /\ e.used = d /\ e.physical = o.physical /\ e.handle = "connected"
        /\ e.token = conn.token /\ e.ce = conn.ce /\ e.error = conn.error /\ e.driver = conn.driver
    BY <1>3, <1>5, <2>1, <2>2 DEF ConnType
  <2>4. /\ conn' = e /\ phase' = "connected" /\ host' = host /\ pool' = pool \ {o.physical}
        /\ caller' = caller /\ connects' = connects
    BY <1>5, <2>1 DEF Connected
  <2>5. Types'  BY <2>3, <2>4 DEF IInv, Types, Phases
  <2>6. HandleFollows' /\ Quiet' /\ Fresh' /\ Optioned' /\ Written'
    BY <2>3, <2>4 DEF HandleFollows, Quiet, Connecting, Fresh, Optioned, Written
  <2>7. WholeSent'  BY <2>3, <2>4 DEF WholeSent
  <2>8. Identity'  BY <1>2, <1>5, <2>3, <2>4 DEF IInv, Identity
  <2>9. Searched'
    <3>1. conn.error = "none"  BY DEF IInv, Searched, Connecting
    <3> QED  BY <2>3, <2>4, <3>1 DEF IInv, Searched, Connecting, FallsBack
  <2> QED  BY <2>5, <2>6, <2>7, <2>8, <2>9 DEF IInv
<1> QED  BY <1>3, <1>4, <1>5 DEF ConnectsOrFails

(* The Driver option was given: the string names it already.               *)
LEMMA UseSpecifiedDriverKeeps ==
  ASSUME IInv, UseSpecifiedDriver
  PROVE  IInv'
<1>1. /\ phase = "choosing" /\ conn.driver # "unknown" /\ conn \in ConnType
      /\ Single(At(conn.string, "Server")) /\ Single(At(conn.string, "Driver"))
      /\ Single(At(conn.string, "MARS")) /\ Marks(conn.string) = Mark(conn.token)
  BY DEF UseSpecifiedDriver, IInv, Types, Written, Identity
<1>2. conn.string \in Strings /\ conn.driver \in Versions  BY <1>1 DEF ConnType
<1>3. Types /\ Identity  BY DEF IInv
<1>4. CASE Fails(conn, "encryption needs a newer driver")
  <2>1. PICK e \in Text : e = "encryption needs a newer driver" /\ e # "no driver installed"
    BY DEF Text, Literals
  <2>2. Fails(conn, e)  BY <1>4, <2>1
  <2>3. conn.sent # <<>> => /\ Single(At(conn.sent, "Server")) /\ Single(At(conn.sent, "Driver"))
                            /\ Single(At(conn.sent, "MARS"))
    BY DEF IInv, WholeSent
  <2> QED  BY <1>1, <1>3, <2>1, <2>2, <2>3, FailsKeeps
<1>5. CASE Fails(conn, "specified driver not found")
  <2>1. PICK e \in Text : e = "specified driver not found" /\ e # "no driver installed"
                          /\ e # "encryption needs a newer driver"
    BY DEF Text, Literals
  <2> QED  BY <1>5, <2>1, FailsNow
<1>6. CASE ~NeedsNewer(conn) /\ \E o \in SQLDriverConnect(conn.driver, conn.string) :
             ConnectsOrFails(Sends(conn, conn.string, conn.driver, o), o)
  <2>1. PICK o \in SQLDriverConnect(conn.driver, conn.string) :
          ConnectsOrFails(Sends(conn, conn.string, conn.driver, o), o)
    BY <1>6
  <2>2. conn.ce => conn.driver \in {"17", "18"}  BY <1>2, <1>6 DEF NeedsNewer, Versions
  <2> QED  BY <1>1, <1>2, <2>1, <2>2, ConnectsKeeps
<1> QED  BY <1>4, <1>5, <1>6 DEF UseSpecifiedDriver

(* The search: 17, 18, 13, each with a copy of the string.                 *)
LEMMA SearchDriverKeeps ==
  ASSUME IInv, SearchDriver
  PROVE  IInv'
<1>1. /\ phase = "choosing" /\ conn.driver = "unknown" /\ conn \in ConnType /\ conn.handle = "allocated"
      /\ conn.error = "none"
      /\ Single(At(conn.string, "Server")) /\ At(conn.string, "Driver") = {}
      /\ Single(At(conn.string, "MARS")) /\ Marks(conn.string) = Mark(conn.token)
      /\ conn.ce => conn.tried # 3
      /\ \A i \in 1 .. 3 : i < conn.tried => Drivers[i] \notin host.installed
  BY DEF SearchDriver, IInv, Types, HandleFollows, Written, Identity, Searched, Connecting
<1>2. conn.string \in Strings /\ conn.tried \in 1 .. 3 /\ conn.ce \in BOOLEAN  BY <1>1 DEF ConnType
<1>3. Types /\ Identity  BY DEF IInv
<1>4. Drivers[1] = "17" /\ Drivers[2] = "18" /\ Drivers[3] = "13"  BY DEF Drivers
<1>5. PICK d \in Versions : d = Drivers[conn.tried]
  <2>1. conn.tried = 1 \/ conn.tried = 2 \/ conn.tried = 3  BY <1>2
  <2>2. "17" \in Versions /\ "18" \in Versions /\ "13" \in Versions  BY DEF Versions
  <2> QED  BY <1>4, <2>1, <2>2
<1>6. host.installed \subseteq Versions  BY <1>3, ConnectAssumption DEF Types
<1>7. PICK s : /\ s = Copied(conn, d) /\ s \in Strings
               /\ Single(At(s, "Server")) /\ Single(At(s, "Driver")) /\ Single(At(s, "MARS"))
               /\ Marks(s) = Mark(conn.token)
  <2>1. "Driver" \in Text /\ d \in Text  BY DEF Text, Literals
  <2>2. PICK c : Lengthened(conn, c, "Driver", d)  BY <1>1, <2>1, WithIs
  <2>3. c = With(conn, "Driver", d) /\ c \in ConnType /\ Longer(conn.string, c.string, "Driver", d)
    BY <2>2 DEF Lengthened
  <2>4. c.string = Copied(conn, d)  BY <2>3 DEF Copied
  <2>5. c.string \in Strings  BY <2>3 DEF ConnType
  <2>6. /\ At(c.string, "Server") = At(conn.string, "Server")
        /\ At(c.string, "MARS") = At(conn.string, "MARS")
        /\ At(c.string, "Driver") = {Len(conn.string) + 1}
        /\ Marks(c.string) = Marks(conn.string)
    BY <1>1, <2>3 DEF Longer
  <2> QED  BY <1>1, <2>4, <2>5, <2>6 DEF Single
<1>8. PICK o \in SQLDriverConnect(d, s) :
        \/ o.result = "IM002" /\ d = LastVersion(conn) /\ Fails(conn, NotFound(conn))
        \/ o.result = "IM002" /\ d # LastVersion(conn) /\ Goes(TryAnother(conn), "choosing")
        \/ o.result # "IM002" /\ ConnectsOrFails(Sends(conn, s, d, o), o)
  BY <1>5, <1>7 DEF SearchDriver
<1>9. o.result = "IM002" => d \notin host.installed  BY <1>7, OutcomeIs
<1>10. CASE o.result = "IM002" /\ d = LastVersion(conn) /\ Fails(conn, NotFound(conn))
  <2>1. conn.sent # <<>> => /\ Single(At(conn.sent, "Server")) /\ Single(At(conn.sent, "Driver"))
                            /\ Single(At(conn.sent, "MARS"))
    BY DEF IInv, WholeSent
  <2>2. CASE conn.ce
    <3>1. PICK e \in Text : e = "encryption needs a newer driver" /\ e # "no driver installed"
      BY DEF Text, Literals
    <3>2. Fails(conn, e)  BY <1>10, <2>2, <3>1 DEF NotFound
    <3>3. d = "18" /\ conn.tried = 2
      <4>1. d = "18"  BY <1>10, <2>2 DEF LastVersion
      <4>2. conn.tried = 1 \/ conn.tried = 2  BY <1>1, <1>2, <2>2
      <4>3. conn.tried # 1  BY <1>4, <1>5, <4>1
      <4> QED  BY <4>1, <4>2, <4>3
    <3>4. "17" \notin host.installed
      <4>1. 1 \in 1 .. 3 /\ 1 < conn.tried  BY <3>3
      <4> QED  BY <1>1, <1>4, <4>1
    <3>5. host.installed \cap {"17", "18"} = {}  BY <1>9, <1>10, <3>3, <3>4
    <3> QED  BY <1>1, <1>3, <2>1, <3>1, <3>2, <3>5, FailsKeeps
  <2>3. CASE ~conn.ce
    <3>1. PICK e \in Text : e = "no driver installed" /\ e # "encryption needs a newer driver"
      BY DEF Text, Literals
    <3>2. Fails(conn, e)  BY <1>10, <2>3, <3>1 DEF NotFound
    <3>3. d = "13" /\ conn.tried = 3
      <4>1. d = "13"  BY <1>10, <2>3 DEF LastVersion
      <4>2. conn.tried = 1 \/ conn.tried = 2 \/ conn.tried = 3  BY <1>2
      <4>3. conn.tried # 1 /\ conn.tried # 2  BY <1>4, <1>5, <4>1
      <4> QED  BY <4>1, <4>2, <4>3
    <3>4. "17" \notin host.installed /\ "18" \notin host.installed
      <4>1. 1 \in 1 .. 3 /\ 1 < conn.tried /\ 2 \in 1 .. 3 /\ 2 < conn.tried  BY <3>3
      <4> QED  BY <1>1, <1>4, <4>1
    <3>5. host.installed = {}  BY <1>6, <1>9, <1>10, <3>3, <3>4 DEF Versions
    <3> QED  BY <1>1, <1>3, <2>1, <3>1, <3>2, <3>5, FailsKeeps
  <2> QED  BY <1>2, <2>2, <2>3
<1>11. CASE o.result = "IM002" /\ d # LastVersion(conn) /\ Goes(TryAnother(conn), "choosing")
  <2>1. conn.tried \in 1 .. 2 /\ (conn.ce => conn.tried = 1)
    <3>1. conn.tried = 1 \/ conn.tried = 2 \/ conn.tried = 3  BY <1>2
    <3>2. CASE conn.tried = 3
      <4>1. d = "13" /\ ~conn.ce  BY <1>1, <1>4, <1>5, <3>2
      <4> QED  BY <1>11, <4>1 DEF LastVersion
    <3>3. CASE conn.tried = 2
      <4>1. d = "18"  BY <1>4, <1>5, <3>3
      <4>2. ~conn.ce  BY <1>11, <4>1 DEF LastVersion
      <4> QED  BY <3>3, <4>2
    <3> QED  BY <3>1, <3>2, <3>3
  <2>2. PICK t \in 2 .. 3 : t = conn.tried + 1  BY <2>1
  <2>3. PICK c : c = [conn EXCEPT !.tried = t]  OBVIOUS
  <2>4. /\ c \in ConnType /\ c.tried = t /\ c.string = conn.string /\ c.token = conn.token
        /\ c.driver = conn.driver /\ c.handle = conn.handle /\ c.sent = conn.sent
        /\ c.error = conn.error /\ c.ce = conn.ce
    BY <1>1, <2>2, <2>3 DEF ConnType
  <2>5. /\ conn' = c /\ phase' = "choosing" /\ host' = host /\ pool' = pool /\ caller' = caller
        /\ connects' = connects
    BY <1>11, <2>2, <2>3 DEF Goes, TryAnother, NextDriver
  <2>6. caller \in [error_mode : {"silent", "exception"}, server_refs : 0 .. 1]  BY <1>3 DEF Types
  <2>7. Types' /\ Quiet' /\ WholeSent'  BY <2>4, <2>5, <2>6, Making
  <2>8. HandleFollows' /\ Fresh' /\ Optioned'
    BY <1>1, <2>4, <2>5 DEF HandleFollows, Fresh, Optioned
  <2>9. Written'  BY <1>1, <2>4, <2>5 DEF Written
  <2>10. Identity'  BY <1>1, <2>4, <2>5 DEF IInv, Identity
  <2>11. Searched'
    <3>1. c.ce => c.tried # 3
      <4>1. conn.ce => t = 2  BY <2>1, <2>2
      <4> QED  BY <2>4, <4>1
    <3>2. ASSUME NEW i \in 1 .. 3, i < c.tried  PROVE Drivers[i] \notin host.installed
      <4>1. i < t /\ t = conn.tried + 1 /\ conn.tried \in 1 .. 2  BY <2>1, <2>2, <2>4, <3>2
      <4>2. i < conn.tried \/ i = conn.tried  BY <4>1
      <4>3. CASE i < conn.tried  BY <1>1, <4>3
      <4>4. CASE i = conn.tried  BY <1>5, <1>9, <1>11, <4>4
      <4> QED  BY <4>2, <4>3, <4>4
    <3>3. conn'.tried = c.tried /\ conn'.error = "none" /\ conn'.ce = c.ce  BY <1>1, <2>4, <2>5
    <3> QED  BY <2>5, <3>1, <3>2, <3>3 DEF IInv, Searched, Connecting, FallsBack
  <2> QED  BY <2>7, <2>8, <2>9, <2>10, <2>11 DEF IInv
<1>12. CASE ConnectsOrFails(Sends(conn, s, d, o), o)
  <2>1. conn.ce => d \in {"17", "18"}
    <3>1. conn.ce => conn.tried = 1 \/ conn.tried = 2  BY <1>1, <1>2
    <3> QED  BY <1>4, <1>5, <3>1
  <2> QED  BY <1>1, <1>7, <1>12, <2>1, ConnectsKeeps
<1> QED  BY <1>8, <1>10, <1>11, <1>12

-----------------------------------------------------------------------------
(* The end of the connect: the secrets go, whatever happens.               *)
LEMMA FinishConnectKeeps ==
  ASSUME IInv, FinishConnect
  PROVE  IInv'
<1>1. /\ phase = "connected" /\ conn \in ConnType /\ conn.handle = "connected" /\ conn.error = "none"
      /\ conn.physical.token = conn.token /\ Marks(conn.physical.string) = Mark(conn.token)
      /\ conn.ce => conn.used \in {"17", "18"}
  BY DEF FinishConnect, IInv, Types, HandleFollows, Identity, Searched, Connecting
<1>2. CASE \E e \in {"vault", "vault call", "version"} : Fails(conn, e)
  <2>1. PICK e \in {"vault", "vault call", "version"} : Fails(conn, e)  BY <1>2
  <2>2. e \in Text /\ e # "no driver installed" /\ e # "encryption needs a newer driver"
    BY DEF Text, Literals
  <2> QED  BY <2>1, <2>2, FailsNow
<1>3. CASE /\ conn' = [Secretless(conn) EXCEPT !.version = IF @ = "asked" THEN "known" ELSE @]
           /\ caller' = Restored /\ phase' = "open" /\ UNCHANGED <<host, pool, connects>>
  <2>0. PICK c : Emptied(conn, c)  BY <1>1, VaultlessIs
  <2>1. /\ c = Vaultless(conn) /\ c \in ConnType
        /\ c.id = "" /\ c.secret = "" /\ c.mode = "none" /\ c.required = FALSE
        /\ c.handle = conn.handle /\ c.error = conn.error /\ c.physical = conn.physical
        /\ c.token = conn.token /\ c.ce = conn.ce /\ c.used = conn.used /\ c.sent = conn.sent
    BY <2>0 DEF Emptied
  <2>2. PICK v \in Text : v = (IF c.version = "asked" THEN "known" ELSE c.version)
    <3>1. c.version \in Text  BY <2>1 DEF ConnType
    <3>2. "known" \in Text  BY DEF Text, Literals
    <3> QED  BY <3>1, <3>2
  <2>3. PICK d : d = [c EXCEPT !.version = v]  OBVIOUS
  <2>4. /\ d \in ConnType
        /\ d.id = "" /\ d.secret = "" /\ d.mode = "none" /\ d.required = FALSE
        /\ d.handle = conn.handle /\ d.error = conn.error /\ d.physical = conn.physical
        /\ d.token = conn.token /\ d.ce = conn.ce /\ d.used = conn.used /\ d.sent = conn.sent
    BY <2>1, <2>2, <2>3 DEF ConnType
  <2>5. conn' = d
    <3>1. conn' = [c EXCEPT !.version = IF @ = "asked" THEN "known" ELSE @]  BY <1>3, <2>1 DEF Secretless
    <3> QED  BY <2>2, <2>3, <3>1
  <2>6. Types'  BY <1>3, <2>4, <2>5, RestoredIs DEF IInv, Types, Phases
  <2>7. HandleFollows' /\ Quiet' /\ Fresh' /\ Optioned' /\ Written'
    BY <1>1, <1>3, <2>4, <2>5 DEF HandleFollows, Quiet, Connecting, Fresh, Optioned, Written
  <2>8. WholeSent'  BY <2>4, <2>5 DEF IInv, WholeSent
  <2>9. Identity'  BY <1>1, <1>3, <2>4, <2>5 DEF IInv, Identity
  <2>10. Searched'  BY <1>1, <1>3, <2>4, <2>5 DEF IInv, Searched, Connecting, FallsBack
  <2> QED  BY <2>6, <2>7, <2>8, <2>9, <2>10 DEF IInv
<1> QED  BY <1>2, <1>3 DEF FinishConnect

(* A connection is closed, and may go to the pool as it is.                *)
LEMMA CloseKeeps ==
  ASSUME IInv, Close
  PROVE  IInv'
<1>1. /\ phase = "open" /\ conn \in ConnType /\ Quiet /\ WholeSent /\ FallsBack
      /\ conn.physical.token = conn.token /\ Marks(conn.physical.string) = Mark(conn.token)
      /\ conn.physical \in Links
  BY DEF Close, IInv, Types, Identity, Searched, ConnType
<1>2. PICK c : c = [conn EXCEPT !.handle = "freed"]  OBVIOUS
<1>3. /\ c \in ConnType /\ c.handle = "freed" /\ c.id = conn.id /\ c.secret = conn.secret
      /\ c.mode = conn.mode /\ c.required = conn.required /\ c.sent = conn.sent
      /\ c.error = conn.error /\ c.driver = conn.driver
  BY <1>1, <1>2 DEF ConnType
<1>4. PICK w \in Text : w = ""  BY DEF Text, Literals
<1>5. PICK d : d = [c EXCEPT !.token = w]  OBVIOUS
<1>6. /\ d \in ConnType /\ d.handle = "freed" /\ d.id = conn.id /\ d.secret = conn.secret
      /\ d.mode = conn.mode /\ d.required = conn.required /\ d.sent = conn.sent
      /\ d.error = conn.error /\ d.driver = conn.driver
  BY <1>3, <1>4, <1>5 DEF ConnType
<1>7. /\ conn' = d /\ phase' = "idle" /\ host' = host /\ caller' = caller /\ connects' = connects
      /\ pool' = IF conn.pooled THEN pool \cup {conn.physical} ELSE pool
  <2>1. d = [conn EXCEPT !.handle = "freed", !.token = ""]  BY <1>2, <1>4, <1>5
  <2> QED  BY <2>1 DEF Close
<1>8. Types'  BY <1>1, <1>6, <1>7 DEF IInv, Types, Phases
<1>9. HandleFollows' /\ Fresh' /\ Optioned' /\ Written'
  BY <1>6, <1>7 DEF HandleFollows, Fresh, Optioned, Written
<1>10. Quiet'  BY <1>1, <1>6, <1>7 DEF Quiet, Connecting
<1>11. WholeSent'  BY <1>1, <1>6, <1>7 DEF WholeSent
<1>12. Identity'  BY <1>1, <1>7 DEF IInv, Identity
<1>13. Searched'  BY <1>1, <1>6, <1>7 DEF Searched, Connecting, FallsBack
<1> QED  BY <1>8, <1>9, <1>10, <1>11, <1>12, <1>13 DEF IInv

LEMMA GiveUpKeeps ==
  ASSUME IInv, GiveUp
  PROVE  IInv'
<1>1. phase = "failed" /\ phase' = "idle" /\ conn' = conn /\ host' = host /\ pool' = pool
      /\ caller' = caller /\ connects' = connects
  BY DEF GiveUp, Goes
<1>2. Types'  BY <1>1 DEF IInv, Types, Phases
<1>3. HandleFollows' /\ Quiet' /\ Fresh' /\ Optioned' /\ Written'
  BY <1>1 DEF IInv, HandleFollows, Quiet, Connecting, Fresh, Optioned, Written
<1>4. WholeSent' /\ Identity'  BY <1>1 DEF IInv, WholeSent, Identity
<1>5. Searched'  BY <1>1 DEF IInv, Searched, Connecting, FallsBack
<1> QED  BY <1>2, <1>3, <1>4, <1>5 DEF IInv

-----------------------------------------------------------------------------
(* The invariant holds of every connect.                                   *)
LEMMA Invariant == Spec => []IInv
<1>1. Init => IInv  BY InitIs
<1>2. IInv /\ [Next]_vars => IInv'
  <2> SUFFICES ASSUME IInv, [Next]_vars  PROVE IInv'
    OBVIOUS
  <2>1. CASE \E r \in Requests : Begin(r)  BY <2>1, BeginKeeps
  <2>2. CASE CheckOption  BY <2>2, CheckOptionKeeps
  <2>3. CASE Allocate  BY <2>3, AllocateKeeps
  <2>4. CASE StartString  BY <2>4, StartStringKeeps
  <2>5. CASE SetOption  BY <2>5, SetOptionKeeps
  <2>6. CASE FinishString  BY <2>6, FinishStringKeeps
  <2>7. CASE UseSpecifiedDriver  BY <2>7, UseSpecifiedDriverKeeps
  <2>8. CASE SearchDriver  BY <2>8, SearchDriverKeeps
  <2>9. CASE FinishConnect  BY <2>9, FinishConnectKeeps
  <2>10. CASE Close  BY <2>10, CloseKeeps
  <2>11. CASE GiveUp  BY <2>11, GiveUpKeeps
  <2>12. CASE UNCHANGED vars
    <3>1. phase' = phase /\ conn' = conn /\ host' = host /\ pool' = pool
          /\ caller' = caller /\ connects' = connects
      BY <2>12 DEF vars
    <3>2. Types' /\ HandleFollows' /\ Quiet'
      BY <3>1 DEF IInv, Types, HandleFollows, Quiet, Connecting
    <3>3. Fresh' /\ Optioned' /\ Written'  BY <3>1 DEF IInv, Fresh, Optioned, Written
    <3>4. WholeSent' /\ Identity'  BY <3>1 DEF IInv, WholeSent, Identity
    <3>5. Searched'  BY <3>1 DEF IInv, Searched, Connecting, FallsBack
    <3> QED  BY <3>2, <3>3, <3>4, <3>5 DEF IInv
  <2> QED  BY <2>1, <2>2, <2>3, <2>4, <2>5, <2>6, <2>7, <2>8, <2>9, <2>10, <2>11, <2>12 DEF Next
<1> QED  BY <1>1, <1>2, PTL DEF Spec

(* What stands once in a string is counted once.                           *)
LEMMA OnceIs ==
  ASSUME NEW s, NEW k, Single(At(s, k))
  PROVE  Once(s, k)
BY FS_Singleton DEF Single, At, Once

(* However a connect ends, nothing is left of it: the secrets are gone, the*)
(* caller is as it was, and the handle is freed (core_conn.cpp, the catch  *)
(* blocks and the end of core_sqlsrv_connect).                             *)
THEOREM NothingStaysOfAConnect == Spec => []NothingLeftBehind
<1>1. IInv => NothingLeftBehind
  BY DEF IInv, Types, Phases, HandleFollows, Quiet, NothingLeftBehind, Connecting
<1> QED  BY <1>1, Invariant, PTL

(* A script that connects with an access token is never handed a physical  *)
(* connection of another identity out of the driver manager's pool         *)
(* (core_conn.cpp, the APP fingerprint of the token).                      *)
THEOREM ConnectionsKeepTheirIdentity == Spec => []OwnIdentity
<1>1. IInv => OwnIdentity  BY DEF IInv, Identity, OwnIdentity
<1> QED  BY <1>1, Invariant, PTL

(* The search for a driver uses none, and passes over none, that it should *)
(* not, and each is tried with a whole string of its own (core_conn.cpp    *)
(* 359-428).                                                               *)
THEOREM DriverSearchIsSound == Spec => []DriverSearchSound
<1>1. IInv => DriverSearchSound
  <2> SUFFICES ASSUME IInv  PROVE DriverSearchSound
    OBVIOUS
  <2>1. TypeOK  BY DEF IInv, Types, Phases, ConnType, TypeOK
  <2>2. EncryptedByCapableDriver
    <3>1. conn.handle = "connected" => phase \in {"connected", "open"}
      BY DEF IInv, Types, Phases, HandleFollows
    <3> QED  BY <3>1 DEF IInv, Searched, EncryptedByCapableDriver
  <2>3. SentStringWhole  BY OnceIs DEF IInv, WholeSent, SentStringWhole
  <2>4. FallsBack  BY DEF IInv, Searched
  <2> QED  BY <2>1, <2>2, <2>3, <2>4 DEF DriverSearchSound
<1> QED  BY <1>1, Invariant, PTL

-----------------------------------------------------------------------------
(* What a script is told of a failure.                                     *)
AnyRecord  == Records \cup { OfDriver(c) : c \in Int }
GoodRecord == { r \in AnyRecord : r.readable }
AnyHandle  == [odbc : Seq(AnyRecord), own : Own]
AnyQueue   == [errors : Seq(GoodRecord), warnings : Seq(GoodRecord), ignored : BOOLEAN]

LEMMA OwnRecord ==
  ASSUME NEW c \in Int
  PROVE  OfDriver(c) \in GoodRecord
BY Zenon DEF OfDriver, AnyRecord, GoodRecord

LEMMA ReadableOrNot ==
  ASSUME NEW r \in AnyRecord
  PROVE  r.readable \in BOOLEAN
<1>1. CASE r \in Records
  BY <1>1, DiagnosticsAssumption
<1>2. CASE \E c \in Int : r = OfDriver(c)
  <2>1. PICK c \in Int : r = OfDriver(c)
    BY <1>2
  <2>2. OfDriver(c).readable = TRUE
    BY Zenon DEF OfDriver
  <2> QED
    BY <2>1, <2>2, Zenon
<1> QED
  BY <1>1, <1>2 DEF AnyRecord

(* The records that are read are those in front of the first that cannot   *)
(* be.                                                                     *)
LEMMA ReadableFound ==
  ASSUME NEW s \in Seq(AnyRecord)
  PROVE  /\ Readable(s) \in 0 .. Len(s)
         /\ \A i \in 1 .. Readable(s) : s[i].readable
         /\ Readable(s) # Len(s) => ~s[Readable(s) + 1].readable
<1> DEFINE Ends == { n \in 0 .. Len(s) : n # Len(s) => ~s[n + 1].readable }
<1>1. Len(s) \in Nat
  OBVIOUS
<1>2. PICK m \in Ends : \A k \in Ends : m <= k
  <2>1. Ends \subseteq Nat /\ Len(s) \in Ends
    BY <1>1
  <2> HIDE DEF Ends
  <2> QED
    BY <2>1, LeastNumber
<1>3. ASSUME NEW i \in 1 .. m PROVE s[i].readable
  <2>0. m \in 0 .. Len(s)
    OBVIOUS
  <2>1. i - 1 \in 0 .. Len(s) /\ i - 1 < m /\ (i - 1) + 1 = i
    BY <1>1, <2>0
  <2>5. i - 1 \notin Ends
    <3> HIDE DEF Ends
    <3> QED
      BY <1>2, <2>0, <2>1
  <2>2. i \in 1 .. Len(s) /\ s[i] \in AnyRecord
    BY <1>1, <2>0
  <2>3. s[i].readable \in BOOLEAN
    BY <2>2, ReadableOrNot
  <2>4. ~(i - 1 # Len(s) => ~s[i].readable)
    BY <2>1, <2>5
  <2> QED
    BY <2>3, <2>4
<1>4. \E n \in 0 .. Len(s) : (\A i \in 1 .. n : s[i].readable) /\ (n # Len(s) => ~s[n + 1].readable)
  BY <1>2, <1>3
<1> HIDE DEF Ends
<1> QED
  BY <1>4 DEF Readable

LEMMA ReadablePart ==
  ASSUME NEW s \in Seq(AnyRecord)
  PROVE  /\ ReadableOf(s) \in Seq(GoodRecord)
         /\ Len(ReadableOf(s)) = Readable(s)
         /\ \A i \in 1 .. Readable(s) : ReadableOf(s)[i] = s[i]
<1>1. /\ Readable(s) \in 0 .. Len(s) /\ Len(s) \in Nat
      /\ \A i \in 1 .. Readable(s) : s[i].readable
  BY ReadableFound
<1>2. ReadableOf(s) = [i \in 1 .. Readable(s) |-> s[i]]
  BY <1>1 DEF ReadableOf
<1>3. ASSUME NEW i \in 1 .. Readable(s) PROVE s[i] \in GoodRecord
  <2>1. s[i] \in AnyRecord /\ s[i].readable
    BY <1>1
  <2> QED
    BY <2>1, Zenon DEF GoodRecord
<1>4. [i \in 1 .. Readable(s) |-> s[i]] \in Seq(GoodRecord)
  BY <1>1, <1>3
<1> QED
  BY <1>1, <1>2, <1>4

(* A list whose first record can be read tells that one first.             *)
LEMMA FirstIsRead ==
  ASSUME NEW s \in Seq(AnyRecord), s # << >>, s[1].readable
  PROVE  ReadableOf(s) # << >> /\ ReadableOf(s)[1] = s[1]
<1>1. Readable(s) \in 0 .. Len(s) /\ Len(s) \in Nat \ {0} /\ (Readable(s) = 0 => FALSE)
  BY ReadableFound
<1> QED
  BY <1>1, ReadablePart

LEMMA HandleRead ==
  ASSUME NEW h \in AnyHandle
  PROVE  RecordsOf(h) \in Seq(GoodRecord)
<1>1. h.own \in Own /\ h.odbc \in Seq(AnyRecord)
  BY DEF AnyHandle
<1>2. <<OfDriver(-33)>> \in Seq(GoodRecord)
  BY OwnRecord
<1> QED
  BY <1>1, <1>2, ReadablePart DEF Own, NoError, RecordsOf

LEMMA ThreeJoined ==
  ASSUME NEW S, NEW a \in Seq(S), NEW b \in Seq(S), NEW c \in Seq(S)
  PROVE  a \o b \o c \in Seq(S) /\ Len(a \o b \o c) = Len(a) + Len(b) + Len(c)
<1>1. a \o b \in Seq(S) /\ Len(a \o b) = Len(a) + Len(b)
  BY ConcatProperties
<1> QED
  BY <1>1, ConcatProperties

(* An error is told at least once, and a warning for each record.          *)
LEMMA GatheredRead ==
  ASSUME NEW h \in AnyHandle, NEW code \in Int, NEW warning \in BOOLEAN
  PROVE  /\ Gathered(h, code, warning) \in Seq(GoodRecord)
         /\ ~warning => Len(Gathered(h, code, warning)) > 0
         /\ warning => Len(Gathered(h, code, warning))
                         = Len(RecordsOf(h)) + (IF code = Odbc THEN 0 ELSE 1)
<1>1. PICK found \in Seq(GoodRecord) : found = RecordsOf(h)
  BY HandleRead
<1>9. << >> \in Seq(GoodRecord) /\ <<OfDriver(code)>> \in Seq(GoodRecord)
      /\ <<Unavailable>> \in Seq(GoodRecord)
  BY OwnRecord DEF Unavailable
<1>2. PICK front \in Seq(GoodRecord) :
        front = (IF code = Odbc THEN << >> ELSE <<OfDriver(code)>>)
  BY <1>9
<1>3. PICK behind \in Seq(GoodRecord) : behind = Fallback(found, code, warning)
  BY <1>9 DEF Fallback
<1>4. Gathered(h, code, warning) = front \o found \o behind
  BY <1>1, <1>2, <1>3 DEF Gathered
<1>5. /\ front \o found \o behind \in Seq(GoodRecord)
      /\ Len(front \o found \o behind) = Len(front) + Len(found) + Len(behind)
  BY ThreeJoined
<1>6. Len(found) \in Nat /\ Len(behind) \in Nat /\ Len(front) = (IF code = Odbc THEN 0 ELSE 1)
  BY <1>2
<1>7. warning => Len(behind) = 0
  BY <1>3 DEF Fallback
<1>8. CASE warning
  BY <1>1, <1>4, <1>5, <1>6, <1>7, <1>8
<1>10. CASE ~warning
  <2>1. Len(front) + Len(found) + Len(behind) > 0
    <3>1. CASE code # Odbc \/ Len(found) # 0
      BY <1>6, <3>1
    <3>2. CASE code = Odbc /\ Len(found) = 0
      <4>1. behind = <<Unavailable>>
        BY <1>3, <1>10, <3>2 DEF Fallback
      <4> QED
        BY <1>6, <3>2, <4>1
    <3> QED
      BY <3>1, <3>2
  <2> QED
    BY <1>4, <1>5, <1>10, <2>1
<1> QED
  BY <1>8, <1>10

-----------------------------------------------------------------------------
(* One record is told once: as an error, or as a warning.                  *)
Told(q)   == Len(q.errors) + Len(q.warnings)
Failed(q) == Len(q.errors)

LEMMA OneReported ==
  ASSUME NEW q \in AnyQueue, NEW r \in GoodRecord
  PROVE  LET c == [q EXCEPT !.errors = Append(@, r)] IN
         /\ c \in AnyQueue
         /\ Told(c) = Told(q) + 1
         /\ Failed(c) > Failed(q) /\ Failed(c) >= Failed(q)
<1>1. PICK e \in Seq(GoodRecord), w \in Seq(GoodRecord) : e = q.errors /\ w = q.warnings
  BY DEF AnyQueue
<1>2. Append(e, r) \in Seq(GoodRecord) /\ Len(Append(e, r)) = Len(e) + 1
  BY AppendProperties
<1>3. PICK c : c = [q EXCEPT !.errors = Append(e, r)]
  OBVIOUS
<1>4. c \in AnyQueue /\ c.errors = Append(e, r) /\ c.warnings = w
  BY <1>1, <1>2, <1>3 DEF AnyQueue
<1>5. Len(e) \in Nat /\ Len(w) \in Nat
  OBVIOUS
<1>6. /\ Len(Append(e, r)) + Len(w) = Len(e) + Len(w) + 1
      /\ Len(Append(e, r)) > Len(e) /\ Len(Append(e, r)) >= Len(e)
  BY <1>2, <1>5
<1> QED
  BY <1>1, <1>3, <1>4, <1>6, Zenon DEF Told, Failed

LEMMA OneIgnored ==
  ASSUME NEW q \in AnyQueue, NEW r \in GoodRecord
  PROVE  LET c == [q EXCEPT !.warnings = Append(@, r)] IN
         /\ c \in AnyQueue /\ c.errors = q.errors
         /\ Told(c) = Told(q) + 1
         /\ Failed(c) >= Failed(q)
<1>1. PICK e \in Seq(GoodRecord), w \in Seq(GoodRecord) : e = q.errors /\ w = q.warnings
  BY DEF AnyQueue
<1>2. Append(w, r) \in Seq(GoodRecord) /\ Len(Append(w, r)) = Len(w) + 1
  BY AppendProperties
<1>3. PICK c : c = [q EXCEPT !.warnings = Append(w, r)]
  OBVIOUS
<1>4. c \in AnyQueue /\ c.errors = e /\ c.warnings = Append(w, r)
  BY <1>1, <1>2, <1>3 DEF AnyQueue
<1>5. Len(e) \in Nat /\ Len(w) \in Nat
  OBVIOUS
<1>6. Len(e) + Len(Append(w, r)) = Len(e) + Len(w) + 1 /\ Len(e) >= Len(e)
  BY <1>2, <1>5
<1> QED
  BY <1>1, <1>3, <1>4, <1>6, Zenon DEF Told, Failed

LEMMA CopiedOne ==
  ASSUME NEW q \in AnyQueue, NEW r \in GoodRecord, NEW warning \in BOOLEAN, NEW asErrors \in BOOLEAN,
         NEW c, c = copy_error_to_zval(q, r, warning, asErrors)
  PROVE  /\ c \in AnyQueue
         /\ Told(c) = Told(q) + 1
         /\ Failed(c) >= Failed(q)
         /\ ~warning => Failed(c) > Failed(q)
         /\ warning /\ ~asErrors => c.errors = q.errors
<1>1. CASE ~warning \/ (asErrors /\ ~ignore_warning(r))
  <2>1. c = [q EXCEPT !.errors = Append(@, r)]
    BY <1>1, Zenon DEF copy_error_to_zval
  <2> QED
    BY <1>1, <2>1, OneReported, Zenon
<1>2. CASE ~(~warning \/ (asErrors /\ ~ignore_warning(r)))
  <2>1. c = [q EXCEPT !.warnings = Append(@, r)]
    BY <1>2, Zenon DEF copy_error_to_zval
  <2> QED
    BY <1>2, <2>1, OneIgnored, Zenon
<1> QED
  BY <1>1, <1>2, Zenon

(* The records of one failure, one after the other.                        *)
LEMMA ChainedOn ==
  ASSUME NEW q \in AnyQueue, NEW all \in Seq(GoodRecord), NEW warning \in BOOLEAN, NEW asErrors \in BOOLEAN
  PROVE  LET c == Chained(q, all, warning, asErrors) IN
         /\ c[0] = q
         /\ \A i \in 1 .. Len(all) : c[i] = copy_error_to_zval(c[i - 1], all[i], warning, asErrors)
<1> DEFINE Def(c) == c = [i \in 0 .. Len(all) |->
                           IF i = 0 THEN q ELSE copy_error_to_zval(c[i - 1], all[i], warning, asErrors)]
           step == [x \in (1 .. Len(all)) \X AnyQueue |->
                      copy_error_to_zval(x[2], all[x[1]], warning, asErrors)]
<1>0. Len(all) \in Nat /\ \A i \in 1 .. Len(all) : all[i] \in GoodRecord
  OBVIOUS
<1>1. step \in [(1 .. Len(all)) \X AnyQueue -> AnyQueue]
  <2>1. ASSUME NEW x \in (1 .. Len(all)) \X AnyQueue
        PROVE  copy_error_to_zval(x[2], all[x[1]], warning, asErrors) \in AnyQueue
    <3>1. x[2] \in AnyQueue /\ all[x[1]] \in GoodRecord
      BY <1>0
    <3> QED
      BY <3>1, CopiedOne
  <2> QED
    BY <2>1
<1>2. PICK f \in [0 .. Len(all) -> AnyQueue] :
        f[0] = q /\ \A i \in 1 .. Len(all) : f[i] = step[<<i, f[i - 1]>>]
  <2>1. step \in StepsOver(Len(all), AnyQueue)
    BY <1>1 DEF StepsOver
  <2> HIDE DEF step
  <2>2. \E f : Stepwise(f, Len(all), AnyQueue, q, step)
    BY <1>0, <2>1, StepwiseExists
  <2> QED
    BY <2>2 DEF Stepwise
<1>3. ASSUME NEW i \in 1 .. Len(all)
      PROVE  f[i] = copy_error_to_zval(f[i - 1], all[i], warning, asErrors)
  <2>1. <<i, f[i - 1]>> \in (1 .. Len(all)) \X AnyQueue
    BY <1>0
  <2>2. step[<<i, f[i - 1]>>] = copy_error_to_zval(f[i - 1], all[i], warning, asErrors)
    BY <2>1
  <2> QED
    BY <1>2, <2>2
<1>4. Def(f)
  BY <1>0, <1>2, <1>3
<1>5. Chained(q, all, warning, asErrors) = CHOOSE c : Def(c)
  BY DEF Chained
<1>6. Def(Chained(q, all, warning, asErrors))
  <2> HIDE DEF Def
  <2> QED
    BY <1>4, <1>5
<1> HIDE DEF step
<1> DEFINE c == Chained(q, all, warning, asErrors)
<1>7. c[0] = q
  BY <1>0, <1>6
<1>8. ASSUME NEW i \in 1 .. Len(all)
      PROVE  c[i] = copy_error_to_zval(c[i - 1], all[i], warning, asErrors)
  <2>1. i \in 0 .. Len(all) /\ i # 0
    BY <1>0
  <2> HIDE DEF c
  <2> QED
    BY <1>6, <2>1 DEF c
<1> QED
  BY <1>7, <1>8

LEMMA QueueCounts ==
  ASSUME NEW q \in AnyQueue
  PROVE  Told(q) \in Nat /\ Failed(q) \in Nat /\ (Failed(q) = 0 <=> q.errors = << >>)
<1>1. PICK e \in Seq(GoodRecord), w \in Seq(GoodRecord) : e = q.errors /\ w = q.warnings
  BY DEF AnyQueue
<1>2. Len(e) \in Nat /\ Len(w) \in Nat /\ (Len(e) = 0 <=> e = << >>)
  OBVIOUS
<1>3. Len(e) + Len(w) \in Nat
  BY <1>2
<1> QED
  BY <1>1, <1>2, <1>3, Zenon DEF Told, Failed

LEMMA ChainTold ==
  ASSUME NEW q \in AnyQueue, NEW all \in Seq(GoodRecord), NEW warning \in BOOLEAN, NEW asErrors \in BOOLEAN,
         NEW c, c = Chained(q, all, warning, asErrors)[Len(all)]
  PROVE  /\ c \in AnyQueue
         /\ Told(c) = Told(q) + Len(all)
         /\ ~warning /\ Len(all) > 0 => Failed(c) > Failed(q)
         /\ warning /\ ~asErrors => c.errors = q.errors
<1>1. PICK f : f = Chained(q, all, warning, asErrors)
  OBVIOUS
<1>2. f[0] = q /\ \A i \in 1 .. Len(all) : f[i] = copy_error_to_zval(f[i - 1], all[i], warning, asErrors)
  BY <1>1, ChainedOn
<1>3. Len(all) \in Nat /\ \A i \in 1 .. Len(all) : all[i] \in GoodRecord
  OBVIOUS
<1>4. Told(q) \in Nat /\ Failed(q) \in Nat
  BY QueueCounts
<1>5. \A i \in 0 .. Len(all) : f[i] \in AnyQueue /\ Told(f[i]) = Told(q) + i /\ Failed(f[i]) >= Failed(q)
  <2> DEFINE T == { i \in 0 .. Len(all) :
                      f[i] \in AnyQueue /\ Told(f[i]) = Told(q) + i /\ Failed(f[i]) >= Failed(q) }
  <2>1. 0 \in T
    BY <1>2, <1>3, <1>4
  <2>2. ASSUME NEW i \in 1 .. Len(all), i - 1 \in T PROVE i \in T
    <3>1. f[i - 1] \in AnyQueue /\ Told(f[i - 1]) = Told(q) + (i - 1) /\ Failed(f[i - 1]) >= Failed(q)
      BY <2>2
    <3>2. /\ f[i] \in AnyQueue /\ Told(f[i]) = Told(f[i - 1]) + 1
          /\ Failed(f[i]) >= Failed(f[i - 1])
      BY <1>2, <1>3, <3>1, CopiedOne
    <3>3. Failed(f[i]) \in Nat /\ Failed(f[i - 1]) \in Nat
      BY <3>1, <3>2, QueueCounts
    <3>4. Told(f[i]) = Told(q) + i /\ Failed(f[i]) >= Failed(q)
      BY <1>4, <3>1, <3>2, <3>3
    <3> QED
      BY <1>3, <3>2, <3>4
  <2> HIDE DEF T
  <2>3. 0 .. Len(all) \subseteq T
    BY <1>3, <2>1, <2>2, UpTheNumbers
  <2> QED
    BY <2>3 DEF T
<1>6. ASSUME ~warning, Len(all) > 0 PROVE Failed(c) > Failed(q)
  <2>1. f[Len(all) - 1] \in AnyQueue /\ Failed(f[Len(all) - 1]) >= Failed(q) /\ Failed(f[Len(all)]) \in Nat
    BY <1>3, <1>5, <1>6, QueueCounts
  <2>2. f[Len(all)] = copy_error_to_zval(f[Len(all) - 1], all[Len(all)], warning, asErrors)
        /\ all[Len(all)] \in GoodRecord
    BY <1>2, <1>3, <1>6
  <2>3. Failed(f[Len(all)]) > Failed(f[Len(all) - 1])
    BY <1>6, <2>1, <2>2, CopiedOne, Zenon
  <2>4. Failed(f[Len(all) - 1]) \in Nat
    BY <2>1, QueueCounts
  <2>5. Failed(f[Len(all)]) > Failed(q)
    BY <1>4, <2>1, <2>3, <2>4
  <2> QED
    BY <1>1, <2>5
<1>7. ASSUME warning, ~asErrors PROVE c.errors = q.errors
  <2> DEFINE T == { i \in 0 .. Len(all) : f[i].errors = q.errors }
  <2>1. 0 \in T
    BY <1>2, <1>3
  <2>2. ASSUME NEW i \in 1 .. Len(all), i - 1 \in T PROVE i \in T
    <3>1. f[i - 1] \in AnyQueue /\ f[i - 1].errors = q.errors /\ i \in 0 .. Len(all)
      BY <1>3, <1>5, <2>2
    <3>2. f[i] = copy_error_to_zval(f[i - 1], all[i], warning, asErrors) /\ all[i] \in GoodRecord
      BY <1>2, <1>3
    <3>3. PICK before \in AnyQueue, r \in GoodRecord : before = f[i - 1] /\ r = all[i]
      BY <3>1, <3>2
    <3>4. PICK after : after = f[i]
      OBVIOUS
    <3>5. after = copy_error_to_zval(before, r, warning, asErrors)
      BY <3>2, <3>3, <3>4
    <3>6. after.errors = before.errors
      BY <1>7, <3>5, CopiedOne
    <3> QED
      BY <3>1, <3>3, <3>4, <3>6
  <2> HIDE DEF T
  <2>3. 0 .. Len(all) \subseteq T
    BY <1>3, <2>1, <2>2, UpTheNumbers
  <2> QED
    BY <1>1, <1>3, <2>3 DEF T
<1> QED
  BY <1>1, <1>3, <1>5, <1>6, <1>7

-----------------------------------------------------------------------------
(* What a function tells is consistent: it has errors when it failed.      *)
Consistent(q) == q \in AnyQueue /\ (Failed(q) = 0 <=> q.ignored)
AnyCheck      == [handle : AnyHandle, code : Int, warning : BOOLEAN]
Checked(q, m, asErrors) == handle_errors_and_warnings(q, m.handle, m.code, m.warning, asErrors)

LEMMA CheckTold ==
  ASSUME NEW q, Consistent(q), q.ignored, NEW m \in AnyCheck, NEW asErrors \in BOOLEAN,
         NEW d, d = Checked(q, m, asErrors)
  PROVE  /\ Consistent(d)
         /\ d.ignored => Told(d) = Told(q) + ToTell(m)
         /\ m.warning /\ ~asErrors => d.ignored
<1>1. m.handle \in AnyHandle /\ m.code \in Int /\ m.warning \in BOOLEAN
  BY DEF AnyCheck
<1>2. q \in AnyQueue /\ Failed(q) = 0
  BY Zenon DEF Consistent
<1>3. PICK all : all = Gathered(m.handle, m.code, m.warning)
  OBVIOUS
<1>4. all \in Seq(GoodRecord)
  BY <1>1, <1>3, GatheredRead
<1>5. PICK c : c = Chained(q, all, m.warning, asErrors)[Len(all)]
  OBVIOUS
<1>6. /\ c \in AnyQueue
      /\ Told(c) = Told(q) + Len(all)
      /\ ~m.warning /\ Len(all) > 0 => Failed(c) > Failed(q)
      /\ m.warning /\ ~asErrors => c.errors = q.errors
  BY <1>1, <1>2, <1>4, <1>5, ChainTold
<1>7. PICK ign \in BOOLEAN : ign <=> (m.warning /\ (asErrors => Failed(c) = Failed(q)))
  BY Zenon
<1>8. d = [c EXCEPT !.ignored = ign]
  BY <1>3, <1>5, <1>7, Zenon DEF Checked, handle_errors_and_warnings, Failed
<1>9. d \in AnyQueue /\ d.errors = c.errors /\ d.warnings = c.warnings /\ d.ignored = ign
  BY <1>6, <1>8 DEF AnyQueue
<1>10. Told(d) = Told(c) /\ Failed(d) = Failed(c)
  BY <1>9, Zenon DEF Told, Failed
<1>11. Failed(c) \in Nat
  BY <1>6, QueueCounts
<1>12. ~m.warning => Failed(c) # 0
  <2>1. ~m.warning => Len(all) > 0
    BY <1>1, <1>3, GatheredRead, Zenon
  <2>2. Failed(c) > Failed(q) => Failed(c) # 0
    BY <1>2, <1>11
  <2> QED
    BY <1>6, <2>1, <2>2, Zenon
<1>13. m.warning /\ ~asErrors => Failed(c) = 0
  BY <1>2, <1>6, Zenon DEF Failed
<1>14. Failed(d) = 0 <=> d.ignored
  BY <1>2, <1>7, <1>9, <1>10, <1>12, <1>13, Zenon
<1>15. m.warning => Len(all) = ToTell(m)
  BY <1>1, <1>3, GatheredRead, Zenon DEF ToTell
<1>16. d.ignored => m.warning
  BY <1>7, <1>9, Zenon
<1>17. d.ignored => Told(d) = Told(q) + ToTell(m)
  BY <1>6, <1>10, <1>15, <1>16, Zenon
<1> QED
  BY <1>9, <1>13, <1>10, <1>14, <1>17, Zenon DEF Consistent

LEMMA UpToSeq ==
  ASSUME NEW S, NEW n \in Nat, NEW s \in UpTo(S, n)
  PROVE  s \in Seq(S) /\ Len(s) \in Nat /\ DOMAIN s = 1 .. Len(s) /\ \A i \in 1 .. Len(s) : s[i] \in S
<1>1. PICK m \in 0 .. n : s \in [1 .. m -> S]
  BY DEF UpTo
<1>2. s \in Seq(S)
  BY <1>1
<1> QED
  BY <1>2

LEMMA NothingYetTold == Consistent(reset_errors) /\ reset_errors.ignored /\ Told(reset_errors) = 0
<1>1. PICK t \in BOOLEAN : t = TRUE
  OBVIOUS
<1>2. PICK q : q = [errors |-> << >>, warnings |-> << >>, ignored |-> t]
  OBVIOUS
<1>3. q \in AnyQueue /\ q.errors = << >> /\ q.warnings = << >> /\ q.ignored = t
  BY <1>2 DEF AnyQueue
<1>4. Len(<< >>) = 0 /\ 0 + 0 = 0
  OBVIOUS
<1>5. Told(q) = 0 /\ Failed(q) = 0
  BY <1>3, <1>4, Zenon DEF Told, Failed
<1>6. reset_errors = q
  BY <1>1, <1>2, Zenon DEF reset_errors
<1> QED
  BY <1>1, <1>3, <1>5, <1>6, Zenon DEF Consistent

(* The checks of a function, one after the other.                          *)
LEMMA ChecksOn ==
  ASSUME NEW checks \in Seq(AnyCheck), NEW asErrors \in BOOLEAN,
         NEW f, f = Checks(checks, asErrors)
  PROVE  /\ f[0] = reset_errors
         /\ \A i \in 1 .. Len(checks) :
              f[i] = IF ~f[i - 1].ignored THEN f[i - 1] ELSE Checked(f[i - 1], checks[i], asErrors)
<1> DEFINE Def(c) == c = [i \in 0 .. Len(checks) |->
                           IF i = 0 THEN reset_errors
                           ELSE IF ~c[i - 1].ignored THEN c[i - 1]
                           ELSE Checked(c[i - 1], checks[i], asErrors)]
           S == { q \in AnyQueue : Consistent(q) }
           step == [x \in (1 .. Len(checks)) \X S |->
                      IF ~x[2].ignored THEN x[2] ELSE Checked(x[2], checks[x[1]], asErrors)]
<1>0. Len(checks) \in Nat /\ \A i \in 1 .. Len(checks) : checks[i] \in AnyCheck
  OBVIOUS
<1>1. step \in StepsOver(Len(checks), S)
  <2>1. ASSUME NEW x \in (1 .. Len(checks)) \X S
        PROVE  (IF ~x[2].ignored THEN x[2] ELSE Checked(x[2], checks[x[1]], asErrors)) \in S
    <3>1. x[2] \in S /\ Consistent(x[2]) /\ checks[x[1]] \in AnyCheck
      BY <1>0
    <3>2. CASE x[2].ignored
      <4>1. Consistent(Checked(x[2], checks[x[1]], asErrors))
        BY <3>1, <3>2, CheckTold, Zenon
      <4>2. Checked(x[2], checks[x[1]], asErrors) \in S
        BY <4>1, Zenon DEF Consistent
      <4> QED
        BY <3>2, <4>2, Zenon
    <3>3. CASE ~x[2].ignored
      BY <3>1, <3>3, Zenon
    <3> QED
      BY <3>2, <3>3
  <2>2. step \in [(1 .. Len(checks)) \X S -> S]
    <3> HIDE DEF S
    <3> QED
      BY <2>1
  <2> QED
    BY <2>2, Zenon DEF StepsOver
<1>2. PICK g \in [0 .. Len(checks) -> S] :
        g[0] = reset_errors /\ \A i \in 1 .. Len(checks) : g[i] = step[<<i, g[i - 1]>>]
  <2>1. reset_errors \in S
    BY NothingYetTold, Zenon DEF Consistent
  <2> HIDE DEF step, S
  <2>2. \E g : Stepwise(g, Len(checks), S, reset_errors, step)
    BY <1>0, <1>1, <2>1, StepwiseExists
  <2> QED
    BY <2>2 DEF Stepwise
<1>3. ASSUME NEW i \in 1 .. Len(checks)
      PROVE  g[i] = IF ~g[i - 1].ignored THEN g[i - 1] ELSE Checked(g[i - 1], checks[i], asErrors)
  <2> HIDE DEF S
  <2>1. <<i, g[i - 1]>> \in (1 .. Len(checks)) \X S
    BY <1>0
  <2>2. step[<<i, g[i - 1]>>] = IF ~g[i - 1].ignored THEN g[i - 1] ELSE Checked(g[i - 1], checks[i], asErrors)
    BY <2>1
  <2> QED
    BY <1>2, <2>2
<1> HIDE DEF step, S
<1>4. Def(g)
  BY <1>0, <1>2, <1>3
<1>5. Checks(checks, asErrors) = CHOOSE c : Def(c)
  BY DEF Checks, Checked
<1>6. Def(f)
  <2> HIDE DEF Def
  <2> QED
    BY <1>4, <1>5
<1> QED
  BY <1>0, <1>6

LEMMA CheckTells ==
  ASSUME NEW m \in AnyCheck
  PROVE  ToTell(m) \in Nat
<1>1. PICK l \in Nat : l = Len(RecordsOf(m.handle))
  <2>1. m.handle \in AnyHandle
    BY DEF AnyCheck
  <2> QED
    BY <2>1, HandleRead
<1>2. PICK o \in {0, 1} : o = IF m.code = Odbc THEN 0 ELSE 1
  OBVIOUS
<1>3. l + o \in Nat
  OBVIOUS
<1> QED
  BY <1>1, <1>2, <1>3, Zenon DEF ToTell

LEMMA AvailableOn ==
  ASSUME NEW checks \in Seq(AnyCheck), NEW f, f = Available(checks)
  PROVE  f[0] = 0 /\ \A i \in 1 .. Len(checks) : f[i - 1] \in Nat /\ f[i] = f[i - 1] + ToTell(checks[i])
<1> DEFINE Def(c) == c = [i \in 0 .. Len(checks) |-> IF i = 0 THEN 0 ELSE c[i - 1] + ToTell(checks[i])]
           step == [x \in (1 .. Len(checks)) \X Nat |-> x[2] + ToTell(checks[x[1]])]
<1>0. Len(checks) \in Nat /\ \A i \in 1 .. Len(checks) : ToTell(checks[i]) \in Nat
  BY CheckTells
<1>1. step \in StepsOver(Len(checks), Nat)
  <2>1. ASSUME NEW x \in (1 .. Len(checks)) \X Nat PROVE x[2] + ToTell(checks[x[1]]) \in Nat
    <3>1. x[2] \in Nat /\ x[1] \in 1 .. Len(checks)
      OBVIOUS
    <3>2. ToTell(checks[x[1]]) \in Nat
      BY <1>0, <3>1
    <3> QED
      BY <3>1, <3>2
  <2>2. step \in [(1 .. Len(checks)) \X Nat -> Nat]
    BY <2>1
  <2> QED
    BY <2>2, Zenon DEF StepsOver
<1>2. PICK g \in [0 .. Len(checks) -> Nat] :
        g[0] = 0 /\ \A i \in 1 .. Len(checks) : g[i] = step[<<i, g[i - 1]>>]
  <2> HIDE DEF step
  <2>1. \E g : Stepwise(g, Len(checks), Nat, 0, step)
    BY <1>0, <1>1, StepwiseExists
  <2> QED
    BY <2>1 DEF Stepwise
<1>3. ASSUME NEW i \in 1 .. Len(checks) PROVE g[i] = g[i - 1] + ToTell(checks[i])
  <2>1. i - 1 \in 0 .. Len(checks) /\ g[i - 1] \in Nat /\ <<i, g[i - 1]>> \in (1 .. Len(checks)) \X Nat
    BY <1>0
  <2>2. step[<<i, g[i - 1]>>] = g[i - 1] + ToTell(checks[i])
    BY <2>1
  <2> QED
    BY <1>2, <2>2
<1> HIDE DEF step
<1>4. Def(g)
  BY <1>0, <1>2, <1>3
<1>5. Available(checks) = CHOOSE c : Def(c)
  BY DEF Available
<1>6. Def(f)
  <2> HIDE DEF Def
  <2> QED
    BY <1>4, <1>5
<1>7. f[0] = 0 /\ \A i \in 1 .. Len(checks) : f[i] = f[i - 1] + ToTell(checks[i])
  BY <1>0, <1>6
<1> DEFINE T == { i \in 0 .. Len(checks) : f[i] \in Nat }
<1>8. 0 .. Len(checks) \subseteq T
  <2>1. 0 \in T
    BY <1>0, <1>7
  <2>2. ASSUME NEW i \in 1 .. Len(checks), i - 1 \in T PROVE i \in T
    <3>1. f[i - 1] \in Nat /\ ToTell(checks[i]) \in Nat /\ f[i] = f[i - 1] + ToTell(checks[i])
      BY <1>0, <1>7, <2>2
    <3> QED
      BY <1>0, <3>1
  <2> HIDE DEF T
  <2> QED
    BY <1>0, <2>1, <2>2, UpTheNumbers
<1>9. ASSUME NEW i \in 1 .. Len(checks) PROVE f[i - 1] \in Nat
  <2>1. i - 1 \in 0 .. Len(checks)
    BY <1>0
  <2> QED
    BY <1>8, <2>1
<1> QED
  BY <1>7, <1>9

(* After each check, what is told agrees with what the function did.       *)
LEMMA FunctionTells ==
  ASSUME NEW checks \in Seq(AnyCheck), NEW asErrors \in BOOLEAN,
         NEW n \in 0 .. Len(checks), NEW q, q = Checks(checks, asErrors)[n]
  PROVE  /\ Consistent(q)
         /\ q.ignored => Told(q) = Available(checks)[n]
         /\ ~asErrors /\ (\A i \in 1 .. Len(checks) : checks[i].warning) => q.ignored
<1>0. Len(checks) \in Nat /\ \A i \in 1 .. Len(checks) : checks[i] \in AnyCheck
  OBVIOUS
<1>1. PICK f : f = Checks(checks, asErrors)
  OBVIOUS
<1>2. /\ f[0] = reset_errors
      /\ \A i \in 1 .. Len(checks) :
           f[i] = IF ~f[i - 1].ignored THEN f[i - 1] ELSE Checked(f[i - 1], checks[i], asErrors)
  BY <1>1, ChecksOn
<1>3. PICK a : a = Available(checks)
  OBVIOUS
<1>4. a[0] = 0 /\ \A i \in 1 .. Len(checks) : a[i] = a[i - 1] + ToTell(checks[i])
  BY <1>3, AvailableOn
<1> DEFINE Warned == ~asErrors /\ \A i \in 1 .. Len(checks) : checks[i].warning
           Right(i) == /\ Consistent(f[i])
                       /\ f[i].ignored => Told(f[i]) = a[i]
                       /\ Warned => f[i].ignored
           T == { i \in 0 .. Len(checks) : Right(i) }
<1>5. Right(0)
  BY <1>2, <1>4, NothingYetTold, Zenon
<1>6. ASSUME NEW i \in 1 .. Len(checks), Right(i - 1) PROVE Right(i)
  <2>7. checks[i] \in AnyCheck
    BY <1>0
  <2>8. PICK m \in AnyCheck : m = checks[i]
    BY <2>7
  <2>9. PICK before : before = f[i - 1]
    OBVIOUS
  <2>10. PICK after : after = f[i]
    OBVIOUS
  <2>1. before = f[i - 1] /\ m = checks[i] /\ after = f[i]
    BY <2>8, <2>9, <2>10
  <2>2. Consistent(before) /\ (before.ignored => Told(before) = a[i - 1]) /\ (Warned => before.ignored)
    BY <1>6, <2>1, Zenon
  <2>3. after = IF ~before.ignored THEN before ELSE Checked(before, m, asErrors)
    BY <1>2, <2>1, Zenon
  <2>4. a[i] = a[i - 1] + ToTell(m)
    BY <1>4, <2>1
  <2>5. CASE ~before.ignored
    BY <2>1, <2>2, <2>3, <2>5, Zenon
  <2>6. CASE before.ignored
    <3>1. after = Checked(before, m, asErrors)
      BY <2>3, <2>6, Zenon
    <3>2. /\ Consistent(after)
          /\ after.ignored => Told(after) = Told(before) + ToTell(m)
          /\ m.warning /\ ~asErrors => after.ignored
      BY <2>2, <2>6, <3>1, CheckTold
    <3>3. after.ignored => Told(after) = a[i]
      BY <2>2, <2>4, <2>6, <3>2, Zenon
    <3>4. Warned => after.ignored
      BY <2>1, <3>2, Zenon
    <3> QED
      BY <2>1, <3>2, <3>3, <3>4, Zenon
  <2> QED
    BY <2>5, <2>6
<1> HIDE DEF Right
<1>7. 0 \in T
  BY <1>0, <1>5
<1>8. ASSUME NEW i \in 1 .. Len(checks), i - 1 \in T PROVE i \in T
  <2>1. Right(i - 1) /\ i \in 0 .. Len(checks)
    BY <1>0, <1>8
  <2> QED
    BY <1>6, <2>1
<1>9. 0 .. Len(checks) \subseteq T
  <2> HIDE DEF T
  <2> QED
    BY <1>0, <1>7, <1>8, UpTheNumbers
<1>10. Right(n)
  BY <1>9
<1> QED
  BY <1>1, <1>3, <1>10, Zenon DEF Right

LEMMA MetAreChecks == Met \subseteq AnyCheck
<1> SUFFICES ASSUME NEW m \in Met PROVE m \in AnyCheck
  OBVIOUS
<1>1. PICK o \in RecordLists, w \in Own : m.handle = Handle(o, w)
  BY DEF Met
<1>2. o \in Seq(Records)
  BY UpToSeq, DiagnosticsAssumption DEF RecordLists
<1>3. Records \subseteq AnyRecord
  BY DEF AnyRecord
<1>4. o \in Seq(AnyRecord)
  BY <1>2, <1>3
<1>5. m.handle \in AnyHandle
  BY <1>1, <1>4 DEF Handle, AnyHandle
<1>6. m = [handle |-> m.handle, code |-> m.code, warning |-> m.warning] /\ m.warning \in BOOLEAN
  BY DEF Met
<1>7. m.code \in {0, -33} /\ {0, -33} \subseteq Int
  BY DEF Met, Odbc
<1>8. m.code \in Int
  BY <1>7
<1> QED
  BY <1>5, <1>6, <1>8 DEF AnyCheck

LEMMA FailsWithErrorsHolds == FailsWithErrors
<1> SUFFICES ASSUME NEW checks \in UpTo(Met, MaxErrors), NEW asErrors \in BOOLEAN
    PROVE  LET q   == Checks(checks, asErrors)[Len(checks)]
               all == sqlsrv_errors(q, "all") IN
           /\ (sqlsrv_errors(q, "errors") = << >>) <=> q.ignored
           /\ \A i \in DOMAIN all : all[i].readable
           /\ q.ignored => Len(all) = Available(checks)[Len(checks)]
           /\ ~asErrors /\ (\A i \in DOMAIN checks : checks[i].warning) => q.ignored
  BY DEF FailsWithErrors
<1>1. checks \in Seq(Met) /\ Len(checks) \in Nat /\ DOMAIN checks = 1 .. Len(checks)
  BY UpToSeq, DiagnosticsAssumption
<1>2. checks \in Seq(AnyCheck)
  BY <1>1, MetAreChecks
<1>3. PICK q : q = Checks(checks, asErrors)[Len(checks)]
  OBVIOUS
<1>4. Len(checks) \in 0 .. Len(checks)
  BY <1>1
<1>5. /\ Consistent(q)
      /\ q.ignored => Told(q) = Available(checks)[Len(checks)]
      /\ ~asErrors /\ (\A i \in 1 .. Len(checks) : checks[i].warning) => q.ignored
  BY <1>2, <1>3, <1>4, FunctionTells
<1>6. q \in AnyQueue /\ (Failed(q) = 0 <=> q.ignored)
  BY <1>5, Zenon DEF Consistent
<1>7. PICK e \in Seq(GoodRecord), w \in Seq(GoodRecord) : e = q.errors /\ w = q.warnings
  BY <1>6 DEF AnyQueue
<1>8. sqlsrv_errors(q, "errors") = e /\ sqlsrv_errors(q, "all") = e \o w
  <2>1. sqlsrv_errors(q, "errors") = e \o << >>
    BY <1>7 DEF sqlsrv_errors
  <2>2. sqlsrv_errors(q, "all") = e \o w
    BY <1>7, Zenon DEF sqlsrv_errors
  <2> QED
    BY <2>1, <2>2, ConcatEmptySeq
<1>9. e \o w \in Seq(GoodRecord) /\ Len(e \o w) = Len(e) + Len(w)
  BY ConcatProperties
<1>10. \A i \in DOMAIN (e \o w) : (e \o w)[i].readable
  <2>1. ASSUME NEW i \in DOMAIN (e \o w) PROVE (e \o w)[i] \in GoodRecord
    BY <1>9
  <2> QED
    BY <2>1, Zenon DEF GoodRecord
<1>11. Told(q) = Len(e \o w)
  BY <1>7, <1>9, Zenon DEF Told
<1>12. (e = << >>) <=> q.ignored
  BY <1>6, <1>7, QueueCounts, Zenon
<1> QED
  BY <1>1, <1>3, <1>5, <1>8, <1>10, <1>11, <1>12, Zenon

-----------------------------------------------------------------------------
(* The errors that the calls before left.                                  *)
LEMMA OperationTyped ==
  ASSUME NEW op \in Operations
  PROVE  op.error \in Seq(AnyRecord) /\ op.buffered \in BOOLEAN /\ (op.buffered => op.error \in Own)
<1>1. Own \subseteq Seq(AnyRecord)
  <2>1. OfDriver(-33) \in AnyRecord
    BY DEF AnyRecord
  <2> QED
    BY <2>1 DEF Own, NoError
<1>2. Errors \subseteq Seq(AnyRecord)
  <2>1. Errors \subseteq RecordLists
    BY DEF Errors
  <2>2. ASSUME NEW o \in RecordLists PROVE o \in Seq(AnyRecord)
    <3>1. o \in Seq(Records)
      BY UpToSeq, DiagnosticsAssumption DEF RecordLists
    <3>2. Records \subseteq AnyRecord
      BY DEF AnyRecord
    <3> QED
      BY <3>1, <3>2
  <2> QED
    BY <2>1, <2>2
<1>3. /\ op \in [buffered : BOOLEAN, error : Errors \cup Own]
      /\ op.buffered => op.error \in Own
  BY Zenon DEF Operations
<1>4. op.buffered \in BOOLEAN /\ op.error \in Errors \cup Own
  BY <1>3
<1> QED
  BY <1>1, <1>2, <1>3, <1>4, Zenon

LEMMA AfterCall ==
  ASSUME NEW h \in AnyHandle, NEW op \in Operations, NEW a, a = After(h, op)
  PROVE  /\ a \in AnyHandle
         /\ op.buffered => a.own = op.error
         /\ ~op.buffered => a.own = h.own /\ a.odbc = op.error
<1>1. op.error \in Seq(AnyRecord) /\ op.buffered \in BOOLEAN /\ (op.buffered => op.error \in Own)
  BY OperationTyped
<1>2. CASE op.buffered
  <2>1. a = [h EXCEPT !.own = op.error]
    BY <1>2, Zenon DEF After, OwnAfter
  <2>2. a \in AnyHandle /\ a.own = op.error
    BY <1>1, <1>2, <2>1 DEF AnyHandle
  <2> QED
    BY <1>2, <2>2, Zenon
<1>3. CASE ~op.buffered
  <2>1. a = [h EXCEPT !.odbc = op.error]
    BY <1>3, Zenon DEF After
  <2>2. a \in AnyHandle /\ a.own = h.own /\ a.odbc = op.error
    BY <1>1, <2>1 DEF AnyHandle
  <2> QED
    BY <1>3, <2>2, Zenon
<1> QED
  BY <1>1, <1>2, <1>3

LEMMA NoCallYet == Handle(NoError, NoError) \in AnyHandle /\ Handle(NoError, NoError).own = NoError
<1>1. NoError \in Seq(AnyRecord) /\ NoError \in Own
  BY DEF NoError, Own
<1> QED
  BY <1>1 DEF Handle, AnyHandle

LEMMA LeftOn ==
  ASSUME NEW ops \in Seq(Operations), NEW f, f = Left(ops)
  PROVE  /\ f[0] = Handle(NoError, NoError)
         /\ \A i \in 0 .. Len(ops) : f[i] \in AnyHandle
         /\ \A i \in 1 .. Len(ops) : f[i] = After(f[i - 1], ops[i])
<1> DEFINE Def(c) == c = [i \in 0 .. Len(ops) |->
                           IF i = 0 THEN Handle(NoError, NoError) ELSE After(c[i - 1], ops[i])]
           step == [x \in (1 .. Len(ops)) \X AnyHandle |-> After(x[2], ops[x[1]])]
<1>0. Len(ops) \in Nat /\ \A i \in 1 .. Len(ops) : ops[i] \in Operations
  OBVIOUS
<1>1. step \in StepsOver(Len(ops), AnyHandle)
  <2>1. ASSUME NEW x \in (1 .. Len(ops)) \X AnyHandle PROVE After(x[2], ops[x[1]]) \in AnyHandle
    <3>1. x[2] \in AnyHandle /\ ops[x[1]] \in Operations
      BY <1>0
    <3> QED
      BY <3>1, AfterCall
  <2>2. step \in [(1 .. Len(ops)) \X AnyHandle -> AnyHandle]
    BY <2>1
  <2> QED
    BY <2>2, Zenon DEF StepsOver
<1>2. PICK g \in [0 .. Len(ops) -> AnyHandle] :
        g[0] = Handle(NoError, NoError) /\ \A i \in 1 .. Len(ops) : g[i] = step[<<i, g[i - 1]>>]
  <2> HIDE DEF step
  <2>1. \E g : Stepwise(g, Len(ops), AnyHandle, Handle(NoError, NoError), step)
    BY <1>0, <1>1, NoCallYet, StepwiseExists
  <2> QED
    BY <2>1 DEF Stepwise
<1>3. ASSUME NEW i \in 1 .. Len(ops) PROVE g[i] = After(g[i - 1], ops[i])
  <2>1. <<i, g[i - 1]>> \in (1 .. Len(ops)) \X AnyHandle
    BY <1>0
  <2>2. step[<<i, g[i - 1]>>] = After(g[i - 1], ops[i])
    BY <2>1
  <2> QED
    BY <1>2, <2>2
<1> HIDE DEF step
<1>4. Def(g)
  BY <1>0, <1>2, <1>3
<1>5. Left(ops) = CHOOSE c : Def(c)
  BY DEF Left
<1>6. Def(f)
  <2> HIDE DEF Def
  <2> QED
    BY <1>4, <1>5
<1>7. f[0] = Handle(NoError, NoError) /\ \A i \in 1 .. Len(ops) : f[i] = After(f[i - 1], ops[i])
  BY <1>0, <1>6
<1> DEFINE T == { i \in 0 .. Len(ops) : f[i] \in AnyHandle }
<1>8. 0 .. Len(ops) \subseteq T
  <2>1. 0 \in T
    BY <1>0, <1>7, NoCallYet
  <2>2. ASSUME NEW i \in 1 .. Len(ops), i - 1 \in T PROVE i \in T
    <3>1. f[i - 1] \in AnyHandle /\ ops[i] \in Operations /\ f[i] = After(f[i - 1], ops[i])
      BY <1>0, <1>7, <2>2
    <3>2. f[i] \in AnyHandle
      BY <3>1, AfterCall
    <3> QED
      BY <1>0, <3>2
  <2> HIDE DEF T
  <2> QED
    BY <1>0, <2>1, <2>2, UpTheNumbers
<1> QED
  BY <1>7, <1>8

(* The buffered result set has an error exactly when its last call failed. *)
LEMMA LastOwnStands ==
  ASSUME NEW ops \in Seq(Operations), NEW h, h = Left(ops)[Len(ops)], ~Stands(ops)
  PROVE  h \in AnyHandle /\ h.own = NoError
<1>0. Len(ops) \in Nat /\ DOMAIN ops = 1 .. Len(ops) /\ \A i \in 1 .. Len(ops) : ops[i] \in Operations
  OBVIOUS
<1>1. PICK f : f = Left(ops)
  OBVIOUS
<1>2. /\ f[0] = Handle(NoError, NoError)
      /\ \A i \in 1 .. Len(ops) : f[i] = After(f[i - 1], ops[i])
  BY <1>1, LeftOn
<1> DEFINE Since(i, j) == /\ ops[j].buffered /\ ops[j].error # NoError
                          /\ \A k \in 1 .. i : k > j => ~ops[k].buffered
           T == { i \in 0 .. Len(ops) :
                    f[i] \in AnyHandle /\ (f[i].own = NoError \/ \E j \in 1 .. i : Since(i, j)) }
<1>3. 0 \in T
  BY <1>0, <1>2, NoCallYet
<1>4. ASSUME NEW i \in 1 .. Len(ops), i - 1 \in T PROVE i \in T
  <2>0. i \in 0 .. Len(ops) /\ i - 1 \in 0 .. Len(ops)
    BY <1>0
  <2>1. f[i - 1] \in AnyHandle /\ (f[i - 1].own = NoError \/ \E j \in 1 .. i - 1 : Since(i - 1, j))
    BY <1>4, Zenon
  <2>2. PICK op \in Operations : op = ops[i]
    BY <1>0
  <2>3. PICK before \in AnyHandle : before = f[i - 1]
    BY <2>1
  <2>4. PICK after : after = f[i]
    OBVIOUS
  <2>5. after = After(before, op)
    BY <1>2, <2>2, <2>3, <2>4
  <2>6. /\ after \in AnyHandle
        /\ op.buffered => after.own = op.error
        /\ ~op.buffered => after.own = before.own
    BY <2>5, AfterCall
  <2>7. after.own = NoError \/ \E j \in 1 .. i : Since(i, j)
    <3>1. CASE op.buffered
      <4>1. ASSUME op.error # NoError PROVE Since(i, i) /\ i \in 1 .. i
        <5>1. \A k \in 1 .. i : ~(k > i)
          OBVIOUS
        <5>2. i \in 1 .. i
          OBVIOUS
        <5> QED
          BY <2>2, <3>1, <4>1, <5>1, <5>2, Zenon
      <4> HIDE DEF Since
      <4> QED
        BY <2>6, <3>1, <4>1, Zenon
    <3>2. CASE ~op.buffered
      <4>1. ASSUME NEW j \in 1 .. i - 1, Since(i - 1, j) PROVE Since(i, j) /\ j \in 1 .. i
        <5>1. \A k \in 1 .. i : k = i \/ k \in 1 .. i - 1
          OBVIOUS
        <5>2. j \in 1 .. i
          OBVIOUS
        <5> QED
          BY <2>2, <3>2, <4>1, <5>1, <5>2, Zenon
      <4> HIDE DEF Since
      <4> QED
        BY <2>1, <2>3, <2>6, <3>2, <4>1, Zenon
    <3> QED
      BY <3>1, <3>2, Zenon
  <2> QED
    BY <2>0, <2>4, <2>6, <2>7, Zenon
<1>5. Len(ops) \in T
  <2> HIDE DEF T
  <2>1. 0 .. Len(ops) \subseteq T
    BY <1>0, <1>3, <1>4, UpTheNumbers
  <2> QED
    BY <1>0, <2>1
<1>6. ~ \E j \in 1 .. Len(ops) : Since(Len(ops), j)
  BY <1>0, Zenon DEF Stands
<1> QED
  BY <1>1, <1>5, <1>6, Zenon

LEMMA OwnErrorToldHolds == OwnErrorTold
<1> SUFFICES ASSUME NEW ops \in UpTo(Operations, MaxCalls), NEW last \in Operations,
                    last.error # NoError, last.buffered \/ ~Stands(ops)
    PROVE  RecordsOf(After(Left(ops)[Len(ops)], last)) = ReadableOf(last.error)
  BY Zenon DEF OwnErrorTold
<1>1. ops \in Seq(Operations)
  BY UpToSeq, DiagnosticsAssumption
<1>2. PICK h : h = Left(ops)[Len(ops)]
  OBVIOUS
<1>3. PICK a : a = After(h, last)
  OBVIOUS
<1>4. last.error \in Seq(AnyRecord) /\ (last.buffered => last.error \in Own)
  BY OperationTyped
<1>5. CASE last.buffered
  <2>1. a = [h EXCEPT !.own = last.error]
    BY <1>3, <1>5, Zenon DEF After, OwnAfter
  <2>2. h \in AnyHandle
    <3>1. Len(ops) \in 0 .. Len(ops)
      BY <1>1
    <3> QED
      BY <1>1, <1>2, <3>1, LeftOn
  <2>3. a.own = last.error
    BY <1>3, <1>5, <2>2, AfterCall
  <2>4. RecordsOf(a) = last.error
    BY <2>3 DEF RecordsOf
  <2>5. last.error = <<OfDriver(-33)>>
    BY <1>4, <1>5 DEF Own
  <2>6. ReadableOf(last.error) = last.error
    <3>1. PICK s \in Seq(AnyRecord) : s = last.error
      BY <1>4
    <3>2. s = <<OfDriver(-33)>>
      BY <2>5, <3>1
    <3>3. s[1].readable
      <4>1. s[1] = OfDriver(-33)
        BY <3>2
      <4>2. OfDriver(-33).readable
        BY Zenon DEF OfDriver
      <4> QED
        BY <4>1, <4>2, Zenon
    <3>4. s # << >> /\ Len(s) = 1
      BY <3>2
    <3>5. ReadableOf(s) # << >> /\ ReadableOf(s)[1] = s[1]
      BY <3>3, <3>4, FirstIsRead
    <3>6. ReadableOf(s) \in Seq(GoodRecord) /\ Len(ReadableOf(s)) \in 0 .. 1
      BY <3>4, ReadablePart, ReadableFound
    <3>7. ReadableOf(s) = s
      BY <3>4, <3>5, <3>6
    <3> QED
      BY <3>1, <3>7
  <2> QED
    BY <1>2, <1>3, <2>4, <2>6
<1>6. CASE ~last.buffered
  <2>1. ~Stands(ops)
    BY <1>6, Zenon
  <2>2. h \in AnyHandle /\ h.own = NoError
    BY <1>1, <1>2, <2>1, LastOwnStands
  <2>3. a.own = NoError /\ a.odbc = last.error
    BY <1>3, <1>6, <2>2, AfterCall
  <2>4. RecordsOf(a) = ReadableOf(last.error)
    BY <2>3 DEF RecordsOf
  <2> QED
    BY <1>2, <1>3, <2>4
<1> QED
  BY <1>5, <1>6, Zenon

-----------------------------------------------------------------------------
(* PDO::exec.                                                              *)
LEMMA FirstErrorFound ==
  ASSUME NEW items \in Seq(Items), NEW bad, bad = FirstErrorIn(items)
  PROVE  /\ bad \in 1 .. Len(items) + 1
         /\ bad # Len(items) + 1 => items[bad].error # NoError
         /\ \A j \in 1 .. bad - 1 : items[j].error = NoError
<1>0. Len(items) \in Nat
  OBVIOUS
<1> DEFINE Stops == { i \in 1 .. Len(items) + 1 : i # Len(items) + 1 => items[i].error # NoError }
<1>1. PICK m \in Stops : \A k \in Stops : m <= k
  <2>1. Stops \subseteq Nat /\ Len(items) + 1 \in Stops
    BY <1>0
  <2> HIDE DEF Stops
  <2> QED
    BY <2>1, LeastNumber
<1>2. m \in 1 .. Len(items) + 1 /\ (m # Len(items) + 1 => items[m].error # NoError)
  OBVIOUS
<1>3. ASSUME NEW j \in 1 .. m - 1 PROVE items[j].error = NoError
  <2>1. j \in 1 .. Len(items) + 1 /\ j # Len(items) + 1 /\ ~(m <= j)
    BY <1>0, <1>2
  <2>2. j \notin Stops
    <3> HIDE DEF Stops
    <3> QED
      BY <1>1, <2>1
  <2> QED
    BY <2>1, <2>2
<1> HIDE DEF Stops
<1>4. \E i \in 1 .. Len(items) + 1 : /\ i # Len(items) + 1 => items[i].error # NoError
                                     /\ \A j \in 1 .. i - 1 : items[j].error = NoError
  BY <1>2, <1>3
<1> QED
  BY <1>4 DEF FirstErrorIn

LEMMA ExecTellsFirstHolds == ExecTellsFirst
<1> SUFFICES ASSUME NEW items \in Batches
    PROVE  LET done  == pdo_sqlsrv_dbh_do(items)
               wrong == { i \in DOMAIN items : items[i].error # NoError }
               quiet == items[1].error = NoError /\ items[1].columns = 0 /\ items[1].rows <= 0 IN
           IF wrong = {} \/ quiet
           THEN done.rows >= 0 /\ done.connection = reset
           ELSE /\ done.rows = -1
                /\ \E i \in wrong : /\ done.connection.state = items[i].error[1].state
                                  /\ done.connection.last = items[i].error /\ \A j \in wrong : i <= j
  BY DEF ExecTellsFirst
<1>1. /\ items \in Seq(Items) /\ DOMAIN items = 1 .. Len(items) /\ Len(items) \in Nat
      /\ \A i \in 1 .. Len(items) : items[i] \in Items
  BY UpToSeq, DiagnosticsAssumption DEF Batches
<1>2. Len(items) \in 1 .. Len(items) /\ 1 \in 1 .. Len(items)
  <2>1. items # << >>
    BY DEF Batches
  <2> QED
    BY <1>1, <2>1
<1>3. PICK bad : bad = FirstErrorIn(items)
  OBVIOUS
<1>4. /\ bad \in 1 .. Len(items) + 1
      /\ bad # Len(items) + 1 => items[bad].error # NoError
      /\ \A j \in 1 .. bad - 1 : items[j].error = NoError
  BY <1>1, <1>3, FirstErrorFound
<1> DEFINE quiet == items[1].error = NoError /\ items[1].columns = 0 /\ items[1].rows <= 0
           wrong == { i \in 1 .. Len(items) : items[i].error # NoError }
<1>5. PICK seen : seen = IF items[1].error # NoError \/ core_sqlsrv_has_any_result(items[1])
                         THEN Len(items) ELSE 1
  OBVIOUS
<1>6. items[1].rows \in {-1, 0, 2} /\ items[1].columns \in {0, 1}
  BY <1>1, <1>2 DEF Items
<1>7. seen \in 1 .. Len(items) /\ (quiet => seen = 1) /\ (~quiet => seen = Len(items))
  BY <1>2, <1>5, <1>6 DEF core_sqlsrv_has_any_result
<1>8. PICK done : done = pdo_sqlsrv_dbh_do(items)
  OBVIOUS
<1>9. done = IF bad <= seen THEN [connection |-> Takes(items[bad].error), rows |-> -1]
             ELSE [connection |-> reset, rows |-> IF items[seen].rows = -1 THEN 0 ELSE items[seen].rows]
  BY <1>3, <1>5, <1>8 DEF pdo_sqlsrv_dbh_do
<1>10. ASSUME wrong = {} \/ quiet PROVE done.rows >= 0 /\ done.connection = reset
  <2>1. ~(bad <= seen)
    <3>1. CASE wrong = {}
      <4>1. bad = Len(items) + 1
        BY <1>1, <1>4, <3>1
      <4>2. seen \in 1 .. Len(items)
        BY <1>7
      <4> QED
        BY <1>1, <4>1, <4>2
    <3>2. CASE quiet
      BY <1>1, <1>2, <1>4, <1>7, <3>2
    <3> QED
      BY <1>10, <3>1, <3>2
  <2>2. items[seen].rows \in {-1, 0, 2}
    BY <1>1, <1>7 DEF Items
  <2>3. done = [connection |-> reset, rows |-> IF items[seen].rows = -1 THEN 0 ELSE items[seen].rows]
    BY <1>9, <2>1
  <2> QED
    BY <2>2, <2>3
<1>11. ASSUME wrong # {}, ~quiet
       PROVE  /\ done.rows = -1
              /\ \E i \in wrong : /\ done.connection.state = items[i].error[1].state
                                /\ done.connection.last = items[i].error /\ \A j \in wrong : i <= j
  <2>1. PICK j \in 1 .. Len(items) : items[j].error # NoError
    BY <1>11
  <2>2. bad \in 1 .. Len(items) /\ items[bad].error # NoError
    BY <1>1, <1>4, <2>1
  <2>3. bad <= seen
    <3>1. seen = Len(items)
      BY <1>7, <1>11
    <3> QED
      BY <1>1, <2>2, <3>1
  <2>4. done = [connection |-> Takes(items[bad].error), rows |-> -1]
    BY <1>9, <2>3
  <2>5. /\ done.rows = -1
        /\ done.connection.state = items[bad].error[1].state /\ done.connection.last = items[bad].error
    BY <2>4 DEF Takes
  <2>6. ASSUME NEW k \in wrong PROVE bad <= k
    BY <1>1, <1>4
  <2>7. bad \in wrong
    BY <2>2
  <2> QED
    BY <2>5, <2>6, <2>7
<1> QED
  BY <1>1, <1>8, <1>10, <1>11

-----------------------------------------------------------------------------
(* PDO's error handlers.                                                   *)
LEMMA StateIsFirstHolds == StateIsFirst
<1> SUFFICES ASSUME NEW m \in Met, NEW mode \in Modes, NEW ofStatement \in BOOLEAN, NEW more \in BOOLEAN
    PROVE  LET done == Handled(m.handle, m.code, m.warning, mode, ofStatement)
               info == errorInfo(done.object.last, more) IN
           /\ info # << >> /\ info[1].state = done.object.state /\ info[1].readable
           /\ done.thrown => ~done.raised /\ ~done.ignored
           /\ mode = "silent" => ~done.thrown /\ ~done.raised
  BY Zenon DEF StateIsFirst
<1>1. m.handle \in AnyHandle /\ m.code \in Int /\ m.warning \in BOOLEAN
  <2>1. m \in AnyCheck
    BY MetAreChecks
  <2> QED
    BY <2>1 DEF AnyCheck
<1>2. PICK last : last = format_or_get_all_errors(m.handle, m.code)
  OBVIOUS
<1>3. last \in Seq(GoodRecord) /\ last # << >>
  <2>1. <<OfDriver(m.code)>> \in Seq(GoodRecord) /\ <<Unavailable>> \in Seq(GoodRecord)
    BY <1>1, OwnRecord DEF Unavailable
  <2>2. RecordsOf(m.handle) \in Seq(GoodRecord)
    BY <1>1, HandleRead
  <2> QED
    BY <1>2, <2>1, <2>2 DEF format_or_get_all_errors
<1>4. PICK done : done = Handled(m.handle, m.code, m.warning, mode, ofStatement)
  OBVIOUS
<1>5. /\ done.object.state = last[1].state /\ done.object.last = last
      /\ done.thrown = (~m.warning /\ mode = "exception")
      /\ done.raised = (~m.warning /\ mode = "warning" /\ ~ofStatement)
      /\ done.ignored = m.warning
  BY <1>2, <1>4, Zenon DEF Handled
<1>6. last[1].readable
  <2>1. last[1] \in GoodRecord
    BY <1>3
  <2> QED
    BY <2>1, Zenon DEF GoodRecord
<1>7. PICK info : info = errorInfo(last, more)
  OBVIOUS
<1>8. info # << >> /\ info[1] = last[1]
  BY <1>3, <1>7 DEF errorInfo
<1>9. info[1].state = last[1].state /\ info[1].readable
  BY <1>6, <1>8, Zenon
<1>10. "exception" # "warning" /\ "exception" # "silent" /\ "warning" # "silent"
  OBVIOUS
<1>11. done.thrown => ~done.raised /\ ~done.ignored
  BY <1>5, <1>10, Zenon
<1>12. mode = "silent" => ~done.thrown /\ ~done.raised
  BY <1>5, <1>10, Zenon
<1> QED
  BY <1>4, <1>5, <1>7, <1>8, <1>9, <1>11, <1>12, Zenon

(* For all records and however many checks, calls and results: sqlsrv      *)
(* fails exactly with an error to tell and loses no record it could read,  *)
(* a call's own error is told behind it, PDO::exec tells of the first      *)
(* result that failed, and a PDO object's SQLSTATE is that of its first    *)
(* error (util.cpp, pdo_util.cpp, pdo_dbh.cpp).                            *)
THEOREM FailuresAreTold == DiagnosticsAgree
BY FailsWithErrorsHolds, OwnErrorToldHolds, ExecTellsFirstHolds, StateIsFirstHolds DEF DiagnosticsAgree

(* A failed connect finds it so.                                           *)
THEOREM FailedConnectIsTold == Spec => []DiagnosticsTold
<1>1. DiagnosticsTold
  BY FailuresAreTold DEF DiagnosticsTold
<1> QED
  BY <1>1, PTL

=============================================================================
