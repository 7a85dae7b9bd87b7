----------------------------- MODULE MCConnect -----------------------------
(***************************************************************************)
(* Instances for TLC: hosts, requests and diagnostic records.              *)
(***************************************************************************)
EXTENDS ConnectDiagnostics

Opt(name, value) == [name |-> name, value |-> value]
Ask(uid, pwd, options) == [server |-> "server", uid |-> uid, pwd |-> pwd, options |-> options]
Plain(options) == Ask("user", "secret", options)
Alone(options) == Ask(Null, Null, options)

MCHosts ==
  [windows : BOOLEAN, pdo : BOOLEAN, installed : SUBSET Versions, odbcinst : {TRUE}, strict : {TRUE}]
    \cup [windows : {FALSE}, pdo : {FALSE}, installed : {{"17"}}, odbcinst : {FALSE}, strict : {FALSE}]

Vault == << Opt("KeyStoreAuthentication", "KeyVaultPassword"), Opt("KeyStorePrincipalId", "me"),
            Opt("KeyStoreSecret", "key") >>
Enclave == Opt("ColumnEncryption", "enabled")

(* Each way an option can go, pairs of options whose order matters, and    *)
(* the requests of a session with two tokens.                              *)
MCRequests ==
  { Plain(<<>>), Ask(Null, Null, <<>>), Ask("user", Null, << Opt("PWD", "other") >>),
    Ask(Unescaped, Null, <<>>), Ask("user", Unescaped, <<>>),
    [Plain(<<>>) EXCEPT !.server = Null] }
  \cup { Plain(<< o >>) : o \in
          { Opt("Nonsense", "x"), Opt("Database", "db"), Opt("Database", Null), Opt("Database", Unescaped),
            Opt("LoginTimeout", Wrong), Opt("ConnectTimeout", "5"), Opt("Encrypt", "strict"),
            Opt("TransactionIsolation", "bad"), Opt("Password", Wrong), Opt("DecimalPlaces", "2"),
            Opt("MultipleActiveResultSets", "no"), Opt("TraceFile", "f"), Opt("Driver", "12"),
            Opt("ConnectRetryCount", "2"),
            Opt("ConnectionPooling", "0"), Opt("AccessToken", "t1") } }
  \cup { Plain(<< Enclave, Opt("Driver", v) >>) : v \in Versions }
  \cup { Plain(<< Opt("Driver", v), Opt("ColumnEncryption", e) >>) : v \in Versions, e \in {"enabled", "disabled"} }
  \cup { Plain(<< Enclave >> \o Vault), Plain(<< Enclave >>), Plain(Vault \o << Opt("ColumnEncryption", "disabled") >>) }
  \cup { Plain(<< Enclave, Vault[i] >>) : i \in 1 .. 3 }
  \cup { Plain(<< Enclave, Opt("KeyStoreAuthentication", v) >>) : v \in {"", "bad"} }
  \cup { Plain(<< Enclave, Vault[1], Opt("KeyStoreSecret", "") >>) }
  \cup { Alone(<< Opt("AccessToken", t) >>) : t \in {"t1", "t2", ""} }
  \cup { Alone(<< Opt("AccessToken", "t1"), Opt("Authentication", "SqlPassword") >>),
         Alone(<< Opt("Authentication", "ActiveDirectoryIntegrated") >>),
         Plain(<< Opt("Authentication", "ActiveDirectoryMSI") >>),
         Plain(<< Opt("TraceFile", "f"), Opt("TraceOn", "1") >>),
         Plain(<< Opt("WSID", "a"), Opt("Database", "db"), Opt("WorkstationID", "b") >>) }

(* What a PDO connection is made from: every data source name of up to     *)
(* seven characters over one key and the characters the parser minds.      *)
Dsn == INSTANCE DsnParser WITH DsnKeys <- {<<"k">>}, Letters <- {"k"}, MaxDsn <- 7

(* PDO: once a connection is asked for, its data source name has been read *)
(* as the grammar of conn_string_parser has it (pdo_parser.cpp).  The      *)
(* parser keeps nothing from one string to the next.                       *)
DataSourceRead == host.pdo /\ phase = "checking" => Dsn!DsnReadAsWritten

(* The diagnostics that a failure can leave: an error, a warning that is   *)
(* never made an error, one that may be, and a record that cannot be read. *)
Rec(state, native, readable) == [state |-> state, native |-> native, readable |-> readable]
MCRecords == { Rec("42000", 102, TRUE), Rec("01000", 5701, TRUE), Rec("01000", 8153, TRUE),
               Rec("HY000", 0, FALSE) }

============================================================================
