------------------------------- MODULE Connect -------------------------------
(***************************************************************************)
(* Making a connection: the options of sqlsrv_connect or of a PDO DSN are  *)
(* checked, written into a connection string or set on the connection      *)
(* handle, an ODBC driver is chosen, and after SQLDriverConnect the key    *)
(* vault and the server's version are set up.  Any step may fail.          *)
(*                                                                         *)
(* A connection string is a sequence of <<keyword, value>>.  The driver    *)
(* manager (EXTERNAL) pools physical connections by that string; it does   *)
(* not compare the access token that was set as an attribute.              *)
(***************************************************************************)
EXTENDS Naturals, Sequences, FiniteSets

CONSTANTS Hosts,           \* [windows, pdo, installed, odbcinst, strict]
          Requests,        \* [server, uid, pwd, options]: what scripts ask for
          MaxConnects      \* bound on the number of connects

Versions == {"17", "18", "13"}

ASSUME ConnectAssumption ==
  /\ Hosts \subseteq [windows : BOOLEAN, pdo : BOOLEAN, installed : SUBSET Versions,
                      odbcinst : BOOLEAN, strict : BOOLEAN]
  /\ Requests \subseteq [server : STRING, uid : STRING, pwd : STRING,
                         options : Seq([name : STRING, value : STRING])]
  /\ MaxConnects \in Nat

VARIABLES host,      \* the machine, the extension, and the ini settings
          phase,     \* where core_sqlsrv_connect is
          conn,      \* the sqlsrv_conn and the locals of its making
          pool,      \* idle physical connections of the driver manager
          caller,    \* what the PDO factory changed of its caller
          connects   \* how many connections were asked for

vars == <<host, phase, conn, pool, caller, connects>>

Null     == "null"       \* NULL, of PHP or of C
Unescaped == "a}b"       \* a value with a brace that is not escaped
Wrong    == "wrong type" \* a value of another type than the option's

-----------------------------------------------------------------------------
(* The tables of options: which function treats an option.  Two names may  *)
(* share a key, and are then one option.                                   *)
Key(name) ==
  CASE name = "FailoverPartner" -> "Failover_Partner"
    [] name = "ConnectTimeout"  -> "LoginTimeout"
    [] name = "WorkstationID"   -> "WSID"
    [] name = "Password"        -> "PWD"
    [] OTHER                    -> name

StringOptions ==
  [text |-> {"APP", "ApplicationIntent", "AttachDbFileName", "Authentication", "Language",
             "Database", "Failover_Partner", "TransparentNetworkIPResolution", "WSID",
             "ComputePool", "HostNameInCertificate"},
   bool |-> {"MultipleActiveResultSets", "MultiSubnetFailover", "QuotedId",
             "TrustServerCertificate"},
   int  |-> {"ConnectRetryCount", "ConnectRetryInterval"}]

SharedOptions ==
  [text |-> StringOptions.text, bool |-> StringOptions.bool, int |-> StringOptions.int,
   attribute  |-> {"LoginTimeout", "TraceFile", "TraceOn"},
   token      |-> {"AccessToken"},
   driver     |-> {"Driver"},
   encryption |-> {"ColumnEncryption"},
   vault      |-> {"KeyStoreAuthentication", "KeyStorePrincipalId", "KeyStoreSecret"},
   nothing    |-> {"ConnectionPooling"},
   encrypt    |-> {},
   judged     |-> {}]

SS_CONN_OPTS ==
  [SharedOptions EXCEPT !.bool = @ \cup {"Encrypt"}, !.attribute = @ \cup {"TransactionIsolation"},
                        !.nothing = @ \cup {"ReturnDatesAsStrings", "BatchErrorContinue",
                                            "FormatDecimals"},
                        !.judged = {"CharacterSet", "DecimalPlaces"}]

PDO_CONN_OPTS ==
  [SharedOptions EXCEPT !.encrypt = {"Encrypt"}, !.judged = {"TransactionIsolation"}]

Table      == IF host.pdo THEN PDO_CONN_OPTS ELSE SS_CONN_OPTS
Known(k)   == \E f \in DOMAIN Table : k \in Table[f]
FuncOf(k)  == CHOOSE f \in DOMAIN Table : k \in Table[f]

(* What the options of the request have become: key-value pairs by key, in *)
(* the order the keys first came; a later value replaces an earlier one.   *)
Keys(table)       == { table[i].key : i \in DOMAIN table }
Has(table, k)     == k \in Keys(table)
ValueOf(table, k) == (CHOOSE o \in { table[i] : i \in DOMAIN table } : o.key = k).value
Put(table, o)     ==
  IF Has(table, o.key)
  THEN [i \in DOMAIN table |-> IF table[i].key = o.key THEN o ELSE table[i]]
  ELSE Append(table, o)

True(v) == v \in {"true", "1", "yes"}        \* core_str_zval_is_true; zend_is_true of a string

-----------------------------------------------------------------------------
(* The connection in the making.  "handle" is its HDBC; "mode", "id",      *)
(* "secret" and "required" are ce_option's part of the key vault.          *)
Physical(string, token) == [string |-> string, token |-> token]
NoPhysical == Physical(<<>>, "")
NoConn ==
  [server |-> Null, todo |-> <<>>, table |-> <<>>, uid |-> Null, pwd |-> Null, dsnpwd |-> Null, pooled |-> FALSE,
   string |-> <<>>, sent |-> <<>>, driver |-> "unknown", used |-> "none", tried |-> 1,
   ce |-> FALSE, mode |-> "none", id |-> "", secret |-> "", required |-> FALSE,
   token |-> "", physical |-> NoPhysical, handle |-> "none", version |-> "unknown", error |-> "none"]

Init ==
  /\ host \in Hosts /\ phase = "idle" /\ conn = NoConn /\ pool = {}
  /\ caller = [error_mode |-> "silent", server_refs |-> 0] /\ connects = 0

(* ce_option.akv_reset, conn_str.clear() and invalidate(): SQLFreeHandle   *)
(* refuses a handle that is connected, and it is forgotten nevertheless.   *)
Vaultless(c) == [c EXCEPT !.mode = "none", !.id = "", !.secret = "", !.required = FALSE]
Invalidated(c) ==
  [Vaultless(c) EXCEPT !.string = <<>>,
                       !.handle = CASE c.handle = "connected" -> "leaked"
                                    [] c.handle = "allocated" -> "freed"
                                    [] OTHER                  -> "none"]

(* The catch blocks of core_sqlsrv_connect and of the functions that call  *)
(* it: the PDO factory puts the error mode back and lets the server's name *)
(* go.                                                                     *)
Restored == [error_mode |-> "silent", server_refs |-> 0]
Fails(c, error) ==
  /\ conn' = [Invalidated(c) EXCEPT !.error = error]
  /\ phase' = "failed"
  /\ caller' = Restored
  /\ UNCHANGED <<host, pool, connects>>

Goes(c, to) == /\ conn' = c /\ phase' = to /\ UNCHANGED <<host, pool, caller, connects>>

(* sqlsrv_connect and the PDO factory, with a script's request.            *)
Writable(r) == IF host.pdo THEN \A i \in DOMAIN r.options : r.options[i].value \notin {Null, Wrong}
               ELSE r.server # Null
Begin(r) ==
  /\ phase = "idle" /\ connects < MaxConnects /\ Writable(r)
  /\ connects' = connects + 1
  /\ conn' = [NoConn EXCEPT !.server = r.server, !.todo = r.options, !.uid = r.uid, !.pwd = r.pwd]
  /\ caller' = IF host.pdo THEN [caller EXCEPT !.error_mode = "exception"] ELSE caller
  /\ phase' = "checking"
  /\ UNCHANGED <<host, pool>>

(* get_conn_option_key: the type and the braces of a value.  The parser of *)
(* a DSN makes strings, and leaves braces inside a bare value alone.       *)
Acceptable(o) ==
  /\ Known(Key(o.name)) /\ o.value # Null
  /\ ~host.pdo => o.value \notin {Wrong, Unescaped}

IsPassword(o) == Key(o.name) = "PWD"

(* validate_conn_options, parse_conn_string: one option after the other.   *)
CheckOption ==
  /\ phase = "checking" /\ conn.todo # <<>>
  /\ LET o == Head(conn.todo) rest == Tail(conn.todo) IN
       \/ /\ IsPassword(o) /\ o.value \in {Null, Wrong} /\ Fails(conn, "option")
       \/ /\ IsPassword(o) /\ o.value \notin {Null, Wrong}
          /\ Goes(IF host.pdo THEN [conn EXCEPT !.todo = rest, !.dsnpwd = o.value]
                  ELSE [conn EXCEPT !.todo = rest, !.pwd = o.value], "checking")
       \/ /\ ~IsPassword(o) /\ ~Acceptable(o) /\ Fails(conn, "option")
       \/ /\ ~IsPassword(o) /\ Acceptable(o)
          /\ Goes([conn EXCEPT !.todo = rest,
                               !.table = Put(@, [key |-> Key(o.name), value |-> o.value])], "checking")

-----------------------------------------------------------------------------
(* core_sqlsrv_connect: which environment the handle comes from.  The PDO  *)
(* factory first takes the server's name out of the options, and the       *)
(* DSN's password when the constructor was given none.                     *)
UsesPool == IF host.windows
            THEN ~Has(conn.table, "ConnectionPooling") \/ True(ValueOf(conn.table, "ConnectionPooling"))
            ELSE host.odbcinst
Password == IF host.pdo /\ conn.pwd = Null THEN conn.dsnpwd ELSE conn.pwd

Allocate ==
  /\ phase = "checking" /\ conn.todo = <<>>
  /\ \/ /\ host.pdo /\ conn.server = Null /\ Fails(conn, "server")
     \/ /\ ~host.pdo \/ conn.server # Null
        /\ conn' = [conn EXCEPT !.pwd = Password, !.pooled = UsesPool, !.handle = "allocated"]
        /\ caller' = [caller EXCEPT !.server_refs = IF host.pdo THEN 1 ELSE 0]
        /\ phase' = "building"
        /\ UNCHANGED <<host, pool, connects>>

(* build_connection_string_and_set_conn_attr, before the options: the      *)
(* server and the credentials.                                             *)
With(c, keyword, v) == [c EXCEPT !.string = Append(@, <<keyword, v>>)]
Uses(k)             == Has(conn.table, k)
Authenticates(how)  == Uses("Authentication") /\ ValueOf(conn.table, "Authentication") = how
Given(v)            == v \notin {Null, ""}

TokenNotAlone == Uses("AccessToken") /\ (conn.uid # Null \/ conn.pwd # Null \/ Uses("Authentication"))
TakesUid == \/ Authenticates("ActiveDirectoryMSI")
            \/ ~Uses("AccessToken") /\ ~Authenticates("ActiveDirectoryIntegrated")
TakesPwd == TakesUid /\ ~Authenticates("ActiveDirectoryMSI") /\ Given(conn.uid)
Credentials ==
  LET server == With(conn, "Server", conn.server)
      named  == IF TakesUid /\ Given(conn.uid) THEN With(server, "UID", conn.uid) ELSE server IN
  IF TakesPwd
  THEN IF conn.pwd # Null THEN With(named, "PWD", conn.pwd) ELSE named
  ELSE IF TakesUid /\ ~Authenticates("ActiveDirectoryMSI")
       THEN With(server, "Trusted_Connection", "Yes") ELSE named

(* The trace file goes when tracing is not on: the driver manager would    *)
(* create it all the same.                                                 *)
Traces      == Uses("TraceOn") /\ True(ValueOf(conn.table, "TraceOn"))
OptionsLeft(table) ==
  IF Has(table, "TraceFile") /\ ~Traces
  THEN LET i == CHOOSE j \in DOMAIN table : table[j].key = "TraceFile"
       IN SubSeq(table, 1, i - 1) \o SubSeq(table, i + 1, Len(table))
  ELSE table

StartString ==
  /\ phase = "building"
  /\ \/ TokenNotAlone /\ Fails(conn, "token")
     \/ /\ ~TokenNotAlone
        /\ (TakesUid /\ conn.uid = Unescaped) \/ (TakesPwd /\ conn.pwd = Unescaped)
        /\ Fails(conn, "braces")
     \/ /\ ~TokenNotAlone
        /\ ~(TakesUid /\ conn.uid = Unescaped) /\ ~(TakesPwd /\ conn.pwd = Unescaped)
        /\ IF conn.table = <<>> THEN Goes(With(Credentials, "MARS", "yes"), "choosing")
           ELSE Goes([Credentials EXCEPT !.todo = OptionsLeft(conn.table)], "setting")

(* What the function of an option makes of its value: the connection with  *)
(* it, or no connection when the value is refused.  Attributes are set on  *)
(* the handle, which may refuse them too.                                  *)
YesNo(v)     == IF True(v) THEN "yes" ELSE "no"
Normal(v)    == IF True(v) THEN "yes" ELSE IF v \in {"false", "0", "no"} THEN "no" ELSE v
VaultModes   == [KeyVaultPassword |-> "password", KeyVaultClientSecret |-> "clientkey"]

driver_set_func(c, v) ==
  IF v \in Versions THEN { With([c EXCEPT !.driver = v], "Driver", v) } ELSE {}
column_encryption_set_func(c, v) ==
  { With([c EXCEPT !.ce = v # "disabled"], "ColumnEncryption", v) }
ce_akv_str_set_func(c, k, v) ==
  CASE v = "" -> {}
    [] v # "" /\ k = "KeyStoreAuthentication" ->
         IF v \in DOMAIN VaultModes
         THEN { [c EXCEPT !.mode = VaultModes[v], !.required = TRUE] } ELSE {}
    [] v # "" /\ k = "KeyStorePrincipalId" -> { [c EXCEPT !.id = v, !.required = TRUE] }
    [] v # "" /\ k = "KeyStoreSecret" -> { [c EXCEPT !.secret = v, !.required = TRUE] }
access_token_set_func(c, v) == IF v = "" THEN {} ELSE { [c EXCEPT !.token = v] }

func(c, k, v) ==
  LET f == FuncOf(k) IN
  CASE f \in {"text", "int"} -> { With(c, k, v) }
    [] f = "bool"            -> { With(c, IF k = "MultipleActiveResultSets" THEN "MARS" ELSE k, YesNo(v)) }
    [] f = "encrypt"         -> { With(c, k, Normal(v)) }
    [] f = "driver"          -> driver_set_func(c, v)
    [] f = "encryption"      -> column_encryption_set_func(c, v)
    [] f = "vault"           -> ce_akv_str_set_func(c, k, v)
    [] f = "token"           -> access_token_set_func(c, v)
    [] f = "judged"          -> IF v = "bad" THEN {} ELSE { c }
    [] f \in {"nothing", "attribute"} -> { c }

MayRefuse(k) == FuncOf(k) \in {"attribute", "token"} \/ k = "TransactionIsolation"

SetOption ==
  /\ phase = "setting" /\ conn.todo # <<>>
  /\ LET o == Head(conn.todo)
         after == func([conn EXCEPT !.todo = Tail(@)], o.key, o.value) IN
       \/ \E c \in after : Goes(c, "setting")
       \/ (after = {} \/ MayRefuse(o.key)) /\ Fails(conn, "value")

(* After the options: MARS unless it was mentioned, and with an access     *)
(* token a keyword made of the token, for the driver manager's pool.       *)
Unmarked(c) == c                                              \* mutant: no fingerprint
Marked(c)   == IF c.token # "" THEN With(c, "APP fingerprint", c.token) ELSE c
FinishString ==
  /\ phase = "setting" /\ conn.todo = <<>>
  /\ Goes(Marked(IF Uses("MultipleActiveResultSets") THEN conn ELSE With(conn, "MARS", "yes")), "choosing")

-----------------------------------------------------------------------------
(* SQLDriverConnect by way of the driver manager (EXTERNAL): a driver that *)
(* is not there gives IM002; a pooled handle may be given an idle physical *)
(* connection with the same string; a new one is made with the token of    *)
(* the handle.  "info" is SQL_SUCCESS_WITH_INFO.                           *)
Outcome(result, p) == [result |-> result, physical |-> p]
SQLDriverConnect(d, string) ==
  IF d \notin host.installed THEN { Outcome("IM002", NoPhysical) }
  ELSE { Outcome(r, Physical(string, conn.token)) : r \in {"success", "info"} }
         \cup { Outcome("error", NoPhysical) }
         \cup { Outcome("success", p) : p \in { q \in pool : conn.pooled /\ q.string = string } }

(* core_odbc_connect: what was sent, and the string is cleared.            *)
Sends(c, string, d, o) ==
  [c EXCEPT !.sent = string, !.used = d, !.physical = o.physical,
            !.handle = IF o.result \in {"success", "info"} THEN "connected" ELSE @,
            !.version = IF host.windows \/ o.result = "info" THEN "asked" ELSE "unknown"]
Connected(c, o) == /\ conn' = [c EXCEPT !.string = <<>>] /\ phase' = "connected"
                   /\ pool' = pool \ {o.physical}
                   /\ UNCHANGED <<host, caller, connects>>

(* A warning is an error in sqlsrv when the script wants it so (and it is  *)
(* not one of those that are ignored).                                     *)
ConnectsOrFails(c, o) ==
  \/ o.result = "error" /\ Fails(c, "odbc")
  \/ o.result = "info" /\ host.strict /\ ~host.pdo /\ Fails(c, "warning")
  \/ o.result \in {"success", "info"} /\ Connected(c, o)

(* The Driver option was given.                                            *)
NeedsNothing(c) == FALSE                                   \* mutant: column encryption with any driver
NeedsNewer(c)   == c.ce /\ c.driver = "13"
UseSpecifiedDriver ==
  /\ phase = "choosing" /\ conn.driver # "unknown"
  /\ \/ NeedsNewer(conn) /\ Fails(conn, "encryption needs a newer driver")
     \/ /\ ~NeedsNewer(conn)
        /\ \E o \in SQLDriverConnect(conn.driver, conn.string) :
             LET c == Sends(conn, conn.string, conn.driver, o) IN
             \/ o.result = "IM002" /\ Fails(conn, "specified driver not found")
             \/ o.result # "IM002" /\ ConnectsOrFails(c, o)

(* It was not: 17, then 18, then 13, the last only without column          *)
(* encryption.  On Windows the connect itself tells whether a driver is    *)
(* there, each with a copy of the string; elsewhere it is searched first.  *)
Drivers        == <<"17", "18", "13">>
LastIsFirst(c) == "17"                                        \* mutant: one driver is tried
LastVersion(c) == IF c.ce THEN "18" ELSE "13"
Copied(c, d)   == With(c, "Driver", d).string
NotFound(c)    == IF c.ce THEN "encryption needs a newer driver" ELSE "no driver installed"
NextDriver(c)  == [c EXCEPT !.tried = @ + 1]
NextUncopied(c) == [c EXCEPT !.tried = @ + 1, !.string = <<>>]  \* mutant: no copy of the string
TryAnother(c)  == NextDriver(c)

SearchDriver ==
  /\ phase = "choosing" /\ conn.driver = "unknown"
  /\ LET d == Drivers[conn.tried] IN
     \E o \in SQLDriverConnect(d, Copied(conn, d)) :
       \/ o.result = "IM002" /\ d = LastVersion(conn) /\ Fails(conn, NotFound(conn))
       \/ o.result = "IM002" /\ d # LastVersion(conn) /\ Goes(TryAnother(conn), "choosing")
       \/ o.result # "IM002" /\ ConnectsOrFails(Sends(conn, Copied(conn, d), d, o), o)

-----------------------------------------------------------------------------
(* load_azure_key_vault, what it needs; and the calls that may fail.       *)
VaultWanted(c)   == c.ce /\ c.required
VaultComplete(c) == c.mode # "none" /\ c.id # "" /\ c.secret # ""

(* The end of core_sqlsrv_connect: the vault is configured, its secrets    *)
(* are forgotten, the server is asked for its version, and the caller has  *)
(* its connection.                                                         *)
Kept(c)    == c                                               \* mutant: the secrets stay
Secretless(c) == Vaultless(c)
FinishConnect ==
  /\ phase = "connected"
  /\ \/ VaultWanted(conn) /\ ~VaultComplete(conn) /\ Fails(conn, "vault")
     \/ VaultWanted(conn) /\ VaultComplete(conn) /\ Fails(conn, "vault call")
     \/ conn.version = "asked" /\ Fails(conn, "version")
     \/ /\ VaultWanted(conn) => VaultComplete(conn)
        /\ conn' = [Secretless(conn) EXCEPT !.version = IF @ = "asked" THEN "known" ELSE @]
        /\ caller' = Restored
        /\ phase' = "open"
        /\ UNCHANGED <<host, pool, connects>>

(* core_sqlsrv_close: the physical connection goes to the pool.            *)
Close ==
  /\ phase = "open"
  /\ conn' = [conn EXCEPT !.handle = "freed", !.token = ""]
  /\ pool' = IF conn.pooled THEN pool \cup {conn.physical} ELSE pool
  /\ phase' = "idle"
  /\ UNCHANGED <<host, caller, connects>>

(* The script has its false or its exception.                              *)
GiveUp == phase = "failed" /\ Goes(conn, "idle")

Next == \/ \E r \in Requests : Begin(r)
        \/ CheckOption \/ Allocate \/ StartString \/ SetOption \/ FinishString
        \/ UseSpecifiedDriver \/ SearchDriver \/ FinishConnect \/ Close \/ GiveUp

Spec == Init /\ [][Next]_vars

-----------------------------------------------------------------------------
Connecting == phase \notin {"idle", "open", "failed"}
Once(string, k) == Cardinality({ i \in DOMAIN string : string[i][1] = k }) = 1

(* The state of a connect has its types.                                   *)
TypeOK ==
  /\ host \in Hosts /\ connects \in 0 .. MaxConnects
  /\ phase \in {"idle", "checking", "building", "setting", "choosing", "connected", "open", "failed"}
  /\ conn.handle \in {"none", "allocated", "connected", "freed", "leaked"}
  /\ conn.driver \in Versions \cup {"unknown"} /\ conn.used \in Versions \cup {"none"}
  /\ caller.error_mode \in {"silent", "exception"} /\ caller.server_refs \in 0 .. 1

(* However a connect ends, at whichever of its steps, nothing is left of   *)
(* it: the secrets of the key vault are gone (the structure is freed       *)
(* without its destructor), the caller's error mode is back, the server's  *)
(* name is released; and a handle that never connected is freed.           *)
NothingLeftBehind ==
  ~Connecting =>
    /\ conn.id = "" /\ conn.secret = "" /\ conn.mode = "none" /\ ~conn.required
    /\ caller = Restored
    /\ conn.handle # "allocated"

(* A script that connects with an access token is never handed a physical  *)
(* connection of another identity out of the driver manager's pool, which  *)
(* compares connection strings and no attributes.                          *)
OwnIdentity == phase \in {"connected", "open"} /\ conn.handle = "connected" =>
                 conn.physical.token = conn.token

(* Column encryption is never left to a driver that cannot do it, whether  *)
(* the driver was named before or after the option, or found by search.    *)
EncryptedByCapableDriver == conn.ce /\ conn.handle = "connected" => conn.used \in {"17", "18"}

(* Every string that is sent names its server and its driver and settles   *)
(* MARS once, also the string for the second and the third driver.         *)
SentStringWhole ==
  conn.sent # <<>> => Once(conn.sent, "Server") /\ Once(conn.sent, "Driver") /\ Once(conn.sent, "MARS")

(* "No driver" is said only when none of those that would do is installed. *)
FallsBack ==
  /\ conn.error = "no driver installed" => host.installed = {}
  /\ conn.error = "encryption needs a newer driver" /\ conn.driver = "unknown" =>
       host.installed \cap {"17", "18"} = {}

(* The search for a driver: each that would do is tried with a string of   *)
(* its own, and none is used or passed over that should not be             *)
(* (core_conn.cpp 359-428).                                                *)
DriverSearchSound ==
  TypeOK /\ EncryptedByCapableDriver /\ SentStringWhole /\ FallsBack

=============================================================================
