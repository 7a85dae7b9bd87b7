----------------------------- MODULE TokenCache -----------------------------
(***************************************************************************)
(* The process-wide cache of access tokens: connections of several threads *)
(* (ZTS) look tokens up under its mutex, the ODBC driver keeps the pointer *)
(* it was given as long as the physical connection lives, and the driver   *)
(* manager keeps physical connections in a pool for CPTimeout.             *)
(***************************************************************************)
EXTENDS Naturals

CONSTANTS Conns,                    \* PHP connections that use a token
          Tokens,                   \* token contents
          CPTimeout,                \* of the driver manager's pool (largest of the drivers)
          TOKEN_CACHE_TTL_FLOOR,
          MaxDisconnect,            \* longest SQLDisconnect
          MaxTime                   \* bound on the clock

(* The TTL must exceed CPTimeout so that a pooled connection is closed     *)
(* before its token is reclaimed; the rest of it is for the disconnect.    *)
token_cache_ttl ==
  IF 2 * CPTimeout < TOKEN_CACHE_TTL_FLOOR THEN TOKEN_CACHE_TTL_FLOOR ELSE 2 * CPTimeout

ASSUME TokenCacheAssumption ==
  /\ CPTimeout \in Nat /\ TOKEN_CACHE_TTL_FLOOR \in Nat /\ MaxDisconnect \in Nat /\ MaxTime \in Nat
  /\ CPTimeout + MaxDisconnect <= token_cache_ttl

VARIABLES now,     \* time(nullptr)
          cache,   \* s_token_cache: its entries
          next,    \* what malloc returns next
          conns,   \* what each PHP connection, and its physical connection, hold
          pool     \* the physical connections in the driver manager's pool

token_vars == <<now, cache, next, conns, pool>>

Entries  == [token : Tokens, alloc : Nat, last_used : Nat]

(* "holds" is azure_ad_access_token; "driver" the pointer inside the ODBC  *)
(* driver; "found" says whether the touch met an entry of the cache.       *)
ConnStates == [state : {"connecting", "open", "closing"}, token : Tokens, holds : Nat, driver : Nat,
               found : BOOLEAN, since : Nat]
NoConn     == [state |-> "none"]
Pooled     == [token : Tokens, driver : Nat, found : BOOLEAN, since : Nat]

TokenTypeOK == /\ now \in Nat /\ next \in Nat
               /\ cache \subseteq Entries
               /\ conns \in [Conns -> ConnStates \cup {NoConn}]
               /\ pool \subseteq Pooled

TokenInit == /\ now = 0 /\ next = 0
             /\ cache = {}
             /\ conns = [c \in Conns |-> NoConn]
             /\ pool = {}

Is(c, state) == conns[c].state = state
Allocated(p) == \E e \in cache : e.alloc = p

(* token_cache_cleanup_expired                                             *)
Unexpired == { e \in cache : now - e.last_used <= token_cache_ttl }

(* Mutant: the entry of the token is not looked for.                       *)
GetAlwaysNew(token, p) ==
  /\ p = next /\ next' = next + 1
  /\ cache' = Unexpired \cup { [token |-> token, alloc |-> p, last_used |-> now] }

(* token_cache_get, under the mutex: forget what has expired, then find    *)
(* the token or make an entry for it.                                      *)
token_cache_get(token, p) ==
  LET found == { e \in Unexpired : e.token = token } IN
  IF found = {}
  THEN /\ p = next /\ next' = next + 1
       /\ cache' = Unexpired \cup { [token |-> token, alloc |-> p, last_used |-> now] }
  ELSE /\ \E e \in found : /\ p = e.alloc
                           /\ cache' = (Unexpired \ {e}) \cup { [e EXCEPT !.last_used = now] }
       /\ UNCHANGED next

(* core_sqlsrv_connect, first half: the pointer is given to the driver.    *)
StartConnect(c, token) ==
  /\ Is(c, "none")
  /\ \E p \in 0 .. next :
       /\ token_cache_get(token, p)
       /\ conns' = [conns EXCEPT ![c] = [state |-> "connecting", token |-> token, holds |-> p,
                                         driver |-> p, found |-> FALSE, since |-> now]]
  /\ UNCHANGED <<now, pool>>

(* Second half: a new physical connection, or a pooled one, which the      *)
(* fingerprint in the connection string makes one of the same token.       *)
ConnectNew(c) ==
  /\ Is(c, "connecting")
  /\ conns' = [conns EXCEPT ![c].state = "open"]
  /\ UNCHANGED <<now, cache, next, pool>>

ConnectPooled(c) ==
  /\ Is(c, "connecting")
  /\ \E p \in pool : /\ p.token = conns[c].token
                     /\ pool' = pool \ {p}
                     /\ conns' = [conns EXCEPT ![c].state = "open", ![c].driver = p.driver]
  /\ UNCHANGED <<now, cache, next>>

ConnectFails(c) ==
  /\ Is(c, "connecting")
  /\ conns' = [conns EXCEPT ![c] = NoConn]
  /\ UNCHANGED <<now, cache, next, pool>>

TouchNothing(p) == UNCHANGED cache   \* mutant of token_cache_touch

(* The countdown restarts for the entry of the pointer, if it is there.    *)
token_cache_touch(p) ==
  cache' = { IF e.alloc = p THEN [e EXCEPT !.last_used = now] ELSE e : e \in cache }

(* core_sqlsrv_close touches the token before it disconnects.              *)
StartClose(c) ==
  /\ Is(c, "open")
  /\ token_cache_touch(conns[c].holds)
  /\ conns' = [conns EXCEPT ![c].state = "closing", ![c].since = now,
                            ![c].found = Allocated(conns[c].holds) /\ conns[c].driver = conns[c].holds]
  /\ UNCHANGED <<now, next, pool>>

Disconnect(c) ==
  /\ Is(c, "closing")
  /\ conns' = [conns EXCEPT ![c] = NoConn]
  /\ \/ pool' = pool \cup { [token |-> conns[c].token, driver |-> conns[c].driver,
                             found |-> conns[c].found, since |-> now] }
     \/ UNCHANGED pool
  /\ UNCHANGED <<now, cache, next>>

(* Time passes; the driver manager closes what was idle for CPTimeout.     *)
Tick ==
  /\ now < MaxTime
  /\ \A c \in Conns : Is(c, "closing") => now < conns[c].since + MaxDisconnect
  /\ now' = now + 1
  /\ pool' = { p \in pool : now + 1 <= p.since + CPTimeout }
  /\ UNCHANGED <<cache, next, conns>>

TokenNext == \/ \E c \in Conns : \/ \E token \in Tokens : StartConnect(c, token)
                                 \/ ConnectNew(c) \/ ConnectPooled(c) \/ ConnectFails(c)
                                 \/ StartClose(c) \/ Disconnect(c)
             \/ Tick

TokenSpec == TokenInit /\ [][TokenNext]_token_vars
-----------------------------------------------------------------------------
(* Connections opened with the same token share one allocation: the cache  *)
(* has one entry for each content.                                         *)
SameTokenSamePointer ==
  \A c, d \in Conns :
    /\ Is(c, "open") /\ Is(d, "open") /\ conns[c].token = conns[d].token
    /\ Allocated(conns[c].holds) /\ Allocated(conns[d].holds)
    => conns[c].holds = conns[d].holds

(* The token of a physical connection in the pool is not reclaimed before  *)
(* the driver manager closed it, if it was in the cache when its last user *)
(* closed.                                                                 *)
PooledTokensLive == \A p \in pool : p.found => Allocated(p.driver)
=============================================================================
