\* Two connections, two tokens, a TTL of four ticks over a pool timeout of two.
SPECIFICATION TokenSpec
CONSTANTS
  c1 = c1
  c2 = c2
  t1 = t1
  t2 = t2
  Conns <- TwoConns
  Tokens <- TwoTokens
  CPTimeout = 2
  TOKEN_CACHE_TTL_FLOOR = 3
  MaxDisconnect = 1
  MaxTime = 7
CHECK_DEADLOCK FALSE
SYMMETRY Symmetry
INVARIANTS
  SameTokenSamePointer
  PooledTokensLive
