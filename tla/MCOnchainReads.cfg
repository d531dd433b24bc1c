SPECIFICATION ReadersSpec
CONSTANTS
  r1 = r1
  c1 = c1
  c2 = c2
  me = me
  other = other
  Request = {r1}
  Account = {me, other}
  Me = me
  Nobody = Nobody
  None = None
  Confirmations = 1
  ReorgDepth = 1
  Lag = 1
  Chunk = 1
  TailChunks = 2
  MaxBlock = 3
  MaxForks = 1
  Caller = {c1, c2}
  TTL = 1
  Timeout = 1
  MaxVersion = 2
  MaxTime = 3
INVARIANTS ReadersTypeOK ReadersSeeTrue
