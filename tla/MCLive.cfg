SPECIFICATION LiveSpec
CONSTANTS
  A = A
  B = B
  Wallet = {A, B}
  None = None
  MinAge = 1
  MaxAge = 1
  Grace = 1
  MaxNow = 3
  MaxMade = 1
  MaxSent = 2
  MaxChecks = 2
  m1 = m1
  m2 = m2
  Machine = {m1, m2}
  NoToken = NoToken
  Orphan = Orphan
  Confirmations = 1
  ReorgDepth = 1
  Lag = 0
  Lease = 1
  Chunk = 1
  MaxChunks = 1
  MaxBlock = 3
  MaxForks = 0
PROPERTIES EventsCatchUp WhatWaitsEnds
