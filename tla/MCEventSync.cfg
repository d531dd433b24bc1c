SPECIFICATION Spec
CONSTANTS
  m1 = m1
  m2 = m2
  Machine = {m1, m2}
  NoToken = NoToken
  Orphan = Orphan
  Confirmations = 1
  ReorgDepth = 1
  Lag = 1
  Lease = 1
  Chunk = 1
  MaxChunks = 2
  MaxBlock = 4
  MaxForks = 1
SYMMETRY Machines
INVARIANTS TypeOK CursorCovered OnlyCanonicalRows
PROPERTIES CursorNeverBack
