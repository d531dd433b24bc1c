SPECIFICATION Spec
CONSTANTS
  m1 = m1
  m2 = m2
  r1 = r1
  r2 = r2
  n1 = n1
  n2 = n2
  Machine = {m1, m2}
  Request = {r1, r2}
  Nonce = {n1, n2}
  NoNonce = NoNonce
  NoMachine = NoMachine
  Skew = 1
  TTL = 1
  Tolerance = 1
  MinRetention = 1
  PruneEvery = 1
  DbTimeout = 1
  MaxTime = 7
SYMMETRY Alike
INVARIANTS TypeOK RowsOutliveNonces
PROPERTIES SpentOnce
