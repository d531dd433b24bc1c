SPECIFICATION Spec
CONSTANTS
  m1 = m1  r1 = r1  r2 = r2  n1 = n1  n2 = n2
  w1 = w1  w2 = w2  w3 = w3  mine = mine  theirs = theirs
  Request = {r1, r2}
  Machine = {m1}
  SessionWallet = {w1}
  MaxVersion = 3
  Wallet = {w2, w3}
  Name = {n1, n2}
  Window = 1
  Skew = 0
  MaxRegisterTime = 2
  Address = {w1, mine, theirs}
  Held = {w1, mine}
  Owner = w1
  Nonce = {n1, n2}
  TTL = 1
  DbTimeout = 1
  ChainTimeout = 1
  MaxAge = 1
  Revalidate = 0
  MaxDb = 1
  MaxChain = 1
  MaxTime = 5
  Page = 3
  MaxPages = 3
  MaxBlock = 4
  MaxLogs = 3
  Visitor <- Visitors
  EdgeServer <- Edge
  ViaEdge = TRUE
  Limit = 1
  Unit = 3
  Second = 2
  PruneAt = 1
  PruneEvery = 2
  Guarded = TRUE
  MaxUses = 3
  Fill = {0, 1}
  Lengths = {2, 20, 32}
SYMMETRY Alike
INVARIANTS TypeOK RefusedStayOut AnswersAreTrue AddressesAreProved AnswersWithinWindow NothingIsMiscounted
PROPERTIES WritesKeepTheirWord
