SPECIFICATION RegistrySpec
CONSTANTS
  a1 = a1
  a2 = a2
  n1 = n1
  nReserved = nReserved
  Account = {a1, a2}
  ZeroAddress = ZeroAddress
  Node = {n1, nReserved}
  NoNode = NoNode
  Reserved = {nReserved}
  Name = {"alice", "Alice", "admin", "a"}
  NodeOf <- MCNodeOf
  Secret = {"s1"}
  MinAge = 1
  MaxAge = 1
  EpochSpan = 2
  MaxTime = 3
  MaxEvents = 4
SYMMETRY Accounts
INVARIANTS RegistryTypeOK LogTellsOwners EpochCountsHandovers
PROPERTIES OnlyOwnerHandsOver RevealsAreIndependent OnlyRipeCommitmentsWin
