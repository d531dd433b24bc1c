SPECIFICATION Spec
CONSTANTS
  a1 = a1
  a2 = a2
  n1 = n1
  n2 = n2
  Account = {a1, a2}
  ZeroAddress = ZeroAddress
  Node = {n1}
  NoNode = NoNode
  Reserved = {}
  Name = {"alice"}
  NodeOf <- MCNodeOf
  Secret = {"s1"}
  MinAge = 0
  MaxAge = 0
  EpochSpan = 7
  MaxTime = 1
  MaxEvents = 6
  Coin = {"ETH", "BTC"}
  ETH = "ETH"
  Blob = {"b1"}
  Empty = "empty"
SYMMETRY Accounts
INVARIANTS TypeOK FutureEpochsEmpty RecordsMatchLog ReverseMatchesLog
PROPERTIES OnlyOwnerChangesRecords HandoverHidesRecords ImplementsDirectory
