SPECIFICATION PagesSpec
CONSTANTS
  A = A
  B = B
  a = a
  b = b
  unset = unset
  evm = evm
  btc = btc
  Wallet = {A, B}
  None = None
  MinAge = 1
  MaxAge = 1
  Grace = 1
  MaxNow = 3
  MaxMade = 2
  MaxSent = 2
  MaxChecks = 2
  Value = {a}
  NoValue = unset
  Fresh = 2
  CopyTtl = 1
  Retries = 1
  MaxHeight = 3
  MaxWrites = 2
  Chain <- Chains
  Verifiable = {evm}
  Address <- Pair
  Own <- OwnWallet
  Before <- Unverified
  MaxEdits = 2
  Name <- Pair
  Partial = {evm}
  Ill = {btc}
  Reserved = {b}
  MaxAsked = 2
  MaxMoves = 1
SYMMETRY Accounts
INVARIANTS PagesTypeOK PagesAreTrue
PROPERTIES UsefulSecretsStay NoStaleAnswerIsUsed
