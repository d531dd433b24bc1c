CONSTANTS
  one = one  two = two  alice = alice  bob = bob  evm = evm  btc = btc
  little = little  much = much  none = none
  Tab <- Pair
  Wallet <- MCWallet
  Holder <- MCHolder
  None = none
  MaxTokens = 2
  Name <- Pair
  Chain <- Chains
  Waits <- Waiting
  Amount <- Amounts
  Payee <- Payees
  Key <- Pair
  Network <- Chains
  Other <- Unknown
  Price <- Amounts
  Flow <- Pair
  Stale = 3
  MaxNow = 6
  User <- Pair
  Old = FALSE
  MaxFlows = 2
  MaxPayments = 2
SPECIFICATION PaySpec
INVARIANT SuccessMeansPaid
