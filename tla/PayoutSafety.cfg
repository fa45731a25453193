SPECIFICATION Spec
CONSTANTS
  rider = rider
  store = store
  p1 = p1
  p2 = p2
  w1 = w1
  w2 = w2
  Idle = Idle
  Riders <- OneRider
  Stores <- OneStore
  Payouts <- TwoPayouts
  Handlers <- TwoHandlers
  Amounts <- OneOrTwo
  Opening = 2
  MaxTransfers = 2
SYMMETRY Symmetry
INVARIANTS PayoutTypeOK LedgerExplainsWallet NeverOverdrawn RejectedIsRefunded PaidMeansSent
