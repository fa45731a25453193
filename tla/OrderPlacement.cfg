SPECIFICATION LiveSpec
CONSTANTS
  k1 = k1
  p1 = p1
  p2 = p2
  w1 = w1
  w2 = w2
  None = None
  PROCESSING = PROCESSING
  Keys <- OneKey
  Ids <- TwoIds
  Products <- TwoProducts
  Wants <- Basket
  Opening <- Shelf
  Handlers <- TwoHandlers
  MaxReturns = 2
INVARIANTS PlacementTypeOK UnitsAccounted DuplicateNeedsLapse
PROPERTY KeyFreed
