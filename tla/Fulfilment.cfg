SPECIFICATION Spec
CONSTANTS
  o1 = o1
  o2 = o2
  r1 = r1
  r2 = r2
  w1 = w1
  w2 = w2
  None = None
  Orders <- TwoOrders
  Riders <- TwoRiders
  Handlers <- TwoHandlers
  MaxHands = 1
INVARIANTS FulfilmentTypeOK SearchedOnceWhenReady NoGroupForgotten HandedOver
SYMMETRY Alike
CONSTRAINT CalmOverride
