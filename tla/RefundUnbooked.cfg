SPECIFICATION Spec
CONSTANTS
  d1 = d1
  d2 = d2
  o1 = o1
  o2 = o2
  o3 = o3
  ride = ride
  pg = pg
  po = po
  pr = pr
  w1 = w1
  w2 = w2
  None = None
  Receipt = Receipt
  Cancellation = Cancellation
  Disputes <- TwoDisputes
  Items <- FourItems
  Payments <- ThreePayments
  PaidBy <- Paying
  Kind <- Kinds
  Handlers <- TwoHandlers
  MaxRefunds = 2
SYMMETRY Alike
CONSTRAINT OneAtIssue
PROPERTY RefundIsBooked
