SPECIFICATION LiveSpec
CONSTANTS
  o1 = o1
  b1 = b1
  w1 = w1
  w2 = w2
  None = None
  Orders <- OneOrder
  Rides <- OneRide
  Refs <- TwoRefs
  Handlers <- TwoHandlers
  MaxEarnings = 2
CONSTRAINT ToSecondCredit
INVARIANTS PaymentTypeOK OneReceipt StorePaidPerReceipt RevenueBacked DriverPaidOnce
PROPERTIES BooksRefined ChargeRecorded
