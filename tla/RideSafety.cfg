SPECIFICATION RideSpec
CONSTANTS
  d1 = d1
  d2 = d2
  r1 = r1
  r2 = r2
  h1 = h1
  None = None
  Hexes <- OneHex
  Drivers <- TwoDrivers
  Trips <- OneRide
  MaxCalls = 1
  MaxTasks = 2
  MaxCrashes = 1
  MaxThrows = 1
  MaxPayments = 1
SYMMETRY Symmetry
INVARIANTS RideTypeOK OneOfferPerRide RoundsBounded NobodyYet
PROPERTY RiderStable
CONSTRAINT Calm
