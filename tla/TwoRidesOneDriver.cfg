SPECIFICATION RideSpec
CONSTANTS
  d1 = d1
  d2 = d2
  r1 = r1
  r2 = r2
  h1 = h1
  None = None
  Hexes <- OneHex
  Drivers <- OneDriver
  Trips <- TwoRides
  MaxCalls = 1
  MaxTasks = 1
  MaxCrashes = 0
  MaxThrows = 0
  MaxPayments = 0
INVARIANT OneRidePerDriver
