SPECIFICATION LiveSpec
CONSTANTS
  d1 = d1
  t1 = t1
  t2 = t2
  h1 = h1
  h2 = h2
  None = None
  Drivers <- OneDriver
  Trips <- TwoTrips
  Hexes <- TwoHexes
  MaxCalls = 2
INVARIANTS TypeOK OneJob NoReoffer JobHasHex ActiveHasJob
PROPERTIES SlotRefined HeartbeatHeals
