CONSTANTS
  Actors = {a, b}
  NLots = 2
  Sales = {s1, s2}
  Returns = {r1, r2}
  MaxQty = 2
  MaxBooked = 2
  MaxCancels = 1
  NoCopy = NoCopy
SPECIFICATION SmallSpec
INVARIANTS WithinBooking OneBalance BookedGoodsConserved StockExact
CONSTRAINT Followed
SYMMETRY Symmetry
CHECK_DEADLOCK FALSE
