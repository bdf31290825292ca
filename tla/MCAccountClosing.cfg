CONSTANTS
  Actors = {a, b}
  Postings = {e1, e2}
  Nets = {1}
  Opening = 1
  Counts = {1, 2}
  DayLength = 2
  LastInstant = 4
  MaxClosings = 2
  MaxSteps = 4
  Uncounted = Uncounted
  Clerks = {c1, c2}
  Drivers = {d1, d2}
  SaleDates = {1, 2}
  RentChoices = {1}
  Openings = {0, 1}
  Sums = {1, 2}
  Accounts = {cash}
  Waived = Waived
  Forms = {f1, f2}
  MaxMoves = 5
  MaxPayments = 3
SPECIFICATION BooksSpec
INVARIANTS ClosedPeriodKept ExpectedIsBalance BoardFrozen OwedIsEarned
PROPERTY SettledWithinOwed
CONSTRAINT Followed
SYMMETRY Symmetry
CHECK_DEADLOCK FALSE
