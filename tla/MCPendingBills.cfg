SPECIFICATION OwedSpec
CONSTANTS
    Sales <- MCSales
    Bookings <- MCBookings
    Backdated <- MCBackdated
    Legacy <- MCLegacy
    Dues <- MCDues
    Amounts <- MCAmounts
    LastPayment = 1
    MaxRows = 2
    MaxBookings = 2
    Typed <- MCTyped
    BookingForms <- MCForms
    PaymentForms <- MCPayments
    HandAmount = 1
    SaleBill <- MCSaleBill
    OpeningBalance = 0
    MaxCancels = 2
    MaxWrites = 6
INVARIANTS RebuildExact OldestSettledFirst StatementsAgree
CHECK_DEADLOCK FALSE
