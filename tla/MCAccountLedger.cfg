CONSTANTS
  Requests = {r1, r2}
  Docs = {d1, d2}
  CashAccounts = {c}
  BankAccounts = {b}
  Amounts = {1, 2}
  Openings <- OpeningBalances
  None = None
  MaxOps = 2
SPECIFICATION LedgerSpec
INVARIANTS BalanceMatchesLedger RowsFollowPayments NoOverdraft BoardAgrees
PROPERTY NoLostEdit
CONSTRAINT Small
SYMMETRY Symmetry
CHECK_DEADLOCK FALSE
