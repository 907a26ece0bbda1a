SPECIFICATION Spec
CONSTANTS
  Tracker = {backend, host}
  Backend = backend
  Host = host
  Class = {kv, scratch}
  Handle = {h1, h2, h3}
  Bytes = {1, 2}
  Budgets = {3}
  MaxBytes = 6
  MaxCount = 3
  Requests <- MCRequests
  Totals = {0, 4}
  Availables = {1, 2, 4, 5}
SYMMETRY Symmetric
CHECK_DEADLOCK FALSE
INVARIANTS
  AccountsBalance
  ReservationsCommit
  PolicyFits
