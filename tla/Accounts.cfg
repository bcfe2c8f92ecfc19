SPECIFICATION Spec
CONSTANTS
  Users = {u1, u2}
  Tokens = {t1, t2}
  Addresses = {a1}
  Procs = {p1, p2}
  None = None
  Gone = Gone
  MaxTries = 1
  MaxPassword = 1
  Budgets <- MCBudgets
SYMMETRY Symmetry
INVARIANTS
  TypeOK
  AdminRemains
  OldPasswordIsOut
  DeactivatedIsOut
  TriesBounded
CHECK_DEADLOCK FALSE
