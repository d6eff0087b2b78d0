SPECIFICATION LiveSpec
CONSTANTS
  v1 = v1
  v2 = v2
  w1 = w1
  w2 = w2
  u1 = u1
  u2 = u2
  Voucher = {v1, v2}
  Window = {w1, w2}
  User = {u1, u2}
  FirstUser = u1
  MaxJobs = 2
INVARIANTS
  TypeOK
  PrintNeverLost
  LabelsOnce
PROPERTIES
  LedgerKept
  MarkerDrains
ACTION_CONSTRAINTS
  UserUnchanged
