SPECIFICATION Spec
CONSTANTS
  v1 = v1
  v2 = v2
  w1 = w1
  w2 = w2
  u1 = u1
  Voucher = {v1}
  Window = {w1}
  User = {u1}
  FirstUser = u1
  MaxJobs = 1
PROPERTIES
  PrintedNotDeleted
