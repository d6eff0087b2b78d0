SPECIFICATION LiveSpec
CONSTANTS
  v1 = v1
  w1 = w1
  u1 = u1
  u2 = u2
  Voucher = {v1}
  Window = {w1}
  User = {u1, u2}
  FirstUser = u1
  MaxJobs = 1
PROPERTIES
  MarkerDrainsForAll
