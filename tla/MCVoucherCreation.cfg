SPECIFICATION Spec
CONSTANTS
  v1 = v1
  v2 = v2
  Voucher = {v1, v2}
  Quantity = 1
  MaxPosts = 2
  Handled = {}
  MalformedReplies = FALSE
SYMMETRY VoucherSymmetry
INVARIANTS
  TypeOK
  ConfirmedTracked
PROPERTIES
  NoReplay
  OnceKept
