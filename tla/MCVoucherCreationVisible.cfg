SPECIFICATION Spec
CONSTANTS
  v1 = v1
  v2 = v2
  Voucher = {v1, v2}
  Quantity = 1
  MaxPosts = 1
  Handled = {v1, v2}
  MalformedReplies = FALSE
SYMMETRY VoucherSymmetry
PROPERTIES
  ConfirmedStayShown
