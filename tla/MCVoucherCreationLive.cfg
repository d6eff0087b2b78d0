SPECIFICATION LiveSpec
CONSTANTS
  v1 = v1
  v2 = v2
  Voucher = {v1, v2}
  Quantity = 1
  MaxPosts = 1
  Handled = {v1}
  MalformedReplies = TRUE
PROPERTIES
  EvidenceFinal
  BarriersDrain
