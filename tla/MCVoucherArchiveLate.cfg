SPECIFICATION FairSpec
CONSTANTS
  v1 = v1
  Voucher = {v1}
  Nameless = {v1}
  StaleLists = FALSE
  LateDeletes = TRUE
INVARIANTS
  RequestRemembered
  DeleteNotReplayed
  ReasonKept
  DetectedAreForeign
PROPERTIES
  LivesFollowed
  PendingSettles
