SPECIFICATION Spec
CONSTANTS
  v1 = v1
  v2 = v2
  Voucher = {v1, v2}
  Nameless = {}
  StaleLists = TRUE
  LateDeletes = FALSE
SYMMETRY VoucherSymmetry
INVARIANTS
  TypeOK
  AbsenceProven
  OutcomeTrue
