--------------------------- MODULE MCVoucherCreation ---------------------------
(* Finite instance of VoucherCreation: vouchers are interchangeable.        *)
EXTENDS VoucherCreation, TLC

VoucherSymmetry == Permutations(Voucher)

=============================================================================
