--------------------------- MODULE MCVoucherArchive ---------------------------
(* Finite instance of VoucherArchive.  With no nameless voucher, or with    *)
(* nameless vouchers only, vouchers are interchangeable.                    *)
EXTENDS VoucherArchive, TLC

VoucherSymmetry == Permutations(Voucher)

=============================================================================
