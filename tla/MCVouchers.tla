------------------------------ MODULE MCVouchers ------------------------------
(***************************************************************************)
(* Two processes, two vouchers and two devices; one voucher is for both    *)
(* devices.  Processes and devices are interchangeable.                    *)
(***************************************************************************)
EXTENDS Vouchers, TLC
CONSTANTS p1, p2, m1, m2, s1, s2

OneAndBoth == s1 :> 1 @@ s2 :> 2
Interchangeable == Permutations(Proc) \cup Permutations(Mac)
===============================================================================
