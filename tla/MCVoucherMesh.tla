----------------------------- MODULE MCVoucherMesh -----------------------------
(***************************************************************************)
(* Two nodes and one voucher for one of two devices.                       *)
(***************************************************************************)
EXTENDS VoucherMesh, TLC
CONSTANTS n1, n2, p1, p2, s1, m1, m2

OneDevice == s1 :> 1
===============================================================================
