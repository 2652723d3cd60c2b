------------------------------ MODULE MCUpgrading ------------------------------
(***************************************************************************)
(* Two processes at a time; two releases whose images have the same name.  *)
(***************************************************************************)
EXTENDS Upgrading, TLC
CONSTANTS r1, r2, f

OneName == r1 :> f @@ r2 :> f
===============================================================================
