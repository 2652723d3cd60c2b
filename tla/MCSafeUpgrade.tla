---------------------------- MODULE MCSafeUpgrade ----------------------------
(***************************************************************************)
(* SafeUpgrade with two commands that may run at the same time.            *)
(***************************************************************************)
EXTENDS SafeUpgradeTrial
CONSTANTS p1, p2
==============================================================================
