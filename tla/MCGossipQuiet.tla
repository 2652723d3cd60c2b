--------------------------- MODULE MCGossipQuiet ---------------------------
(***************************************************************************)
(* Two nodes that ask each other, each with a slot for cron's processes    *)
(* and a slot for uhttpd's.                                                *)
(***************************************************************************)
EXTENDS GossipQuiet, TLC
CONSTANTS n1, n2, w1, w2, w3, w4

TwoPerNode == w1 :> n1 @@ w2 :> n2 @@ w3 :> n1 @@ w4 :> n2
Pair == n1 :> {n2} @@ n2 :> {n1}
FullTTL == {DefaultTTL}
============================================================================
