---------------------------- MODULE MCSharedState ----------------------------
(***************************************************************************)
(* Two nodes.  n1 runs a sync (w1) beside other commands (w2); n2 serves   *)
(* requests (w3) beside other commands (w4).  To keep the instance small   *)
(* only the slots in Syncers sync and only those in Writers run the other  *)
(* commands.                                                               *)
(***************************************************************************)
EXTENDS SharedStateStore, TLC
CONSTANTS n1, n2, w1, w2, w3, w4, Syncers, Writers

TwoPerNode == w1 :> n1 @@ w2 :> n1 @@ w3 :> n2 @@ w4 :> n2
FullTTL == {DefaultTTL}

MCNext ==
    \/ \E p \in Worker :
         LockAndLoad(p) \/ Gossip(p) \/ NotifyHooks(p) \/ LockTimeout(p)
    \/ \E p \in Writers : Write(p) \/ Bleach(p) \/ Get(p)
    \/ \E p \in Syncers : Sync(p)
    \/ \E n \in Node : Reboot(n)

MCSpec == Init /\ [][MCNext]_vars
==============================================================================
