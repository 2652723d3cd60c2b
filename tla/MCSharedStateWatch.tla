-------------------------- MODULE MCSharedStateWatch --------------------------
(***************************************************************************)
(* Two nodes as in MCSharedState: n1 with a syncing and a writing process, *)
(* n2 with a serving and a writing one; no reboots, whose effect on what   *)
(* the hooks wrote depends on where they wrote it.                         *)
(***************************************************************************)
EXTENDS SharedStateWatch, TLC
CONSTANTS n1, n2, w1, w2, w3, w4, Syncers, Writers

TwoPerNode == w1 :> n1 @@ w2 :> n1 @@ w3 :> n2 @@ w4 :> n2
FullTTL == {DefaultTTL}

Bounded ==
    \/ \E p \in Worker : LockAndLoad(p) \/ Gossip(p) \/ NotifyHooks(p)
    \/ \E p \in Writers : Write(p) \/ Bleach(p)
    \/ \E p \in Syncers : Sync(p)

HooksSpec == WatchInit /\ [][Bounded /\ WatchHooks]_wvars
SyncsSpec == WatchInit /\ [][Bounded /\ WatchSyncs]_wvars
===============================================================================
