--------------------------- MODULE SharedStateStore ---------------------------
(***************************************************************************)
(* SharedState implements GossipStore: the table of a node is its file, and *)
(* what floats is what processes hold and requests carry.                  *)
(***************************************************************************)
EXTENDS SharedState

Copies(k) == {mem[p][k] : p \in Worker} \cup {slice[p][k] : p \in Worker}

Afloat == [k \in Key |-> Copies(k) \ {NoEntry}]

Promised == INSTANCE GossipStore WITH table <- disk, afloat <- Afloat

\* However processes of a node interleave with one another, with syncs, requests,
\* replies that nobody waits for and reboots, each command acts as if it changed
\* its node's table in one step, and gossip only ever brings copies of what some
\* node stored, none older than what they replace (lock, load, save and unlock
\* around every operation; merge in load, sync and reqsync).
ActsInOneStep == Promised!Spec
===============================================================================
