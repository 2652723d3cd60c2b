------------------------------ MODULE GossipStore ------------------------------
(***************************************************************************)
(* What packages/shared-state promises its users: every node has a table,  *)
(* each command changes the table of its node in one step, and copies of   *)
(* entries float from node to node, any of which a node may take for an    *)
(* entry that has no more bleachings left.                                 *)
(*                                                                         *)
(* There are no processes, locks, files, requests or replies here: which   *)
(* copies float, and when one is taken, is left open.  SharedStateStore    *)
(* shows that the processes of SharedState do nothing else.                *)
(***************************************************************************)
EXTENDS Naturals

CONSTANTS Node, Key, Data, Nil, NoEntry, DefaultTTL, InsertTTL

VARIABLES
    table,  \* node -> its table
    afloat  \* key -> the copies under way

vars == <<table, afloat>>

Item == [ttl : 1 .. DefaultTTL, data : Data \cup {Nil}]
Table == [Key -> Item \cup {NoEntry}]

Init ==
    /\ table = [n \in Node |-> [k \in Key |-> NoEntry]]
    /\ afloat = [k \in Key |-> {}]

\* Copies are made of what is stored, before or after the step, and of copies;
\* any may be lost.
Carry ==
    LET Stored(k) == {table[n][k] : n \in Node} IN
    \A k \in Key : afloat'[k] \subseteq afloat[k] \cup Stored(k) \cup Stored(k)'

\* The table of n becomes s, and no other changes.
Becomes(n, s) == table' = [table EXCEPT ![n] = s] /\ Carry

Insert(n, new, t) ==
    Becomes(n, [k \in Key |-> IF k \in DOMAIN new THEN [ttl |-> t, data |-> new[k]]
                                                  ELSE table[n][k]])

\* What is removed stays, as Nil, so that no older copy brings it back.
Remove(n, keys) ==
    Becomes(n, [k \in Key |-> IF k \in keys /\ table[n][k] # NoEntry
                                 /\ table[n][k].data # Nil
                              THEN [ttl |-> DefaultTTL, data |-> Nil]
                              ELSE table[n][k]])

Bleach(n) ==
    Becomes(n, [k \in Key |-> IF table[n][k] = NoEntry \/ table[n][k].ttl < 2
                              THEN NoEntry
                              ELSE [table[n][k] EXCEPT !.ttl = @ - 1]])

\* Some copies are taken, none of which has fewer bleachings left.
Take(n, s) ==
    /\ \A k \in Key :
          \/ s[k] = table[n][k]
          \/ /\ s[k] \in afloat[k]
             /\ table[n][k] = NoEntry \/ s[k].ttl >= table[n][k].ttl
    /\ Becomes(n, s)

Lose(n) == Becomes(n, [k \in Key |-> NoEntry])

Next ==
    \/ \E n \in Node :
          \/ \E S \in SUBSET Key, t \in InsertTTL :
                \E new \in [S -> Data] : S # {} /\ Insert(n, new, t)
          \/ \E keys \in SUBSET Key : Remove(n, keys)
          \/ Bleach(n)
          \/ \E s \in Table : Take(n, s)
          \/ Lose(n)
    \/ table' = table /\ Carry

Spec == Init /\ [][Next]_vars
================================================================================
