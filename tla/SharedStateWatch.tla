--------------------------- MODULE SharedStateWatch ---------------------------
(***************************************************************************)
(* SharedState with two history variables, for properties that relate a    *)
(* step to what other processes of the same node did before it.            *)
(***************************************************************************)
EXTENDS SharedState

VARIABLES
    raced,   \* node -> the hooks of two saves may have run in the wrong order
    during   \* worker -> the keys written on its node since its sync let the lock go,
             \* each with the entry the first of these writes replaced

wvars == <<vars, raced, during>>

WatchInit ==
    /\ Init
    /\ raced = [n \in Node |-> FALSE]
    /\ during = [p \in Worker |-> <<>>]

\* p has saved and has yet to run the hooks.
Pending(p) == pc[p] = "notify" /\ changed[p]

\* The last save on n that hooks follow came while other hooks of n were still
\* to run.
Raced(n) ==
    IF \E p \in Worker : host[p] = n /\ Pending(p)' /\ ~ Pending(p)
    THEN \E q \in Worker : host[q] = n /\ Pending(q)
    ELSE raced[n]

\* The keys a process of node n inserts or removes in this step.
JustWritten(n) ==
    {k \in Key : \E q \in Worker :
        /\ host[q] = n /\ pc[q] = "locked" /\ pc'[q] = "notify"
        /\ disk'[n][k] # disk[n][k]
        /\ disk'[n][k] # NoEntry /\ disk'[n][k].ttl = DefaultTTL}

During(p) ==
    IF pc'[p] \in {"request", "waiting", "resaving"} /\ pc[p] # "locked"
    THEN [k \in DOMAIN during[p] \cup JustWritten(host[p]) |->
            IF k \in DOMAIN during[p] THEN during[p][k] ELSE disk[host[p]][k]]
    ELSE <<>>

\* Each run follows the one variable its property needs.
WatchHooks == raced' = [n \in Node |-> Raced(n)] /\ UNCHANGED during
WatchSyncs == during' = [p \in Worker |-> During(p)] /\ UNCHANGED raced

\* Any processes of nodes that stay up: what a reboot leaves of what the hooks
\* wrote depends on where they wrote it.
WatchNext ==
    /\ \E p \in Worker :
         LockAndLoad(p) \/ Write(p) \/ Bleach(p) \/ Get(p) \/ Sync(p) \/ Gossip(p)
         \/ NotifyHooks(p) \/ LockTimeout(p)
    /\ WatchHooks

WatchSpec == WatchInit /\ [][WatchNext]_wvars

-----------------------------------------------------------------------------
\* What the hooks get to see of a table.
View(s) == [k \in Key |-> IF s[k] = NoEntry THEN NoEntry ELSE s[k].data]

\* However saves interleave, a node whose hooks have all run, and ran in the
\* order of the saves, has shown them what is stored: no save that changes the
\* data goes unnotified, neither by a process that only read the change at its
\* second load nor by a bleach that keeps quiet (changed and notifyHooks).
HooksMatchStore ==
    \A n \in Hooked :
       ~ raced[n] /\ (\A p \in Worker : host[p] = n => ~ Pending(p))
          => View(shown[n]) = View(disk[n])

\* "Take in account changes happened during sync" (shared-state.lua, in sync): when
\* another process of the node inserted or removed a key during the sync, the sync's
\* save does not put back the entry that was there before.
SyncKeepsChangesDuringSync ==
    [][\A p \in Worker : \A k \in DOMAIN during[p] :
         SyncSave(p) /\ disk'[host[p]][k] = during[p][k]
            => disk[host[p]][k] = during[p][k]]_wvars
===============================================================================
