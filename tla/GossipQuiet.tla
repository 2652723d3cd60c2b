----------------------------- MODULE GossipQuiet ------------------------------
(***************************************************************************)
(* The mesh of SharedState once the publishers have gone silent: from any  *)
(* contents of the data files, only syncs (and, in AgingSpec, the bleach   *)
(* cron job) run.  freshest remembers, for every key, the entries with the *)
(* highest TTL that were stored anywhere at the start.                     *)
(***************************************************************************)
EXTENDS SharedState

CONSTANT neighbour  \* node -> the neighbours its syncs find

\* No node finds itself: its own addresses are no candidates.
ASSUME NeighbourAssumption ==
    /\ neighbour \in [Node -> SUBSET Node]
    /\ \A n \in Node : n \notin neighbour[n]

VARIABLE freshest

qvars == <<vars, freshest>>

Stored(k) == {disk[n][k] : n \in Node} \ {NoEntry}

Freshest(k) == {e \in Stored(k) : \A f \in Stored(k) : f.ttl <= e.ttl}

\* Idle nodes with any files: what inserts, removals, earlier syncs and
\* bleachings of the single nodes leave behind.
AnyFiles ==
    /\ disk \in [Node -> Store]
    /\ holder = [n \in Node |-> Nobody]
    /\ pc = [p \in Worker |-> "idle"]
    /\ mem = [p \in Worker |-> EmptyStore]
    /\ changed = [p \in Worker |-> FALSE]
    /\ todo = [p \in Worker |-> {}]
    /\ slice = [p \in Worker |-> EmptyStore]
    /\ client = [p \in Worker |-> Nobody]
    /\ shown = [n \in Node |-> EmptyStore]
    /\ freshest = [k \in Key |-> Freshest(k)]

\* LockTimeout is left out: critical sections take milliseconds, and a process
\* tries ten times, a second apart.
SyncStep(p) ==
    \/ LockAndLoad(p) \/ SyncStart(p, neighbour[host[p]])
    \/ Gossip(p) \/ NotifyHooks(p)

QuietNext == (\E p \in Worker : SyncStep(p)) /\ UNCHANGED freshest

\* The same with the bleach job, on a network that never fails.
AgingStep(p) ==
    \/ LockAndLoad(p) \/ SyncStart(p, neighbour[host[p]]) \/ Bleach(p)
    \/ (\E q \in Worker : Post(p, q) \/ Reply(p, q))
    \/ ServeMerge(p) \/ SyncSave(p) \/ NotifyHooks(p)

AgingNext == (\E p \in Worker : AgingStep(p)) /\ UNCHANGED freshest

\* What a process does next without anybody's leave.
GoesOn(p) ==
    \/ SyncStart(p, neighbour[host[p]]) \/ (\E m \in Node : PostFails(p, m))
    \/ Timeout(p) \/ ServeMerge(p) \/ SyncSave(p) \/ NotifyHooks(p)
    \/ (\E q \in Worker : Reply(p, q)) \/ ReplyUnread(p)

\* Cron starts syncs for ever (publish-all, every 30 minutes); a process that
\* wants the lock gets it now and then, and goes on once it has it; and a
\* neighbour that is asked again and again is reached now and then.
SyncFairness ==
    \A p \in Worker :
       /\ SF_qvars(LockAndLoad(p) /\ UNCHANGED freshest)
       /\ WF_qvars(GoesOn(p) /\ UNCHANGED freshest)
       /\ \A m \in neighbour[host[p]] :
             SF_qvars((\E q \in Worker : host[q] = m /\ Post(p, q)) /\ UNCHANGED freshest)

\* Every process goes on; every node's cron both bleaches and syncs for ever.
AgingFairness ==
    /\ \A p \in Worker : SF_qvars(AgingStep(p) /\ UNCHANGED freshest)
    /\ \A n \in Node :
         /\ SF_qvars((\E p \in Worker : host[p] = n /\ Bleach(p)) /\ UNCHANGED freshest)
         /\ SF_qvars((\E p \in Worker : host[p] = n /\ SyncStart(p, neighbour[n]))
                     /\ UNCHANGED freshest)

QuietSpec ==
    AnyFiles /\ [][QuietNext]_qvars /\ SyncFairness

AgingSpec ==
    AnyFiles /\ [][AgingNext]_qvars /\ AgingFairness

-----------------------------------------------------------------------------
\* Once nobody writes and nothing is bleached, the nodes come to hold, key by
\* key, the freshest entry there was and nothing else; only between entries
\* of the same TTL may they differ for ever (merge keeps the local one).
Converges ==
    <>[](\A n \in Node, k \in Key :
            IF freshest[k] = {} THEN disk[n][k] = NoEntry
            ELSE disk[n][k] \in freshest[k])

\* On the way there no node steps back: one that holds a freshest entry of a key
\* never again holds another, whichever stale tables other processes loaded or
\* were sent before it got there, and save or answer with now (merge, and the
\* second load of sync).
FreshestStays ==
    [][\A n \in Node, k \in Key :
         disk[n][k] \in freshest[k] => disk'[n][k] \in freshest[k]]_qvars

\* "bleachTTL is the count of how much bleaching should occur before the entry
\* expires" (shared-state.lua, on storage): once nobody writes, and every node
\* bleaches again and again, the entries are gone sooner or later.
EntriesExpire ==
    <>(\A n \in Node, k \in Key : disk[n][k] = NoEntry)
===============================================================================
