-------------------------- MODULE SharedStateProofs --------------------------
(***************************************************************************)
(* Proofs about SharedState, for any nodes, process slots, keys, data and  *)
(* TTLs: the operations on tables first, then the types, the lock and the  *)
(* age of entries, and last that SharedState implements GossipStore.       *)
(***************************************************************************)
EXTENDS SharedStateStore, TLAPS

\* A merge yields a table, every entry of which is one of the two it chose
\* from and at least as fresh as both.
LEMMA MergeLemma ==
    ASSUME NEW s \in Store, NEW rs \in Store
    PROVE  /\ Merge(s, rs) \in Store
           /\ \A k \in Key : /\ Merge(s, rs)[k] \in {s[k], rs[k]}
                             /\ AtLeast(Merge(s, rs)[k], s[k])
                             /\ AtLeast(Merge(s, rs)[k], rs[k])
<1>1. \A k \in Key : s[k] \in Entry \cup {NoEntry} /\ rs[k] \in Entry \cup {NoEntry}
  BY DEF Store
<1>2. \A e \in Entry : e.ttl \in Nat /\ e.ttl >= 1 /\ e # NoEntry
  BY TTLAssumption, NoEntryAssumption DEF Entry
<1>3. Merge(s, rs) \in Store
  BY <1>1 DEF Merge, Store
<1>4. ASSUME NEW k \in Key
      PROVE  /\ Merge(s, rs)[k] \in {s[k], rs[k]}
             /\ AtLeast(Merge(s, rs)[k], s[k])
             /\ AtLeast(Merge(s, rs)[k], rs[k])
  BY <1>1, <1>2, <1>4 DEF Merge, Beats, Live, AtLeast
<1> QED BY <1>3, <1>4

\* Loading a file into an empty table yields the file.
LEMMA EmptyMerge == ASSUME NEW s \in Store PROVE Merge(EmptyStore, s) = s
<1>1. \A k \in Key : s[k] \in Entry \cup {NoEntry}
  BY DEF Store
<1>2. \A e \in Entry : e.ttl > 0
  BY TTLAssumption DEF Entry
<1>3. \A k \in Key : Merge(EmptyStore, s)[k] = s[k]
  BY <1>1, <1>2 DEF Merge, Beats, Live, EmptyStore
<1> QED BY <1>3 DEF Merge, Store

\* One bleach yields a table.
LEMMA BleachedType == ASSUME NEW s \in Store PROVE Bleached(s) \in Store
<1>1. \A k \in Key : BleachEntry(s[k]) \in Entry \cup {NoEntry}
  <2> SUFFICES ASSUME NEW k \in Key, s[k] \in Entry, ~ (s[k].ttl < 2)
               PROVE  [s[k] EXCEPT !.ttl = @ - 1] \in Entry
    BY DEF Store, BleachEntry
  <2> QED BY TTLAssumption DEF Entry
<1> QED BY <1>1 DEF Bleached, Store

\* Inserting and removing yield tables.
LEMMA WrittenType ==
    ASSUME NEW s \in Store
    PROVE  /\ \A new \in Published, t \in InsertTTL : Inserted(s, new, t) \in Store
           /\ \A keys \in SUBSET Key : Removed(s, keys) \in Store
<1>1. ASSUME NEW new \in Published, NEW t \in InsertTTL
      PROVE  Inserted(s, new, t) \in Store
  <2>1. PICK S \in SUBSET Key : new \in [S -> Data]
    BY DEF Published
  <2>2. \A k \in DOMAIN new : [ttl |-> t, data |-> new[k]] \in Entry
    BY <2>1, TTLAssumption DEF Entry
  <2> QED BY <2>2 DEF Inserted, Store
<1>2. ASSUME NEW keys \in SUBSET Key
      PROVE  Removed(s, keys) \in Store
  <2>1. [ttl |-> DefaultTTL, data |-> Nil] \in Entry
    BY TTLAssumption DEF Entry
  <2> QED BY <2>1 DEF Removed, Store
<1> QED BY <1>1, <1>2

\* The empty table is a table.
LEMMA EmptyStoreType == EmptyStore \in Store
  BY DEF EmptyStore, Store

-----------------------------------------------------------------------------
\* Every step keeps the types.
LEMMA TypeStep ==
    ASSUME TypeOK, [Next]_vars
    PROVE  TypeOK'
<1> USE HostAssumption, EmptyStoreType
<1>0. \A p \in Worker : host[p] \in Node /\ mem[p] \in Store /\ slice[p] \in Store
                        /\ disk[host[p]] \in Store /\ changed[p] \in BOOLEAN
  BY DEF TypeOK
<1>1. ASSUME NEW p \in Worker, LockAndLoad(p) PROVE TypeOK'
  <2>1. Merge(mem[p], disk[host[p]]) \in Store
    BY <1>0, MergeLemma
  <2> QED BY <1>1, <2>1 DEF TypeOK, LockAndLoad, Phase
<1>2. ASSUME NEW p \in Worker, NEW new \in Published, NEW t \in InsertTTL,
             Insert(p, new, t)
      PROVE  TypeOK'
  <2>1. Inserted(mem[p], new, t) \in Store
    BY <1>0, WrittenType
  <2> QED BY <1>2, <2>1 DEF TypeOK, Insert, SaveAndUnlock, Keep, Phase
<1>3. ASSUME NEW p \in Worker, NEW keys \in SUBSET Key, Remove(p, keys)
      PROVE  TypeOK'
  <2>1. Removed(mem[p], keys) \in Store /\ (Removable(mem[p], keys) # {}) \in BOOLEAN
    BY <1>0, WrittenType
  <2> QED BY <1>3, <2>1 DEF TypeOK, Remove, SaveAndUnlock, Keep, Phase
<1>4. ASSUME NEW p \in Worker, Bleach(p) PROVE TypeOK'
  <2>1. Bleached(mem[p]) \in Store
    BY <1>0, BleachedType
  <2> QED BY <1>4, <2>1, ZenonT(60) DEF TypeOK, Bleach, SaveAndUnlock, Keep, Exit, Phase
<1>5. ASSUME NEW p \in Worker, Get(p) PROVE TypeOK'
  BY <1>5 DEF TypeOK, Get, Keep, Exit, Phase
<1>6. ASSUME NEW p \in Worker, Sync(p) PROVE TypeOK'
  BY <1>6 DEF TypeOK, Sync, SyncStart, Phase
<1>7. ASSUME NEW p \in Worker, Gossip(p) PROVE TypeOK'
  <2>1. ASSUME NEW q \in Worker, Post(p, q) PROVE TypeOK'
    BY <1>0, <2>1 DEF TypeOK, Post, Phase
  <2>2. ASSUME NEW m \in Node, PostFails(p, m) PROVE TypeOK'
    BY <2>2 DEF TypeOK, PostFails
  <2>3. CASE Timeout(p)
    BY <2>3 DEF TypeOK, Timeout, Phase
  <2>4. CASE ServeMerge(p)
    <3>1. Merge(mem[p], slice[p]) \in Store
          /\ MergeChanges(mem[p], slice[p]) \in BOOLEAN
      BY <1>0, MergeLemma DEF MergeChanges
    <3> QED BY <2>4, <3>1 DEF TypeOK, ServeMerge, SaveAndUnlock, Keep, Phase
  <2>5. ASSUME NEW q \in Worker, Reply(p, q) PROVE TypeOK'
    <3>1. Merge(mem[q], mem[p]) \in Store
      BY <1>0, MergeLemma
    <3>2. (changed[q] \/ MergeChanges(mem[q], mem[p])) \in BOOLEAN
      BY <1>0 DEF MergeChanges
    <3> QED BY <2>5, <3>1, <3>2 DEF TypeOK, Reply, Phase
  <2>6. CASE ReplyUnread(p)
    BY <2>6 DEF TypeOK, ReplyUnread, Exit, Keep, Phase
  <2>7. CASE SyncSave(p)
    BY <1>0, <2>7 DEF TypeOK, SyncSave, SaveAndUnlock, Phase
  <2> QED BY <1>7, <2>1, <2>2, <2>3, <2>4, <2>5, <2>6, <2>7 DEF Gossip
<1>8. ASSUME NEW p \in Worker, NotifyHooks(p) PROVE TypeOK'
  BY <1>0, <1>8, ZenonT(60) DEF TypeOK, NotifyHooks, Exit, Keep, Phase
<1>9. ASSUME NEW p \in Worker, LockTimeout(p) PROVE TypeOK'
  BY <1>9 DEF TypeOK, LockTimeout, Keep, Phase
<1>10. ASSUME NEW n \in Node, Reboot(n) PROVE TypeOK'
  BY <1>10 DEF TypeOK, Reboot, Phase
<1>11. CASE UNCHANGED vars
  BY <1>11 DEF TypeOK, vars
<1> QED BY <1>1, <1>2, <1>3, <1>4, <1>5, <1>6, <1>7, <1>8, <1>9, <1>10, <1>11
        DEF Next, Write

\* Every variable keeps its type; in particular no table ever holds an entry
\* whose bleachTTL is below 1 or above the default.
THEOREM TypeCorrect == Spec => []TypeOK
<1>1. Init => TypeOK
  BY EmptyStoreType, HostAssumption DEF Init, TypeOK, Phase
<1>2. TypeOK /\ [Next]_vars => TypeOK'
  BY TypeStep
<1> QED BY <1>1, <1>2, PTL DEF Spec

-----------------------------------------------------------------------------
\* A process starts with an empty table.
IdleTablesEmpty ==
    \A p \in Worker : pc[p] \in {"idle", "accepted"} => mem[p] = EmptyStore

\* Every step keeps idle tables empty.
LEMMA IdleStep ==
    ASSUME TypeOK, IdleTablesEmpty, [Next]_vars
    PROVE  IdleTablesEmpty'
<1> USE DEF IdleTablesEmpty, TypeOK
<1>1. ASSUME NEW p \in Worker,
             LockAndLoad(p) \/ Write(p) \/ Bleach(p) \/ Get(p) \/ Sync(p)
             \/ NotifyHooks(p) \/ LockTimeout(p)
      PROVE  IdleTablesEmpty'
  BY <1>1 DEF LockAndLoad, Write, Insert, Remove, Bleach, Get, Sync, SyncStart,
              NotifyHooks, LockTimeout, SaveAndUnlock, Keep, Exit
<1>2. ASSUME NEW p \in Worker, Gossip(p) PROVE IdleTablesEmpty'
  <2>1. ASSUME NEW q \in Worker, Post(p, q) \/ Reply(p, q) PROVE IdleTablesEmpty'
    BY <2>1 DEF Post, Reply
  <2> QED BY <1>2, <2>1 DEF Gossip, PostFails, Timeout, ServeMerge, ReplyUnread,
                            SyncSave, SaveAndUnlock, Keep, Exit
<1>3. ASSUME NEW n \in Node, Reboot(n) PROVE IdleTablesEmpty'
  BY <1>3 DEF Reboot
<1>4. CASE UNCHANGED vars
  BY <1>4 DEF vars
<1> QED BY <1>1, <1>2, <1>3, <1>4 DEF Next

\* A slot that runs nothing, or has a request it has not loaded the file for,
\* has an empty table.
LEMMA IdleTables == Spec => []IdleTablesEmpty
<1>1. Init => IdleTablesEmpty
  BY DEF Init, IdleTablesEmpty
<1>2. TypeOK /\ IdleTablesEmpty /\ [Next]_vars => IdleTablesEmpty'
  BY IdleStep
<1> QED BY <1>1, <1>2, TypeCorrect, PTL DEF Spec

-----------------------------------------------------------------------------
\* No step lets anybody into a critical section of somebody else, or makes a
\* table that is to be saved older than the file: two workers of one node cannot
\* both be its holder, so nobody else writes the file.
LEMMA LockStep ==
    ASSUME TypeOK, IdleTablesEmpty, LockHolderIsCurrent, [Next]_vars
    PROVE  LockHolderIsCurrent'
<1> USE HostAssumption, ValueAssumption
<1>0. \A p \in Worker : host[p] \in Node /\ mem[p] \in Store /\ disk[host[p]] \in Store
  BY DEF TypeOK
<1>a. \A p, q \in Worker :
         pc[p] \in Critical /\ pc[q] \in Critical /\ host[p] = host[q] => p = q
  BY DEF LockHolderIsCurrent
\* A step of p that leaves its critical section disturbs no other worker.
<1>b. ASSUME NEW p \in Worker, pc[p] \in Critical,
             pc'[p] \notin Critical,
             \A q \in Worker \ {p} : pc'[q] = pc[q] /\ mem'[q] = mem[q],
             holder' = [holder EXCEPT ![host[p]] = Nobody],
             \A n \in Node : n # host[p] => disk'[n] = disk[n]
      PROVE  LockHolderIsCurrent'
  <2> SUFFICES ASSUME NEW q \in Worker, pc'[q] \in Critical
               PROVE  /\ holder'[host[q]] = q
                      /\ pc'[q] \in {"locked", "merging"} => mem'[q] = disk'[host[q]]
                      /\ \A k \in Key : AtLeast(mem'[q][k], disk'[host[q]][k])
    BY DEF LockHolderIsCurrent, Critical, AtLeast
  <2>1. q # p /\ pc[q] \in Critical /\ pc'[q] = pc[q] /\ mem'[q] = mem[q]
    BY <1>b
  <2>2. host[q] # host[p]
    BY <1>a, <1>b, <2>1
  <2>3. holder'[host[q]] = holder[host[q]] /\ disk'[host[q]] = disk[host[q]]
    BY <1>0, <1>b, <2>2 DEF TypeOK
  <2> QED BY <2>1, <2>3 DEF LockHolderIsCurrent, AtLeast
\* A step that enters no critical section and leaves locks, files and the
\* tables of those in theirs alone.
<1>c. ASSUME UNCHANGED <<disk, holder>>,
             \A q \in Worker : pc'[q] \in Critical =>
                                 pc'[q] = pc[q] /\ mem'[q] = mem[q]
      PROVE  LockHolderIsCurrent'
  BY <1>c DEF LockHolderIsCurrent, AtLeast, Critical
<1>1. ASSUME NEW p \in Worker, LockAndLoad(p) PROVE LockHolderIsCurrent'
  <2>1. \A k \in Key : AtLeast(Merge(mem[p], disk[host[p]])[k], disk[host[p]][k])
    BY <1>0, MergeLemma
  <2>5. pc'[p] \in {"locked", "merging"} => Merge(mem[p], disk[host[p]]) = disk[host[p]]
    <3>1. pc'[p] \in {"locked", "merging"} => mem[p] = EmptyStore
      BY <1>1 DEF LockAndLoad, IdleTablesEmpty, TypeOK
    <3> QED BY <1>0, <3>1, EmptyMerge
  <2>2. /\ holder[host[p]] = Nobody
        /\ holder' = [holder EXCEPT ![host[p]] = p]
        /\ mem' = [mem EXCEPT ![p] = Merge(mem[p], disk[host[p]])]
        /\ disk' = disk
        /\ \A q \in Worker \ {p} : pc'[q] = pc[q]
    BY <1>1 DEF LockAndLoad, TypeOK
  <2> SUFFICES ASSUME NEW q \in Worker, pc'[q] \in Critical
               PROVE  /\ holder'[host[q]] = q
                      /\ pc'[q] \in {"locked", "merging"} => mem'[q] = disk'[host[q]]
                      /\ \A k \in Key : AtLeast(mem'[q][k], disk'[host[q]][k])
    BY DEF LockHolderIsCurrent, Critical, AtLeast
  <2>3. CASE q = p
    BY <1>0, <2>1, <2>2, <2>3, <2>5 DEF TypeOK
  <2>4. CASE q # p
    <3>1. pc[q] \in Critical /\ pc'[q] = pc[q] /\ mem'[q] = mem[q]
      BY <2>2, <2>4 DEF TypeOK
    <3>2. host[q] # host[p]
      BY <2>2, <3>1 DEF LockHolderIsCurrent
    <3> QED BY <1>0, <2>2, <3>1, <3>2 DEF LockHolderIsCurrent, TypeOK
  <2> QED BY <2>3, <2>4
<1>2. ASSUME NEW p \in Worker, NEW new \in Published, NEW t \in InsertTTL,
             Insert(p, new, t)
      PROVE  LockHolderIsCurrent'
  BY <1>0, <1>b, <1>2 DEF Insert, SaveAndUnlock, Keep, TypeOK, Critical
<1>3. ASSUME NEW p \in Worker, NEW keys \in SUBSET Key, Remove(p, keys)
      PROVE  LockHolderIsCurrent'
  BY <1>0, <1>b, <1>3 DEF Remove, SaveAndUnlock, Keep, TypeOK, Critical
<1>4. ASSUME NEW p \in Worker, Bleach(p) PROVE LockHolderIsCurrent'
  BY <1>0, <1>b, <1>4 DEF Bleach, SaveAndUnlock, Keep, Exit, TypeOK, Critical
<1>5. ASSUME NEW p \in Worker, Get(p) PROVE LockHolderIsCurrent'
  BY <1>0, <1>b, <1>5 DEF Get, Keep, Exit, TypeOK, Critical
<1>6. ASSUME NEW p \in Worker, Sync(p) PROVE LockHolderIsCurrent'
  BY <1>0, <1>b, <1>6 DEF Sync, SyncStart, TypeOK, Critical
<1>7. ASSUME NEW p \in Worker, Gossip(p) PROVE LockHolderIsCurrent'
  <2>1. ASSUME NEW q \in Worker, Post(p, q) PROVE LockHolderIsCurrent'
    BY <1>c, <2>1 DEF Post, TypeOK, Critical
  <2>2. ASSUME NEW m \in Node, PostFails(p, m) PROVE LockHolderIsCurrent'
    BY <1>c, <2>2 DEF PostFails
  <2>3. CASE Timeout(p)
    BY <1>c, <2>3 DEF Timeout, TypeOK, Critical
  <2>4. CASE ServeMerge(p)
    BY <1>0, <1>b, <2>4 DEF ServeMerge, SaveAndUnlock, Keep, TypeOK, Critical
  <2>5. ASSUME NEW q \in Worker, Reply(p, q) PROVE LockHolderIsCurrent'
    BY <1>c, <2>5 DEF Reply, TypeOK, Critical
  <2>6. CASE ReplyUnread(p)
    BY <1>c, <2>6 DEF ReplyUnread, Exit, Keep, TypeOK, Critical
  <2>7. CASE SyncSave(p)
    BY <1>0, <1>b, <2>7 DEF SyncSave, SaveAndUnlock, TypeOK, Critical
  <2> QED BY <1>7, <2>1, <2>2, <2>3, <2>4, <2>5, <2>6, <2>7 DEF Gossip
<1>8. ASSUME NEW p \in Worker, NotifyHooks(p) PROVE LockHolderIsCurrent'
  BY <1>c, <1>8 DEF NotifyHooks, Exit, Keep, TypeOK, Critical
<1>9. ASSUME NEW p \in Worker, LockTimeout(p) PROVE LockHolderIsCurrent'
  BY <1>c, <1>9 DEF LockTimeout, Keep, TypeOK, Critical
<1>10. ASSUME NEW n \in Node, Reboot(n) PROVE LockHolderIsCurrent'
  <2> SUFFICES ASSUME NEW q \in Worker, pc'[q] \in Critical
               PROVE  /\ holder'[host[q]] = q
                      /\ pc'[q] \in {"locked", "merging"} => mem'[q] = disk'[host[q]]
                      /\ \A k \in Key : AtLeast(mem'[q][k], disk'[host[q]][k])
    BY DEF LockHolderIsCurrent, Critical, AtLeast
  <2>1. host[q] # n /\ pc[q] \in Critical /\ pc'[q] = pc[q] /\ mem'[q] = mem[q]
    BY <1>10 DEF Reboot, Critical
  <2>2. holder'[host[q]] = holder[host[q]] /\ disk'[host[q]] = disk[host[q]]
    BY <1>10, <2>1 DEF Reboot, TypeOK
  <2> QED BY <2>1, <2>2 DEF LockHolderIsCurrent
<1>11. CASE UNCHANGED vars
  BY <1>c, <1>11 DEF vars
<1> QED BY <1>1, <1>2, <1>3, <1>4, <1>5, <1>6, <1>7, <1>8, <1>9, <1>10, <1>11
        DEF Next, Write

\* The lock protects every read-modify-write: a process in its critical section
\* is alone in it on its node, and holds, key by key, what the file holds or
\* something fresher.  The invariant is inductive beside TypeOK: two workers of
\* one node cannot both be the node's holder, so nobody else writes the file.
THEOREM LockProtects == Spec => []LockHolderIsCurrent
<1>1. Init => LockHolderIsCurrent
  BY DEF Init, LockHolderIsCurrent, Critical
<1>2. TypeOK /\ IdleTablesEmpty /\ LockHolderIsCurrent /\ [Next]_vars
        => LockHolderIsCurrent'
  BY LockStep
<1> QED BY <1>1, <1>2, TypeCorrect, IdleTables, PTL DEF Spec

-----------------------------------------------------------------------------
\* A sync or a served request saves, for every key, what the file holds or
\* something fresher: the lock was taken before the file was read.
LEMMA SavesAreFresh ==
    ASSUME TypeOK, LockHolderIsCurrent, NEW p \in Worker, ServeMerge(p) \/ SyncSave(p),
           NEW n \in Node, NEW k \in Key
    PROVE  AtLeast(disk'[n][k], disk[n][k])
<1> USE HostAssumption
<1>1. /\ \A e \in Entry : e.ttl \in Nat /\ e # NoEntry
      /\ mem[p] \in Store /\ slice[p] \in Store /\ disk[n] \in Store
  BY NoEntryAssumption, TTLAssumption DEF TypeOK, Store, Entry
<1>2. AtLeast(disk[n][k], disk[n][k])
  BY <1>1 DEF AtLeast, Store
<1>3. host[p] = n => AtLeast(mem[p][k], disk[n][k])
  BY DEF LockHolderIsCurrent, ServeMerge, SyncSave, Critical
<1>4. host[p] = n => AtLeast(Merge(mem[p], slice[p])[k], disk[n][k])
  <2>1. /\ AtLeast(Merge(mem[p], slice[p])[k], mem[p][k])
        /\ Merge(mem[p], slice[p]) \in Store
    BY <1>1, MergeLemma
  <2>2. {Merge(mem[p], slice[p])[k], mem[p][k], disk[n][k]} \subseteq Entry \cup {NoEntry}
    BY <1>1, <2>1 DEF Store
  <2> QED BY <1>1, <1>3, <2>1, <2>2 DEF AtLeast
<1>5. disk'[n] \in {disk[n]} \cup
         (IF host[p] = n THEN {mem[p], Merge(mem[p], slice[p])} ELSE {})
  BY DEF ServeMerge, SyncSave, SaveAndUnlock, TypeOK
<1> QED BY <1>2, <1>3, <1>4, <1>5

\* What is saved was read under the lock.
LEMMA SurvivalStep ==
    ASSUME TypeOK, LockHolderIsCurrent, Next, NEW n \in Node, NEW k \in Key
    PROVE  EntrySurvives(n, k)
<1> USE HostAssumption
<1>b. ASSUME disk'[n][k] = disk[n][k] PROVE EntrySurvives(n, k)
  BY <1>b DEF EntrySurvives
\* A worker that saves s: what it has for k is what is stored.
<1>c. ASSUME NEW p \in Worker, NEW s, NEW c \in BOOLEAN, SaveAndUnlock(p, s, c)
      PROVE  disk'[n] = IF c /\ host[p] = n THEN s ELSE disk[n]
  BY <1>c DEF SaveAndUnlock, TypeOK
<1>d. ASSUME NEW p \in Worker, pc[p] \in {"locked", "merging"}, host[p] = n
      PROVE  mem[p] = disk[n]
  BY <1>d DEF LockHolderIsCurrent, Critical
<1>1. ASSUME NEW p \in Worker, NEW new \in Published, NEW t \in InsertTTL,
             Insert(p, new, t)
      PROVE  EntrySurvives(n, k)
  <2>1. CASE host[p] = n /\ k \in DOMAIN new
    BY <1>1, <2>1 DEF EntrySurvives
  <2>2. CASE ~ (host[p] = n /\ k \in DOMAIN new)
    <3>1. disk'[n] = IF host[p] = n THEN Inserted(mem[p], new, t) ELSE disk[n]
      BY <1>1, <1>c DEF Insert
    <3>2. host[p] = n => Inserted(mem[p], new, t)[k] = disk[n][k]
      BY <1>1, <1>d, <2>2 DEF Inserted, Insert
    <3> QED BY <1>b, <3>1, <3>2
  <2> QED BY <2>1, <2>2
<1>2. ASSUME NEW p \in Worker, NEW keys \in SUBSET Key, Remove(p, keys)
      PROVE  EntrySurvives(n, k)
  <2>1. host[p] = n => mem[p] = disk[n]
    BY <1>2, <1>d DEF Remove
  <2>2. CASE host[p] = n /\ k \in Removable(disk[n], keys)
    BY <1>2, <2>2 DEF EntrySurvives
  <2>3. CASE ~ (host[p] = n /\ k \in Removable(disk[n], keys))
    <3>1. PICK c \in BOOLEAN : disk'[n] = IF c /\ host[p] = n THEN Removed(mem[p], keys)
                                          ELSE disk[n]
      <4>1. (Removable(mem[p], keys) # {}) \in BOOLEAN
        OBVIOUS
      <4> QED BY <1>2, <1>c, <4>1 DEF Remove
    <3>2. host[p] = n => Removed(mem[p], keys)[k] = disk[n][k]
      BY <2>1, <2>3 DEF Removed
    <3> QED BY <1>b, <3>1, <3>2
  <2> QED BY <2>2, <2>3
<1>3. ASSUME NEW p \in Worker, Bleach(p) PROVE EntrySurvives(n, k)
  <2>1. CASE host[p] = n /\ mem[p] # EmptyStore
    <3>1. mem[p] = disk[n]
      BY <1>3, <1>d, <2>1 DEF Bleach
    <3>2. disk'[n][k] = BleachEntry(disk[n][k])
      BY <1>3, <2>1, <3>1 DEF Bleach, SaveAndUnlock, Bleached, TypeOK
    <3> QED BY <1>3, <2>1, <3>2 DEF EntrySurvives
  <2>2. CASE ~ (host[p] = n /\ mem[p] # EmptyStore)
    <3>1. disk'[n] = disk[n]
      BY <1>3, <2>2 DEF Bleach, SaveAndUnlock, TypeOK
    <3> QED BY <1>b, <3>1
  <2> QED BY <2>1, <2>2
\* A served request merges into what the file holds, so that only fresher entries
\* change.
<1>4. ASSUME NEW p \in Worker, ServeMerge(p) PROVE EntrySurvives(n, k)
  <2>1. PICK c \in BOOLEAN : disk'[n] = IF c /\ host[p] = n THEN Merge(mem[p], slice[p])
                                        ELSE disk[n]
    <3>1. MergeChanges(mem[p], slice[p]) \in BOOLEAN
      BY DEF MergeChanges
    <3> QED BY <1>4, <1>c, <3>1 DEF ServeMerge
  <2>2. host[p] = n => mem[p] = disk[n]
    BY <1>4, <1>d DEF ServeMerge
  <2>3. \/ Merge(disk[n], slice[p])[k] = disk[n][k]
        \/ Fresher(Merge(disk[n], slice[p])[k], disk[n][k])
    <3>1. \A e, f \in Entry : e.ttl \in Nat /\ f.ttl \in Nat
      BY TTLAssumption DEF Entry
    <3>2. {slice[p][k], disk[n][k]} \subseteq Entry \cup {NoEntry}
      BY DEF TypeOK, Store
    <3> QED BY <3>1, <3>2 DEF Merge, Beats, Live, Fresher
  <2> QED BY <1>b, <2>1, <2>2, <2>3 DEF EntrySurvives
\* A sync saves entries at least as fresh as the file's: if one is neither the
\* file's nor fresher, it is another of the same TTL.
<1>5. ASSUME NEW p \in Worker, SyncSave(p) PROVE EntrySurvives(n, k)
  <2>1. CASE host[p] = n
    <3>1. AtLeast(disk'[n][k], disk[n][k])
      BY <1>5, SavesAreFresh
    <3>2. disk[n][k] \in Entry \cup {NoEntry} /\ disk'[n][k] \in Entry \cup {NoEntry}
      <4>1. disk'[n] \in {disk[n], mem[p]}
        BY <1>5 DEF SyncSave, SaveAndUnlock, TypeOK
      <4> QED BY <4>1 DEF TypeOK, Store
    <3>3. \A e \in Entry : e.ttl \in Nat /\ e # NoEntry
      BY NoEntryAssumption, TTLAssumption DEF Entry
    <3>4. \/ disk'[n][k] = disk[n][k]
          \/ Fresher(disk'[n][k], disk[n][k])
          \/ disk'[n][k] # NoEntry /\ disk'[n][k].ttl = disk[n][k].ttl
      BY <3>1, <3>2, <3>3 DEF AtLeast, Fresher
    <3> QED BY <1>5, <2>1, <3>4 DEF EntrySurvives
  <2>2. CASE host[p] # n
    BY <1>5, <1>b, <2>2 DEF SyncSave, SaveAndUnlock, TypeOK
  <2> QED BY <2>1, <2>2
<1>6. ASSUME UNCHANGED disk PROVE EntrySurvives(n, k)
  BY <1>6, <1>b
<1>7. ASSUME NEW m \in Node, Reboot(m) PROVE EntrySurvives(n, k)
  <2>1. CASE m = n
    BY <1>7, <2>1 DEF EntrySurvives
  <2>2. CASE m # n
    <3>1. disk'[n] = disk[n]
      BY <1>7, <2>2 DEF Reboot, TypeOK
    <3> QED BY <1>b, <3>1
  <2> QED BY <2>1, <2>2
<1> QED BY <1>1, <1>2, <1>3, <1>4, <1>5, <1>6, <1>7
        DEF Next, Write, Gossip, LockAndLoad, Get, Sync, SyncStart, Post, PostFails,
            Timeout, Reply, ReplyUnread, NotifyHooks, LockTimeout

\* A stored entry is kept, data and all, or replaced by a fresher one, but by a
\* bleach, a reboot, an insert or a removal of the same key on the same node, or by
\* a sync that saves another one of the same TTL: what is saved was read under the
\* lock, and a served request merges into just that.
THEOREM EntriesSurvive == Spec => StoredEntriesSurvive
<1>1. TypeOK /\ LockHolderIsCurrent /\ [Next]_vars
        => [\A n \in Node, k \in Key : EntrySurvives(n, k)]_vars
  BY SurvivalStep
<1> QED BY <1>1, TypeCorrect, LockProtects, PTL DEF Spec, StoredEntriesSurvive

-----------------------------------------------------------------------------
\* The entry of table s for key k, if any, has at most t bleachings left.
Below(s, k, t) == s[k] # NoEntry => s[k].ttl <= t

\* A merge is no fresher than the fresher of the two tables.
LEMMA MergeBelow ==
    ASSUME NEW s \in Store, NEW rs \in Store, NEW k \in Key, NEW t \in Nat,
           Below(s, k, t), Below(rs, k, t)
    PROVE  Below(Merge(s, rs), k, t)
<1>1. Merge(s, rs)[k] \in {s[k], rs[k]}
  BY MergeLemma
<1> QED BY <1>1 DEF Below

\* A bleach makes no entry fresher.
LEMMA BleachBelow ==
    ASSUME NEW s \in Store, NEW k \in Key, NEW t \in Nat, Below(s, k, t)
    PROVE  Below(Bleached(s), k, t)
<1>1. CASE s[k] = NoEntry \/ s[k].ttl < 2
  BY <1>1 DEF Bleached, BleachEntry, Below
<1>2. CASE ~ (s[k] = NoEntry \/ s[k].ttl < 2)
  <2>1. s[k] \in [ttl : 1 .. DefaultTTL, data : Data \cup {Nil}]
    BY <1>2 DEF Store, Entry
  <2>2. Bleached(s)[k].ttl = s[k].ttl - 1
    BY <1>2, <2>1 DEF Bleached, BleachEntry
  <2>3. s[k].ttl \in Nat /\ s[k].ttl <= t
    BY <1>2, <2>1, TTLAssumption DEF Below
  <2> QED BY <2>2, <2>3 DEF Below
<1> QED BY <1>1, <1>2

\* Gossip never rejuvenates: the freshest copy of a key in the mesh gets no
\* fresher unless the key is inserted or removed.  Every other step only moves,
\* merges, ages or drops copies.
THEOREM NoRejuvenation == Spec => NothingRejuvenates
<1>1. TypeOK /\ [Next]_vars
        => [\A k \in Key, t \in 0 .. DefaultTTL :
              AllBelow(k, t) => Written(k) \/ AllBelow(k, t)']_vars
  <2> SUFFICES ASSUME TypeOK, Next, NEW k \in Key, NEW t \in 0 .. DefaultTTL,
                      AllBelow(k, t), ~ Written(k)
               PROVE  AllBelow(k, t)'
    OBVIOUS
  <2> USE HostAssumption
  <2>0. /\ t \in Nat
        /\ \A n \in Node : disk[n] \in Store /\ Below(disk[n], k, t)
        /\ \A p \in Worker : mem[p] \in Store /\ Below(mem[p], k, t)
                             /\ slice[p] \in Store /\ Below(slice[p], k, t)
                             /\ host[p] \in Node
        /\ Below(EmptyStore, k, t)
    BY TTLAssumption DEF TypeOK, AllBelow, Below, EmptyStore
  \* It is enough that the new contents of files and tables are below t.
  <2>a. ASSUME \A n \in Node : Below(disk'[n], k, t),
               \A p \in Worker : Below(mem'[p], k, t) /\ Below(slice'[p], k, t)
        PROVE  AllBelow(k, t)'
    BY <2>a DEF AllBelow, Below
  \* A save of s, kept in memory or dropped.
  <2>b. ASSUME NEW p \in Worker, NEW s, NEW c, NEW u, NEW d, Below(s, k, t),
               SaveAndUnlock(p, s, c), Keep(p, u, d), Below(u, k, t),
               \A q \in Worker : slice'[q] \in {slice[q], EmptyStore}
        PROVE  AllBelow(k, t)'
    <3>1. \A n \in Node : disk'[n] \in {disk[n], s}
      BY <2>b DEF SaveAndUnlock, TypeOK
    <3>2. \A q \in Worker : mem'[q] \in {mem[q], u}
      BY <2>b DEF Keep, TypeOK
    <3>3. \A n \in Node : Below(disk'[n], k, t)
      BY <2>0, <2>b, <3>1
    <3>4. \A q \in Worker : Below(mem'[q], k, t) /\ Below(slice'[q], k, t)
      BY <2>0, <2>b, <3>2
    <3> QED BY <2>a, <3>3, <3>4
  \* A step that leaves the files alone and only moves or drops tables.
  <2>c. ASSUME disk' = disk,
               \A p \in Worker : /\ Below(mem'[p], k, t)
                                 /\ Below(slice'[p], k, t)
        PROVE  AllBelow(k, t)'
    BY <2>0, <2>a, <2>c
  <2>1. ASSUME NEW p \in Worker, LockAndLoad(p) PROVE AllBelow(k, t)'
    <3>1. Below(Merge(mem[p], disk[host[p]]), k, t)
      BY <2>0, MergeBelow
    <3>2. \A q \in Worker : mem'[q] \in {mem[q], Merge(mem[p], disk[host[p]])}
                            /\ slice'[q] = slice[q]
      BY <2>1 DEF LockAndLoad, TypeOK
    <3>3. disk' = disk
      BY <2>1 DEF LockAndLoad
    <3>4. \A q \in Worker : Below(mem'[q], k, t) /\ Below(slice'[q], k, t)
      BY <2>0, <3>1, <3>2
    <3> QED BY <2>c, <3>3, <3>4
  <2>2. ASSUME NEW p \in Worker, NEW new \in Published, NEW i \in InsertTTL,
               Insert(p, new, i)
        PROVE  AllBelow(k, t)'
    <3>1. k \notin DOMAIN new
      BY <2>2 DEF Written
    <3>2. Below(Inserted(mem[p], new, i), k, t)
      BY <2>0, <3>1 DEF Below, Inserted
    <3> QED BY <2>2, <2>b, <3>2 DEF Insert
  <2>3. ASSUME NEW p \in Worker, NEW keys \in SUBSET Key, Remove(p, keys)
        PROVE  AllBelow(k, t)'
    <3>1. k \notin Removable(mem[p], keys)
      BY <2>3 DEF Written
    <3>2. Below(Removed(mem[p], keys), k, t)
      BY <2>0, <3>1 DEF Below, Removed
    <3> QED BY <2>3, <2>b, <3>2 DEF Remove
  <2>4. ASSUME NEW p \in Worker, Bleach(p) PROVE AllBelow(k, t)'
    <3>1. Below(Bleached(mem[p]), k, t)
      BY <2>0, BleachBelow
    <3> QED BY <2>0, <2>4, <2>b, <3>1 DEF Bleach, Exit
  <2>5. ASSUME NEW p \in Worker, ServeMerge(p) PROVE AllBelow(k, t)'
    <3>1. Below(Merge(mem[p], slice[p]), k, t)
      BY <2>0, MergeBelow
    <3>2. \A q \in Worker : slice'[q] \in {slice[q], EmptyStore}
      BY <2>5 DEF ServeMerge, TypeOK
    <3> QED BY <2>5, <2>b, <3>1, <3>2 DEF ServeMerge
  <2>6. ASSUME NEW p \in Worker, SyncSave(p) PROVE AllBelow(k, t)'
    <3>1. \A n \in Node : disk'[n] \in {disk[n], mem[p]}
      BY <2>6 DEF SyncSave, SaveAndUnlock, TypeOK
    <3>2. mem' = mem /\ slice' = slice
      BY <2>6 DEF SyncSave
    <3> QED BY <2>0, <2>a, <3>1, <3>2
  <2>7. ASSUME NEW p \in Worker, NEW q \in Worker, Post(p, q) PROVE AllBelow(k, t)'
    <3>1. \A w \in Worker : mem'[w] = mem[w] /\ slice'[w] \in {slice[w], mem[p]}
      BY <2>7 DEF Post, TypeOK
    <3> QED BY <2>0, <2>7, <2>c, <3>1 DEF Post
  <2>8. ASSUME NEW p \in Worker, NEW q \in Worker, Reply(p, q) PROVE AllBelow(k, t)'
    <3>1. Below(Merge(mem[q], mem[p]), k, t)
      BY <2>0, MergeBelow
    <3>2. \A w \in Worker :
             /\ mem'[w] \in {mem[w], EmptyStore, Merge(mem[q], mem[p])}
             /\ slice'[w] = slice[w]
      BY <2>8 DEF Reply, TypeOK
    <3> QED BY <2>0, <2>8, <2>c, <3>1, <3>2 DEF Reply
  <2>9. ASSUME NEW p \in Worker,
               \/ Get(p) \/ Sync(p) \/ Timeout(p) \/ ReplyUnread(p)
               \/ NotifyHooks(p) \/ LockTimeout(p) \/ (\E m \in Node : PostFails(p, m))
        PROVE  AllBelow(k, t)'
    <3>1. \A w \in Worker : mem'[w] \in {mem[w], EmptyStore}
                            /\ slice'[w] \in {slice[w], EmptyStore}
      BY <2>9 DEF Get, Sync, SyncStart, Timeout, ReplyUnread, NotifyHooks, LockTimeout,
                  PostFails, Exit, Keep, TypeOK
    <3>2. disk' = disk
      BY <2>9 DEF Get, Sync, SyncStart, Timeout, ReplyUnread, NotifyHooks, LockTimeout,
                  PostFails
    <3> QED BY <2>0, <2>c, <3>1, <3>2
  <2>10. ASSUME NEW m \in Node, Reboot(m) PROVE AllBelow(k, t)'
    <3>1. \A w \in Worker : mem'[w] \in {mem[w], EmptyStore}
                            /\ slice'[w] \in {slice[w], EmptyStore}
      BY <2>10 DEF Reboot
    <3>2. \A n \in Node : disk'[n] \in {disk[n], EmptyStore}
      BY <2>10 DEF Reboot, TypeOK
    <3> QED BY <2>0, <2>a, <3>1, <3>2
  <2> QED BY <2>1, <2>2, <2>3, <2>4, <2>5, <2>6, <2>7, <2>8, <2>9, <2>10
          DEF Next, Write, Gossip
<1> QED BY <1>1, TypeCorrect, PTL DEF Spec, NothingRejuvenates

-----------------------------------------------------------------------------
(* SharedState implements GossipStore: the initial states are the same, and *)
(* every step of a process maps to one of the store, or to copies being     *)
(* made and lost.                                                           *)

\* What is stored of key k.
OnDisk(k) == {disk[n][k] : n \in Node}

\* What there is of key k before a step, and nothing.
Known(k) == Copies(k) \cup OnDisk(k) \cup {NoEntry}

\* No table and no request holds anything new but what is stored.
Spreads ==
    \A k \in Key, q \in Worker :
       mem'[q][k] \in Known(k) \cup OnDisk(k)' /\ slice'[q][k] \in Known(k) \cup OnDisk(k)'

\* Then copies were made of what there is.
LEMMA SpreadCarries == ASSUME Spreads PROVE Promised!Carry
<1> SUFFICES ASSUME NEW k \in Key, NEW e \in Afloat'[k]
             PROVE  e \in Afloat[k] \cup OnDisk(k) \cup OnDisk(k)'
  BY DEF Promised!Carry, OnDisk
<1>1. e \in Copies(k)' /\ e # NoEntry
  BY DEF Afloat
<1>2. e \in Known(k) \cup OnDisk(k)'
  BY <1>1 DEF Spreads, Copies
<1> QED BY <1>1, <1>2 DEF Known, Afloat

\* A step that leaves the files alone and spreads what there is.
LEMMA SpreadIsStep == ASSUME disk' = disk, Spreads PROVE Promised!Next
BY SpreadCarries DEF Promised!Next

\* What everything in the tables and requests is.
LEMMA AllKnown ==
    ASSUME TypeOK
    PROVE  /\ \A k \in Key, q \in Worker : mem[q][k] \in Known(k) /\ slice[q][k] \in Known(k)
           /\ \A k \in Key, n \in Node : disk[n][k] \in Known(k)
           /\ \A k \in Key : EmptyStore[k] \in Known(k)
           /\ \A s, rs \in Store : \A k \in Key :
                s[k] \in Known(k) /\ rs[k] \in Known(k) => Merge(s, rs)[k] \in Known(k)
<1>1. \A k \in Key, q \in Worker : mem[q][k] \in Known(k) /\ slice[q][k] \in Known(k)
  BY DEF Known, Copies
<1>2. \A k \in Key, n \in Node : disk[n][k] \in Known(k)
  BY DEF Known, OnDisk
<1>3. \A k \in Key : EmptyStore[k] \in Known(k)
  BY DEF Known, EmptyStore
<1>4. ASSUME NEW s \in Store, NEW rs \in Store, NEW k \in Key,
             s[k] \in Known(k), rs[k] \in Known(k)
      PROVE  Merge(s, rs)[k] \in Known(k)
  BY <1>4, MergeLemma
<1> QED BY <1>1, <1>2, <1>3, <1>4

-----------------------------------------------------------------------------
\* The steps that write no file make copies, or lose them.
LEMMA QuietSteps ==
    ASSUME TypeOK, NEW p \in Worker,
           \/ LockAndLoad(p) \/ Get(p) \/ Sync(p) \/ Timeout(p) \/ ReplyUnread(p)
           \/ NotifyHooks(p) \/ LockTimeout(p)
           \/ \E q \in Worker : Post(p, q) \/ Reply(p, q)
           \/ \E m \in Node : PostFails(p, m)
    PROVE  Promised!Next
<1> USE HostAssumption
<1>1. disk' = disk
  BY DEF LockAndLoad, Get, Sync, SyncStart, Timeout, ReplyUnread, NotifyHooks,
         LockTimeout, Post, Reply, PostFails
<1>2. \A q \in Worker : mem[q] \in Store /\ disk[host[q]] \in Store /\ host[q] \in Node
  BY DEF TypeOK
<1>3. CASE LockAndLoad(p)
  <2>1. \A q \in Worker : mem'[q] \in {mem[q], Merge(mem[p], disk[host[p]])}
                          /\ slice'[q] = slice[q]
    BY <1>3 DEF LockAndLoad, TypeOK
  <2>2. \A k \in Key : Merge(mem[p], disk[host[p]])[k] \in Known(k)
    BY <1>2, AllKnown
  <2>3. Spreads
    BY <2>1, <2>2, AllKnown DEF Spreads
  <2> QED BY <1>1, <2>3, SpreadIsStep
<1>4. ASSUME NEW q \in Worker, Post(p, q) PROVE Promised!Next
  <2>1. \A w \in Worker : mem'[w] = mem[w] /\ slice'[w] \in {slice[w], mem[p]}
    BY <1>4 DEF Post, TypeOK
  <2>2. Spreads
    BY <2>1, AllKnown DEF Spreads
  <2> QED BY <1>1, <2>2, SpreadIsStep
<1>5. ASSUME NEW q \in Worker, Reply(p, q) PROVE Promised!Next
  <2>1. \A w \in Worker : mem'[w] \in {mem[w], EmptyStore, Merge(mem[q], mem[p])}
                          /\ slice'[w] = slice[w]
    BY <1>5 DEF Reply, TypeOK
  <2>2. \A k \in Key : Merge(mem[q], mem[p])[k] \in Known(k)
    BY <1>2, AllKnown
  <2>3. Spreads
    BY <2>1, <2>2, AllKnown DEF Spreads
  <2> QED BY <1>1, <2>3, SpreadIsStep
<1>6. CASE \/ Get(p) \/ Sync(p) \/ Timeout(p) \/ ReplyUnread(p) \/ NotifyHooks(p)
           \/ LockTimeout(p) \/ \E m \in Node : PostFails(p, m)
  <2>1. \A w \in Worker : mem'[w] \in {mem[w], EmptyStore}
                          /\ slice'[w] \in {slice[w], EmptyStore}
    BY <1>6 DEF Get, Sync, SyncStart, Timeout, ReplyUnread, NotifyHooks, LockTimeout,
                PostFails, Exit, Keep, TypeOK
  <2>2. Spreads
    BY <2>1, AllKnown DEF Spreads
  <2> QED BY <1>1, <2>2, SpreadIsStep
<1> QED BY <1>3, <1>4, <1>5, <1>6

-----------------------------------------------------------------------------
\* A process saves s and goes on with it, or with nothing.
LEMMA SaveCarries ==
    ASSUME TypeOK, NEW p \in Worker, NEW s \in Store, NEW u, NEW d,
           disk' = [disk EXCEPT ![host[p]] = s], Keep(p, u, d),
           u \in {s, mem[p], EmptyStore},
           \A q \in Worker : slice'[q] \in {slice[q], EmptyStore}
    PROVE  Promised!Carry
<1>1. \A k \in Key : s[k] \in OnDisk(k)'
  <2>1. host[p] \in Node /\ disk'[host[p]] = s
    BY HostAssumption DEF TypeOK
  <2> QED BY <2>1 DEF OnDisk
<1>2. \A q \in Worker : mem'[q] \in {mem[q], s, mem[p], EmptyStore}
  BY DEF Keep, TypeOK
<1>3. Spreads
  BY <1>1, <1>2, AllKnown DEF Spreads
<1> QED BY <1>3, SpreadCarries

\* An insert, which has read the file under the lock, is one of the store.
LEMMA InsertStep ==
    ASSUME TypeOK, LockHolderIsCurrent, NEW p \in Worker,
           NEW new \in Published, NEW t \in InsertTTL, Insert(p, new, t)
    PROVE  Promised!Next
<1>1. mem[p] = disk[host[p]] /\ host[p] \in Node /\ mem[p] \in Store
  BY HostAssumption DEF LockHolderIsCurrent, Insert, Critical, TypeOK
<1>2. PICK S \in SUBSET Key : S # {} /\ new \in [S -> Data]
  <2>1. PICK F \in {[S -> Data] : S \in (SUBSET Key) \ {{}}} : new \in F
    BY DEF Published
  <2> QED BY <2>1
<1>3. Inserted(mem[p], new, t) \in Store
  BY <1>1, WrittenType
<1>4. disk' = [disk EXCEPT ![host[p]] = Inserted(mem[p], new, t)]
  BY DEF Insert, SaveAndUnlock
<1>5. Promised!Carry
  BY <1>3, <1>4, SaveCarries DEF Insert
<1>6. Promised!Insert(host[p], new, t)
  BY <1>1, <1>4, <1>5 DEF Promised!Insert, Promised!Becomes, Inserted
<1> QED BY <1>1, <1>2, <1>6 DEF Promised!Next

\* So is a removal.
LEMMA RemoveStep ==
    ASSUME TypeOK, LockHolderIsCurrent, NEW p \in Worker,
           NEW keys \in SUBSET Key, Remove(p, keys)
    PROVE  Promised!Next
<1>1. mem[p] = disk[host[p]] /\ host[p] \in Node /\ mem[p] \in Store
  BY HostAssumption DEF LockHolderIsCurrent, Remove, Critical, TypeOK
<1>2. Removed(mem[p], keys) \in Store
  BY <1>1, WrittenType
<1>3. disk' = [disk EXCEPT ![host[p]] = Removed(mem[p], keys)]
  <2>1. CASE Removable(mem[p], keys) = {}
    <3>1. Removed(mem[p], keys) = mem[p]
      BY <1>1, <2>1 DEF Removed, Store
    <3>2. disk' = disk
      BY <2>1 DEF Remove, SaveAndUnlock
    <3> QED BY <1>1, <3>1, <3>2 DEF TypeOK
  <2>2. CASE Removable(mem[p], keys) # {}
    BY <2>2 DEF Remove, SaveAndUnlock
  <2> QED BY <2>1, <2>2
<1>4. Promised!Carry
  BY <1>2, <1>3, SaveCarries DEF Remove
<1>5. Promised!Remove(host[p], keys)
  BY <1>1, <1>3, <1>4 DEF Promised!Remove, Promised!Becomes, Removed, Removable
<1> QED BY <1>1, <1>5 DEF Promised!Next

\* And a bleach.
LEMMA BleachStep ==
    ASSUME TypeOK, LockHolderIsCurrent, NEW p \in Worker, Bleach(p)
    PROVE  Promised!Next
<1>1. mem[p] = disk[host[p]] /\ host[p] \in Node /\ mem[p] \in Store
  BY HostAssumption DEF LockHolderIsCurrent, Bleach, Critical, TypeOK
<1>2. Bleached(mem[p]) \in Store
  BY <1>1, BleachedType
<1>3. disk' = [disk EXCEPT ![host[p]] = Bleached(mem[p])]
  <2>1. CASE mem[p] = EmptyStore
    <3>1. Bleached(mem[p]) = mem[p]
      BY <2>1 DEF Bleached, BleachEntry, EmptyStore
    <3>2. disk' = disk
      BY <2>1 DEF Bleach, SaveAndUnlock
    <3> QED BY <1>1, <3>1, <3>2 DEF TypeOK
  <2>2. CASE mem[p] # EmptyStore
    BY <2>2 DEF Bleach, SaveAndUnlock
  <2> QED BY <2>1, <2>2
<1>4. \E u, d : Keep(p, u, d) /\ u \in {Bleached(mem[p]), mem[p], EmptyStore}
  BY DEF Bleach, Exit
<1>5. Promised!Carry
  BY <1>2, <1>3, <1>4, SaveCarries DEF Bleach
<1>6. Promised!Bleach(host[p])
  BY <1>1, <1>3, <1>5 DEF Promised!Bleach, Promised!Becomes, Bleached, BleachEntry
<1> QED BY <1>1, <1>6 DEF Promised!Next

\* A table that is made of copies and as fresh as the file may be saved.
LEMMA TakeStep ==
    ASSUME TypeOK, NEW p \in Worker, NEW s \in Store, Promised!Carry,
           disk' = [disk EXCEPT ![host[p]] = s],
           \A k \in Key : s[k] \in Copies(k) /\ AtLeast(s[k], disk[host[p]][k])
    PROVE  Promised!Next
<1>1. host[p] \in Node
  BY HostAssumption
<1>2. s \in Promised!Table
  BY DEF Store, Entry, Promised!Table, Promised!Item
<1>3. \A k \in Key : s[k] \in Afloat[k] \/ s[k] = disk[host[p]][k]
  BY DEF Afloat, AtLeast
<1>4. Promised!Take(host[p], s)
  BY <1>3 DEF Promised!Take, Promised!Becomes, AtLeast
<1> QED BY <1>1, <1>2, <1>4 DEF Promised!Next

\* A served request, and a sync that saves, take copies; or nothing changed, and
\* the file is not written.
LEMMA SaveStep ==
    ASSUME TypeOK, LockHolderIsCurrent, NEW p \in Worker, ServeMerge(p) \/ SyncSave(p)
    PROVE  Promised!Next
<1>1. /\ host[p] \in Node /\ mem[p] \in Store /\ slice[p] \in Store
      /\ disk[host[p]] \in Store
  BY HostAssumption DEF TypeOK
<1>2. \A k \in Key : AtLeast(mem[p][k], disk[host[p]][k])
  BY DEF LockHolderIsCurrent, ServeMerge, SyncSave, Critical
<1>3. CASE ServeMerge(p)
  <2> DEFINE s == Merge(mem[p], slice[p])
  <2>1. /\ s \in Store
        /\ \A k \in Key : s[k] \in {mem[p][k], slice[p][k]} /\ AtLeast(s[k], mem[p][k])
    BY <1>1, MergeLemma
  <2>2. \A k \in Key : s[k] \in Copies(k)
    BY <2>1 DEF Copies
  <2>4. \A q \in Worker : slice'[q] \in {slice[q], EmptyStore}
    BY <1>3 DEF ServeMerge, TypeOK
  <2>5. CASE disk' = disk
    <3>1. \A q \in Worker : mem'[q] \in {mem[q], s}
      BY <1>3 DEF ServeMerge, Keep, TypeOK
    <3>2. \A k \in Key : s[k] \in Known(k)
      BY <2>2 DEF Known
    <3>3. Spreads
      <4> HIDE DEF s
      <4> QED BY <2>4, <3>1, <3>2, AllKnown DEF Spreads
    <3> QED BY <2>5, <3>3, SpreadIsStep
  <2>6. CASE disk' = [disk EXCEPT ![host[p]] = s]
    <3>1. Promised!Carry
      BY <1>3, <2>1, <2>4, <2>6, SaveCarries DEF ServeMerge
    <3>2. \A k \in Key : AtLeast(s[k], disk[host[p]][k])
      <4>1. disk'[host[p]] = s
        BY <1>1, <2>6 DEF TypeOK
      <4> QED BY <1>1, <1>3, <4>1, SavesAreFresh
    <3> QED BY <2>1, <2>2, <2>6, <3>1, <3>2, TakeStep
  <2> QED BY <1>3, <2>5, <2>6 DEF ServeMerge, SaveAndUnlock
<1>4. CASE SyncSave(p)
  <2>1. mem' = mem /\ slice' = slice
    BY <1>4 DEF SyncSave
  <2>2. Spreads
    BY <2>1, AllKnown DEF Spreads
  <2>3. CASE disk' = disk
    BY <2>2, <2>3, SpreadIsStep
  <2>4. CASE disk' = [disk EXCEPT ![host[p]] = mem[p]]
    <3>1. \A k \in Key : mem[p][k] \in Copies(k)
      BY DEF Copies
    <3> QED BY <1>1, <1>2, <2>2, <2>4, <3>1, SpreadCarries, TakeStep
  <2> QED BY <1>4, <2>3, <2>4 DEF SyncSave, SaveAndUnlock
<1> QED BY <1>3, <1>4

\* A reboot loses the copies of its node, and perhaps the table.
LEMMA RebootStep == ASSUME TypeOK, NEW n \in Node, Reboot(n) PROVE Promised!Next
<1>1. \A q \in Worker : mem'[q] \in {mem[q], EmptyStore}
                        /\ slice'[q] \in {slice[q], EmptyStore}
  BY DEF Reboot
<1>2. Spreads
  BY <1>1, AllKnown DEF Spreads
<1>3. CASE disk' = disk
  BY <1>2, <1>3, SpreadIsStep
<1>4. CASE disk' = [disk EXCEPT ![n] = EmptyStore]
  <2>1. Promised!Lose(n)
    BY <1>2, <1>4, SpreadCarries DEF Promised!Lose, Promised!Becomes, EmptyStore
  <2> QED BY <2>1 DEF Promised!Next
<1> QED BY <1>3, <1>4 DEF Reboot

-----------------------------------------------------------------------------
\* Each command acts in one step, and gossip brings nothing but copies: for any
\* number of processes and whatever fails, shared-state is a GossipStore.
THEOREM ImplementsGossipStore == Spec => ActsInOneStep
<1>1. Init => Promised!Init
  BY DEF Init, Promised!Init, Afloat, Copies, EmptyStore
<1>2. TypeOK /\ LockHolderIsCurrent /\ [Next]_vars
        => [Promised!Next]_(Promised!vars)
  <2> SUFFICES ASSUME TypeOK, LockHolderIsCurrent, [Next]_vars
               PROVE  Promised!Next \/ UNCHANGED Promised!vars
    OBVIOUS
  <2>1. CASE UNCHANGED vars
    BY <2>1 DEF vars, Promised!vars, Afloat, Copies
  <2>2. ASSUME NEW p \in Worker, Gossip(p) PROVE Promised!Next
    BY <2>2, QuietSteps, SaveStep DEF Gossip
  <2>3. ASSUME NEW p \in Worker,
               LockAndLoad(p) \/ Write(p) \/ Bleach(p) \/ Get(p) \/ Sync(p)
               \/ NotifyHooks(p) \/ LockTimeout(p)
        PROVE  Promised!Next
    BY <2>3, QuietSteps, InsertStep, RemoveStep, BleachStep DEF Write
  <2> QED BY <2>1, <2>2, <2>3, RebootStep DEF Next
<1> QED BY <1>1, <1>2, TypeCorrect, LockProtects, PTL DEF Spec, ActsInOneStep, Promised!Spec
==============================================================================
