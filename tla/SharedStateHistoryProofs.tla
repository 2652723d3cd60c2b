----------------------- MODULE SharedStateHistoryProofs -----------------------
(***************************************************************************)
(* Proofs about SharedState with history variables, for any process slots, *)
(* keys, data and TTLs: that the hooks of a node have seen what it stores  *)
(* (SharedStateWatch, any nodes that stay up), and that syncs keep the     *)
(* freshest entries there were (GossipQuiet, any nodes and neighbours).    *)
(***************************************************************************)
EXTENDS SharedStateWatch, GossipQuiet, SharedStateProofs, WellFoundedInduction

(* SharedStateWatch. *)

\* The reader of a reply does nothing else, and is the reader of one reply.
OneReader ==
    \A q \in Worker : client[q] # Nobody =>
        /\ pc[client[q]] = "waiting"
        /\ \A w \in Worker : client[w] = client[q] => w = q

\* Unless hooks ran in the wrong order: at most one process of n has hooks to
\* run, on what is stored; if none has, they were run on what is stored.
ShownOrPending(n) ==
    ~ raced[n] =>
        /\ \A p, q \in Worker :
             host[p] = n /\ host[q] = n /\ Pending(p) /\ Pending(q) => p = q
        /\ \A p \in Worker :
             host[p] = n /\ Pending(p) => View(mem[p]) = View(disk[n])
        /\ (\A p \in Worker : host[p] = n => ~ Pending(p))
             => View(shown[n]) = View(disk[n])

HooksInv == \A n \in Hooked : ShownOrPending(n)

\* Without reboots it is still the store.
LEMMA WatchIsSpec == WatchSpec => Spec
<1>1. WatchInit => Init
  BY DEF WatchInit
<1>2. [WatchNext]_wvars => [Next]_vars
  BY DEF WatchNext, Next, wvars
<1> QED BY <1>1, <1>2, PTL DEF WatchSpec, Spec

\* A client waits for its reply from the post to the reply, the timeout or the
\* end of the server.
LEMMA ClientsWait == WatchSpec => []OneReader
<1>1. WatchInit => OneReader
  BY DEF WatchInit, Init, OneReader
<1>2. TypeOK /\ OneReader /\ [WatchNext]_wvars => OneReader'
  <2> SUFFICES ASSUME TypeOK, OneReader, [WatchNext]_wvars PROVE OneReader'
    OBVIOUS
  <2> USE ValueAssumption DEF OneReader, TypeOK
  <2>1. ASSUME NEW p \in Worker,
               LockAndLoad(p) \/ Write(p) \/ Bleach(p) \/ Get(p) \/ Sync(p)
               \/ NotifyHooks(p)
        PROVE  OneReader'
    <3>1. client' = client /\ pc[p] # "waiting"
      BY <2>1 DEF LockAndLoad, Write, Insert, Remove, Bleach, Get, Sync, SyncStart,
                  NotifyHooks
    <3>2. \A q \in Worker \ {p} : pc'[q] = pc[q]
      BY <2>1 DEF LockAndLoad, Write, Insert, Remove, Bleach, Get, Sync, SyncStart,
                  NotifyHooks, Exit
    <3> QED BY <3>1, <3>2
  <2>2. ASSUME NEW p \in Worker, LockTimeout(p) PROVE OneReader'
    BY <2>2 DEF LockTimeout
  <2>3. ASSUME NEW p \in Worker, NEW q \in Worker, Post(p, q) PROVE OneReader'
    BY <2>3 DEF Post
  <2>4. ASSUME NEW p \in Worker, NEW q \in Worker, Reply(p, q) PROVE OneReader'
    BY <2>4 DEF Reply
  <2>5. ASSUME NEW p \in Worker, Timeout(p) PROVE OneReader'
    BY <2>5 DEF Timeout
  <2>6. ASSUME NEW p \in Worker,
               \/ ServeMerge(p) \/ ReplyUnread(p) \/ SyncSave(p)
               \/ \E m \in Node : PostFails(p, m)
        PROVE  OneReader'
    <3>1. client' = client /\ \A q \in Worker : pc[q] = "waiting" => pc'[q] = pc[q]
      BY <2>6 DEF ServeMerge, ReplyUnread, SyncSave, PostFails, Exit
    <3> QED BY <3>1
  <2>7. CASE UNCHANGED wvars
    BY <2>7 DEF wvars, vars
  <2> QED BY <2>1, <2>2, <2>3, <2>4, <2>5, <2>6, <2>7 DEF WatchNext, Gossip
<1> QED BY <1>1, <1>2, WatchIsSpec, TypeCorrect, PTL DEF WatchSpec

-----------------------------------------------------------------------------
\* A step that starts no hooks, ends none and shows the hooks nothing new.
LEMMA QuietStep ==
    ASSUME TypeOK, HooksInv, WatchHooks, shown' = shown,
           \A q \in Worker : pc[q] = "notify" \/ pc'[q] = "notify" =>
               pc'[q] = pc[q] /\ changed'[q] = changed[q] /\ mem'[q] = mem[q],
           \A n \in Node : View(disk'[n]) = View(disk[n])
    PROVE  HooksInv'
<1> SUFFICES ASSUME NEW n \in Hooked PROVE ShownOrPending(n)'
  BY DEF HooksInv
<1>1. n \in Node /\ ShownOrPending(n)
  BY HostAssumption DEF HooksInv
<1>2. \A q \in Worker : Pending(q)' <=> Pending(q)
  BY DEF Pending
<1>3. raced'[n] = raced[n]
  BY <1>1, <1>2 DEF WatchHooks, Raced
<1>4. View(disk[n])' = View(disk[n]) /\ View(shown[n])' = View(shown[n])
  BY <1>1 DEF View
<1>5. \A q \in Worker : Pending(q) => View(mem[q])' = View(mem[q])
  BY DEF Pending, View
<1> QED BY <1>1, <1>2, <1>3, <1>4, <1>5 DEF ShownOrPending

\* p saves its table and notes that it changed, or saves nothing.
LEMMA SavingStep ==
    ASSUME TypeOK, HooksInv, WatchHooks, shown' = shown, NEW p \in Worker,
           pc[p] # "notify", pc'[p] = "notify",
           \A q \in Worker \ {p} :
               pc'[q] = pc[q] /\ changed'[q] = changed[q] /\ mem'[q] = mem[q],
           \A n \in Node : n # host[p] => disk'[n] = disk[n],
           changed'[p] => disk'[host[p]] = mem'[p],
           ~ changed'[p] => disk' = disk
    PROVE  HooksInv'
<1> SUFFICES ASSUME NEW n \in Hooked PROVE ShownOrPending(n)'
  BY DEF HooksInv
<1>1. n \in Node /\ ShownOrPending(n)
  BY HostAssumption DEF HooksInv
<1>2. \A q \in Worker \ {p} : Pending(q)' <=> Pending(q)
  BY DEF Pending
<1>3. ~ Pending(p) /\ (Pending(p)' <=> changed'[p])
  BY DEF Pending
<1>4. View(shown[n])' = View(shown[n])
        /\ \A q \in Worker \ {p} : View(mem[q])' = View(mem[q])
  BY DEF View
<1>5. CASE host[p] # n \/ ~ changed'[p]
  <2>1. raced'[n] = raced[n]
    BY <1>1, <1>2, <1>3, <1>5 DEF WatchHooks, Raced
  <2>2. View(disk[n])' = View(disk[n])
    BY <1>1, <1>5 DEF View
  <2>3. \A q \in Worker : host[q] = n => (Pending(q)' <=> Pending(q))
    BY <1>2, <1>3, <1>5
  <2> QED BY <1>1, <1>3, <1>4, <1>5, <2>1, <2>2, <2>3 DEF ShownOrPending
<1>6. CASE host[p] = n /\ changed'[p]
  <2>1. raced'[n] = \E q \in Worker : host[q] = n /\ Pending(q)
    BY <1>1, <1>3, <1>6 DEF WatchHooks, Raced
  <2>2. ~ raced'[n] => \A q \in Worker : host[q] = n /\ Pending(q)' => q = p
    BY <1>2, <2>1
  <2>3. View(mem[p])' = View(disk[n])'
    BY <1>6 DEF View
  <2> QED BY <1>3, <1>6, <2>2, <2>3 DEF ShownOrPending
<1> QED BY <1>5, <1>6

\* A bleach that keeps quiet changes nothing the hooks see.
LEMMA QuietBleach ==
    ASSUME NEW s \in Store, Expiring(s) = {}
    PROVE  View(Bleached(s)) = View(s)
<1> SUFFICES ASSUME NEW k \in Key
             PROVE  View(Bleached(s))[k] = View(s)[k]
  BY DEF View
<1>1. CASE s[k] = NoEntry
  BY <1>1 DEF View, Bleached, BleachEntry
<1>2. CASE s[k] # NoEntry
  <2>1. s[k] \in Entry /\ ~ (s[k].ttl < 2)
    BY <1>2 DEF Expiring, Store
  <2>2. Bleached(s)[k] = [s[k] EXCEPT !.ttl = @ - 1]
    BY <1>2, <2>1 DEF Bleached, BleachEntry
  <2>3. [s[k] EXCEPT !.ttl = @ - 1] \in Entry
    BY <2>1, TTLAssumption DEF Entry
  <2>4. [s[k] EXCEPT !.ttl = @ - 1] # NoEntry /\ [s[k] EXCEPT !.ttl = @ - 1].data = s[k].data
    BY <2>1, <2>3, NoEntryAssumption DEF Entry
  <2> QED BY <1>2, <2>2, <2>4 DEF View
<1> QED BY <1>1, <1>2

-----------------------------------------------------------------------------
\* Every step keeps what the hooks have seen, or are to see, in line with what
\* is stored.
LEMMA HooksStep ==
    ASSUME TypeOK, LockHolderIsCurrent, OneReader, HooksInv, [WatchNext]_wvars
    PROVE  HooksInv'
<1> USE HostAssumption, ValueAssumption
<1>0. \A p \in Worker : host[p] \in Node /\ mem[p] \in Store /\ changed[p] \in BOOLEAN
  BY DEF TypeOK
<1>1. ASSUME NEW p \in Worker, WatchHooks,
             LockAndLoad(p) \/ Get(p) \/ Sync(p) \/ LockTimeout(p)
      PROVE  HooksInv'
  BY <1>1, QuietStep DEF LockAndLoad, Get, Sync, SyncStart, LockTimeout, Keep, Exit,
                         OneReader, TypeOK
<1>2. ASSUME NEW p \in Worker, WatchHooks, Bleach(p) PROVE HooksInv'
  <2>1. mem[p] = disk[host[p]]
    BY <1>2 DEF LockHolderIsCurrent, Bleach, Critical
  <2>2. CASE Expiring(mem[p]) # {}
    <3>1. mem[p] # EmptyStore
      BY <2>2 DEF Expiring, EmptyStore
    <3> QED BY <1>0, <1>2, <2>2, <3>1, SavingStep
            DEF Bleach, SaveAndUnlock, Keep, TypeOK
  <2>3. CASE Expiring(mem[p]) = {}
    <3>1. \A n \in Node : View(disk'[n]) = View(disk[n])
      BY <1>0, <1>2, <2>1, <2>3, QuietBleach DEF Bleach, SaveAndUnlock, TypeOK
    <3> QED BY <1>2, <2>3, <3>1, QuietStep DEF Bleach, Exit, Keep, TypeOK
  <2> QED BY <2>2, <2>3
<1>3. ASSUME NEW p \in Worker, WatchHooks,
             \/ \E new \in Published, t \in InsertTTL : Insert(p, new, t)
             \/ \E keys \in SUBSET Key : Remove(p, keys)
             \/ ServeMerge(p) \/ SyncSave(p)
      PROVE  HooksInv'
  <2>1. shown' = shown /\ pc[p] # "notify" /\ pc' = [pc EXCEPT ![p] = "notify"]
    BY <1>3 DEF Insert, Remove, ServeMerge, SyncSave
  <2> DEFINE Saves ==
        /\ SaveAndUnlock(p, mem'[p], changed'[p])
        /\ \A q \in Worker \ {p} : changed'[q] = changed[q] /\ mem'[q] = mem[q]
  <2>2. ASSUME NEW s, NEW c, SaveAndUnlock(p, s, c), Keep(p, s, c) PROVE Saves
    BY <2>2 DEF Keep, TypeOK
  <2>3. Saves
    <3>1. CASE SyncSave(p)
      BY <3>1 DEF SyncSave
    <3> HIDE DEF Saves
    <3> QED BY <1>3, <2>2, <3>1 DEF Insert, Remove, ServeMerge
  <2> QED BY <1>0, <1>3, <2>1, <2>3, SavingStep DEF SaveAndUnlock, TypeOK
<1>4. ASSUME NEW p \in Worker, WatchHooks,
             \/ \E q \in Worker : Post(p, q) \/ Reply(p, q)
             \/ \E m \in Node : PostFails(p, m)
             \/ Timeout(p) \/ ReplyUnread(p)
      PROVE  HooksInv'
  <2>1. shown' = shown /\ disk' = disk
    BY <1>4 DEF Post, Reply, PostFails, Timeout, ReplyUnread
  <2>2. ASSUME NEW w \in Worker, pc[w] = "notify" \/ pc'[w] = "notify"
        PROVE  pc'[w] = pc[w] /\ changed'[w] = changed[w] /\ mem'[w] = mem[w]
    <3>1. CASE \E q \in Worker : Post(p, q)
      BY <2>2, <3>1 DEF Post, TypeOK
    <3>2. CASE \E q \in Worker : Reply(p, q)
      BY <2>2, <3>2 DEF Reply, OneReader, TypeOK
    <3> QED BY <1>4, <2>2, <3>1, <3>2
            DEF PostFails, Timeout, ReplyUnread, Keep, Exit, TypeOK
  <2> QED BY <1>4, <2>1, <2>2, QuietStep
<1>5. ASSUME NEW p \in Worker, WatchHooks, NotifyHooks(p) PROVE HooksInv'
  <2> SUFFICES ASSUME NEW n \in Hooked PROVE ShownOrPending(n)'
    BY DEF HooksInv
  <2>1. n \in Node /\ ShownOrPending(n)
    BY DEF HooksInv
  <2>2. ~ Pending(p)' /\ \A q \in Worker \ {p} : Pending(q)' <=> Pending(q)
    BY <1>5 DEF NotifyHooks, Exit, Keep, Pending, TypeOK
  <2>3. raced'[n] = raced[n]
    BY <1>5, <2>1, <2>2 DEF WatchHooks, Raced
  <2>4. /\ View(disk[n])' = View(disk[n])
        /\ \A q \in Worker \ {p} : View(mem[q])' = View(mem[q])
    BY <1>5 DEF NotifyHooks, Exit, Keep, View, TypeOK
  <2>5. CASE host[p] = n /\ Pending(p)
    <3>1. View(shown[n])' = View(mem[p])
      BY <1>5, <2>1, <2>5 DEF NotifyHooks, Pending, View, TypeOK
    <3> QED BY <2>1, <2>2, <2>3, <2>4, <2>5, <3>1 DEF ShownOrPending
  <2>6. CASE ~ (host[p] = n /\ Pending(p))
    <3>1. View(shown[n])' = View(shown[n])
      BY <1>5, <2>1, <2>6 DEF NotifyHooks, Pending, View, TypeOK
    <3> QED BY <2>1, <2>2, <2>3, <2>4, <2>6, <3>1 DEF ShownOrPending
  <2> QED BY <2>5, <2>6
<1>6. CASE UNCHANGED wvars
  BY <1>6 DEF HooksInv, ShownOrPending, Pending, View, wvars, vars
<1> QED BY <1>1, <1>2, <1>3, <1>4, <1>5, <1>6 DEF WatchNext, Write, Gossip

\* However processes and syncs interleave, hooks that have all run, in the order
\* of the saves, have seen what is stored.
THEOREM HooksSeeTheStore == WatchSpec => []HooksMatchStore
<1>1. WatchInit => HooksInv
  BY HostAssumption DEF WatchInit, Init, HooksInv, ShownOrPending, Pending, View
<1>2. TypeOK /\ LockHolderIsCurrent /\ OneReader /\ HooksInv /\ [WatchNext]_wvars
        => HooksInv'
  BY HooksStep
<1>3. HooksInv => HooksMatchStore
  BY DEF HooksInv, ShownOrPending, HooksMatchStore
<1> QED BY <1>1, <1>2, <1>3, WatchIsSpec, TypeCorrect, LockProtects, ClientsWait, PTL
        DEF WatchSpec

-----------------------------------------------------------------------------
(* GossipQuiet. *)

\* All freshest entries of a key are of one age, and whatever else there is of
\* it, stored, in a process or in a request, is older.
FreshestLead ==
    \A k \in Key :
       /\ freshest[k] \subseteq Entry
       /\ \A e, f \in freshest[k] : e.ttl = f.ttl
       /\ \A e \in Known(k) \ {NoEntry} :
            e \in freshest[k] \/ \E f \in freshest[k] : e.ttl < f.ttl

\* Among any entries there is one than which none is younger: their ages are
\* bounded, by the TTL of an insert.
LEMMA YoungestEntry ==
    ASSUME NEW S, S \subseteq Entry, S # {}
    PROVE  \E e \in S : \A f \in S : f.ttl <= e.ttl
<1> DEFINE Less == {mn \in Nat \X Nat : mn[1] < mn[2]}
           Age(e) == DefaultTTL - e.ttl
           Ages == {Age(e) : e \in S}
<1>1. \A e \in S : e.ttl \in Nat /\ Age(e) \in Nat
  BY TTLAssumption DEF Entry
<1>2. Ages \subseteq Nat /\ Ages # {}
  BY <1>1
<1>3. IsWellFoundedOn(Less, Nat)
  BY NatLessThanWellFounded DEF OpToRel
<1>4. \A m, n \in Nat : ~ (<<m, n>> \in Less) => n <= m
  OBVIOUS
<1> HIDE DEF Less, Ages
<1>5. PICK a \in Ages : \A b \in Ages : ~ (<<b, a>> \in Less)
  BY <1>2, <1>3, WFMin
<1> USE DEF Ages
<1>6. PICK e \in S : a = Age(e)
  OBVIOUS
<1>7. ASSUME NEW f \in S PROVE f.ttl <= e.ttl
  <2>1. Age(e) <= Age(f)
    BY <1>1, <1>4, <1>5, <1>6
  <2> QED BY <1>1, <2>1, TTLAssumption
<1> QED BY <1>7

\* Initially: files with any contents, and idle processes.
LEMMA QuietInit ==
    AnyFiles => TypeOK /\ IdleTablesEmpty /\ LockHolderIsCurrent /\ FreshestLead
<1> SUFFICES ASSUME AnyFiles
             PROVE  TypeOK /\ IdleTablesEmpty /\ LockHolderIsCurrent /\ FreshestLead
  OBVIOUS
<1>1. TypeOK
  BY EmptyStoreType, HostAssumption DEF AnyFiles, TypeOK, Phase
<1>2. IdleTablesEmpty /\ LockHolderIsCurrent
  BY DEF AnyFiles, IdleTablesEmpty, LockHolderIsCurrent, Critical
<1>3. ASSUME NEW k \in Key
      PROVE  /\ freshest[k] \subseteq Entry
             /\ \A e, f \in freshest[k] : e.ttl = f.ttl
             /\ \A e \in Known(k) \ {NoEntry} :
                  e \in freshest[k] \/ \E f \in freshest[k] : e.ttl < f.ttl
  <2>1. freshest[k] = {e \in Stored(k) : \A f \in Stored(k) : f.ttl <= e.ttl}
    BY DEF AnyFiles, Freshest
  <2>2. Stored(k) \subseteq Entry /\ \A e \in Entry : e.ttl \in Nat
    BY TTLAssumption DEF Stored, AnyFiles, Store, Entry
  <2>3. Known(k) \ {NoEntry} \subseteq Stored(k)
    BY DEF Known, Copies, OnDisk, Stored, AnyFiles, EmptyStore
  <2>4. ASSUME NEW e \in Stored(k), e \notin freshest[k]
        PROVE  \E f \in freshest[k] : e.ttl < f.ttl
    <3>1. PICK f \in Stored(k) : \A g \in Stored(k) : g.ttl <= f.ttl
      BY <2>2, YoungestEntry
    <3>2. f \in freshest[k]
      BY <2>1, <3>1
    <3>3. PICK g \in Stored(k) : ~ (g.ttl <= e.ttl)
      BY <2>1, <2>4
    <3>4. g.ttl <= f.ttl /\ {e.ttl, f.ttl, g.ttl} \subseteq Nat
      BY <2>2, <3>1
    <3> QED BY <3>2, <3>3, <3>4
  <2>5. \A e, f \in freshest[k] : e.ttl <= f.ttl /\ f.ttl <= e.ttl
    BY <2>1
  <2>6. \A e, f \in freshest[k] : e.ttl = f.ttl
    BY <2>1, <2>2, <2>5
  <2> QED BY <2>1, <2>2, <2>3, <2>4, <2>6
<1> QED BY <1>1, <1>2, <1>3 DEF FreshestLead

\* The mesh that only syncs is one of SharedState.
LEMMA QuietIsNext == [QuietNext]_qvars => [Next]_vars
<1> SUFFICES ASSUME NEW p \in Worker, SyncStep(p) PROVE Next
  BY DEF QuietNext, qvars
<1>1. SyncStart(p, neighbour[host[p]]) => Sync(p)
  BY HostAssumption, NeighbourAssumption DEF Sync
<1> QED BY <1>1 DEF SyncStep, Next

\* A step that puts nothing into files, tables and requests but what it finds in
\* them, or a table s that is made of it.
LEMMA NothingNew ==
    ASSUME TypeOK, NEW s, \A k \in Key : s[k] \in Known(k),
           \A n \in Node : disk'[n] \in {disk[n], s},
           \A q \in Worker : mem'[q] \in {mem[q], s, EmptyStore},
           \A q \in Worker : slice'[q] \in {slice[q], s, EmptyStore}
    PROVE  \A k \in Key : Known(k)' \subseteq Known(k)
<1> SUFFICES ASSUME NEW k \in Key, NEW e \in Known(k)' PROVE e \in Known(k)
  OBVIOUS
<1>1. CASE e = NoEntry
  BY <1>1 DEF Known
<1>2. ASSUME NEW q \in Worker, e = mem'[q][k] \/ e = slice'[q][k] PROVE e \in Known(k)
  BY <1>2, AllKnown
<1>3. ASSUME NEW n \in Node, e = disk'[n][k] PROVE e \in Known(k)
  BY <1>3, AllKnown
<1> QED BY <1>1, <1>2, <1>3 DEF Known, Copies, OnDisk

\* So is every step of a sync, on either side.
LEMMA SyncsCopy ==
    ASSUME TypeOK, NEW p \in Worker, SyncStep(p)
    PROVE  \A k \in Key : Known(k)' \subseteq Known(k)
<1>1. \A q \in Worker : /\ mem[q] \in Store /\ slice[q] \in Store
                       /\ host[q] \in Node /\ disk[host[q]] \in Store
  BY HostAssumption DEF TypeOK
<1>2. CASE LockAndLoad(p)
  <2> DEFINE s == Merge(mem[p], disk[host[p]])
  <2>1. \A k \in Key : s[k] \in Known(k)
    BY <1>1, AllKnown
  <2>2. disk' = disk /\ slice' = slice /\ mem' = [mem EXCEPT ![p] = s]
    BY <1>2 DEF LockAndLoad
  <2> HIDE DEF s
  <2>3. \A q \in Worker : mem'[q] \in {mem[q], s}
    BY <2>2 DEF TypeOK
  <2> QED BY <2>1, <2>2, <2>3, NothingNew
<1>3. ASSUME NEW q \in Worker, Post(p, q) PROVE \A k \in Key : Known(k)' \subseteq Known(k)
  <2>1. /\ disk' = disk /\ mem' = mem
        /\ \A w \in Worker : slice'[w] \in {slice[w], mem[p]}
    BY <1>3 DEF Post, TypeOK
  <2> QED BY <2>1, AllKnown, NothingNew
<1>4. CASE ServeMerge(p)
  <2> DEFINE s == Merge(mem[p], slice[p])
  <2>1. \A k \in Key : s[k] \in Known(k)
    BY <1>1, AllKnown
  <2>2. /\ disk' \in {disk, [disk EXCEPT ![host[p]] = s]}
        /\ mem' = [mem EXCEPT ![p] = s] /\ slice' = [slice EXCEPT ![p] = EmptyStore]
    BY <1>4 DEF ServeMerge, SaveAndUnlock, Keep
  <2> HIDE DEF s
  <2>3. /\ \A n \in Node : disk'[n] \in {disk[n], s}
        /\ \A q \in Worker : mem'[q] \in {mem[q], s} /\ slice'[q] \in {slice[q], EmptyStore}
    BY <2>2 DEF TypeOK
  <2> QED BY <2>1, <2>3, NothingNew
<1>5. ASSUME NEW q \in Worker, Reply(p, q) PROVE \A k \in Key : Known(k)' \subseteq Known(k)
  <2> DEFINE s == Merge(mem[q], mem[p])
  <2>1. \A k \in Key : s[k] \in Known(k)
    BY <1>1, AllKnown
  <2>2. /\ disk' = disk /\ slice' = slice
        /\ mem' = [mem EXCEPT ![p] = EmptyStore, ![q] = s]
    BY <1>5 DEF Reply
  <2> HIDE DEF s
  <2>3. \A w \in Worker : mem'[w] \in {mem[w], s, EmptyStore}
    BY <2>2 DEF TypeOK
  <2> QED BY <2>1, <2>2, <2>3, NothingNew
<1>6. CASE SyncSave(p)
  <2>1. /\ mem' = mem /\ slice' = slice
        /\ \A n \in Node : disk'[n] \in {disk[n], mem[p]}
    BY <1>6 DEF SyncSave, SaveAndUnlock, TypeOK
  <2> QED BY <2>1, AllKnown, NothingNew
<1>7. CASE \/ SyncStart(p, neighbour[host[p]]) \/ (\E m \in Node : PostFails(p, m))
           \/ Timeout(p) \/ ReplyUnread(p) \/ NotifyHooks(p)
  <2>1. /\ disk' = disk /\ slice' = slice
        /\ \A w \in Worker : mem'[w] \in {mem[w], EmptyStore}
    BY <1>7 DEF SyncStart, PostFails, Timeout, ReplyUnread, NotifyHooks, Exit, Keep, TypeOK
  <2> QED BY <2>1, AllKnown, NothingNew
<1> QED BY <1>2, <1>3, <1>4, <1>5, <1>6, <1>7 DEF SyncStep, Gossip

\* So nothing comes to be beside the freshest entries but what is older.
LEMMA LeadStep ==
    ASSUME TypeOK, FreshestLead, [QuietNext]_qvars
    PROVE  FreshestLead'
<1>1. freshest' = freshest
  BY DEF QuietNext, qvars
<1>2. \A k \in Key : Known(k)' \subseteq Known(k)
  <2>1. CASE UNCHANGED qvars
    BY <2>1 DEF qvars, vars, Known, Copies, OnDisk
  <2> QED BY <2>1, SyncsCopy DEF QuietNext
<1> QED BY <1>1, <1>2 DEF FreshestLead

\* And who saves has nothing older than the file: a freshest entry gives way to
\* none but another freshest one.
LEMMA StayStep ==
    ASSUME TypeOK, LockHolderIsCurrent, FreshestLead, FreshestLead', QuietNext,
           NEW n \in Node, NEW k \in Key, disk[n][k] \in freshest[k]
    PROVE  disk'[n][k] \in freshest[k]
<1>1. PICK p \in Worker : SyncStep(p) /\ freshest' = freshest
  BY DEF QuietNext
<1>2. CASE ServeMerge(p) \/ SyncSave(p)
  <2>1. disk[n][k] \in Entry /\ disk[n][k].ttl \in Nat /\ disk[n][k] # NoEntry
    BY TTLAssumption, NoEntryAssumption DEF FreshestLead, Entry
  <2>2. disk'[n][k] # NoEntry /\ disk'[n][k].ttl >= disk[n][k].ttl
    BY <1>2, <2>1, SavesAreFresh DEF AtLeast
  <2>3. disk'[n][k] \in Known(k)'
    BY DEF Known, OnDisk
  <2>4. \/ disk'[n][k] \in freshest[k]
        \/ \E f \in freshest[k] : disk'[n][k].ttl < f.ttl
    BY <1>1, <2>2, <2>3 DEF FreshestLead
  <2>5. \A f \in freshest[k] : f.ttl = disk[n][k].ttl
    BY DEF FreshestLead
  <2>6. TypeOK'
    BY <1>1, QuietIsNext, TypeStep
  <2>7. disk'[n][k].ttl \in Nat
    BY <2>2, <2>6, TTLAssumption DEF TypeOK, Store, Entry
  <2> QED BY <2>1, <2>2, <2>4, <2>5, <2>7
<1>3. CASE ~ (ServeMerge(p) \/ SyncSave(p))
  <2>1. disk' = disk
    BY <1>1, <1>3 DEF SyncStep, Gossip, LockAndLoad, SyncStart, Post, PostFails, Timeout,
                      Reply, ReplyUnread, NotifyHooks
  <2> QED BY <2>1
<1> QED BY <1>2, <1>3

\* Syncs never take a freshest entry away, for any number of nodes, processes
\* and keys, whatever the files hold at first and whichever requests fail.
THEOREM FreshestAlwaysStays == QuietSpec => FreshestStays
<1> DEFINE Inv == TypeOK /\ IdleTablesEmpty /\ LockHolderIsCurrent /\ FreshestLead
<1>1. AnyFiles => Inv
  BY QuietInit
<1>2. Inv /\ [QuietNext]_qvars => Inv'
  BY QuietIsNext, TypeStep, IdleStep, LockStep, LeadStep
<1>3. Inv /\ Inv' /\ [QuietNext]_qvars
        => [\A n \in Node, k \in Key :
              disk[n][k] \in freshest[k] => disk'[n][k] \in freshest[k]]_qvars
  BY StayStep
<1> HIDE DEF Inv
<1> QED BY <1>1, <1>2, <1>3, PTL DEF QuietSpec, FreshestStays
===============================================================================
