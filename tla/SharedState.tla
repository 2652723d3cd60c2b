----------------------------- MODULE SharedState -----------------------------
(***************************************************************************)
(* The gossiped key/value store of packages/shared-state: the library      *)
(* shared-state.lua, its command line and its CGI entry point, for one     *)
(* data type, on every node of the mesh.                                   *)
(*                                                                         *)
(* Each node keeps one JSON file (disk), guarded by a file lock (holder).  *)
(* Every operation is a process of its own (a Worker on its host) with its *)
(* own in-memory table (mem) and changed flag.  A sync gives the lock up   *)
(* while it talks to the neighbours, and takes it again to save.  A        *)
(* request is served on the neighbour by another worker, whose critical    *)
(* section and hooks come before its reply.  Connections fail, replies     *)
(* come too late, processes give up waiting for the lock, nodes reboot.    *)
(*                                                                         *)
(* The author field of an entry is left out: no code reads it.             *)
(***************************************************************************)
EXTENDS Naturals, FiniteSets

CONSTANTS
    Node,        \* the nodes of the mesh
    Worker,      \* process slots; a slot runs one operation after another
    host,        \* the node every slot lives on
    Httpd,       \* the slots uhttpd serves requests in; cron, publishers and
                 \* users run their commands in the others
    Hooked,      \* the nodes where the data type has a hooks directory
    Key, Data,
    Nil,         \* the data of a removed entry
    NoEntry,     \* a key that is not in the table
    Nobody,      \* no worker
    DefaultTTL,  \* the bleachTTL of an insert that names none (30)
    InsertTTL    \* the bleachTTLs inserts use

ASSUME HostAssumption == 
    /\ host \in [Worker -> Node]
    /\ Httpd \subseteq Worker
    /\ Hooked \subseteq Node

ASSUME TTLAssumption ==
    /\ DefaultTTL \in Nat \ {0}
    /\ InsertTTL \subseteq 1 .. DefaultTTL

ASSUME ValueAssumption ==
    /\ Nil \notin Data
    /\ Nobody \notin Worker

Entry == [ttl : 1 .. DefaultTTL, data : Data \cup {Nil}]

ASSUME NoEntryAssumption == NoEntry \notin Entry

Store == [Key -> Entry \cup {NoEntry}]
EmptyStore == [k \in Key |-> NoEntry]

VARIABLES
    disk,        \* node -> the data file, as load would read it
    holder,      \* node -> the worker holding the file lock
    pc,          \* worker -> where its operation is
    mem,         \* worker -> self.storage
    changed,     \* worker -> self.changed
    todo,        \* worker -> the neighbours a sync has yet to ask
    slice,       \* worker -> the request body a reqsync is to merge
    client,      \* worker -> the worker waiting for its reply
    shown        \* node -> what the hooks were last run on

vars == <<disk, holder, pc, mem, changed, todo, slice, client, shown>>

Phase == {"idle", "locked", "request", "waiting", "resaving",
          "accepted", "merging", "notify", "reply"}

\* The phases in which a worker holds the lock of its host.
Critical == {"locked", "resaving", "merging"}

-----------------------------------------------------------------------------
(* The operations on one table. *)

\* An entry a merge may take: present, and not expired.
Live(e) == e # NoEntry /\ e.ttl > 0

\* Variant: a merge that only takes the keys the table lacks.
BeatsAbsent(rv, lv) == Live(rv) /\ lv = NoEntry

\* Variant: a merge that takes whatever it is sent.
BeatsAlways(rv, lv) == Live(rv)

\* The remote entry rv beats the local lv.
Beats(rv, lv) == Live(rv) /\ (lv = NoEntry \/ lv.ttl < rv.ttl)

\* Variant: a merge that enters what it takes as an insert would.
MergeAsInsert(s, rs) ==
    [k \in Key |-> IF Beats(rs[k], s[k]) THEN [rs[k] EXCEPT !.ttl = DefaultTTL] ELSE s[k]]

Merge(s, rs) == [k \in Key |-> IF Beats(rs[k], s[k]) THEN rs[k] ELSE s[k]]

\* Whether merging rs into s, notifyInsert being true, sets self.changed.
MergeChanges(s, rs) ==
    \E k \in Key : rs[k] # NoEntry /\ (~ Live(rs[k]) \/ Beats(rs[k], s[k]))

\* Variant: an entry expires one bleaching later.
BleachEntryLate(e) ==
    IF e = NoEntry \/ e.ttl < 1 THEN NoEntry ELSE [e EXCEPT !.ttl = @ - 1]

BleachEntry(e) ==
    IF e = NoEntry \/ e.ttl < 2 THEN NoEntry ELSE [e EXCEPT !.ttl = @ - 1]

Bleached(s) == [k \in Key |-> BleachEntry(s[k])]

\* Variant: a bleach that takes the removal of an entry for no change.
ExpiringNone(s) == {k \in Key : s[k] # NoEntry /\ s[k].ttl < 1}

Expiring(s) == {k \in Key : s[k] # NoEntry /\ s[k].ttl < 2}

Inserted(s, new, t) ==
    [k \in Key |-> IF k \in DOMAIN new THEN [ttl |-> t, data |-> new[k]] ELSE s[k]]

Removable(s, keys) == {k \in keys : s[k] # NoEntry /\ s[k].data # Nil}

Removed(s, keys) ==
    [k \in Key |-> IF k \in Removable(s, keys)
                   THEN [ttl |-> DefaultTTL, data |-> Nil] ELSE s[k]]

-----------------------------------------------------------------------------
Init ==
    /\ disk = [n \in Node |-> EmptyStore]
    /\ holder = [n \in Node |-> Nobody]
    /\ pc = [p \in Worker |-> "idle"]
    /\ mem = [p \in Worker |-> EmptyStore]
    /\ changed = [p \in Worker |-> FALSE]
    /\ todo = [p \in Worker |-> {}]
    /\ slice = [p \in Worker |-> EmptyStore]
    /\ client = [p \in Worker |-> Nobody]
    /\ shown = [n \in Node |-> EmptyStore]

\* Variant: a process that goes ahead when another one holds the lock.
LockAndLoadAnyway(p) ==
    /\ \/ pc[p] = "idle" /\ p \notin Httpd    /\ pc' = [pc EXCEPT ![p] = "locked"]
       \/ pc[p] = "accepted"                 /\ pc' = [pc EXCEPT ![p] = "merging"]
       \/ pc[p] = "request" /\ todo[p] = {}  /\ pc' = [pc EXCEPT ![p] = "resaving"]
    /\ holder' = [holder EXCEPT ![host[p]] = p]
    /\ mem' = [mem EXCEPT ![p] = Merge(mem[p], disk[host[p]])]
    /\ UNCHANGED <<disk, changed, todo, slice, client, shown>>

\* Variant: a sync that does not load again before it saves.
LockAndLoadOnce(p) ==
    /\ holder[host[p]] = Nobody
    /\ \/ pc[p] = "idle" /\ p \notin Httpd    /\ pc' = [pc EXCEPT ![p] = "locked"]
       \/ pc[p] = "accepted"                 /\ pc' = [pc EXCEPT ![p] = "merging"]
       \/ pc[p] = "request" /\ todo[p] = {}  /\ pc' = [pc EXCEPT ![p] = "resaving"]
    /\ holder' = [holder EXCEPT ![host[p]] = p]
    /\ mem' = IF pc[p] = "request" THEN mem
              ELSE [mem EXCEPT ![p] = Merge(mem[p], disk[host[p]])]
    /\ UNCHANGED <<disk, changed, todo, slice, client, shown>>

\* lock(); load().  The prologue of every operation, of a served reqsync and
\* of the second half of a sync.  load merges the file into the table with
\* notifyInsert false, so it leaves changed alone: the file holds no expired
\* entry.
LockAndLoad(p) ==
    LET n == host[p] IN
    /\ holder[n] = Nobody
    /\ \/ pc[p] = "idle" /\ p \notin Httpd    /\ pc' = [pc EXCEPT ![p] = "locked"]
       \/ pc[p] = "accepted"                 /\ pc' = [pc EXCEPT ![p] = "merging"]
       \/ pc[p] = "request" /\ todo[p] = {}  /\ pc' = [pc EXCEPT ![p] = "resaving"]
    /\ holder' = [holder EXCEPT ![n] = p]
    /\ mem' = [mem EXCEPT ![p] = Merge(mem[p], disk[n])]
    /\ UNCHANGED <<disk, changed, todo, slice, client, shown>>

\* save(); unlock() of a table s: the file is written only if c (changed).
SaveAndUnlock(p, s, c) ==
    /\ disk' = IF c THEN [disk EXCEPT ![host[p]] = s] ELSE disk
    /\ holder' = [holder EXCEPT ![host[p]] = Nobody]

\* The process goes on with table s and flag c.
Keep(p, s, c) ==
    /\ mem' = [mem EXCEPT ![p] = s]
    /\ changed' = [changed EXCEPT ![p] = c]

\* The process ends and its table is gone.
Exit(p) ==
    /\ pc' = [pc EXCEPT ![p] = "idle"]
    /\ Keep(p, EmptyStore, FALSE)

\* bleach(): hooks only follow when an entry expired.
Bleach(p) ==
    /\ pc[p] = "locked"
    /\ SaveAndUnlock(p, Bleached(mem[p]), mem[p] # EmptyStore)
    /\ IF Expiring(mem[p]) # {}
       THEN /\ Keep(p, Bleached(mem[p]), TRUE)
            /\ pc' = [pc EXCEPT ![p] = "notify"]
       ELSE Exit(p)
    /\ UNCHANGED <<todo, slice, client, shown>>

Insert(p, new, t) ==
    /\ pc[p] = "locked"
    /\ SaveAndUnlock(p, Inserted(mem[p], new, t), TRUE)
    /\ Keep(p, Inserted(mem[p], new, t), TRUE)
    /\ pc' = [pc EXCEPT ![p] = "notify"]
    /\ UNCHANGED <<todo, slice, client, shown>>

Remove(p, keys) ==
    LET c == Removable(mem[p], keys) # {} IN
    /\ pc[p] = "locked"
    /\ SaveAndUnlock(p, Removed(mem[p], keys), c)
    /\ Keep(p, Removed(mem[p], keys), c)
    /\ pc' = [pc EXCEPT ![p] = "notify"]
    /\ UNCHANGED <<todo, slice, client, shown>>

\* get(): nothing is saved.
Get(p) ==
    /\ pc[p] = "locked"
    /\ holder' = [holder EXCEPT ![host[p]] = Nobody]
    /\ Exit(p)
    /\ UNCHANGED <<disk, todo, slice, client, shown>>

\* First half of sync: the table is loaded, the lock goes, urls are collected.
SyncStart(p, peers) ==
    /\ pc[p] = "locked"
    /\ pc' = [pc EXCEPT ![p] = "request"]
    /\ todo' = [todo EXCEPT ![p] = peers]
    /\ holder' = [holder EXCEPT ![host[p]] = Nobody]
    /\ UNCHANGED <<disk, mem, changed, slice, client, shown>>

\* One POST that reaches neighbour host[q]: uhttpd starts q with the body.
Post(p, q) ==
    /\ pc[p] = "request" /\ host[q] \in todo[p]
    /\ q \in Httpd /\ pc[q] = "idle"
    /\ pc' = [pc EXCEPT ![p] = "waiting", ![q] = "accepted"]
    /\ slice' = [slice EXCEPT ![q] = mem[p]]
    /\ client' = [client EXCEPT ![q] = p]
    /\ todo' = [todo EXCEPT ![p] = @ \ {host[q]}]
    /\ UNCHANGED <<disk, holder, mem, changed, shown>>

\* The neighbour does not answer at all.
PostFails(p, m) ==
    /\ pc[p] = "request" /\ m \in todo[p]
    /\ todo' = [todo EXCEPT ![p] = @ \ {m}]
    /\ UNCHANGED <<disk, holder, pc, mem, changed, slice, client, shown>>

\* uclient-fetch gives up (--timeout=3); whoever serves the request goes on.
Timeout(p) ==
    /\ pc[p] = "waiting"
    /\ pc' = [pc EXCEPT ![p] = "request"]
    /\ client' = [q \in Worker |-> IF client[q] = p THEN Nobody ELSE client[q]]
    /\ UNCHANGED <<disk, holder, mem, changed, todo, slice, shown>>

\* reqsync: merge the body under the lock.
ServeMerge(q) ==
    LET s == Merge(mem[q], slice[q])
        c == MergeChanges(mem[q], slice[q]) IN
    /\ pc[q] = "merging"
    /\ SaveAndUnlock(q, s, c)
    /\ Keep(q, s, c)
    /\ pc' = [pc EXCEPT ![q] = "notify"]
    /\ slice' = [slice EXCEPT ![q] = EmptyStore]
    /\ UNCHANGED <<todo, client, shown>>

\* Second half of sync: save and unlock.
SyncSave(p) ==
    /\ pc[p] = "resaving"
    /\ SaveAndUnlock(p, mem[p], changed[p])
    /\ pc' = [pc EXCEPT ![p] = "notify"]
    /\ UNCHANGED <<mem, changed, todo, slice, client, shown>>

\* notifyHooks(), outside the lock and with the worker's own table.  A
\* reqsync whose client still waits has a reply to print after it.
NotifyHooks(p) ==
    /\ pc[p] = "notify"
    /\ shown' = IF changed[p] /\ host[p] \in Hooked
                THEN [shown EXCEPT ![host[p]] = mem[p]] ELSE shown
    /\ IF client[p] # Nobody
       THEN pc' = [pc EXCEPT ![p] = "reply"] /\ UNCHANGED <<mem, changed>>
       ELSE Exit(p)
    /\ UNCHANGED <<disk, holder, todo, slice, client>>

\* The reply reaches the waiting client p, which merges it.
Reply(q, p) ==
    /\ pc[q] = "reply" /\ client[q] = p
    /\ pc' = [pc EXCEPT ![q] = "idle", ![p] = "request"]
    /\ mem' = [mem EXCEPT ![q] = EmptyStore, ![p] = Merge(mem[p], mem[q])]
    /\ changed' = [changed EXCEPT ![q] = FALSE,
                                  ![p] = @ \/ MergeChanges(mem[p], mem[q])]
    /\ client' = [client EXCEPT ![q] = Nobody]
    /\ UNCHANGED <<disk, holder, todo, slice, shown>>

\* The reply has no reader left.
ReplyUnread(q) ==
    /\ pc[q] = "reply" /\ client[q] = Nobody
    /\ Exit(q)
    /\ UNCHANGED <<disk, holder, todo, slice, client, shown>>

\* Ten seconds of trying were not enough: os.exit(ERROR_LOCK_FAILED).  The
\* client of a reqsync gets an empty answer, which it only logs.
LockTimeout(p) ==
    /\ holder[host[p]] # Nobody
    /\ pc[p] = "accepted" \/ (pc[p] = "request" /\ todo[p] = {})
    /\ pc' = [w \in Worker |-> IF w = p THEN "idle"
                               ELSE IF w = client[p] THEN "request" ELSE pc[w]]
    /\ Keep(p, EmptyStore, FALSE)
    /\ slice' = [slice EXCEPT ![p] = EmptyStore]
    /\ client' = [client EXCEPT ![p] = Nobody]
    /\ UNCHANGED <<disk, holder, todo, shown>>

\* Power loss.  The data file is on a RAM disk, or, with
\* shared-state-persist, on a disk that keeps it; a crash in the middle of
\* save, which truncates the file, leaves an empty file.
Reboot(n) ==
    LET here == {p \in Worker : host[p] = n} IN
    /\ pc' = [p \in Worker |-> IF p \in here THEN "idle" ELSE pc[p]]
    /\ mem' = [p \in Worker |-> IF p \in here THEN EmptyStore ELSE mem[p]]
    /\ slice' = [p \in Worker |-> IF p \in here THEN EmptyStore ELSE slice[p]]
    /\ changed' = [p \in Worker |-> p \notin here /\ changed[p]]
    /\ todo' = [p \in Worker |-> IF p \in here THEN {} ELSE todo[p]]
    /\ client' = [p \in Worker |-> IF p \in here \/ client[p] \in here
                                   THEN Nobody ELSE client[p]]
    /\ holder' = [holder EXCEPT ![n] = Nobody]
    /\ disk' \in {disk, [disk EXCEPT ![n] = EmptyStore]}
    /\ UNCHANGED shown

-----------------------------------------------------------------------------
\* What a publisher passes to insert: a table of at least one key.
Published == UNION {[S -> Data] : S \in (SUBSET Key) \ {{}}}

\* A publisher writes on p's node.
Write(p) ==
    \/ \E new \in Published, t \in InsertTTL : Insert(p, new, t)
    \/ \E keys \in SUBSET Key : Remove(p, keys)

\* A sync begins: its candidates are any of the other nodes.
Sync(p) == \E peers \in SUBSET (Node \ {host[p]}) : SyncStart(p, peers)

\* The further steps of a sync, on the client and on the server.
Gossip(p) ==
    \/ \E q \in Worker : Post(p, q)
    \/ \E m \in Node : PostFails(p, m)
    \/ Timeout(p)
    \/ ServeMerge(p)
    \/ \E q \in Worker : Reply(p, q)
    \/ ReplyUnread(p)
    \/ SyncSave(p)

Next ==
    \/ \E p \in Worker :
         LockAndLoad(p) \/ Write(p) \/ Bleach(p) \/ Get(p) \/ Sync(p) \/ Gossip(p)
         \/ NotifyHooks(p) \/ LockTimeout(p)
    \/ \E n \in Node : Reboot(n)

Spec == Init /\ [][Next]_vars

-----------------------------------------------------------------------------
(* Properties. *)

TypeOK ==
    /\ disk \in [Node -> Store]
    /\ holder \in [Node -> Worker \cup {Nobody}]
    /\ pc \in [Worker -> Phase]
    /\ mem \in [Worker -> Store]
    /\ changed \in [Worker -> BOOLEAN]
    /\ todo \in [Worker -> SUBSET Node]
    /\ slice \in [Worker -> Store]
    /\ client \in [Worker -> Worker \cup {Nobody}]
    /\ shown \in [Node -> Store]

\* Entry f may stand in for e: it is at least as fresh.
AtLeast(f, e) == e = NoEntry \/ (f # NoEntry /\ f.ttl >= e.ttl)

\* The lock protects every read-modify-write.  Whoever is in its critical
\* section holds the lock of its host and nobody else does; a fresh process, or
\* one that serves a request, works on exactly what the file holds; and the
\* table a process is about to save has, for every key, an entry at least as fresh as the file's, whatever
\* other processes did while it waited (lock, load, save and unlock in
\* shared-state.lua).
LockHolderIsCurrent ==
    \A p \in Worker : pc[p] \in Critical =>
        /\ holder[host[p]] = p
        /\ pc[p] \in {"locked", "merging"} => mem[p] = disk[host[p]]
        /\ \A k \in Key : AtLeast(mem[p][k], disk[host[p]][k])

Fresher(f, e) == f # NoEntry /\ (e = NoEntry \/ f.ttl > e.ttl)

\* The step keeps the entry of key k on node n as it is, data and all, or puts a
\* fresher one in its place, or has a reason not to.
EntrySurvives(n, k) ==
    LET e == disk[n][k]
        f == disk'[n][k] IN
    \/ f = e \/ Fresher(f, e)
    \/ Reboot(n)
    \/ \E p \in Worker :
         /\ host[p] = n
         /\ \/ Bleach(p) /\ f = BleachEntry(e)
            \/ \E new \in Published, t \in InsertTTL : k \in DOMAIN new /\ Insert(p, new, t)
            \/ \E keys \in SUBSET Key : k \in Removable(disk[n], keys) /\ Remove(p, keys)
            \/ SyncSave(p) /\ f # NoEntry /\ f.ttl = e.ttl

\* A node's stored entry stays as it is, but for one bleach of that node, a reboot
\* of it, a local insert or removal of that very key, an entry that is fresher, and
\* one thing the code should not do: a sync that saves may put another entry of the
\* same TTL in its place (SyncKeepsChangesDuringSync is about that).  So no sync,
\* served request, insert or removal of other keys loses or ages what another
\* process stored while it was under way, and only a sync changes its data.
StoredEntriesSurvive ==
    [][\A n \in Node, k \in Key : EntrySurvives(n, k)]_vars

\* Every copy of key k in the mesh, stored, in a process or in a request, has
\* at most t bleachings left.
AllBelow(k, t) ==
    /\ \A n \in Node : disk[n][k] # NoEntry => disk[n][k].ttl <= t
    /\ \A p \in Worker :
         /\ mem[p][k] # NoEntry => mem[p][k].ttl <= t
         /\ slice[p][k] # NoEntry => slice[p][k].ttl <= t

\* Some process inserts or removes key k.
Written(k) ==
    \E p \in Worker :
       \/ \E new \in Published, t \in InsertTTL : k \in DOMAIN new /\ Insert(p, new, t)
       \/ \E keys \in SUBSET Key : k \in Removable(mem[p], keys) /\ Remove(p, keys)

\* Gossip never rejuvenates: without an insert or a removal of k the freshest
\* copy of k in the whole mesh never gets fresher, however syncs, late
\* requests, lost replies and reboots interleave with the bleachings.  For
\* t = 0: a key that has died out everywhere stays dead until it is written.
NothingRejuvenates ==
    [][\A k \in Key, t \in 0 .. DefaultTTL :
         AllBelow(k, t) => Written(k) \/ AllBelow(k, t)']_vars
=============================================================================
