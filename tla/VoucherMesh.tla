------------------------------ MODULE VoucherMesh ------------------------------
(***************************************************************************)
(* The vouchers of a mesh: packages/shared-state-pirania, which publishes  *)
(* every node's db.csv through shared-state and rewrites db.csv from what  *)
(* shared-state holds.                                                     *)
(*                                                                         *)
(* A voucher is stored under a hash of its contents, so that every change  *)
(* makes another entry beside the old one: a version.  The versions live   *)
(* and die like any entry of shared-state (GossipStore), here present or   *)
(* not; the hook generate_vouchers picks one of each voucher.              *)
(*                                                                         *)
(* Vouchers looks into the commands and the file of one node; here each    *)
(* changes the database in one step.                                       *)
(***************************************************************************)
EXTENDS Naturals, SequencesExt

CONSTANTS
    Node,
    Proc,        \* process slots: publishers, hooks, requests and replies
    Secret,      \* the codes of the vouchers
    Mac,
    allowed,     \* the number of MACs of each voucher
    Dates,       \* expiry dates; the date of a removed voucher is 0
    Gone,        \* no row in the database
    Nowhere,     \* the node of a process that is idle
    MaxVersions, \* bound on the versions that are ever made
    MaxWork      \* bound on their number and that of busy processes together

ASSUME AllowedAssumption == allowed \in [Secret -> Nat]
ASSUME DatesAssumption == Dates \subseteq Nat /\ 0 \in Dates
ASSUME BoundAssumption == MaxVersions \in Nat /\ MaxWork \in Nat

Version == [voucher : Secret, expires : Dates, macs : SUBSET Mac]

VARIABLES
    db,     \* node -> voucher -> its row in db.csv, as a version
    store,  \* node -> the versions shared-state holds
    step,   \* process -> what it is doing
    at,     \* process -> the node it reads from or works on
    held,   \* process -> the versions it was given
    made    \* the versions commands have made

vars == <<db, store, step, at, held, made>>

Step == {"idle", "publish", "carry", "hook"}

Row == Version \cup {Gone}

\* Variant: vouchers that are not in the database count as well.
RowsAndGaps(n) == {db[n][s] : s \in Secret}

\* list_vouchers
Rows(n) == {db[n][s] : s \in Secret} \ {Gone}

Of(s, V) == {v \in V : v.voucher = s}

-----------------------------------------------------------------------------
(* generate_vouchers. *)

\* Variant: the MACs of all versions are put together.
BetterUnited(prev, act) == [prev EXCEPT !.macs = @ \cup act.macs]

\* Variant: a removed voucher is one like any other.
BetterByMacs(prev, act) ==
    IF Cardinality(prev.macs) < Cardinality(act.macs) THEN act ELSE prev

\* Variant: only the removal of a voucher replaces another version.
BetterIfRemoved(prev, act) == IF act.expires = 0 THEN act ELSE prev

\* What reduce keeps of the version it has and the next one.
Better(prev, act) ==
    IF act.expires = 0 \/ Cardinality(prev.macs) < Cardinality(act.macs)
    THEN act ELSE prev

\* reduce: of the first i versions in this order, kept[i] is left.
Reduced(order) ==
    LET kept[i \in 1 .. Len(order)] ==
          IF i = 1 THEN order[1] ELSE Better(kept[i - 1], order[i])
    IN kept[Len(order)]

\* What may become of voucher s: the versions of one voucher come in any order,
\* that of a hash table sorted by their code.
Results(s, V) ==
    IF Of(s, V) = {} THEN {Gone} ELSE {Reduced(order) : order \in SetToSeqs(Of(s, V))}

-----------------------------------------------------------------------------
Init ==
    /\ db = [n \in Node |-> [s \in Secret |-> Gone]]
    /\ store = [n \in Node |-> {}]
    /\ step = [p \in Proc |-> "idle"]
    /\ at = [p \in Proc |-> Nowhere]
    /\ held = [p \in Proc |-> {}]
    /\ made = {}

Busy == {p \in Proc : step[p] # "idle"}

\* A command of pirania makes v the row of its voucher.  The publishing that
\* follows (01-publish_db) is one of those that happen all the time.
Change(n, v) ==
    /\ Cardinality(made \cup {v}) <= MaxVersions
    /\ Cardinality(made \cup {v}) + Cardinality(Busy) <= MaxWork
    /\ db' = [db EXCEPT ![n][v.voucher] = v]
    /\ made' = made \cup {v}
    /\ UNCHANGED <<store, step, at, held>>

\* add_voucher; codes are not used twice.
Add(n, s, d) ==
    /\ Of(s, made) = {} /\ d # 0
    /\ Change(n, [voucher |-> s, expires |-> d, macs |-> {}])

\* The devices that have used a voucher, and a new one; which is all the same.
Devices ==
    LET seen == UNION {v.macs : v \in made} IN
    IF seen = Mac THEN Mac ELSE seen \cup {CHOOSE m \in Mac : m \notin seen}

\* auth_voucher accepts m, with a voucher that has not expired.
Use(n, s, m) ==
    LET v == db[n][s] IN
    /\ v # Gone /\ v.expires # 0
    /\ Cardinality(v.macs) < allowed[s]
    /\ Change(n, [v EXCEPT !.macs = @ \cup {m}])

\* renew_voucher and, with d = 0, remove_voucher
Redate(n, s, d) ==
    /\ db[n][s] # Gone
    /\ Change(n, [db[n][s] EXCEPT !.expires = d])

-----------------------------------------------------------------------------
Becomes(p, what, n, V) ==
    /\ step' = [step EXCEPT ![p] = what]
    /\ at' = [at EXCEPT ![p] = n]
    /\ held' = [held EXCEPT ![p] = V]

\* A process starts, in a free slot; which one is all the same.
Starts(p) ==
    /\ Busy # Proc /\ p = CHOOSE q \in Proc : q \notin Busy
    /\ Cardinality(made) + Cardinality(Busy) < MaxWork

\* The process ends.
Exit(p) == Becomes(p, "idle", Nowhere, {})

\* shared-state-publish_vouchers reads the database (without a row it inserts
\* nothing, which changes nothing),
Publish(p, n) ==
    /\ Starts(p) /\ Rows(n) # {}
    /\ Becomes(p, "publish", n, Rows(n))
    /\ UNCHANGED <<db, store, made>>

\* and inserts what it has read; the hooks follow.
Insert(p) ==
    LET n == at[p] IN
    /\ step[p] = "publish"
    /\ store' = [store EXCEPT ![n] = @ \cup held[p]]
    /\ Becomes(p, "hook", n, store[n] \cup held[p])
    /\ UNCHANGED <<db, made>>

\* shared-state sync posts, or replies with, what node n has; if it has nothing
\* nothing changes;
Send(p, n) ==
    /\ Starts(p) /\ store[n] # {}
    /\ Becomes(p, "carry", n, store[n])
    /\ UNCHANGED <<db, store, made>>

\* it is merged on node n, where the hooks follow if some of it is new or has
\* longer to live,
Merge(p, n) ==
    /\ step[p] = "carry" /\ n # at[p]
    /\ store' = [store EXCEPT ![n] = @ \cup held[p]]
    /\ Becomes(p, "hook", n, store[n] \cup held[p])
    /\ UNCHANGED <<db, made>>

\* or it is lost, or none of it is news.
Lose(p) ==
    /\ step[p] = "carry"
    /\ Exit(p)
    /\ UNCHANGED <<db, store, made>>

\* shared-state bleach, when the versions V expire: those nobody has inserted or
\* merged any more for as long as an entry lives.
Bleach(p, n, V) ==
    /\ Starts(p) /\ V # {}
    /\ store' = [store EXCEPT ![n] = @ \ V]
    /\ Becomes(p, "hook", n, store[n] \ V)
    /\ UNCHANGED <<db, made>>

\* The hook generate_vouchers: the database is written anew from what the hook
\* was given, and the rows of vouchers it was not given are gone.
Generate(p) ==
    /\ step[p] = "hook"
    /\ \E rows \in [Secret -> Row] :
          /\ \A s \in Secret : rows[s] \in Results(s, held[p])
          /\ db' = [db EXCEPT ![at[p]] = rows]
    /\ Exit(p)
    /\ UNCHANGED <<store, made>>

\* Power loss: shared-state keeps its files in memory, pirania in flash.
Reboot(n) ==
    /\ store' = [store EXCEPT ![n] = {}]
    /\ step' = [p \in Proc |-> IF at[p] = n THEN "idle" ELSE step[p]]
    /\ at' = [p \in Proc |-> IF at[p] = n THEN Nowhere ELSE at[p]]
    /\ held' = [p \in Proc |-> IF at[p] = n THEN {} ELSE held[p]]
    /\ UNCHANGED <<db, made>>

-----------------------------------------------------------------------------
\* What users do, and what makes shared-state forget.
Commands ==
    \E n \in Node, s \in Secret :
       (\E d \in Dates : Add(n, s, d) \/ Redate(n, s, d)) \/ (\E m \in Devices : Use(n, s, m))

Forgets ==
    \E n \in Node :
       Reboot(n) \/ \E p \in Proc, V \in SUBSET store[n] : Bleach(p, n, V)

Spreads ==
    \E p \in Proc :
       \/ Insert(p) \/ Lose(p) \/ Generate(p)
       \/ \E n \in Node : Publish(p, n) \/ Send(p, n) \/ Merge(p, n)

Next == Commands \/ Forgets \/ Spreads

\* Cron publishes and syncs on every node all the time, and now and then what a
\* node sends to another arrives: then it is fresher than what has aged there, if
\* it has just been published.  What has begun ends, a connection too.
Fairness ==
    /\ \A n \in Node : /\ SF_vars(\E p \in Proc : Publish(p, n))
                       /\ SF_vars(\E p \in Proc : Send(p, n))
    /\ \A m \in Node : \A n \in Node \ {m} :
          SF_vars(\E p \in Proc : at[p] = m /\ held[p] \cap Rows(m) # {} /\ Merge(p, n))
    /\ \A p \in Proc :
          WF_vars(Insert(p) \/ Generate(p) \/ Lose(p) \/ \E n \in Node : Merge(p, n))

Spec == Init /\ [][Next]_vars /\ Fairness

-----------------------------------------------------------------------------
(* Properties. *)

TypeOK ==
    /\ db \in [Node -> [Secret -> Row]]
    /\ \A n \in Node, s \in Secret : db[n][s] # Gone => db[n][s].voucher = s
    /\ store \in [Node -> SUBSET made]
    /\ step \in [Proc -> Step]
    /\ at \in [Proc -> Node \cup {Nowhere}]
    /\ held \in [Proc -> SUBSET made]
    /\ made \in SUBSET Version

\* However versions compete and spread, no node's database lists more MACs for a
\* voucher than it allows: the limit is checked on one node's row, and the hook
\* takes one version whole, whatever devices other nodes accepted meanwhile (of
\* versions as well used it drops the devices of one).
WithinAllowance ==
    \A n \in Node, s \in Secret :
       db[n][s] # Gone => Cardinality(db[n][s].macs) <= allowed[s]

\* The versions of s that some node's shared-state holds.
Known(s) == Of(s, UNION {store[n] : n \in Node})

\* Some database lists s: a voucher that only shared-state holds is published by
\* nobody, and dies out.
Listed(s) == \E n \in Node : db[n][s] # Gone

\* There are removals in V, each of them at least as well used as every version
\* that is none.
RemovalLeads(V) ==
    /\ \E v \in V : v.expires = 0
    /\ \A v, w \in V :
         v.expires = 0 /\ w.expires # 0 => Cardinality(w.macs) <= Cardinality(v.macs)

\* What generate_vouchers should make of the versions V of a voucher that it was
\* given, in whatever order they came: one of them, the removal if there is one
\* that leads, and if none is a removal one that lists the most MACs.
ChosenWell(row, V) ==
    /\ row \in V
    /\ RemovalLeads(V) => row.expires = 0
    /\ (\A v \in V : v.expires # 0) =>
         \A v \in V : Cardinality(v.macs) <= Cardinality(row.macs)

\* However many versions compete, each row the hook writes is chosen well among
\* them, though the reduce goes through them once, two at a time, in the order of
\* their hashes.  So no removal and no device is lost to a version it was made
\* from; but a removal may be lost to a better used version it knows nothing of,
\* and of versions as well used either may be taken.
HooksChooseWell ==
    [][\A p \in Proc : Generate(p) =>
          \A s \in Secret :
             LET V == Of(s, held[p]) IN V # {} => ChosenWell(db'[at[p]][s], V)]_vars

\* The versions of s, of all that were ever made, that every node should end up
\* with: the removals if they lead, else, with none removed, those that list the
\* most MACs.
Best(s) ==
    LET V == Of(s, made) IN
    IF RemovalLeads(V) THEN {v \in V : v.expires = 0}
    ELSE {v \in V : \A w \in V :
                      w.expires # 0 /\ Cardinality(w.macs) <= Cardinality(v.macs)}

\* All databases list one of the best, and no store, and no hook that runs, is
\* without one.
Settled(s) ==
    /\ \A n \in Node : db[n][s] \in Best(s) /\ store[n] \cap Best(s) # {}
    /\ \A p \in Proc : step[p] = "hook" => held[p] \cap Best(s) # {}

\* A voucher the nodes agree about is never unsettled by what still floats about:
\* old versions in a reply, in a database that was read before, or in a hook that
\* started before; only users, the age of entries or a power loss change it.
SettledStays == [][\A s \in Secret : Settled(s) => Commands \/ Forgets \/ Settled(s)']_vars

\* From some time on users leave the vouchers alone and nothing is forgotten.
LeftAlone == <>[][~ (Commands \/ Forgets)]_vars

\* A removal that some node's shared-state holds ends up in every database, whatever
\* older versions are still around and however often they are published, sent and
\* picked again, if it leads.  (One that a hook overwrites in the database before
\* it is published is in no store, and lost.)
RemovalsSpread ==
    LeftAlone =>
        \A s \in Secret :
           <>[](RemovalLeads(Known(s)) /\ Listed(s) =>
                  \A n \in Node : db[n][s] # Gone /\ db[n][s].expires = 0)

\* Every node ends up with a version that lists as many MACs as any that some node's
\* shared-state holds, unless that holds a removal: a device that was published is
\* known everywhere, as long as no version with as many other devices competes.
\* (One that a hook overwrites in the database before it is published is lost.)
UsesSpread ==
    LeftAlone =>
        \A s \in Secret :
           <>[](Listed(s) /\ (\A v \in Known(s) : v.expires # 0) =>
                  \A n \in Node, v \in Known(s) :
                     /\ db[n][s] # Gone
                     /\ Cardinality(v.macs) <= Cardinality(db[n][s].macs))
===============================================================================
