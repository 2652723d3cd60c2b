--------------------------- MODULE VoucherMeshProofs ---------------------------
(***************************************************************************)
(* Theorems about the vouchers of a mesh, for any number of nodes,         *)
(* processes, vouchers, versions and devices.                              *)
(*                                                                         *)
(* What reduce makes of the versions of a voucher is a recursive function. *)
(* Nothing is known of one but what a proof shows: first that there is a   *)
(* function with that recursion, then, by induction on the number of       *)
(* versions, that what it keeps is chosen well.  The induction is one over *)
(* sets of numbers: a set of them that is not empty has a least element.   *)
(*                                                                         *)
(* The inductive invariant is TypeOK and MeshInv.                          *)
(***************************************************************************)
EXTENDS VoucherMesh, FiniteSetTheorems, WellFoundedInduction, TLAPS

\* The order of the natural numbers, as a relation.
Less == {mn \in Nat \X Nat : mn[1] < mn[2]}

\* A set of natural numbers has a least element.
LEMMA LeastNumber ==
    ASSUME NEW S \in SUBSET Nat, S # {}
    PROVE  \E n \in S : \A m \in S : n <= m
<1>1. IsWellFoundedOn(Less, Nat)
  BY NatLessThanWellFounded DEF OpToRel, Less
<1>2. PICK n \in S : \A m \in S : ~ (<<m, n>> \in Less)
  BY <1>1, WFMin
<1>3. ASSUME NEW m \in S PROVE n <= m
  <2>1. \A a, b \in Nat : a < b => <<a, b>> \in Less
    BY DEF Less
  <2>2. ~ (<<m, n>> \in Less)
    BY <1>2
  <2>3. m \in Nat /\ n \in Nat /\ ~ (m < n)
    BY <2>1, <2>2
  <2> QED BY <2>3
<1> QED BY <1>3

\* Induction up to n, on a set.
LEMMA UpTo ==
    ASSUME NEW n \in Nat, NEW T, 1 \in T,
           \A i \in 1 .. n : i < n /\ i \in T => i + 1 \in T
    PROVE  1 .. n \subseteq T
<1> SUFFICES ASSUME (1 .. n) \ T # {} PROVE FALSE
  OBVIOUS
<1>1. PICK m \in (1 .. n) \ T : \A i \in (1 .. n) \ T : m <= i
  <2>1. (1 .. n) \ T \in SUBSET Nat
    OBVIOUS
  <2> QED BY <2>1, LeastNumber
<1>2. m # 1 /\ m - 1 \in 1 .. n /\ m - 1 < n /\ ~ (m <= m - 1)
  OBVIOUS
<1>3. m - 1 \in T
  BY <1>1, <1>2
<1>4. (m - 1) + 1 \in T
  BY <1>2, <1>3
<1> QED BY <1>2, <1>4

-----------------------------------------------------------------------------
\* kept is what reduce keeps of the versions in this order, one after another.
Keeps(kept, n, order) ==
    kept = [i \in 1 .. n |-> IF i = 1 THEN order[1] ELSE Better(kept[i - 1], order[i])]

\* There is such a function for every number of versions, by induction on it.
LEMMA KeptExists ==
    ASSUME NEW n \in Nat \ {0}, NEW order
    PROVE  \E kept : Keeps(kept, n, order)
<1> DEFINE T == {m \in 1 .. n : \E kept : Keeps(kept, m, order)}
<1>1. 1 \in T
  <2>1. Keeps([i \in 1 .. 1 |-> order[1]], 1, order)
    BY DEF Keeps
  <2> QED BY <2>1
<1>2. ASSUME NEW m \in 1 .. n, m < n, m \in T PROVE m + 1 \in T
  <2>1. PICK kept : Keeps(kept, m, order)
    BY <1>2
  <2> DEFINE more == [i \in 1 .. m + 1 |-> IF i <= m THEN kept[i]
                                           ELSE Better(kept[m], order[m + 1])]
  <2>2. \A i \in 1 .. m : kept[i] = IF i = 1 THEN order[1] ELSE Better(kept[i - 1], order[i])
    BY <2>1 DEF Keeps
  <2>3. ASSUME NEW i \in 1 .. m + 1
        PROVE  more[i] = IF i = 1 THEN order[1] ELSE Better(more[i - 1], order[i])
    <3>1. CASE i = 1
      BY <2>2, <3>1
    <3>2. CASE i # 1 /\ i <= m
      BY <2>2, <3>2
    <3>3. CASE i = m + 1
      BY <3>3
    <3> QED BY <3>1, <3>2, <3>3
  <2>4. more = [i \in 1 .. m + 1 |-> more[i]]
    OBVIOUS
  <2> HIDE DEF more
  <2>5. Keeps(more, m + 1, order)
    BY <2>3, <2>4 DEF Keeps
  <2> QED BY <2>5, <1>2
<1> HIDE DEF T
<1>3. 1 .. n \subseteq T
  BY <1>1, <1>2, UpTo
<1> QED BY <1>3 DEF T

\* So Reduced is what is left after the last one.
LEMMA ReducedIsKept ==
    ASSUME NEW n \in Nat \ {0}, NEW V, NEW order \in [1 .. n -> V]
    PROVE  \E kept : Keeps(kept, n, order) /\ Reduced(order) = kept[n]
<1>1. Len(order) = n
  OBVIOUS
<1>2. \E kept : Keeps(kept, n, order)
  BY KeptExists
<1>3. Reduced(order) = (CHOOSE kept : Keeps(kept, n, order))[n]
  BY <1>1 DEF Reduced, Keeps
<1> QED BY <1>2, <1>3

\* Versions list a finite number of MACs.
FiniteMacs(V) == \A v \in V : Cardinality(v.macs) \in Nat

\* One more version: the better of it and what was chosen well is chosen well.
LEMMA BetterIsChosenWell ==
    ASSUME NEW V, NEW prev, ChosenWell(prev, V), NEW act, FiniteMacs(V \cup {act})
    PROVE  ChosenWell(Better(prev, act), V \cup {act})
<1> DEFINE both == V \cup {act}
<1>1. \A v \in both : Cardinality(v.macs) \in Nat
  BY DEF FiniteMacs
<1>2. prev \in V
  BY DEF ChosenWell
<1>3. CASE Better(prev, act) = act
  <2>1. act.expires = 0 \/ Cardinality(prev.macs) < Cardinality(act.macs)
        \/ act = prev
    BY <1>3 DEF Better
  <2>2. ASSUME RemovalLeads(both), act.expires # 0 PROVE FALSE
    <3>1. RemovalLeads(V)
      BY <2>2 DEF RemovalLeads
    <3>2. prev.expires = 0
      BY <3>1 DEF ChosenWell
    <3>3. Cardinality(act.macs) <= Cardinality(prev.macs)
      BY <1>2, <2>2, <3>2 DEF RemovalLeads
    <3> QED BY <1>1, <1>2, <2>1, <2>2, <3>2, <3>3
  <2>3. ASSUME \A v \in both : v.expires # 0, NEW v \in both
        PROVE  Cardinality(v.macs) <= Cardinality(act.macs)
    <3>1. \A w \in V : Cardinality(w.macs) <= Cardinality(prev.macs)
      BY <2>3 DEF ChosenWell
    <3>2. Cardinality(prev.macs) <= Cardinality(act.macs)
      BY <1>1, <1>2, <2>1, <2>3
    <3> QED BY <1>1, <1>2, <3>1, <3>2
  <2> QED BY <1>3, <2>2, <2>3 DEF ChosenWell
<1>4. CASE Better(prev, act) = prev /\ act # prev
  <2>1. act.expires # 0 /\ ~ (Cardinality(prev.macs) < Cardinality(act.macs))
    BY <1>4 DEF Better
  <2>2. RemovalLeads(both) => prev.expires = 0
    <3>1. RemovalLeads(both) => RemovalLeads(V)
      BY <2>1 DEF RemovalLeads
    <3> QED BY <3>1 DEF ChosenWell
  <2>3. ASSUME \A v \in both : v.expires # 0, NEW v \in both
        PROVE  Cardinality(v.macs) <= Cardinality(prev.macs)
    <3>1. \A w \in V : Cardinality(w.macs) <= Cardinality(prev.macs)
      BY <2>3 DEF ChosenWell
    <3> QED BY <1>1, <1>2, <2>1, <3>1
  <2> QED BY <1>2, <1>4, <2>2, <2>3 DEF ChosenWell
<1> QED BY <1>3, <1>4 DEF Better

\* What is kept of the first versions is chosen well among them, by induction
\* on their number.
LEMMA KeptIsChosenWell ==
    ASSUME NEW n \in Nat \ {0}, NEW V, NEW order \in [1 .. n -> V], FiniteMacs(V),
           NEW kept, Keeps(kept, n, order)
    PROVE  ChosenWell(kept[n], {order[j] : j \in 1 .. n})
<1> DEFINE First(i) == {order[j] : j \in 1 .. i}
           T == {i \in 1 .. n : ChosenWell(kept[i], First(i))}
<1>1. \A i \in 1 .. n :
         kept[i] = IF i = 1 THEN order[1] ELSE Better(kept[i - 1], order[i])
  BY DEF Keeps
<1>2. 1 \in T
  <2>1. kept[1] = order[1] /\ First(1) = {order[1]}
    BY <1>1
  <2>2. Cardinality(order[1].macs) \in Nat
    BY DEF FiniteMacs
  <2>3. ChosenWell(kept[1], First(1))
    BY <2>1, <2>2 DEF ChosenWell, RemovalLeads
  <2> QED BY <2>3
<1>3. ASSUME NEW i \in 1 .. n, i < n, i \in T PROVE i + 1 \in T
  <2>1. i + 1 \in 1 .. n /\ kept[i + 1] = Better(kept[i], order[i + 1])
    BY <1>1, <1>3
  <2>2. First(i + 1) = First(i) \cup {order[i + 1]}
    <3>1. 1 .. i + 1 = (1 .. i) \cup {i + 1}
      OBVIOUS
    <3> QED BY <3>1
  <2>3. First(i) \cup {order[i + 1]} \subseteq V
    BY <2>1
  <2>4. ChosenWell(kept[i], First(i))
    BY <1>3
  <2> HIDE DEF First
  <2>5. FiniteMacs(First(i) \cup {order[i + 1]})
    BY <2>3 DEF FiniteMacs
  <2>6. ChosenWell(Better(kept[i], order[i + 1]), First(i) \cup {order[i + 1]})
    BY <2>4, <2>5, BetterIsChosenWell
  <2>7. ChosenWell(kept[i + 1], First(i + 1))
    BY <2>1, <2>2, <2>6
  <2> QED BY <2>1, <2>7
<1> HIDE DEF T
<1>4. 1 .. n \subseteq T
  BY <1>2, <1>3, UpTo
<1>5. n \in T
  BY <1>4
<1> QED BY <1>5 DEF T

\* Whatever the order, the versions of a voucher are reduced to one of them that
\* is chosen well.
LEMMA ResultsAreChosenWell ==
    ASSUME NEW s, NEW V, IsFiniteSet(V), FiniteMacs(V), Of(s, V) # {},
           NEW row \in Results(s, V)
    PROVE  ChosenWell(row, Of(s, V))
<1> DEFINE S == Of(s, V)
           n == Cardinality(S)
<1>1. S \subseteq V /\ IsFiniteSet(S)
  BY FS_Subset DEF Of
<1>2. n \in Nat \ {0}
  BY <1>1, FS_CardinalityType, FS_EmptySet
<1>3. PICK order \in SetToSeqs(S) : row = Reduced(order)
  BY DEF Results
<1> HIDE DEF S
<1>4. order \in Injection(1 .. n, S)
  BY <1>3 DEF SetToSeqs, Injection, IsInjective
<1>5. order \in [1 .. n -> S] /\ order \in Surjection(1 .. n, S)
  <2>1. IsFiniteSet(1 .. n) /\ Cardinality(1 .. n) = n
    BY <1>2, FS_Interval
  <2> QED BY <1>1, <1>4, <2>1, FS_Injection DEF Injection
<1>6. {order[j] : j \in 1 .. n} = S
  BY <1>5 DEF Surjection
<1>7. PICK kept : Keeps(kept, n, order) /\ row = kept[n]
  BY <1>2, <1>3, <1>5, ReducedIsKept
<1>8. FiniteMacs(S)
  BY <1>1 DEF FiniteMacs
<1> HIDE DEF n
<1>9. ChosenWell(kept[n], {order[j] : j \in 1 .. n})
  BY <1>2, <1>5, <1>7, <1>8, KeptIsChosenWell
<1> QED BY <1>6, <1>7, <1>9 DEF S

-----------------------------------------------------------------------------
\* Commands have made a finite number of versions, all of them within the
\* allowance of their voucher; a database has no other; and who does something
\* does it on a node.
MeshInv ==
    /\ IsFiniteSet(made)
    /\ \A v \in made :
         IsFiniteSet(v.macs) /\ Cardinality(v.macs) <= allowed[v.voucher]
    /\ \A n \in Node, s \in Secret : db[n][s] # Gone => db[n][s] \in made
    /\ \A p \in Proc : step[p] # "idle" => at[p] \in Node

\* A command that makes a version within the allowance.
LEMMA ChangeStep ==
    ASSUME TypeOK, MeshInv, NEW n \in Node, NEW v \in Version, Change(n, v),
           IsFiniteSet(v.macs), Cardinality(v.macs) <= allowed[v.voucher]
    PROVE  TypeOK' /\ MeshInv'
<1>1. v.voucher \in Secret
  BY DEF Version
<1>2. \A m \in Node, s \in Secret :
         db'[m][s] = IF m = n /\ s = v.voucher THEN v ELSE db[m][s]
  BY <1>1 DEF Change, TypeOK
<1>3. db' \in [Node -> [Secret -> Row]]
  BY <1>1 DEF Change, TypeOK, Row
<1>4. made' = made \cup {v} /\ UNCHANGED <<store, step, at, held>>
  BY DEF Change
<1>5. IsFiniteSet(made')
  BY <1>4, FS_AddElement DEF MeshInv
<1>6. TypeOK'
  BY <1>2, <1>3, <1>4 DEF TypeOK
<1> QED BY <1>2, <1>4, <1>5, <1>6 DEF MeshInv

\* So do all commands.
LEMMA CommandStep == ASSUME TypeOK, MeshInv, Commands PROVE TypeOK' /\ MeshInv'
<1> USE AllowedAssumption, DatesAssumption
<1>1. PICK n \in Node, s \in Secret :
        (\E d \in Dates : Add(n, s, d) \/ Redate(n, s, d)) \/ \E m \in Devices : Use(n, s, m)
  BY DEF Commands
<1> DEFINE v == db[n][s]
<1>2. ASSUME v # Gone
      PROVE  /\ v \in Version /\ v.voucher = s
             /\ IsFiniteSet(v.macs) /\ Cardinality(v.macs) <= allowed[s]
  BY <1>2 DEF TypeOK, MeshInv
<1>3. ASSUME NEW d \in Dates, Add(n, s, d) PROVE TypeOK' /\ MeshInv'
  <2> DEFINE new == [voucher |-> s, expires |-> d, macs |-> {}]
  <2>1. new \in Version /\ new.voucher = s /\ new.macs = {}
    BY DEF Version
  <2>2. IsFiniteSet(new.macs) /\ Cardinality(new.macs) <= allowed[s]
    BY <2>1, FS_EmptySet
  <2> QED BY <1>3, <2>1, <2>2, ChangeStep DEF Add
<1>4. ASSUME NEW d \in Dates, Redate(n, s, d) PROVE TypeOK' /\ MeshInv'
  <2> DEFINE new == [v EXCEPT !.expires = d]
  <2>1. v # Gone /\ Change(n, new)
    BY <1>4 DEF Redate
  <2>2. new \in Version /\ new.voucher = s /\ new.macs = v.macs
    BY <1>2, <2>1 DEF Version
  <2> QED BY <1>2, <2>1, <2>2, ChangeStep
<1>5. ASSUME NEW m \in Devices, Use(n, s, m) PROVE TypeOK' /\ MeshInv'
  <2> DEFINE new == [v EXCEPT !.macs = @ \cup {m}]
  <2>1. v # Gone /\ Cardinality(v.macs) < allowed[s] /\ Change(n, new)
    BY <1>5 DEF Use
  <2>2. m \in Mac
    <3> DEFINE seen == UNION {w.macs : w \in made}
    <3>1. seen \subseteq Mac
      BY DEF TypeOK, Version
    <3> QED BY <3>1 DEF Devices
  <2>3. new \in Version /\ new.voucher = s /\ new.macs = v.macs \cup {m}
    BY <1>2, <2>1, <2>2 DEF Version
  <2>4. IsFiniteSet(new.macs) /\ Cardinality(new.macs) <= allowed[s]
    <3>1. Cardinality(v.macs) \in Nat /\ allowed[s] \in Nat
      BY <1>2, <2>1, FS_CardinalityType
    <3>2. /\ IsFiniteSet(v.macs \cup {m})
          /\ Cardinality(v.macs \cup {m}) \in {Cardinality(v.macs), Cardinality(v.macs) + 1}
      BY <1>2, <2>1, FS_AddElement
    <3> QED BY <2>1, <2>3, <3>1, <3>2
  <2> QED BY <2>1, <2>3, <2>4, ChangeStep
<1> QED BY <1>1, <1>3, <1>4, <1>5

\* A process goes on with versions that commands have made, and may put such
\* versions into the store or take some out of it.
LEMMA ProcessStep ==
    ASSUME TypeOK, MeshInv, NEW p \in Proc, NEW what \in Step, NEW n, NEW V,
           Becomes(p, what, n, V), UNCHANGED <<db, made>>, V \subseteq made,
           n \in Node \/ (what = "idle" /\ n = Nowhere),
           \/ store' = store
           \/ \E m, W : W \subseteq made /\ store' = [store EXCEPT ![m] = W]
    PROVE  TypeOK' /\ MeshInv'
<1>1. store' \in [Node -> SUBSET made]
  BY DEF TypeOK
<1>2. TypeOK'
  BY <1>1 DEF TypeOK, Becomes
<1>3. \A q \in Proc : step'[q] # "idle" => at'[q] \in Node
  BY DEF TypeOK, MeshInv, Becomes
<1> QED BY <1>2, <1>3 DEF MeshInv

\* What a hook makes of a voucher is one of the versions it was given, or nothing.
LEMMA ResultsType ==
    ASSUME TypeOK, MeshInv, NEW p \in Proc, NEW s \in Secret,
           NEW row \in Results(s, held[p])
    PROVE  /\ Of(s, held[p]) = {} => row = Gone
           /\ Of(s, held[p]) # {} => ChosenWell(row, Of(s, held[p]))
<1>1. IsFiniteSet(held[p]) /\ held[p] \subseteq made
  BY FS_Subset DEF TypeOK, MeshInv
<1>2. FiniteMacs(held[p])
  BY <1>1, FS_CardinalityType DEF FiniteMacs, MeshInv
<1> QED BY <1>1, <1>2, ResultsAreChosenWell DEF Results

\* The hook writes a database of such rows.
LEMMA GenerateStep ==
    ASSUME TypeOK, MeshInv, NEW p \in Proc, Generate(p)
    PROVE  /\ TypeOK' /\ MeshInv'
           /\ \A s \in Secret :
                Of(s, held[p]) # {} => ChosenWell(db'[at[p]][s], Of(s, held[p]))
<1>1. PICK rows \in [Secret -> Row] :
         /\ \A s \in Secret : rows[s] \in Results(s, held[p])
         /\ db' = [db EXCEPT ![at[p]] = rows]
  BY DEF Generate
<1>2. /\ step[p] = "hook" /\ at[p] \in Node /\ held[p] \subseteq made
      /\ Becomes(p, "idle", Nowhere, {}) /\ UNCHANGED <<store, made>>
  BY DEF Generate, Exit, MeshInv, TypeOK
<1>3. \A s \in Secret : rows[s] # Gone => rows[s] \in Of(s, held[p])
  BY <1>1, ResultsType DEF ChosenWell
<1>4. \A n \in Node : db'[n] = IF n = at[p] THEN rows ELSE db[n]
  BY <1>1 DEF TypeOK
<1>5. TypeOK'
  <2>1. db' \in [Node -> [Secret -> Row]]
    BY <1>1 DEF TypeOK
  <2>2. \A n \in Node, s \in Secret : db'[n][s] # Gone => db'[n][s].voucher = s
    BY <1>3, <1>4 DEF TypeOK, Of
  <2> QED BY <1>2, <2>1, <2>2 DEF TypeOK, Becomes, Step
<1>6. MeshInv'
  <2>1. \A n \in Node, s \in Secret : db'[n][s] # Gone => db'[n][s] \in made
    BY <1>2, <1>3, <1>4 DEF MeshInv, Of
  <2>2. \A q \in Proc : step'[q] # "idle" => at'[q] \in Node
    BY <1>2 DEF MeshInv, Becomes, TypeOK
  <2> QED BY <1>2, <2>1, <2>2 DEF MeshInv
<1>7. \A s \in Secret : db'[at[p]][s] = rows[s]
  BY <1>2, <1>4
<1> QED BY <1>1, <1>5, <1>6, <1>7, ResultsType

\* What publishes, sends, merges and forgets moves versions around.
LEMMA SpreadStep ==
    ASSUME TypeOK, MeshInv, NEW p \in Proc, NEW n \in Node,
           \/ Insert(p) \/ Lose(p) \/ Publish(p, n) \/ Send(p, n) \/ Merge(p, n)
           \/ \E V \in SUBSET store[n] : Bleach(p, n, V)
    PROVE  TypeOK' /\ MeshInv'
<1>0. /\ held[p] \subseteq made /\ \A m \in Node : store[m] \subseteq made
      /\ step[p] # "idle" => at[p] \in Node
      /\ {"idle", "publish", "carry", "hook"} \subseteq Step
  BY DEF TypeOK, MeshInv, Step
<1>1. CASE Insert(p)
  <2>1. at[p] \in Node /\ store[at[p]] \cup held[p] \subseteq made
    BY <1>0, <1>1 DEF Insert
  <2> QED BY <1>0, <1>1, <2>1, ProcessStep DEF Insert
<1>2. CASE Lose(p)
  BY <1>0, <1>2, ProcessStep DEF Lose, Exit
<1>3. CASE Publish(p, n)
  <2>1. Rows(n) \subseteq made
    BY DEF Rows, MeshInv
  <2> QED BY <1>0, <1>3, <2>1, ProcessStep DEF Publish
<1>4. CASE Send(p, n)
  BY <1>0, <1>4, ProcessStep DEF Send
<1>5. CASE Merge(p, n)
  <2>1. store[n] \cup held[p] \subseteq made
    BY <1>0
  <2> QED BY <1>0, <1>5, <2>1, ProcessStep DEF Merge
<1>6. ASSUME NEW V \in SUBSET store[n], Bleach(p, n, V) PROVE TypeOK' /\ MeshInv'
  <2>1. store[n] \ V \subseteq made
    BY <1>0
  <2> QED BY <1>0, <1>6, <2>1, ProcessStep DEF Bleach
<1> QED BY <1>1, <1>2, <1>3, <1>4, <1>5, <1>6

\* A reboot makes nothing.
LEMMA RebootStep ==
    ASSUME TypeOK, MeshInv, NEW n \in Node, Reboot(n) PROVE TypeOK' /\ MeshInv'
BY DEF TypeOK, MeshInv, Reboot, Step

-----------------------------------------------------------------------------
\* Whatever else a hook was given: with one of the best versions of a voucher
\* among them, one of the best is chosen.
LEMMA ChosenIsBest ==
    ASSUME NEW s, NEW V, V \subseteq Of(s, made), V \cap Best(s) # {}, FiniteMacs(made),
           NEW row, ChosenWell(row, V)
    PROVE  row \in Best(s)
<1> DEFINE all == Of(s, made)
<1>1. row \in V /\ V \subseteq all /\ \A v \in all : Cardinality(v.macs) \in Nat
  BY DEF ChosenWell, FiniteMacs, Of
<1>2. PICK best \in V : best \in Best(s)
  OBVIOUS
<1> HIDE DEF all
<1>3. CASE RemovalLeads(all)
  <2>1. Best(s) = {v \in all : v.expires = 0}
    BY <1>3 DEF Best, all
  <2>2. RemovalLeads(V)
    BY <1>1, <1>2, <1>3, <2>1 DEF RemovalLeads
  <2>3. row.expires = 0
    BY <2>2 DEF ChosenWell
  <2> QED BY <1>1, <2>1, <2>3
<1>4. CASE ~ RemovalLeads(all)
  <2>1. Best(s) = {v \in all : \A w \in all :
                     w.expires # 0 /\ Cardinality(w.macs) <= Cardinality(v.macs)}
    BY <1>4 DEF Best, all
  <2>2. \A w \in all : w.expires # 0 /\ Cardinality(w.macs) <= Cardinality(best.macs)
    BY <1>2, <2>1
  <2>3. Cardinality(best.macs) <= Cardinality(row.macs)
    BY <1>1, <1>2, <2>2 DEF ChosenWell
  <2>4. ASSUME NEW w \in all PROVE Cardinality(w.macs) <= Cardinality(row.macs)
    <3>1. Cardinality(w.macs) <= Cardinality(best.macs)
      BY <2>2
    <3>2. /\ Cardinality(w.macs) \in Nat /\ Cardinality(best.macs) \in Nat
          /\ Cardinality(row.macs) \in Nat
      BY <1>1, <1>2
    <3> QED BY <2>3, <3>1, <3>2
  <2> QED BY <1>1, <2>1, <2>2, <2>4
<1> QED BY <1>3, <1>4

\* A hook that runs on one of the best versions of a voucher writes one.
LEMMA GenerateKeepsBest ==
    ASSUME TypeOK, MeshInv, NEW s \in Secret, Settled(s), NEW p \in Proc, Generate(p)
    PROVE  Settled(s)'
<1> DEFINE V == Of(s, held[p])
<1>1. /\ held[p] \subseteq made /\ at[p] \in Node /\ held[p] \cap Best(s) # {}
      /\ Becomes(p, "idle", Nowhere, {}) /\ UNCHANGED <<store, made>>
  BY DEF Generate, Exit, MeshInv, TypeOK, Settled
<1>2. Best(s) \subseteq Of(s, made)
  BY DEF Best
<1>3. V \subseteq Of(s, made) /\ V \cap Best(s) # {}
  BY <1>1, <1>2 DEF Of
<1>4. FiniteMacs(made)
  BY FS_CardinalityType DEF FiniteMacs, MeshInv
<1>5. ChosenWell(db'[at[p]][s], V)
  BY <1>3, GenerateStep
<1> HIDE DEF V
<1>6. db'[at[p]][s] \in Best(s)
  BY <1>3, <1>4, <1>5, ChosenIsBest
<1>7. \A n \in Node \ {at[p]} : db'[n] = db[n]
  BY DEF Generate, TypeOK
<1>8. Best(s)' = Best(s)
  BY <1>1 DEF Best
<1>9. \A n \in Node : db'[n][s] \in Best(s) /\ store'[n] \cap Best(s) # {}
  BY <1>1, <1>6, <1>7 DEF Settled
<1>10. \A q \in Proc : step'[q] = "hook" => held'[q] \cap Best(s) # {}
  BY <1>1 DEF Settled, Becomes, TypeOK
<1> QED BY <1>8, <1>9, <1>10 DEF Settled

\* What publishes and merges takes nothing out of a store, and the hook that
\* follows is given all of the store.
LEMMA SpreadKeepsBest ==
    ASSUME TypeOK, MeshInv, NEW s \in Secret, Settled(s), NEW p \in Proc,
           \/ Insert(p) \/ Lose(p)
           \/ \E n \in Node : Publish(p, n) \/ Send(p, n) \/ Merge(p, n)
    PROVE  Settled(s)'
<1> DEFINE Turns(what, n, V) == /\ Becomes(p, what, n, V)
                                /\ what = "hook" => \E m \in Node : store[m] \subseteq V
<1>1. UNCHANGED <<db, made>>
  BY DEF Insert, Lose, Publish, Send, Merge
<1>2. Best(s)' = Best(s)
  BY <1>1 DEF Best
<1>3. \A n \in Node : store[n] \subseteq store'[n]
  BY DEF Insert, Lose, Publish, Send, Merge, TypeOK
<1>4. \A n \in Node : db'[n][s] \in Best(s) /\ store'[n] \cap Best(s) # {}
  BY <1>1, <1>3 DEF Settled
<1>5. \E what \in Step : \E n, V : Turns(what, n, V)
  <2>1. CASE Insert(p)
    BY <2>1 DEF Insert, MeshInv, Step
  <2>2. CASE Lose(p)
    BY <2>2 DEF Lose, Exit, Step
  <2>3. ASSUME NEW m \in Node, Publish(p, m) \/ Send(p, m) \/ Merge(p, m)
        PROVE  \E what \in Step : \E n, V : Turns(what, n, V)
    BY <2>3 DEF Publish, Send, Merge, Step
  <2> QED BY <2>1, <2>2, <2>3
<1>6. \A q \in Proc : step'[q] = "hook" => held'[q] \cap Best(s) # {}
  BY <1>5 DEF Settled, Becomes, TypeOK
<1> QED BY <1>2, <1>4, <1>6 DEF Settled

-----------------------------------------------------------------------------
\* Initially nothing has been made.
LEMMA MeshInit == Init => TypeOK /\ MeshInv
BY FS_EmptySet DEF Init, TypeOK, MeshInv, Step, Row

\* MeshInv is inductive beside the types.
LEMMA MeshStep == ASSUME TypeOK, MeshInv, [Next]_vars PROVE TypeOK' /\ MeshInv'
<1>1. CASE Commands
  BY <1>1, CommandStep
<1>2. CASE Forgets
  BY <1>2, SpreadStep, RebootStep DEF Forgets
<1>3. CASE Spreads
  <2>1. ASSUME NEW p \in Proc, Insert(p) \/ Lose(p) PROVE TypeOK' /\ MeshInv'
    <3>1. CASE Node = {}
      <4>1. at[p] \in Node
        BY <2>1 DEF Insert, Lose, MeshInv
      <4> QED BY <3>1, <4>1
    <3> QED BY <2>1, <3>1, SpreadStep
  <2> QED BY <1>3, <2>1, SpreadStep, GenerateStep DEF Spreads
<1>4. CASE UNCHANGED vars
  BY <1>4 DEF vars, TypeOK, MeshInv
<1> QED BY <1>1, <1>2, <1>3, <1>4 DEF Next

\* Databases list versions of the right voucher, and nothing that floats about
\* has been made by anything but a command.
THEOREM TypeCorrect == Spec => []TypeOK
<1>1. Init => TypeOK /\ MeshInv
  BY MeshInit
<1>2. TypeOK /\ MeshInv /\ [Next]_vars => TypeOK' /\ MeshInv'
  BY MeshStep
<1> QED BY <1>1, <1>2, PTL DEF Spec

\* For any number of nodes, processes, versions and devices: no database lists
\* more MACs for a voucher than it allows.
THEOREM NoVersionOverbooked == Spec => []WithinAllowance
<1>1. Init => TypeOK /\ MeshInv
  BY MeshInit
<1>2. TypeOK /\ MeshInv /\ [Next]_vars => TypeOK' /\ MeshInv'
  BY MeshStep
<1>3. TypeOK /\ MeshInv => WithinAllowance
  BY DEF TypeOK, MeshInv, WithinAllowance
<1> QED BY <1>1, <1>2, <1>3, PTL DEF Spec

\* However many versions compete, in whatever order: each row a hook writes is
\* chosen well.
THEOREM RowsAreChosenWell == Spec => HooksChooseWell
<1>1. Init => TypeOK /\ MeshInv
  BY MeshInit
<1>2. TypeOK /\ MeshInv /\ [Next]_vars => TypeOK' /\ MeshInv'
  BY MeshStep
<1>3. TypeOK /\ MeshInv /\ [Next]_vars
        => [\A p \in Proc : Generate(p) =>
              \A s \in Secret :
                 LET V == Of(s, held[p]) IN V # {} => ChosenWell(db'[at[p]][s], V)]_vars
  BY GenerateStep
<1> QED BY <1>1, <1>2, <1>3, PTL DEF Spec, HooksChooseWell

\* For any number of nodes and of processes that carry old versions: what the
\* nodes agree about stays, but for users, age and power loss.
THEOREM SettledAlwaysStays == Spec => SettledStays
<1>1. Init => TypeOK /\ MeshInv
  BY MeshInit
<1>2. TypeOK /\ MeshInv /\ [Next]_vars => TypeOK' /\ MeshInv'
  BY MeshStep
<1>3. TypeOK /\ MeshInv /\ [Next]_vars
        => [\A s \in Secret : Settled(s) => Commands \/ Forgets \/ Settled(s)']_vars
  <2> SUFFICES ASSUME TypeOK, MeshInv, Next, NEW s \in Secret, Settled(s),
                      ~ Commands, ~ Forgets
               PROVE  Settled(s)'
    OBVIOUS
  <2> QED BY GenerateKeepsBest, SpreadKeepsBest DEF Next, Spreads
<1> QED BY <1>1, <1>2, <1>3, PTL DEF Spec, SettledStays
===============================================================================
