---------------------------- MODULE VouchersProofs ----------------------------
(***************************************************************************)
(* Proofs about Vouchers, for any number of processes, vouchers and        *)
(* devices: the types, that no voucher lists more MACs than it allows, and *)
(* that nobody is let through whom auth_voucher has not accepted.          *)
(***************************************************************************)
EXTENDS Vouchers, FiniteSetTheorems, TLAPS

\* What the commands make of a table of the right type has the right type, and
\* no row appears in a table without a header.
LEMMA TableTypes ==
    ASSUME NEW t \in Table
    PROVE  /\ t.head => \A new \in SUBSET Secret, d \in Date : Added(t, new, d) \in Table
           /\ \A these \in SUBSET Secret, d \in Date : Redated(t, these, d) \in Table
           /\ t.head => \A s \in Secret, m \in Mac :
                           t.rows[s] # NoRow => Used(t, s, m) \in Table
           /\ ValidMacs(t) \subseteq Mac
<1>0. /\ t.head \in BOOLEAN /\ t.rows \in Book /\ t = [head |-> t.head, rows |-> t.rows]
      /\ t.head \/ t.rows = EmptyBook
  BY DEF Table
<1>1. ASSUME t.head, NEW new \in SUBSET Secret, NEW d \in Date
      PROVE  Added(t, new, d) \in Table
  <2>1. [expires |-> d, macs |-> {}] \in Row
    BY DEF Row
  <2> QED BY <1>0, <1>1, <2>1 DEF Added, Table, Book
<1>2. ASSUME NEW these \in SUBSET Secret, NEW d \in Date
      PROVE  Redated(t, these, d) \in Table
  <2>1. \A r \in Row : [r EXCEPT !.expires = d] \in Row
    BY DEF Row
  <2>2. CASE t.head
    BY <1>0, <2>1, <2>2 DEF Redated, Table, Book
  <2>3. CASE t.rows = EmptyBook
    <3>1. Redated(t, these, d) = t
      BY <1>0, <2>3 DEF Redated, EmptyBook
    <3> QED BY <3>1
  <2> QED BY <1>0, <2>2, <2>3
<1>3. ASSUME t.head, NEW s \in Secret, NEW m \in Mac, t.rows[s] # NoRow
      PROVE  Used(t, s, m) \in Table
  <2>1. t.rows[s] \in Row
    BY <1>0, <1>3 DEF Book
  <2>2. [t.rows[s] EXCEPT !.macs = @ \cup {m}] \in Row
    BY <2>1 DEF Row
  <2>3. Used(t, s, m) = [head |-> t.head, rows |->
            [t.rows EXCEPT ![s] = [t.rows[s] EXCEPT !.macs = @ \cup {m}]]]
    BY <1>0, <2>1 DEF Used, Book
  <2> QED BY <1>0, <1>3, <2>2, <2>3 DEF Table, Book
<1>4. ValidMacs(t) \subseteq Mac
  <2>1. \A s \in Secret : Valid(t.rows[s]) => t.rows[s].macs \subseteq Mac
    BY <1>0 DEF Valid, Book, Row
  <2> QED BY <2>1 DEF ValidMacs
<1> QED BY <1>1, <1>2, <1>3, <1>4

\* A table that one process writes over what another one left is a table.
LEMMA WrittenType ==
    ASSUME NEW t \in Table, t.head, NEW f \in Table, NEW longer \in SUBSET Secret
    PROVE  [head |-> TRUE, rows |-> [s \in Secret |->
              IF s \in longer THEN f.rows[s] ELSE t.rows[s]]] \in Table
<1>1. t.rows \in Book /\ f.rows \in Book
  BY DEF Table
<1> QED BY <1>1 DEF Table, Book

\* So is what a command finds while somebody else writes.
LEMMA EmptyType == Empty \in Table
<1>1. EmptyBook \in Book
  BY DEF EmptyBook, Book
<1> QED BY <1>1 DEF Empty, Table

\* Every variable keeps its type: in particular a table without its header has
\* no rows, on disk and in every process.
THEOREM TypeCorrect == Spec => []TypeOK
<1> USE HorizonAssumption, EmptyType
<1>1. Init => TypeOK
  <2>1. [head |-> TRUE, rows |-> EmptyBook] \in Table
    BY DEF Table, EmptyBook, Book
  <2>2. 0 \in Date
    BY DEF Date
  <2> QED BY <2>1, <2>2 DEF Init, TypeOK, Step
<1>2. TypeOK /\ [Next]_vars => TypeOK'
  <2> SUFFICES ASSUME TypeOK, [Next]_vars PROVE TypeOK'
    OBVIOUS
  <2>0. file \in Table /\ (\A p \in Proc : table[p] \in Table)
    BY DEF TypeOK
  <2>1. ASSUME NEW p \in Proc, NEW these \in (SUBSET Secret) \ {{}}, NEW d \in Date,
               AddVouchers(p, these, d)
        PROVE  TypeOK'
    <3>1. Added(file, these, d) \in Table
      BY <2>0, <2>1, TableTypes DEF AddVouchers
    <3> QED BY <2>1, <3>1 DEF AddVouchers, Holds, Goto, TypeOK, Step
  <2>2. ASSUME NEW p \in Proc, NEW these \in (SUBSET Secret) \ {{}}, NEW d \in Date,
               ChangeDates(p, these, d)
        PROVE  TypeOK'
    <3>1. Redated(file, these, d) \in Table
      BY <2>0, TableTypes
    <3> QED BY <2>2, <3>1 DEF ChangeDates, Holds, Goto, TypeOK, Step
  <2>3. ASSUME NEW p \in Proc, NEW s \in Secret, NEW m \in Mac, Accept(p, s, m)
        PROVE  TypeOK'
    <3>1. Used(file, s, m) \in Table
      BY <2>0, <2>3, TableTypes DEF Accept, Usable, Valid
    <3> QED BY <2>3, <3>1 DEF Accept, Holds, Goto, TypeOK, Step
  <2>4. ASSUME NEW p \in Proc, NEW s \in Secret, Refuse(p, s) PROVE TypeOK'
    BY <2>4 DEF Refuse, Holds, Goto, TypeOK, Step
  <2>5. ASSUME NEW p \in Proc, Admit(p) PROVE TypeOK'
    BY <2>5 DEF Admit, Goto, TypeOK, Step
  <2>6. ASSUME NEW p \in Proc, Truncate(p) PROVE TypeOK'
    BY <2>6 DEF Truncate, Goto, TypeOK, Step
  <2>7. ASSUME NEW p \in Proc, WriteRows(p) PROVE TypeOK'
    <3>1. file' \in Table
      <4>1. CASE table[p].head
        <5>1. PICK longer \in SUBSET {s \in Secret : table[p].rows[s] = NoRow} :
                file' = [head |-> TRUE, rows |-> [s \in Secret |->
                          IF s \in longer THEN file.rows[s] ELSE table[p].rows[s]]]
          BY <2>7, <4>1 DEF WriteRows
        <5>2. longer \in SUBSET Secret
          OBVIOUS
        <5> QED BY <2>0, <4>1, <5>1, <5>2, WrittenType
      <4>2. CASE ~ table[p].head
        BY <2>0, <2>7, <4>2 DEF WriteRows
      <4> QED BY <4>1, <4>2
    <3> QED BY <2>7, <3>1 DEF WriteRows, Holds, Goto, TypeOK, Step
  <2>8. ASSUME NEW p \in Proc, NEW what \in {"start", "update", "stop"},
               CaptivePortal(p, what)
        PROVE  TypeOK'
    BY <2>8 DEF CaptivePortal, Goto, TypeOK, Step
  <2>9. ASSUME NEW p \in Proc, CleanSets(p) PROVE TypeOK'
    BY <2>9 DEF CleanSets, Goto, TypeOK, Step
  <2>10. ASSUME NEW p \in Proc, PrintValidMacs(p) PROVE TypeOK'
    <3>1. ValidMacs(file) \subseteq Mac
      BY <2>0, TableTypes
    <3> QED BY <2>10, <3>1 DEF PrintValidMacs, Goto, TypeOK, Step
  <2>11. ASSUME NEW p \in Proc, NEW m \in Mac, SetIpset(p, m) PROVE TypeOK'
    BY <2>11 DEF SetIpset, TypeOK
  <2>12. ASSUME NEW p \in Proc, SetIptables(p) PROVE TypeOK'
    BY <2>12 DEF SetIptables, Goto, TypeOK, Step
  <2>13. ASSUME NEW m \in Mac, IpsetTimeout(m) PROVE TypeOK'
    BY <2>13 DEF IpsetTimeout, TypeOK
  <2>14. CASE Tick
    BY <2>14 DEF Tick, TypeOK, Date
  <2>15. CASE PowerLoss
    BY <2>15 DEF PowerLoss, TypeOK, Step
  <2>16. CASE UNCHANGED vars
    BY <2>16 DEF vars, TypeOK
  <2> QED
    BY <2>1, <2>2, <2>3, <2>4, <2>5, <2>6, <2>7, <2>8, <2>9, <2>10, <2>11, <2>12,
       <2>13, <2>14, <2>15, <2>16
    DEF Next, Commands, Saving, Portal
<1> QED BY <1>1, <1>2, PTL DEF Spec

-----------------------------------------------------------------------------
\* One MAC more fits a voucher that can be used.
LEMMA UsedFits ==
    ASSUME NEW t \in Table, FitsAllowance(t), NEW s \in Secret, NEW m \in Mac,
           Usable(s, t.rows[s])
    PROVE  FitsAllowance(Used(t, s, m))
<1>1. t.rows \in Book /\ t.rows[s] \in Row /\ t = [head |-> t.head, rows |-> t.rows]
  BY DEF Table, Book, Usable, Valid
<1>2. IsFiniteSet(t.rows[s].macs)
  BY <1>1, MacAssumption, FS_Subset DEF Row
<1>3. /\ Cardinality(t.rows[s].macs) \in Nat
      /\ Cardinality(t.rows[s].macs \cup {m}) \in Nat
      /\ Cardinality(t.rows[s].macs \cup {m}) <= Cardinality(t.rows[s].macs) + 1
  <2>1. ASSUME NEW S, IsFiniteSet(S)
        PROVE  /\ Cardinality(S) \in Nat /\ Cardinality(S \cup {m}) \in Nat
               /\ Cardinality(S \cup {m}) <= Cardinality(S) + 1
    <3>1. Cardinality(S) \in Nat
      BY <2>1, FS_CardinalityType
    <3>2. Cardinality(S \cup {m}) = IF m \in S THEN Cardinality(S) ELSE Cardinality(S) + 1
      BY <2>1, FS_AddElement
    <3> QED BY <3>1, <3>2
  <2> QED BY <1>2, <2>1
<1>4. Cardinality(t.rows[s].macs \cup {m}) <= allowed[s]
  BY <1>3, AllowedAssumption DEF Usable
<1>5. /\ Used(t, s, m).rows[s].macs = t.rows[s].macs \cup {m}
      /\ \A r \in Secret \ {s} : Used(t, s, m).rows[r] = t.rows[r]
  BY <1>1 DEF Used, Book, Row
<1> QED BY <1>4, <1>5 DEF FitsAllowance

\* The other commands add no MACs.
LEMMA OthersFit ==
    ASSUME NEW t \in Table, FitsAllowance(t), NEW these \in SUBSET Secret, NEW d \in Date
    PROVE  /\ FitsAllowance(Added(t, these, d))
           /\ FitsAllowance(Redated(t, these, d))
<1>1. t.rows \in Book
  BY DEF Table
<1>2. ASSUME NEW s \in Secret, Added(t, these, d).rows[s] # NoRow
      PROVE  Cardinality(Added(t, these, d).rows[s].macs) <= allowed[s]
  <2>1. CASE s \in these /\ t.rows[s] = NoRow
    <3>1. Added(t, these, d).rows[s].macs = {}
      BY <2>1 DEF Added, Table
    <3> QED BY <3>1, FS_EmptySet, AllowedAssumption
  <2>2. CASE ~ (s \in these /\ t.rows[s] = NoRow)
    <3>1. Added(t, these, d).rows[s] = t.rows[s]
      BY <2>2 DEF Added, Table
    <3> QED BY <1>2, <3>1 DEF FitsAllowance
  <2> QED BY <2>1, <2>2
<1>3. ASSUME NEW s \in Secret, Redated(t, these, d).rows[s] # NoRow
      PROVE  Cardinality(Redated(t, these, d).rows[s].macs) <= allowed[s]
  <2>1. CASE t.rows[s] = NoRow
    BY <1>3, <2>1 DEF Redated, Table
  <2>2. CASE t.rows[s] # NoRow
    <3>1. Redated(t, these, d).rows[s].macs = t.rows[s].macs
      BY <1>1, <2>2 DEF Redated, Table, Book, Row
    <3> QED BY <2>2, <3>1 DEF FitsAllowance
  <2> QED BY <2>1, <2>2
<1> QED BY <1>2, <1>3 DEF FitsAllowance

\* Nor does a table without rows.
LEMMA EmptyFits == FitsAllowance(Empty)
BY DEF FitsAllowance, Empty, EmptyBook

\* Commands that overlap lose rows and MACs, but never put one MAC too many into a
\* voucher: every table was within the allowance when it was loaded, and accepting
\* a device is decided on the table that is saved.
THEOREM NoVoucherOverbooked == Spec => []WithinAllowance
<1> USE EmptyFits
<1>1. Init => WithinAllowance
  BY DEF Init, WithinAllowance, FitsAllowance, EmptyBook, Empty
<1>2. TypeOK /\ WithinAllowance /\ [Next]_vars => WithinAllowance'
  <2> SUFFICES ASSUME TypeOK, WithinAllowance, [Next]_vars PROVE WithinAllowance'
    OBVIOUS
  <2>0. /\ file \in Table /\ FitsAllowance(file)
        /\ \A p \in Proc : table[p] \in Table /\ FitsAllowance(table[p])
    BY DEF TypeOK, WithinAllowance
  <2>1. ASSUME NEW p \in Proc, NEW t, FitsAllowance(t), Holds(p, t), file' = file
        PROVE  WithinAllowance'
    BY <2>0, <2>1 DEF Holds, WithinAllowance, FitsAllowance, TypeOK
  <2>2. ASSUME NEW p \in Proc, Commands(p) PROVE WithinAllowance'
    <3>1. ASSUME NEW these \in (SUBSET Secret) \ {{}}, NEW d \in Date,
                 AddVouchers(p, these, d) \/ ChangeDates(p, these, d)
          PROVE  WithinAllowance'
      <4>1. these \in SUBSET Secret
        OBVIOUS
      <4>2. FitsAllowance(Added(file, these, d)) /\ FitsAllowance(Redated(file, these, d))
        BY <2>0, <4>1, OthersFit
      <4> QED BY <2>1, <3>1, <4>2 DEF AddVouchers, ChangeDates
    <3>2. ASSUME NEW s \in Secret, NEW m \in Mac, Accept(p, s, m)
          PROVE  WithinAllowance'
      <4>1. FitsAllowance(Used(file, s, m))
        BY <2>0, <3>2, UsedFits DEF Accept
      <4> QED BY <2>1, <3>2, <4>1 DEF Accept
    <3>3. ASSUME NEW s \in Secret, Refuse(p, s) PROVE WithinAllowance'
      BY <2>0, <2>1, <3>3 DEF Refuse
    <3> QED BY <2>2, <3>1, <3>2, <3>3 DEF Commands
  <2>3. ASSUME NEW p \in Proc, Truncate(p) PROVE WithinAllowance'
    BY <2>0, <2>3 DEF Truncate, WithinAllowance, FitsAllowance, Empty, EmptyBook
  <2>4. ASSUME NEW p \in Proc, WriteRows(p) PROVE WithinAllowance'
    <3>1. FitsAllowance(file')
      <4>1. CASE table[p].head
        <5>1. PICK longer \in SUBSET {s \in Secret : table[p].rows[s] = NoRow} :
                file' = [head |-> TRUE, rows |-> [s \in Secret |->
                          IF s \in longer THEN file.rows[s] ELSE table[p].rows[s]]]
          BY <2>4, <4>1 DEF WriteRows
        <5>2. \A s \in Secret : file'.rows[s] \in {file.rows[s], table[p].rows[s]}
          BY <5>1
        <5> QED BY <2>0, <5>2 DEF FitsAllowance
      <4>2. CASE ~ table[p].head
        BY <2>0, <2>4, <4>2 DEF WriteRows
      <4> QED BY <4>1, <4>2
    <3>2. \A q \in Proc : FitsAllowance(table'[q])
      BY <2>0, <2>4 DEF WriteRows, Holds, TypeOK
    <3> QED BY <3>1, <3>2 DEF WithinAllowance, FitsAllowance
  <2>5. CASE PowerLoss
    BY <2>0, <2>5 DEF PowerLoss, WithinAllowance, FitsAllowance, Empty, EmptyBook
  <2>6. ASSUME UNCHANGED <<file, table>> PROVE WithinAllowance'
    BY <2>6 DEF WithinAllowance, FitsAllowance
  <2>7. ASSUME NEW p \in Proc, Admit(p) \/ Portal(p) PROVE WithinAllowance'
    BY <2>6, <2>7 DEF Admit, Portal, CleanSets, PrintValidMacs, SetIpset, SetIptables
  <2>8. ASSUME NEW p \in Proc, NEW what \in {"start", "update", "stop"},
               CaptivePortal(p, what)
        PROVE  WithinAllowance'
    BY <2>6, <2>8 DEF CaptivePortal
  <2>9. ASSUME Tick \/ (\E m \in Mac : IpsetTimeout(m)) \/ UNCHANGED vars
        PROVE  WithinAllowance'
    BY <2>6, <2>9 DEF Tick, IpsetTimeout, vars
  <2> QED
    BY <2>2, <2>3, <2>4, <2>5, <2>7, <2>8, <2>9 DEF Next, Saving
<1> QED BY <1>1, <1>2, TypeCorrect, PTL DEF Spec

-----------------------------------------------------------------------------
\* The MACs that a table lists, all vouchers and dates alike.
ListedIn(t) == UNION {t.rows[s].macs : s \in {r \in Secret : t.rows[r] # NoRow}}

\* A device that was not accepted is neither let through, nor about to be, nor in
\* any table that could let it through later.
OnlyAcceptedInv ==
    /\ ipset \subseteq accepted
    /\ ListedIn(file) \subseteq accepted
    /\ \A p \in Proc : guest[p] \subseteq accepted /\ ListedIn(table[p]) \subseteq accepted

\* Adding, renewing and removing vouchers lists no new device, accepting one lists
\* that one, and an empty table lists none.
LEMMA ListedInTables ==
    ASSUME NEW t \in Table
    PROVE  /\ \A new \in SUBSET Secret, d \in Date :
                 /\ ListedIn(Added(t, new, d)) \subseteq ListedIn(t)
                 /\ ListedIn(Redated(t, new, d)) \subseteq ListedIn(t)
           /\ \A s \in Secret, m \in Mac :
                 t.rows[s] # NoRow => ListedIn(Used(t, s, m)) \subseteq ListedIn(t) \cup {m}
           /\ ValidMacs(t) \subseteq ListedIn(t)
           /\ ListedIn(Empty) = {}
<1>0. t.rows \in Book /\ t = [head |-> t.head, rows |-> t.rows]
  BY DEF Table
<1>1. ASSUME NEW new \in SUBSET Secret, NEW d \in Date
      PROVE  ListedIn(Added(t, new, d)) \subseteq ListedIn(t)
  <2>1. ASSUME NEW s \in Secret, Added(t, new, d).rows[s] # NoRow
        PROVE  Added(t, new, d).rows[s].macs \subseteq ListedIn(t)
    <3>1. CASE s \in new /\ t.rows[s] = NoRow
      <4>1. Added(t, new, d).rows[s].macs = {}
        BY <1>0, <3>1 DEF Added, Book
      <4> QED BY <4>1
    <3>2. CASE ~ (s \in new /\ t.rows[s] = NoRow)
      <4>1. Added(t, new, d).rows[s] = t.rows[s]
        BY <1>0, <3>2 DEF Added, Book
      <4> QED BY <2>1, <4>1 DEF ListedIn
    <3> QED BY <3>1, <3>2
  <2> QED BY <2>1 DEF ListedIn
<1>2. ASSUME NEW these \in SUBSET Secret, NEW d \in Date
      PROVE  ListedIn(Redated(t, these, d)) \subseteq ListedIn(t)
  <2>1. ASSUME NEW s \in Secret, Redated(t, these, d).rows[s] # NoRow
        PROVE  Redated(t, these, d).rows[s].macs \subseteq ListedIn(t)
    <3>1. CASE t.rows[s] = NoRow
      BY <1>0, <2>1, <3>1 DEF Redated, Book
    <3>2. CASE t.rows[s] # NoRow
      <4>1. Redated(t, these, d).rows[s].macs = t.rows[s].macs
        BY <1>0, <3>2 DEF Redated, Book, Row
      <4> QED BY <3>2, <4>1 DEF ListedIn
    <3> QED BY <3>1, <3>2
  <2> QED BY <2>1 DEF ListedIn
<1>3. ASSUME NEW s \in Secret, NEW m \in Mac, t.rows[s] # NoRow
      PROVE  ListedIn(Used(t, s, m)) \subseteq ListedIn(t) \cup {m}
  <2>1. t.rows[s] \in Row
    BY <1>0, <1>3 DEF Book
  <2>2. /\ Used(t, s, m).rows[s].macs = t.rows[s].macs \cup {m}
        /\ \A r \in Secret \ {s} : Used(t, s, m).rows[r] = t.rows[r]
    BY <1>0, <2>1 DEF Used, Book, Row
  <2>3. ASSUME NEW r \in Secret, Used(t, s, m).rows[r] # NoRow
        PROVE  Used(t, s, m).rows[r].macs \subseteq ListedIn(t) \cup {m}
    BY <1>3, <2>2, <2>3 DEF ListedIn
  <2> QED BY <2>3 DEF ListedIn
<1>4. ValidMacs(t) \subseteq ListedIn(t)
  BY DEF ValidMacs, ListedIn, Valid
<1>5. ListedIn(Empty) = {}
  BY DEF ListedIn, Empty, EmptyBook
<1> QED BY <1>1, <1>2, <1>3, <1>4, <1>5

\* However saves, updates and power loss interleave, only devices that auth_voucher
\* has accepted are ever let through: what is not accepted is in no table either.
THEOREM OnlyAcceptedLetThrough == Spec => []OnlyAccepted
<1>1. Init => OnlyAcceptedInv
  BY DEF Init, OnlyAcceptedInv, ListedIn, EmptyBook, Empty
<1>2. TypeOK /\ OnlyAcceptedInv /\ [Next]_vars => OnlyAcceptedInv'
  <2> SUFFICES ASSUME TypeOK, OnlyAcceptedInv, [Next]_vars PROVE OnlyAcceptedInv'
    OBVIOUS
  <2>0. /\ file \in Table /\ ListedIn(file) \subseteq accepted
        /\ \A p \in Proc : table[p] \in Table /\ ListedIn(table[p]) \subseteq accepted
    BY DEF TypeOK, OnlyAcceptedInv
  <2>1. ASSUME NEW p \in Proc, NEW t, ListedIn(t) \subseteq accepted, Holds(p, t),
               UNCHANGED <<file, ipset, guest, accepted>>
        PROVE  OnlyAcceptedInv'
    BY <2>0, <2>1 DEF Holds, OnlyAcceptedInv, ListedIn, TypeOK
  <2>2. ASSUME NEW p \in Proc, Commands(p) PROVE OnlyAcceptedInv'
    <3>1. ASSUME NEW these \in (SUBSET Secret) \ {{}}, NEW d \in Date,
                 AddVouchers(p, these, d) \/ ChangeDates(p, these, d)
          PROVE  OnlyAcceptedInv'
      <4>1. these \in SUBSET Secret
        OBVIOUS
      <4>2. /\ ListedIn(Added(file, these, d)) \subseteq accepted
            /\ ListedIn(Redated(file, these, d)) \subseteq accepted
        BY <2>0, <4>1, ListedInTables
      <4> QED BY <2>1, <3>1, <4>2 DEF AddVouchers, ChangeDates
    <3>2. ASSUME NEW s \in Secret, NEW m \in Mac, Accept(p, s, m)
          PROVE  OnlyAcceptedInv'
      <4>1. ListedIn(Used(file, s, m)) \subseteq accepted'
        BY <2>0, <3>2, ListedInTables DEF Accept, Usable, Valid
      <4>2. \A q \in Proc : ListedIn(table'[q]) \subseteq accepted'
        BY <2>0, <3>2, <4>1 DEF Accept, Holds, TypeOK
      <4>3. \A q \in Proc : guest'[q] \subseteq accepted'
        BY <3>2 DEF Accept, OnlyAcceptedInv, TypeOK
      <4> QED BY <2>0, <3>2, <4>2, <4>3 DEF Accept, OnlyAcceptedInv, ListedIn
    <3>3. ASSUME NEW s \in Secret, Refuse(p, s) PROVE OnlyAcceptedInv'
      BY <2>0, <2>1, <3>3 DEF Refuse
    <3> QED BY <2>2, <3>1, <3>2, <3>3 DEF Commands
  <2>3. ASSUME NEW p \in Proc, Admit(p) PROVE OnlyAcceptedInv'
    BY <2>0, <2>3 DEF Admit, OnlyAcceptedInv, ListedIn, TypeOK
  <2>4. ASSUME NEW p \in Proc, Truncate(p) PROVE OnlyAcceptedInv'
    BY <2>0, <2>4, ListedInTables DEF Truncate, OnlyAcceptedInv, ListedIn
  <2>5. ASSUME NEW p \in Proc, WriteRows(p) PROVE OnlyAcceptedInv'
    <3>1. ListedIn(file') \subseteq accepted
      <4>1. CASE table[p].head
        <5>1. PICK longer \in SUBSET {s \in Secret : table[p].rows[s] = NoRow} :
                file' = [head |-> TRUE, rows |-> [s \in Secret |->
                          IF s \in longer THEN file.rows[s] ELSE table[p].rows[s]]]
          BY <2>5, <4>1 DEF WriteRows
        <5>2. \A s \in Secret : file'.rows[s] \in {file.rows[s], table[p].rows[s]}
          BY <5>1
        <5> QED BY <2>0, <5>2 DEF ListedIn
      <4>2. CASE ~ table[p].head
        BY <2>0, <2>5, <4>2 DEF WriteRows
      <4> QED BY <4>1, <4>2
    <3>2. \A q \in Proc : ListedIn(table'[q]) \subseteq accepted
      BY <2>0, <2>5, ListedInTables DEF WriteRows, Holds, TypeOK
    <3> QED BY <2>5, <3>1, <3>2 DEF WriteRows, OnlyAcceptedInv, ListedIn
  <2>6. ASSUME NEW p \in Proc, Portal(p) PROVE OnlyAcceptedInv'
    <3>1. CASE CleanSets(p)
      BY <2>0, <3>1 DEF CleanSets, OnlyAcceptedInv, ListedIn
    <3>2. CASE PrintValidMacs(p)
      <4>1. ValidMacs(file) \subseteq accepted
        BY <2>0, ListedInTables
      <4> QED BY <2>0, <3>2, <4>1 DEF PrintValidMacs, OnlyAcceptedInv, ListedIn, TypeOK
    <3>3. ASSUME NEW m \in Mac, SetIpset(p, m) PROVE OnlyAcceptedInv'
      BY <2>0, <3>3 DEF SetIpset, OnlyAcceptedInv, ListedIn, TypeOK
    <3>4. CASE SetIptables(p)
      BY <2>0, <3>4 DEF SetIptables, OnlyAcceptedInv, ListedIn
    <3> QED BY <2>6, <3>1, <3>2, <3>3, <3>4 DEF Portal
  <2>7. ASSUME NEW p \in Proc, NEW what \in {"start", "update", "stop"},
               CaptivePortal(p, what)
        PROVE  OnlyAcceptedInv'
    BY <2>0, <2>7 DEF CaptivePortal, OnlyAcceptedInv, ListedIn
  <2>8. ASSUME NEW m \in Mac, IpsetTimeout(m) PROVE OnlyAcceptedInv'
    BY <2>0, <2>8 DEF IpsetTimeout, OnlyAcceptedInv, ListedIn
  <2>9. ASSUME Tick \/ UNCHANGED vars PROVE OnlyAcceptedInv'
    BY <2>0, <2>9 DEF Tick, vars, OnlyAcceptedInv, ListedIn
  <2>10. CASE PowerLoss
    BY <2>0, <2>10, ListedInTables DEF PowerLoss, OnlyAcceptedInv, ListedIn
  <2> QED
    BY <2>2, <2>3, <2>4, <2>5, <2>6, <2>7, <2>8, <2>9, <2>10 DEF Next, Saving
<1>3. OnlyAcceptedInv => OnlyAccepted
  BY DEF OnlyAcceptedInv, OnlyAccepted
<1> QED BY <1>1, <1>2, <1>3, TypeCorrect, PTL DEF Spec
===============================================================================
