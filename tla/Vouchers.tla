------------------------------- MODULE Vouchers -------------------------------
(***************************************************************************)
(* packages/pirania on one node: the voucher database db.csv, the commands *)
(* of voucher and rpcd that change it, and the captive portal that lets    *)
(* the MACs of valid vouchers through.                                     *)
(*                                                                         *)
(* Every command is a process that loads the whole file, changes its copy  *)
(* and writes the whole file back; nothing keeps two of them apart.  A     *)
(* file opened for writing is empty until it is closed.                    *)
(*                                                                         *)
(* The commands that only read (list, status, show) are left out; so are   *)
(* the bandwidth limits and notes of a voucher, which nothing here reads.  *)
(***************************************************************************)
EXTENDS Naturals, FiniteSets

CONSTANTS
    Proc,      \* process slots of the node
    Secret,    \* the codes of the vouchers
    Mac,
    allowed,   \* amountofmacsallowed of each voucher
    Horizon,   \* bound on the clock
    NoRow      \* a voucher that is not in a table

ASSUME AllowedAssumption == allowed \in [Secret -> Nat]
ASSUME HorizonAssumption == Horizon \in Nat
ASSUME MacAssumption == IsFiniteSet(Mac)

\* Removing a voucher sets its date to 0.
Date == 0 .. Horizon

Row == [expires : Date, macs : SUBSET Mac]

ASSUME NoRowAssumption == NoRow \notin Row

Book == [Secret -> Row \cup {NoRow}]
EmptyBook == [s \in Secret |-> NoRow]

\* A table as load returns it: a file without its header line is empty.
Table == {t \in [head : BOOLEAN, rows : Book] : t.head \/ t.rows = EmptyBook}
Empty == [head |-> FALSE, rows |-> EmptyBook]

VARIABLES
    file,     \* db.csv
    now,      \* the clock
    ipset,    \* the MACs in pirania-auth-macs
    timed,    \* those of them that have a timeout
    rules,    \* the firewall sends everybody else to the portal
    step,     \* process -> how far it is
    table,    \* process -> the table it is about to save
    guest,    \* process -> the MACs it is about to put into the ipset
    portal,   \* process -> what captive-portal was called with
    accepted  \* the MACs that auth_voucher has ever accepted

vars == <<file, now, ipset, timed, rules, step, table, guest, portal, accepted>>

Step == {"idle", "admit", "save", "write", "flush", "list", "fill"}

-----------------------------------------------------------------------------
(* The vouchers of a table. *)

\* check_valid_voucher
Valid(row) == row # NoRow /\ row.expires > now

\* Variant: a voucher may be used by one MAC more.
UsableByOneMore(s, row) == Valid(row) /\ Cardinality(row.macs) <= allowed[s]

\* check_voucher_validity: also for a MAC that is one of its MACs.
Usable(s, row) == Valid(row) /\ Cardinality(row.macs) < allowed[s]

\* valid_macs.  It cuts the MACs of a voucher off at the number allowed, which
\* no voucher exceeds (WithinAllowance).
ValidMacs(t) ==
    UNION {t.rows[s].macs : s \in {r \in Secret : Valid(t.rows[r])}}

Added(t, new, d) ==
    [t EXCEPT !.rows = [s \in Secret |->
        IF s \in new /\ @[s] = NoRow THEN [expires |-> d, macs |-> {}] ELSE @[s]]]

Redated(t, these, d) ==
    [t EXCEPT !.rows = [s \in Secret |->
        IF s \in these /\ @[s] # NoRow THEN [@[s] EXCEPT !.expires = d] ELSE @[s]]]

Used(t, s, m) == [t EXCEPT !.rows[s].macs = @ \cup {m}]

-----------------------------------------------------------------------------
Init ==
    /\ file = [head |-> TRUE, rows |-> EmptyBook]
    /\ now = 0
    /\ ipset = {} /\ timed = {} /\ rules = FALSE
    /\ step = [p \in Proc |-> "idle"]
    /\ table = [p \in Proc |-> Empty]
    /\ guest = [p \in Proc |-> {}]
    /\ portal = [p \in Proc |-> "none"]
    /\ accepted = {}

Goto(p, s) == step' = [step EXCEPT ![p] = s]

\* The table p goes on with.
Holds(p, t) == table' = [table EXCEPT ![p] = t]

\* Variant: an add that goes on without a header.
AddHeadless(p, new, d) ==
    /\ step[p] = "idle"
    /\ Holds(p, Added(file, new, d))
    /\ Goto(p, "save")
    /\ UNCHANGED <<file, now, ipset, timed, rules, guest, portal, accepted>>

\* add_voucher, add_many_vouchers, add_visitor_voucher, add_member_voucher: those
\* that exist stay as they are.  Without a header the command dies.
AddVouchers(p, new, d) ==
    /\ step[p] = "idle" /\ file.head
    /\ Holds(p, Added(file, new, d))
    /\ Goto(p, "save")
    /\ UNCHANGED <<file, now, ipset, timed, rules, guest, portal, accepted>>

\* renew_voucher, renew_many_vouchers, and remove_voucher with d = 0.  A table
\* read without a header is saved as well.
ChangeDates(p, these, d) ==
    /\ step[p] = "idle"
    /\ Holds(p, Redated(file, these, d))
    /\ Goto(p, "save")
    /\ UNCHANGED <<file, now, ipset, timed, rules, guest, portal, accepted>>

\* auth_voucher accepts m.
Accept(p, s, m) ==
    /\ step[p] = "idle" /\ file.head
    /\ Usable(s, file.rows[s])
    /\ Holds(p, Used(file, s, m))
    /\ guest' = [guest EXCEPT ![p] = {m}]
    /\ accepted' = accepted \cup {m}
    /\ Goto(p, "admit")
    /\ UNCHANGED <<file, now, ipset, timed, rules, portal>>

\* Variant: the device is put into the table before the voucher is checked.
RefuseUsed(p, s) ==
    /\ step[p] = "idle" /\ file.head
    /\ file.rows[s] # NoRow /\ ~ Usable(s, file.rows[s])
    /\ \E m \in Mac : Holds(p, Used(file, s, m))
    /\ Goto(p, "save")
    /\ UNCHANGED <<file, now, ipset, timed, rules, guest, portal, accepted>>

\* auth_voucher refuses: the voucher command stops, rpcd saves all the same.
Refuse(p, s) ==
    /\ step[p] = "idle" /\ file.head
    /\ ~ Usable(s, file.rows[s])
    /\ Holds(p, file)
    /\ Goto(p, "save")
    /\ UNCHANGED <<file, now, ipset, timed, rules, guest, portal, accepted>>

\* _setIpset.  The timeout is the voucher's date, as seconds from now; so it is
\* the longest one ipset has, whatever the voucher.
Admit(p) ==
    /\ step[p] = "admit"
    /\ ipset' = ipset \cup guest[p]
    /\ timed' = timed \cup guest[p]
    /\ guest' = [guest EXCEPT ![p] = {}]
    /\ Goto(p, "save")
    /\ UNCHANGED <<file, now, rules, table, portal, accepted>>

Truncate(p) ==
    /\ step[p] = "save"
    /\ file' = Empty
    /\ Goto(p, "write")
    /\ UNCHANGED <<now, ipset, timed, rules, table, guest, portal, accepted>>

\* Rows somebody else wrote since Truncate may stick out behind p's, if they
\* made a longer file.  A row cut in two is not modelled.
WriteRows(p) ==
    /\ step[p] = "write"
    /\ IF table[p].head
       THEN \E longer \in SUBSET {s \in Secret : table[p].rows[s] = NoRow} :
              file' = [head |-> TRUE, rows |-> [s \in Secret |->
                         IF s \in longer THEN file.rows[s] ELSE table[p].rows[s]]]
       ELSE file' = file
    /\ Holds(p, Empty)
    /\ Goto(p, "idle")
    /\ UNCHANGED <<now, ipset, timed, rules, guest, portal, accepted>>

-----------------------------------------------------------------------------
(* The captive portal. *)

\* captive-portal start, update and stop; start and stop remove the rules first.
CaptivePortal(p, what) ==
    /\ step[p] = "idle"
    /\ portal' = [portal EXCEPT ![p] = what]
    /\ rules' = (rules /\ what = "update")
    /\ Goto(p, "flush")
    /\ UNCHANGED <<file, now, ipset, timed, table, guest, accepted>>

CleanSets(p) ==
    /\ step[p] = "flush"
    /\ ipset' = {} /\ timed' = {}
    /\ IF portal[p] = "stop"
       THEN portal' = [portal EXCEPT ![p] = "none"] /\ Goto(p, "idle")
       ELSE portal' = portal /\ Goto(p, "list")
    /\ UNCHANGED <<file, now, rules, table, guest, accepted>>

\* voucher print_valid_macs
PrintValidMacs(p) ==
    /\ step[p] = "list"
    /\ guest' = [guest EXCEPT ![p] = ValidMacs(file)]
    /\ Goto(p, "fill")
    /\ UNCHANGED <<file, now, ipset, timed, rules, table, portal, accepted>>

SetIpset(p, m) ==
    /\ step[p] = "fill" /\ m \in guest[p]
    /\ ipset' = ipset \cup {m}
    /\ timed' = timed \ {m}
    /\ guest' = [guest EXCEPT ![p] = @ \ {m}]
    /\ UNCHANGED <<file, now, rules, step, table, portal, accepted>>

SetIptables(p) ==
    /\ step[p] = "fill" /\ guest[p] = {}
    /\ rules' = (rules \/ portal[p] = "start")
    /\ portal' = [portal EXCEPT ![p] = "none"]
    /\ Goto(p, "idle")
    /\ UNCHANGED <<file, now, ipset, timed, table, guest, accepted>>

-----------------------------------------------------------------------------
IpsetTimeout(m) ==
    /\ m \in timed
    /\ ipset' = ipset \ {m} /\ timed' = timed \ {m}
    /\ UNCHANGED <<file, now, rules, step, table, guest, portal, accepted>>

Tick ==
    /\ now < Horizon
    /\ now' = now + 1
    /\ UNCHANGED <<file, ipset, timed, rules, step, table, guest, portal, accepted>>

\* The file stays as it is, empty if it was being written; the rest is gone.
PowerLoss ==
    /\ ipset' = {} /\ timed' = {} /\ rules' = FALSE
    /\ step' = [p \in Proc |-> "idle"]
    /\ table' = [p \in Proc |-> Empty]
    /\ guest' = [p \in Proc |-> {}]
    /\ portal' = [p \in Proc |-> "none"]
    /\ UNCHANGED <<file, now, accepted>>

Commands(p) ==
    \/ \E these \in (SUBSET Secret) \ {{}}, d \in Date :
          AddVouchers(p, these, d) \/ ChangeDates(p, these, d)
    \/ \E s \in Secret : (\E m \in Mac : Accept(p, s, m)) \/ Refuse(p, s)

Saving(p) == Admit(p) \/ Truncate(p) \/ WriteRows(p)

Portal(p) ==
    \/ CleanSets(p) \/ PrintValidMacs(p)
    \/ (\E m \in Mac : SetIpset(p, m)) \/ SetIptables(p)

Next ==
    \/ \E p \in Proc :
         \/ Commands(p) \/ Saving(p) \/ Portal(p)
         \/ \E what \in {"start", "update", "stop"} : CaptivePortal(p, what)
    \/ \E m \in Mac : IpsetTimeout(m)
    \/ Tick \/ PowerLoss

Spec == Init /\ [][Next]_vars

-----------------------------------------------------------------------------
(* Properties. *)

TypeOK ==
    /\ file \in Table
    /\ now \in Date
    /\ ipset \subseteq Mac
    /\ timed \subseteq ipset
    /\ rules \in BOOLEAN
    /\ step \in [Proc -> Step]
    /\ table \in [Proc -> Table]
    /\ guest \in [Proc -> SUBSET Mac]
    /\ portal \in [Proc -> {"none", "start", "update", "stop"}]
    /\ accepted \subseteq Mac

FitsAllowance(t) ==
    \A s \in Secret : t.rows[s] # NoRow => Cardinality(t.rows[s].macs) <= allowed[s]

\* However commands interleave, no voucher on disk, or about to be saved, lists
\* more MACs than it allows, so that valid_macs never has to cut one off.  (That
\* no MAC is lost is not so: of two accepted on one table the last save wins.)
WithinAllowance == FitsAllowance(file) /\ \A p \in Proc : FitsAllowance(table[p])

\* Nobody but a device that auth_voucher has accepted is ever let through, not
\* by an update later on either: although rpcd saves its table after a refusal
\* too, the rows of overlapping saves get mixed in the file, vouchers that have
\* expired are renewed with the MACs they have, and updates overlap.  (On a node
\* that shares its vouchers, accepted there or on another node.)
OnlyAccepted == ipset \subseteq accepted
===============================================================================
