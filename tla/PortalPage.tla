------------------------------ MODULE PortalPage ------------------------------
(***************************************************************************)
(* The captive portal in a browser: auth.html, authenticated.html and      *)
(* fail.html of packages/pirania-app with their scripts int.js,            *)
(* ubusFetch.js, content.js and voucher.js, for one user at a time.        *)
(*                                                                         *)
(* The page asks the node for its content, for the user's own address, for *)
(* the list of clients and for the MACs that may pass, and sends vouchers. *)
(* Every question is a call in flight: it is answered at any time and in   *)
(* any order, or fails.  What answers say is up to the node.               *)
(***************************************************************************)
EXTENDS Naturals, FiniteSets

CONSTANTS
    Device,     \* the devices at the node, each by its MAC
    own,        \* the one the browser runs on
    Nobody,     \* no MAC
    Languages,  \* what browsers are set to
    Clients,    \* what get_clients may answer, see Answer
    MaxCalls    \* bound on the calls in flight at which users do more

ASSUME DeviceAssumption == own \in Device /\ Nobody \notin Device

\* An answer to get_clients: with a list, without one, or without a payload.
Answer == {"list", "bare", "none"}
ASSUME ClientsAssumption == Clients \subseteq Answer

VARIABLES
    lang,         \* the user's language
    ubusError,    \* something went wrong since the page was loaded
    showingList,  \* the user wants to authenticate another device
    userIp,       \* the page knows its own address
    userMac, validMacs,
    stations,     \* the select element with the clients
    shown,        \* which of Element are not hidden
    attached,     \* the loader is in the page
    calls,        \* the calls in flight, by kind
    chosen,       \* history: since the list was filled the user chose a
                  \* device that is not his own
    missed        \* history: get_clients was last answered by nothing

learnt == <<userIp, userMac, validMacs, stations>>
vars == <<lang, ubusError, showingList, learnt, shown, attached, calls,
          chosen, missed>>

Element == {"button", "loader", "error", "result", "content"}

\* read_content, client_ip, get_clients (in loadAsyncData, which goes on when it
\* is answered, or to mark the list anew), print_valid_macs and auth_voucher.
Kind == {"content", "ip", "clients", "relist", "macs", "auth"}

\* The texts these scripts use, and the languages that have them.
Texts == {"success", "error", "invalid"}
int == [pt |-> Texts, es |-> Texts, en |-> Texts]

\* int[lang][text] can be evaluated: otherwise it is a TypeError.
Says(text) == lang \in DOMAIN int /\ text \in int[lang]

Stations == [there : BOOLEAN, options : SUBSET Device, marked : SUBSET Device,
             value : Device \cup {Nobody}]
NoStations == [there |-> FALSE, options |-> {}, marked |-> {}, value |-> Nobody]

Show(s) == shown \cup s
Hide(s) == shown \ s

-----------------------------------------------------------------------------
\* A page is loaded: authenticated.html hides the button.
Elements == {{"button"}, {}}
FirstCalls == [k \in Kind |-> IF k = "content" THEN 1 ELSE 0]

Init ==
    /\ lang \in Languages
    /\ ubusError = FALSE /\ showingList = FALSE
    /\ userIp = FALSE /\ userMac = Nobody /\ validMacs = {}
    /\ stations = NoStations
    /\ shown \in Elements /\ attached = FALSE
    /\ calls = FirstCalls
    /\ chosen = FALSE /\ missed = FALSE

\* A call of kind done is over, and one of kind next begins.
Over(done, next) ==
    [k \in Kind |-> calls[k] - (IF k = done THEN 1 ELSE 0)
                             + (IF k = next THEN 1 ELSE 0)]
Begins(next) == Over("nothing", next)

InFlight ==
    calls["content"] + calls["ip"] + calls["clients"] + calls["relist"]
      + calls["macs"] + calls["auth"]

-----------------------------------------------------------------------------
(* The user. *)

Choose(d) ==
    /\ showingList /\ d \in stations.options
    /\ stations' = [stations EXCEPT !.value = d]
    /\ chosen' = (d # own)
    /\ UNCHANGED <<lang, ubusError, showingList, userIp, userMac, validMacs,
                   shown, attached, calls, missed>>

\* The "+" button: loadAsyncData follows in both cases.
ToggleList ==
    /\ InFlight < MaxCalls
    /\ showingList' = ~ showingList
    /\ shown' = IF showingList THEN shown ELSE Show({"button"})
    /\ calls' = Begins("ip")
    /\ UNCHANGED <<lang, ubusError, learnt, attached, chosen, missed>>

\* Continue without the list is a form for handle_voucher, whose answer is
\* another page with the same scripts.
Submit ==
    /\ ~ showingList
    /\ ubusError' = FALSE /\ userIp' = FALSE /\ userMac' = Nobody
    /\ validMacs' = {} /\ stations' = NoStations
    /\ shown' \in Elements /\ attached' = FALSE
    /\ calls' = FirstCalls
    /\ chosen' = FALSE /\ missed' = FALSE
    /\ UNCHANGED <<lang, showingList>>

\* Variant: the loader is shown wherever it is.
ClickedAlways == Hide({"button"}) \cup {"loader"}

\* What Continue shows and hides at once.  Enter in the input clicks a button
\* that is hidden as well: it is only moved out of sight.
Clicked == Hide({"button"}) \cup (IF attached THEN {"loader"} ELSE {})

\* authVoucher gives up: the page knows no MAC of its own, or there is no list
\* to read (a TypeError).
ContinueInVain ==
    /\ showingList
    /\ userMac = Nobody \/ ~ stations.there
    /\ shown' = Clicked
    /\ UNCHANGED <<lang, ubusError, showingList, learnt, attached, calls,
                   chosen, missed>>

Target == IF stations.value # Nobody THEN stations.value ELSE userMac

\* authVoucher for mac.
AuthVoucher(mac) ==
    /\ showingList /\ InFlight < MaxCalls
    /\ userMac # Nobody /\ stations.there
    /\ mac = Target
    /\ attached' = TRUE
    /\ shown' = Hide({"button"}) \cup {"loader"}
    /\ calls' = Begins("auth")
    /\ UNCHANGED <<lang, ubusError, showingList, learnt, chosen, missed>>

-----------------------------------------------------------------------------
(* Calls settle: what e, ubusError, and s, shown, become. *)

Settle(done, next, e, s) ==
    /\ calls[done] > 0
    /\ calls' = Over(done, next)
    /\ ubusError' = e
    /\ shown' = s
    /\ UNCHANGED <<lang, showingList, attached>>

\* Variant: the loader stays.
AnsweredWaiting == shown \cup {"button"}

\* The page is ready for another voucher.
Answered == Hide({"loader"}) \cup {"button"}

\* The catch clause of authVoucher, with s shown before.
AuthCatch(s) == Settle("auth", "nothing", TRUE, s \cup {"error"})

\* The voucher is good, and everything is loaded again.  In a language the page
\* does not speak, success ends as an error.
AuthSucceeds ==
    /\ IF Says("success")
       THEN Settle("auth", "ip", ubusError, (Answered \ {"error"}) \cup {"result"})
       ELSE AuthCatch(Answered)
    /\ UNCHANGED <<learnt, chosen, missed>>

\* The voucher is refused; there is no payload (and nothing is said); the ubus
\* call is refused (prepareResult); or fetch fails, and the button stays hidden.
AuthFails ==
    /\ \/ IF Says("invalid")
          THEN Settle("auth", "nothing", ubusError, Answered \cup {"error"})
          ELSE AuthCatch(Answered)
       \/ Settle("auth", "nothing", ubusError, Answered)
       \/ AuthCatch(Answered)
       \/ AuthCatch(shown)
    /\ UNCHANGED <<learnt, chosen, missed>>

\* Variant: getValidClients leaves the list to be made by its answer.
ListLater == stations

\* getValidClients begins: it makes the select when no error is known.
WithList == IF ubusError THEN stations ELSE [stations EXCEPT !.there = TRUE]

\* client_ip answers with a MAC, which may be missing (no ARP entry) or that of
\* a device whose address begins with the user's (grep), or without an address
\* (IPv6 only); and getValidClients begins.
IpAnswered ==
    /\ Settle("ip", "clients", ubusError, shown)
    /\ \/ userIp' = TRUE /\ userMac' \in Device \cup {Nobody}
       \/ userIp' = FALSE /\ userMac' \in Device
    /\ stations' = WithList
    /\ UNCHANGED <<validMacs, chosen, missed>>

IpFails ==
    /\ Settle("ip", "clients", TRUE, shown)
    /\ UNCHANGED <<learnt, chosen, missed>>

\* What follows get_clients: getValidMacs in loadAsyncData, nothing otherwise.
After(k) == IF k = "clients" THEN "macs" ELSE "nothing"

\* The catch clause of getValidClients fails itself without a text for the
\* error, and so does whoever waits for it: loadAsyncData stops.
ClientsCatch(k) ==
    IF Says("error") THEN Settle(k, After(k), TRUE, Show({"error"}))
                     ELSE Settle(k, "nothing", ubusError, shown)

\* The list is filled anew with the devices s, v selected.
Filled(s, v) == [there |-> TRUE, options |-> s, marked |-> s \cap validMacs,
                 value |-> v]

\* Variant: the device is looked for by the MAC the page has for it.
FoundByMac(s) == userMac = own /\ own \in s

\* The user's address is that of one of the clients s.
Found(s) == userIp /\ own \in s

\* The clients are s: the device at the user's address is selected, or the first.
ClientsListed(k, s) ==
    /\ "list" \in Clients /\ ~ ubusError
    /\ Settle(k, After(k), ubusError, shown)
    /\ IF Found(s)
       THEN stations' = Filled(s, own) /\ userMac' = own
       ELSE /\ \E first \in IF s = {} THEN {Nobody} ELSE s :
                 stations' = Filled(s, first)
            /\ UNCHANGED userMac
    /\ chosen' = FALSE /\ missed' = FALSE
    /\ UNCHANGED <<userIp, validMacs>>

\* An answer without clients empties the list before it is found out.
ClientsBare(k) ==
    /\ "bare" \in Clients /\ ~ ubusError
    /\ ClientsCatch(k)
    /\ stations' = Filled({}, Nobody)
    /\ chosen' = FALSE /\ missed' = FALSE
    /\ UNCHANGED <<userIp, userMac, validMacs>>

\* There is no payload, or any answer after an error; the call is refused
\* (prepareResult); or it fails.
ClientsFail(k) ==
    /\ \/ /\ "none" \in Clients \/ ubusError
          /\ Settle(k, After(k), ubusError, shown)
       \/ Settle(k, After(k), TRUE, Show({"error"}))
       \/ ClientsCatch(k)
    /\ missed' = TRUE
    /\ UNCHANGED <<learnt, chosen>>

\* Variant: the list is not marked anew.
MarkNot(s) == "nothing"

\* If any MACs may pass, the list is asked for again.
MarkAnew(s) == IF s # {} THEN "relist" ELSE "nothing"

MacsAnswered(s) ==
    /\ Settle("macs", MarkAnew(s), ubusError, shown)
    /\ validMacs' = s
    /\ stations' = IF s # {} THEN WithList ELSE stations
    /\ UNCHANGED <<userIp, userMac, chosen, missed>>

\* No payload; or a failure or error, which is noted but not shown.
MacsFail ==
    /\ \E e \in {ubusError, ubusError \/ Says("error")} :
          Settle("macs", "nothing", e, shown)
    /\ UNCHANGED <<learnt, chosen, missed>>

\* ubusFetch takes no payload, an error and a failure alike.
UbusFetch(k, resolved, rejected) ==
    \/ Settle(k, "nothing", ubusError, resolved)
    \/ Settle(k, "nothing", TRUE, rejected)

\* getContent: the text of the error is put into an element that stays hidden.
ContentSettles ==
    /\ UbusFetch("content", Show({"content"}), shown)
    /\ UNCHANGED <<learnt, chosen, missed>>

-----------------------------------------------------------------------------
User ==
    \/ ToggleList \/ Submit \/ ContinueInVain
    \/ \E d \in Device : Choose(d) \/ AuthVoucher(d)

AuthSettles == AuthSucceeds \/ AuthFails

ClientsSettle(k) ==
    \/ \E s \in SUBSET Device : ClientsListed(k, s)
    \/ ClientsBare(k)
    \/ ClientsFail(k)

LoadSettles ==
    \/ IpAnswered \/ IpFails
    \/ ClientsSettle("clients") \/ ClientsSettle("relist")
    \/ (\E s \in SUBSET Device : MacsAnswered(s)) \/ MacsFail
    \/ ContentSettles

Next == User \/ AuthSettles \/ LoadSettles

\* A browser settles every fetch in the end, by an answer or by an error.
Fairness == WF_vars(AuthSettles)

Spec == Init /\ [][Next]_vars /\ Fairness

-----------------------------------------------------------------------------
(* Properties. *)

TypeOK ==
    /\ lang \in Languages
    /\ ubusError \in BOOLEAN
    /\ showingList \in BOOLEAN
    /\ userIp \in BOOLEAN
    /\ userMac \in Device \cup {Nobody}
    /\ validMacs \in SUBSET Device
    /\ stations \in Stations
    /\ stations.marked \subseteq stations.options
    /\ stations.value \in stations.options \cup {Nobody}
    /\ shown \in SUBSET Element
    /\ attached \in BOOLEAN
    /\ "loader" \in shown => attached
    /\ calls \in [Kind -> Nat]
    /\ chosen \in BOOLEAN
    /\ missed \in BOOLEAN

\* However answers, clicks and failures interleave, nothing looks for the list
\* of devices before it was made, as long as no error has been noted: neither an
\* answer to get_clients that fills it, nor a click on Continue once the page
\* knows its MAC (getElementById('stations') in getValidClients, authVoucher).
ListIsThere ==
    ~ ubusError =>
        /\ calls["clients"] + calls["relist"] > 0 => stations.there
        /\ userMac # Nobody => stations.there

\* The devices marked in the list are those that may pass as far as the page
\* knows, unless it has asked for the list again: print_valid_macs is answered
\* after the list was filled, and two loads may overlap.  That holds while some
\* device may pass, no error is noted and get_clients gives an answer
\* (getValidClients, getValidMacs).
MarksAreCurrent ==
    ~ ubusError /\ ~ missed /\ validMacs # {} /\ calls["relist"] = 0
      => stations.marked = stations.options \cap validMacs

\* When get_clients has listed the user's own device for the address the page got
\* from client_ip, the page knows the right MAC, and a voucher is for that device
\* unless the user chose another one since: also if client_ip answered with the
\* MAC of another device, whose address begins with the user's, or if the answers
\* of overlapping loads come in any order.  It does not hold once an error is
\* noted, when the page fills the list no more (authVoucher, getValidClients).
OwnUnlessChosen ==
    ~ ubusError /\ ~ missed /\ userIp /\ own \in stations.options /\ calls["clients"] = 0
      => userMac = own /\ (Target = own \/ chosen)

\* A voucher that was sent is answered: the page stops waiting, or shows an
\* error and has noted it, however many were sent and whatever else goes on.
VoucherIsAnswered ==
    calls["auth"] > 0
      ~> "loader" \notin shown \/ ("error" \in shown /\ ubusError)
===============================================================================
