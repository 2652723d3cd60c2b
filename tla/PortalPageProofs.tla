--------------------------- MODULE PortalPageProofs ---------------------------
(***************************************************************************)
(* Proofs about PortalPage, for any devices, languages and answers, and    *)
(* any number of calls in flight.                                          *)
(***************************************************************************)
EXTENDS PortalPage, TLAPS

\* What Over makes of the number of calls of each kind.
LEMMA OverCounts ==
    ASSUME calls \in [Kind -> Nat], NEW done \in Kind \cup {"nothing"},
           NEW next \in Kind \cup {"nothing"},
           done \in Kind => calls[done] > 0
    PROVE  /\ Over(done, next) \in [Kind -> Nat]
           /\ \A k \in Kind :
                /\ k # done /\ k # next => Over(done, next)[k] = calls[k]
                /\ k = next /\ k # done => Over(done, next)[k] = calls[k] + 1
                /\ k = done /\ k # next => Over(done, next)[k] = calls[k] - 1
                /\ k = done /\ k = next => Over(done, next)[k] = calls[k]
<1>1. ASSUME NEW k \in Kind
      PROVE  /\ calls[k] - (IF k = done THEN 1 ELSE 0)
                         + (IF k = next THEN 1 ELSE 0) \in Nat
             /\ k # done /\ k # next => Over(done, next)[k] = calls[k]
             /\ k = next /\ k # done => Over(done, next)[k] = calls[k] + 1
             /\ k = done /\ k # next => Over(done, next)[k] = calls[k] - 1
             /\ k = done /\ k = next => Over(done, next)[k] = calls[k]
  <2>1. calls[k] \in Nat
    OBVIOUS
  <2>2. Over(done, next)[k] = calls[k] - (IF k = done THEN 1 ELSE 0)
                                       + (IF k = next THEN 1 ELSE 0)
    BY DEF Over
  <2>3. k = done => calls[k] > 0
    OBVIOUS
  <2> QED BY <2>1, <2>2, <2>3
<1>2. Over(done, next) \in [Kind -> Nat]
  BY <1>1 DEF Over
<1> QED BY <1>1, <1>2

\* Starting a call keeps the others.
LEMMA BeginCounts ==
    ASSUME calls \in [Kind -> Nat], NEW next \in Kind
    PROVE  /\ Begins(next) \in [Kind -> Nat]
           /\ \A k \in Kind : k # next => Begins(next)[k] = calls[k]
<1>1. "nothing" \notin Kind
  BY DEF Kind
<1> QED BY <1>1, OverCounts DEF Begins

\* The calls left when one settles.
LEMMA SettleCounts ==
    ASSUME calls \in [Kind -> Nat], NEW done \in Kind,
           NEW next \in Kind \cup {"nothing"}, NEW e, NEW s,
           Settle(done, next, e, s)
    PROVE  /\ calls' \in [Kind -> Nat]
           /\ \A k \in Kind : k # next => calls'[k] <= calls[k]
           /\ \A k \in Kind : k # done => calls'[k] >= calls[k]
           /\ next \in Kind => calls'[next] > 0
<1>1. /\ done \in Kind \cup {"nothing"}
      /\ calls[done] > 0
      /\ calls' = Over(done, next)
  BY DEF Settle
<1>2. \A k \in Kind : calls[k] \in Nat
  OBVIOUS
<1>3. /\ calls' \in [Kind -> Nat]
      /\ \A k \in Kind :
           /\ k # done /\ k # next => calls'[k] = calls[k]
           /\ k = next /\ k # done => calls'[k] = calls[k] + 1
           /\ k = done /\ k # next => calls'[k] = calls[k] - 1
           /\ k = done /\ k = next => calls'[k] = calls[k]
  BY <1>1, OverCounts
<1> QED BY <1>1, <1>2, <1>3

\* The values every answer leaves well typed.
LEMMA SettleTypes ==
    ASSUME TypeOK, NEW done \in Kind, NEW next \in Kind \cup {"nothing"},
           NEW e \in BOOLEAN, NEW s \in SUBSET Element,
           "loader" \in s => attached,
           Settle(done, next, e, s)
    PROVE  /\ lang' \in Languages /\ ubusError' \in BOOLEAN
           /\ showingList' \in BOOLEAN /\ calls' \in [Kind -> Nat]
           /\ shown' \in SUBSET Element /\ attached' \in BOOLEAN
           /\ "loader" \in shown' => attached'
<1>1. calls' \in [Kind -> Nat]
  BY SettleCounts DEF TypeOK
<1> QED BY <1>1 DEF TypeOK, Settle

-----------------------------------------------------------------------------
\* The actions of the user keep the types.
LEMMA UserTypes == TypeOK /\ User => TypeOK'
<1> SUFFICES ASSUME TypeOK, User PROVE TypeOK'
  OBVIOUS
<1>1. CASE ToggleList
  <2>1. calls' \in [Kind -> Nat]
    BY <1>1, BeginCounts DEF ToggleList, TypeOK, Kind
  <2>2. shown' \in SUBSET Element /\ ("loader" \in shown' => attached')
    BY <1>1 DEF ToggleList, TypeOK, Element, Show
  <2> QED BY <1>1, <2>1, <2>2 DEF ToggleList, TypeOK, learnt
<1>2. CASE Submit
  <2>1. FirstCalls \in [Kind -> Nat]
    BY DEF FirstCalls
  <2>2. shown' \in SUBSET Element /\ "loader" \notin shown'
    BY <1>2 DEF Submit, Elements, Element
  <2>3. NoStations \in Stations
    BY DEF NoStations, Stations
  <2> QED BY <1>2, <2>1, <2>2, <2>3 DEF Submit, TypeOK, NoStations
<1>3. CASE ContinueInVain
  <2>1. shown' \in SUBSET Element /\ ("loader" \in shown' => attached')
    BY <1>3 DEF ContinueInVain, Clicked, TypeOK, Element, Hide
  <2> QED BY <1>3, <2>1 DEF ContinueInVain, TypeOK, learnt
<1>4. ASSUME NEW d \in Device, Choose(d) PROVE TypeOK'
  <2>1. stations' \in Stations /\ stations'.options = stations.options
        /\ stations'.marked = stations.marked /\ stations'.value = d
    BY <1>4 DEF Choose, TypeOK, Stations
  <2>2. d \in stations.options /\ chosen' \in BOOLEAN
    BY <1>4 DEF Choose
  <2> QED BY <1>4, <2>1, <2>2 DEF Choose, TypeOK
<1>5. ASSUME NEW d \in Device, AuthVoucher(d) PROVE TypeOK'
  <2>1. calls' \in [Kind -> Nat]
    BY <1>5, BeginCounts DEF AuthVoucher, TypeOK, Kind
  <2>2. shown' \in SUBSET Element /\ attached'
    BY <1>5 DEF AuthVoucher, TypeOK, Element, Hide
  <2> QED BY <1>5, <2>1, <2>2 DEF AuthVoucher, TypeOK, learnt
<1> QED BY <1>1, <1>2, <1>3, <1>4, <1>5 DEF User

\* What the answers to a voucher make of the elements.
LEMMA AuthTypes == TypeOK /\ AuthSettles => TypeOK'
<1> SUFFICES ASSUME TypeOK, AuthSettles PROVE TypeOK'
  OBVIOUS
<1>1. "auth" \in Kind /\ "ip" \in Kind \cup {"nothing"}
      /\ "nothing" \in Kind \cup {"nothing"}
  BY DEF Kind
<1>2. ubusError \in BOOLEAN /\ TRUE \in BOOLEAN
  BY DEF TypeOK
<1>3. /\ Answered \in SUBSET Element /\ "loader" \notin Answered
      /\ shown \in SUBSET Element /\ ("loader" \in shown => attached)
  BY DEF Answered, Hide, TypeOK, Element
<1>4. ASSUME NEW s \in SUBSET Element, "loader" \in s => attached, AuthCatch(s)
      PROVE  /\ lang' \in Languages /\ ubusError' \in BOOLEAN
             /\ showingList' \in BOOLEAN /\ calls' \in [Kind -> Nat]
             /\ shown' \in SUBSET Element /\ attached' \in BOOLEAN
             /\ "loader" \in shown' => attached'
  <2>1. s \cup {"error"} \in SUBSET Element
        /\ ("loader" \in s \cup {"error"} => attached)
    BY <1>4 DEF Element
  <2> QED BY <1>1, <1>2, <1>4, <2>1, SettleTypes DEF AuthCatch
<1>5. CASE AuthSucceeds
  <2>1. CASE Says("success")
    <3>1. (Answered \ {"error"}) \cup {"result"} \in SUBSET Element
          /\ "loader" \notin (Answered \ {"error"}) \cup {"result"}
      BY <1>3 DEF Element
    <3>2. Settle("auth", "ip", ubusError, (Answered \ {"error"}) \cup {"result"})
      BY <1>5, <2>1 DEF AuthSucceeds
    <3> QED BY <1>1, <1>2, <1>5, <3>1, <3>2, SettleTypes
            DEF AuthSucceeds, TypeOK, learnt
  <2>2. CASE ~ Says("success")
    <3>1. AuthCatch(Answered)
      BY <1>5, <2>2 DEF AuthSucceeds
    <3> QED BY <1>3, <1>4, <1>5, <3>1 DEF AuthSucceeds, TypeOK, learnt
  <2> QED BY <2>1, <2>2
<1>6. CASE AuthFails
  <2>1. Answered \cup {"error"} \in SUBSET Element
        /\ "loader" \notin Answered \cup {"error"}
    BY <1>3 DEF Element
  <2>2. \/ Settle("auth", "nothing", ubusError, Answered \cup {"error"})
        \/ Settle("auth", "nothing", ubusError, Answered)
        \/ AuthCatch(Answered)
        \/ AuthCatch(shown)
    BY <1>6 DEF AuthFails
  <2>3. /\ lang' \in Languages /\ ubusError' \in BOOLEAN
        /\ showingList' \in BOOLEAN /\ calls' \in [Kind -> Nat]
        /\ shown' \in SUBSET Element /\ attached' \in BOOLEAN
        /\ "loader" \in shown' => attached'
    BY <1>1, <1>2, <1>3, <1>4, <2>1, <2>2, SettleTypes
  <2> QED BY <1>6, <2>3 DEF AuthFails, TypeOK, learnt
<1> QED BY <1>5, <1>6 DEF AuthSettles

\* What SettleTypes concludes, for answers that show nothing or one element.
LEMMA LoadTypes ==
    ASSUME TypeOK, NEW done \in Kind, NEW next \in Kind \cup {"nothing"},
           NEW e \in BOOLEAN, NEW s \in {{}, {"error"}, {"content"}},
           Settle(done, next, e, Show(s))
    PROVE  /\ lang' \in Languages /\ ubusError' \in BOOLEAN
           /\ showingList' \in BOOLEAN /\ calls' \in [Kind -> Nat]
           /\ shown' \in SUBSET Element /\ attached' \in BOOLEAN
           /\ "loader" \in shown' => attached'
<1>1. Show(s) \in SUBSET Element /\ ("loader" \in Show(s) => attached)
  BY DEF Show, TypeOK, Element
<1> QED BY <1>1, SettleTypes

\* A list filled anew with devices is well typed, and its marks are current.
LEMMA FilledTypes ==
    ASSUME NEW s \in SUBSET Device, NEW v \in s \cup {Nobody}
    PROVE  /\ Filled(s, v) \in Stations
           /\ Filled(s, v).marked \subseteq Filled(s, v).options
           /\ Filled(s, v).value \in Filled(s, v).options \cup {Nobody}
           /\ Filled(s, v).there /\ Filled(s, v).value = v
           /\ Filled(s, v).marked = Filled(s, v).options \cap validMacs
<1>1. s \cap validMacs \in SUBSET Device /\ v \in Device \cup {Nobody}
  OBVIOUS
<1> QED BY <1>1 DEF Filled, Stations

\* An answer to get_clients keeps the types.
LEMMA ClientsTypes ==
    ASSUME TypeOK, NEW k \in {"clients", "relist"}, ClientsSettle(k)
    PROVE  TypeOK'
<1>1. k \in Kind /\ After(k) \in Kind \cup {"nothing"}
      /\ "nothing" \in Kind \cup {"nothing"}
  BY DEF Kind, After
<1>2. ubusError \in BOOLEAN /\ TRUE \in BOOLEAN /\ shown = Show({})
      /\ {} \in {{}, {"error"}, {"content"}}
      /\ {"error"} \in {{}, {"error"}, {"content"}}
  BY DEF TypeOK, Show
<1>3. ASSUME ClientsCatch(k)
      PROVE  /\ lang' \in Languages /\ ubusError' \in BOOLEAN
             /\ showingList' \in BOOLEAN /\ calls' \in [Kind -> Nat]
             /\ shown' \in SUBSET Element /\ attached' \in BOOLEAN
             /\ "loader" \in shown' => attached'
  BY <1>1, <1>2, <1>3, LoadTypes DEF ClientsCatch
<1>4. ASSUME NEW s \in SUBSET Device, ClientsListed(k, s) PROVE TypeOK'
  <2>1. Settle(k, After(k), ubusError, Show({}))
    BY <1>2, <1>4 DEF ClientsListed
  <2>2. /\ stations' \in Stations /\ stations'.marked \subseteq stations'.options
        /\ stations'.value \in stations'.options \cup {Nobody}
        /\ userMac' \in Device \cup {Nobody}
    <3>1. \E v \in s \cup {Nobody} : stations' = Filled(s, v)
      BY <1>4 DEF ClientsListed, Found
    <3>2. userMac' \in Device \cup {Nobody}
      BY <1>4, DeviceAssumption DEF ClientsListed, TypeOK
    <3> QED BY <3>1, <3>2, FilledTypes
  <2> QED BY <1>1, <1>2, <1>4, <2>1, <2>2, LoadTypes, ZenonT(60) DEF ClientsListed, TypeOK
<1>5. CASE ClientsBare(k)
  <2>1. /\ stations' \in Stations /\ stations'.marked \subseteq stations'.options
        /\ stations'.value \in stations'.options \cup {Nobody}
    BY <1>5, FilledTypes DEF ClientsBare
  <2>2. ClientsCatch(k)
    BY <1>5 DEF ClientsBare
  <2> QED BY <1>3, <1>5, <2>1, <2>2 DEF ClientsBare, TypeOK
<1>6. CASE ClientsFail(k)
  <2>1. \/ Settle(k, After(k), ubusError, Show({}))
        \/ Settle(k, After(k), TRUE, Show({"error"}))
        \/ ClientsCatch(k)
    BY <1>2, <1>6 DEF ClientsFail
  <2>2. /\ lang' \in Languages /\ ubusError' \in BOOLEAN
        /\ showingList' \in BOOLEAN /\ calls' \in [Kind -> Nat]
        /\ shown' \in SUBSET Element /\ attached' \in BOOLEAN
        /\ "loader" \in shown' => attached'
    BY <1>1, <1>2, <1>3, <2>1, LoadTypes
  <2> QED BY <1>6, <2>2 DEF ClientsFail, TypeOK, learnt
<1> QED BY <1>4, <1>5, <1>6 DEF ClientsSettle

\* So does everything else the page loads.
LEMMA LoadingTypes == TypeOK /\ LoadSettles => TypeOK'
<1> SUFFICES ASSUME TypeOK, LoadSettles PROVE TypeOK'
  OBVIOUS
<1> DEFINE Others == /\ lang' \in Languages /\ ubusError' \in BOOLEAN
                     /\ showingList' \in BOOLEAN /\ calls' \in [Kind -> Nat]
                     /\ shown' \in SUBSET Element /\ attached' \in BOOLEAN
                     /\ "loader" \in shown' => attached'
<1>1. /\ "ip" \in Kind /\ "macs" \in Kind /\ "content" \in Kind
      /\ "clients" \in Kind \cup {"nothing"} /\ "nothing" \in Kind \cup {"nothing"}
  BY DEF Kind
<1>2. /\ ubusError \in BOOLEAN /\ TRUE \in BOOLEAN /\ shown = Show({})
      /\ {} \in {{}, {"error"}, {"content"}}
      /\ {"content"} \in {{}, {"error"}, {"content"}}
  BY DEF TypeOK, Show
<1>3. /\ WithList \in Stations /\ WithList.marked \subseteq WithList.options
      /\ WithList.value \in WithList.options \cup {Nobody}
  BY DEF WithList, TypeOK, Stations
<1>4. CASE IpAnswered
  <2>1. Settle("ip", "clients", ubusError, Show({}))
    BY <1>2, <1>4 DEF IpAnswered
  <2>2. userIp' \in BOOLEAN /\ userMac' \in Device \cup {Nobody}
    BY <1>4 DEF IpAnswered
  <2>3. Others
    BY <1>1, <1>2, <2>1, LoadTypes
  <2> QED BY <1>3, <1>4, <2>2, <2>3 DEF IpAnswered, TypeOK
<1>5. CASE IpFails
  <2>1. Settle("ip", "clients", TRUE, Show({}))
    BY <1>2, <1>5 DEF IpFails
  <2>2. Others
    BY <1>1, <1>2, <2>1, LoadTypes
  <2> QED BY <1>5, <2>2 DEF IpFails, TypeOK, learnt
<1>6. ASSUME NEW s \in SUBSET Device, MacsAnswered(s) PROVE TypeOK'
  <2>1. Settle("macs", MarkAnew(s), ubusError, Show({}))
    BY <1>2, <1>6 DEF MacsAnswered
  <2>2. MarkAnew(s) \in Kind \cup {"nothing"}
    BY DEF MarkAnew, Kind
  <2>3. Others
    BY <1>1, <1>2, <2>1, <2>2, LoadTypes
  <2> QED BY <1>3, <1>6, <2>3 DEF MacsAnswered, TypeOK
<1>7. CASE MacsFail
  <2>1. PICK e \in {ubusError, ubusError \/ Says("error")} :
           Settle("macs", "nothing", e, Show({}))
    BY <1>2, <1>7 DEF MacsFail
  <2>2. e \in BOOLEAN
    BY <1>2 DEF Says
  <2>3. Others
    BY <1>1, <1>2, <2>1, <2>2, LoadTypes
  <2> QED BY <1>7, <2>3 DEF MacsFail, TypeOK, learnt
<1>8. CASE ContentSettles
  <2>1. \/ Settle("content", "nothing", ubusError, Show({"content"}))
        \/ Settle("content", "nothing", TRUE, Show({}))
    BY <1>2, <1>8 DEF ContentSettles, UbusFetch
  <2>2. Others
    BY <1>1, <1>2, <2>1, LoadTypes
  <2> QED BY <1>8, <2>2 DEF ContentSettles, TypeOK, learnt
<1> QED BY <1>4, <1>5, <1>6, <1>7, <1>8, ClientsTypes DEF LoadSettles

\* Every variable of the page keeps its type; the device selected and those
\* marked are in the list, and the loader is shown only where it is.
THEOREM TypeCorrect == Spec => []TypeOK
<1>1. Init => TypeOK
  <2> SUFFICES ASSUME Init PROVE TypeOK
    OBVIOUS
  <2>1. FirstCalls \in [Kind -> Nat]
    BY DEF FirstCalls
  <2>2. shown \in SUBSET Element /\ "loader" \notin shown
    BY DEF Init, Elements, Element
  <2>3. NoStations \in Stations /\ NoStations.marked \subseteq NoStations.options
        /\ NoStations.value \in NoStations.options \cup {Nobody}
    BY DEF NoStations, Stations
  <2> QED BY <2>1, <2>2, <2>3 DEF Init, TypeOK
<1>2. TypeOK /\ [Next]_vars => TypeOK'
  <2> SUFFICES ASSUME TypeOK, [Next]_vars PROVE TypeOK'
    OBVIOUS
  <2>1. CASE UNCHANGED vars
    BY <2>1 DEF TypeOK, vars, learnt
  <2> QED BY <2>1, UserTypes, AuthTypes, LoadingTypes DEF Next
<1> QED BY <1>1, <1>2, PTL DEF Spec

-----------------------------------------------------------------------------
\* A call that settles without asking for the clients keeps ListIsThere.
LEMMA SettleKeepsList ==
    ASSUME TypeOK, ListIsThere, NEW done \in Kind,
           NEW next \in Kind \cup {"nothing"}, NEW e, NEW s,
           Settle(done, next, e, s),
           next \notin {"clients", "relist"}, ubusError => e,
           stations'.there = stations.there, userMac' = userMac
    PROVE  ListIsThere'
<1>1. "clients" \in Kind /\ "relist" \in Kind
  BY DEF Kind
<1>2. calls \in [Kind -> Nat]
  BY DEF TypeOK
<1>3. /\ calls' \in [Kind -> Nat]
      /\ calls'["clients"] <= calls["clients"]
      /\ calls'["relist"] <= calls["relist"]
  BY <1>1, <1>2, SettleCounts
<1>4. calls'["clients"] + calls'["relist"] > 0
        => calls["clients"] + calls["relist"] > 0
  BY <1>1, <1>2, <1>3
<1>5. ubusError' = e
  BY DEF Settle
<1> QED BY <1>4, <1>5 DEF ListIsThere

\* The user takes nothing away from the page but all of it.
LEMMA UserKeepsList == TypeOK /\ ListIsThere /\ User => ListIsThere'
<1> SUFFICES ASSUME TypeOK, ListIsThere, User PROVE ListIsThere'
  OBVIOUS
<1>1. "clients" \in Kind /\ "relist" \in Kind /\ "ip" \in Kind /\ "auth" \in Kind
  BY DEF Kind
<1>2. ASSUME ToggleList \/ (\E d \in Device : AuthVoucher(d))
      PROVE  ListIsThere'
  <2>1. PICK next \in {"ip", "auth"} : calls' = Begins(next)
    BY <1>2 DEF ToggleList, AuthVoucher
  <2>2. calls'["clients"] = calls["clients"] /\ calls'["relist"] = calls["relist"]
    BY <1>1, <2>1, BeginCounts DEF TypeOK
  <2> QED BY <1>2, <2>2 DEF ToggleList, AuthVoucher, ListIsThere, learnt
<1>3. CASE Submit
  <2>1. FirstCalls["clients"] = 0 /\ FirstCalls["relist"] = 0
    BY <1>1 DEF FirstCalls
  <2> QED BY <1>3, <2>1 DEF Submit, ListIsThere
<1>4. CASE ContinueInVain
  BY <1>4 DEF ContinueInVain, ListIsThere, learnt
<1>5. ASSUME NEW d \in Device, Choose(d) PROVE ListIsThere'
  <2>1. stations'.there = stations.there
    BY <1>5 DEF Choose, TypeOK, Stations
  <2> QED BY <1>5, <2>1 DEF Choose, ListIsThere
<1> QED BY <1>2, <1>3, <1>4, <1>5 DEF User

\* Answers to vouchers leave the list alone.
LEMMA AuthKeepsList == TypeOK /\ ListIsThere /\ AuthSettles => ListIsThere'
<1> SUFFICES ASSUME TypeOK, ListIsThere, AuthSettles PROVE ListIsThere'
  OBVIOUS
<1>1. /\ "auth" \in Kind /\ "ip" \in Kind \cup {"nothing"}
      /\ "nothing" \in Kind \cup {"nothing"}
      /\ "ip" \notin {"clients", "relist"} /\ "nothing" \notin {"clients", "relist"}
  BY DEF Kind
<1>2. stations' = stations /\ userMac' = userMac
  BY DEF AuthSettles, AuthSucceeds, AuthFails, learnt
<1>3. \E next \in {"ip", "nothing"}, e \in {ubusError, TRUE} :
         \E s \in {(Answered \ {"error"}) \cup {"result"}, Answered \cup {"error"},
                   Answered, shown \cup {"error"}} :
            Settle("auth", next, e, s)
  BY DEF AuthSettles, AuthSucceeds, AuthFails, AuthCatch
<1> QED BY <1>1, <1>2, <1>3, SettleKeepsList

\* getValidClients asks for the clients after it made the list.
LEMMA LoadingKeepsList == TypeOK /\ ListIsThere /\ LoadSettles => ListIsThere'
<1> SUFFICES ASSUME TypeOK, ListIsThere, LoadSettles PROVE ListIsThere'
  OBVIOUS
<1>1. /\ {"ip", "clients", "relist", "macs", "content"} \subseteq Kind
      /\ {"macs", "nothing"} \subseteq Kind \cup {"nothing"}
      /\ "macs" \notin {"clients", "relist"} /\ "nothing" \notin {"clients", "relist"}
  BY DEF Kind
<1>2. ubusError \/ WithList.there
  BY DEF WithList, TypeOK, Stations
<1>3. ASSUME NEW k \in {"clients", "relist"}, ClientsSettle(k)
      PROVE  ListIsThere'
  <2>1. After(k) \in {"macs", "nothing"}
    BY DEF After
  <2>2. CASE \E s \in SUBSET Device : ClientsListed(k, s)
    <3>1. PICK s \in SUBSET Device : ClientsListed(k, s)
      BY <2>2
    <3>2. \E v \in s \cup {Nobody} : stations' = Filled(s, v)
      BY <3>1 DEF ClientsListed, Found
    <3>3. stations'.there
      BY <3>2, FilledTypes
    <3> QED BY <3>3 DEF ListIsThere
  <2>3. CASE ClientsBare(k)
    <3>1. stations'.there
      BY <2>3, FilledTypes DEF ClientsBare
    <3> QED BY <3>1 DEF ListIsThere
  <2>4. CASE ClientsFail(k)
    <3>1. \E next \in {"macs", "nothing"}, e \in {ubusError, TRUE},
             s \in {shown, Show({"error"})} : Settle(k, next, e, s)
      BY <2>1, <2>4 DEF ClientsFail, ClientsCatch
    <3>2. stations' = stations /\ userMac' = userMac
      BY <2>4 DEF ClientsFail, learnt
    <3> QED BY <1>1, <3>1, <3>2, SettleKeepsList
  <2> QED BY <1>3, <2>2, <2>3, <2>4 DEF ClientsSettle
<1>4. CASE IpAnswered
  BY <1>2, <1>4 DEF IpAnswered, Settle, ListIsThere
<1>5. CASE IpFails
  BY <1>5 DEF IpFails, Settle, ListIsThere
<1>6. ASSUME NEW s \in SUBSET Device, MacsAnswered(s) PROVE ListIsThere'
  <2>1. CASE s = {}
    <3>1. Settle("macs", "nothing", ubusError, shown)
          /\ stations' = stations /\ userMac' = userMac
      BY <1>6, <2>1 DEF MacsAnswered, MarkAnew
    <3> QED BY <1>1, <3>1, SettleKeepsList
  <2>2. CASE s # {}
    BY <1>2, <1>6, <2>2 DEF MacsAnswered, Settle, ListIsThere
  <2> QED BY <2>1, <2>2
<1>7. CASE MacsFail
  <2>1. PICK e \in {ubusError, ubusError \/ Says("error")} :
           Settle("macs", "nothing", e, shown)
    BY <1>7 DEF MacsFail
  <2>2. ubusError => e
    BY <2>1
  <2> QED BY <1>1, <1>7, <2>1, <2>2, SettleKeepsList DEF MacsFail, learnt
<1>8. CASE ContentSettles
  <2>1. \E e \in {ubusError, TRUE}, s \in {shown, Show({"content"})} :
           Settle("content", "nothing", e, s)
    BY <1>8 DEF ContentSettles, UbusFetch
  <2> QED BY <1>1, <1>8, <2>1, SettleKeepsList DEF ContentSettles, UbusFetch, learnt
<1> QED BY <1>3, <1>4, <1>5, <1>6, <1>7, <1>8 DEF LoadSettles

\* While no error is noted, the list of devices is there before an answer fills
\* it and before a click on Continue reads it, in whatever order calls end.
THEOREM ListAlwaysThere == Spec => []ListIsThere
<1>1. Init => ListIsThere
  <2>1. FirstCalls["clients"] = 0 /\ FirstCalls["relist"] = 0
    BY DEF FirstCalls, Kind
  <2> QED BY <2>1 DEF Init, ListIsThere
<1>2. TypeOK /\ ListIsThere /\ [Next]_vars => ListIsThere'
  <2> SUFFICES ASSUME TypeOK, ListIsThere, [Next]_vars PROVE ListIsThere'
    OBVIOUS
  <2>1. CASE UNCHANGED vars
    BY <2>1 DEF ListIsThere, vars, learnt
  <2> QED BY <2>1, UserKeepsList, AuthKeepsList, LoadingKeepsList DEF Next
<1> QED BY <1>1, <1>2, TypeCorrect, PTL DEF Spec

-----------------------------------------------------------------------------
\* What the page has marked stays current while the list and the MACs that may
\* pass stay the same and the list asked for anew has not come.
LEMMA SameMarks ==
    ASSUME MarksAreCurrent,
           stations'.marked = stations.marked, stations'.options = stations.options,
           validMacs' = validMacs, missed' = missed, ubusError => ubusError',
           calls'["relist"] = 0 => calls["relist"] = 0
    PROVE  MarksAreCurrent'
BY DEF MarksAreCurrent

\* A call other than the second request for the list settles.
LEMMA SettleKeepsMarks ==
    ASSUME TypeOK, NEW done \in Kind, NEW next \in Kind \cup {"nothing"},
           NEW e, NEW s, Settle(done, next, e, s), done # "relist",
           ubusError => e
    PROVE  /\ ubusError => ubusError'
           /\ calls'["relist"] = 0 => calls["relist"] = 0
<1>1. calls \in [Kind -> Nat] /\ "relist" \in Kind
  BY DEF TypeOK, Kind
<1>2. calls'["relist"] >= calls["relist"] /\ calls'["relist"] \in Nat
  BY <1>1, SettleCounts
<1> QED BY <1>1, <1>2 DEF Settle

\* Neither the user nor vouchers mark anything.
LEMMA UserKeepsMarks ==
    TypeOK /\ MarksAreCurrent /\ (User \/ AuthSettles) => MarksAreCurrent'
<1> SUFFICES ASSUME TypeOK, MarksAreCurrent, User \/ AuthSettles
             PROVE  MarksAreCurrent'
  OBVIOUS
<1>1. "relist" \in Kind /\ "ip" \in Kind /\ "auth" \in Kind
  BY DEF Kind
<1>2. ASSUME ToggleList \/ (\E d \in Device : AuthVoucher(d))
      PROVE  MarksAreCurrent'
  <2>1. PICK next \in {"ip", "auth"} : calls' = Begins(next)
    BY <1>2 DEF ToggleList, AuthVoucher
  <2>2. calls'["relist"] = calls["relist"]
    BY <1>1, <2>1, BeginCounts DEF TypeOK
  <2> QED BY <1>2, <2>2, SameMarks DEF ToggleList, AuthVoucher, learnt
<1>3. CASE Submit
  BY <1>3 DEF Submit, MarksAreCurrent
<1>4. CASE ContinueInVain
  BY <1>4, SameMarks DEF ContinueInVain, learnt
<1>5. ASSUME NEW d \in Device, Choose(d) PROVE MarksAreCurrent'
  <2>1. stations'.marked = stations.marked /\ stations'.options = stations.options
    BY <1>5 DEF Choose, TypeOK, Stations
  <2> QED BY <1>5, <2>1, SameMarks DEF Choose
<1>6. CASE AuthSettles
  <2>1. \E next \in Kind \cup {"nothing"}, e \in {ubusError, TRUE} :
           \E s \in {(Answered \ {"error"}) \cup {"result"},
                     Answered \cup {"error"}, Answered, shown \cup {"error"}} :
              Settle("auth", next, e, s)
    BY <1>1, <1>6 DEF AuthSettles, AuthSucceeds, AuthFails, AuthCatch
  <2>2. (ubusError => ubusError') /\ (calls'["relist"] = 0 => calls["relist"] = 0)
    BY <1>1, <2>1, SettleKeepsMarks
  <2> QED BY <1>6, <2>2, SameMarks DEF AuthSettles, AuthSucceeds, AuthFails, learnt
<1> QED BY <1>2, <1>3, <1>4, <1>5, <1>6 DEF User

\* The list is filled with current marks, and asked for when these change.
LEMMA LoadingKeepsMarks ==
    TypeOK /\ MarksAreCurrent /\ LoadSettles => MarksAreCurrent'
<1> SUFFICES ASSUME TypeOK, MarksAreCurrent, LoadSettles PROVE MarksAreCurrent'
  OBVIOUS
<1>1. /\ {"ip", "clients", "relist", "macs", "content"} \subseteq Kind
      /\ {"clients", "macs", "relist", "nothing"} \subseteq Kind \cup {"nothing"}
  BY DEF Kind
<1>2. /\ WithList.marked = stations.marked
      /\ WithList.options = stations.options
  BY DEF WithList, TypeOK, Stations
<1>3. ASSUME NEW k \in {"clients", "relist"}, ClientsSettle(k)
      PROVE  MarksAreCurrent'
  <2>1. ASSUME NEW s \in SUBSET Device, NEW v \in s \cup {Nobody},
               stations' = Filled(s, v), validMacs' = validMacs
        PROVE  MarksAreCurrent'
    BY <2>1, FilledTypes DEF MarksAreCurrent
  <2>2. ASSUME NEW s \in SUBSET Device, ClientsListed(k, s) PROVE MarksAreCurrent'
    BY <2>1, <2>2 DEF ClientsListed, Found
  <2>3. CASE ClientsBare(k)
    BY <2>1, <2>3 DEF ClientsBare
  <2>4. CASE ClientsFail(k)
    BY <2>4 DEF ClientsFail, MarksAreCurrent
  <2> QED BY <1>3, <2>2, <2>3, <2>4 DEF ClientsSettle
<1>4. CASE IpAnswered \/ IpFails
  <2>1. \E e \in {ubusError, TRUE} : Settle("ip", "clients", e, shown)
    BY <1>4 DEF IpAnswered, IpFails
  <2>2. (ubusError => ubusError') /\ (calls'["relist"] = 0 => calls["relist"] = 0)
    BY <1>1, <2>1, SettleKeepsMarks
  <2> QED BY <1>2, <1>4, <2>2, SameMarks DEF IpAnswered, IpFails, learnt
<1>5. ASSUME NEW s \in SUBSET Device, MacsAnswered(s) PROVE MarksAreCurrent'
  <2>1. CASE s = {}
    BY <1>5, <2>1 DEF MacsAnswered, MarksAreCurrent
  <2>2. CASE s # {}
    <3>1. Settle("macs", "relist", ubusError, shown)
      BY <1>5, <2>2 DEF MacsAnswered, MarkAnew
    <3>2. calls'["relist"] > 0
      BY <1>1, <3>1, SettleCounts DEF TypeOK
    <3> QED BY <3>2 DEF MarksAreCurrent
  <2> QED BY <2>1, <2>2
<1>6. CASE MacsFail
  <2>1. PICK e \in {ubusError, ubusError \/ Says("error")} :
           Settle("macs", "nothing", e, shown)
    BY <1>6 DEF MacsFail
  <2>2. (ubusError => ubusError') /\ (calls'["relist"] = 0 => calls["relist"] = 0)
    BY <1>1, <2>1, SettleKeepsMarks
  <2> QED BY <1>6, <2>2, SameMarks DEF MacsFail, learnt
<1>7. CASE ContentSettles
  <2>1. \E e \in {ubusError, TRUE}, s \in {shown, Show({"content"})} :
           Settle("content", "nothing", e, s)
    BY <1>7 DEF ContentSettles, UbusFetch
  <2>2. (ubusError => ubusError') /\ (calls'["relist"] = 0 => calls["relist"] = 0)
    BY <1>1, <2>1, SettleKeepsMarks
  <2> QED BY <1>7, <2>2, SameMarks DEF ContentSettles, UbusFetch, learnt
<1> QED BY <1>3, <1>4, <1>5, <1>6, <1>7 DEF LoadSettles

\* The devices marked are those that may pass as far as the page knows, or the
\* list is on its way again, however the loads overlap.
THEOREM MarksStayCurrent == Spec => []MarksAreCurrent
<1>1. Init => MarksAreCurrent
  BY DEF Init, MarksAreCurrent
<1>2. TypeOK /\ MarksAreCurrent /\ [Next]_vars => MarksAreCurrent'
  <2> SUFFICES ASSUME TypeOK, MarksAreCurrent, [Next]_vars PROVE MarksAreCurrent'
    OBVIOUS
  <2>1. CASE UNCHANGED vars
    BY <2>1 DEF MarksAreCurrent, vars, learnt
  <2> QED BY <2>1, UserKeepsMarks, LoadingKeepsMarks DEF Next
<1> QED BY <1>1, <1>2, TypeCorrect, PTL DEF Spec

-----------------------------------------------------------------------------
\* A call settles that is none of get_clients of a load: at least as many answers
\* to that are awaited as before.
LEMMA SettleAwaitsClients ==
    ASSUME TypeOK, NEW done \in Kind, NEW next \in Kind \cup {"nothing"},
           NEW e, NEW s, Settle(done, next, e, s), done # "clients", ubusError => e
    PROVE  /\ ubusError => ubusError'
           /\ calls'["clients"] = 0 => calls["clients"] = 0
<1>1. calls \in [Kind -> Nat] /\ "clients" \in Kind
  BY DEF TypeOK, Kind
<1>2. calls'["clients"] >= calls["clients"] /\ calls'["clients"] \in Nat
  BY <1>1, SettleCounts
<1> QED BY <1>1, <1>2 DEF Settle

\* What the page takes for its own device changes with what it has learnt only.
LEMMA SameDevice ==
    ASSUME OwnUnlessChosen,
           userIp' = userIp, userMac' = userMac, missed' = missed, chosen' = chosen,
           stations'.options = stations.options, stations'.value = stations.value,
           ubusError => ubusError', calls'["clients"] = 0 => calls["clients"] = 0
    PROVE  OwnUnlessChosen'
BY DEF OwnUnlessChosen, Target

\* The user takes another device by choosing it.
LEMMA UserKeepsDevice ==
    TypeOK /\ OwnUnlessChosen /\ (User \/ AuthSettles) => OwnUnlessChosen'
<1> SUFFICES ASSUME TypeOK, OwnUnlessChosen, User \/ AuthSettles
             PROVE  OwnUnlessChosen'
  OBVIOUS
<1>1. "clients" \in Kind /\ "ip" \in Kind /\ "auth" \in Kind
  BY DEF Kind
<1>2. ASSUME ToggleList \/ (\E d \in Device : AuthVoucher(d))
      PROVE  OwnUnlessChosen'
  <2>1. PICK next \in {"ip", "auth"} : calls' = Begins(next)
    BY <1>2 DEF ToggleList, AuthVoucher
  <2>2. calls'["clients"] = calls["clients"]
    BY <1>1, <2>1, BeginCounts DEF TypeOK
  <2> QED BY <1>2, <2>2, SameDevice DEF ToggleList, AuthVoucher, learnt
<1>3. CASE Submit
  BY <1>3 DEF Submit, OwnUnlessChosen
<1>4. CASE ContinueInVain
  BY <1>4, SameDevice DEF ContinueInVain, learnt
<1>5. ASSUME NEW d \in Device, Choose(d) PROVE OwnUnlessChosen'
  <2>1. stations'.options = stations.options /\ stations'.value = d
    BY <1>5 DEF Choose, TypeOK, Stations
  <2>2. Target' = own \/ chosen'
    BY <1>5, <2>1, DeviceAssumption DEF Choose, Target
  <2>3. UNCHANGED <<ubusError, missed, userIp, userMac, calls>>
    BY <1>5 DEF Choose
  <2> QED BY <2>1, <2>2, <2>3 DEF OwnUnlessChosen
<1>6. CASE AuthSettles
  <2>1. \E next \in Kind \cup {"nothing"}, e \in {ubusError, TRUE} :
           \E s \in {(Answered \ {"error"}) \cup {"result"},
                     Answered \cup {"error"}, Answered, shown \cup {"error"}} :
              Settle("auth", next, e, s)
    BY <1>1, <1>6 DEF AuthSettles, AuthSucceeds, AuthFails, AuthCatch
  <2>2. (ubusError => ubusError') /\ (calls'["clients"] = 0 => calls["clients"] = 0)
    BY <1>1, <2>1, SettleAwaitsClients
  <2> QED BY <1>6, <2>2, SameDevice DEF AuthSettles, AuthSucceeds, AuthFails, learnt
<1> QED BY <1>2, <1>3, <1>4, <1>5, <1>6 DEF User

\* Whatever client_ip says of the MAC, get_clients is asked then, and its answer
\* puts it right.
LEMMA LoadingKeepsDevice ==
    TypeOK /\ OwnUnlessChosen /\ LoadSettles => OwnUnlessChosen'
<1> SUFFICES ASSUME TypeOK, OwnUnlessChosen, LoadSettles PROVE OwnUnlessChosen'
  OBVIOUS
<1>1. /\ {"ip", "clients", "relist", "macs", "content"} \subseteq Kind
      /\ {"clients", "macs", "relist", "nothing"} \subseteq Kind \cup {"nothing"}
  BY DEF Kind
<1>2. /\ WithList.options = stations.options
      /\ WithList.value = stations.value
  BY DEF WithList, TypeOK, Stations
<1>3. ASSUME NEW k \in {"clients", "relist"}, ClientsSettle(k)
      PROVE  OwnUnlessChosen'
  <2>1. ASSUME NEW s \in SUBSET Device, ClientsListed(k, s) PROVE OwnUnlessChosen'
    <3>1. CASE Found(s)
      <4>1. stations' = Filled(s, own) /\ userMac' = own
        BY <2>1, <3>1 DEF ClientsListed
      <4>2. own # Nobody /\ stations'.value = own
        BY <4>1, DeviceAssumption DEF Filled
      <4> QED BY <4>1, <4>2 DEF OwnUnlessChosen, Target
    <3>2. CASE ~ Found(s)
      <4>1. PICK first : stations' = Filled(s, first)
        BY <2>1, <3>2 DEF ClientsListed
      <4>2. userIp' = userIp /\ stations'.options = s
        BY <2>1, <4>1 DEF ClientsListed, Filled
      <4> QED BY <3>2, <4>2 DEF Found, OwnUnlessChosen
    <3> QED BY <3>1, <3>2
  <2>2. CASE ClientsBare(k)
    BY <2>2 DEF ClientsBare, Filled, OwnUnlessChosen
  <2>3. CASE ClientsFail(k)
    BY <2>3 DEF ClientsFail, OwnUnlessChosen
  <2> QED BY <1>3, <2>1, <2>2, <2>3 DEF ClientsSettle
<1>4. CASE IpAnswered
  <2>1. calls'["clients"] > 0
    BY <1>1, <1>4, SettleCounts DEF IpAnswered, TypeOK
  <2> QED BY <2>1 DEF OwnUnlessChosen
<1>5. CASE IpFails
  BY <1>5 DEF IpFails, Settle, OwnUnlessChosen
<1>6. ASSUME NEW s \in SUBSET Device, MacsAnswered(s) PROVE OwnUnlessChosen'
  <2>1. \E next \in {"relist", "nothing"} : Settle("macs", next, ubusError, shown)
    BY <1>6 DEF MacsAnswered, MarkAnew
  <2>2. (ubusError => ubusError') /\ (calls'["clients"] = 0 => calls["clients"] = 0)
    BY <1>1, <2>1, SettleAwaitsClients
  <2> QED BY <1>2, <1>6, <2>2, SameDevice DEF MacsAnswered
<1>7. CASE MacsFail
  <2>1. PICK e \in {ubusError, ubusError \/ Says("error")} :
           Settle("macs", "nothing", e, shown)
    BY <1>7 DEF MacsFail
  <2>2. (ubusError => ubusError') /\ (calls'["clients"] = 0 => calls["clients"] = 0)
    BY <1>1, <2>1, SettleAwaitsClients
  <2> QED BY <1>7, <2>2, SameDevice DEF MacsFail, learnt
<1>8. CASE ContentSettles
  <2>1. \E e \in {ubusError, TRUE}, s \in {shown, Show({"content"})} :
           Settle("content", "nothing", e, s)
    BY <1>8 DEF ContentSettles, UbusFetch
  <2>2. (ubusError => ubusError') /\ (calls'["clients"] = 0 => calls["clients"] = 0)
    BY <1>1, <2>1, SettleAwaitsClients
  <2> QED BY <1>8, <2>2, SameDevice DEF ContentSettles, UbusFetch, learnt
<1> QED BY <1>3, <1>4, <1>5, <1>6, <1>7, <1>8 DEF LoadSettles

\* A voucher is for the user's own device, whatever MAC client_ip gave and however
\* the answers of loads overlap, once get_clients has listed that device, unless
\* the user chose another one since.
THEOREM OwnDeviceIsUsed == Spec => []OwnUnlessChosen
<1>1. Init => OwnUnlessChosen
  BY DEF Init, OwnUnlessChosen
<1>2. TypeOK /\ OwnUnlessChosen /\ [Next]_vars => OwnUnlessChosen'
  <2> SUFFICES ASSUME TypeOK, OwnUnlessChosen, [Next]_vars PROVE OwnUnlessChosen'
    OBVIOUS
  <2>1. CASE UNCHANGED vars
    BY <2>1 DEF OwnUnlessChosen, Target, vars, learnt
  <2> QED BY <2>1, UserKeepsDevice, LoadingKeepsDevice DEF Next
<1> QED BY <1>1, <1>2, TypeCorrect, PTL DEF Spec
===============================================================================
