--------------------------- MODULE UpgradingProofs ---------------------------
(***************************************************************************)
(* Proofs about Upgrading, for any number of processes, releases, names    *)
(* and urls.                                                               *)
(***************************************************************************)
EXTENDS Upgrading, TLAPS

USE UrlsAssumption, FileAssumption, ReleaseAssumption

\* The processes, what they know, and where they need a release to be known.
ProcTypes ==
    /\ pc \in [Proc -> Place]
    /\ wants \in [Proc -> BOOLEAN]
    /\ news \in [Proc -> Release \cup {None}]
    /\ left \in [Proc -> 0 .. Urls]
    /\ held \in [Proc -> UpgradeStatus]
    /\ \A p \in Proc :
          pc[p] \in {"verify", "sign", "news", "testing"} \cup Downloading
            => news[p] \in Release

\* A process that ends leaves everything well typed.
LEMMA ExitTypes ==
    ASSUME ProcTypes, NEW p \in Proc, Exit(p)
    PROVE  ProcTypes'
<1>1. /\ pc' \in [Proc -> Place] /\ wants' \in [Proc -> BOOLEAN]
      /\ news' \in [Proc -> Release \cup {None}] /\ left' \in [Proc -> 0 .. Urls]
      /\ held' \in [Proc -> UpgradeStatus]
  BY DEF ProcTypes, Exit, Goto, Place, UpgradeStatus
<1>2. ASSUME NEW q \in Proc,
             pc'[q] \in {"verify", "sign", "news", "testing"} \cup Downloading
      PROVE  news'[q] \in Release
  <2>1. q # p
    BY <1>2 DEF ProcTypes, Exit, Goto, Downloading
  <2> QED BY <1>2, <2>1 DEF ProcTypes, Exit, Goto
<1> QED BY <1>1, <1>2 DEF ProcTypes

\* So does one that goes on with what it knows.
LEMMA GotoTypes ==
    ASSUME ProcTypes, NEW p \in Proc, NEW l \in Place, Goto(p, l), UNCHANGED mine,
           l \in {"verify", "sign", "news", "testing"} \cup Downloading
             => news[p] \in Release
    PROVE  ProcTypes'
BY DEF ProcTypes, Goto, mine

\* And one that goes on with a release.
LEMMA LearnTypes ==
    ASSUME ProcTypes, NEW p \in Proc, NEW l \in Place, NEW r \in Release,
           Goto(p, l), news' = [news EXCEPT ![p] = r],
           wants' = wants, left' = left, held' = held
    PROVE  ProcTypes'
BY DEF ProcTypes, Goto

\* The steps of is_new_version_available keep the types.
LEMMA NewsTypes == ASSUME TypeOK, NEW p \in Proc, News(p) PROVE TypeOK'
<1>1. ProcTypes
  BY DEF TypeOK, ProcTypes
<1>2. ASSUME NEW w \in BOOLEAN, LookForNews(p, w) PROVE TypeOK'
  <2>1. pc' \in [Proc -> Place] /\ wants' \in [Proc -> BOOLEAN]
    BY <1>2 DEF LookForNews, Goto, TypeOK, Place
  <2>2. \A q \in Proc : pc'[q] # pc[q] => pc'[q] \in {"read", "ask"}
    BY <1>2 DEF LookForNews, Goto, TypeOK
  <2> QED BY <1>2, <2>1, <2>2 DEF LookForNews, TypeOK, Downloading, offer
<1>3. ASSUME NEW r \in Release, Learn(p, r) PROVE ProcTypes'
  <2>1. CASE wants[p]
    BY <1>1, <1>3, <2>1, LearnTypes DEF Learn, Place
  <2> QED BY <1>1, <1>3, <2>1, ExitTypes DEF Learn
<1>4. CASE ReadNews(p)
  <2>1. ProcTypes'
    BY <1>1, <1>3, <1>4, ExitTypes DEF ReadNews, TypeOK
  <2> QED BY <1>4, <2>1 DEF ReadNews, TypeOK, ProcTypes, offer
<1>5. ASSUME NEW r \in Release, Ask(p, r) PROVE TypeOK'
  <2>1. ProcTypes'
    BY <1>1, <1>5, LearnTypes DEF Ask, Place
  <2> QED BY <1>5, <2>1 DEF Ask, TypeOK, ProcTypes
<1>6. CASE Sign(p)
  <2>1. ProcTypes'
    BY <1>1, <1>6, GotoTypes DEF Sign, Place, TypeOK
  <2> QED BY <1>6, <2>1 DEF Sign, TypeOK, ProcTypes
<1>7. CASE Verify(p)
  <2>1. ProcTypes'
    BY <1>3, <1>7 DEF Verify, TypeOK
  <2> QED BY <1>7, <2>1 DEF Verify, TypeOK, ProcTypes, offer
<1>8. CASE Discard(p)
  <2>1. ProcTypes'
    BY <1>1, <1>8, ExitTypes DEF Discard
  <2> QED BY <1>8, <2>1 DEF Discard, TypeOK, ProcTypes
<1> QED BY <1>2, <1>4, <1>5, <1>6, <1>7, <1>8 DEF News

\* So do those of download_firmware.
LEMMA DownloadTypes ==
    ASSUME TypeOK, NEW p \in Proc, Decide(p) \/ DownloadGoesOn(p)
    PROVE  TypeOK'
<1>1. ProcTypes
  BY DEF TypeOK, ProcTypes
<1>2. Downloading \subseteq Place
  BY DEF Place
<1>3. pc[p] \in {"news"} \cup Downloading => news[p] \in Release /\ Image(p) \in File
  BY DEF TypeOK, Image
<1>4. ASSUME NEW c \in Content, Hold(p, c), pc[p] \in Downloading
      PROVE  images' \in [File -> Content]
  BY <1>3, <1>4 DEF Hold, TypeOK
<1>5. CASE Decide(p)
  <2>1. ProcTypes'
    BY <1>1, <1>2, <1>3, <1>5, ExitTypes, GotoTypes DEF Decide, Downloading
  <2> QED BY <1>5, <2>1 DEF Decide, TypeOK, ProcTypes, offer
<1>6. CASE Begin(p)
  <2>1. /\ pc' \in [Proc -> Place] /\ left' \in [Proc -> 0 .. Urls]
        /\ \A q \in Proc :
              pc'[q] \in {"verify", "sign", "news", "testing"} \cup Downloading
                => news'[q] \in Release
    BY <1>2, <1>3, <1>6 DEF Begin, Goto, TypeOK, Downloading
  <2> QED BY <1>6, <2>1 DEF Begin, TypeOK, DownloadStatus, offer
<1>7. CASE Fetch(p)
  <2>1. images' \in [File -> Content]
    BY <1>4, <1>7 DEF Fetch, Content, Downloading, TypeOK
  <2>2. /\ pc' \in [Proc -> Place] /\ left' \in [Proc -> 0 .. Urls]
        /\ \A q \in Proc :
              pc'[q] \in {"verify", "sign", "news", "testing"} \cup Downloading
                => news'[q] \in Release
    BY <1>2, <1>3, <1>7 DEF Fetch, Goto, TypeOK, Downloading
  <2> QED BY <1>7, <2>1, <2>2 DEF Fetch, TypeOK, offer
<1>8. CASE Fetched(p)
  <2>1. images' \in [File -> Content]
    BY <1>4, <1>8 DEF Fetched, Downloading, TypeOK
  <2>2. ProcTypes'
    BY <1>1, <1>2, <1>3, <1>8, GotoTypes DEF Fetched, Downloading
  <2> QED BY <1>8, <2>1, <2>2 DEF Fetched, TypeOK, ProcTypes, offer
<1>9. CASE Sum(p)
  <2>1. images' \in [File -> Content]
    BY <1>4, <1>9 DEF Sum, Downloading, Content, TypeOK
  <2>2. ProcTypes'
    BY <1>1, <1>2, <1>3, <1>9, GotoTypes DEF Sum, Downloading
  <2> QED BY <1>9, <2>1, <2>2 DEF Sum, TypeOK, ProcTypes, offer
<1>10. CASE Record(p) \/ GiveUp(p)
  <2>1. ProcTypes'
    BY <1>1, <1>10, ExitTypes DEF Record, GiveUp
  <2> QED BY <1>10, <2>1 DEF Record, GiveUp, TypeOK, ProcTypes, DownloadStatus, offer
<1> QED BY <1>5, <1>6, <1>7, <1>8, <1>9, <1>10 DEF DownloadGoesOn

\* And those of firmware_upgrade and get_upgrade_info, and the death of a process.
LEMMA UpgradeTypes ==
    ASSUME TypeOK, NEW p \in Proc, Upgrade(p) \/ Die(p)
    PROVE  TypeOK'
<1>1. ProcTypes
  BY DEF TypeOK, ProcTypes
<1>2. /\ {"testing", "unpacked", "tested", "sysupgrade", "installing", "alone", "over",
           "info"} \subseteq Place
      /\ {"tested", "sysupgrade", "installing", "alone", "over", "info"} \cap
           ({"verify", "sign", "news", "testing"} \cup Downloading) = {}
  BY DEF Place, Deciding, Running, Downloading
<1>3. ASSUME NEW r \in Release, Request(p, r) PROVE TypeOK'
  <2>1. PICK l \in {"testing", "unpacked"} : pc' = [pc EXCEPT ![p] = l]
    BY <1>3 DEF Request
  <2>2. ProcTypes'
    BY <1>1, <1>2, <1>3, <2>1, LearnTypes DEF Request, Goto
  <2> QED BY <1>3, <2>2 DEF Request, TypeOK, ProcTypes, offer
<1>4. CASE Test(p) \/ Refuse(p)
  <2>1. ProcTypes'
    BY <1>1, <1>2, <1>4, ExitTypes, GotoTypes DEF Test, Refuse
  <2> QED BY <1>4, <2>1 DEF Test, Refuse, TypeOK, ProcTypes, offer
<1>5. CASE StartSysupgrade(p) \/ StartInstaller(p)
  <2>1. ProcTypes'
    BY <1>1, <1>2, <1>5, GotoTypes DEF StartSysupgrade, StartInstaller
  <2>2. installer' \in BOOLEAN
    BY <1>5 DEF StartSysupgrade, StartInstaller, TypeOK
  <2> QED BY <1>5, <2>1, <2>2 DEF StartSysupgrade, StartInstaller, TypeOK, ProcTypes,
          UpgradeStatus, offer
<1>6. CASE CollectStatus(p)
  <2>1. ProcTypes'
    BY <1>1, <1>2, <1>6, ExitTypes, GotoTypes DEF CollectStatus
  <2> QED BY <1>6, <2>1 DEF CollectStatus, TypeOK, ProcTypes, UpgradeStatus, offer
<1>7. CASE SysupgradeFails(p) \/ InstallerFails(p)
  <2>1. ProcTypes'
    BY <1>1, <1>2, <1>7, ExitTypes, GotoTypes DEF SysupgradeFails, InstallerFails
  <2> QED BY <1>7, <2>1 DEF SysupgradeFails, InstallerFails, TypeOK, ProcTypes, offer
<1>8. CASE ReadInfo(p)
  <2>1. /\ pc' \in [Proc -> Place] /\ held' \in [Proc -> UpgradeStatus]
        /\ \A q \in Proc :
              pc'[q] \in {"verify", "sign", "news", "testing"} \cup Downloading
                => pc[q] = pc'[q]
    BY <1>2, <1>8 DEF ReadInfo, Goto, TypeOK
  <2> QED BY <1>8, <2>1 DEF ReadInfo, TypeOK, offer
<1>9. CASE WriteInfo(p)
  <2>1. ProcTypes'
    BY <1>1, <1>9, ExitTypes DEF WriteInfo
  <2> QED BY <1>9, <2>1 DEF WriteInfo, TypeOK, ProcTypes, offer
<1>10. CASE Die(p)
  <2>1. ProcTypes'
    BY <1>1, <1>2, <1>10, ExitTypes, GotoTypes DEF Die
  <2> QED BY <1>10, <2>1 DEF Die, TypeOK, ProcTypes, offer
<1> QED BY <1>3, <1>4, <1>5, <1>6, <1>7, <1>8, <1>9, <1>10 DEF Upgrade

\* Every file, status and process keeps its type; no url is tried that is not
\* there, and whoever downloads or verifies knows of which release.
THEOREM TypeCorrect == Spec => []TypeOK
<1>1. "idle" \in Place
      /\ "idle" \notin {"verify", "sign", "news", "testing"} \cup Downloading
  BY DEF Place, Downloading
<1>2. Init => TypeOK
  <2> SUFFICES ASSUME Init PROVE TypeOK
    OBVIOUS
  <2>1. /\ pc \in [Proc -> Place] /\ news \in [Proc -> Release \cup {None}]
        /\ left \in [Proc -> 0 .. Urls] /\ wants \in [Proc -> BOOLEAN]
        /\ \A p \in Proc : pc[p] = "idle"
    BY <1>1 DEF Init
  <2>2. /\ images \in [File -> Content] /\ held \in [Proc -> UpgradeStatus]
    BY DEF Init, Content, UpgradeStatus
  <2> QED BY <1>1, <2>1, <2>2 DEF Init, TypeOK, DownloadStatus, UpgradeStatus
<1>3. TypeOK /\ [Next]_vars => TypeOK'
  <2> SUFFICES ASSUME TypeOK, [Next]_vars PROVE TypeOK'
    OBVIOUS
  <2>1. CASE Reboot
    <3>1. /\ pc' \in [Proc -> Place] /\ news' \in [Proc -> Release \cup {None}]
          /\ left' \in [Proc -> 0 .. Urls] /\ wants' \in [Proc -> BOOLEAN]
          /\ \A p \in Proc : pc'[p] = "idle"
      BY <1>1, <2>1 DEF Reboot
    <3>2. /\ images' \in [File -> Content] /\ held' \in [Proc -> UpgradeStatus]
      BY <2>1 DEF Reboot, Content, UpgradeStatus
    <3> QED BY <1>1, <2>1, <3>1, <3>2 DEF Reboot, TypeOK, DownloadStatus, UpgradeStatus
  <2>2. CASE UNCHANGED vars
    BY <2>2 DEF TypeOK, vars, mine, offer
  <2> QED BY <2>1, <2>2, NewsTypes, DownloadTypes, UpgradeTypes DEF Next
<1> QED BY <1>2, <1>3, PTL DEF Spec

-----------------------------------------------------------------------------
(* A step is that of one process, and of the reboot of all. *)

Step(p) == News(p) \/ Decide(p) \/ DownloadGoesOn(p) \/ Upgrade(p) \/ Die(p)

\* What the other processes are about to do, and know, stays.
LEMMA OthersStay ==
    ASSUME TypeOK, NEW p \in Proc, Step(p), NEW q \in Proc, q # p
    PROVE  pc'[q] = pc[q] /\ news'[q] = news[q]
<1>1. /\ \A l : Goto(p, l) => pc'[q] = pc[q]
      /\ Exit(p) => pc'[q] = pc[q] /\ news'[q] = news[q]
      /\ \A r : Learn(p, r) => pc'[q] = pc[q] /\ news'[q] = news[q]
  BY DEF Goto, Exit, Learn, TypeOK
<1>2. CASE News(p)
  BY <1>1, <1>2 DEF News, LookForNews, ReadNews, Ask, Sign, Verify, Discard, mine, TypeOK
<1>3. CASE Decide(p) \/ DownloadGoesOn(p)
  BY <1>1, <1>3 DEF Decide, DownloadGoesOn, Begin, Fetch, Fetched, Sum, Record, GiveUp,
        mine
<1>4. ASSUME NEW r \in Release, Request(p, r)
      PROVE  pc'[q] = pc[q] /\ news'[q] = news[q]
  BY <1>4 DEF Request, TypeOK
<1>5. CASE Upgrade(p) \/ Die(p)
  BY <1>1, <1>4, <1>5 DEF Upgrade, Test, Refuse, StartSysupgrade, StartInstaller,
        CollectStatus, SysupgradeFails, InstallerFails, ReadInfo, WriteInfo, Die, mine
<1> QED BY <1>2, <1>3, <1>5 DEF Step

\* A step is that of a process, a reboot, or none.
LEMMA Steps ==
    ASSUME [Next]_vars
    PROVE  (\E p \in Proc : Step(p)) \/ Reboot \/ UNCHANGED vars
BY DEF Next, Step

-----------------------------------------------------------------------------
(* The latest release is genuine: who writes the files verifies them. *)

\* Whoever is neither at ask nor at sign or verify leaves the two files alone.
LEMMA OfferStays ==
    ASSUME TypeOK, NEW p \in Proc, Step(p), ~ died'
    PROVE  \/ latest' = None \/ Genuine' \/ pc'[p] \in {"sign", "verify"}
           \/ UNCHANGED offer /\ pc[p] \notin {"sign", "verify"}
<1>1. /\ \A l : Goto(p, l) => pc'[p] = l
      /\ \A l : pc[p] = l => l \in Place
  BY DEF Goto, TypeOK
<1>2. CASE News(p)
  BY <1>1, <1>2 DEF News, LookForNews, ReadNews, Ask, Sign, Verify, Discard, offer,
        Genuine
<1>3. CASE Decide(p) \/ DownloadGoesOn(p)
  BY <1>3 DEF Decide, DownloadGoesOn, Begin, Fetch, Fetched, Sum, Record, GiveUp
<1>4. CASE Upgrade(p)
  BY <1>4 DEF Upgrade, Request, Test, Refuse, StartSysupgrade, StartInstaller,
        CollectStatus, SysupgradeFails, InstallerFails, ReadInfo, WriteInfo
<1>5. ~ Die(p)
  BY DEF Die
<1> QED BY <1>2, <1>3, <1>4, <1>5 DEF Step

\* Unless some process was killed since the node booted, the two files eupgrade
\* finds are those of a genuine release, or somebody is verifying them.
THEOREM LatestAlwaysGenuine == Spec => []LatestIsGenuine
<1>1. Init => LatestIsGenuine
  BY DEF Init, LatestIsGenuine
<1>2. TypeOK /\ LatestIsGenuine /\ [Next]_vars => LatestIsGenuine'
  <2> SUFFICES ASSUME TypeOK, LatestIsGenuine, [Next]_vars, ~ died', latest' # None
               PROVE  Genuine' \/ \E p \in Proc : pc'[p] \in {"sign", "verify"}
    BY DEF LatestIsGenuine
  <2>1. CASE Reboot
    BY <2>1 DEF Reboot
  <2>2. CASE UNCHANGED vars
    BY <2>2 DEF vars, offer, LatestIsGenuine, Genuine
  <2>3. ASSUME NEW p \in Proc, Step(p)
        PROVE  Genuine' \/ \E q \in Proc : pc'[q] \in {"sign", "verify"}
    <3>1. CASE pc'[p] \in {"sign", "verify"} \/ Genuine'
      BY <3>1
    <3>2. CASE UNCHANGED offer /\ pc[p] \notin {"sign", "verify"}
      <4>1. ~ died
        BY <2>3 DEF Step, News, LookForNews, ReadNews, Ask, Sign, Verify, Discard, Decide,
              DownloadGoesOn, Begin, Fetch, Fetched, Sum, Record, GiveUp, Upgrade, Request,
              Test, Refuse, StartSysupgrade, StartInstaller, CollectStatus,
              SysupgradeFails, InstallerFails, ReadInfo, WriteInfo, Die
      <4>2. Genuine \/ \E q \in Proc : pc[q] \in {"sign", "verify"}
        BY <3>2, <4>1 DEF LatestIsGenuine, offer
      <4>3. CASE Genuine
        BY <3>2, <4>3 DEF Genuine, offer
      <4>4. ASSUME NEW q \in Proc, pc[q] \in {"sign", "verify"}
            PROVE  pc'[q] \in {"sign", "verify"}
        BY <2>3, <3>2, <4>4, OthersStay
      <4> QED BY <4>2, <4>3, <4>4
    <3> QED BY <2>3, <3>1, <3>2, OfferStays
  <2> QED BY <2>1, <2>2, <2>3, Steps
<1> QED BY <1>1, <1>2, TypeCorrect, PTL DEF Spec

-----------------------------------------------------------------------------
(* A downloaded image is intact: one download at a time. *)

\* One process downloads, the status says so once it has begun, and what it has
\* summed up is what it wanted.
OneDownload ==
    ~ raced =>
        /\ \A p, q \in Proc : pc[p] \in Downloading /\ pc[q] \in Downloading => p = q
        /\ \A p \in Proc :
              /\ pc[p] \in Downloading \ {"chosen"} => download = "downloading"
              /\ pc[p] = "sound" => images[Image(p)] = news[p]
        /\ DownloadedIsIntact

\* Only the steps of downloads, and a process that dies, have to do with them.
LEMMA DownloadStays ==
    ASSUME TypeOK, NEW p \in Proc, News(p) \/ Upgrade(p) \/ Die(p)
    PROVE  /\ raced' = raced /\ download' = download /\ images' = images
           /\ pc'[p] \notin Downloading
<1>1. /\ \A l : Goto(p, l) => pc'[p] = l
      /\ \A r : Learn(p, r) => pc'[p] \in {"news", "idle"}
      /\ Exit(p) => pc'[p] = "idle"
  BY DEF Goto, Exit, Learn, TypeOK
<1>2. CASE News(p)
  BY <1>1, <1>2 DEF News, LookForNews, ReadNews, Ask, Sign, Verify, Discard, Downloading
<1>3. ASSUME NEW r \in Release, Request(p, r)
      PROVE  /\ raced' = raced /\ download' = download /\ images' = images
             /\ pc'[p] \notin Downloading
  BY <1>3 DEF Request, TypeOK, Downloading
<1>4. CASE Upgrade(p) \/ Die(p)
  BY <1>1, <1>3, <1>4 DEF Upgrade, Test, Refuse, StartSysupgrade, StartInstaller,
        CollectStatus, SysupgradeFails, InstallerFails, ReadInfo, WriteInfo, Die,
        Downloading
<1> QED BY <1>2, <1>4

\* A step that neither begins nor goes on with a download keeps OneDownload.
LEMMA OneDownloadStays ==
    ASSUME TypeOK, OneDownload, NEW p \in Proc, Step(p), pc'[p] \notin Downloading,
           raced' = raced, images' = images,
           \/ download' = download
           \/ pc[p] \in Downloading /\ download' = "download-failed"
           \/ pc[p] = "sound" /\ download' = "downloaded"
    PROVE  OneDownload'
<1> SUFFICES ASSUME ~ raced PROVE OneDownload'
  BY DEF OneDownload
<1>1. \A q \in Proc : pc'[q] \in Downloading => q # p /\ pc[q] = pc'[q]
                                                  /\ news[q] = news'[q]
  BY OthersStay
<1>2. \A q \in Proc : pc'[q] \in Downloading => download' = download
  BY <1>1 DEF OneDownload, Downloading
<1>3. DownloadedIsIntact'
  <2>1. CASE pc[p] = "sound" /\ download' = "downloaded"
    BY <2>1 DEF OneDownload, DownloadedIsIntact, Image, TypeOK, Downloading
  <2> QED BY <2>1 DEF OneDownload, DownloadedIsIntact
<1> QED BY <1>1, <1>2, <1>3 DEF OneDownload, Image, Downloading

\* What a download does keeps OneDownload.
LEMMA OneDownloadGoesOn ==
    ASSUME TypeOK, OneDownload, NEW p \in Proc, Decide(p) \/ DownloadGoesOn(p)
    PROVE  OneDownload'
<1>1. Step(p)
  BY DEF Step
<1>2. /\ \A l : Goto(p, l) => pc'[p] = l
      /\ Exit(p) => pc'[p] = "idle"
      /\ "idle" \notin Downloading
  BY DEF Goto, Exit, TypeOK, Downloading
<1>3. \A q \in Proc : q # p => pc'[q] = pc[q] /\ news'[q] = news[q]
  BY <1>1, OthersStay
<1>4. CASE Decide(p)
  <2>1. CASE download = "downloading"
    BY <1>1, <1>2, <1>4, <2>1, OneDownloadStays DEF Decide
  <2>2. CASE download # "downloading"
    <3> SUFFICES ASSUME ~ raced' PROVE OneDownload'
      BY DEF OneDownload
    <3>1. /\ ~ raced /\ images' = images /\ download' = download /\ news' = news
          /\ pc'[p] = "chosen"
      BY <1>2, <1>4, <2>2 DEF Decide, mine
    <3>2. \A q \in Proc : pc[q] \notin Downloading
      BY <1>4, <2>2, <3>1 DEF Decide, OneDownload, Downloading
    <3>3. \A q \in Proc : pc'[q] \in Downloading => q = p
      BY <1>3, <3>2
    <3> QED BY <3>1, <3>3 DEF OneDownload, DownloadedIsIntact, Downloading
  <2> QED BY <2>1, <2>2
<1>5. CASE Record(p) \/ GiveUp(p)
  BY <1>1, <1>2, <1>5, OneDownloadStays DEF Record, GiveUp, Downloading
<1>6. CASE Begin(p) \/ Fetch(p) \/ Fetched(p) \/ Sum(p)
  <2> SUFFICES ASSUME ~ raced' PROVE OneDownload'
    BY DEF OneDownload
  <2>1. /\ ~ raced /\ news' = news /\ pc[p] \in Downloading
        /\ pc'[p] \in Downloading \ {"chosen"}
    BY <1>2, <1>6 DEF Begin, Fetch, Fetched, Sum, mine, Downloading
  <2>2. download' = "downloading"
    BY <1>6, <2>1 DEF Begin, Fetch, Fetched, Sum, OneDownload, Downloading
  <2>3. \A q \in Proc : pc'[q] \in Downloading => q = p
    BY <1>3, <2>1 DEF OneDownload
  <2>4. pc'[p] = "sound" => images'[Image(p)] = news[p]
    BY <1>2, <1>6 DEF Begin, Fetch, Fetched, Sum
  <2>5. \A q \in Proc : pc'[q] = "sound" => images'[Image(q)'] = news'[q]
    BY <2>1, <2>3, <2>4 DEF Image, Downloading
  <2>6. DownloadedIsIntact'
    BY <2>2 DEF DownloadedIsIntact
  <2> QED BY <2>2, <2>3, <2>5, <2>6 DEF OneDownload
<1> QED BY <1>4, <1>5, <1>6 DEF DownloadGoesOn

\* As long as no two downloads looked at the status before either set it, the
\* image of a finished download stays what its checksum says.
THEOREM DownloadedAlwaysIntact == Spec => []DownloadedIsIntact
<1>1. Init => OneDownload
  BY DEF Init, OneDownload, DownloadedIsIntact, Downloading
<1>2. TypeOK /\ OneDownload /\ [Next]_vars => OneDownload'
  <2> SUFFICES ASSUME TypeOK, OneDownload, [Next]_vars PROVE OneDownload'
    OBVIOUS
  <2>1. CASE Reboot
    BY <2>1 DEF Reboot, OneDownload, DownloadedIsIntact, Downloading
  <2>2. CASE UNCHANGED vars
    BY <2>2 DEF vars, mine, OneDownload, DownloadedIsIntact, Image
  <2>3. ASSUME NEW p \in Proc, Step(p) PROVE OneDownload'
    BY <2>3, DownloadStays, OneDownloadStays, OneDownloadGoesOn DEF Step
  <2> QED BY <2>1, <2>2, <2>3, Steps
<1>3. OneDownload => DownloadedIsIntact
  BY DEF OneDownload, DownloadedIsIntact
<1> QED BY <1>1, <1>2, <1>3, TypeCorrect, PTL DEF Spec

-----------------------------------------------------------------------------
(* One upgrade at a time. *)

\* A process that is on its way to an upgrade, in one, or waits for what it says.
Engaged == Deciding \cup Running \cup {"over"}

\* One process upgrades, and the status says so once it has set it.
OneEngaged ==
    ~ lapsed =>
        /\ \A p, q \in Proc : pc[p] \in Engaged /\ pc[q] \in Engaged => p = q
        /\ \A p \in Proc : pc[p] \in Engaged \ Deciding => status = "UPGRADING"

\* A step that begins no upgrade, and changes the status only where it ends one,
\* keeps OneEngaged.
LEMMA OneEngagedStays ==
    ASSUME TypeOK, OneEngaged, NEW p \in Proc, Step(p),
           lapsed => lapsed',
           pc'[p] \in Engaged => pc[p] \in Engaged,
           pc'[p] \in Engaged \ Deciding
             => pc[p] \in Engaged \ Deciding \/ status' = "UPGRADING",
           \/ status = "UPGRADING" => status' = "UPGRADING"
           \/ pc[p] \in Engaged /\ pc'[p] \notin Engaged
    PROVE  OneEngaged'
<1> SUFFICES ASSUME ~ lapsed' PROVE OneEngaged'
  BY DEF OneEngaged
<1>1. \A q \in Proc : q # p => pc'[q] = pc[q]
  BY OthersStay
<1>2. \A q, r \in Proc : pc'[q] \in Engaged /\ pc'[r] \in Engaged => q = r
  BY <1>1 DEF OneEngaged
<1>3. ASSUME NEW q \in Proc, pc'[q] \in Engaged \ Deciding
      PROVE  status' = "UPGRADING"
  <2>1. CASE q = p
    BY <1>3, <2>1 DEF OneEngaged
  <2>2. CASE q # p
    BY <1>1, <1>3, <2>2 DEF OneEngaged
  <2> QED BY <2>1, <2>2
<1> QED BY <1>2, <1>3 DEF OneEngaged

\* Checks and downloads have nothing to do with upgrades.
LEMMA NotEngaged ==
    ASSUME TypeOK, NEW p \in Proc, News(p) \/ Decide(p) \/ DownloadGoesOn(p)
    PROVE  lapsed' = lapsed /\ status' = status /\ pc'[p] \notin Engaged
<1>1. /\ \A l : Goto(p, l) => pc'[p] = l
      /\ \A r : Learn(p, r) => pc'[p] \in {"news", "idle"}
      /\ Exit(p) => pc'[p] = "idle"
  BY DEF Goto, Exit, Learn, TypeOK
<1>2. {"idle", "read", "ask", "sign", "verify", "news", "chosen", "fetch", "fetching",
       "sum", "sound"} \cap Engaged = {}
  BY DEF Engaged, Deciding, Running
<1>3. CASE News(p)
  BY <1>1, <1>2, <1>3 DEF News, LookForNews, ReadNews, Ask, Sign, Verify, Discard
<1>4. CASE Decide(p) \/ DownloadGoesOn(p)
  BY <1>1, <1>2, <1>4 DEF Decide, DownloadGoesOn, Begin, Fetch, Fetched, Sum, Record,
        GiveUp
<1> QED BY <1>3, <1>4

\* The steps of upgrades keep OneEngaged.
LEMMA OneEngagedGoesOn ==
    ASSUME TypeOK, OneEngaged, NEW p \in Proc, Upgrade(p) \/ Die(p)
    PROVE  OneEngaged'
<1>1. Step(p)
  BY DEF Step
<1>2. /\ \A l : Goto(p, l) => pc'[p] = l
      /\ Exit(p) => pc'[p] = "idle"
      /\ {"idle", "info"} \cap Engaged = {}
      /\ {"sysupgrade", "installing", "alone", "over"} \subseteq Engaged \ Deciding
      /\ {"testing", "tested", "unpacked"} = Deciding
  BY DEF Goto, Exit, TypeOK, Engaged, Deciding, Running
<1>3. ASSUME NEW r \in Release, Request(p, r) PROVE OneEngaged'
  <2> SUFFICES ASSUME ~ lapsed' PROVE OneEngaged'
    BY DEF OneEngaged
  <2>1. /\ ~ lapsed /\ status # "UPGRADING" /\ pc'[p] \in Deciding
        /\ \A q \in Proc : pc[q] \notin Deciding
    BY <1>2, <1>3, ZenonT(60) DEF Request, TypeOK
  <2>2. \A q \in Proc : pc[q] \notin Engaged
    BY <2>1 DEF OneEngaged
  <2>3. \A q \in Proc : pc'[q] \in Engaged => q = p
    BY <1>1, <2>2, OthersStay
  <2> QED BY <2>1, <2>3 DEF OneEngaged
<1>4. CASE Test(p) \/ Refuse(p) \/ SysupgradeFails(p) \/ InstallerFails(p) \/ Die(p)
  <2>1. lapsed' = lapsed /\ status' = status
    BY <1>4 DEF Test, Refuse, SysupgradeFails, InstallerFails, Die
  <2>2. /\ pc'[p] \in Engaged => pc[p] \in Engaged
        /\ pc'[p] \in Engaged \ Deciding => pc[p] \in Engaged \ Deciding
    BY <1>2, <1>4 DEF Test, Refuse, SysupgradeFails, InstallerFails, Die, Engaged
  <2> QED BY <1>1, <2>1, <2>2, OneEngagedStays
<1>5. CASE StartSysupgrade(p) \/ StartInstaller(p)
  <2>1. /\ lapsed' = lapsed /\ status' = "UPGRADING" /\ pc[p] \in Engaged
    BY <1>2, <1>5 DEF StartSysupgrade, StartInstaller, Engaged
  <2> QED BY <1>1, <2>1, OneEngagedStays
<1>6. CASE CollectStatus(p)
  <2> SUFFICES ASSUME ~ lapsed' PROVE OneEngaged'
    BY DEF OneEngaged
  <2>1. lapsed => lapsed'
    BY <1>6 DEF CollectStatus
  <2>2. CASE pc[p] = "installing"
    <3>1. status' = status /\ pc[p] \in Engaged \ Deciding
      BY <1>2, <1>6, <2>2 DEF CollectStatus
    <3> QED BY <1>1, <2>1, <3>1, OneEngagedStays
  <2>3. CASE pc[p] = "over"
    <3>1. pc[p] \in Engaged /\ pc'[p] \notin Engaged
      BY <1>2, <1>6, <2>3 DEF CollectStatus
    <3> QED BY <1>1, <2>1, <3>1, OneEngagedStays
  <2> QED BY <1>6, <2>2, <2>3 DEF CollectStatus
<1>7. CASE ReadInfo(p) \/ WriteInfo(p)
  <2> SUFFICES ASSUME ~ lapsed' PROVE OneEngaged'
    BY DEF OneEngaged
  <2>1. pc'[p] \notin Engaged
    BY <1>2, <1>7 DEF ReadInfo, WriteInfo
  <2>2. CASE ReadInfo(p)
    <3>1. lapsed' = lapsed /\ status' = status
      BY <2>2 DEF ReadInfo
    <3> QED BY <1>1, <2>1, <3>1, OneEngagedStays
  <2>3. CASE WriteInfo(p)
    <3>1. ~ lapsed /\ ~ (status = "UPGRADING" /\ held[p] # status) /\ status' = held[p]
      BY <2>3 DEF WriteInfo
    <3> QED BY <1>1, <2>1, <3>1, OneEngagedStays
  <2> QED BY <1>7, <2>2, <2>3
<1> QED BY <1>3, <1>4, <1>5, <1>6, <1>7 DEF Upgrade

\* As long as no two requests looked at the status before either set it, and it
\* was not overwritten during an upgrade, one upgrade runs at most.
THEOREM AlwaysOneUpgrade == Spec => []OneUpgrade
<1>1. Init => OneEngaged
  BY DEF Init, OneEngaged, Engaged, Deciding, Running
<1>2. TypeOK /\ OneEngaged /\ [Next]_vars => OneEngaged'
  <2> SUFFICES ASSUME TypeOK, OneEngaged, [Next]_vars PROVE OneEngaged'
    OBVIOUS
  <2>1. CASE Reboot
    BY <2>1 DEF Reboot, OneEngaged, Engaged, Deciding, Running
  <2>2. CASE UNCHANGED vars
    BY <2>2 DEF vars, OneEngaged
  <2>3. ASSUME NEW p \in Proc, Step(p) PROVE OneEngaged'
    <3>1. CASE News(p) \/ Decide(p) \/ DownloadGoesOn(p)
      <4>1. lapsed' = lapsed /\ status' = status /\ pc'[p] \notin Engaged
        BY <3>1, NotEngaged
      <4> QED BY <2>3, <4>1, OneEngagedStays
    <3>2. CASE Upgrade(p) \/ Die(p)
      BY <3>2, OneEngagedGoesOn
    <3> QED BY <2>3, <3>1, <3>2 DEF Step
  <2> QED BY <2>1, <2>2, <2>3, Steps
<1>3. OneEngaged => OneUpgrade
  BY DEF OneEngaged, OneUpgrade, Engaged
<1> QED BY <1>1, <1>2, <1>3, TypeCorrect, PTL DEF Spec
===============================================================================
