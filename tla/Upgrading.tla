------------------------------- MODULE Upgrading -------------------------------
(***************************************************************************)
(* How a node learns of a new firmware, downloads it and starts to upgrade *)
(* to it: packages/eupgrade (check, download), lime.upgrade of             *)
(* ubus-lime-utils, and lime-sysupgrade, up to where it calls safe-upgrade *)
(* or sysupgrade.                                                          *)
(*                                                                         *)
(* Everything they know is in files under /tmp that no lock protects for   *)
(* longer than one read or write; whoever reads a status and sets it later *)
(* may find that another process did the same.  A process is a cron job, a *)
(* call of rpcd or what such a call leaves in the background; it may be    *)
(* killed at any time, and a reboot, the one that ends an upgrade          *)
(* included, forgets everything.                                           *)
(***************************************************************************)
EXTENDS Naturals

CONSTANTS
    Proc,     \* process slots
    Release,  \* what the server may offer, each with one image we can use
    File, file,  \* the names of images, and the one each release uses
    None,     \* no file, or one that is no release's
    Damaged,  \* what is in an image that is none
    Urls      \* the number of download-urls of an image

ASSUME UrlsAssumption == Urls \in Nat
ASSUME FileAssumption == file \in [Release -> File]
ASSUME ReleaseAssumption ==
    None \notin Release /\ Damaged \notin Release /\ None # Damaged

VARIABLES
    latest,     \* the release firmware_latest.json is about
    signature,  \* the one firmware_latest.json.sig signs
    images,     \* file -> what it holds
    download,   \* the status of eupgrade
    status,     \* the status in upgrade_info_cache
    installer,  \* what upgrade-installer-status says: failed or not
    pc,         \* process -> what it is about to do
    wants,      \* process -> it is to download what it learns of
    news,       \* process -> latest_data, or the release to upgrade to
    left,       \* process -> the urls a download has not tried
    held,       \* process -> the status get_upgrade_info has read
    raced,      \* history: two downloads looked at the status before either
                \* set it
    lapsed,     \* history: so did two upgrades; or the status was overwritten
                \* during an upgrade
    died        \* history: some process was killed since the node booted

vars == <<latest, signature, images, download, status, installer, pc, wants, news,
          left, held, raced, lapsed, died>>

offer == <<latest, signature>>
mine == <<wants, news, left, held>>

DownloadStatus == {"not-initiated", "downloading", "downloaded", "download-failed"}
UpgradeStatus == {"NOT_STARTED", "UPGRADING", "FAILED"}

\* Where a process is between reading the status of downloads and ending one;
\* between reading that of upgrades and setting it; and in an upgrade.
Downloading == {"chosen", "fetch", "fetching", "sum", "sound"}
Deciding == {"testing", "tested", "unpacked"}
Running == {"sysupgrade", "installing", "alone"}

Content == Release \cup {None, Damaged}

Init ==
    /\ latest = None /\ signature = None /\ images = [f \in File |-> None]
    /\ download = "not-initiated" /\ status = "NOT_STARTED" /\ installer = FALSE
    /\ pc = [p \in Proc |-> "idle"] /\ wants = [p \in Proc |-> FALSE]
    /\ news = [p \in Proc |-> None] /\ left = [p \in Proc |-> 0]
    /\ held = [p \in Proc |-> "NOT_STARTED"]
    /\ raced = FALSE /\ lapsed = FALSE /\ died = FALSE

Goto(p, l) == pc' = [pc EXCEPT ![p] = l]

\* The process ends, and what it knew is gone.
Exit(p) ==
    /\ Goto(p, "idle")
    /\ wants' = [wants EXCEPT ![p] = FALSE] /\ news' = [news EXCEPT ![p] = None]
    /\ left' = [left EXCEPT ![p] = 0] /\ held' = [held EXCEPT ![p] = "NOT_STARTED"]

-----------------------------------------------------------------------------
(* eupgrade-check and eupgrade-download: is_new_version_available. *)

Genuine == latest # None /\ signature = latest

\* eupgrade-check, or eupgrade-download (w), which start_download calls.
LookForNews(p, w) ==
    /\ pc[p] = "idle"
    /\ Goto(p, IF Genuine THEN "read" ELSE "ask")
    /\ wants' = [wants EXCEPT ![p] = w]
    /\ UNCHANGED <<offer, images, download, status, installer, news, left, held,
                   raced, lapsed, died>>

\* There is a new version: eupgrade-check ends, eupgrade-download goes on.
Learn(p, r) ==
    IF wants[p]
    THEN /\ Goto(p, "news") /\ news' = [news EXCEPT ![p] = r]
         /\ UNCHANGED <<wants, left, held>>
    ELSE Exit(p)

\* Variant: a file that is gone is read like any other.
ReadNewsAnyway(p) ==
    /\ pc[p] = "read"
    /\ Learn(p, latest)
    /\ UNCHANGED <<offer, images, download, status, installer, raced, lapsed, died>>

\* The file is read after it was found genuine; if it is gone, the parser fails.
ReadNews(p) ==
    /\ pc[p] = "read"
    /\ IF latest = None THEN Exit(p) ELSE Learn(p, latest)
    /\ UNCHANGED <<offer, images, download, status, installer, raced, lapsed, died>>

\* The server offers r.
Ask(p, r) ==
    /\ pc[p] = "ask"
    /\ latest' = r
    /\ Goto(p, "sign") /\ news' = [news EXCEPT ![p] = r]
    /\ UNCHANGED <<signature, images, download, status, installer, wants, left, held,
                   raced, lapsed, died>>

\* The signature is downloaded, or not.
Sign(p) ==
    /\ pc[p] = "sign"
    /\ signature' \in Release \cup {None}
    /\ Goto(p, "verify")
    /\ UNCHANGED <<latest, images, download, status, installer, mine, raced, lapsed,
                   died>>

\* The files are genuine; what goes on is what this process downloaded.
Verify(p) ==
    /\ pc[p] = "verify" /\ Genuine
    /\ Learn(p, news[p])
    /\ UNCHANGED <<offer, images, download, status, installer, raced, lapsed, died>>

\* Variant: what is not genuine stays, as long as nobody can use it.
DiscardNothing(p) ==
    /\ pc[p] = "ask" \/ (pc[p] = "verify" /\ ~ Genuine)
    /\ Exit(p)
    /\ UNCHANGED <<offer, images, download, status, installer, raced, lapsed, died>>

\* The server cannot be reached, has nothing new, or signed something else.
Discard(p) ==
    /\ pc[p] = "ask" \/ (pc[p] = "verify" /\ ~ Genuine)
    /\ latest' = None /\ signature' = None
    /\ Exit(p)
    /\ UNCHANGED <<images, download, status, installer, raced, lapsed, died>>

-----------------------------------------------------------------------------
(* eupgrade-download: download_firmware. *)

\* Variant: whether a download is under way is not looked at.
DecideAnyway(p) ==
    /\ pc[p] = "news"
    /\ Goto(p, "chosen")
    /\ raced' = (raced \/ \E q \in Proc : pc[q] = "chosen")
    /\ UNCHANGED <<offer, images, download, status, installer, mine, lapsed, died>>

\* Nothing is done while another download is under way.
Decide(p) ==
    /\ pc[p] = "news"
    /\ IF download = "downloading"
       THEN Exit(p) /\ UNCHANGED raced
       ELSE /\ Goto(p, "chosen")
            /\ raced' = (raced \/ \E q \in Proc : pc[q] = "chosen")
            /\ UNCHANGED mine
    /\ UNCHANGED <<offer, images, download, status, installer, lapsed, died>>

Begin(p) ==
    /\ pc[p] = "chosen"
    /\ download' = "downloading"
    /\ Goto(p, "fetch") /\ left' = [left EXCEPT ![p] = Urls]
    /\ UNCHANGED <<offer, images, status, installer, wants, news, held, raced, lapsed,
                   died>>

Image(p) == file[news[p]]
Hold(p, c) == images' = [images EXCEPT ![Image(p)] = c]

\* The next url: the file is written over once the server answers.
Fetch(p) ==
    /\ pc[p] = "fetch" /\ left[p] > 0
    /\ Hold(p, Damaged) \/ UNCHANGED images
    /\ Goto(p, "fetching") /\ left' = [left EXCEPT ![p] = @ - 1]
    /\ UNCHANGED <<offer, download, status, installer, wants, news, held, raced, lapsed,
                   died>>

\* A file was downloaded: some release's, or less; with a second download under
\* way its name may be gone.  Or nothing was.
Fetched(p) ==
    /\ pc[p] = "fetching"
    /\ \/ \E c \in Content : Hold(p, c) /\ Goto(p, "sum")
       \/ Goto(p, "fetch") /\ UNCHANGED images
    /\ UNCHANGED <<offer, download, status, installer, mine, raced, lapsed, died>>

\* The checksum is that of the release, or the file is removed.
Sum(p) ==
    /\ pc[p] = "sum"
    /\ IF images[Image(p)] = news[p]
       THEN Goto(p, "sound") /\ UNCHANGED images
       ELSE Goto(p, "fetch") /\ Hold(p, None)
    /\ UNCHANGED <<offer, download, status, installer, mine, raced, lapsed, died>>

Record(p) ==
    /\ pc[p] = "sound"
    /\ download' = "downloaded"
    /\ Exit(p)
    /\ UNCHANGED <<offer, images, status, installer, raced, lapsed, died>>

\* Variant: the status is left as it is.
GiveUpSilently(p) ==
    /\ pc[p] = "chosen" \/ (pc[p] = "fetch" /\ left[p] = 0)
    /\ Exit(p)
    /\ UNCHANGED <<offer, images, download, status, installer, raced, lapsed, died>>

\* No image is of a type we know, or no url is left.
GiveUp(p) ==
    /\ pc[p] = "chosen" \/ (pc[p] = "fetch" /\ left[p] = 0)
    /\ download' = "download-failed"
    /\ Exit(p)
    /\ UNCHANGED <<offer, images, status, installer, raced, lapsed, died>>

-----------------------------------------------------------------------------
(* lime.upgrade: firmware_upgrade and get_upgrade_info. *)

\* Variant: whether an upgrade is in progress is not looked at.
RequestAnyway(p, r) ==
    /\ pc[p] = "idle"
    /\ images[file[r]] # None
    /\ pc' \in {[pc EXCEPT ![p] = l] : l \in {"testing", "unpacked"}}
    /\ news' = [news EXCEPT ![p] = r]
    /\ lapsed' = (lapsed \/ \E q \in Proc : pc[q] \in Deciding)
    /\ UNCHANGED <<offer, images, download, status, installer, wants, left, held, raced,
                   died>>

\* firmware_upgrade with the file of r, as sysupgrade image or as installer.
Request(p, r) ==
    /\ pc[p] = "idle"
    /\ images[file[r]] # None /\ status # "UPGRADING"
    /\ pc' \in {[pc EXCEPT ![p] = l] : l \in {"testing", "unpacked"}}
    /\ news' = [news EXCEPT ![p] = r]
    /\ lapsed' = (lapsed \/ \E q \in Proc : pc[q] \in Deciding)
    /\ UNCHANGED <<offer, images, download, status, installer, wants, left, held, raced,
                   died>>

\* firmware_verify, of a sysupgrade image only.
Test(p) ==
    /\ pc[p] = "testing"
    /\ IF images[Image(p)] \in Release
       THEN Goto(p, "tested") /\ UNCHANGED mine
       ELSE Exit(p)
    /\ UNCHANGED <<offer, images, download, status, installer, raced, lapsed, died>>

\* The metadata cannot be written.
Refuse(p) ==
    /\ pc[p] \in {"tested", "unpacked"}
    /\ Exit(p)
    /\ UNCHANGED <<offer, images, download, status, installer, raced, lapsed, died>>

\* The call returns, and lime-sysupgrade goes on in its place.
StartSysupgrade(p) ==
    /\ pc[p] = "tested"
    /\ status' = "UPGRADING"
    /\ Goto(p, "sysupgrade")
    /\ UNCHANGED <<offer, images, download, installer, mine, raced, lapsed, died>>

\* An installer runs, and the call waits.  What the last installer said is still
\* there, unless this one removes it.
StartInstaller(p) ==
    /\ pc[p] = "unpacked"
    /\ status' = "UPGRADING"
    /\ installer' \in {installer, FALSE}
    /\ Goto(p, "installing")
    /\ UNCHANGED <<offer, images, download, mine, raced, lapsed, died>>

\* Ten seconds are over.
CollectStatus(p) ==
    /\ pc[p] \in {"installing", "over"}
    /\ status' = IF installer THEN "FAILED" ELSE status
    /\ IF pc[p] = "installing" THEN Goto(p, "alone") /\ UNCHANGED mine ELSE Exit(p)
    /\ lapsed' = (lapsed \/ (pc[p] = "installing" /\ installer))
    /\ UNCHANGED <<offer, images, download, installer, raced, died>>

\* lime-sysupgrade, or what it calls, fails: nobody is told.
SysupgradeFails(p) ==
    /\ pc[p] = "sysupgrade"
    /\ Exit(p)
    /\ UNCHANGED <<offer, images, download, status, installer, raced, lapsed, died>>

\* The installer fails, while the call waits or later.
InstallerFails(p) ==
    /\ \/ pc[p] = "installing" /\ Goto(p, "over") /\ UNCHANGED mine
       \/ pc[p] = "alone" /\ Exit(p)
    /\ installer' = TRUE
    /\ UNCHANGED <<offer, images, download, status, raced, lapsed, died>>

\* get_upgrade_info, first half.
ReadInfo(p) ==
    /\ pc[p] = "idle"
    /\ Goto(p, "info") /\ held' = [held EXCEPT ![p] = status]
    /\ UNCHANGED <<offer, images, download, status, installer, wants, news, left, raced,
                   lapsed, died>>

\* Second half: all that was read is written back.
WriteInfo(p) ==
    /\ pc[p] = "info"
    /\ status' = held[p]
    /\ lapsed' = (lapsed \/ (status = "UPGRADING" /\ held[p] # status))
    /\ Exit(p)
    /\ UNCHANGED <<offer, images, download, installer, raced, died>>

-----------------------------------------------------------------------------
\* A process is killed; an installer and the call that waits for it are two.
Die(p) ==
    /\ pc[p] # "idle"
    /\ \/ pc[p] = "installing" /\ (Goto(p, "alone") \/ Goto(p, "over"))
          /\ UNCHANGED mine
       \/ pc[p] # "installing" /\ Exit(p)
    /\ died' = TRUE
    /\ UNCHANGED <<offer, images, download, status, installer, raced, lapsed>>

\* Power loss, or an upgrade gets as far as the new firmware.
Reboot ==
    /\ latest' = None /\ signature' = None /\ images' = [f \in File |-> None]
    /\ download' = "not-initiated" /\ status' = "NOT_STARTED" /\ installer' = FALSE
    /\ pc' = [p \in Proc |-> "idle"] /\ wants' = [p \in Proc |-> FALSE]
    /\ news' = [p \in Proc |-> None] /\ left' = [p \in Proc |-> 0]
    /\ held' = [p \in Proc |-> "NOT_STARTED"]
    /\ raced' = FALSE /\ lapsed' = FALSE /\ died' = FALSE

News(p) ==
    \/ \E w \in BOOLEAN : LookForNews(p, w)
    \/ ReadNews(p)
    \/ \E r \in Release : Ask(p, r)
    \/ Sign(p) \/ Verify(p) \/ Discard(p)

DownloadGoesOn(p) ==
    Begin(p) \/ Fetch(p) \/ Fetched(p) \/ Sum(p) \/ Record(p) \/ GiveUp(p)

Upgrade(p) ==
    \/ \E r \in Release : Request(p, r)
    \/ Test(p) \/ Refuse(p) \/ StartSysupgrade(p) \/ StartInstaller(p)
    \/ CollectStatus(p) \/ SysupgradeFails(p) \/ InstallerFails(p)
    \/ ReadInfo(p) \/ WriteInfo(p)

Next ==
    \/ \E p \in Proc :
          News(p) \/ Decide(p) \/ DownloadGoesOn(p) \/ Upgrade(p) \/ Die(p)
    \/ Reboot

\* A download goes on: uclient-fetch gives up after ten seconds of silence.
Fairness == \A p \in Proc : WF_vars(DownloadGoesOn(p))

Spec == Init /\ [][Next]_vars /\ Fairness

-----------------------------------------------------------------------------
(* Properties. *)

Place == {"idle", "read", "ask", "sign", "verify", "news", "info", "over"}
           \cup Downloading \cup Deciding \cup Running

TypeOK ==
    /\ latest \in Release \cup {None}
    /\ signature \in Release \cup {None}
    /\ images \in [File -> Content]
    /\ download \in DownloadStatus
    /\ status \in UpgradeStatus
    /\ installer \in BOOLEAN
    /\ pc \in [Proc -> Place]
    /\ wants \in [Proc -> BOOLEAN]
    /\ news \in [Proc -> Release \cup {None}]
    /\ left \in [Proc -> 0 .. Urls]
    /\ held \in [Proc -> UpgradeStatus]
    /\ raced \in BOOLEAN /\ lapsed \in BOOLEAN /\ died \in BOOLEAN
    /\ \A p \in Proc :
          pc[p] \in {"verify", "sign", "news", "testing"} \cup Downloading
            => news[p] \in Release

\* "if 'latest' files are present is because there is a new version"
\* (eupgrade.lua): once nobody is between writing and verifying it, the latest
\* release on file is genuine, however many checks and downloads write and
\* remove the two files meanwhile, unless some process was killed since the node
\* booted.
LatestIsGenuine ==
    ~ died /\ latest # None => Genuine \/ \E p \in Proc : pc[p] \in {"sign", "verify"}

\* A downloaded firmware stays the intact image of a release as long as the
\* status says so, unless two downloads looked at the status before either set
\* it (download_firmware).
DownloadedIsIntact ==
    download = "downloaded" /\ ~ raced => \E r \in Release : images[file[r]] = r

\* At most one upgrade runs, unless two requests looked at the status before
\* either set it, a poll of get_upgrade_info wrote back what it was before, or
\* an installer's verdict was taken for that of the next (firmware_upgrade).
OneUpgrade ==
    ~ lapsed => \A p, q \in Proc : pc[p] \in Running /\ pc[q] \in Running => p = q

\* A download ends, well or not, through every url and every failure, unless some
\* process was killed since the node booted: if it was the one that downloads, the
\* status stays, and refuses every other download until the next boot.
DownloadEnds == download = "downloading" ~> download # "downloading" \/ died
=============================================================================
