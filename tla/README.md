# A TLA+ model of lime-packages

This directory is a TLA+ development for lime-packages, the OpenWrt packages
LibreMesh is made of.  A LibreMesh node is a router without an administrator at
hand: it is upgraded, rebooted and reconfigured over the very network it
provides, its state is copied from neighbour to neighbour, and it loses power
now and then.  Most of the packages are sequential scripts; what is hard is in
how several processes of a node share files, how nodes exchange them, and what
is left when one of the processes, or the power, goes away.  That is what is
modelled here.

The source is referred to by its path under `src/packages/`.

## 1. The system

| component | state it keeps | operations | talks to |
|---|---|---|---|
| shared-state (`shared-state`) | one JSON file per data type under `/var/shared-state/data`, with a file lock; per process: the table, `changed` | `insert`, `remove`, `get`, `reqsync`, `sync`, `bleach`, cron's `publish-all` | other nodes by HTTP (`cgi-bin/shared-state`), hooks of the data type, publishers |
| neighbour candidates (`shared-state-get_candidates_neigh`) | a list of neighbours, cached for 30 s | refresh | pings; read by `sync` |
| publishers and hooks (`shared-state-bat_hosts`, `-dnsmasq_*`, `-babeld_hosts`, `-nodes_and_links`) | one generated text file each | publish, generate | shared-state |
| shared-state-persist | an ext4 image or device mounted over the data directory | mount at boot | shared-state's files |
| portal page (`pirania-app`) | in the browser: the user's MAC, the valid MACs, the list of clients, what is shown | load, toggle the list, choose a device, send a voucher | rpcd (`pirania-app`, `pirania`) by ubus calls |
| pirania (`pirania`) | `db.csv`, the ipset of authorised MACs, firewall chains | add, authenticate, renew, remove, list vouchers; portal start/stop/update | rpcd, hooks `db_change`, shared-state |
| voucher replication (`shared-state-pirania`) | none of its own | publish `db.csv` into shared-state, rewrite `db.csv` from it | pirania, shared-state |
| safe-upgrade | two firmware partitions, the bootloader environment, the timeout file of the automatic reboot | `bootstrap`, `upgrade`, `confirm`, `test-other-partition`, `verify`, `show`; the boot script; the init script | bootloader, deferable-reboot |
| lime.upgrade, lime-sysupgrade (`ubus-lime-utils`, `lime-system`) | `/tmp/upgrade_info.cache` (a status) | verify, start and confirm a firmware upgrade | safe-upgrade or sysupgrade |
| eupgrade | a download status, the downloaded image | check, download | a firmware server, lime.upgrade |
| safe-reboot | a backup of `/etc`, a boot script in `/etc`, the pid of a timer | start, `now`, `cancel`, `discard`, fall back at boot | reboot |
| deferable-reboot | a postponement file | check the uptime, postpone, reboot | cron, safe-upgrade |
| watchping with the `*-auto-gw-mode` and access-point hooks | per interface: time of the last answer, last reported state | ping, run the hooks `pass`/`fail` | routing daemons, wireless |
| check-internet, bandwidth-test, lime-ap-watchping | result caches | probe | watchping |
| first boot wizard | `/tmp/scanning`, scan results, backup of the wireless configuration | scan, apply a network, create a network | lime-config |
| lime-config (`lime-system`) | the layers `lime-defaults`, `lime-community`, `lime-node`, `lime-<mac>`, the merged `lime-autogen`; a pid lock | merge the layers, clear and write uci | every `lime-proto-*`, `lime-hwd-*` module |
| lime.network, lime.wireless, `lime-proto-*`, `lime-hwd-*` | uci sections | generate configuration | lime-config |
| lime-smart-wifi, wifi-unstuck-wa | none | choose channels; rescan | wireless drivers |
| `ubus-lime-*` | none | expose the libraries to the web interface | ubus |
| interfaces, reports and helpers (`lime-app`, `lime-webui`, `luci-*`, `lime-report`, `lime-debug`, ...) | none or vendored | - | - |

How they interact:

* Nodes only share state through shared-state: a `sync` posts its whole table to
  each neighbour, the neighbour merges it, runs its hooks, and answers with its
  own merged table.  Everything the mesh agrees on (names, leases, vouchers)
  travels this way.
* Inside a node the packages are processes that share files.  shared-state has a
  lock; `db.csv`, `upgrade_info`, the eupgrade status, `/tmp/scanning` and
  `/tmp/sysupgrade.tgz` have none.
* `insert`, `reqsync`, `sync` and `bleach` run hooks; hooks rewrite other
  packages' files, and pirania's own hook `db_change` runs `insert` and `sync`.
* The portal's page asks its node four things at a time and sends vouchers, in one
  thread, with answers in any order.
* Upgrades go through layers of detached processes: ubus call -> lime.upgrade ->
  `lime-sysupgrade` -> safe-upgrade -> bootloader -> init script, each with
  a status of its own that the next may never report to.

The hard behaviours, and what correctness means for each component:

| component | hard because | should hold |
|---|---|---|
| shared-state | a sync is two critical sections with seconds in between; requests time out on one side only; entries age on every node separately; deletion is an entry too; saves truncate | no process loses what another stored; nothing gets fresher by gossip; the nodes agree in the end; hooks saw what is stored; entries nobody publishes go away |
| safe-upgrade | power loss between any two writes; the bootloader and two firmwares share one small environment; a confirm races the automatic reboot | the device always comes up; a firmware nobody can reach is left by itself |
| vouchers | unlocked read-modify-write from the command, rpcd and a shared-state hook; versions of one voucher compete | a voucher admits no more devices than it was sold for; renewing and removing last |
| portal page | several loads under way at a time, whose answers fill the same list; calls that fail half way through a chain | nothing looks for what is not there; a voucher is for the user's own device unless he chose another, and is answered |
| voucher replication | versions of a voucher are entries of their own, which live on; each node picks one of them | no node lists more devices than were sold; removals and uses spread |
| lime.upgrade, eupgrade | status read, then set, in separate calls; detached children that die | one upgrade or download at a time; a failed one can be repeated |
| safe-reboot | the script that restores runs from the directory it removes | the old or the new configuration, never neither |
| watchping | edges are relative to what was last reported | hooks match connectivity in the end |
| lime-config | a lock file outlives its owner; layers merge in order | one run at a time, later layers win |
| first boot wizard | a scan replaces the wireless configuration and puts it back | the configuration comes back |

## 2. The modules

```
  GossipStore  (the promise: one table per node, copies afloat)
       ^ implemented by
  SharedStateStore --EXTENDS--> SharedState  (files, locks, processes, requests)
       |                             /     \
  MCSharedState              GossipQuiet  SharedStateWatch
  SharedStateProofs               |          |
                          MCGossipQuiet   MCSharedStateWatch
                              SharedStateHistoryProofs

  VoucherMesh    (all nodes: versions of vouchers)
                                            MCVoucherMesh, VoucherMeshProofs
  Vouchers       (one node: db.csv, its commands, the captive portal)
                                            MCVouchers, VouchersProofs
  PortalPage     (a browser: calls under way, what the page shows)
                                            MCPortalPage, PortalPageProofs
  Upgrading      (one node: news, downloads, upgrade requests)
                                            MCUpgrading, UpgradingProofs
  TrialBoot      (the promise: a firmware to fall back to, one to try once)
       ^ implemented by
  SafeUpgradeTrial --EXTENDS--> SafeUpgrade
                 (one device: flash, environment, bootloader, commands)
                                            MCSafeUpgrade, SafeUpgradeProofs
  TryConfig      (the promise: a configuration saved, another tried)
       ^ implemented by
  SafeRebootTry --EXTENDS--> SafeReboot
                 (one device: /etc, its backup, commands, timers)
                                            SafeRebootProofs
```

They meet where the packages do: `VoucherMesh` uses what `GossipStore` promises; the answers `PortalPage` gets are
those of the commands in `Vouchers`; `Upgrading` ends where `SafeUpgrade` begins.

### SharedState

One data type, on every node.  A *worker* is a process slot on a node; it runs
one operation of the command line (or, if it is one of `Httpd`, one request)
after another.

| variable | in the code |
|---|---|
| `disk[n]` | what `load` finds in `DATA_DIR/<type>.json` of node n |
| `holder[n]` | the process that holds the lock of that file (`nixio` flock) |
| `pc[p]` | how far the operation of process p is |
| `mem[p]`, `changed[p]` | `self.storage`, `self.changed` |
| `todo[p]` | the urls a sync has yet to ask |
| `slice[p]` | the body of the request p serves |
| `client[p]` | the process that waits for p's reply, until it gives up |
| `shown[n]` | what the hooks on n were last given |

An entry is `[ttl, data]`; a removed one has data `Nil`.  Every operation begins
with `LockAndLoad`.  `Bleach`, `Insert`, `Remove` and `Get` are then one step each,
because the lock is held to their end and nothing else reads their table; the
hooks, outside the lock, are a step of their own (`NotifyHooks`).  `sync` is
`SyncStart` (load and unlock), a `Post`, `PostFails`, `Reply` or `Timeout` per
neighbour, a second `LockAndLoad` and `SyncSave`.  `reqsync` on the neighbour is
a `LockAndLoad`, `ServeMerge`, `NotifyHooks` and `Reply` or `ReplyUnread`.
`LockTimeout` is `os.exit(ERROR_LOCK_FAILED)`, `Reboot` a power loss in any
state, with or without the file surviving, including in the middle of `save`.

Left out: the author of an entry (nothing reads it), the choice of candidates
(any other node, any of them may be dead), several data types (they share
nothing), and files damaged in ways `load` would report.

**GossipStore** says what the store promises, without processes, locks or requests: a
command changes its node's table in one step, and copies of entries float about, any of which a
node may take for one with no more bleachings left.  **SharedStateStore** gives the mapping (a node's table is
its file; what floats is what processes hold and requests carry) and
`ActsInOneStep`, that `SharedState` does nothing else.

**GossipQuiet** is the same mesh after the publishers have gone silent, from
any files, each node with its `neighbour`s; **SharedStateWatch** adds two history variables for properties that
relate a save to what happened on its node before.

### SafeUpgrade

One device.  `flash` is what each of the two partitions holds: a good firmware,
one with which nobody can log in, one that does not get to user space, or
nothing bootable.  `env` is the bootloader environment (`stable_part`,
`testing_part`, which of `boot_1` and `boot_2` are set, `su_version`, whether
`bootcmd` is safe-upgrade's script).  `up` is what runs.  `auto` and `timer` are
the timeout file of `safe_upgrade_auto_reboot` in each partition and its sleeping
script, `staged` the file in `/tmp/sysupgrade.tgz` that puts it there, `step` and
`job` the commands under way.  Every write of a partition or of a variable of the
environment is a step, so `PowerLoss` falls between any two; `Boot` is the boot
script, with its fall-through to partition 1 and the detail that the partition
passed in `bootargs` comes from `boot_1` or `boot_2` and the kernel address from
the choice before.  `verify` and `show` change nothing.  What `upgrade` does to collect the
configuration (`preserve_files`, lines 210-261) is one step: of two that overlap, only that they share
the archive is modelled, not that one may pack a tree the other has just removed.

**TrialBoot** says what that is for, in the words of the Readme "a stable partition value of a good partition with a
temporary state that only lasts for one boot": slots, the one to fall back to, the one to try at the next boot, the one that runs,
and whether the promise still holds.  It knows no environment, no commands and no order of writes.
**SafeUpgradeTrial** gives the mapping and `TriesOnce`, that `SafeUpgrade` does nothing else.

### Vouchers

One node.  A *process* is a run of `voucher`, a call of rpcd or a run of
`captive-portal`.  `file` is `db.csv`: whether it has its header line, and for every
voucher its expiry date and its MACs.  A command loads the file (`AddVouchers`,
`ChangeDates`, `Accept`, `Refuse`, each with the change it makes to its `table`), and
saves it in two steps, because opening the file for writing empties it (`Truncate`,
`WriteRows`).  A command that finds no header dies if it looks for a column, and
otherwise saves what it found; both are in the guards.  `ipset` and `timed` are the
kernel's set of authorised MACs and which of them have a timeout, `rules` whether the
firewall redirects; `captive-portal` flushes the set (`CleanSets`), runs `voucher
print_valid_macs` (`PrintValidMacs`) and adds the MACs one by one (`SetIpset`).  `accepted` is a history:
the devices that `auth_voucher` has ever accepted.

Assumed: the file is shorter than a stdio buffer, so that it is written at once
when it is closed, and a longer file's rows that stick out behind a shorter one are whole.
Left out: bandwidth limits, notes, the portal's url and whitelists.  The rewriting of the file by
shared-state-pirania's hook is in `VoucherMesh`; nothing is assumed here of how often anybody updates the portal.

### VoucherMesh

All nodes, with what `Vouchers` says of each taken as one step.  A voucher is published under a hash
of its contents, so that every change makes another entry, a *version*; old versions stay until they
have been bleached away everywhere.  `db[n]` is the database of n, `store[n]` the versions its
shared-state holds, `held[p]` what a process was given: the rows a publisher has
read, the table a request or a reply carries, the input of the hook.  The hook
(`Generate`) rewrites the whole database from its input; `Better` is the body of its
`reduce`, `Results` what may come out, because the order in which versions of one
voucher come is that of a hash table sorted by code only.

Left out: ages (a version is there or not, and may expire at any time), dates
relative to a clock (0 is removed, anything else valid), and the steps within a save of the file, which
are in `Vouchers`.

### PortalPage

One user's page: `auth.html`, `authenticated.html`, `fail.html` with `int.js`,
`ubusFetch.js`, `content.js` and `voucher.js`.  The variables of `voucher.js` keep their
names; `stations` is the select element (whether it is in the document, its options,
which are marked, its value), `shown` the elements that are not hidden, `calls` the number of
calls of each kind under way.  A handler runs to its end, so each answer, failure and click is one
step, with the whole `.then` chain up to the next call in it; loads are chains of four calls, and every
click of "+" or of the button starts another.  Whether `int[lang]` has the text a handler wants decides
whether it ends in its `catch` clause (`Says`); a `catch` that throws itself stops there.
`chosen` (the user chose a device that is not his own since the list was filled) and `missed` (a call of
`get_clients` failed since) are histories.

Left out: the text of the content and of the messages, what is typed (`userIsValid` is whatever the answer says).
The node's side (`handle_voucher`, the rpcd calls) is the answers: any, since they depend on the node.
The rpcd script of `get_clients` prints `{ client }`, an undefined name, so that on a real node the list stays
empty; `Clients` says which answers there are, and the model includes those that were meant.

### Upgrading

One node.  A *process* is a run of `eupgrade-check`, `eupgrade-download` (its `wants`),
a call of lime.upgrade, or an installer.  `latest` and `signature` are the release's two
files, `images` the downloaded ones by name, `download` and `status` the two statuses,
`installer` the verdict file of an installer.  Every read or write of a file that another process
may write is a step; verifying, downloading and asking the server end either way.
`Die` kills a process anywhere, `Reboot` clears everything (all of it is in `/tmp`).
`raced`, `lapsed` and `died` are histories: they name the races the code allows, so that the properties can say
that there are no others.

Left out: version strings, the contents of the backup that `lime-sysupgrade` makes, and the
confirmation, which is `SafeUpgrade`'s.

### SafeReboot

One device.  `etc` is what `/overlay/upper/etc` holds (a configuration that works, one
with which nobody can log in, a part, nothing), `script` whether the safe-fallback
script is in it and enabled, `backup` and `packed` the same of `.etc.last-good.tgz`,
`run` what the system was booted with.  `op` is the operator's shell, the members of
`Timer` the processes safe-reboot and its boot script leave in the background; `pid` is the one
in the pid file, the only one `cancel` can kill.  `action_discard` and `action_cancel` are one step
per command, and the fallback script is removed and written again in two (`RmOldScript`, then `Arm`, `ArmFails` or
`GraceOver`), so that timers, the operator and `PowerLoss` fall in between; power
loss while files are removed or unpacked leaves a part of them.  A `tar` that fails leaves a part of a backup
(`BackupFails`), and a script that cannot be written is missing (`WriteScript`), which the end of a grace period does not notice.
Four histories: `cut`, the power failed while a backup was being restored; `met`, a backup was taken away from a process that was
restoring it; `misled`, somebody (`now`, `discard`, a timer, the operator who edits `/etc`) relied on a backup that is
only a part; `torn`, the last attempt to write the script failed or was cut short.

`TryConfig` is what the usage text promises, without timers, scripts or commands: a configuration is
saved, then others are tried, and the saved one replaces them at once or is dropped.
`SafeRebootTry` maps the one to the other: `Config` is `/etc` if it is complete, otherwise
the backup about to be unpacked, `Saved` the backup if it is complete.  The promise is
void (`kept`) once `cut`, `met` or `misled` is true, and only then.

Assumed of the operator: he runs one command at a time, edits `/etc` only once it is saved,
and does not give up the backup in favour of a configuration he knows to be broken.

## 3. The runs

| run | module, configuration | checks | what it shows |
|---|---|---|---|
| shared_state | `MCSharedState` | `TypeOK`, `LockHolderIsCurrent`, `StoredEntriesSurvive`, `NothingRejuvenates`, `ActsInOneStep` | under all interleavings of a sync, a served request, two other commands, timeouts and reboots, a stored entry stays, data and all, unless it is bleached, written, beaten by a fresher one or lost in a reboot, or a sync saves another of the same TTL; no copy of a key gets fresher without a write; the whole implements `GossipStore` |
| gossip_converges | `MCGossipQuiet`, `MCGossipConverge.cfg` | `Converges`, `FreshestStays` | from any two files, syncs alone bring both nodes to the freshest entries, and on the way none steps back |
| gossip_expiry | `MCGossipQuiet`, `MCGossipExpiry.cfg` | `EntriesExpire` (violated) | two nodes that bleach and sync may keep an entry alive for ever |
| hooks_match | `MCSharedStateWatch`, `MCSharedStateHooks.cfg` | `HooksMatchStore` | when hooks have run in the order of the saves, they were given what is stored |
| sync_lost_write | `MCSharedStateWatch`, `MCSharedStateLostWrite.cfg` | `SyncKeepsChangesDuringSync` (violated) | a sync may undo an insert or removal made during it: it puts back the entry it had loaded before |
| safe_upgrade_pair | `MCSafeUpgrade`, `MCSafeUpgradePair.cfg` | `TypeOK`, `FallbackIsGood`, `ConfirmsWhatRuns`, `TriesOnce`, `BadFirmwareIsLeft` | with two commands at a time and power loss anywhere, the bootloader falls back to a good firmware, as long as nobody upgraded from an unconfirmed one; what is confirmed is still the usable firmware that runs when the confirmation is written; the whole implements `TrialBoot`; and a firmware nobody can log in to is replaced by the stable one without help |
| vouchers | `MCVouchers` | `TypeOK`, `WithinAllowance`, `OnlyAccepted` | two unlocked commands at a time lose and mix rows and MACs, but no voucher lists more MACs than it allows, and nobody is let through whom `auth_voucher` has not accepted |
| voucher_mesh | `MCVoucherMesh` | `TypeOK`, `WithinAllowance`, `HooksChooseWell`, `SettledStays`, `RemovalsSpread`, `UsesSpread` | versions of a voucher, published, sent, lost and forgotten on two nodes in any order, never list too many devices; no hook loses a removal or a device to a version it was made from; what the nodes agree about is not unsettled by what still floats about; a removal, and the use by one device, that some node's shared-state holds reach every node unless an equally used version competes |
| portal_page | `MCPortalPage` | `TypeOK`, `ListIsThere`, `MarksAreCurrent`, `OwnUnlessChosen`, `VoucherIsAnswered` | loads and vouchers under way at the same time, answered in any order or not at all, never look for a list that is not there or leave wrong marks; a voucher is for the user's own device unless another was chosen, whatever MAC `client_ip` gave; and it is answered |
| upgrading | `MCUpgrading` | `TypeOK`, `LatestIsGenuine`, `DownloadedIsIntact`, `OneUpgrade`, `DownloadEnds` | checks, downloads and upgrades at a time, killed anywhere: what is offered is genuine, what is downloaded intact, one upgrade runs, a download ends, but for the races the histories name |
| safe_reboot | `SafeRebootTry`, `SafeReboot.cfg` | `TypeOK`, `EtcOrBackup`, `RestoreInv`, `KeptIsKept`, `FallsBack`, `TriesWithBackup` | stale timers, failing backups and half-finished commands never leave `/etc` without a complete backup being unpacked, never undo a decision to keep it, and a system nobody can log in to comes back; the whole implements `TryConfig` |
| safe_reboot_cut | `SafeReboot`, `SafeRebootCut.cfg` | `AlwaysFallsBack` (violated) | power loss during `discard` loses `/etc` and the script that would retry |

### Bounds

* Two nodes and four slots: one that syncs, one that serves, and on each node one
  for other commands.  Everything the store does is between processes of one
  node or between one client and one server; a third node adds only chains of such
  pairs.  Which slot does what is fixed (`Syncers`, `Writers`, `Httpd`) to keep
  the instance in reach: a syncing, a serving and a writing process of the same
  node do meet.
* One key, but for `sync_lost_write`: `merge`, `insert`, `remove` and `bleach` treat keys independently, and the
  only thing keys share, `changed`, is covered by the theorems for any number
  of keys as far as they use it.  `sync_lost_write` has two keys, because a sync that has received nothing new does not save:
  one key is changed by a neighbour, the other on the node itself; ages do not matter there (`DefaultTTL` = 1).
* `DefaultTTL` = 2: the smallest with an age that can expire (1), one that cannot yet (2)
  and therefore older and fresher copies of a key.  Inserts use the full TTL, as
  all publishers do.
* One data value where only ages matter, two where an update must be told from what
  it replaces.
* Safe-upgrade has two partitions by design.  Two commands at a time suffice for any
  pair to interleave.  Nothing in this module is capped: environment and flash are finite.
* Vouchers: two processes, two vouchers, one for one device and one for two, and two devices.  A race over the file is
  between a pair of commands; the rows of two vouchers may come from different saves.  `Horizon` = 1 caps the clock:
  dates are 0, which has passed from the start, and 1, which passes while the model runs, so that vouchers expire, are removed, and are
  renewed.  Processes and devices are interchangeable (`SYMMETRY`; the run has no liveness property).
* SafeReboot: two timers are a current one and one left over; `Arm` waits for a free one, so
  three at a time are not reached.  The run that finds a violation needs one.
* VoucherMesh: two nodes, one voucher for one of two devices, two processes under way
  anywhere in the mesh, and `MaxVersions` = 3: an original, and two changes that compete, in any of the
  combinations of use, removal and renewal.  `MaxWork` = 4 bounds versions and busy processes together: two
  processes overlap while there are two versions, and three versions are handled by one at a time.  Which free slot a process
  takes and which new device comes next are all the same, and the model picks one.  Vouchers do not influence one another's versions.
* PortalPage: `MaxCalls` = 2 calls under way before the user does more (what follows from a call may add to
  them).  Two loads, a load and a voucher, or two vouchers overlap; a third would
  have to overlap with two others to do anything new, and the theorems hold for any number.
* Upgrading: two processes, two releases that use the same image name (the hard case), two urls: one
  that fails and one that does not.  Nothing is capped.
* No state of any run stops: `CHECK_DEADLOCK` is on everywhere.

### Fairness

* `SyncFairness` (GossipQuiet).  Cron runs publish-all, thus a sync, for ever.  A process
  that goes for the lock gets it if it is free again and again (strong
  fairness of `LockAndLoad`: critical sections take milliseconds, and a process tries
  ten times, a second apart); one that is past it finishes (weak fairness); and a
  neighbour that is asked in every sync answers in time now and then (strong
  fairness of `Post`; requests may still fail or time out any number of
  times).  Nothing forces any particular reply to arrive in time.
* `AgingFairness` (GossipQuiet, for the run that adds bleaching, on a network that never fails):
  every process that can go on does, and each node's crontab bleaches and syncs
  again and again.
* SafeUpgrade: the bootloader runs when there is power (weak fairness of `Boot`), and
  the sleep of the automatic reboot ends (weak fairness of `AutoReboot`).  No
  command is ever forced to run, no operator to act.
* Vouchers: none.  In pirania alone nobody updates the portal again and again.
* VoucherMesh: cron publishes and syncs on every node again and again, and of what a node sends to
  another something arrives now and then (strong fairness, because the two slots may be
  busy); hooks and inserts that have begun end.  The liveness properties are about a mesh
  whose users and whose reboots and bleachings leave it alone in the end: while commands go on nothing settles.  An entry that is
  published every two minutes is not bleached away.
* PortalPage: `AuthSettles` is weakly fair, because a browser settles every fetch, with a failure if need be.  Nothing forces any
  load to be answered.
* Upgrading: a process that is downloading goes on unless it is killed (weak fairness of each
  `DownloadGoesOn`).  Upgrades, installers and polls need not.
* SafeReboot: processes in the background go on, and a device with power boots (`FallsBack` itself
  says that power does not fail for ever).  No command of the operator is forced.

### What disagrees with the documentation

1. *Entries need not expire* (`gossip_expiry`).  `bleachTTL` is documented as the number of bleachings until
   an entry expires (`shared-state.lua:40`).  Nodes bleach only their own copies, and a
   merge takes a fresher copy from anybody, so nodes that sync between each
   other's bleachings restore the age.  In the trace two nodes bleach in turn
   and sync in between.
2. *A sync may undo an insert or a removal* (`sync_lost_write`).  `sync` loads the file a second time "Take in
   account changes happened during sync" (`shared-state.lua:256`), but the
   merge prefers the table's own entry when the TTLs are equal, and all publishers
   use the same TTL.  What was inserted or removed during the sync so loses to the entry the sync had loaded before, as soon as
   anything it received from a neighbour has set `changed`, without which it does not save.  In the trace
   the sync loads one key, receives another, and puts the first back after its removal.
3. *Falling back is not safe from power loss* (`safe_reboot_cut`).  `action_discard` removes the script that would
   try again (line 136) before it removes and unpacks `/etc`.

More that the models show on the way, without a run of its own:

* The Readme of safe-upgrade promises "always a stable partition value of a _good partition_" (line 70);
  `upgrade` writes to the partition that does not run, which after a `test-other-partition` or a second
  upgrade before `confirm` is the stable one.  `FallbackIsGood` excludes that case (`risky`).  Two
  overlapping upgrades share `/tmp/sysupgrade.tgz`, so that the timeout file may be missing.
* Vouchers get lost: the last of two commands that overlap wins, and a command that loads `db.csv` while
  another has it open finds it empty.  With shared-state-pirania a hook that was started before a
  voucher was added, used or removed rewrites `db.csv` without that change; if that comes before cron publishes it, it is in no node's
  shared-state and lost for good.  `RemovalsSpread` and `UsesSpread` are about what some node's shared-state holds.
* `generate_vouchers` compares a hash with a newline to one without (lines 48 and 81), which always differ, so that every run of the
  hook updates the portal.
* A renewal may be undone at once: the renewed version lists as many MACs as the old one, which
  shared-state still holds, and the hook keeps whichever comes first.  `RemovalsSpread` says what is left for removals,
  which win if they are as well used; a version with one more MAC beats a removal that comes before it and loses to one that comes after it.  A removal that does not lead may be lost.
  Of two devices accepted on two nodes with equally used versions one is forgotten.
* The portal's page: `ubusError` is never reset, so that after a failed `read_content` the list cannot be
  made and clicks on it fail silently; a language without texts turns an accepted voucher into an error
  (`voucher.js:133`), and the `catch` clause then throws as well; after a failed call of `auth_voucher` the button stays
  hidden; an empty `print_valid_macs` leaves old marks in place; a chosen device is
  reset by every answer to `get_clients`, and there is one after each voucher that succeeds; `getIpv4AndMac` greps for the user's address, which
  may be a prefix of others (`logic.lua:101`), so that `client_ip` may give another device's MAC until the list is filled (`OwnUnlessChosen`).
* lime.upgrade and eupgrade: a killed download, or a `lime-sysupgrade` that fails, leaves its status, which refuses every further attempt until a
  reboot; a poll of `get_upgrade_info` may write back the status before `UPGRADING`; `upgrade-installer-status` is never removed, so that an
  old verdict fails the next installer; the lock of `write_obj_store_var` is gone when `readfile` closes a
  descriptor of the same file (`utils.lua:511`); a check may remove the release's files
  while a finished download relies on them, and what it returns is what it has read, not what it has verified.
* `bootstrap` of safe-upgrade sets `su_version`, by which every command decides that safe-upgrade is
  installed, before it sets `bootcmd` (`safe-upgrade:287`).  After a power loss in between
  the device counts as installed while the bootloader ignores `testing_part`.
* `auth_voucher` decides on the table it loaded, so two devices that come at a time are both
  accepted and let through with a voucher for one.  `WithinAllowance` says what is left of the limit:
  the file never lists more, and the next update of the portal drops the other.
* `discard` looks for the backup once (`safe-reboot:135`).  If the operator deletes it just then, as the usage
  text recommends, `/etc` ends up empty: that is the case `met` in `EtcOrBackup`.
* When `backup_etc` fails, on a full flash (`safe-reboot:168`), a part of a backup stays.  The next call says that the backup exists and "You
  probably want to `now`"; `discard`, and a boot script left from before, unpack it over an empty `/etc`.  That is the case `misled`.
* The end of a grace period removes the fallback script and writes it again (`safe-reboot:95-112`).  If the flash is full, or the power fails in between,
  the script is gone, and nothing brings the saved configuration back: the case `torn` in `FallsBack`.

## 4. The proofs

`SharedStateProofs` (assumptions: `HostAssumption`, `TTLAssumption`,
`ValueAssumption`, `NoEntryAssumption`, all of them about the constants only, and TLC
evaluates them in every run):

* `TypeCorrect`: `Spec => []TypeOK`.  More than types: no table ever holds an expired
  entry or one above the default TTL.  It rests on lemmas about `Merge`, `Bleached`,
  `Inserted` and `Removed`.
* `LockProtects`: `Spec => []LockHolderIsCurrent`.  The invariant is inductive
  together with `TypeOK` and `IdleTablesEmpty` (a process that has not loaded yet has
  an empty table, proved first): a fresh process then works on exactly what the file holds
  (`EmptyMerge`), and one in its second half on a merge of its table and the file.
* `EntriesSurvive`: `Spec => StoredEntriesSurvive`, from `LockProtects`: who inserts, removes, bleaches or serves a request has the very
  entries of the file, so that what it does not touch stays, data and all; a sync that saves has at least as fresh ones, and only it may put
  another entry of the same age.
* `NoRejuvenation`: `Spec => NothingRejuvenates`, from `TypeOK` alone, with one lemma for merges
  (`MergeBelow`) and one for bleachings (`BleachBelow`).
* `ImplementsGossipStore`: `Spec => Promised!Spec`.  Initial states map to initial states.  A command that saves under the
  lock has read the very file it replaces (`LockHolderIsCurrent`), so it maps to the store's own step (`InsertStep`,
  `RemoveStep`, `BleachStep`); a served request and a sync that saves map to `Take` (`SaveStep`), since a merge
  chooses among copies and is as fresh as the file; a reboot maps to `Lose`; everything else makes or loses
  copies (`QuietSteps`, from `SpreadCarries`: nothing in a table or a request is new).

`SharedStateHistoryProofs` (the same assumptions, and `NeighbourAssumption`: the neighbours of a node are other nodes,
because `shared-state-get_candidates_neigh` leaves out the addresses of its own), on the lemmas about single steps of
`SharedStateProofs`:

* `HooksSeeTheStore`: `WatchSpec => []HooksMatchStore`, of nodes that stay up.  The inductive invariant, `ShownOrPending`, says that a node has
  one process with hooks to run at most, with a table that looks like the file, or none and the hooks
  have seen it.  It needs that a process that waits for a reply does nothing else (`OneReader`), or a reply could make
  it forget its hooks, and that a quiet bleach looks like none (`QuietBleach`).
* `FreshestAlwaysStays`: `QuietSpec => FreshestStays`, the safety half of `Converges`.  `AnyFiles` is not `Init`, so
  the types, `IdleTablesEmpty` and `LockHolderIsCurrent` are proved again from it (`QuietInit`; every step
  is one of `SharedState`, `QuietIsNext`).  The inductive invariant beside them is `FreshestLead`: of each key, the
  freshest entries are of one age and everything else there is, stored, loaded or under way, is older.  That there is a freshest
  entry at all needs that ages are bounded (`YoungestEntry`).  A save holds at least what the file holds
  (`SavesAreFresh`, from `LockHolderIsCurrent`), so what replaces a freshest entry is one.

`SafeUpgradeProofs` (assumption: `ConstantAssumption`, that the value for an unset variable is no
partition):

* `TypeCorrect`: `Spec => []TypeOK`.
* `PowerLossIsSafe`: `Spec => []FallbackIsGood`, for any number of concurrent commands.
  The property alone is not inductive: that a bootstrap cannot leave the device without a
  bootable choice depends on the order of its writes (`EnvironmentOrder`), on what the running
  system may be while nothing risky happened (`RunningOrder`), on what the
  stable partition holds (`FallbackKept`), and on what each command knows at each of its
  steps (`CommandOrder`).  `PowerInv` is their conjunction, `PowerInvStep` its preservation.
* `StableIsWhatRuns`: `Spec => ConfirmsWhatRuns`, from the same invariant: commands write the partition that did not run when
  they began, and what runs changes only with all commands gone.  The first write of a `bootstrap` counts as well: there `PowerInv`
  says that what runs is partition 1, as shipped.
* `ImplementsTrialBoot`: `Spec => Promised!Spec`.  Beside `PowerInv` it needs that the boot script never finds `testing_part` unset
  (`TestingSet`, inductive by itself: `bootstrap` sets it before it installs the script, and nothing unsets it).  Then the script boots
  what `TrialBoot` says (`BootIsBoot`), each write of flash or environment maps to a `Write`, a `Try` or nothing,
  the last write of `confirm` to `Confirm`, and a reset, also one that leaves a firmware half written, to `GoDown`.

`VouchersProofs` (assumptions: `AllowedAssumption`, `HorizonAssumption`, `MacAssumption`, `NoRowAssumption`):

* `TypeCorrect`: `Spec => []TypeOK`, on lemmas about what each command makes of a table (`TableTypes`,
  `WrittenType`).
* `NoVoucherOverbooked`: `Spec => []WithinAllowance`, for any number of processes, vouchers and devices.  It needs no
  lock: every table was within the allowance when it was loaded, a device is accepted on the very
  table that is saved (`UsedFits`), and a file mixes whole rows of tables that fit.
* `OnlyAcceptedLetThrough`: `Spec => []OnlyAccepted`.  The property alone is not inductive; `OnlyAcceptedInv` says besides that the file, every
  table and what every process is about to let through list no device that was not accepted (`ListedInTables`: no command makes a table list
  a device anew but the one that accepts it).

`SafeRebootProofs` (assumption: `ProcAssumption`, that the operator is no timer):

* `TypeCorrect`: `Spec => []TypeOK`.
* `Restores`: `Spec => []RestoreInv`, for any number of timers: what somebody restores is a complete backup, is not made anew meanwhile and
  stays until it is unpacked, unless `cut`, `met` or `misled`.  It is inductive beside `TypeOK`.
* `EtcNeverLost`: `Spec => []EtcOrBackup` follows: what is unpacked over an `/etc` that is not complete is.
* `KeptStays`: `Spec => KeptIsKept`: who changes `/etc` has a backup, or it was taken away.
* `ImplementsTryConfig`: `Spec => Promised!Spec`, step by step from `TypeOK` and `RestoreInv`.  While the promise is kept, whoever
  restores has the saved configuration (`SavedIsBackup`), so removing `/etc` and unpacking it both map to `Restore`; whoever takes the
  backup away takes it from nobody (`TakenIsDropped`); and a device that goes down or boots has a whole `/etc` (`ConfigIsEtc`).

`PortalPageProofs` (assumptions: `DeviceAssumption`, `ClientsAssumption`; any number of calls under way):

* `TypeCorrect`, `ListAlwaysThere` and `MarksStayCurrent` (`Spec => []` of the three invariants): a load asks for clients only once it has made the list,
  and every answer that changes the MACs or refills the list asks for it again or marks it.
* `OwnDeviceIsUsed`: `Spec => []OwnUnlessChosen`, inductive beside `TypeOK`: an answer of `client_ip`, the only one that may bring a wrong MAC, is
  followed by a call of `get_clients`, and the answer to that sets the MAC and the selection of the user's device together.

`UpgradingProofs` (assumptions: `UrlsAssumption`, `FileAssumption`, `ReleaseAssumption`; any number of processes):

* `TypeCorrect`, `LatestAlwaysGenuine`, `DownloadedAlwaysIntact`, `AlwaysOneUpgrade`.  The last two rest on `OneDownload` and
  `OneEngaged`: unless the history says that two processes read a status before either set it, one of them at
  most is past reading it, and the status then keeps the others out.

`VoucherMeshProofs` (assumptions: `AllowedAssumption`, `DatesAssumption`; any number of nodes, processes, vouchers and
devices, and versions, whatever `MaxVersions` and `MaxWork`):

* `TypeCorrect` and `NoVersionOverbooked`: `Spec => []TypeOK`, `Spec => []WithinAllowance`.  Neither is inductive alone: that a row
  is within the allowance comes from the version it is, which some command made.  `MeshInv` says that
  finitely many versions were made, all within the allowance, that a database lists no others, and that who does something does it on a node.
* `RowsAreChosenWell`: `Spec => HooksChooseWell`.  The hook's `reduce` is a recursive function over the versions of a voucher, in any
  order.  That the function with that recursion exists (`KeptExists`) and that what it keeps of the first i versions is chosen
  well among them (`KeptIsChosenWell`, with one more version: `BetterIsChosenWell`) are inductions on a number.  The library's induction
  theorems take an operator, which the provers here cannot instantiate; `UpTo` is induction on a *set* of numbers, from `LeastNumber`, which
  follows from the library's theorem about well-founded relations.
* `SettledAlwaysStays`: `Spec => SettledStays`, the safety half of `RemovalsSpread` and `UsesSpread`: a hook that was given one of the best
  versions writes one of them (`ChosenIsBest`, from `RowsAreChosenWell`), and every hook of a mesh that is settled was
  given one (`SpreadKeepsBest`).

Only model-checked: the liveness properties (`Converges`, `BadFirmwareIsLeft`, `FallsBack`, `RemovalsSpread`, `UsesSpread`,
`VoucherIsAnswered`, `DownloadEnds`), which TLAPS does not reach, and the violations.  Every invariant and every action property
that a run checks is a theorem.

## 5. Not modelled

* lime.network, lime.wireless, `lime-proto-*`, `lime-hwd-*`: they generate uci
  sections from templates, sequentially and in one process; unit tests
  reach them.
* Interfaces, reports, vendored libraries: no state of their own.
* `Google.js`, `leaflet.js` of luci-app-lime-location are vendored map layers; `notify-lime-env.js`
  puts one text into a page.
* watchping, its gateway hooks and deferable-reboot: loops whose correctness is a matter of seconds; the
  properties worth stating are about durations, which the untimed models here do not have.
* The first boot wizard, lime-config and shared-state-persist have hazards of their own (see
  `PROJECT.json`) and are the next to model, see the plan.
* shared-state's candidates, publishers and the other hooks: callers of the store, which the store's models take as
  any caller.

## 6. Plan

What would come next, in this order:

1. `FirstBootWizard`: a scan that replaces the wireless configuration, and the backup it is put back from.
2. `LimeConfig`: the pid lock, and the merge of the layers as operators checked against
   a reference definition.
3. `SharedStatePersist`: mounting over the data directory while processes use it.
4. `Watchping` with the gateway hooks, and `DeferableReboot`, over an abstract clock.
5. Theorems: what `LeftAlone` leaves to liveness in `VoucherMesh` and `GossipQuiet` is how copies arrive; more of its safety half
   (stores that hold all that is known stay so), and an abstract specification of a store whose entries are present or not, which
   `GossipStore` implements and `VoucherMesh` builds on.
