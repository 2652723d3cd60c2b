------------------------------ MODULE SafeUpgrade ------------------------------
(***************************************************************************)
(* packages/safe-upgrade: firmware upgrades of a device with two firmware  *)
(* partitions.  The module models the commands that write (bootstrap,      *)
(* upgrade, confirm, test-other-partition), the boot script they install   *)
(* in the bootloader, the init script that reboots an unconfirmed          *)
(* firmware, and power loss between any two writes.                        *)
(*                                                                         *)
(* Every command is a process (Proc); nothing keeps two of them apart.     *)
(* A write of one variable of the bootloader environment is atomic.        *)
(***************************************************************************)
EXTENDS Naturals

CONSTANTS
    Proc,       \* command line slots of the running system
    NoPart      \* a variable of the environment that is not set

Part == {1, 2}
\* Variant: partitions counted from 0.
OtherFromZero(p) == 1 - p
Other(p) == 3 - p

\* What a partition holds: nothing the bootloader accepts; a firmware that does
\* not get to user space; one that does, but nobody can log in to confirm; a
\* good one.  "junk" is also what an erased partition holds.
Image == {"junk", "hangs", "bad", "good"}

ASSUME ConstantAssumption == NoPart \notin 0 .. 2

VARIABLES
    flash,    \* partition -> Image
    auto,     \* partition -> its auto-reboot script finds its timeout file
    env,      \* the bootloader environment
    up,       \* what runs: kernel from a partition, root from a partition
    timer,    \* the auto-reboot script of the running system sleeps
    staged,   \* the timeout file is in /tmp/sysupgrade.tgz
    step,     \* process -> how far its command is
    job,      \* process -> what its command read and was told
    risky,    \* history: an upgrade began on a partition that is not stable,
              \* and nothing has been confirmed since
    guarded   \* history: the partitions last written without
              \* --disable-reboot-safety, by an upgrade that no other one
              \* took /tmp/sysupgrade.tgz from, and not confirmed since

vars == <<flash, auto, env, up, timer, staged, step, job, risky, guarded>>

Env == [stable : Part \cup {NoPart},
        testing : {0} \cup Part \cup {NoPart},
        boot : SUBSET Part,       \* the boot_1 and boot_2 that are set
        version : BOOLEAN,        \* su_version is set
        script : BOOLEAN]         \* bootcmd is the safe-upgrade script

\* Running a kernel from one partition and a root from one; in reset or
\* without power; at the bootloader prompt.
System == [state : {"on", "off", "stuck"}, kernel : Part, root : Part]
On(k, r) == [state |-> "on", kernel |-> k, root |-> r]
Off == [state |-> "off", kernel |-> 1, root |-> 1]
Stuck == [state |-> "stuck", kernel |-> 1, root |-> 1]

Step == {"idle",
         "stable", "testing", "addrs", "boot_1", "su_version", "bootcmd",
         "erase", "write", "set_boot", "set_testing", "reboot",
         "stop", "set_stable"}

Job == [img : Image, other : Part, safety : BOOLEAN, reboot : BOOLEAN]
NoJob == [img |-> "junk", other |-> 1, safety |-> FALSE, reboot |-> FALSE]

\* The root partition is what /proc/mtd, hence get_current_partition, names:
\* the bootargs decide it.
Current == up.root

\* User space is up; and the operator can use it.
Alive == up.state = "on" /\ flash[up.kernel] # "hangs" /\ flash[up.root] # "hangs"
Usable == up.state = "on" /\ flash[up.kernel] = "good" /\ flash[up.root] = "good"

-----------------------------------------------------------------------------
(* The bootloader. *)

\* The script, run for partition p: run boot_p with fw_addr of p; if that comes
\* back, run boot_1 with the same fw_addr, then bootm fw1_addr.  So a firmware
\* of partition 2 without a boot_2 starts with the bootargs of partition 1, and
\* a junk partition 2 falls through to partition 1; a junk partition 1 does not
\* fall through to anything.
ScriptBoots(p) ==
    IF p = 2 /\ flash[2] # "junk" THEN On(2, IF 2 \in env.boot THEN 2 ELSE 1)
    ELSE IF flash[1] # "junk" THEN On(1, 1)
    ELSE Stuck

\* The bootcmd the device came with knows partition 1 only.
StockBoots == IF flash[1] # "junk" THEN On(1, 1) ELSE Stuck

\* The partition the script picks; a testing partition it forgets.
Picked == IF env.testing # 0 THEN env.testing ELSE env.stable

\* Variant: the script clears testing_part without saveenv.
BootUnsaved ==
    /\ up = Off
    /\ up' = IF env.script THEN ScriptBoots(Picked) ELSE StockBoots
    /\ UNCHANGED <<flash, auto, env, staged, step, job, risky, guarded>>
    /\ timer' = (Alive /\ auto[Current])'

Boot ==
    /\ up = Off
    /\ up' = IF env.script THEN ScriptBoots(Picked) ELSE StockBoots
    /\ env' = IF env.script THEN [env EXCEPT !.testing = 0] ELSE env
    /\ UNCHANGED <<flash, auto, staged, step, job, risky, guarded>>
    /\ timer' = (Alive /\ auto[Current])'

\* All processes, and /tmp, are gone.
GoDown ==
    /\ up' = Off
    /\ timer' = FALSE
    /\ staged' = FALSE
    /\ step' = [p \in Proc |-> "idle"]
    /\ job' = [p \in Proc |-> NoJob]

\* Power loss or a reset, whatever is going on.  A partition that was being
\* written may already hold enough for the bootloader to start it.
PowerLoss ==
    LET torn == {q \in Part : \E p \in Proc : step[p] = "write" /\ job[p].other = q}
    IN /\ \E half \in {"junk", "hangs"} :
            flash' = [q \in Part |-> IF q \in torn THEN half ELSE flash[q]]
       /\ GoDown
       /\ UNCHANGED <<auto, env, risky, guarded>>

\* The auto-reboot script wakes up and still finds its timeout file.
AutoReboot ==
    /\ timer /\ auto[Current]
    /\ GoDown
    /\ UNCHANGED <<flash, auto, env, risky, guarded>>

-----------------------------------------------------------------------------
(* The commands. *)

Goto(p, s) == step' = [step EXCEPT ![p] = s]

\* bootstrap: refused if su_version is set, and on partition 2.
Bootstrap(p) ==
    /\ Usable /\ step[p] = "idle"
    /\ ~ env.version /\ Current = 1
    /\ Goto(p, "stable")
    /\ UNCHANGED <<flash, auto, env, up, timer, staged, job, risky, guarded>>

\* The writes of bootstrap, in order; the script comes last.
BootstrapWrites(p) ==
    /\ \/ step[p] = "stable" /\ env' = [env EXCEPT !.stable = 1] /\ Goto(p, "testing")
       \/ step[p] = "testing" /\ env' = [env EXCEPT !.testing = 0] /\ Goto(p, "addrs")
       \/ step[p] = "addrs" /\ env' = env /\ Goto(p, "boot_1")
       \/ step[p] = "boot_1" /\ env' = [env EXCEPT !.boot = @ \cup {1}] /\ Goto(p, "su_version")
       \/ step[p] = "su_version" /\ env' = [env EXCEPT !.version = TRUE] /\ Goto(p, "bootcmd")
       \/ step[p] = "bootcmd" /\ env' = [env EXCEPT !.script = TRUE] /\ Goto(p, "idle")
    /\ UNCHANGED <<flash, auto, up, timer, staged, job, risky, guarded>>

\* Variant: the partition beside the stable one is written, which may be the one
\* that runs.
UpgradeBesideStable(p, img, safety, reboot) ==
    /\ Usable /\ step[p] = "idle" /\ env.version
    /\ job' = [job EXCEPT ![p] = [img |-> img, other |-> Other(env.stable),
                               safety |-> safety, reboot |-> reboot]]
    /\ staged' = safety
    /\ risky' = (risky \/ Current # env.stable)
    /\ Goto(p, "erase")
    /\ UNCHANGED <<flash, auto, env, up, timer, guarded>>

\* upgrade up to the flashing: partitions are read, the firmware is verified (or
\* forced), /tmp/sysupgrade.tgz is made, with the timeout file unless
\* --disable-reboot-safety.
Upgrade(p, img, safety, reboot) ==
    /\ Usable /\ step[p] = "idle" /\ env.version
    /\ job' = [job EXCEPT ![p] = [img |-> img, other |-> Other(Current),
                               safety |-> safety, reboot |-> reboot]]
    /\ staged' = safety
    /\ risky' = (risky \/ Current # env.stable)
    /\ Goto(p, "erase")
    /\ UNCHANGED <<flash, auto, env, up, timer, guarded>>

Erase(p) ==
    /\ step[p] = "erase"
    /\ flash' = [flash EXCEPT ![job[p].other] = "junk"]
    /\ auto' = [auto EXCEPT ![job[p].other] = FALSE]
    /\ Goto(p, "write")
    /\ UNCHANGED <<env, up, timer, staged, job, risky, guarded>>

\* mtd -j /tmp/sysupgrade.tgz write: the firmware and the preserved files.
WriteFirmware(p) ==
    /\ step[p] = "write"
    /\ flash' = [flash EXCEPT ![job[p].other] = job[p].img]
    /\ auto' = [auto EXCEPT ![job[p].other] = staged]
    /\ guarded' = IF job[p].safety /\ staged THEN guarded \cup {job[p].other}
                                             ELSE guarded \ {job[p].other}
    /\ Goto(p, "set_boot")
    /\ UNCHANGED <<env, up, timer, staged, job, risky>>

SetBoot(p) ==
    /\ step[p] = "set_boot"
    /\ env' = [env EXCEPT !.boot = @ \cup {job[p].other}]
    /\ Goto(p, "set_testing")
    /\ UNCHANGED <<flash, auto, up, timer, staged, job, risky, guarded>>

SetTesting(p) ==
    /\ step[p] = "set_testing"
    /\ env' = [env EXCEPT !.testing = job[p].other]
    /\ Goto(p, IF job[p].reboot THEN "reboot" ELSE "idle")
    /\ job' = IF job[p].reboot THEN job ELSE [job EXCEPT ![p] = NoJob]
    /\ UNCHANGED <<flash, auto, up, timer, staged, risky, guarded>>

\* The reboot at the end of upgrade.
Reboot(p) ==
    /\ step[p] = "reboot"
    /\ GoDown
    /\ UNCHANGED <<flash, auto, env, risky, guarded>>

\* confirm: refused on the stable partition.
Confirm(p) ==
    /\ Usable /\ step[p] = "idle"
    /\ env.version /\ Current # env.stable
    /\ Goto(p, "stop")
    /\ UNCHANGED <<flash, auto, env, up, timer, staged, job, risky, guarded>>

\* Variant: stop kills the sleeping script and leaves its timeout file.
StopTimerOnly(p) ==
    /\ step[p] = "stop"
    /\ timer' = FALSE
    /\ guarded' = guarded \ {Current}
    /\ Goto(p, "set_stable")
    /\ UNCHANGED <<flash, auto, env, up, staged, job, risky>>

\* safe_upgrade_auto_reboot stop (rm the timeout file, sync, kill) and disable.
StopAutoReboot(p) ==
    /\ step[p] = "stop"
    /\ auto' = [auto EXCEPT ![Current] = FALSE]
    /\ timer' = FALSE
    /\ guarded' = guarded \ {Current}
    /\ Goto(p, "set_stable")
    /\ UNCHANGED <<flash, env, up, staged, job, risky>>

SetStable(p) ==
    /\ step[p] = "set_stable"
    /\ env' = [env EXCEPT !.stable = Current]
    /\ risky' = FALSE
    /\ Goto(p, "idle")
    /\ UNCHANGED <<flash, auto, up, timer, staged, job, guarded>>

TestOtherPartition(p) ==
    /\ Usable /\ step[p] = "idle" /\ env.version
    /\ env' = [env EXCEPT !.testing = Other(Current)]
    /\ UNCHANGED <<flash, auto, up, timer, staged, step, job, risky, guarded>>

-----------------------------------------------------------------------------
\* A device as shipped, running partition 1; partition 2 holds whatever it did.
Init ==
    /\ flash \in [Part -> Image] /\ flash[1] = "good"
    /\ auto = [q \in Part |-> FALSE]
    /\ env = [stable |-> NoPart, testing |-> NoPart, boot |-> {},
              version |-> FALSE, script |-> FALSE]
    /\ up = On(1, 1)
    /\ timer = FALSE
    /\ staged = FALSE
    /\ step = [p \in Proc |-> "idle"]
    /\ job = [p \in Proc |-> NoJob]
    /\ risky = FALSE
    /\ guarded = {}

UpgradeSteps(p) ==
    \/ \E img \in Image, safety, reboot \in BOOLEAN : Upgrade(p, img, safety, reboot)
    \/ Erase(p) \/ WriteFirmware(p) \/ SetBoot(p) \/ SetTesting(p) \/ Reboot(p)

ConfirmSteps(p) == Confirm(p) \/ StopAutoReboot(p) \/ SetStable(p)

Next ==
    \/ Boot \/ PowerLoss \/ AutoReboot
    \/ \E p \in Proc :
         \/ Bootstrap(p) \/ BootstrapWrites(p)
         \/ UpgradeSteps(p) \/ ConfirmSteps(p) \/ TestOtherPartition(p)

\* The bootloader runs when the device has power, and a sleep ends.
Fairness == WF_vars(Boot) /\ WF_vars(AutoReboot)

Spec == Init /\ [][Next]_vars /\ Fairness

-----------------------------------------------------------------------------
(* Properties. *)

TypeOK ==
    /\ flash \in [Part -> Image]
    /\ auto \in [Part -> BOOLEAN]
    /\ env \in Env
    /\ up \in System
    /\ timer \in BOOLEAN
    /\ staged \in BOOLEAN
    /\ step \in [Proc -> Step]
    /\ job \in [Proc -> Job]
    /\ risky \in BOOLEAN
    /\ guarded \subseteq Part

\* What the bootloader would start if no partition were under test.
Fallback == IF env.script THEN ScriptBoots(env.stable) ELSE StockBoots

\* At any moment, also in the middle of a bootstrap, an upgrade or a confirm of
\* two processes, losing power leaves a device that comes up: unless somebody
\* upgraded from a partition that was not confirmed, the stable partition holds
\* a firmware its operator found good, the bootloader gets to it with the
\* bootargs that belong to it, and that firmware does not reboot by itself.
FallbackIsGood ==
    ~ risky => \E s \in Part :
        /\ env.version => s = env.stable
        /\ flash[s] = "good"
        /\ Fallback = On(s, s)
        /\ ~ auto[s]

\* What becomes the stable partition is at that moment the one that runs, usable,
\* and does not reboot by itself: confirm decides before it writes, and in
\* between other commands write partitions and disarm and arm reboots.
ConfirmsWhatRuns ==
    [][env'.stable # env.stable =>
          env'.stable = Current /\ Usable /\ ~ auto[Current]]_vars

\* "If you don't confirm (or you can't because the configuration is not good)
\* in this period of time then an automatic reboot will be performed and the
\* device will boot the last confirmed partition" (Readme.md): an upgrade that
\* nobody can log in to is left by itself, for the stable firmware, in the first
\* boot after the upgrade and in any later one.
BadFirmwareIsLeft ==
    (/\ ~ risky /\ up.state = "on"
     /\ up.root = up.kernel /\ flash[up.root] = "bad" /\ up.root \in guarded)
       ~> (up = On(env.stable, env.stable) /\ Usable)
==============================================================================
