------------------------------ MODULE SafeReboot ------------------------------
(***************************************************************************)
(* packages/safe-reboot: try a configuration, and fall back to the one     *)
(* saved before if nobody logs in to keep it.  The module models the       *)
(* script's commands, the init script it installs into /etc, its timers,   *)
(* and power loss between and during the steps that change the flash.      *)
(*                                                                         *)
(* The operator runs one command at a time (op); timers run beside it.     *)
(* He edits /etc only after he has saved it, and does not give up the      *)
(* backup of a configuration in favour of one he knows to be broken.       *)
(***************************************************************************)
CONSTANTS op, Timer

Proc == {op} \cup Timer

ASSUME ProcAssumption == op \notin Timer

\* The contents of /overlay/upper/etc: a configuration with which the operator
\* can log in, one with which he cannot, a part of one, and none at all, so that
\* the image's own /etc shows (the operator does nothing with that).
Etc == {"ok", "broken", "part", "none"}
Complete == {"ok", "broken"}

VARIABLES
    etc,      \* what /etc holds
    script,   \* /etc has the safe-fallback script, enabled
    backup,   \* what .etc.last-good.tgz holds; "missing" also if it is 0 sized
    packed,   \* the safe-fallback script is in the backup
    run,      \* what the system was booted with; "off"; "broken" also if somebody
              \* broke it since
    step,     \* process -> how far it is
    pid,      \* the process in the pid file
    cut,      \* history: power was lost while a backup was being restored
    met,      \* history: a backup was taken away while it was being restored
    misled,   \* history: somebody relied on a backup that is only a part
    torn      \* the last attempt to write the script failed or was cut short

history == <<cut, met, misled, torn>>
vars == <<etc, script, backup, packed, run, step, pid, cut, met, misled, torn>>

Step == {"idle", "tar", "arm", "write", "grace", "rewrite", "leaving", "rebooting",
         "fallback", "rm_script", "rm_etc", "untar", "rm_backup",
         "cancel_backup", "cancel_script", "cancel_timer"}

Restoring == {"rm_script", "rm_etc", "untar"}

Goto(p, s) == step' = [step EXCEPT ![p] = s]

\* The operator can log in, and has no command running.
Operator == run = "ok" /\ step[op] = "idle"

-----------------------------------------------------------------------------
(* The operator. *)

\* What is left of a backup that failed or was cut short, or is still being made,
\* looks like any other.
Rely == misled' = (misled \/ backup \in Etc \ Complete)

\* safe-reboot with a grace period: only if there is no backup.
SafeReboot ==
    /\ Operator /\ backup = "missing"
    /\ backup' = "part" /\ packed' = FALSE
    /\ Goto(op, "tar")
    /\ UNCHANGED <<etc, script, run, pid, history>>

\* If the file was taken away meanwhile, tar has written it in vain.
BackupEtc ==
    /\ step[op] = "tar"
    /\ backup' = IF backup = "missing" THEN backup ELSE etc
    /\ packed' = (script /\ backup # "missing")
    /\ Goto(op, "arm")
    /\ UNCHANGED <<etc, script, run, pid, history>>

\* The flash is full: "Backup failed", and what was written of it stays.
BackupFails ==
    /\ step[op] = "tar"
    /\ Goto(op, "idle")
    /\ UNCHANGED <<etc, script, backup, packed, run, pid, history>>

\* safe-reboot now: only if there is a backup.
Now ==
    /\ Operator /\ backup # "missing"
    /\ Goto(op, "arm")
    /\ Rely
    /\ UNCHANGED <<etc, script, backup, packed, run, pid, cut, met, torn>>

\* write_safe_fallback_script: what there is of the script is removed first.
RmOldScript(p) ==
    /\ step[p] \in {"arm", "grace"}
    /\ script' = FALSE
    /\ Goto(p, IF step[p] = "arm" THEN "write" ELSE "rewrite")
    /\ UNCHANGED <<etc, backup, packed, run, pid, history>>

\* ... and a new one written, which fails, unnoticed, if the flash is full.
WriteScript == script' \in BOOLEAN /\ torn' = ~ script'

\* Variant: the grace period is waited for in the foreground.
ArmForeground(t) ==
    /\ step[op] = "write" /\ t \in Timer /\ step[t] = "idle"
    /\ WriteScript
    /\ Goto(op, "grace")
    /\ pid' = op
    /\ UNCHANGED <<etc, backup, packed, run, cut, met, misled>>

\* write_safe_fallback_script; reboot_after_grace_period &
Arm(t) ==
    /\ step[op] = "write" /\ t \in Timer /\ step[t] = "idle"
    /\ WriteScript
    /\ step' = [step EXCEPT ![op] = "idle", ![t] = "grace"]
    /\ pid' = t
    /\ UNCHANGED <<etc, backup, packed, run, cut, met, misled>>

\* The script cannot be enabled: "Writing fallback script failed".
ArmFails ==
    /\ step[op] = "write"
    /\ script' = FALSE /\ torn' = TRUE
    /\ Goto(op, "idle")
    /\ UNCHANGED <<etc, backup, packed, run, pid, cut, met, misled>>

\* Removes the backup, the script and the timer, in that order.
Cancel ==
    /\ Operator /\ etc # "broken"
    /\ Goto(op, "cancel_backup")
    /\ UNCHANGED <<etc, script, backup, packed, run, pid, history>>

\* Somebody takes the backup away: was it being restored?
Meet(q) == met' = (met \/ \E p \in Proc \ {q} : step[p] \in Restoring)

CancelBackup ==
    /\ step[op] = "cancel_backup"
    /\ backup' = "missing" /\ packed' = FALSE
    /\ Meet(op)
    /\ Goto(op, "cancel_script")
    /\ UNCHANGED <<etc, script, run, pid, cut, misled, torn>>

CancelScript ==
    /\ step[op] = "cancel_script"
    /\ script' = FALSE
    /\ Goto(op, "cancel_timer")
    /\ UNCHANGED <<etc, backup, packed, run, pid, history>>

\* Processes that die of TERM: the others wait for a command in the foreground.
Killable == {"grace", "rewrite", "leaving", "fallback"}

CancelTimer ==
    /\ step[op] = "cancel_timer"
    /\ step' = [p \in Proc |->
                  IF p = op \/ (p = pid /\ step[p] \in Killable)
                  THEN "idle" ELSE step[p]]
    /\ pid' = op
    /\ UNCHANGED <<etc, script, backup, packed, run, history>>

\* "you can login and simply delete the backup"
DeleteBackup ==
    /\ Operator /\ backup # "missing" /\ etc # "broken"
    /\ backup' = "missing" /\ packed' = FALSE
    /\ Meet(op)
    /\ UNCHANGED <<etc, script, run, step, pid, cut, misled, torn>>

Edit ==
    /\ Operator /\ backup # "missing" /\ etc \in Complete
    /\ etc' \in Complete
    /\ Rely
    /\ UNCHANGED <<script, backup, packed, run, step, pid, cut, met, torn>>

\* "try risky operations (like restarting the network)"
Risk ==
    /\ Operator /\ backup # "missing"
    /\ run' = "broken"
    /\ Rely
    /\ UNCHANGED <<etc, script, backup, packed, step, pid, cut, met, torn>>

Discard ==
    /\ Operator /\ backup # "missing"
    /\ Goto(op, "rm_script")
    /\ Rely
    /\ UNCHANGED <<etc, script, backup, packed, run, pid, cut, met, torn>>

-----------------------------------------------------------------------------
(* The timers, and the steps of discard. *)

GraceOver(t) ==
    /\ step[t] = "rewrite"
    /\ WriteScript
    /\ Goto(t, "leaving")
    /\ UNCHANGED <<etc, backup, packed, run, pid, cut, met, misled>>

\* Variant: the timer does not look for the backup again.
FallbackAnyway(t) ==
    /\ step[t] = "fallback"
    /\ Goto(t, "rm_script")
    /\ Rely
    /\ UNCHANGED <<etc, script, backup, packed, run, pid, cut, met, torn>>

FallbackOver(t) ==
    /\ step[t] = "fallback"
    /\ Goto(t, IF backup # "missing" THEN "rm_script" ELSE "idle")
    /\ Rely
    /\ UNCHANGED <<etc, script, backup, packed, run, pid, cut, met, torn>>

RmScript(p) ==
    /\ step[p] = "rm_script"
    /\ script' = FALSE
    /\ Goto(p, "rm_etc")
    /\ UNCHANGED <<etc, backup, packed, run, pid, history>>

\* Variant: the backup is removed before it is unpacked.
RmEtcAndBackup(p) ==
    /\ step[p] = "rm_etc"
    /\ etc' = "none" /\ script' = FALSE
    /\ backup' = "missing" /\ packed' = FALSE
    /\ Goto(p, "untar")
    /\ UNCHANGED <<run, pid, history>>

RmEtc(p) ==
    /\ step[p] = "rm_etc"
    /\ etc' = "none" /\ script' = FALSE
    /\ Goto(p, "untar")
    /\ UNCHANGED <<backup, packed, run, pid, history>>

Untar(p) ==
    /\ step[p] = "untar"
    /\ etc' = IF backup \in {"missing", "none"} THEN etc ELSE backup
    /\ script' = (script \/ packed)
    /\ Goto(p, "rm_backup")
    /\ UNCHANGED <<backup, packed, run, pid, history>>

RmBackup(p) ==
    /\ step[p] = "rm_backup"
    /\ backup' = "missing" /\ packed' = FALSE
    /\ Meet(p)
    /\ Goto(p, "rebooting")
    /\ UNCHANGED <<etc, script, run, pid, cut, misled, torn>>

-----------------------------------------------------------------------------
(* Going down and coming up. *)

GoDown ==
    /\ run' = "off"
    /\ cut' = (cut \/ \E p \in Proc : step[p] \in Restoring)
    /\ torn' = (torn \/ \E p \in Proc : step[p] \in {"write", "rewrite"})
    /\ step' = [p \in Proc |-> "idle"]
    /\ pid' = op

Reboot(p) ==
    /\ step[p] \in {"leaving", "rebooting"}
    /\ GoDown
    /\ UNCHANGED <<etc, script, backup, packed, met, misled>>

\* While files are removed or unpacked, only a part of them may be there.
PowerLoss ==
    LET interrupted == \E p \in Proc : step[p] \in {"rm_etc", "untar"} IN
    /\ run # "off"
    /\ etc' \in IF interrupted THEN {etc, "part"} ELSE {etc}
    /\ script' \in IF interrupted THEN {FALSE, script, script \/ packed} ELSE {script}
    /\ GoDown
    /\ UNCHANGED <<backup, packed, met, misled>>

\* Variant: the script is not started at boot.
BootWithoutScript ==
    /\ run = "off"
    /\ run' = etc
    /\ UNCHANGED <<etc, script, backup, packed, step, pid, history>>

\* With the script enabled, a timer starts, if there is a backup.
Boot ==
    /\ run = "off"
    /\ run' = etc
    /\ IF script /\ backup # "missing"
       THEN \E t \in Timer : Goto(t, "fallback") /\ pid' = t
       ELSE UNCHANGED <<step, pid>>
    /\ UNCHANGED <<etc, script, backup, packed, history>>

-----------------------------------------------------------------------------
Init ==
    /\ etc = "ok" /\ script = FALSE
    /\ backup = "missing" /\ packed = FALSE
    /\ run = "ok"
    /\ step = [p \in Proc |-> "idle"]
    /\ pid = op
    /\ cut = FALSE /\ met = FALSE /\ misled = FALSE /\ torn = FALSE

Commands ==
    \/ SafeReboot \/ BackupEtc \/ BackupFails \/ Now
    \/ (\E t \in Timer : Arm(t)) \/ ArmFails
    \/ Cancel \/ CancelBackup \/ CancelScript \/ CancelTimer
    \/ Discard \/ DeleteBackup

\* What a process does by itself.
GoesOn(p) ==
    \/ RmOldScript(p) \/ GraceOver(p) \/ FallbackOver(p)
    \/ RmScript(p) \/ RmEtc(p) \/ Untar(p) \/ RmBackup(p) \/ Reboot(p)

Next ==
    \/ Commands \/ Edit \/ Risk
    \/ (\E p \in Proc : GoesOn(p))
    \/ Boot \/ PowerLoss

\* Sleeps end, commands finish, and a device with power boots.  The operator
\* need not do anything.
Fairness ==
    /\ \A p \in Proc : WF_vars(GoesOn(p))
    /\ WF_vars(Boot)

Spec == Init /\ [][Next]_vars /\ Fairness

-----------------------------------------------------------------------------
(* Properties. *)

TypeOK ==
    /\ etc \in Etc
    /\ script \in BOOLEAN
    /\ backup \in Etc \cup {"missing"}
    /\ packed \in BOOLEAN /\ (packed => backup # "missing")
    /\ run \in Etc \cup {"off"}
    /\ step \in [Proc -> Step]
    /\ step[op] \notin {"grace", "rewrite", "leaving", "fallback"}
    /\ pid \in Proc
    /\ cut \in BOOLEAN /\ met \in BOOLEAN /\ misled \in BOOLEAN /\ torn \in BOOLEAN

Undisturbed == ~ cut /\ ~ met /\ ~ misled

\* Whatever the operator and the timers do, /etc is complete, or a process is about
\* to complete it from a backup that is complete: unless power was lost during a
\* restore, or somebody took the backup away just then, or went on with one that is
\* only a part, as "now", "discard" and a timer do after a backup_etc that failed.
EtcOrBackup ==
    Undisturbed /\ etc \notin Complete =>
        \E p \in Proc : step[p] = "untar" /\ backup \in Complete

\* Why EtcOrBackup holds: a backup that was complete when somebody set out to
\* restore it stays so until it is unpacked, and is not made anew meanwhile; it is
\* there as long as nobody takes it away.
RestoreInv ==
    /\ ~ met => \A p \in Proc : step[p] \in Restoring => backup # "missing"
    /\ Undisturbed =>
        /\ backup # "none"
        /\ step[op] = "tar" => backup \notin Complete
        /\ \A p \in Proc : step[p] \in Restoring => backup \in Complete
        /\ etc \in Complete \/ \E p \in Proc : step[p] = "untar"
        /\ run = "off" => \A p \in Proc : step[p] = "idle"

\* The operator's decision lasts: the configuration he keeps, by cancelling or
\* deleting the backup, is not touched until he makes another one, whichever
\* timers, script or half-finished commands are left; unless he took the backup
\* away from a process that was restoring it.
KeptIsKept ==
    [][etc' # etc => backup # "missing" \/ met]_vars

\* Nobody can log in, but the script is there and what was saved is still to be
\* restored: a process at rm_backup is done with it, and an operator who changes
\* /etc just then changes it for good.
Stranded ==
    /\ run = "broken" /\ script /\ backup = "ok"
    /\ \A p \in Proc : step[p] # "rm_backup"

\* "At the next boot, it waits again for a fallback timeout; if you can't login and
\* delete the backup, it will restore it and reboot" (safe-reboot): a system that
\* nobody can log in to comes back by itself, as long as the power does not fail
\* for ever, or while the backup is restored, and the script is not lost while a
\* grace period's end writes it anew.
FallsBack ==
    <>[][~ PowerLoss]_vars =>
        (Stranded ~> (run = "ok" \/ cut \/ torn))

\* "falls back to a last-known-good config after an ill-fated reboot"
\* (safe-reboot): also if the power fails while it does.
AlwaysFallsBack ==
    <>[][~ PowerLoss]_vars =>
        (Stranded ~> (run = "ok" \/ torn))
===============================================================================
