------------------------------- MODULE TrialBoot -------------------------------
(***************************************************************************)
(* What packages/safe-upgrade promises the owner of a device with two      *)
(* firmwares: "having always a stable partition value of a good partition  *)
(* with a temporary state that only lasts for one boot" (Readme.md).       *)
(*                                                                         *)
(* There is a firmware to fall back to, which is good and which nobody     *)
(* writes; another one may be tried, once, when the device boots next; and *)
(* only the firmware that runs, if it is good, may become the one to fall  *)
(* back to.  The promise is void from the moment somebody upgrades from a  *)
(* firmware on trial, until one is confirmed.                              *)
(*                                                                         *)
(* There is no bootloader environment, no command and no process here.     *)
(* SafeUpgradeTrial shows that SafeUpgrade does nothing else.              *)
(***************************************************************************)

CONSTANTS Slot, Image, NoTrial

VARIABLES
    slots,     \* slot -> the firmware in it
    fallback,  \* the slot that is booted if there is nothing to try
    trial,     \* the slot to try at the next boot
    running,   \* the slot that was booted, if the device is up
    kept       \* nobody has upgraded from a firmware on trial

vars == <<slots, fallback, trial, running, kept>>

Init ==
    /\ slots \in [Slot -> Image]
    /\ fallback \in Slot /\ slots[fallback] = "good"
    /\ trial = NoTrial
    /\ running = {fallback}
    /\ kept = TRUE

\* Firmwares are written, but not the one to fall back to.
Writes ==
    /\ slots' \in [Slot -> Image]
    /\ kept => slots'[fallback] = slots[fallback]

Write ==
    /\ running # {} /\ Writes
    /\ UNCHANGED <<fallback, trial, running, kept>>

\* What is to be tried at the next boot is decided, or given up.
Try ==
    /\ running # {}
    /\ trial' \in Slot \cup {NoTrial}
    /\ UNCHANGED <<slots, fallback, running, kept>>

\* Somebody upgrades from a firmware on trial.
Void ==
    /\ running # {} /\ fallback \notin running
    /\ kept' = FALSE
    /\ UNCHANGED <<slots, fallback, trial, running>>

\* The firmware that runs becomes the one to fall back to.
Confirm ==
    /\ \E s \in running : slots[s] = "good" /\ fallback' = s
    /\ kept' = TRUE
    /\ UNCHANGED <<slots, trial, running>>

\* A reset or a power loss, which may spoil what was being written.
GoDown ==
    /\ running' = {} /\ Writes
    /\ UNCHANGED <<fallback, trial, kept>>

\* The trial is over before it begins: whatever becomes of it, the boot after
\* this one is one of the firmware to fall back to.  If there is nothing to boot
\* in the slot another one may be booted instead, or none.
Boot ==
    LET s == IF trial = NoTrial THEN fallback ELSE trial IN
    /\ running = {}
    /\ \/ slots[s] # "junk" /\ running' = {s}
       \/ slots[s] = "junk" /\ running' \in {{}} \cup {{q} : q \in Slot \ {s}}
    /\ trial' = NoTrial
    /\ UNCHANGED <<slots, fallback, kept>>

Next == Write \/ Try \/ Void \/ Confirm \/ GoDown \/ Boot

Spec == Init /\ [][Next]_vars
================================================================================
