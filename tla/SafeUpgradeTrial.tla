--------------------------- MODULE SafeUpgradeTrial ---------------------------
(***************************************************************************)
(* SafeUpgrade implements TrialBoot: what runs is the kernel that was      *)
(* booted, the firmware to fall back to is the stable partition, that of a *)
(* device without safe-upgrade is the first one, and a partition is tried  *)
(* once the bootloader knows how to.                                       *)
(***************************************************************************)
EXTENDS SafeUpgrade

\* The partition to fall back to.
FallbackPart == IF env.version THEN env.stable ELSE 1

\* The partition to try.
TrialPart == IF env.script THEN env.testing ELSE 0

Running == IF up.state = "on" THEN {up.kernel} ELSE {}

Promised == INSTANCE TrialBoot WITH
    Slot <- Part, NoTrial <- 0, slots <- flash, fallback <- FallbackPart,
    trial <- TrialPart, running <- Running, kept <- ~ risky

\* However the commands of several processes interleave and wherever the power
\* is lost, the device is one that has a good firmware to fall back to, tries
\* another one for a single boot, and falls back to nothing but what was
\* confirmed while it ran (the order of the writes to flash and environment in
\* bootstrap, upgrade and confirm, and the boot script).
TriesOnce == Promised!Spec
===============================================================================
