------------------------------- MODULE TryConfig -------------------------------
(***************************************************************************)
(* What packages/safe-reboot promises: "It makes a backup of /etc [...].   *)
(* If it comes up right, you can login and simply delete the backup.  But  *)
(* if something went wrong with the new /etc, again just wait".            *)
(*                                                                         *)
(* One configuration is saved at most; only then is another one tried; and *)
(* what is saved replaces what is tried at once, or not at all.  There are *)
(* no timers, scripts or half-finished commands here.  The promise is void *)
(* for good once it could not be kept.  SafeRebootTry shows that           *)
(* SafeReboot does nothing else.                                           *)
(***************************************************************************)
CONSTANTS Config, NoConfig

VARIABLES
    config,  \* the configuration of the next boot
    saved,   \* the one to go back to
    run,     \* what the system runs with; "off"; "broken" also for other reasons
    kept     \* the promise is kept

vars == <<config, saved, run, kept>>

Init ==
    /\ config = "ok" /\ run = "ok"
    /\ saved = NoConfig
    /\ kept = TRUE

Save ==
    /\ saved = NoConfig /\ saved' = config
    /\ UNCHANGED <<config, run>>

Edit ==
    /\ saved # NoConfig /\ config' \in Config
    /\ UNCHANGED <<saved, run>>

Risk ==
    /\ saved # NoConfig /\ run' = "broken"
    /\ UNCHANGED <<config, saved>>

Restore ==
    /\ saved # NoConfig /\ config' = saved
    /\ UNCHANGED <<saved, run>>

\* The configuration is kept, or has been restored.
Drop ==
    /\ saved' = NoConfig
    /\ UNCHANGED <<config, run>>

GoDown ==
    /\ run' = "off"
    /\ UNCHANGED <<config, saved>>

Boot ==
    /\ run = "off" /\ run' = config
    /\ UNCHANGED <<config, saved>>

Void == kept' = FALSE

Next ==
    \/ /\ Save \/ Edit \/ Risk \/ Restore \/ Drop \/ GoDown \/ Boot
       /\ kept' = kept
    \/ Void

Spec == Init /\ [][Next]_vars
================================================================================
