---------------------------- MODULE SafeRebootTry ----------------------------
(***************************************************************************)
(* SafeReboot implements TryConfig: while /etc is being replaced, the      *)
(* configuration is the one it is replaced by, and a backup that is only a *)
(* part, because it is being made or could not be made, is none.           *)
(***************************************************************************)
EXTENDS SafeReboot

Config == IF etc \in Complete THEN etc ELSE backup

Saved == IF backup \in Complete THEN backup ELSE "missing"

Promised == INSTANCE TryConfig WITH
    Config <- Complete, NoConfig <- "missing", config <- Config, saved <- Saved,
    kept <- Undisturbed

\* However timers, scripts and the operator's commands interleave, also those
\* left over from earlier attempts, it is as if a configuration were saved,
\* tried, restored or kept in one step each, and only one that is saved replaces
\* what the operator wrote: until the power fails while a backup is restored, or
\* somebody takes it away just then, or goes on with one that is only a part.
TriesWithBackup == Promised!Spec
===============================================================================
