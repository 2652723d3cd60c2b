--------------------------- MODULE SafeRebootProofs ---------------------------
(***************************************************************************)
(* Proofs about SafeReboot, for any number of timers: the types, that /etc *)
(* is complete or about to be, and that SafeReboot implements TryConfig.   *)
(***************************************************************************)
EXTENDS SafeRebootTry, TLAPS

\* Every variable keeps its type: only timers wait, and only a backup that is
\* there has the script in it.
THEOREM TypeCorrect == Spec => []TypeOK
<1> USE DEF Proc, Goto
<1>1. Init => TypeOK
  BY DEF Init, TypeOK, Etc, Step
<1>2. TypeOK /\ [Next]_vars => TypeOK'
  <2> SUFFICES ASSUME TypeOK, [Next]_vars PROVE TypeOK'
    OBVIOUS
  <2> USE ProcAssumption DEF TypeOK, Etc, Step
  <2>1. CASE Commands
    <3>1. CASE SafeReboot
      BY <3>1, ZenonT(60) DEF SafeReboot, history
    <3>12. CASE BackupFails
      BY <3>12 DEF BackupFails, history
    <3>2. CASE BackupEtc
      BY <3>2 DEF BackupEtc, history
    <3>9. CASE Now
      BY <3>9 DEF Now, Rely
    <3>3. ASSUME NEW t \in Timer, Arm(t) PROVE TypeOK'
      BY <3>3 DEF Arm, WriteScript
    <3>10. CASE ArmFails
      BY <3>10 DEF ArmFails
    <3>4. CASE Cancel
      BY <3>4 DEF Cancel, history
    <3>5. CASE CancelScript
      BY <3>5, ZenonT(60) DEF CancelScript, history
    <3>6. CASE CancelBackup
      BY <3>6 DEF CancelBackup, Meet
    <3>7. CASE CancelTimer
      BY <3>7 DEF CancelTimer, Killable, history
    <3>8. CASE Discard
      BY <3>8 DEF Discard, Rely
    <3>11. CASE DeleteBackup
      BY <3>11, ZenonT(60) DEF DeleteBackup, Meet
    <3> QED BY <2>1, <3>1, <3>2, <3>3, <3>4, <3>5, <3>6, <3>7, <3>8, <3>9, <3>10, <3>11,
               <3>12
            DEF Commands
  <2>2. CASE Edit \/ Risk
    <3>1. misled' \in BOOLEAN
      BY <2>2 DEF Edit, Risk, Rely
    <3> QED BY <2>2, <3>1 DEF Edit, Risk, Complete
  <2>3. ASSUME NEW p \in Proc, GoesOn(p) PROVE TypeOK'
    <3>1. CASE GraceOver(p)
      <4>1. p # op
        BY <3>1 DEF GraceOver
      <4>2. script' \in BOOLEAN /\ torn' \in BOOLEAN
        BY <3>1 DEF GraceOver, WriteScript
      <4> QED BY <3>1, <4>1, <4>2 DEF GraceOver
    <3>8. CASE RmOldScript(p)
      <4>1. /\ UNCHANGED <<etc, backup, packed, run, pid, cut, met, misled, torn>>
            /\ script' \in BOOLEAN
        BY <3>8 DEF RmOldScript, history
      <4>2. step' \in [Proc -> Step]
        BY <3>8 DEF RmOldScript
      <4>3. step'[op] \notin {"grace", "rewrite", "leaving", "fallback"}
        BY <3>8 DEF RmOldScript
      <4> QED BY <4>1, <4>2, <4>3
    <3>2. CASE FallbackOver(p)
      <4>1. step' \in [Proc -> Step]
        BY <3>2 DEF FallbackOver
      <4>2. step'[op] \notin {"grace", "rewrite", "leaving", "fallback"}
        BY <3>2 DEF FallbackOver
      <4>3. misled' \in BOOLEAN
        BY <3>2 DEF FallbackOver, Rely
      <4> QED BY <3>2, <4>1, <4>2, <4>3 DEF FallbackOver
    <3>6. CASE RmScript(p)
      <4>1. /\ UNCHANGED <<etc, backup, packed, run, pid, cut, met, misled, torn>>
            /\ script' \in BOOLEAN
        BY <3>6 DEF RmScript, history
      <4>2. step' \in [Proc -> Step]
        BY <3>6 DEF RmScript
      <4>3. step'[op] \notin {"grace", "rewrite", "leaving", "fallback"}
        BY <3>6 DEF RmScript
      <4> QED BY <4>1, <4>2, <4>3
    <3>7. CASE RmEtc(p)
      BY <3>7 DEF RmEtc, history
    <3>3. CASE Untar(p)
      BY <3>3 DEF Untar, history
    <3>4. CASE RmBackup(p)
      BY <3>4 DEF RmBackup, Meet
    <3>5. CASE Reboot(p)
      BY <3>5 DEF Reboot, GoDown
    <3> QED BY <2>3, <3>1, <3>2, <3>3, <3>4, <3>5, <3>6, <3>7, <3>8 DEF GoesOn
  <2>4. CASE Boot
    BY <2>4 DEF Boot, history
  <2>5. CASE PowerLoss
    BY <2>5 DEF PowerLoss, GoDown
  <2>6. CASE UNCHANGED vars
    BY <2>6 DEF vars
  <2> QED BY <2>1, <2>2, <2>3, <2>4, <2>5, <2>6 DEF Next
<1> QED BY <1>1, <1>2, PTL DEF Spec

-----------------------------------------------------------------------------
\* What is being restored is complete, is not made anew, and stays until it is
\* unpacked.  RestoreInv is inductive: whoever would make a backup of a part of /etc,
\* or restore one that is missing or unfinished, is seen by cut, met or misled.
THEOREM Restores == Spec => []RestoreInv
<1> USE DEF Proc, Goto, Restoring, Complete, Undisturbed
<1>1. Init => RestoreInv
  BY DEF Init, RestoreInv
<1>2. TypeOK /\ RestoreInv /\ [Next]_vars => RestoreInv'
  <2> SUFFICES ASSUME TypeOK, RestoreInv, [Next]_vars PROVE RestoreInv'
    OBVIOUS
  <2> USE ProcAssumption DEF RestoreInv
  <2>0. /\ step \in [Proc -> Step]
        /\ step[op] \notin {"grace", "rewrite", "leaving", "fallback"}
        /\ etc \in Etc /\ backup \in Etc \cup {"missing"}
        /\ {cut, met, misled} \subseteq BOOLEAN
    BY DEF TypeOK
  <2>1. CASE SafeReboot
    BY <2>0, <2>1 DEF SafeReboot, Operator, history
  <2>2. CASE BackupEtc
    <3>1. UNCHANGED <<etc, run, cut, met, misled>>
      BY <2>2 DEF BackupEtc, history
    <3>2. Undisturbed => \A p \in Proc : step[p] \notin Restoring
      BY <2>2 DEF BackupEtc
    <3> QED BY <2>0, <2>2, <3>1, <3>2 DEF BackupEtc, Etc
  <2>3. CASE Cancel \/ CancelScript \/ BackupFails \/ ArmFails
    BY <2>0, <2>3 DEF Cancel, CancelScript, BackupFails, ArmFails, Operator, history
  <2>4. ASSUME NEW t \in Timer, Arm(t) PROVE RestoreInv'
    BY <2>0, <2>4 DEF Arm
  <2>5. CASE CancelBackup
    BY <2>0, <2>5 DEF CancelBackup, Meet
  <2>6. CASE CancelTimer
    BY <2>0, <2>6 DEF CancelTimer, Killable, history
  <2>7. CASE Now \/ Discard
    BY <2>0, <2>7 DEF Now, Discard, Operator, Rely, Etc
  <2>8. CASE DeleteBackup
    BY <2>0, <2>8 DEF DeleteBackup, Operator, Meet
  <2>9. CASE Edit \/ Risk
    BY <2>0, <2>9 DEF Edit, Risk, Operator, Rely
  <2>10. ASSUME NEW p \in Proc, RmOldScript(p) \/ GraceOver(p) PROVE RestoreInv'
    BY <2>0, <2>10 DEF RmOldScript, GraceOver, history
  <2>11. ASSUME NEW p \in Proc, FallbackOver(p) PROVE RestoreInv'
    BY <2>0, <2>11 DEF FallbackOver, Rely, Etc
  <2>12. ASSUME NEW p \in Proc, RmScript(p) \/ RmEtc(p) PROVE RestoreInv'
    BY <2>0, <2>12 DEF RmScript, RmEtc, history
  <2>13. ASSUME NEW p \in Proc, Untar(p) PROVE RestoreInv'
    BY <2>0, <2>13 DEF Untar, history
  <2>14. ASSUME NEW p \in Proc, RmBackup(p) PROVE RestoreInv'
    BY <2>0, <2>14 DEF RmBackup, Meet
  <2>15. ASSUME NEW p \in Proc, Reboot(p) PROVE RestoreInv'
    BY <2>0, <2>15 DEF Reboot, GoDown
  <2>16. CASE Boot
    <3>1. run' # "off"
      BY <2>16 DEF Boot, TypeOK, Etc
    <3>2. CASE script /\ backup # "missing"
      BY <2>0, <2>16, <3>1, <3>2 DEF Boot, history
    <3>3. CASE ~ (script /\ backup # "missing")
      BY <2>16, <3>1, <3>3 DEF Boot, history
    <3> QED BY <3>2, <3>3
  <2>17. CASE PowerLoss
    BY <2>0, <2>17 DEF PowerLoss, GoDown
  <2>18. CASE UNCHANGED vars
    BY <2>18 DEF vars
  <2> QED
    BY <2>1, <2>2, <2>3, <2>4, <2>5, <2>6, <2>7, <2>8, <2>9, <2>10, <2>11, <2>12,
       <2>13, <2>14, <2>15, <2>16, <2>17, <2>18
    DEF Next, Commands, GoesOn
<1> QED BY <1>1, <1>2, TypeCorrect, PTL DEF Spec

\* However many timers are left over, and whatever the operator does meanwhile,
\* /etc is complete or about to be unpacked from a backup that is: as long as the
\* power stays during a restore, and nobody takes the backup away just then or goes
\* on with one that failed.
THEOREM EtcNeverLost == Spec => []EtcOrBackup
<1>1. RestoreInv => EtcOrBackup
  BY DEF RestoreInv, EtcOrBackup, Undisturbed, Restoring
<1> QED BY <1>1, Restores, PTL

\* A configuration the operator has kept is not touched until he makes another
\* backup: whoever removes or unpacks /etc has one, by RestoreInv.
THEOREM KeptStays == Spec => KeptIsKept
<1>1. TypeOK /\ RestoreInv /\ [Next]_vars => [etc' # etc => backup # "missing" \/ met]_vars
  <2> SUFFICES ASSUME TypeOK, RestoreInv, Next, etc' # etc, ~ met
               PROVE  backup # "missing"
    OBVIOUS
  <2>1. CASE Commands
    BY <2>1 DEF Commands, SafeReboot, BackupEtc, BackupFails, Now, Arm, ArmFails, Cancel,
          CancelBackup, CancelScript, CancelTimer, Discard, DeleteBackup
  <2>2. CASE Edit \/ Risk
    BY <2>2 DEF Edit, Risk
  <2>3. \A p \in Proc : step[p] \in Restoring => backup # "missing"
    BY DEF RestoreInv
  <2>4. ASSUME NEW p \in Proc, GoesOn(p) PROVE step[p] \in Restoring
    BY <2>4 DEF GoesOn, RmOldScript, GraceOver, FallbackOver, RmScript, RmEtc, Untar, RmBackup,
          Reboot, Restoring
  <2>5. CASE PowerLoss
    BY <2>3, <2>5 DEF PowerLoss, Restoring
  <2>6. CASE Boot
    BY <2>6 DEF Boot
  <2> QED BY <2>1, <2>2, <2>3, <2>4, <2>5, <2>6 DEF Next
<1> QED BY <1>1, TypeCorrect, Restores, PTL DEF Spec, KeptIsKept

-----------------------------------------------------------------------------
\* While the promise is kept and nobody unpacks, /etc is what the device boots.
LEMMA ConfigIsEtc ==
    ASSUME RestoreInv, Undisturbed, \A p \in Proc : step[p] # "untar"
    PROVE  etc \in Complete /\ Config = etc
BY DEF RestoreInv, Config

\* Whoever restores has a complete backup, and it is the one that is saved.
LEMMA SavedIsBackup ==
    ASSUME RestoreInv, Undisturbed, NEW p \in Proc, step[p] \in Restoring
    PROVE  backup \in Complete /\ Saved = backup
BY DEF RestoreInv, Saved

\* A backup somebody may rely on is the one that is saved.
LEMMA ReliedOnIsSaved ==
    ASSUME TypeOK, backup # "missing", Rely, ~ misled'
    PROVE  Saved # "missing"
BY DEF TypeOK, Rely, Saved, Etc, Complete

\* Taking the backup away from nobody who restores it drops what is saved.
LEMMA TakenIsDropped ==
    ASSUME TypeOK, RestoreInv, Undisturbed, ~ met', NEW p \in Proc,
           step[p] \notin Restoring,
           backup' = "missing", Meet(p), UNCHANGED <<etc, run, cut, misled>>
    PROVE  Promised!Next
<1>1. \A q \in Proc : step[q] \notin Restoring
  BY DEF Meet
<1>2. etc \in Complete /\ Config = etc
  BY <1>1, ConfigIsEtc DEF Restoring
<1>3. Config' = Config /\ Saved' = "missing"
  BY <1>2 DEF Config, Saved, Complete
<1>4. Undisturbed' = Undisturbed
  BY DEF Undisturbed
<1> QED BY <1>3, <1>4 DEF Promised!Next, Promised!Drop

\* What was disturbed stays so.
LEMMA DisturbedStays ==
    ASSUME TypeOK, [Next]_vars, Undisturbed'
    PROVE  Undisturbed
<1> USE DEF Undisturbed
<1>0. cut \in BOOLEAN /\ met \in BOOLEAN /\ misled \in BOOLEAN
  BY DEF TypeOK
<1>1. CASE Commands \/ Edit \/ Risk
  BY <1>0, <1>1 DEF Commands, SafeReboot, BackupEtc, BackupFails, Now, Arm, ArmFails, Cancel,
    CancelBackup, CancelScript, CancelTimer, Discard, DeleteBackup, Meet, Rely, Edit, Risk,
    history
<1>2. ASSUME NEW p \in Proc, GoesOn(p) PROVE Undisturbed
  BY <1>0, <1>2 DEF GoesOn, RmOldScript, GraceOver, FallbackOver, RmScript, RmEtc, Untar,
    RmBackup, Meet, Rely, Reboot, GoDown, history
<1>3. CASE Boot \/ UNCHANGED vars
  BY <1>3 DEF Boot, vars, history
<1>4. CASE PowerLoss
  BY <1>0, <1>4 DEF PowerLoss, GoDown
<1> QED BY <1>1, <1>2, <1>3, <1>4 DEF Next

\* Each step of safe-reboot is a step of TryConfig, or changes nothing it speaks
\* of.
LEMMA StepTries ==
    ASSUME TypeOK, RestoreInv, [Next]_vars
    PROVE  Promised!Next \/ UNCHANGED Promised!vars
<1> USE ProcAssumption
<1>0. step \in [Proc -> Step] /\ op \in Proc
  BY DEF TypeOK, Proc
<1>v. ASSUME ~ Undisturbed' PROVE Promised!Next
  BY <1>v DEF Promised!Next, Promised!Void
<1> SUFFICES ASSUME Undisturbed'
             PROVE  Promised!Next \/ UNCHANGED Promised!vars
  BY <1>v
<1>k. Undisturbed
  BY DisturbedStays
<1>n. ~ met' /\ ~ misled' /\ ~ cut'
  BY DEF Undisturbed
<1>1. CASE SafeReboot
  <2>1. \A p \in Proc : step[p] # "untar"
    BY <1>1, <1>k DEF SafeReboot, RestoreInv, Restoring, Complete
  <2>2. UNCHANGED <<Config, run>> /\ etc \in Complete
    BY <1>1, <1>k, <2>1, ConfigIsEtc DEF SafeReboot, Config
  <2>3. Saved = "missing" /\ Saved' = "missing"
    BY <1>1 DEF SafeReboot, Saved, Complete
  <2> QED BY <1>1, <1>k, <2>2, <2>3 DEF Promised!vars
<1>2. CASE BackupEtc
  <2>1. backup \notin Complete /\ \A p \in Proc : step[p] \notin Restoring
    BY <1>0, <1>2, <1>k DEF BackupEtc, RestoreInv
  <2>2. etc \in Complete /\ Config = etc /\ Config' = Config
    BY <1>2, <1>k, <2>1, ConfigIsEtc DEF BackupEtc, Config, Restoring
  <2>3. Saved = "missing" /\ UNCHANGED run
    BY <1>2, <2>1 DEF BackupEtc, Saved
  <2>4. CASE backup = "missing"
    BY <1>2, <1>k, <2>2, <2>3, <2>4 DEF BackupEtc, Saved, Complete, Promised!vars
  <2>5. CASE backup # "missing"
    <3>1. Saved' = etc
      BY <1>2, <2>2, <2>5 DEF BackupEtc, Saved
    <3> QED BY <1>k, <2>2, <2>3, <3>1 DEF Promised!Next, Promised!Save
  <2> QED BY <2>4, <2>5
<1>3. CASE \/ BackupFails \/ Now \/ (\E t \in Timer : Arm(t)) \/ ArmFails
           \/ Cancel \/ CancelScript \/ CancelTimer \/ Discard
  <2>2. UNCHANGED <<etc, backup, run>>
    BY <1>3 DEF BackupFails, Now, Arm, ArmFails, Cancel, CancelScript, CancelTimer, Discard
  <2> QED BY <1>k, <2>2 DEF Config, Saved, Promised!vars
<1>4. CASE CancelBackup
  BY <1>0, <1>4, <1>k, <1>n, TakenIsDropped DEF CancelBackup, Restoring
<1>5. CASE DeleteBackup
  BY <1>0, <1>5, <1>k, <1>n, TakenIsDropped DEF DeleteBackup, Operator, Restoring
<1>6. CASE Edit
  <2>1. Config' \in Complete
    BY <1>6 DEF Edit, Config
  <2>2. Saved # "missing" /\ Saved' = Saved
    BY <1>6, <1>n, ReliedOnIsSaved DEF Edit, Saved
  <2> QED BY <1>6, <1>k, <2>1, <2>2 DEF Edit, Promised!Next, Promised!Edit
<1>7. CASE Risk
  <2>1. Saved # "missing" /\ UNCHANGED <<Config, Saved>>
    BY <1>7, <1>n, ReliedOnIsSaved DEF Risk, Saved, Config
  <2> QED BY <1>7, <1>k, <2>1 DEF Risk, Promised!Next, Promised!Risk
<1>8. ASSUME NEW p \in Proc,
             RmOldScript(p) \/ GraceOver(p) \/ FallbackOver(p) \/ RmScript(p)
      PROVE  UNCHANGED Promised!vars
  <2>2. UNCHANGED <<etc, backup, run>>
    BY <1>8 DEF RmOldScript, GraceOver, FallbackOver, RmScript
  <2> QED BY <1>k, <2>2 DEF Config, Saved, Promised!vars
<1>9. ASSUME NEW p \in Proc, RmEtc(p) \/ Untar(p) PROVE Promised!Next
  <2>1. backup \in Complete /\ Saved = backup
    BY <1>9, <1>k, SavedIsBackup DEF RmEtc, Untar, Restoring
  <2>2. Config' = backup
    BY <1>9, <2>1 DEF RmEtc, Untar, Config, Complete
  <2>3. Saved' = Saved /\ UNCHANGED run
    BY <1>9 DEF RmEtc, Untar, Saved
  <2> QED BY <1>k, <2>1, <2>2, <2>3
          DEF Complete, Promised!Next, Promised!Restore
<1>10. ASSUME NEW p \in Proc, RmBackup(p) PROVE Promised!Next
  BY <1>10, <1>k, <1>n, TakenIsDropped DEF RmBackup, Restoring
<1>11. CASE PowerLoss \/ \E p \in Proc : Reboot(p)
  <2>1. \A p \in Proc : step[p] \notin Restoring
    BY <1>11, <1>n DEF PowerLoss, Reboot, GoDown
  <2>2. etc \in Complete /\ Config = etc
    BY <1>k, <2>1, ConfigIsEtc DEF Restoring
  <2>3. UNCHANGED <<etc, backup>> /\ run' = "off"
    <3>1. CASE PowerLoss
      <4>1. ~ \E p \in Proc : step[p] \in {"rm_etc", "untar"}
        BY <2>1 DEF Restoring
      <4> QED BY <3>1, <4>1 DEF PowerLoss, GoDown
    <3>2. CASE \E p \in Proc : Reboot(p)
      BY <3>2 DEF Reboot, GoDown
    <3> QED BY <1>11, <3>1, <3>2
  <2>4. Config' = Config /\ Saved' = Saved
    BY <2>2, <2>3 DEF Config, Saved
  <2> QED BY <1>k, <2>3, <2>4 DEF Promised!Next, Promised!GoDown
<1>12. CASE Boot
  <2>1. \A p \in Proc : step[p] = "idle"
    BY <1>12, <1>k DEF Boot, RestoreInv
  <2>2. etc \in Complete /\ Config = etc
    BY <1>k, <2>1, ConfigIsEtc
  <2>3. Config' = Config /\ Saved' = Saved
    BY <1>12, <2>2 DEF Boot, Config, Saved
  <2> QED BY <1>12, <1>k, <2>2, <2>3 DEF Boot, Promised!Next, Promised!Boot
<1>13. CASE UNCHANGED vars
  BY <1>13, <1>k DEF vars, Config, Saved, Promised!vars
<1> QED
  BY <1>1, <1>2, <1>3, <1>4, <1>5, <1>6, <1>7, <1>8, <1>9, <1>10, <1>11, <1>12, <1>13
  DEF Next, Commands, GoesOn

\* safe-reboot keeps the promise in its usage text: a configuration is saved, tried,
\* and kept or replaced by the one saved, each at once, whatever timers are left,
\* until the power fails while a backup is restored, somebody takes it away then, or
\* somebody goes on with one that failed.
THEOREM ImplementsTryConfig == Spec => TriesWithBackup
<1>1. Init => Promised!Init
  BY DEF Init, Promised!Init, Config, Saved, Complete, Proc, Undisturbed
<1>2. TypeOK /\ RestoreInv /\ [Next]_vars => [Promised!Next]_(Promised!vars)
  BY StepTries
<1> QED BY <1>1, <1>2, TypeCorrect, Restores, PTL
        DEF Spec, TriesWithBackup, Promised!Spec
===============================================================================
