-------------------------- MODULE SafeUpgradeProofs --------------------------
(***************************************************************************)
(* Proofs about SafeUpgrade, for any number of commands at a time: the     *)
(* types, that power may be lost at any moment, and that SafeUpgrade       *)
(* implements TrialBoot.                                                   *)
(***************************************************************************)
EXTENDS SafeUpgradeTrial, TLAPS

\* Every variable keeps its type: commands only name partitions 1 and 2, and
\* nothing but 0, 1 or 2 is ever stored as the partition under test.
THEOREM TypeCorrect == Spec => []TypeOK
<1>1. Init => TypeOK
  <2>1. NoJob \in Job /\ On(1, 1) \in System /\ "idle" \in Step
    BY DEF NoJob, Job, On, System, Image, Part, Step
  <2>2. [stable |-> NoPart, testing |-> NoPart, boot |-> {},
         version |-> FALSE, script |-> FALSE] \in Env
    BY DEF Env
  <2> QED BY <2>1, <2>2, ZenonT(60) DEF Init, TypeOK
<1>2. TypeOK /\ [Next]_vars => TypeOK'
  <2> SUFFICES ASSUME TypeOK, [Next]_vars PROVE TypeOK'
    OBVIOUS
  <2>0. NoJob \in Job /\ Off \in System /\ (\A p \in Part : Other(p) \in Part)
    BY DEF NoJob, Job, Off, System, Image, Part, Other
  <2>1. CASE Boot
    <3>1. ScriptBoots(Picked) \in System /\ StockBoots \in System
      BY DEF ScriptBoots, StockBoots, System, On, Stuck, Part
    <3>2. env' \in Env
      BY <2>1 DEF Boot, TypeOK, Env
    <3>3. timer' \in BOOLEAN
      BY <2>1, <3>1 DEF Boot, Alive, Current, TypeOK, System
    <3> QED BY <2>1, <3>1, <3>2, <3>3 DEF Boot, TypeOK
  <2>2. ASSUME GoDown, flash' \in [Part -> Image],
               UNCHANGED <<auto, env, risky, guarded>>
        PROVE  TypeOK'
    BY <2>0, <2>2 DEF GoDown, TypeOK, Step
  <2>3. CASE PowerLoss
    BY <2>2, <2>3 DEF PowerLoss, TypeOK, Image
  <2>4. CASE AutoReboot
    BY <2>2, <2>4 DEF AutoReboot, TypeOK
  <2>5. ASSUME NEW p \in Proc, Bootstrap(p) \/ BootstrapWrites(p) PROVE TypeOK'
    <3>1. env' \in Env
      <4>1. /\ env \in Env
            /\ [env EXCEPT !.stable = 1] \in Env
            /\ [env EXCEPT !.testing = 0] \in Env
            /\ [env EXCEPT !.boot = @ \cup {1}] \in Env
            /\ [env EXCEPT !.version = TRUE] \in Env
            /\ [env EXCEPT !.script = TRUE] \in Env
        BY DEF TypeOK, Env, Part
      <4> QED BY <2>5, <4>1 DEF Bootstrap, BootstrapWrites
    <3> QED BY <2>5, <3>1 DEF Bootstrap, BootstrapWrites, Goto, TypeOK, Step
  <2>6. ASSUME NEW p \in Proc, NEW img \in Image, NEW safety \in BOOLEAN,
               NEW reboot \in BOOLEAN, Upgrade(p, img, safety, reboot)
        PROVE  TypeOK'
    <3>1. Other(Current) \in Part
      BY <2>0 DEF TypeOK, System, Current
    <3>2. job' \in [Proc -> Job]
      BY <2>6, <3>1 DEF Upgrade, TypeOK, Job
    <3>3. risky' \in BOOLEAN
      BY <2>6 DEF Upgrade, TypeOK
    <3> QED BY <2>6, <3>2, <3>3 DEF Upgrade, Goto, TypeOK, Step
  <2>7. ASSUME NEW p \in Proc, Erase(p) \/ WriteFirmware(p) PROVE TypeOK'
    <3>1. job[p].other \in Part /\ job[p].img \in Image /\ job[p].safety \in BOOLEAN
          /\ "junk" \in Image
      BY DEF TypeOK, Job, Image
    <3> QED BY <2>7, <3>1 DEF Erase, WriteFirmware, Goto, TypeOK, Step
  <2>8. ASSUME NEW p \in Proc, SetBoot(p) \/ SetTesting(p) PROVE TypeOK'
    <3>1. job[p].other \in Part
      BY DEF TypeOK, Job
    <3>2. env' \in Env
      BY <2>8, <3>1 DEF SetBoot, SetTesting, TypeOK, Env
    <3> QED BY <2>0, <2>8, <3>2 DEF SetBoot, SetTesting, Goto, TypeOK, Step
  <2>9. ASSUME NEW p \in Proc, Reboot(p) PROVE TypeOK'
    BY <2>2, <2>9 DEF Reboot, TypeOK
  <2>10. ASSUME NEW p \in Proc, ConfirmSteps(p) PROVE TypeOK'
    <3>1. Current \in Part
      BY DEF TypeOK, System, Current
    <3>2. env' \in Env
      BY <2>10, <3>1 DEF ConfirmSteps, Confirm, StopAutoReboot, SetStable, TypeOK, Env
    <3> QED BY <2>10, <3>1, <3>2
            DEF ConfirmSteps, Confirm, StopAutoReboot, SetStable, Goto, TypeOK, Step
  <2>11. ASSUME NEW p \in Proc, TestOtherPartition(p) PROVE TypeOK'
    <3>1. Other(Current) \in Part
      BY <2>0 DEF TypeOK, System, Current
    <3>2. env' \in Env
      BY <2>11, <3>1 DEF TestOtherPartition, TypeOK, Env
    <3> QED BY <2>11, <3>2 DEF TestOtherPartition, TypeOK
  <2>12. CASE UNCHANGED vars
    BY <2>12 DEF TypeOK, vars
  <2> QED BY <2>1, <2>3, <2>4, <2>5, <2>6, <2>7, <2>8, <2>9, <2>10, <2>11, <2>12
          DEF Next, UpgradeSteps
<1> QED BY <1>1, <1>2, PTL DEF Spec

-----------------------------------------------------------------------------
(* The inductive invariant behind FallbackIsGood. *)

Installing(p) ==
    step[p] \in {"stable", "testing", "addrs", "boot_1", "su_version", "bootcmd"}
Writing(p) == step[p] \in {"erase", "write", "set_boot", "set_testing", "reboot"}
Confirming(p) == step[p] \in {"stop", "set_stable"}

\* The environment is filled in the order bootstrap, upgrade and confirm keep.
EnvironmentOrder ==
    /\ env.version => env.stable \in Part
    /\ env.script => env.version
    /\ env.stable = 2 => env.script /\ 2 \in env.boot
    /\ risky => env.version

\* What runs was started by what the environment held.
RunningOrder ==
    up.state = "on" =>
       /\ ~ env.script => up = On(1, 1)
       /\ \/ up = On(1, 1)
          \/ up = On(2, 2) /\ 2 \in env.boot
          \/ up = On(2, 1) /\ env.stable # 2

\* The partition to fall back to is good, while nobody takes risks.
FallbackKept ==
    ~ risky => flash[FallbackPart] = "good" /\ ~ auto[FallbackPart]

\* What each command under way can count on.
CommandOrder ==
    \A p \in Proc :
       /\ Installing(p) => /\ up = On(1, 1)
                           /\ env.stable # 2
                           /\ step[p] # "stable" => env.stable = 1
                           /\ step[p] = "bootcmd" => env.version
       /\ Writing(p) => /\ env.version /\ up.state = "on"
                        /\ job[p].other = Other(Current)
                        /\ risky \/ Current = env.stable
       /\ Confirming(p) => /\ env.version /\ up.state = "on"
                           /\ up.kernel = up.root
                           /\ flash[Current] = "good"
       /\ step[p] = "set_stable" => ~ auto[Current]

PowerInv == EnvironmentOrder /\ RunningOrder /\ FallbackKept /\ CommandOrder

\* The order of writes in bootstrap, upgrade and confirm keeps PowerInv, through
\* commands that run at the same time, resets and power losses: whoever writes a
\* partition writes the one that does not run, and whoever confirms a partition
\* has disarmed its automatic reboot first.
LEMMA PowerInvStep == TypeOK /\ PowerInv /\ [Next]_vars => PowerInv'
<1> SUFFICES ASSUME TypeOK, PowerInv, [Next]_vars PROVE PowerInv'
  OBVIOUS
<1> USE ConstantAssumption DEF PowerInv
<1>0. /\ env.stable \in {1, 2, NoPart} /\ NoPart \notin {1, 2}
      /\ env.version \in BOOLEAN /\ env.script \in BOOLEAN /\ risky \in BOOLEAN
      /\ up.root \in {1, 2} /\ up.kernel \in {1, 2}
      /\ \A p \in Proc : step[p] \in Step
  BY DEF TypeOK, Env, System, Part
<1>1. CASE Boot
  <2>1. \A p \in Proc : ~ Installing(p) /\ ~ Writing(p) /\ ~ Confirming(p)
    BY <1>1 DEF Boot, CommandOrder, Off, On
  <2>2. UNCHANGED <<flash, auto, step, risky>>
    BY <1>1 DEF Boot
  <2>3. /\ env'.stable = env.stable /\ env'.version = env.version
        /\ env'.script = env.script /\ env'.boot = env.boot
    BY <1>1 DEF Boot, TypeOK, Env
  <2>4. up' \in {On(1, 1), Stuck}
        \/ (env.script /\ up' = On(2, 2) /\ 2 \in env.boot)
        \/ (env.script /\ up' = On(2, 1) /\ 2 \notin env.boot)
    BY <1>1 DEF Boot, ScriptBoots, StockBoots
  <2>5. CommandOrder'
    BY <2>1, <2>2 DEF CommandOrder, Installing, Writing, Confirming
  <2>6. RunningOrder'
    BY <2>3, <2>4 DEF RunningOrder, EnvironmentOrder, On, Stuck
  <2> QED BY <2>2, <2>3, <2>5, <2>6 DEF EnvironmentOrder, FallbackKept, FallbackPart
<1>2. ASSUME GoDown, UNCHANGED <<auto, env, risky>>,
             ~ risky => flash'[FallbackPart] = flash[FallbackPart]
      PROVE  PowerInv'
  <2>1. up'.state # "on" /\ (\A p \in Proc : step'[p] = "idle")
    BY <1>2 DEF GoDown, Off
  <2>2. CommandOrder' /\ RunningOrder'
    BY <2>1 DEF CommandOrder, RunningOrder, Installing, Writing, Confirming
  <2> QED BY <1>2, <2>2 DEF EnvironmentOrder, FallbackKept, FallbackPart
<1>3. CASE PowerLoss
  <2>1. ASSUME ~ risky, NEW p \in Proc, step[p] = "write"
        PROVE  job[p].other # FallbackPart
    BY <1>0, <2>1 DEF CommandOrder, Writing, FallbackPart, Other, Current
  <2>2. FallbackPart \in Part
    BY <1>0 DEF FallbackPart, EnvironmentOrder, Part
  <2>3. ~ risky => flash'[FallbackPart] = flash[FallbackPart]
    BY <1>3, <2>1, <2>2 DEF PowerLoss
  <2> QED BY <1>2, <1>3, <2>3 DEF PowerLoss
<1>4. CASE AutoReboot
  BY <1>2, <1>4 DEF AutoReboot
<1>5. ASSUME NEW p \in Proc, Bootstrap(p) PROVE PowerInv'
  <2>1. up = On(1, 1) /\ env.stable # 2
    BY <1>0, <1>5 DEF Bootstrap, Usable, RunningOrder, EnvironmentOrder
  <2>2. UNCHANGED <<flash, auto, env, up, job, risky>>
        /\ step' = [step EXCEPT ![p] = "stable"]
    BY <1>5 DEF Bootstrap, Goto
  <2>3. CommandOrder'
    <3> SUFFICES ASSUME NEW q \in Proc
                 PROVE  /\ Installing(q)' => /\ up = On(1, 1)
                                             /\ env.stable # 2
                                             /\ step'[q] # "stable" => env.stable = 1
                                             /\ step'[q] = "bootcmd" => env.version
                        /\ q # p => step'[q] = step[q]
                        /\ q = p => step'[q] = "stable"
      BY <2>2 DEF CommandOrder, Installing, Writing, Confirming, Current
    <3> QED BY <2>1, <2>2 DEF CommandOrder, Installing, TypeOK
  <2> QED BY <2>2, <2>3 DEF EnvironmentOrder, RunningOrder, FallbackKept, FallbackPart
<1>6. ASSUME NEW p \in Proc, BootstrapWrites(p) PROVE PowerInv'
  <2>1. /\ Installing(p) /\ up = On(1, 1) /\ env.stable # 2
        /\ step[p] # "stable" => env.stable = 1
        /\ step[p] = "bootcmd" => env.version
    BY <1>6 DEF BootstrapWrites, CommandOrder, Installing
  <2>2. /\ UNCHANGED <<flash, auto, up, job, risky>>
        /\ env'.boot = env.boot \/ env'.boot = env.boot \cup {1}
        /\ env'.stable = env.stable \/ env'.stable = 1
        /\ env.version => env'.version
        /\ step[p] = "stable" => env'.stable = 1
        /\ step[p] = "su_version" => env'.version
        /\ env'.version # env.version => step[p] = "su_version"
        /\ env'.script # env.script => step[p] = "bootcmd"
        /\ env.script => env'.script
        /\ env'.version \in BOOLEAN /\ env'.script \in BOOLEAN
    BY <1>0, <1>6 DEF BootstrapWrites, TypeOK, Env
  <2>3. EnvironmentOrder'
    BY <1>0, <2>1, <2>2 DEF EnvironmentOrder, Part
  <2>4. RunningOrder'
    BY <2>1, <2>2 DEF RunningOrder
  <2>5. FallbackKept'
    <3>1. FallbackPart' = FallbackPart
      BY <1>0, <2>1, <2>2 DEF FallbackPart, EnvironmentOrder, Part
    <3> QED BY <2>2, <3>1 DEF FallbackKept
  <2>6. CommandOrder'
    <3> SUFFICES ASSUME NEW q \in Proc
                 PROVE  /\ Installing(q)' => /\ env'.stable # 2
                                             /\ step'[q] # "stable" => env'.stable = 1
                                             /\ step'[q] = "bootcmd" => env'.version
                        /\ Writing(q)' => /\ Writing(q) /\ env'.version
                                          /\ risky \/ Current = env'.stable
                        /\ Confirming(q)' => Confirming(q) /\ env'.version
                        /\ step'[q] = "set_stable" => step[q] = "set_stable"
      BY <2>1, <2>2 DEF CommandOrder, Current
    <3>1. q # p => step'[q] = step[q]
      BY <1>6 DEF BootstrapWrites, Goto, TypeOK
    <3>2. /\ step'[p] \in {"testing", "addrs", "boot_1", "su_version", "bootcmd", "idle"}
          /\ step'[p] = "bootcmd" => step[p] = "su_version"
      BY <1>6 DEF BootstrapWrites, Goto, TypeOK
    <3>3. env'.stable = 1 \/ (env'.stable = env.stable /\ step[p] # "stable")
      BY <1>0, <2>2
    <3>4. CASE q = p
      BY <2>1, <2>2, <3>2, <3>3, <3>4 DEF Installing, Writing, Confirming
    <3>5. CASE q # p
      BY <2>1, <2>2, <3>1, <3>3, <3>5
         DEF CommandOrder, Installing, Writing, Confirming, Current, On
    <3> QED BY <3>4, <3>5
  <2> QED BY <2>3, <2>4, <2>5, <2>6
\* A step of p that leaves what runs and the stable partition alone, does not
\* write the current partition, and clears no variable.
<1>7. ASSUME NEW p \in Proc,
             up' = up, env'.stable = env.stable, env'.version = env.version,
             env'.script = env.script, env.boot \subseteq env'.boot,
             risky' = (risky \/ (env.version /\ Current # env.stable)) \/ risky' = risky,
             \A q \in Part : ~ Writing(p) \/ q # job[p].other =>
                              flash'[q] = flash[q] /\ (auto'[q] => auto[q]),
             \A q \in Proc \ {p} : step'[q] = step[q] /\ job'[q] = job[q],
             ~ Installing(p)',
             Writing(p)' => /\ env.version /\ up.state = "on"
                            /\ job'[p].other = Other(Current)
                            /\ risky' \/ Current = env.stable,
             Confirming(p)' => /\ env.version /\ up.state = "on"
                               /\ up.kernel = up.root /\ flash[Current] = "good"
                               /\ ~ Writing(p),
             step'[p] = "set_stable" => ~ auto'[Current]
      PROVE  PowerInv'
  <2>0. risky => risky'
    BY <1>0, <1>7
  <2>1. Current \in Part /\ (Writing(p) => job[p].other # Current)
    BY <1>0 DEF CommandOrder, Current, Other, Part
  <2>2. flash'[Current] = flash[Current] /\ (auto'[Current] => auto[Current])
    BY <1>7, <2>1
  <2>3. ~ risky => flash'[FallbackPart] = flash[FallbackPart]
                   /\ (auto'[FallbackPart] => auto[FallbackPart])
    <3>1. FallbackPart \in Part
      BY <1>0 DEF FallbackPart, EnvironmentOrder, Part
    <3>2. ~ risky /\ Writing(p) => job[p].other # FallbackPart
      BY <1>0 DEF CommandOrder, FallbackPart, Current, Other
    <3> QED BY <1>7, <3>1, <3>2
  <2>4. EnvironmentOrder'
    BY <1>0, <1>7 DEF EnvironmentOrder
  <2>5. RunningOrder'
    BY <1>7 DEF RunningOrder
  <2>6. FallbackKept'
    BY <1>7, <2>0, <2>3 DEF FallbackKept, FallbackPart
  <2>7. CommandOrder'
    <3> SUFFICES ASSUME NEW q \in Proc
                 PROVE  /\ Installing(q)' => Installing(q) /\ step'[q] = step[q]
                        /\ Writing(q)' => /\ env.version /\ up.state = "on"
                                          /\ job'[q].other = Other(Current)
                                          /\ risky' \/ Current = env.stable
                        /\ Confirming(q)' => /\ env.version /\ up.state = "on"
                                             /\ up.kernel = up.root
                                             /\ flash[Current] = "good"
                        /\ step'[q] = "set_stable" => ~ auto'[Current]
      BY <1>7, <2>2 DEF CommandOrder, Current
    <3>1. CASE q = p
      BY <1>7, <3>1
    <3>2. CASE q # p
      BY <1>7, <2>0, <2>2, <3>2 DEF CommandOrder, Installing, Writing, Confirming
    <3> QED BY <3>1, <3>2
  <2> QED BY <2>4, <2>5, <2>6, <2>7
<1>8. ASSUME NEW p \in Proc, NEW img \in Image, NEW safety \in BOOLEAN,
             NEW reboot \in BOOLEAN, Upgrade(p, img, safety, reboot)
      PROVE  PowerInv'
  <2>1. /\ UNCHANGED <<flash, auto, env, up>>
        /\ step'[p] = "erase" /\ job'[p].other = Other(Current)
        /\ \A q \in Proc \ {p} : step'[q] = step[q] /\ job'[q] = job[q]
        /\ risky' = (risky \/ Current # env.stable) /\ env.version
        /\ up.state = "on"
    BY <1>8 DEF Upgrade, Goto, Usable, TypeOK
  <2>2. risky' = (risky \/ (env.version /\ Current # env.stable))
    BY <2>1
  <2>3. risky' \/ Current = env.stable
    BY <2>1
  <2> QED BY <1>7, <2>1, <2>2, <2>3 DEF Installing, Writing, Confirming
<1>9. ASSUME NEW p \in Proc, Erase(p) \/ WriteFirmware(p) \/ SetBoot(p) \/ SetTesting(p)
      PROVE  PowerInv'
  <2>1. Writing(p) /\ UNCHANGED <<up, risky>>
    BY <1>9 DEF Erase, WriteFirmware, SetBoot, SetTesting, Writing
  <2>2. /\ env'.stable = env.stable /\ env'.version = env.version
        /\ env'.script = env.script /\ env.boot \subseteq env'.boot
    BY <1>9 DEF Erase, WriteFirmware, SetBoot, SetTesting, TypeOK, Env
  <2>3. \A q \in Part : q # job[p].other => flash'[q] = flash[q] /\ auto'[q] = auto[q]
    BY <1>9 DEF Erase, WriteFirmware, SetBoot, SetTesting, TypeOK
  <2>4. /\ \A q \in Proc \ {p} : step'[q] = step[q] /\ job'[q] = job[q]
        /\ step'[p] \in {"write", "set_boot", "set_testing", "reboot", "idle"}
        /\ step'[p] = "idle" \/ job'[p] = job[p]
    BY <1>9 DEF Erase, WriteFirmware, SetBoot, SetTesting, Goto, TypeOK
  <2>5. /\ env.version /\ up.state = "on" /\ job[p].other = Other(Current)
        /\ risky \/ Current = env.stable
    BY <2>1 DEF CommandOrder
  <2>6. ~ Installing(p)' /\ ~ Confirming(p)' /\ step'[p] # "set_stable"
        /\ (Writing(p)' => job'[p] = job[p])
    BY <2>4 DEF Installing, Writing, Confirming
  <2> QED BY <1>7, <2>1, <2>2, <2>3, <2>4, <2>5, <2>6
<1>10. ASSUME NEW p \in Proc, Reboot(p) PROVE PowerInv'
  BY <1>2, <1>10 DEF Reboot
<1>11. ASSUME NEW p \in Proc, Confirm(p) PROVE PowerInv'
  <2>1. /\ UNCHANGED <<flash, auto, env, up, job, risky>>
        /\ step[p] = "idle" /\ step'[p] = "stop"
        /\ \A q \in Proc \ {p} : step'[q] = step[q]
    BY <1>11 DEF Confirm, Goto, TypeOK
  <2>2. /\ env.version /\ up.state = "on" /\ flash[Current] = "good"
        /\ Current # env.stable
    BY <1>11 DEF Confirm, Usable, Current
  <2>3. up.kernel = up.root
    BY <1>0, <2>2 DEF RunningOrder, EnvironmentOrder, Current, On, Part
  <2> QED BY <1>7, <2>1, <2>2, <2>3 DEF Installing, Writing, Confirming
<1>12. ASSUME NEW p \in Proc, StopAutoReboot(p) PROVE PowerInv'
  <2>1. /\ UNCHANGED <<flash, env, up, job, risky>>
        /\ step[p] = "stop" /\ step'[p] = "set_stable"
        /\ \A q \in Proc \ {p} : step'[q] = step[q]
        /\ \A q \in Part : auto'[q] => auto[q]
        /\ ~ auto'[Current]
    BY <1>0, <1>12 DEF StopAutoReboot, Goto, TypeOK, Current, Part
  <2>2. /\ env.version /\ up.state = "on" /\ up.kernel = up.root
        /\ flash[Current] = "good"
    BY <2>1 DEF CommandOrder, Confirming
  <2> QED BY <1>7, <2>1, <2>2 DEF Installing, Writing, Confirming
<1>13. ASSUME NEW p \in Proc, SetStable(p) PROVE PowerInv'
  <2>1. /\ UNCHANGED <<flash, auto, up, job>> /\ risky' = FALSE
        /\ step[p] = "set_stable" /\ step'[p] = "idle"
        /\ \A q \in Proc \ {p} : step'[q] = step[q]
        /\ env'.stable = Current /\ env'.version = env.version
        /\ env'.script = env.script /\ env'.boot = env.boot
    BY <1>13 DEF SetStable, Goto, TypeOK, Env
  <2>2. /\ env.version /\ up.state = "on" /\ up.kernel = up.root
        /\ flash[Current] = "good" /\ ~ auto[Current] /\ Current \in {1, 2}
    BY <1>0, <2>1 DEF CommandOrder, Confirming, Current
  <2>3. EnvironmentOrder' /\ RunningOrder'
    BY <1>0, <2>1, <2>2 DEF EnvironmentOrder, RunningOrder, Current, On, Part
  <2>4. FallbackKept'
    BY <2>1, <2>2 DEF FallbackKept, FallbackPart
  <2>5. CommandOrder'
    <3> SUFFICES ASSUME NEW q \in Proc, q # p
                 PROVE  /\ step'[q] = step[q]
                        /\ Installing(q) => up = On(1, 1) /\ env'.stable = 1
      BY <2>1 DEF CommandOrder, Installing, Writing, Confirming, Current
    <3> QED BY <2>1 DEF CommandOrder, Current, On
  <2> QED BY <2>3, <2>4, <2>5
<1>14. ASSUME NEW p \in Proc, TestOtherPartition(p) PROVE PowerInv'
  <2>1. /\ UNCHANGED <<flash, auto, up, step, job, risky>> /\ step[p] = "idle"
        /\ env'.stable = env.stable /\ env'.version = env.version
        /\ env'.script = env.script /\ env'.boot = env.boot
    BY <1>14 DEF TestOtherPartition, TypeOK, Env
  <2> QED BY <1>7, <2>1 DEF Installing, Writing, Confirming
<1>15. CASE UNCHANGED vars
  BY <1>15 DEF vars, EnvironmentOrder, RunningOrder, FallbackKept, FallbackPart,
               CommandOrder, Installing, Writing, Confirming, Current
<1> QED BY <1>1, <1>3, <1>4, <1>5, <1>6, <1>8, <1>9, <1>10, <1>11, <1>12, <1>13,
           <1>14, <1>15
        DEF Next, UpgradeSteps, ConfirmSteps

\* A device as shipped may lose power.
LEMMA InitPowerInv == Init => PowerInv
BY ConstantAssumption
   DEF Init, PowerInv, EnvironmentOrder, RunningOrder, FallbackKept, FallbackPart,
       CommandOrder, Installing, Writing, Confirming, Part, On

\* Power may be lost at any moment: whatever commands run, the bootloader finds
\* a good firmware to fall back to, unless an upgrade was begun on a partition
\* nobody had confirmed.
THEOREM PowerLossIsSafe == Spec => []FallbackIsGood
<1>1. Init => PowerInv
  BY InitPowerInv
<1>2. TypeOK /\ PowerInv => FallbackIsGood
  <2> SUFFICES ASSUME TypeOK, PowerInv, ~ risky PROVE FallbackIsGood
    BY DEF FallbackIsGood
  <2> DEFINE s == FallbackPart
  <2>1. /\ s \in Part /\ (env.version => s = env.stable)
        /\ flash[s] = "good" /\ ~ auto[s]
        /\ s = 2 => env.script /\ 2 \in env.boot
        /\ env.script => s = env.stable
    BY DEF PowerInv, FallbackKept, FallbackPart, EnvironmentOrder, TypeOK, Env, Part
  <2>2. Fallback = On(s, s)
    <3>1. CASE s = 2
      <4>1. Fallback = ScriptBoots(2) /\ flash[2] # "junk" /\ 2 \in env.boot
        BY <2>1, <3>1 DEF Fallback
      <4> QED BY <3>1, <4>1 DEF ScriptBoots, On
    <3>2. CASE s = 1
      <4>1. Fallback \in {ScriptBoots(1), StockBoots} /\ flash[1] # "junk"
        BY <2>1, <3>2 DEF Fallback
      <4>2. ScriptBoots(1) = On(1, 1) /\ StockBoots = On(1, 1)
        BY <4>1 DEF ScriptBoots, StockBoots
      <4> QED BY <3>2, <4>1, <4>2
    <3> QED BY <2>1, <3>1, <3>2 DEF Part
  <2> QED BY <2>1, <2>2 DEF FallbackIsGood
<1> QED BY <1>1, <1>2, PowerInvStep, TypeCorrect, PTL DEF Spec

\* Whatever commands run at the same time: a partition becomes the stable one
\* while it runs, usable, and with its automatic reboot disarmed.
THEOREM StableIsWhatRuns == Spec => ConfirmsWhatRuns
<1>1. Init => PowerInv
  BY InitPowerInv
<1>2. TypeOK /\ PowerInv /\ [Next]_vars
        => [env'.stable # env.stable =>
              env'.stable = Current /\ Usable /\ ~ auto[Current]]_vars
  <2> SUFFICES ASSUME TypeOK, PowerInv, Next, env'.stable # env.stable
               PROVE  env'.stable = Current /\ Usable /\ ~ auto[Current]
    OBVIOUS
  <2>1. PICK p \in Proc : BootstrapWrites(p) \/ SetStable(p)
    <3>1. ASSUME NEW p \in Proc, env' # env,
                 UpgradeSteps(p) \/ ConfirmSteps(p) \/ TestOtherPartition(p) \/ Bootstrap(p)
          PROVE  SetStable(p)
      BY <3>1 DEF TypeOK, Env, UpgradeSteps, ConfirmSteps, TestOtherPartition, Bootstrap,
         Upgrade, Erase, WriteFirmware, SetBoot, SetTesting, Reboot, Confirm, StopAutoReboot
    <3>2. ~ Boot /\ ~ PowerLoss /\ ~ AutoReboot
      BY DEF TypeOK, Env, Boot, PowerLoss, AutoReboot
    <3> QED BY <3>1, <3>2 DEF Next
  <2>2. CASE SetStable(p)
    <3>1. env'.stable = Current /\ step[p] = "set_stable"
      BY <2>2 DEF SetStable, TypeOK, Env
    <3> QED BY <3>1 DEF PowerInv, CommandOrder, Confirming, Usable, Current
  <2>3. CASE BootstrapWrites(p)
    <3>1. step[p] = "stable" /\ env'.stable = 1
      BY <2>3 DEF BootstrapWrites, TypeOK, Env
    <3>2. up = On(1, 1) /\ env.stable # 2
      BY <3>1 DEF PowerInv, CommandOrder, Installing
    <3>3. ~ env.version /\ ~ risky
      BY <3>1, <3>2 DEF PowerInv, EnvironmentOrder, Part
    <3>4. flash[1] = "good" /\ ~ auto[1]
      BY <3>3 DEF PowerInv, FallbackKept, FallbackPart
    <3> QED BY <3>1, <3>2, <3>4 DEF Usable, Current, On
  <2> QED BY <2>1, <2>2, <2>3
<1> QED BY <1>1, <1>2, PowerInvStep, TypeCorrect, PTL DEF Spec, ConfirmsWhatRuns

-----------------------------------------------------------------------------
(* The refinement of TrialBoot. *)

\* Once bootstrap is past it, the partition under test is set, if only to 0; so
\* it is for the boot script.
TestingSet ==
    /\ env.script => env.testing # NoPart
    /\ \A p \in Proc : step[p] \in {"addrs", "boot_1", "su_version", "bootcmd"}
                        => env.testing # NoPart

\* Nothing ever unsets it.
LEMMA TestingStep == ASSUME TypeOK, TestingSet, [Next]_vars PROVE TestingSet'
<1> USE ConstantAssumption DEF Part
<1> DEFINE Late == {"addrs", "boot_1", "su_version", "bootcmd"}
<1>1. CASE Boot
  <2>1. env'.testing # NoPart \/ (env' = env /\ ~ env.script)
    BY <1>1 DEF Boot, TypeOK, Env
  <2> QED BY <1>1, <2>1 DEF Boot, TestingSet
<1>2. CASE GoDown /\ env' = env
  BY <1>2 DEF GoDown, TestingSet
<1>3. ASSUME NEW p \in Proc, BootstrapWrites(p) PROVE TestingSet'
  <2>1. /\ \A q \in Proc \ {p} : step'[q] = step[q]
        /\ step'[p] \in Late => step[p] = "testing" \/ step[p] \in Late
        /\ step[p] = "testing" => env'.testing = 0
        /\ step[p] # "testing" => env'.testing = env.testing
        /\ env'.script => env.script \/ step[p] = "bootcmd"
    BY <1>3 DEF BootstrapWrites, Goto, TypeOK, Env
  <2> QED BY <2>1 DEF TestingSet
<1>4. ASSUME NEW p \in Proc, step'[p] \notin Late, env'.script = env.script,
             \A q \in Proc \ {p} : step'[q] = step[q],
             env'.testing = env.testing \/ env'.testing # NoPart
      PROVE  TestingSet'
  BY <1>4 DEF TestingSet
<1>5. ASSUME NEW p \in Proc,
             Bootstrap(p) \/ Confirm(p) \/ StopAutoReboot(p) \/ SetStable(p)
               \/ Erase(p) \/ WriteFirmware(p) \/ SetBoot(p)
               \/ \E img \in Image, safety, reboot \in BOOLEAN : Upgrade(p, img, safety, reboot)
      PROVE  TestingSet'
  BY <1>4, <1>5 DEF Bootstrap, Confirm, StopAutoReboot, SetStable, Erase, WriteFirmware,
                    SetBoot, Upgrade, Goto, TypeOK, Env
<1>6. ASSUME NEW p \in Proc, SetTesting(p) PROVE TestingSet'
  <2>1. job[p].other \in {1, 2}
    BY DEF TypeOK, Job
  <2> QED BY <1>4, <1>6, <2>1 DEF SetTesting, Goto, TypeOK, Env
<1>7. ASSUME NEW p \in Proc, TestOtherPartition(p) PROVE TestingSet'
  <2>1. Other(Current) \in {1, 2}
    BY DEF TypeOK, System, Other, Current
  <2>2. env'.testing # NoPart /\ env'.script = env.script /\ step' = step
    BY <1>7, <2>1 DEF TestOtherPartition, TypeOK, Env
  <2> QED BY <2>2 DEF TestingSet
<1>8. CASE UNCHANGED vars
  BY <1>8 DEF vars, TestingSet
<1> QED BY <1>1, <1>2, <1>3, <1>5, <1>6, <1>7, <1>8
        DEF Next, UpgradeSteps, ConfirmSteps, PowerLoss, AutoReboot, Reboot

\* What a step that leaves most of the abstract device alone has to do.
LEMMA SameDevice ==
    ASSUME up' = up, flash' = flash, risky' = risky, FallbackPart' = FallbackPart
    PROVE  /\ TrialPart' = TrialPart => UNCHANGED Promised!vars
           /\ up.state = "on" /\ TrialPart' \in Part \cup {0} => Promised!Try
<1>1. Running' = Running
  BY DEF Running
<1> QED BY <1>1 DEF Promised!vars, Promised!Try, Running

\* The boot script, and the bootcmd a device comes with, boot what TrialBoot says.
LEMMA BootIsBoot == ASSUME TypeOK, PowerInv, TestingSet, Boot PROVE Promised!Boot
<1> DEFINE s == IF TrialPart = 0 THEN FallbackPart ELSE TrialPart
<1> USE DEF Part
<1>1. /\ env.stable \in {1, 2, NoPart} /\ env.testing \in {0, 1, 2, NoPart}
      /\ env.version \in BOOLEAN /\ env.script \in BOOLEAN
  BY DEF TypeOK, Env
<1>2. /\ up = Off /\ UNCHANGED <<flash, risky>>
      /\ up' = IF env.script THEN ScriptBoots(Picked) ELSE StockBoots
      /\ env' = IF env.script THEN [env EXCEPT !.testing = 0] ELSE env
  BY DEF Boot
<1>3. FallbackPart' = FallbackPart /\ TrialPart' = 0 /\ Running = {}
  BY <1>2 DEF FallbackPart, TrialPart, Running, Off, TypeOK, Env
<1>4. s \in {1, 2} /\ (env.script => s = Picked) /\ (~ env.script => s = 1)
  BY <1>1, ConstantAssumption
     DEF PowerInv, EnvironmentOrder, TestingSet, FallbackPart, TrialPart, Picked
<1> HIDE DEF s
<1>5. \/ flash[s] # "junk" /\ up' \in {On(s, 1), On(s, 2)}
      \/ flash[s] = "junk" /\ up' \in {Stuck, On(1, 1)} /\ (s = 1 => up' = Stuck)
  BY <1>2, <1>4 DEF ScriptBoots, StockBoots
<1>6. \/ flash[s] # "junk" /\ Running' = {s}
      \/ flash[s] = "junk" /\ Running' \in {{}} \cup {{q} : q \in Part \ {s}}
  <2>1. CASE flash[s] # "junk"
    BY <1>5, <2>1 DEF Running, On
  <2>2. CASE flash[s] = "junk" /\ up' = Stuck
    BY <2>2 DEF Running, Stuck
  <2>3. CASE flash[s] = "junk" /\ up' = On(1, 1) /\ s = 2
    <3>1. Running' = {1}
      BY <2>3 DEF Running, On
    <3> QED BY <2>3, <3>1
  <2> QED BY <1>4, <1>5, <2>1, <2>2, <2>3
<1> QED BY <1>2, <1>3, <1>6 DEF Promised!Boot, s

\* SafeUpgrade does what TrialBoot promises, for any number of commands at a
\* time: every step is one of it, or none.
THEOREM ImplementsTrialBoot == Spec => TriesOnce
<1>1. Init => Promised!Init /\ TestingSet /\ PowerInv
  <2> SUFFICES ASSUME Init PROVE Promised!Init /\ TestingSet
    BY InitPowerInv
  <2>1. FallbackPart = 1 /\ TrialPart = 0 /\ Running = {1} /\ ~ risky
    BY DEF Init, FallbackPart, TrialPart, Running, On
  <2> QED BY <2>1 DEF Init, Promised!Init, TestingSet, Part
<1>2. TypeOK /\ PowerInv /\ TestingSet /\ [Next]_vars => [Promised!Next]_(Promised!vars)
  <2> SUFFICES ASSUME TypeOK, PowerInv, TestingSet, [Next]_vars
               PROVE  Promised!Next \/ UNCHANGED Promised!vars
    OBVIOUS
  <2> USE ConstantAssumption
  <2>1. /\ env.stable \in {1, 2, NoPart} /\ env.testing \in {0, 1, 2, NoPart}
        /\ env.version \in BOOLEAN /\ env.script \in BOOLEAN /\ risky \in BOOLEAN
        /\ up.root \in Part /\ up.kernel \in Part /\ flash \in [Part -> Image]
    BY DEF TypeOK, Env, System, Part
  <2>2. FallbackPart \in {1, 2}
    BY <2>1 DEF FallbackPart, PowerInv, EnvironmentOrder, Part
  <2>3. TrialPart \in Part \cup {0}
    BY <2>1 DEF TrialPart, TestingSet, Part
  \* Whoever writes does not write the partition to fall back to.
  <2>4. ASSUME NEW p \in Proc, Writing(p)
        PROVE  /\ up.state = "on" /\ job[p].other \in Part
               /\ ~ risky => job[p].other # FallbackPart
    BY <2>1, <2>4 DEF PowerInv, CommandOrder, FallbackPart, Other, Current, Part
  <2>5. CASE Boot
    BY <2>5, BootIsBoot DEF Promised!Next
  <2>6. ASSUME GoDown, UNCHANGED <<env, risky>>, flash' \in [Part -> Image],
               ~ risky => flash'[FallbackPart] = flash[FallbackPart]
        PROVE  Promised!GoDown
    BY <2>6 DEF GoDown, Off, Promised!GoDown, Promised!Writes, Running, FallbackPart,
                TrialPart
  <2>7. CASE PowerLoss
    <3>1. ~ risky => flash'[FallbackPart] = flash[FallbackPart]
      BY <2>2, <2>4, <2>7 DEF PowerLoss, Writing, Part
    <3>2. flash' \in [Part -> Image]
      BY <2>1, <2>7 DEF PowerLoss, Image
    <3> QED BY <2>6, <2>7, <3>1, <3>2 DEF PowerLoss, Promised!Next
  <2>8. ASSUME AutoReboot \/ \E p \in Proc : Reboot(p) PROVE Promised!GoDown
    BY <2>1, <2>6, <2>8 DEF AutoReboot, Reboot
  <2>9. ASSUME NEW p \in Proc, BootstrapWrites(p) PROVE Promised!Try
    <3>1. /\ up = On(1, 1) /\ env.stable # 2 /\ (step[p] # "stable" => env.stable = 1)
      BY <2>9 DEF PowerInv, CommandOrder, Installing, BootstrapWrites
    <3>2. FallbackPart' = FallbackPart
      <4>1. env.version => env.stable = 1
        BY <2>1, <3>1 DEF PowerInv, EnvironmentOrder, Part
      <4>2. env'.version => env'.stable = 1
        BY <3>1, <4>1, <2>9 DEF BootstrapWrites, TypeOK, Env
      <4> QED BY <4>1, <4>2 DEF FallbackPart
    <3>3. TrialPart' \in Part \cup {0}
      BY <2>1, <2>9 DEF BootstrapWrites, TrialPart, TestingSet, TypeOK, Env, Part
    <3>4. up' = up /\ flash' = flash /\ risky' = risky /\ up.state = "on"
      BY <2>9, <3>1 DEF BootstrapWrites, On
    <3> QED BY <3>2, <3>3, <3>4, SameDevice
  <2>10. ASSUME NEW p \in Proc, NEW img \in Image, NEW safety \in BOOLEAN,
                NEW reboot \in BOOLEAN, Upgrade(p, img, safety, reboot)
         PROVE  Promised!Void \/ UNCHANGED Promised!vars
    <3>1. /\ UNCHANGED <<flash, env, up>> /\ risky' = (risky \/ Current # env.stable)
          /\ env.version /\ up.state = "on"
      BY <2>10 DEF Upgrade, Usable
    <3>2. FallbackPart' = FallbackPart /\ TrialPart' = TrialPart
      BY <3>1 DEF FallbackPart, TrialPart
    <3>3. CASE risky' = risky
      BY <3>1, <3>2, <3>3, SameDevice
    <3>4. CASE risky' # risky
      <4>1. risky' = TRUE /\ Current # env.stable
        BY <2>1, <3>1, <3>4
      <4>2. up.kernel = up.root /\ FallbackPart = env.stable
        BY <2>1, <3>1, <4>1 DEF PowerInv, RunningOrder, EnvironmentOrder, FallbackPart,
                                Current, On, Part
      <4>3. Running = {up.root} /\ FallbackPart \notin Running /\ Running' = Running
        BY <3>1, <4>1, <4>2 DEF Running, Current
      <4> QED BY <3>1, <3>2, <4>1, <4>3 DEF Promised!Void
    <3> QED BY <3>3, <3>4
  <2>11. ASSUME NEW p \in Proc, Erase(p) \/ WriteFirmware(p) PROVE Promised!Write
    <3>1. Writing(p) /\ UNCHANGED <<env, up, risky>>
      BY <2>11 DEF Erase, WriteFirmware, Writing
    <3>2. \A q \in Part : q # job[p].other => flash'[q] = flash[q]
      BY <2>1, <2>11 DEF Erase, WriteFirmware
    <3>3. flash' \in [Part -> Image]
      BY <2>1, <2>11 DEF Erase, WriteFirmware, TypeOK, Job, Image
    <3>4. Running # {} /\ Running' = Running
      BY <2>4, <3>1 DEF Running
    <3>5. FallbackPart' = FallbackPart /\ TrialPart' = TrialPart
      BY <3>1 DEF FallbackPart, TrialPart
    <3>6. ~ risky => flash'[FallbackPart] = flash[FallbackPart]
      BY <2>2, <2>4, <3>1, <3>2 DEF Part
    <3> QED BY <3>1, <3>3, <3>4, <3>5, <3>6 DEF Promised!Write, Promised!Writes
  <2>12. ASSUME NEW p \in Proc, SetBoot(p) \/ SetTesting(p) \/ TestOtherPartition(p)
         PROVE  Promised!Try
    <3>1. /\ UNCHANGED <<up, flash, risky>>
          /\ env'.stable = env.stable /\ env'.version = env.version
          /\ env'.script = env.script /\ env'.testing \in Part \cup {env.testing}
          /\ up.state = "on"
      <4>1. Other(Current) \in Part
        BY <2>1 DEF Other, Current, Part
      <4>2. ~ TestOtherPartition(p) => Writing(p)
        BY <2>12 DEF SetBoot, SetTesting, Writing
      <4> QED BY <2>4, <2>12, <4>1, <4>2
              DEF SetBoot, SetTesting, TestOtherPartition, Usable, TypeOK, Env
    <3>2. FallbackPart' = FallbackPart /\ TrialPart' \in Part \cup {0}
      BY <2>3, <3>1 DEF FallbackPart, TrialPart
    <3> QED BY <3>1, <3>2, SameDevice
  <2>13. ASSUME NEW p \in Proc, SetStable(p) PROVE Promised!Confirm
    <3>1. /\ UNCHANGED <<flash, up>> /\ risky' = FALSE /\ step[p] = "set_stable"
          /\ env'.stable = Current /\ env'.version = env.version
          /\ env'.script = env.script /\ env'.testing = env.testing
      BY <2>13 DEF SetStable, TypeOK, Env
    <3>2. /\ env.version /\ up.state = "on" /\ up.kernel = Current
          /\ flash[Current] = "good"
      BY <3>1 DEF PowerInv, CommandOrder, Confirming, Current
    <3>3. Running = {Current} /\ Running' = Running
      BY <3>1, <3>2 DEF Running
    <3>4. FallbackPart' = Current /\ TrialPart' = TrialPart
      BY <3>1, <3>2 DEF FallbackPart, TrialPart
    <3> QED BY <3>1, <3>2, <3>3, <3>4 DEF Promised!Confirm
  <2>14. ASSUME NEW p \in Proc, Bootstrap(p) \/ Confirm(p) \/ StopAutoReboot(p)
         PROVE  UNCHANGED Promised!vars
    <3>1. UNCHANGED <<env, up, flash, risky>>
      BY <2>14 DEF Bootstrap, Confirm, StopAutoReboot
    <3> QED BY <3>1, SameDevice DEF FallbackPart, TrialPart
  <2>15. CASE UNCHANGED vars
    BY <2>15, SameDevice DEF vars, FallbackPart, TrialPart
  <2> QED BY <2>5, <2>7, <2>8, <2>9, <2>10, <2>11, <2>12, <2>13, <2>14, <2>15
          DEF Next, UpgradeSteps, ConfirmSteps, Promised!Next
<1> QED BY <1>1, <1>2, TestingStep, PowerInvStep, TypeCorrect, PTL
        DEF Spec, TriesOnce, Promised!Spec
==============================================================================
