SPECIFICATION Spec
CONSTANTS
  op = op
  Timer = {t1, t2}
INVARIANTS TypeOK EtcOrBackup RestoreInv
PROPERTIES KeptIsKept FallsBack TriesWithBackup
