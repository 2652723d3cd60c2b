SPECIFICATION Spec
CONSTANTS
  op = op
  Timer = {t1}
PROPERTY AlwaysFallsBack
