SPECIFICATION Spec
CONSTANTS
  d1 = d1
  d2 = d2
  Device = {d1, d2}
  own = d1
  Nobody = Nobody
  Languages = {"es", "fr"}
  Clients = {"list", "bare", "none"}
  MaxCalls = 2
INVARIANTS TypeOK ListIsThere MarksAreCurrent OwnUnlessChosen
PROPERTIES VoucherIsAnswered
