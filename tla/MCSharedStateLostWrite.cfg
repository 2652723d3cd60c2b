SPECIFICATION SyncsSpec
CONSTANTS
  n1 = n1
  n2 = n2
  w1 = w1
  w2 = w2
  w3 = w3
  w4 = w4
  Nil = Nil
  NoEntry = NoEntry
  Nobody = Nobody
  DefaultTTL = 1
  Node = {n1, n2}
  Worker = {w1, w2, w3, w4}
  host <- TwoPerNode
  Key = {k1, k2}
  Httpd = {w3}
  Hooked = {}
  Data = {a}
  InsertTTL <- FullTTL
  Syncers = {w1}
  Writers = {w2, w4}
PROPERTY SyncKeepsChangesDuringSync
