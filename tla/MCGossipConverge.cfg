SPECIFICATION QuietSpec
CONSTANTS
  n1 = n1
  n2 = n2
  w1 = w1
  w2 = w2
  w3 = w3
  w4 = w4
  Nil = Nil
  NoEntry = NoEntry
  Nobody = Nobody
  DefaultTTL = 2
  Node = {n1, n2}
  Worker = {w1, w2, w3, w4}
  host <- TwoPerNode
  Key = {k1}
  Httpd = {w3, w4}
  Hooked = {}
  Data = {a}
  neighbour <- Pair
  InsertTTL <- FullTTL
PROPERTIES Converges FreshestStays
