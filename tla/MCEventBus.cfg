CONSTANTS
  Users <- MCUsers
  Streams = {s1, s2}
  Capacity = 1
  MaxSeq <- MCMaxSeq

SPECIFICATION FairSpec
INVARIANTS Accounted GapMeansDropped RegisteredWhileOpen
PROPERTIES Delivered CleansUp
CHECK_DEADLOCK FALSE
