SPECIFICATION FairSpec
CONSTANTS
  Proc = {p1, p2}
  Nobody = Nobody
  Block = {k1, k2, k3}
  NoBlock = NoBlock
  Data = {0, 1}
  NBuf = 2
  MaxPinned = 1
INVARIANT BuffersSound
INVARIANT NoLostWakeup
PROPERTY CacheIsStore
PROPERTY TransferEnds
CHECK_DEADLOCK FALSE
