SPECIFICATION FairSpec
CONSTANTS
  p1 = p1
  p2 = p2
  a = a
  b = b
  Nobody = Nobody
  Proc <- MCProc
  Name <- MCName
  SwapName <- MCSwapName
  NInum = 2
  NInode = 2
INVARIANT CountsExact
INVARIANT NothingDangles
INVARIANT CacheCoherent
PROPERTY CallsReturn
CHECK_DEADLOCK FALSE
