SPECIFICATION Spec
CONSTANTS
  Proc = {p1, p2}
  Block = {b1, b2, b3}
  Value = {0, 1}
  MaxOp = 2
  LogSize = 4
  NLog = 4
  Nest = 1
  MayCrash = TRUE
  NoBlock = NoBlock
INVARIANT CommitQuiescent
PROPERTY CrashAtomic
