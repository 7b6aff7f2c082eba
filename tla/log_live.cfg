SPECIFICATION Spec
CONSTANTS
  Proc = {p1, p2, p3}
  Block = {b1, b2, b3}
  Value = {0}
  MaxOp = 1
  LogSize = 2
  NLog = 3
  Nest = 1
  MayCrash = FALSE
  NoBlock = NoBlock
 
PROPERTY SleepersWoken
