SPECIFICATION Spec
CONSTANTS
  Proc = {p0, p1}
  Proc0 = p0
  Nobody = Nobody
  NFile = 2
  NOFile = 2
  PipeSize = 2
  Width = 2
  Byte = {b0, b1}
  MaxN = 2
INVARIANT FilesSound
INVARIANT NoLostWakeup
PROPERTY PipeIsFifo
PROPERTY OtherEndClosed
CHECK_DEADLOCK FALSE
