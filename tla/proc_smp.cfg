SPECIFICATION Spec
CONSTANTS
  NProc = 3
  Cpu = {c0, c1}
  Cpu0 = c0
  NoCpu = NoCpu
  MaxSleep = 1
  MemoryTight = TRUE
INVARIANT OneCpu
INVARIANT NoLostWakeup
INVARIANT Family
