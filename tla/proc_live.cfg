SPECIFICATION FairSpec
CONSTANTS
  NProc = 3
  Cpu = {c0}
  Cpu0 = c0
  NoCpu = NoCpu
  MaxSleep = 1
  MemoryTight = FALSE
PROPERTY KilledExits
PROPERTY CallsReturn
