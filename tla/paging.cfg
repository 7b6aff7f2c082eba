SPECIFICATION Spec
CONSTANTS
  Policy = "SCFIFO"
  MaxPsyc = 3
  MaxTotal = 4
  NPages = 4
  AgeBits = 1
  MaxGrow = 1
  StorePages = {0, 3}
  Images = {3}
  Data = {d1, d2}
  Zero = Zero
  Junk = Junk
  Calls = {"grow", "fork", "exec"}
  MemoryTight = FALSE
  ExecMayFail = FALSE
 
INVARIANT OffsetsExact
 
PROPERTY MemoryPreserved
PROPERTY IdleFirst
