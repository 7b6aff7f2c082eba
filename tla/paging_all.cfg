SPECIFICATION Spec
CONSTANTS
  Policy = "AQ"
  MaxPsyc = 3
  MaxTotal = 4
  NPages = 4
  AgeBits = 1
  MaxGrow = 1
  StorePages = {}
  Images = {3, 4}
  Data = {d1}
  Zero = Zero
  Junk = Junk
  Calls = {"grow", "shrink", "exec"}
  MemoryTight = TRUE
  ExecMayFail = TRUE
INVARIANT SwapExclusive
INVARIANT PagingInv
