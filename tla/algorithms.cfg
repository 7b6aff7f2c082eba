SPECIFICATION Spec
CONSTANTS
  Policy = "SCFIFO"
  MaxTotal = 4
  AgeBits = 2
  NPages = 4
  MaxTicks = 4
  Bits = 4
  IntSize = 2
  PGSIZE = 2
  MAXARG = 3
  ArgPage = 20
  MaxString = 4
  DIRSIZ = 2
  MaxPath = 5
  MaxName = 3
  MaxPid = 1100
  MAXARGS = 3
  MaxTokens = 5
  MaxRe = 4
  MaxText = 3
  BufSize = 5
  MaxFile = 9
  HeaderSize = 8
  MinCore = 3
  HeapMax = 7
  Requests = {1, 9, 17}
 
INVARIANT UserAccessRight
INVARIANT NamesRight
INVARIANT ShellRight
INVARIANT MatchRight
INVARIANT HeapSound
