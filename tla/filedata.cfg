SPECIFICATION Spec
CONSTANTS
  p1 = p1
  p2 = p2
  Nobody = Nobody
  Proc <- MCProc
  Mark <- MCMark
  Inode = {1, 2}
  File = {1, 2}
  BSIZE = 2
  NDIRECT = 2
  NBlocks = 10
  MAXOPBLOCKS = 6
  Sizes = {1, 8}
  MaxCalls = 3
  Opens <- MCOpens
  Made = {0, 3}
INVARIANT BlocksExact
INVARIANT ChunkFits
PROPERTY FilesAreBytes
CHECK_DEADLOCK FALSE
