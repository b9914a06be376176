SPECIFICATION FairSpec
CONSTANTS
  Threads = {"t1", "t2"}
  NoThread = "none"
  Handles = {"h1"}
  NoHandle = "nohandle"
  Members <- MCMembers
  NoMember = "nomember"
  Packed <- MCPacked
  Offset <- MCOffset
  Size <- MCSize
  Image <- MCImage
  NewByte = 9
  Users <- MCShared
  Counts = {1, 3}
  Ops <- Sharing
  Lockable = TRUE
  Writable = TRUE
INVARIANTS
  OwnBytes
  PointerInWindow
PROPERTIES
  UnpackedSpec
  WritesStayInside
  CallsReturn
