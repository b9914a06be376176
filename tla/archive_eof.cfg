SPECIFICATION Spec
CONSTANTS
  Threads = {"t1"}
  NoThread = "none"
  Handles = {"h1"}
  NoHandle = "nohandle"
  Members <- MCMembers
  NoMember = "nomember"
  Packed <- MCPacked
  Offset <- MCOffset
  Size <- MCSize
  Image <- MCImage
  NewByte = 9
  Users <- MCShared
  Counts = {1, 2}
  Ops <- Moving
  Lockable = TRUE
  Writable = TRUE
PROPERTIES
  EofOnlyBeyondEnd
