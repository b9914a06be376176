SPECIFICATION Spec
CONSTANTS
  Threads = {"t1"}
  NoThread = "none"
  Handles = {"h1", "h2"}
  NoHandle = "nohandle"
  Members <- MCMembers
  NoMember = "nomember"
  Packed <- MCPacked
  Offset <- MCOffset
  Size <- MCSize
  Image <- MCImage
  NewByte = 9
  Users <- MCShared
  Counts = {0, 1, 3}
  Ops <- Sizing
  Lockable = FALSE
  Writable = FALSE
PROPERTIES
  UnpackedSpec
CHECK_DEADLOCK FALSE
