SPECIFICATION Spec
CONSTANTS
  Threads = {"t1", "t2"}
  NoThread = "none"
  Handles = {"h1", "h2"}
  NoHandle = "nohandle"
  Members <- MCMembers
  NoMember = "nomember"
  Packed <- MCPacked
  Offset <- MCOffset
  Size <- MCSize
  Image <- MCImage
  NewByte = 9
  Users <- MCPrivate
  Counts = {1, 3}
  Ops <- Owning
  Lockable = TRUE
  Writable = FALSE
INVARIANTS
  TypeOK
  CursorIsOurs
  OwnBytes
PROPERTIES
  UnpackedSpec
