SPECIFICATION Spec
CONSTANTS
  LocalSize = 3
  CentralSize = 3
  EndSize = 2
  SignatureSize = 1
  Expansion = 1
  Slashes <- MCSlashes
  Slash = "/"
  Dot = "."
  Letters = {"d", "f"}
  Nul = "nul"
  Media <- MCMedia
  Sources = {"s", "m", "e"}
  Content <- MCContent
  InMemory = {"m"}
  Stale <- MCStale
  FilePaths <- MCFilePaths
  DirPaths <- MCDirPaths
  MinSize = 4
  Limit = 17
  MaxEntries = 2
INVARIANTS
  TypeOK
  InPlace
  RoundTrip
  AllOrNothing
CHECK_DEADLOCK FALSE
