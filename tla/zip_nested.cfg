SPECIFICATION Spec
CONSTANTS
  LocalSize = 3
  CentralSize = 3
  EndSize = 2
  SignatureSize = 1
  Expansion = 1
  Slashes <- MCSlashes
  Slash = "/"
  Dot = "."
  Letters = {"d", "f"}
  Nul = "nul"
  Media <- NestedMedia
  Sources = {"m"}
  Content <- NestedContent
  InMemory = {"m"}
  Stale <- MCStale
  FilePaths <- MCFilePaths
  DirPaths <- MCDirPaths
  MinSize = 4
  Limit = 99
  MaxEntries = 2
INVARIANT
  HeadersAsserted
CHECK_DEADLOCK FALSE
