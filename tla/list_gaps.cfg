SPECIFICATION Spec
CONSTANTS
  Paths <- MCPaths
  Keys <- MCKeys
  Dirs <- MCNone
  Slash = 2
  Space = 1
  Archives <- MCGappy
INVARIANTS
  LookupRight
