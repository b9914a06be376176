SPECIFICATION FairSpec
CONSTANTS
  Paths <- MCAllPaths
  Keys <- MCAllKeys
  Dirs <- MCSlashed
  Slash = 2
  Space = 1
  Archives <- MCAllArchives
INVARIANTS
  TypeOK
  TableRight
  SkipSound
  LookupRight
  ListingRight
PROPERTIES
  Answered
