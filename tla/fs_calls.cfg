SPECIFICATION FairSpec
CONSTANTS
  t1 = t1
  t2 = t2
  zip = zip
  none = none
  nobody = nobody
  Threads <- MCThreads
  NoThread = nobody
  NoArchive = none
  Archives = {zip}
  Contents <- MCContents
  Roots <- MCRoots
  Cwd = "c"
  SystemRoot = "s"
  Tree <- MCTree
  Ops <- MCOps
  Requests <- MCRequests
  PushPlaces <- MCPushPlaces
  Disks <- MCDisks
  MaxPaths = 2
  MaxMounted = 1
INVARIANT TypeOK
PROPERTIES LookupSpec  StaysInPlace CallsReturn
