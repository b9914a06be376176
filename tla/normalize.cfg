SPECIFICATION FairSpec
CONSTANTS
  MaxLength = 6
  MaxEntries = 5
  Slashes <- MCSlashes
  Slash = "/"
  Dot = "."
  Letters = {"a"}
  Nul = "nul"
  Junk = "junk"
  Sources <- MCSources
INVARIANTS TypeOK InBuffer TextRight DepthRight NameRight DepthOfText AlwaysNormal
PROPERTY Terminates
CHECK_DEADLOCK FALSE
