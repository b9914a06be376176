SPECIFICATION Spec
CONSTANTS
  MaxLength = 6
  MaxEntries = 5
  Slashes <- MCSlashes
  Slash = "/"
  Dot = "."
  Letters = {"a"}
  Nul = "nul"
  Junk = "junk"
  Sources <- MCSources
INVARIANT BehindBuffer
CHECK_DEADLOCK FALSE
