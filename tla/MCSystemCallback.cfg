CONSTANTS
  Program = {"init.app", "full.app", "over.app"}
  InitApp = "init.app"
  NoName = ""
  End <- MCEnd
  Limit = 18
  PageSize = 4
  WordSize = 64
  MaxFiles = 2
  MaxLevel = 2
SPECIFICATION Spec
INVARIANTS ReturnsToCaller
