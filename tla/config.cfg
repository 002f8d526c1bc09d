SPECIFICATION Spec
CONSTANTS
  Config <- Configs
  Default = "default"
  MaxSets = 3
  MaxCuts = 2
INVARIANTS ConfigKept RamAgrees
PROPERTIES SavedBeforeUsed
