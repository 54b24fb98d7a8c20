CONSTANTS
  Banks = 6
  SectorBanks = 3
  FirstIndex = 6
  MaxIndex = 20
  c1 = c1
  c2 = c2
  Configs <- TwoConfigs
  Default = default
  NoConfig = none
SPECIFICATION Spec
INVARIANTS FlashTypeOK BlankBeforeProgram LatestKept
PROPERTY StoreImplemented
