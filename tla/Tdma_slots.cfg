SPECIFICATION FairSpec
CONSTANTS
  Ids <- MCIds
  Clients = {c}
  SlotCount = 15
  FrameNumbers = 2
  Multiframe = 2
  UsageMemory = 1
  MaxNeed = 30
  Reported <- MCReported
  Downlink <- MCDownlink
  FrameDuration = 81300
  SlotDuration = 4060
  ReducedSlot = 2210
  SlotMargin = 300
  TRMargin = 1300
  TAMargin = 2000
INVARIANTS TdmaTypeOK FrameFilled CurrentBurstsDisjoint SlowBurstsAlone 
CHECK_DEADLOCK FALSE
PROPERTY TurnComes
