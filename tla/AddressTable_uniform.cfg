SPECIFICATION TableSpec
CONSTANTS
  Callsigns = {A, B, C, D}
  NoCallsign = NoCallsign
  radio_addr_table_size = 4
  ReqSizes = {2}
  Pools <- UniformPool
  Word = 16
INVARIANTS BookedBlocksDisjoint RoutedToBooker
