SPECIFICATION TableSpec
CONSTANTS
  Callsigns = {A, B, C, D}
  NoCallsign = NoCallsign
  radio_addr_table_size = 3
  ReqSizes = {1, 2}
  Pools <- OnePool
  Word = 16
SYMMETRY Symmetry
INVARIANTS TypeOK CallsignsUnique BlocksInPool
PROPERTIES FreshBlockIsFree RefusedOnlyWhenFull
