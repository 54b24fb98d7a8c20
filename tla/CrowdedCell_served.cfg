SPECIFICATION CellSpec
CONSTANTS
  Callsigns = {A, B}
  NoCallsign = NoCallsign
  radio_addr_table_size = 2
  ReqSizes = {1, 2}
  Pools <- MCPools
  Word = 16
  Master = Master
  Watched = A
  WaitCalls = 0
  RefreshCalls = 1
  RetryCalls = 2
  connexion_timeout = 2
  SureRounds = 0
  MaxLink = 1
  MaxOps = 1
PROPERTIES StaleConnectionEnds ServedUnlessLockedOut
