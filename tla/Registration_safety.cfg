SPECIFICATION Spec
CONSTANTS
  Callsigns = {A, B}
  NoCallsign = NoCallsign
  radio_addr_table_size = 1
  ReqSizes = {1}
  Pools <- MCPools
  Word = 16
  Master = Master
  WaitCalls = 0
  RefreshCalls = 1
  RetryCalls = 2
  connexion_timeout = 3
  SureRounds = 2
  MaxLink = 1
  MaxOps = 1
SYMMETRY Symmetry
INVARIANTS RegTypeOK FreshClientsAgree
PROPERTY LeaseImplemented
