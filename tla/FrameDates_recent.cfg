SPECIFICATION Spec
CONSTANTS
  DateWord = 8
  CONF_Tx_rframe_timeout = 3
  MaxQueue = 2
  MaxTime = 20
INVARIANTS DatesTypeOK OnlyOldFramesGivenUp
