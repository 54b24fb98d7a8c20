SPECIFICATION Spec
CONSTANTS
  MaxSegments = 6
  PacketWord = 3
  SegmentWord = 8
  MaxPackets = 8
INVARIANTS ReassemblyTypeOK MixedOnlyWhenCounterComesRound
PROPERTY UntouchedPacketArrives
CHECK_DEADLOCK FALSE
