CONSTANTS
  TableSize = 2
  m1 = m1
  m2 = m2
  m3 = m3
  NoMac = NoMac
  Macs <- LanHosts
  Stations <- TwoHosts
  Addresses <- TwoAddresses
  Ranges <- TwoRanges
  Word = 4
  Modes = {"dhcp"}
SPECIFICATION Spec
INVARIANT NoAddressLeasedTwice
