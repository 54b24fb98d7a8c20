----------------------------- MODULE MCDhcpArp ------------------------------
(* Two addresses, three hosts and two places for them; two of the hosts answer *)
(* ARP requests.  Word is 4 half timeouts in the runs, so that dates wrap in   *)
(* them; 2^32 us are about 24.                                                *)
EXTENDS DhcpArp
CONSTANTS m1, m2, m3
LanHosts == {m1, m2, m3}
TwoHosts == {m1, m2}
TwoAddresses == {1, 2}
TwoRanges == {{1, 2}, {2}}
BothModes == {"dhcp", "arp"}
=============================================================================
