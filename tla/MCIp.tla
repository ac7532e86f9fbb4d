-------------------------------- MODULE MCIp --------------------------------
(* Two devices, Ethernet and loopback, and addresses of three bits: subnets  *)
(* of two and four addresses that overlap, coincide or are apart.            *)
EXTENDS Ip

CONSTANTS net0, net1

MCDevs == {net0, net1}
MCNeedArp == {net0}
=============================================================================
