-------------------------------- MODULE MCUdp --------------------------------
EXTENDS UdpServers

CONSTANTS c1, c2

MCStyle == [c \in Clients |-> IF c = c1 THEN "alarm" ELSE "connected"]
MCMaxSent == [c \in Clients |-> IF c = c1 THEN 2 ELSE 1]
=============================================================================
