---------------------------- MODULE MCThreadEcho ----------------------------
EXTENDS ThreadEcho

CONSTANTS c1, c2, c3

MCMaxSent == [c \in Clients |-> IF c = c1 THEN 2 ELSE IF c = c2 THEN 1 ELSE 0]
=============================================================================
