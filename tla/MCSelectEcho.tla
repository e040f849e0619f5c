---------------------------- MODULE MCSelectEcho ----------------------------
(***************************************************************************)
(* Three clients and two descriptors for them: enough to move a client in  *)
(* the table, to reuse a descriptor and to have none left.  Clients come   *)
(* in any order; one sends a line of two pieces, one a short line, and one *)
(* only connects.                                                          *)
(***************************************************************************)
EXTENDS SelectEcho

CONSTANTS c1, c2, c3

MCClients == {c1, c2, c3}
MCMaxSent == [c \in MCClients |-> IF c = c1 THEN 2 ELSE IF c = c2 THEN 1 ELSE 0]
=============================================================================
