----------------------------- MODULE MCForkEcho -----------------------------
(***************************************************************************)
(* Three clients, so that deaths fall together while another client waits. *)
(***************************************************************************)
EXTENDS ForkEcho

CONSTANTS c1, c2, c3

MCClients == {c1, c2, c3}
MCMaxSent == [c \in MCClients |-> IF c = c1 THEN 2 ELSE IF c = c2 THEN 1 ELSE 0]
=============================================================================
