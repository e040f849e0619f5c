-------------------------------- MODULE Echo --------------------------------
(***************************************************************************)
(* What the echo servers of the repository promise each client: what comes *)
(* back is what the client sent, in its order, once, and nothing else.     *)
(* How connections are accepted, polled, shared or lost is not visible.    *)
(***************************************************************************)
EXTENDS Naturals, Sequences

CONSTANT Clients

VARIABLES sent,   \* how many pieces of data each client has sent
          got     \* the pieces it has received, by their numbers

\* The pieces a client gets once everything it sent has been echoed.
Pieces(n) == [k \in 1 .. n |-> k]

Init == sent = [c \in Clients |-> 0] /\ got = [c \in Clients |-> <<>>]

Send(c) ==
  /\ \E n \in 1 .. 2 : sent' = [sent EXCEPT ![c] = @ + n]
  /\ UNCHANGED got

Receive(c) ==
  /\ \E n \in Len(got[c]) + 1 .. sent[c] : got' = [got EXCEPT ![c] = Pieces(n)]
  /\ UNCHANGED sent

Next == \E c \in Clients : Send(c) \/ Receive(c)

Spec == Init /\ [][Next]_<<sent, got>>
=============================================================================
