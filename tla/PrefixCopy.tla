---------------------------- MODULE PrefixCopy ----------------------------
(***************************************************************************)
(* What the resumable file transfer of thu/hw2 promises about the file the *)
(* server keeps: it starts empty, it is at all times a prefix of the file  *)
(* the clients hold, and it only ever grows.  How many sessions it takes,  *)
(* and what is lost on the way, is not visible here.                       *)
(***************************************************************************)
EXTENDS Naturals, Sequences

CONSTANT Source     \* the file every client transfers, a sequence of bytes

VARIABLE stored     \* the server's copy

\* The copy made of the first n bytes of the source.
FirstBytes(n) == SubSeq(Source, 1, n)

Init == stored = <<>>

\* The copy is extended by the bytes that come next in the source.
Extend == \E n \in Len(stored) + 1 .. Len(Source) : stored' = FirstBytes(n)

Next == Extend

Spec == Init /\ [][Next]_stored
=============================================================================
