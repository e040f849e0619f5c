----------------------------- MODULE MCTalkRoom -----------------------------
(***************************************************************************)
(* Three users: two that talk while a third comes or goes.                 *)
(***************************************************************************)
EXTENDS TalkRoom

CONSTANTS u1, u2, u3

MCUsers == {u1, u2, u3}
\* One user types two lines and another one, in any order.
MCMaxLines == [u \in MCUsers |-> IF u = u1 THEN 2 ELSE IF u = u2 THEN 1 ELSE 0]
MCMaxLinesLive == [u \in MCUsers |-> IF u = u1 THEN 1 ELSE 0]
=============================================================================
