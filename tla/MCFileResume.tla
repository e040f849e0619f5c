--------------------------- MODULE MCFileResume ---------------------------
(***************************************************************************)
(* Two client runs, a file of three different bytes sent in pieces of two, *)
(* so that a session takes a full piece and a partial one.                 *)
(***************************************************************************)
EXTENDS FileResume

MCByte == 1 .. 3
MCSource == <<1, 2, 3>>
\* Values an unassigned int may hold: the two that look like a right answer
\* somewhere (0 and the file's size), and one that never does.
MCGarbage == {-1, 0, 3}
=============================================================================
