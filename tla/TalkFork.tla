------------------------------ MODULE TalkFork ------------------------------
(***************************************************************************)
(* The two-process talk of wen/talk.  On each side, talk_server_err.c and  *)
(* talk_client_err.c, one process sends what is typed and its child prints *)
(* what arrives.  A text that begins with "exit" ends both, by SIGQUIT:    *)
(* where it was typed and where it is read.  The server's parent does not  *)
(* know its child: the pid it signals is a global one that main() shadows, *)
(* still 0, and so every process of its group.                             *)
(*                                                                         *)
(* The model starts with the connection made and the processes forked. Its *)
(* names that every specification has begin with Talk, for SignalProofs    *)
(* extends this module and Board.                                          *)
(***************************************************************************)
EXTENDS Integers, Sequences

CONSTANT MaxTyped   \* bound on the lines typed on each side

Sides == {"server", "client"}

ASSUME TalkForkAssumption == MaxTyped \in [Sides -> Nat]

VARIABLES
  kpc,        \* the process at the keyboard: "type", "kill" (it sent "exit"
              \* and will signal), "gone"
  spc,        \* the process at the socket: "read", "kill", "gone"
  wire,       \* the lines under way to a side, with the sender's number for
              \* each, "exit" being 0
  link,       \* a side's connection: "open", "fin" (the other has closed it),
              \* "err" (reset, and no call was told), "rst"
  typed,      \* the lines that were typed on a side
  said,       \* "exit" was typed there
  heard,      \* the lines that were printed there
  missed,     \* it was read there behind another line, and so not noticed
  cut         \* a reset has overtaken lines that were under way to that side

talkVars == <<kpc, spc, wire, link, typed, said, heard, missed, cut>>

Other(s) == CHOOSE t \in Sides : t # s

TalkInit ==
  \* A side whose fork() fails closes the connection at once.
  /\ kpc \in {f \in [Sides -> {"type", "gone"}] : \E s \in Sides : f[s] = "type"}
  /\ spc = [s \in Sides |-> IF kpc[s] = "gone" THEN "gone" ELSE "read"]
  /\ link = [s \in Sides |-> IF kpc[Other(s)] = "gone" THEN "fin" ELSE "open"]
  /\ wire = [s \in Sides |-> <<>>] /\ heard = [s \in Sides |-> <<>>]
  /\ typed = [s \in Sides |-> 0]
  /\ said = [s \in Sides |-> FALSE] /\ missed = [s \in Sides |-> FALSE]
  /\ cut = [s \in Sides |-> FALSE]

-----------------------------------------------------------------------------
Closed(s) == kpc[s] = "gone" /\ spc[s] = "gone"

\* What is left of lines when the last n of them are lost.
Without(lines, n) == SubSeq(lines, 1, Len(lines) - n)

\* The processes of side s that are not in left end. With the last one its
\* connection is closed. If something was not read it is reset, and of what was
\* under way to the other side the reset may overtake the last n lines.
Leaves(s, left) ==
  /\ kpc' = [kpc EXCEPT ![s] = IF "keyboard" \in left THEN @ ELSE "gone"]
  /\ spc' = [spc EXCEPT ![s] = IF "socket" \in left THEN @ ELSE "gone"]
  /\ IF kpc'[s] = "gone" /\ spc'[s] = "gone"
     THEN /\ \E n \in 0 .. Len(wire[Other(s)]) :
               /\ wire[s] = <<>> => n = 0
               /\ wire' = [wire EXCEPT ![s] = <<>>, ![Other(s)] = Without(@, n)]
               /\ cut' = [cut EXCEPT ![Other(s)] = @ \/ n > 0]
          /\ link' = [link EXCEPT ![Other(s)] =
               IF @ # "open" THEN @ ELSE IF wire[s] = <<>> THEN "fin" ELSE "err"]
     ELSE UNCHANGED <<wire, link, cut>>
  /\ UNCHANGED <<typed, said, heard, missed>>

\* write(): to a side that has closed it succeeds until the reset arrives, which
\* may overtake lines as well, and fails once if nothing was closed before it.
Send(s, line) ==
  \/ /\ link[s] = "open" /\ UNCHANGED <<link, cut>>
     /\ wire' = [wire EXCEPT ![Other(s)] = Append(@, line)]
  \/ link[s] = "fin" /\ UNCHANGED <<link, wire, cut>>
  \/ /\ link[s] = "fin" /\ link' = [link EXCEPT ![s] = "rst"]
     /\ \E n \in 0 .. Len(wire[s]) :
          /\ wire' = [wire EXCEPT ![s] = Without(@, n)]
          /\ cut' = [cut EXCEPT ![s] = @ \/ n > 0]
  \/ link[s] = "err" /\ link' = [link EXCEPT ![s] = "rst"] /\ UNCHANGED <<wire, cut>>

Type(s) ==
  /\ kpc[s] = "type" /\ typed[s] < MaxTyped[s]
  /\ Send(s, typed[s] + 1)
  /\ typed' = [typed EXCEPT ![s] = @ + 1]
  /\ UNCHANGED <<kpc, spc, said, heard, missed>>

TypeExit(s) ==
  /\ kpc[s] = "type" /\ Send(s, 0)
  /\ kpc' = [kpc EXCEPT ![s] = "kill"] /\ said' = [said EXCEPT ![s] = TRUE]
  /\ UNCHANGED <<spc, typed, heard, missed>>

\* A write() on a connection known to be reset raises SIGPIPE.
TypeKills(s) ==
  /\ kpc[s] = "type" /\ link[s] = "rst"
  /\ Leaves(s, {"socket"})

\* Mutant of Quit: the server signals nobody but itself.
QuitAlone(s) ==
  /\ kpc[s] = "kill"
  /\ Leaves(s, IF s = "server" THEN {"socket"} ELSE {})

\* The client's parent signals its child and ends; the server's, its group.
Quit(s) ==
  /\ kpc[s] = "kill"
  /\ Leaves(s, {})

\* The end of the keyboard's file ends this process and leaves the other one.
EndOfFile(s) ==
  /\ kpc[s] = "type"
  /\ Leaves(s, {"socket"})

\* The user interrupts both.
Interrupt(s) == ~ Closed(s) /\ Leaves(s, {})

\* Mutant of Read: what follows the first line is taken for what an earlier
\* read() has left in the buffer.
ReadRest(s) ==
  /\ spc[s] = "read"
  /\ \E n \in 1 .. Len(wire[s]) :
       /\ heard' = [heard EXCEPT ![s] = Append(@, wire[s][1])]
       /\ wire' = [wire EXCEPT ![s] = SubSeq(@, n + 1, Len(@))]
       /\ spc' = [spc EXCEPT ![s] = IF wire[s][1] = 0 THEN "kill" ELSE @]
       /\ missed' = [missed EXCEPT ![s] = \E k \in 2 .. n : wire[s][k] = 0]
  /\ UNCHANGED <<kpc, link, typed, said, cut>>

\* read() returns what has arrived, of which the start is compared.
Read(s) ==
  /\ spc[s] = "read"
  /\ \E n \in 1 .. Len(wire[s]) :
       /\ heard' = [heard EXCEPT ![s] = @ \o SubSeq(wire[s], 1, n)]
       /\ wire' = [wire EXCEPT ![s] = SubSeq(@, n + 1, Len(@))]
       /\ spc' = [spc EXCEPT ![s] = IF wire[s][1] = 0 THEN "kill" ELSE @]
       /\ missed' = [missed EXCEPT ![s] = \E k \in 2 .. n : wire[s][k] = 0]
  /\ UNCHANGED <<kpc, link, typed, said, cut>>

\* -1 and, at the end, 0: the loop goes round again at once.
ReadError(s) ==
  /\ spc[s] = "read" /\ wire[s] = <<>> /\ link[s] = "err"
  /\ link' = [link EXCEPT ![s] = "rst"]
  /\ UNCHANGED <<kpc, spc, wire, typed, said, heard, missed, cut>>

\* Mutant of QuitParent: the loop is not left.
QuitParentStays(s) ==
  /\ spc[s] = "kill"
  /\ kpc' = [kpc EXCEPT ![s] = "gone"] /\ spc' = [spc EXCEPT ![s] = "read"]
  /\ UNCHANGED <<wire, link, typed, said, heard, missed, cut>>

\* The parent is signalled, or process 1 if it has ended, which is no matter.
QuitParent(s) ==
  /\ spc[s] = "kill"
  /\ Leaves(s, {})

-----------------------------------------------------------------------------
Step(s) == Quit(s) \/ Read(s) \/ ReadError(s) \/ QuitParent(s)
UserStep(s) == Type(s) \/ TypeExit(s) \/ TypeKills(s) \/ EndOfFile(s) \/ Interrupt(s)

TalkNext == \E s \in Sides : Step(s) \/ UserStep(s)

TalkSpec == TalkInit /\ [][TalkNext]_talkVars

\* The processes go on; nobody has to type anything.
TalkFairSpec ==
  /\ TalkSpec
  /\ \A s \in Sides :
       WF_talkVars(Quit(s)) /\ WF_talkVars(Read(s)) /\ WF_talkVars(QuitParent(s))

-----------------------------------------------------------------------------
TalkTypeOK ==
  /\ kpc \in [Sides -> {"type", "kill", "gone"}] /\ spc \in [Sides -> {"read", "kill", "gone"}]
  /\ wire \in [Sides -> Seq(Nat)] /\ heard \in [Sides -> Seq(Nat)]
  /\ link \in [Sides -> {"open", "fin", "err", "rst"}]
  /\ typed \in [Sides -> Nat]
  /\ said \in [Sides -> BOOLEAN] /\ missed \in [Sides -> BOOLEAN]
  /\ cut \in [Sides -> BOOLEAN]

\* What side s typed and its "exit", in that order.
Said(s) == [k \in 1 .. typed[s] + (IF said[s] THEN 1 ELSE 0) |-> IF k > typed[s] THEN 0 ELSE k]

\* A connection is open while both of its sides are. As long as a side is there
\* what was typed on the other was printed or is on its way, in order, also when
\* the other has ended: all of it, but for the last lines if a reset, which only
\* an end brings, has overtaken them. An "exit" that is printed ends the process
\* or is missed; it is the last there is.
Connected(s) ==
  /\ link[s] = "open" <=> ~ Closed(Other(s))
  /\ ~ Closed(s) =>
       \E n \in 0 .. Len(Said(Other(s))) :
         /\ heard[s] \o wire[s] = Without(Said(Other(s)), n)
         /\ n > 0 => cut[s]
  /\ cut[s] => Closed(Other(s))
  /\ wire[s] # <<>> => ~ Closed(s)
  /\ said[s] => kpc[s] # "type"
  /\ kpc[s] = "kill" => said[s]
  /\ spc[s] = "read" /\ ~ missed[s] => \A k \in 1 .. Len(heard[s]) : heard[s][k] # 0
  /\ missed[s] => said[Other(s)] /\ wire[s] = <<>>

TalkInv == TalkTypeOK /\ \A s \in Sides : Connected(s)

\* A process that is left reading where nothing will come, and so spins, is
\* there only because the other side ended without an "exit", or because its
\* "exit" was read behind another line or overtaken by a reset.
SpinsUnnoticed ==
  \A s \in Sides :
    spc[s] = "read" /\ wire[s] = <<>> /\ Closed(Other(s)) =>
      ~ said[Other(s)] \/ missed[s] \/ cut[s]

\* "exit" ends both processes of the side where it is typed, though the
\* server's parent has no id of its child and either may be signalled by the
\* other at the same time; and both of the side that it was sent to, unless it
\* is read behind another line or a reset overtakes it.
ExitEnds ==
  \A s \in Sides :
    /\ said[s] ~> Closed(s)
    /\ (\E k \in 1 .. Len(wire[s]) : wire[s][k] = 0) ~> Closed(s) \/ missed[s] \/ cut[s]
=============================================================================
