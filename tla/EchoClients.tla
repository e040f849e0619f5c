----------------------------- MODULE EchoClients -----------------------------
(***************************************************************************)
(* The clients of the echo servers and their connections, shared by the    *)
(* models of the servers: thu/select/echo_client.c and, at this level the  *)
(* same program, wen/fork/echo_client.c.  A client writes a line, which    *)
(* the network may cut in pieces, and reads until it has all of it back.   *)
(***************************************************************************)
EXTENDS Integers, Sequences

CONSTANTS
  Clients,    \* runs of the client, each of which connects at most once
  MaxSent     \* bound on the pieces each client sends

ASSUME EchoClientsAssumption == MaxSent \in [Clients -> Nat]

VARIABLES
  backlog,    \* connections the kernel has made and nobody accepted yet
  toServer, toClient,  \* the pieces under way on a connection, each way
  link,       \* the server's end of it: "none", "open", "fin" (the client has
              \* gone), "err" (reset, and no call was told), "rst", "closed"
  cpc,        \* a client: "none", "typing", "reading" (the echo), "gone"
  sent,       \* how many pieces it has sent
  got         \* the pieces it has read, each with its sender

streamVars == <<toServer, toClient>>
clientVars == <<cpc, sent, got>>

InitClients ==
  /\ backlog = <<>>
  /\ toServer = [c \in Clients |-> <<>>] /\ toClient = [c \in Clients |-> <<>>]
  /\ link = [c \in Clients |-> "none"]
  /\ cpc = [c \in Clients |-> "none"] /\ sent = [c \in Clients |-> 0]
  /\ got = [c \in Clients |-> <<>>]

-----------------------------------------------------------------------------
(* The client's steps; the server's variables stay as they are.            *)

Connect(c) ==
  /\ cpc[c] = "none"
  /\ cpc' = [cpc EXCEPT ![c] = "typing"] /\ link' = [link EXCEPT ![c] = "open"]
  /\ backlog' = Append(backlog, c)
  /\ UNCHANGED <<streamVars, sent, got>>

\* A line is written, in one or two pieces as the network may cut it. On a
\* connection the server has closed, nothing comes of it.
Send(c) ==
  /\ cpc[c] = "typing"
  /\ \E n \in 1 .. 2 :
       /\ sent[c] + n <= MaxSent[c]
       /\ sent' = [sent EXCEPT ![c] = @ + n]
       /\ toServer' = [toServer EXCEPT ![c] =
            IF link[c] = "open" THEN @ \o [k \in 1 .. n |-> <<c, sent[c] + k>>] ELSE @]
  /\ cpc' = [cpc EXCEPT ![c] = "reading"]
  /\ UNCHANGED <<backlog, toClient, link, got>>

\* The client reads until it has as much as it wrote.
Receive(c) ==
  /\ cpc[c] = "reading"
  /\ \E n \in 1 .. Len(toClient[c]) :
       /\ got' = [got EXCEPT ![c] = @ \o SubSeq(toClient[c], 1, n)]
       /\ toClient' = [toClient EXCEPT ![c] = SubSeq(@, n + 1, Len(@))]
  /\ cpc' = [cpc EXCEPT ![c] = IF Len(got'[c]) = sent[c] THEN "typing" ELSE @]
  /\ UNCHANGED <<backlog, toServer, link, sent>>

\* "quit", or the user ends the client at any time. The kernel resets the
\* connection if there is an echo the client has not read.
Leave(c) ==
  /\ cpc[c] \in {"typing", "reading"}
  /\ cpc' = [cpc EXCEPT ![c] = "gone"]
  /\ link' = [link EXCEPT ![c] = IF @ # "open" THEN @
                                 ELSE IF toClient[c] = <<>> THEN "fin" ELSE "err"]
  /\ toClient' = [toClient EXCEPT ![c] = <<>>]
  /\ UNCHANGED <<backlog, toServer, sent, got>>

-----------------------------------------------------------------------------
(* What a server meets when it reads and writes.                           *)

\* There is something to read, be it the end or an error.
Readable(c) == toServer[c] # <<>> \/ link[c] \in {"fin", "err", "rst"}

\* read() of pieces returns all that has arrived, and more may be on its way.
TakeFrom(c, n) == toServer' = [toServer EXCEPT ![c] = SubSeq(@, n + 1, Len(@))]

\* Mutant of Answer: the last piece of the answer before is sent again.
AnswerTwice(c, n) ==
  \/ /\ link[c] = "open" /\ UNCHANGED link
     /\ toClient' = [toClient EXCEPT ![c] =
                       @ \o SubSeq(toServer[c], 1, n) \o SubSeq(toServer[c], n, n)]
  \/ link[c] = "fin" /\ link' \in {link, [link EXCEPT ![c] = "rst"]} /\ UNCHANGED toClient
  \/ link[c] = "err" /\ link' = [link EXCEPT ![c] = "rst"] /\ UNCHANGED toClient

\* write() of the first n pieces that were read. To a client that has gone it
\* succeeds until the reset it causes arrives; the first call after a reset
\* that found the connection open returns -1.
Answer(c, n) ==
  \/ /\ link[c] = "open" /\ UNCHANGED link
     /\ toClient' = [toClient EXCEPT ![c] = @ \o SubSeq(toServer[c], 1, n)]
  \/ link[c] = "fin" /\ link' \in {link, [link EXCEPT ![c] = "rst"]} /\ UNCHANGED toClient
  \/ link[c] = "err" /\ link' = [link EXCEPT ![c] = "rst"] /\ UNCHANGED toClient

\* The whole turn of a server's loop that reads pieces and writes them back.
Echoes(c) == \E n \in 1 .. Len(toServer[c]) : Answer(c, n) /\ TakeFrom(c, n)

\* write() to a connection that is known to be reset raises SIGPIPE.
EchoKills(c) == toServer[c] # <<>> /\ link[c] = "rst"

\* read() returns -1, and after that 0.
ReadsError(c) == toServer[c] = <<>> /\ link[c] = "err"

ReadsEnd(c) == toServer[c] = <<>> /\ link[c] \in {"fin", "rst"}

\* The connections cs are closed by the server or its kernel.
Closed(cs) == [c \in Clients |-> IF c \in cs THEN "closed" ELSE link[c]]

-----------------------------------------------------------------------------
Pieces == Clients \X Nat

TypeClients ==
  /\ backlog \in Seq(Clients)
  /\ toServer \in [Clients -> Seq(Pieces)] /\ toClient \in [Clients -> Seq(Pieces)]
  /\ link \in [Clients -> {"none", "open", "fin", "err", "rst", "closed"}]
  /\ cpc \in [Clients -> {"none", "typing", "reading", "gone"}]
  /\ sent \in [Clients -> Nat] /\ got \in [Clients -> Seq(Pieces)]

\* s holds the pieces of client c that come after its first n.
Follows(c, s, n) == \A k \in 1 .. Len(s) : s[k] = <<c, n + k>>

\* What client c has read, what is on its way to it and, while the connection
\* is open, what is on its way to the server continue one another.
InOrderOf(c) ==
  LET n == Len(got[c]) + Len(toClient[c]) IN
  /\ Follows(c, got[c], 0) /\ Follows(c, toClient[c], Len(got[c]))
  /\ n <= sent[c]
  /\ link[c] = "open" => Follows(c, toServer[c], n) /\ n + Len(toServer[c]) = sent[c]
  /\ cpc[c] = "none" <=> link[c] = "none"
  /\ cpc[c] = "none" => sent[c] = 0 /\ toServer[c] = <<>>

InOrder == \A c \in Clients : InOrderOf(c)

\* What the servers promise. A piece is known by its number, and by its
\* sender, which must be the client itself.
Promise == INSTANCE Echo WITH
  got <- [c \in Clients |-> [k \in 1 .. Len(got[c]) |->
            IF got[c][k][1] = c THEN got[c][k][2] ELSE 0]]
ImplementsEcho == Promise!Spec
=============================================================================
