----------------------------- MODULE SelectEcho -----------------------------
(***************************************************************************)
(* The echo server of thu/select, echo_server_select.c, which serves all   *)
(* its clients from one thread around select().                            *)
(*                                                                         *)
(* A step of the server is one select(), one accept() or one turn of the   *)
(* loop over its table. The kernel numbers descriptors from the lowest     *)
(* free one, so a number comes back soon after it was closed.              *)
(***************************************************************************)
EXTENDS EchoClients, FiniteSets, FiniteSetsExt

CONSTANTS
  NoClient,   \* stands for the owner of a descriptor that is not open
  LastFd,     \* the greatest descriptor the process may have
  MinusOne,   \* the descriptor whose bit FD_SET and FD_ISSET take for -1: 31
              \* in the repository's build, thu/select/server
  TableEnd    \* the index at which clientSock[] leaves the process' memory:
              \* 992 in that build. The array has MAX = 512 cells and nothing
              \* compares numClient with it

listenSock == 3
Fds == listenSock + 1 .. LastFd

ASSUME SelectEchoAssumption ==
  /\ NoClient \notin Clients /\ IsFiniteSet(Clients)
  /\ LastFd \in Nat /\ LastFd > listenSock
  /\ MinusOne \in Fds /\ TableEnd \in Nat

VARIABLES
  up,           \* the server runs
  pc,           \* what it does next: "select", "accept", "loop"
  clientSock,   \* the table's first numClient cells
  read_fds,     \* the descriptors select() left in the set
  i,            \* the loop's place in the table, from 1
  owner,        \* the connection each descriptor is open on
  len           \* the uninitialised size accept() is given: "ok", "negative"

serverVars == <<up, pc, clientSock, read_fds, i, owner, len>>
vars == <<serverVars, backlog, streamVars, link, clientVars>>

numClient == Len(clientSock)

Init ==
  /\ InitClients
  /\ up = TRUE /\ pc = "select" /\ clientSock = <<>> /\ read_fds = {} /\ i = 1
  /\ owner = [f \in Fds |-> NoClient]
  /\ len \in {"ok", "negative"}

-----------------------------------------------------------------------------
\* The process ends, and the kernel closes its connections.
Die ==
  /\ up' = FALSE /\ backlog' = <<>>
  /\ link' = Closed({c \in Clients : link[c] # "none"})
  /\ UNCHANGED <<pc, clientSock, read_fds, i, owner, len, streamVars, clientVars>>

\* The bit a cell of the table stands for.
Bit(fd) == IF fd = -1 THEN MinusOne ELSE fd

TableFds == {clientSock[k] : k \in 1 .. numClient}

\* Mutant of maxfd: the result of getMaxfd() without the 1 that is added.
maxfdShort == Max(TableFds \union {listenSock})

maxfd == Max(TableFds \union {listenSock}) + 1

\* What select() looks at: the bits that are set, below maxfd.
Watched == {f \in {Bit(fd) : fd \in TableFds} : f < maxfd}

Ready ==
  {f \in Watched : Readable(owner[f])}
    \union {f \in {listenSock} : f < maxfd /\ backlog # <<>>}

Select ==
  /\ up /\ pc = "select" /\ NoClient \notin {owner[f] : f \in Watched} /\ Ready # {}
  /\ read_fds' = Ready /\ i' = 1
  /\ pc' = IF listenSock \in Ready THEN "accept" ELSE "loop"
  /\ UNCHANGED <<up, clientSock, owner, len, backlog, streamVars, link, clientVars>>

\* A descriptor in the set is not open: select() fails and the process exits.
SelectFails ==
  /\ up /\ pc = "select" /\ NoClient \in {owner[f] : f \in Watched}
  /\ Die

FreeFds == {f \in Fds : owner[f] = NoClient}

\* Mutant of Accept: the new connection is taken to be ready.
AcceptMarks ==
  /\ up /\ pc = "accept" /\ len = "ok" /\ numClient < TableEnd
  /\ \E connSock \in FreeFds :
       /\ \A f \in FreeFds : connSock <= f
       /\ owner' = [owner EXCEPT ![connSock] = Head(backlog)]
       /\ clientSock' = Append(clientSock, connSock)
       /\ read_fds' = read_fds \union {connSock}
  /\ backlog' = Tail(backlog) /\ pc' = "loop"
  /\ UNCHANGED <<up, i, len, streamVars, link, clientVars>>

Accept ==
  /\ up /\ pc = "accept" /\ len = "ok" /\ numClient < TableEnd
  /\ \E connSock \in FreeFds :
       /\ \A f \in FreeFds : connSock <= f
       /\ owner' = [owner EXCEPT ![connSock] = Head(backlog)]
       /\ clientSock' = Append(clientSock, connSock)
  /\ backlog' = Tail(backlog) /\ pc' = "loop"
  /\ UNCHANGED <<up, read_fds, i, len, streamVars, link, clientVars>>

\* Mutant of AcceptFails: a descriptor of 0 is entered.
AcceptFailsZero ==
  /\ up /\ pc = "accept" /\ numClient < TableEnd /\ FreeFds = {}
  /\ clientSock' = Append(clientSock, 0) /\ pc' = "loop"
  /\ UNCHANGED <<up, read_fds, i, owner, len, backlog, streamVars, link, clientVars>>

\* accept() returns -1, which is entered like a descriptor. Without a free
\* descriptor the connection stays where it is; with a negative len the kernel
\* has taken it and drops it.
AcceptFails ==
  /\ up /\ pc = "accept" /\ numClient < TableEnd
  /\ \/ FreeFds = {} /\ UNCHANGED <<backlog, link, toServer>>
     \/ /\ FreeFds # {} /\ len = "negative"
        /\ backlog' = Tail(backlog) /\ link' = Closed({Head(backlog)})
        /\ toServer' = [toServer EXCEPT ![Head(backlog)] = <<>>]
  /\ clientSock' = Append(clientSock, -1) /\ pc' = "loop"
  /\ UNCHANGED <<up, read_fds, i, owner, len, toClient, clientVars>>

\* The cell after the last is beyond the process' memory.
AcceptOverflows == up /\ pc = "accept" /\ numClient >= TableEnd /\ Die

InLoop == up /\ pc = "loop" /\ i <= numClient

\* The cell's descriptor is in the set.
Isset == Bit(clientSock[i]) \in read_fds

\* The cell's descriptor is not in the set; or it is -1, and read() and write()
\* fail without an effect.
Pass ==
  /\ InLoop /\ (~ Isset \/ clientSock[i] = -1)
  /\ i' = i + 1
  /\ UNCHANGED <<up, pc, clientSock, read_fds, owner, len, backlog, streamVars,
                 link, clientVars>>

\* The connection of the cell that is to be read.
current == owner[clientSock[i]]

InRead == InLoop /\ Isset /\ clientSock[i] # -1

ReadData ==
  /\ InRead /\ Echoes(current)
  /\ i' = i + 1
  /\ UNCHANGED <<up, pc, clientSock, read_fds, owner, len, backlog, clientVars>>

ReadDataKills == InRead /\ EchoKills(current) /\ Die

\* -1 is not 0: nothing is closed, and write() of -1 bytes fails.
ReadFails ==
  /\ InRead /\ ReadsError(current)
  /\ link' = [link EXCEPT ![current] = "rst"]
  /\ i' = i + 1
  /\ UNCHANGED <<up, pc, clientSock, read_fds, owner, len, backlog, streamVars, clientVars>>

\* Mutant of Remove: the last cell is dropped and not moved.
RemoveLast == clientSock' = SubSeq(clientSock, 1, numClient - 1)

\* Cell i leaves the table: the last one takes its place.
Remove ==
  clientSock' = [k \in 1 .. numClient - 1 |->
                   IF k = i THEN clientSock[numClient] ELSE clientSock[k]]

\* Mutant of ReadEnd: the descriptor is not closed.
ReadEndLeaks ==
  /\ InRead /\ ReadsEnd(current)
  /\ Remove /\ i' = i + 1
  /\ UNCHANGED <<up, pc, read_fds, owner, link, len, backlog, streamVars, clientVars>>

\* read() returns 0: the descriptor is closed and the cell given up. The loop
\* goes on behind it, past the client that was moved there.
ReadEnd ==
  /\ InRead /\ ReadsEnd(current)
  /\ owner' = [owner EXCEPT ![clientSock[i]] = NoClient]
  /\ link' = Closed({current})
  /\ Remove /\ i' = i + 1
  /\ UNCHANGED <<up, pc, read_fds, len, backlog, streamVars, clientVars>>

LoopEnds ==
  /\ up /\ pc = "loop" /\ i > numClient
  /\ pc' = "select"
  /\ UNCHANGED <<up, clientSock, read_fds, i, owner, len, backlog, streamVars,
                 link, clientVars>>

-----------------------------------------------------------------------------
ServerStep ==
  \/ Select \/ SelectFails \/ Accept \/ AcceptFails \/ AcceptOverflows
  \/ Pass \/ ReadData \/ ReadDataKills \/ ReadFails \/ ReadEnd \/ LoopEnds

ClientStep(c) == (up /\ Connect(c)) \/ Send(c) \/ Receive(c) \/ Leave(c)

Next == ServerStep \/ \E c \in Clients : ClientStep(c) /\ UNCHANGED serverVars

Spec == Init /\ [][Next]_vars

\* The server runs, and so does a client that reads an echo. Nobody has to
\* connect, type or leave.
FairSpec ==
  /\ Spec /\ WF_vars(ServerStep)
  /\ \A c \in Clients : WF_vars(Receive(c) /\ UNCHANGED serverVars)

-----------------------------------------------------------------------------
TypeOK ==
  /\ TypeClients
  /\ up \in BOOLEAN /\ pc \in {"select", "accept", "loop"}
  /\ clientSock \in Seq(Fds \union {-1}) /\ i \in Nat \ {0}
  /\ read_fds \subseteq Fds \union {listenSock}
  /\ owner \in [Fds -> Clients \union {NoClient}]
  /\ len \in {"ok", "negative"}

\* However clients come and go while the loop runs, the table holds each open
\* descriptor once and no other, but for the -1 of a failed accept().
TableIsExact ==
  /\ TableFds \ {-1} = Fds \ FreeFds
  /\ \A j, k \in 1 .. numClient :
       clientSock[j] = clientSock[k] /\ clientSock[j] # -1 => j = k

\* The one thread never waits in a read(), where it would serve nobody: what it
\* reads from is ready, though the set is older than the table it is tested
\* against, which accept() and close() have changed since.
NeverWaitsForOne ==
  InRead => current # NoClient /\ Readable(current)

\* A connection is open on one descriptor, and while it waits on none.
OwnedOnce ==
  /\ \A f, g \in Fds : owner[f] = owner[g] /\ owner[f] # NoClient => f = g
  /\ \A f \in Fds : owner[f] # NoClient => link[owner[f]] # "none"
  /\ \A j, k \in 1 .. Len(backlog) : backlog[j] = backlog[k] => j = k
  /\ \A k \in 1 .. Len(backlog) :
       link[backlog[k]] # "none" /\ \A f \in Fds : owner[f] # backlog[k]

\* What select() found ready and the loop has not come to is still so.
ReadyAhead ==
  /\ up /\ pc = "accept" =>
       /\ i = 1 /\ backlog # <<>>
       /\ \A f \in read_fds \ {listenSock} : owner[f] # NoClient /\ Readable(owner[f])
  /\ up /\ pc = "loop" =>
       \A k \in i .. numClient :
         clientSock[k] # -1 /\ clientSock[k] \in read_fds => Readable(owner[clientSock[k]])

IInv == TypeOK /\ InOrder /\ TableIsExact /\ OwnedOnce /\ ReadyAhead

\* A piece, once sent, comes back, unless the client leaves or the server ends
\* or drops it: also when the client was just moved in the table.
EventuallyEchoed ==
  \A c \in Clients : \A k \in 1 .. MaxSent[c] :
    sent[c] >= k ~> Len(got[c]) >= k \/ link[c] # "open"

\* What a client leaves behind is closed in the end, be it after an end of
\* file or a reset, so that its descriptor is free again.
EventuallyClosed ==
  \A c \in Clients : link[c] \in {"fin", "err"} ~> link[c] = "closed"
=============================================================================
