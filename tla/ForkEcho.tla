------------------------------ MODULE ForkEcho ------------------------------
(***************************************************************************)
(* The echo servers of wen/fork that fork a child for each connection and  *)
(* catch SIGCHLD: echo_server_fok_sig.c, whose handler reaps one child and *)
(* returns, and echo_server_fork.c, whose handler reaps one and exits.     *)
(*                                                                         *)
(* SIGCHLD is a standard signal: deaths that come while it is pending are  *)
(* not counted. It is blocked while its handler runs, and it interrupts an *)
(* accept() that waits, since sa_flags is 0.                               *)
(***************************************************************************)
EXTENDS EchoClients, FiniteSets

CONSTANT NoSock   \* the -1 that accept() returns

ASSUME ForkEchoAssumption == NoSock \notin Clients /\ IsFiniteSet(Clients)

VARIABLES
  handlerExits,  \* the program: TRUE for echo_server_fork.c
  parent,        \* the server's process: in "accept", before "fork", "gone"
  connSock,
  pending,       \* SIGCHLD is pending
  handling,      \* the handler runs and is in its wait()
  interrupted,   \* accept() will return -1, as the handler interrupted it
  child,         \* each connection's child: "none", "echo", "zombie", "reaped"
  runaways,      \* the children that read from -1
  lost           \* history: the deaths that found SIGCHLD pending

signalVars == <<pending, handling, interrupted>>
serverVars == <<handlerExits, parent, connSock, signalVars, child, runaways, lost>>
vars == <<serverVars, backlog, streamVars, link, clientVars>>

Init ==
  /\ InitClients
  /\ handlerExits \in BOOLEAN /\ parent = "accept" /\ connSock = NoSock
  /\ pending = FALSE /\ handling = FALSE /\ interrupted = FALSE
  /\ child = [c \in Clients |-> "none"] /\ runaways = 0 /\ lost = 0

Zombies == {c \in Clients : child[c] = "zombie"}

-----------------------------------------------------------------------------
(* The parent.                                                             *)

InMain == parent # "gone" /\ ~ handling

\* The process ends: nobody accepts any more, and init reaps its children. The
\* connections cs, which no child has, are closed.
ParentEnds(cs, reaped) ==
  /\ parent' = "gone" /\ backlog' = <<>> /\ link' = Closed(cs)
  /\ child' = [c \in Clients |-> IF c \in reaped THEN "reaped" ELSE child[c]]
  /\ pending' = FALSE /\ handling' = FALSE /\ interrupted' = FALSE
  /\ UNCHANGED <<handlerExits, connSock, runaways, lost, streamVars, clientVars>>

Waiting == {backlog[k] : k \in 1 .. Len(backlog)}

Accept ==
  /\ InMain /\ parent = "accept" /\ ~ interrupted /\ backlog # <<>>
  /\ connSock' = Head(backlog) /\ backlog' = Tail(backlog) /\ parent' = "fork"
  /\ UNCHANGED <<handlerExits, signalVars, child, runaways, lost, streamVars, link, clientVars>>

\* accept() returns -1. That is printed, and the server goes on to fork().
AcceptInterrupted ==
  /\ InMain /\ parent = "accept" /\ interrupted
  /\ connSock' = NoSock /\ interrupted' = FALSE /\ parent' = "fork"
  /\ UNCHANGED <<handlerExits, pending, handling, child, runaways, lost, backlog,
                 streamVars, link, clientVars>>

\* Mutant of Fork: the child goes on to accept(), too.
ForkForgets ==
  /\ InMain /\ parent = "fork"
  /\ child' = [c \in Clients |-> IF c = connSock THEN "reaped" ELSE child[c]]
  /\ runaways' = runaways + (IF connSock = NoSock THEN 1 ELSE 0)
  /\ parent' = "accept"
  /\ UNCHANGED <<handlerExits, connSock, signalVars, lost, backlog, streamVars, link, clientVars>>

\* fork(), and close() in the parent. A child of -1 reads -1 from it for ever.
Fork ==
  /\ InMain /\ parent = "fork"
  /\ child' = [c \in Clients |-> IF c = connSock THEN "echo" ELSE child[c]]
  /\ runaways' = runaways + (IF connSock = NoSock THEN 1 ELSE 0)
  /\ parent' = "accept"
  /\ UNCHANGED <<handlerExits, connSock, signalVars, lost, backlog, streamVars, link, clientVars>>

ForkFails ==
  /\ InMain /\ parent = "fork"
  /\ ParentEnds(Waiting \union ({connSock} \ {NoSock}), Zombies)

\* Mutant of HandlerBegins: whatever the parent does, fork() is called for it.
HandlerBeginsAlways ==
  /\ InMain /\ pending
  /\ handling' = TRUE /\ pending' = FALSE
  /\ interrupted' = TRUE /\ runaways' = runaways + 1
  /\ UNCHANGED <<handlerExits, parent, connSock, child, lost, backlog, streamVars,
                 link, clientVars>>

\* The kernel delivers SIGCHLD. accept() is interrupted if the parent has
\* entered it and no connection is there.
HandlerBegins ==
  /\ InMain /\ pending
  /\ handling' = TRUE /\ pending' = FALSE
  /\ \/ UNCHANGED interrupted
     \/ parent = "accept" /\ backlog = <<>> /\ interrupted' = TRUE
  /\ UNCHANGED <<handlerExits, parent, connSock, child, runaways, lost, backlog,
                 streamVars, link, clientVars>>

\* Mutant of HandlerEnds: wait() is called as long as there is a zombie.
HandlerEndsAll ==
  /\ handling /\ ~ handlerExits /\ Zombies # {}
  /\ child' = [c \in Clients |-> IF c \in Zombies THEN "reaped" ELSE child[c]]
  /\ handling' = FALSE
  /\ UNCHANGED <<handlerExits, parent, connSock, pending, interrupted, runaways,
                 lost, backlog, streamVars, link, clientVars>>

\* wait() returns with one of the zombies; without one it would go on waiting.
HandlerEnds ==
  /\ handling /\ ~ handlerExits
  /\ \E c \in Zombies : child' = [child EXCEPT ![c] = "reaped"]
  /\ handling' = FALSE
  /\ UNCHANGED <<handlerExits, parent, connSock, pending, interrupted, runaways,
                 lost, backlog, streamVars, link, clientVars>>

\* The same in echo_server_fork.c, where the handler ends with exit(1).
HandlerExits ==
  /\ handling /\ handlerExits /\ Zombies # {}
  /\ ParentEnds(Waiting \union (IF parent = "fork" THEN {connSock} \ {NoSock} ELSE {}),
                Zombies)

-----------------------------------------------------------------------------
(* The children.                                                           *)

\* Mutant of Dies: the death is not told to a parent that is in its handler.
DiesUntold(c) ==
  /\ child' = [child EXCEPT ![c] = IF parent = "gone" THEN "reaped" ELSE "zombie"]
  /\ link' = Closed({c})
  /\ pending' = (pending \/ (parent # "gone" /\ ~ handling))
  /\ lost' = lost + (IF pending THEN 1 ELSE 0)
  /\ UNCHANGED <<handlerExits, parent, connSock, handling, interrupted, runaways,
                 backlog, streamVars, clientVars>>

\* The child of c ends and becomes a zombie of its parent, or of init.
Dies(c) ==
  /\ child' = [child EXCEPT ![c] = IF parent = "gone" THEN "reaped" ELSE "zombie"]
  /\ link' = Closed({c})
  /\ pending' = (parent # "gone")
  /\ lost' = lost + (IF pending THEN 1 ELSE 0)
  /\ UNCHANGED <<handlerExits, parent, connSock, handling, interrupted, runaways,
                 backlog, streamVars, clientVars>>

\* Mutant of ReadData: a child works only while the server does.
ReadDataAttached(c) ==
  /\ child[c] = "echo" /\ parent # "gone" /\ Echoes(c)
  /\ UNCHANGED <<serverVars, backlog, clientVars>>

ReadData(c) ==
  /\ child[c] = "echo" /\ Echoes(c)
  /\ UNCHANGED <<serverVars, backlog, clientVars>>

ReadFails(c) ==
  /\ child[c] = "echo" /\ ReadsError(c)
  /\ link' = [link EXCEPT ![c] = "rst"]
  /\ UNCHANGED <<serverVars, backlog, streamVars, clientVars>>

\* The end of file, or SIGPIPE.
ChildEnds(c) == child[c] = "echo" /\ (ReadsEnd(c) \/ EchoKills(c)) /\ Dies(c)

-----------------------------------------------------------------------------
ParentStep ==
  \/ Accept \/ AcceptInterrupted \/ Fork \/ HandlerBegins \/ HandlerEnds \/ HandlerExits

ChildStep(c) == ReadData(c) \/ ReadFails(c) \/ ChildEnds(c)

ClientStep(c) == (parent # "gone" /\ Connect(c)) \/ Send(c) \/ Receive(c) \/ Leave(c)

Next ==
  \/ ParentStep \/ ForkFails
  \/ \E c \in Clients : ChildStep(c) \/ (ClientStep(c) /\ UNCHANGED serverVars)

Spec == Init /\ [][Next]_vars

\* The processes of the server run, and so does a client that reads an echo.
FairSpec ==
  /\ Spec /\ WF_vars(ParentStep)
  /\ \A c \in Clients :
       WF_vars(ChildStep(c)) /\ WF_vars(Receive(c) /\ UNCHANGED serverVars)

-----------------------------------------------------------------------------
TypeOK ==
  /\ TypeClients
  /\ handlerExits \in BOOLEAN /\ parent \in {"accept", "fork", "gone"}
  /\ connSock \in Clients \union {NoSock}
  /\ pending \in BOOLEAN /\ handling \in BOOLEAN /\ interrupted \in BOOLEAN
  /\ child \in [Clients -> {"none", "echo", "zombie", "reaped"}]
  /\ runaways \in Nat /\ lost \in Nat

One(b) == IF b THEN 1 ELSE 0

\* Every zombie is accounted for: one for the handler that runs, one for the
\* signal that is pending, and one for each death that found it pending. So
\* the handler's wait() always finds a zombie, and never stops the server.
ZombiesAccounted ==
  parent # "gone" => Cardinality(Zombies) = lost + One(pending) + One(handling)

\* The children that spin on -1 are at most one for each child that ended.
RunawaysBounded ==
  runaways + One(interrupted) + One(parent = "fork" /\ connSock = NoSock)
    <= Cardinality({c \in Clients : child[c] = "reaped"}) + One(handling)

\* Each connection that was accepted has one child, which lives as long as it.
ChildPerConnection ==
  \A c \in Clients :
    child[c] = "echo" <=>
      /\ link[c] \notin {"none", "closed"} /\ c \notin Waiting
      /\ ~ (parent = "fork" /\ connSock = c)

\* A connection waits, or is about to get its child, once, and has none then.
Untried(c) == child[c] = "none" /\ link[c] \notin {"none", "closed"}

WaitsOnce ==
  /\ \A k \in 1 .. Len(backlog) : Untried(backlog[k])
  /\ \A j, k \in 1 .. Len(backlog) : backlog[j] = backlog[k] => j = k
  /\ parent = "fork" /\ connSock # NoSock => Untried(connSock) /\ connSock \notin Waiting
  /\ \A c \in Clients : link[c] = "none" => child[c] = "none"

\* The inductive invariant.
IInv ==
  /\ TypeOK /\ InOrder /\ WaitsOnce
  /\ ChildPerConnection /\ ZombiesAccounted /\ RunawaysBounded

\* A connection gets its child in the end, as long as there is a server: no
\* signal makes it miss one.
EventuallyServed ==
  \A c \in Clients : link[c] # "none" ~> child[c] # "none" \/ parent = "gone"

\* A piece that a child was sent comes back unless the client leaves, also
\* when the server has ended.
EventuallyEchoed ==
  \A c \in Clients : \A k \in 1 .. MaxSent[c] :
    child[c] = "echo" /\ sent[c] >= k ~> Len(got[c]) >= k \/ link[c] # "open"

\* As long as no two deaths fell together, every child is reaped.
EventuallyReaped ==
  \A c \in Clients : child[c] = "zombie" ~> child[c] = "reaped" \/ lost > 0
=============================================================================
