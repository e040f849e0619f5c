----------------------------- MODULE ThreadEcho -----------------------------
(***************************************************************************)
(* The echo servers with a thread for each connection: thu/echo_thread/    *)
(* echo_server.c, and fri/sock_opt/echo_server.c, the same with            *)
(* SO_REUSEADDR.  The threads share the process' descriptors, which the    *)
(* kernel numbers from the lowest free one: each must read from and close  *)
(* its own only.  A server that has ended may be started again.            *)
(***************************************************************************)
EXTENDS EchoClients, FiniteSets

CONSTANTS
  NoClient,     \* stands for the owner of a descriptor that is not open
  LastFd,       \* the greatest descriptor the process may have
  MaxRunaways,  \* bound on the threads that read from -1 in a run
  MaxRestarts   \* bound on the restarts of the server

s_socket == 3
Fds == s_socket + 1 .. LastFd

ASSUME ThreadEchoAssumption ==
  /\ NoClient \notin Clients /\ IsFiniteSet(Clients)
  /\ LastFd \in Nat /\ MaxRunaways \in Nat /\ MaxRestarts \in Nat

VARIABLES
  reuse,       \* the program: TRUE for the one that sets SO_REUSEADDR
  up,          \* the server runs
  pc,          \* what its main thread does next: "accept", "create"
  c_socket,    \* what accept() returned, until the thread is created
  owner,       \* the connection each descriptor is open on
  thread,      \* the thread of a connection: "none", "run", "ended"
  arg,         \* the descriptor the thread was given, -1 when it has ended
  runaways,    \* the threads that were given -1
  lingering,   \* connections the kernel keeps after their server has ended
  restarts

mainVars == <<reuse, up, pc, c_socket, runaways, lingering, restarts>>
serverVars == <<mainVars, owner, thread, arg>>
vars == <<serverVars, backlog, streamVars, link, clientVars>>

Init ==
  /\ InitClients
  /\ reuse \in BOOLEAN /\ up = TRUE /\ pc = "accept" /\ c_socket = -1
  /\ owner = [f \in Fds |-> NoClient]
  /\ thread = [c \in Clients |-> "none"] /\ arg = [c \in Clients |-> -1]
  /\ runaways = 0 /\ lingering = {} /\ restarts = 0

-----------------------------------------------------------------------------
\* The process ends with all its threads. Connections its clients have not
\* closed before linger, unless they are reset for what was not read.
Die ==
  /\ up' = FALSE /\ backlog' = <<>> /\ pc' = "accept" /\ c_socket' = -1
  /\ lingering' = lingering \union {c \in Clients : link[c] = "open" /\ toServer[c] = <<>>}
  /\ link' = Closed({c \in Clients : link[c] # "none"})
  /\ owner' = [f \in Fds |-> NoClient]
  /\ thread' = [c \in Clients |-> IF thread[c] = "run" THEN "ended" ELSE thread[c]]
  /\ arg' = [c \in Clients |-> -1] /\ runaways' = 0
  /\ UNCHANGED <<reuse, restarts, streamVars, clientVars>>

LingerEnds ==
  /\ \E c \in lingering : lingering' = lingering \ {c}
  /\ UNCHANGED <<reuse, up, pc, c_socket, runaways, restarts, owner, thread, arg, backlog,
                 streamVars, link, clientVars>>

\* bind() fails while a connection lingers, unless SO_REUSEADDR is set.
Restart ==
  /\ ~ up /\ restarts < MaxRestarts /\ (reuse \/ lingering = {})
  /\ up' = TRUE /\ restarts' = restarts + 1
  /\ UNCHANGED <<reuse, pc, c_socket, runaways, lingering, owner, thread, arg, backlog,
                 streamVars, link, clientVars>>

FreeFds == {f \in Fds : owner[f] = NoClient}

\* Mutant of Accept: the main thread joins a thread before it goes on.
AcceptJoins ==
  /\ up /\ pc = "accept" /\ backlog # <<>>
  /\ \A c \in Clients : thread[c] # "run"
  /\ \E f \in FreeFds : /\ \A g \in FreeFds : f <= g
                       /\ c_socket' = f /\ owner' = [owner EXCEPT ![f] = Head(backlog)]
  /\ backlog' = Tail(backlog) /\ pc' = "create"
  /\ UNCHANGED <<reuse, up, runaways, lingering, restarts, thread, arg, streamVars, link, clientVars>>

Accept ==
  /\ up /\ pc = "accept" /\ backlog # <<>>
  /\ \E f \in FreeFds : /\ \A g \in FreeFds : f <= g
                       /\ c_socket' = f /\ owner' = [owner EXCEPT ![f] = Head(backlog)]
  /\ backlog' = Tail(backlog) /\ pc' = "create"
  /\ UNCHANGED <<reuse, up, runaways, lingering, restarts, thread, arg, streamVars, link, clientVars>>

\* Without a free descriptor accept() returns -1 at once, connection or not,
\* and that is a thread's argument like any other.
AcceptFails ==
  /\ up /\ pc = "accept" /\ FreeFds = {} /\ runaways < MaxRunaways
  /\ c_socket' = -1 /\ pc' = "create"
  /\ UNCHANGED <<reuse, up, runaways, lingering, restarts, owner, thread, arg, backlog,
                 streamVars, link, clientVars>>

\* Mutant of Create: the main thread closes the descriptor, as a server that
\* forks would.
CreateCloses ==
  /\ up /\ pc = "create" /\ pc' = "accept" /\ c_socket' = -1
  /\ IF c_socket = -1
     THEN runaways' = runaways + 1 /\ UNCHANGED <<thread, arg, owner>>
     ELSE /\ thread' = [thread EXCEPT ![owner[c_socket]] = "run"]
          /\ arg' = [arg EXCEPT ![owner[c_socket]] = c_socket]
          /\ owner' = [owner EXCEPT ![c_socket] = NoClient]
          /\ UNCHANGED runaways
  /\ UNCHANGED <<reuse, up, lingering, restarts, backlog, streamVars, link, clientVars>>

\* The thread is given the descriptor by value. One that is given -1 reads -1
\* from it, which is not 0, for ever.
Create ==
  /\ up /\ pc = "create" /\ pc' = "accept" /\ c_socket' = -1
  /\ IF c_socket = -1
     THEN runaways' = runaways + 1 /\ UNCHANGED <<thread, arg>>
     ELSE /\ thread' = [thread EXCEPT ![owner[c_socket]] = "run"]
          /\ arg' = [arg EXCEPT ![owner[c_socket]] = c_socket]
          /\ UNCHANGED runaways
  /\ UNCHANGED <<reuse, up, lingering, restarts, owner, backlog, streamVars, link, clientVars>>

\* pthread_create() fails: exit(1). An interrupt has the same effect.
CreateFails == up /\ Die

-----------------------------------------------------------------------------
(* The thread of connection t reads what its descriptor is open on.        *)

Reads(t, c) == thread[t] = "run" /\ c = owner[arg[t]] /\ c # NoClient

ReadData(t) ==
  /\ \E c \in Clients : Reads(t, c) /\ Echoes(c)
  /\ UNCHANGED <<serverVars, backlog, clientVars>>

\* SIGPIPE ends the whole process.
ReadDataKills(t) == (\E c \in Clients : Reads(t, c) /\ EchoKills(c)) /\ Die

\* -1 is not 0; the write() of -1 bytes fails, too.
ReadFails(t) ==
  /\ \E c \in Clients : /\ Reads(t, c) /\ ReadsError(c)
                        /\ link' = [link EXCEPT ![c] = "rst"]
  /\ UNCHANGED <<serverVars, backlog, streamVars, clientVars>>

ReadEnd(t) ==
  /\ \E c \in Clients : Reads(t, c) /\ ReadsEnd(c) /\ link' = Closed({c})
  /\ owner' = [owner EXCEPT ![arg[t]] = NoClient]
  /\ thread' = [thread EXCEPT ![t] = "ended"] /\ arg' = [arg EXCEPT ![t] = -1]
  /\ UNCHANGED <<mainVars, backlog, streamVars, clientVars>>

-----------------------------------------------------------------------------
MainStep == Accept \/ AcceptFails \/ Create
ThreadStep(t) == ReadData(t) \/ ReadDataKills(t) \/ ReadFails(t) \/ ReadEnd(t)
ClientStep(c) == (up /\ Connect(c)) \/ Send(c) \/ Receive(c) \/ Leave(c)

Next ==
  \/ MainStep \/ CreateFails \/ LingerEnds \/ Restart
  \/ \E c \in Clients : ThreadStep(c) \/ (ClientStep(c) /\ UNCHANGED serverVars)

Spec == Init /\ [][Next]_vars

\* The server's threads run, and so does a client that reads an echo.
FairSpec ==
  /\ Spec /\ WF_vars(MainStep)
  /\ \A c \in Clients :
       WF_vars(ThreadStep(c)) /\ WF_vars(Receive(c) /\ UNCHANGED serverVars)

-----------------------------------------------------------------------------
TypeOK ==
  /\ TypeClients
  /\ reuse \in BOOLEAN /\ up \in BOOLEAN /\ pc \in {"accept", "create"}
  /\ c_socket \in Fds \union {-1}
  /\ owner \in [Fds -> Clients \union {NoClient}]
  /\ thread \in [Clients -> {"none", "run", "ended"}] /\ arg \in [Clients -> Fds \union {-1}]
  /\ runaways \in Nat /\ lingering \subseteq Clients /\ restarts \in Nat

\* The connection whose thread is about to be created.
Creating(c) == pc = "create" /\ c_socket # -1 /\ owner[c_socket] = c

Waiting == {backlog[k] : k \in 1 .. Len(backlog)}

\* However threads end and their descriptors' numbers come back, a thread's
\* descriptor is open on its own connection and no other thread has it; a
\* connection has a thread as long as it is open, once it was accepted.
OwnDescriptor ==
  /\ \A c \in Clients : thread[c] = "run" => arg[c] \in Fds /\ owner[arg[c]] = c
  /\ \A f \in Fds : owner[f] # NoClient =>
       \/ pc = "create" /\ c_socket = f /\ thread[owner[f]] = "none"
       \/ thread[owner[f]] = "run" /\ arg[owner[f]] = f
  /\ pc = "create" /\ c_socket # -1 =>
       owner[c_socket] # NoClient /\ thread[owner[c_socket]] = "none"
  /\ \A c \in Clients : link[c] \notin {"none", "closed"} =>
       thread[c] = "run" \/ Creating(c) \/ (c \in Waiting /\ thread[c] = "none")

\* A connection in the backlog is there once, and no step has been made for it.
WaitsOnce ==
  /\ \A k \in 1 .. Len(backlog) :
       LET c == backlog[k] IN
       link[c] \notin {"none", "closed"} /\ thread[c] = "none" /\ ~ Creating(c)
  /\ \A j, k \in 1 .. Len(backlog) : backlog[j] = backlog[k] => j = k
  /\ \A c \in Clients : link[c] = "none" => thread[c] = "none" /\ ~ Creating(c)

IInv == TypeOK /\ InOrder /\ OwnDescriptor /\ WaitsOnce

\* A piece sent on a connection comes back, unless the client leaves or the
\* server ends: at once when the connection has its thread, also next to clients
\* that are reset and to threads that spin on -1; and from the backlog, unless
\* from some point on no descriptor is ever given back.
EventuallyEchoed ==
  \A c \in Clients : \A k \in 1 .. MaxSent[c] :
    /\ sent[c] >= k /\ thread[c] = "run" ~> Len(got[c]) >= k \/ link[c] # "open"
    /\ []<>(FreeFds # {}) => (sent[c] >= k ~> Len(got[c]) >= k \/ link[c] # "open")
=============================================================================
