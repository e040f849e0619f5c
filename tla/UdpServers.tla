----------------------------- MODULE UdpServers -----------------------------
(***************************************************************************)
(* The datagram echo servers.  wen/udp/echo_server_UDP.c ("echo") answers  *)
(* itself, wen/udp_alarm/echo_server_UDPalarm_test.c ("silent") never.     *)
(* The relays of fri receive in one process and answer in others:          *)
(* pipe/udpserv_pipeecho.c and fifo/udpserv_fifoecho.c in a child behind a *)
(* pipe or a FIFO, msgq/msgq_echoserv.c in three res_send processes behind *)
(* a System V message queue; if res_send cannot be executed, its children  *)
(* receive as well and nobody answers.                                     *)
(*                                                                         *)
(* Any process may be killed at any time, and the server be run again when *)
(* its first process has ended.  A run is the server's first process, its  *)
(* parent, and those it forks; they share its socket, which has the port   *)
(* until the last of them ends.                                            *)
(***************************************************************************)
EXTENDS UdpClients, FiniteSets, SequencesExt

CONSTANTS
  Kinds,      \* the servers that are considered
  MaxRuns,    \* bound on how often the server is run
  Senders,    \* the res_send processes of a run; three in the code
  Children,   \* those a run forks if res_send cannot be executed, for each
              \* child does its parent's forks that are left: 2^3 - 1
  QueueCap    \* the messages that the pipe, FIFO or message queue holds

Runs == 1 .. MaxRuns
Workers == Runs \X (1 .. Children)

ASSUME UdpServersAssumption ==
  /\ Kinds \subseteq {"echo", "silent", "pipe", "fifo", "msgq"}
  /\ MaxRuns \in Nat /\ QueueCap \in Nat \ {0}
  /\ Children \in Nat \ {0} /\ Senders \in 1 .. Children

VARIABLES
  kind,       \* which of the servers it is
  bound,      \* the run whose socket has the port, 0 if there is none
  ppc,        \* a run's parent: "none", "recv", "pass" (it has a datagram),
              \* "dead"
  hold,       \* the datagram it has to answer or pass on, a sequence of one
  queue,      \* what was written and not read yet
  wpc,        \* a forked process: "none", "dead"; "read", "send" if it answers;
              \* "recv", "pass" if it is left a receiver
  pmsg        \* the message it read or received last, as long as it may send or
              \* pass it; empty if there was none

serverVars == <<kind, bound, ppc, hold, queue, wpc, pmsg>>
vars == <<serverVars, toServer, toClient, clientVars>>

Init ==
  /\ InitClients
  /\ kind \in Kinds /\ bound = 0
  /\ ppc = [r \in Runs |-> "none"] /\ hold = [r \in Runs |-> <<>>]
  /\ queue = [r \in Runs |-> <<>>]
  /\ wpc = [w \in Workers |-> "none"] /\ pmsg = [w \in Workers |-> <<>>]

-----------------------------------------------------------------------------
Piped == kind \in {"pipe", "fifo"}

\* Every run has a pipe of its own, but they share the FIFO and the queue.
QueueOf(r) == IF kind = "pipe" THEN r ELSE 1

Receiving(r) == ppc[r] \in {"recv", "pass"}
ReceivesToo(w) == wpc[w] \in {"recv", "pass"}
Living(w) == wpc[w] \in {"read", "send"} \/ ReceivesToo(w)

Writers(q) == {r \in Runs : Receiving(r) /\ QueueOf(r) = q}
Readers(q) == {w \in Workers : Living(w) /\ QueueOf(w[1]) = q}

Listening == bound # 0

\* How many processes are forked, and as what. A child whose execlp() fails
\* returns from fork_and_exec() and goes on in main(), as its parent does. One
\* program is executed by all: they can or they cannot.
Crews == CASE kind = "msgq" -> {<<Senders, "read">>, <<Children, "recv">>}
           [] Piped -> {<<1, "read">>}
           [] OTHER -> {<<0, "none">>}

\* The server is started, its bind() and its forks. The pipe's and the FIFO's
\* server do not look at the result of bind(); the others end if it fails.
Start(r) ==
  /\ ppc[r] = "none" /\ (r > 1 => ppc[r - 1] = "dead")
  /\ IF bound # 0 /\ ~ Piped
     THEN ppc' = [ppc EXCEPT ![r] = "dead"] /\ UNCHANGED <<bound, wpc>>
     ELSE /\ ppc' = [ppc EXCEPT ![r] = "recv"]
          /\ bound' = IF bound = 0 THEN r ELSE bound
          /\ \E crew \in Crews :
               wpc' = [w \in Workers |-> IF w[1] = r /\ w[2] <= crew[1] THEN crew[2] ELSE wpc[w]]
  /\ UNCHANGED <<kind, hold, queue, pmsg, toServer, toClient>>

\* The kernel frees what no process holds any more: the socket with what it
\* received, the pipe and the FIFO, but not the message queue.
Release ==
  /\ UNCHANGED <<kind, toClient>>
  /\ bound' = IF \E r \in Runs : r = bound /\ (\/ Receiving(r)'
                                              \/ \E s \in 1 .. Children : Living(<<r, s>>)')
              THEN bound ELSE 0
  /\ toServer' = IF bound' = 0 THEN <<>> ELSE toServer
  /\ queue' = [q \in Runs |-> IF kind = "msgq" \/ Writers(q)' # {} \/ Readers(q)' # {}
                              THEN queue[q] ELSE <<>>]

ParentEnds(r) ==
  /\ Receiving(r)
  /\ ppc' = [ppc EXCEPT ![r] = "dead"] /\ hold' = [hold EXCEPT ![r] = <<>>]
  /\ UNCHANGED <<wpc, pmsg>> /\ Release

WorkerEnds(w) ==
  /\ Living(w)
  /\ wpc' = [wpc EXCEPT ![w] = "dead"] /\ pmsg' = [pmsg EXCEPT ![w] = <<>>]
  /\ UNCHANGED <<ppc, hold>> /\ Release

-----------------------------------------------------------------------------
\* The one server that never answers receives all the same.
Recv(r) ==
  /\ ppc[r] = "recv" /\ bound = r /\ toServer # <<>>
  /\ toServer' = Tail(toServer)
  /\ IF kind = "silent" THEN UNCHANGED <<ppc, hold>>
     ELSE /\ hold' = [hold EXCEPT ![r] = <<Head(toServer)>>]
          /\ ppc' = [ppc EXCEPT ![r] = "pass"]
  /\ UNCHANGED <<kind, bound, queue, wpc, pmsg, toClient>>

AnswerSelf(r) ==
  /\ ppc[r] = "pass" /\ kind = "echo"
  /\ Deliver(hold[r][1], TRUE)
  /\ ppc' = [ppc EXCEPT ![r] = "recv"] /\ hold' = [hold EXCEPT ![r] = <<>>]
  /\ UNCHANGED <<kind, bound, queue, wpc, pmsg, toServer>>

\* Mutant of Pass: a full queue drops the message (IPC_NOWAIT, O_NONBLOCK).
PassOrDrop(r) ==
  /\ ppc[r] = "pass" /\ kind # "echo" /\ (Piped => Readers(QueueOf(r)) # {})
  /\ queue' = [queue EXCEPT ![QueueOf(r)] =
                 IF Len(@) < QueueCap THEN Append(@, hold[r][1]) ELSE @]
  /\ ppc' = [ppc EXCEPT ![r] = "recv"] /\ hold' = [hold EXCEPT ![r] = <<>>]
  /\ UNCHANGED <<kind, bound, wpc, pmsg, toServer, toClient>>

\* write() or msgsnd(); it waits while there is no room.
Pass(r) ==
  /\ ppc[r] = "pass" /\ kind # "echo" /\ (Piped => Readers(QueueOf(r)) # {})
  /\ Len(queue[QueueOf(r)]) < QueueCap
  /\ queue' = [queue EXCEPT ![QueueOf(r)] = Append(@, hold[r][1])]
  /\ ppc' = [ppc EXCEPT ![r] = "recv"] /\ hold' = [hold EXCEPT ![r] = <<>>]
  /\ UNCHANGED <<kind, bound, wpc, pmsg, toServer, toClient>>

\* Nobody will read: SIGPIPE ends the parent in write().
PassKills(r) ==
  /\ ppc[r] = "pass" /\ Piped /\ Readers(QueueOf(r)) = {}
  /\ ParentEnds(r)

\* A child that is left a receiver waits at the same socket as its parent ...
ChildRecv(w) ==
  /\ wpc[w] = "recv" /\ bound = w[1] /\ toServer # <<>>
  /\ toServer' = Tail(toServer)
  /\ pmsg' = [pmsg EXCEPT ![w] = <<Head(toServer)>>]
  /\ wpc' = [wpc EXCEPT ![w] = "pass"]
  /\ UNCHANGED <<kind, bound, ppc, hold, queue, toClient>>

\* ... and puts what it has received into the same queue.
ChildPass(w) ==
  /\ wpc[w] = "pass" /\ Len(queue[QueueOf(w[1])]) < QueueCap
  /\ queue' = [queue EXCEPT ![QueueOf(w[1])] = Append(@, pmsg[w][1])]
  /\ pmsg' = [pmsg EXCEPT ![w] = <<>>] /\ wpc' = [wpc EXCEPT ![w] = "recv"]
  /\ UNCHANGED <<kind, bound, ppc, hold, toServer, toClient>>

\* read() or msgrcv() of one message.
Take(w) ==
  /\ wpc[w] = "read" /\ queue[QueueOf(w[1])] # <<>>
  /\ pmsg' = [pmsg EXCEPT ![w] = <<Head(queue[QueueOf(w[1])])>>]
  /\ queue' = [queue EXCEPT ![QueueOf(w[1])] = Tail(@)]
  /\ wpc' = [wpc EXCEPT ![w] = "send"]
  /\ UNCHANGED <<kind, bound, ppc, hold, toServer, toClient>>

\* Mutant of TakeEnd: an empty pipe, were it not to block, passes for its end.
TakeEmpty(w) ==
  /\ wpc[w] = "read" /\ Piped /\ queue[QueueOf(w[1])] = <<>>
  /\ wpc' = [wpc EXCEPT ![w] = "send"]
  /\ UNCHANGED <<kind, bound, ppc, hold, queue, pmsg, toServer, toClient>>

\* There is no writer left: read() returns 0, which is not < 0, and the
\* message read last is answered again.
TakeEnd(w) ==
  /\ wpc[w] = "read" /\ Piped /\ queue[QueueOf(w[1])] = <<>>
  /\ Writers(QueueOf(w[1])) = {}
  /\ wpc' = [wpc EXCEPT ![w] = "send"]
  /\ UNCHANGED <<kind, bound, ppc, hold, queue, pmsg, toServer, toClient>>

\* Mutant of Answer: the address the answer goes to is not the message's.
AnswerAstray(w) ==
  /\ wpc[w] = "send"
  /\ IF pmsg[w] = <<>> THEN UNCHANGED toClient
     ELSE \E c \in Clients :
            toClient' = [toClient EXCEPT ![c] = Offer(@, pmsg[w][1])]
  /\ wpc' = [wpc EXCEPT ![w] = "read"]
  /\ pmsg' = [pmsg EXCEPT ![w] = IF Piped THEN @ ELSE <<>>]
  /\ UNCHANGED <<kind, bound, ppc, hold, queue, toServer>>

\* If no message was ever read, address and text are what the stack holds, and
\* no client receives it. A run that did not get the port sends from another.
Answer(w) ==
  /\ wpc[w] = "send"
  /\ IF pmsg[w] = <<>> THEN UNCHANGED toClient ELSE Deliver(pmsg[w][1], bound = w[1])
  /\ wpc' = [wpc EXCEPT ![w] = "read"]
  /\ pmsg' = [pmsg EXCEPT ![w] = IF Piped THEN @ ELSE <<>>]
  /\ UNCHANGED <<kind, bound, ppc, hold, queue, toServer>>

-----------------------------------------------------------------------------
ParentStep(r) == Recv(r) \/ AnswerSelf(r) \/ Pass(r) \/ PassKills(r)
WorkerStep(w) == ChildRecv(w) \/ ChildPass(w) \/ Take(w) \/ TakeEnd(w) \/ Answer(w)

ServerStep ==
  \/ \E r \in Runs : Start(r) \/ ParentEnds(r) \/ ParentStep(r)
  \/ \E w \in Workers : WorkerEnds(w) \/ WorkerStep(w)

Next ==
  \/ ServerStep /\ UNCHANGED clientVars
  \/ \E c \in Clients : ClientStep(c, Listening) /\ UNCHANGED serverVars

Spec == Init /\ [][Next]_vars

\* Processes that can go on do, and the alarm goes off. Nobody has to type, to
\* start or to kill anything.
FairSpec ==
  /\ Spec
  /\ \A r \in Runs : WF_vars(ParentStep(r) /\ UNCHANGED clientVars)
  /\ \A w \in Workers : WF_vars(WorkerStep(w) /\ UNCHANGED clientVars)
  /\ \A c \in Clients :
       WF_vars((Enter(c) \/ Timeout(c) \/ Receive(c)) /\ UNCHANGED serverVars)

-----------------------------------------------------------------------------
TypeOK ==
  /\ TypeClients
  /\ kind \in Kinds /\ bound \in Runs \union {0}
  /\ ppc \in [Runs -> {"none", "recv", "pass", "dead"}]
  /\ hold \in [Runs -> Seq(Datagrams)] /\ queue \in [Runs -> Seq(Datagrams)]
  /\ wpc \in [Workers -> {"none", "read", "send", "recv", "pass", "dead"}]
  /\ pmsg \in [Workers -> Seq(Datagrams)]

AllGenuine(s) == \A k \in 1 .. Len(s) : Genuine(s[k])

\* An echo printed late is off by no more lines than there were timeouts.
LateAtMost(c) == \A k \in 1 .. Len(got[c]) : got[c][k][2] <= k + timeouts[c]

\* Who runs: a run is started when those before it have ended, and a forked
\* process belongs to a run that was, and is left a receiver by one server only.
Staff ==
  /\ \A r, s \in Runs : ppc[r] # "none" /\ s < r => ppc[s] = "dead"
  /\ \A w \in Workers : Living(w) => /\ ppc[w[1]] # "none"
                                     /\ Piped \/ kind = "msgq"
                                     /\ Piped => w[2] = 1
  /\ \A w \in Workers : ReceivesToo(w) => kind = "msgq"
  /\ bound # 0 => Receiving(bound) \/ \E s \in 1 .. Children : Living(<<bound, s>>)
  /\ bound = 0 => toServer = <<>>

\* Some parent of a relay has ended: its child may answer again and again.
Orphaned == Piped /\ \E r \in Runs : ppc[r] = "dead"

\* What is in which place on the way of the datagrams, the last place first. A
\* forked process carries what it read, or what it received and has to pass on.
Answers(c) == got[c] \o toClient[c]
Carried(w) == IF wpc[w] \in {"send", "pass"} THEN ToSet(pmsg[w]) ELSE {}
Places ==
  << UNION {ToSet(Answers(c)) : c \in Clients}, UNION {Carried(w) : w \in Workers},
     UNION {ToSet(queue[q]) : q \in Runs}, UNION {ToSet(hold[r]) : r \in Runs},
     ToSet(toServer) >>

\* Datagram a may be answered before b. Behind the message queue several
\* processes work, and only differ in what they have.
Precedes(a, b) == IF kind = "msgq" THEN a # b ELSE a[1] = b[1] => a[2] < b[2]

Ahead(S, T) == \A a \in S, b \in T : Precedes(a, b)
InTurn(s) == \A j, k \in 1 .. Len(s) : j < k => Precedes(s[j], s[k])

\* Nothing is in two places, and what was sent earlier is further on its way.
OneWay ==
  /\ \A m, n \in 1 .. 5 : m < n => Ahead(Places[m], Places[n])
  /\ \A v, w \in Workers : v # w => Ahead(Carried(v), Carried(w))
  /\ \A c \in Clients : InTurn(Answers(c))
  /\ \A q \in Runs : InTurn(queue[q]) /\ (queue[q] # <<>> => q = 1 /\ kind # "echo")
  /\ InTurn(toServer)

\* Whichever processes are killed, restarted or left over, and whatever a
\* worker sends again, each client is answered with lines of its own only; no
\* wait of a client is counted twice; the port is held by a run some process
\* of which lives; and datagrams pass each other nowhere.
IInv ==
  /\ TypeOK
  /\ \A c \in Clients : ClientSound(c) /\ LateAtMost(c)
  /\ AllGenuine(toServer)
  /\ \A r \in Runs :
       /\ AllGenuine(hold[r]) /\ AllGenuine(queue[r])
       /\ Len(hold[r]) = IF ppc[r] = "pass" THEN 1 ELSE 0
  /\ \A w \in Workers : /\ AllGenuine(pmsg[w]) /\ Len(pmsg[w]) <= 1
                        /\ wpc[w] = "pass" => pmsg[w] # <<>>
  /\ Staff
  /\ ~ Orphaned => OneWay

\* Late echoes are as late as the timeouts explain; and no answer comes twice,
\* unless a relay has lost its parent. One process behind a queue keeps the
\* order, so that a client without a timeout prints each line's own echo.
AnswersInTurn ==
  \A c \in Clients :
    /\ LateAtMost(c)
    /\ ~ Orphaned =>
         \A j, k \in 1 .. Len(Answers(c)) :
           j < k => /\ Answers(c)[j] # Answers(c)[k]
                    /\ kind # "msgq" => Answers(c)[j][2] < Answers(c)[k][2]

\* An alarm that was not too early ends the wait, whatever the server does.
AlarmEndsWait ==
  \A c \in Clients : cpc[c] = "recv" /\ armed[c] ~> cpc[c] # "recv"

Disturbed ==
  \/ \E r \in Runs : ppc[r] = "dead"
  \/ \E w \in Workers : wpc[w] = "dead"

\* While nobody is killed a datagram the server has received is answered, also
\* when the queue was full, unless the client's own buffer was full or the
\* client left, or nobody is there to answer.
EventuallyAnswered ==
  \A c \in Clients : \A n \in 1 .. MaxSent[c] :
    (\E k \in 1 .. Len(toServer) : toServer[k] = <<c, n>>)
      ~> \/ \E k \in 1 .. Len(Answers(c)) : Answers(c)[k] = <<c, n>>
         \/ Len(toClient[c]) = RcvBuf \/ cpc[c] = "gone"
         \/ Disturbed \/ kind = "silent"
         \/ kind = "msgq" /\ \A w \in Workers : wpc[w] \notin {"read", "send"}
=============================================================================
