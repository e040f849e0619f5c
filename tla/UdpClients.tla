----------------------------- MODULE UdpClients -----------------------------
(***************************************************************************)
(* The clients of the datagram echo servers and the network between them:  *)
(* wen/udp/echo_client_UDP.c ("plain"), wen/udp_alarm/                     *)
(* echo_client_UDPalarm.c ("alarm") and wen/udp_connect/                   *)
(* echo_client_UDPconnect.c ("connected").  All of them speak to 127.0.0.1 *)
(* so a datagram is never duplicated or overtaken on its way; it is lost   *)
(* where nobody listens and where a socket's buffer is full.               *)
(***************************************************************************)
EXTENDS Integers, Sequences

CONSTANTS
  Clients,    \* runs of a client
  Style,      \* which of the three programs each one is
  MaxSent,    \* bound on the lines each client sends
  RcvBuf      \* how many datagrams a socket's receive buffer holds

ASSUME UdpClientsAssumption ==
  /\ Style \in [Clients -> {"plain", "alarm", "connected"}]
  /\ MaxSent \in [Clients -> Nat] /\ RcvBuf \in Nat \ {0}

VARIABLES
  toServer,   \* the receive buffer of the socket that has the server's port
  toClient,   \* the receive buffer of each client's socket
  cpc,        \* a client: "typing", "entering" (recvfrom() is not called yet),
              \* "recv", "refused", "gone"
  armed,      \* its alarm(2) runs
  sent,       \* the lines it has sent
  got,        \* the datagrams it has printed as echoes
  timeouts    \* how often it printed "socket timeout"

clientVars == <<cpc, armed, sent, got, timeouts>>

InitClients ==
  /\ toServer = <<>> /\ toClient = [c \in Clients |-> <<>>]
  /\ cpc = [c \in Clients |-> "typing"] /\ armed = [c \in Clients |-> FALSE]
  /\ sent = [c \in Clients |-> 0] /\ got = [c \in Clients |-> <<>>]
  /\ timeouts = [c \in Clients |-> 0]

-----------------------------------------------------------------------------
\* A datagram arrives at a socket.
Offer(buffer, m) == IF Len(buffer) < RcvBuf THEN Append(buffer, m) ELSE buffer

\* A line is sent, and what follows is the wait for its echo. A connected
\* socket is told if nobody listens: write() succeeds, read() fails.
SendLine(c, listening) ==
  /\ cpc[c] = "typing" /\ sent[c] < MaxSent[c]
  /\ sent' = [sent EXCEPT ![c] = @ + 1]
  /\ toServer' = IF listening THEN Offer(toServer, <<c, sent[c] + 1>>) ELSE toServer
  /\ armed' = [armed EXCEPT ![c] = Style[c] = "alarm"]
  /\ cpc' = [cpc EXCEPT ![c] = CASE Style[c] = "alarm" -> "entering"
                                 [] Style[c] = "connected" /\ ~ listening -> "refused"
                                 [] OTHER -> "recv"]
  /\ UNCHANGED <<toClient, got, timeouts>>

\* The two seconds pass before recvfrom() is called: the handler returns, and
\* nothing will end the wait that follows.
AlarmEarly(c) ==
  /\ cpc[c] = "entering" /\ armed[c]
  /\ armed' = [armed EXCEPT ![c] = FALSE]
  /\ UNCHANGED <<toServer, toClient, cpc, sent, got, timeouts>>

Enter(c) ==
  /\ cpc[c] = "entering"
  /\ cpc' = [cpc EXCEPT ![c] = "recv"]
  /\ UNCHANGED <<toServer, toClient, armed, sent, got, timeouts>>

\* Mutant of Timeout: with SA_RESTART the wait goes on after the handler.
TimeoutRestarts(c) ==
  /\ cpc[c] = "recv" /\ armed[c] /\ toClient[c] = <<>>
  /\ armed' = [armed EXCEPT ![c] = FALSE]
  /\ UNCHANGED <<toServer, toClient, cpc, sent, got, timeouts>>

\* SIGALRM ends the wait: recvfrom() fails with EINTR, the line is given up.
Timeout(c) ==
  /\ cpc[c] = "recv" /\ armed[c] /\ toClient[c] = <<>>
  /\ armed' = [armed EXCEPT ![c] = FALSE]
  /\ cpc' = [cpc EXCEPT ![c] = "typing"]
  /\ timeouts' = [timeouts EXCEPT ![c] = @ + 1]
  /\ UNCHANGED <<toServer, toClient, sent, got>>

\* Whatever datagram comes first is taken for the echo.
Receive(c) ==
  /\ cpc[c] = "recv" /\ toClient[c] # <<>>
  /\ got' = [got EXCEPT ![c] = Append(@, Head(toClient[c]))]
  /\ toClient' = [toClient EXCEPT ![c] = Tail(@)]
  /\ armed' = [armed EXCEPT ![c] = FALSE]
  /\ cpc' = [cpc EXCEPT ![c] = "typing"]
  /\ UNCHANGED <<toServer, sent, timeouts>>

\* "quit", a failed read(), or the user ends the client at any time.
Leave(c) ==
  /\ cpc[c] # "gone"
  /\ cpc' = [cpc EXCEPT ![c] = "gone"]
  /\ armed' = [armed EXCEPT ![c] = FALSE]
  /\ toClient' = [toClient EXCEPT ![c] = <<>>]
  /\ UNCHANGED <<toServer, sent, got, timeouts>>

ClientStep(c, listening) ==
  \/ SendLine(c, listening) \/ AlarmEarly(c) \/ Enter(c) \/ Timeout(c)
  \/ Receive(c) \/ Leave(c)

\* sendto() of the answer m. A connected socket takes datagrams of the
\* server's port only.
Deliver(m, fromPort) ==
  LET c == m[1] IN
  toClient' = [toClient EXCEPT ![c] =
    IF cpc[c] = "gone" \/ (Style[c] = "connected" /\ ~ fromPort) THEN @ ELSE Offer(@, m)]

-----------------------------------------------------------------------------
Datagrams == Clients \X (Nat \ {0})

TypeClients ==
  /\ toServer \in Seq(Datagrams) /\ toClient \in [Clients -> Seq(Datagrams)]
  /\ cpc \in [Clients -> {"typing", "entering", "recv", "refused", "gone"}]
  /\ armed \in [Clients -> BOOLEAN]
  /\ sent \in [Clients -> Nat] /\ got \in [Clients -> Seq(Datagrams)]
  /\ timeouts \in [Clients -> Nat]

\* A line some client has sent.
Genuine(m) == m \in Datagrams /\ m[2] <= sent[m[1]]

\* A line client c itself has sent.
OwnLine(c, m) == Genuine(m) /\ m[1] = c

\* Each line ended with an echo or a timeout, but for the one c waits for.
Finished(c) == Len(got[c]) + timeouts[c]

ClientSound(c) ==
  /\ \A k \in 1 .. Len(toClient[c]) : OwnLine(c, toClient[c][k])
  /\ \A k \in 1 .. Len(got[c]) : OwnLine(c, got[c][k])
  /\ cpc[c] = "typing" => sent[c] = Finished(c)
  /\ cpc[c] \in {"entering", "recv", "refused"} => sent[c] = Finished(c) + 1
  /\ armed[c] => cpc[c] \in {"entering", "recv"} /\ Style[c] = "alarm"
  /\ Style[c] # "alarm" => timeouts[c] = 0
=============================================================================
