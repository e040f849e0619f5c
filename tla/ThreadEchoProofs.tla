--------------------------- MODULE ThreadEchoProofs ---------------------------
(***************************************************************************)
(* Proofs about ThreadEcho, for any number of clients, pieces,             *)
(* descriptors, spinning threads and restarts.                             *)
(***************************************************************************)
EXTENDS ThreadEcho, EchoClientsProofs

-----------------------------------------------------------------------------
(* Types.                                                                  *)

\* The end of the process keeps every type.
LEMMA TypeDie ==
  ASSUME TypeOK, Die
  PROVE  TypeOK'
<1>1. lingering' \subseteq Clients
  BY DEF Die, TypeOK
<1>2. backlog' \in Seq(Clients)
  BY EmptySeq DEF Die
<1>3. /\ thread' \in [Clients -> {"none", "run", "ended"}] /\ arg' \in [Clients -> Fds \union {-1}]
      /\ owner' \in [Fds -> Clients \union {NoClient}]
  BY DEF Die, TypeOK
<1>4. link' \in [Clients -> {"none", "open", "fin", "err", "rst", "closed"}]
  BY DEF Die, Closed, TypeOK, TypeClients
<1>. QED  BY <1>1, <1>2, <1>3, <1>4 DEF Die, TypeOK, TypeClients, streamVars, clientVars

\* Every step keeps every type.
LEMMA TypeStep ==
  ASSUME TypeOK, [Next]_vars
  PROVE  TypeOK'
<1>. USE DEF mainVars, serverVars, clientVars, streamVars
<1>1. CASE UNCHANGED vars
  BY <1>1 DEF vars, TypeOK, TypeClients
<1>2. CASE Accept
  <2>1. Head(backlog) \in Clients /\ Tail(backlog) \in Seq(Clients)
    BY <1>2, HeadTailProperties DEF Accept, TypeOK, TypeClients
  <2>. QED  BY <1>2, <2>1 DEF Accept, FreeFds, TypeOK, TypeClients
<1>3. CASE AcceptFails
  BY <1>3 DEF AcceptFails, TypeOK, TypeClients
<1>4. CASE Create
  <2>1. thread' \in [Clients -> {"none", "run", "ended"}]
    BY <1>4 DEF Create, TypeOK
  <2>2. arg' \in [Clients -> Fds \union {-1}]
    BY <1>4 DEF Create, TypeOK
  <2>3. runaways' \in Nat
    BY <1>4 DEF Create, TypeOK
  <2>4. TypeClients'
    BY <1>4 DEF Create, TypeOK, TypeClients
  <2>. QED  BY <1>4, <2>1, <2>2, <2>3, <2>4 DEF Create, TypeOK
<1>5. CASE CreateFails \/ \E t \in Clients : ReadDataKills(t)
  BY <1>5, TypeDie DEF CreateFails, ReadDataKills
<1>6. CASE LingerEnds
  BY <1>6 DEF LingerEnds, TypeOK, TypeClients
<1>7. CASE Restart
  BY <1>7 DEF Restart, TypeOK, TypeClients
<1>8. ASSUME NEW t \in Clients, ReadData(t)  PROVE TypeOK'
  <2>1. TypeClients'
    BY <1>8, TypeEchoes DEF ReadData, TypeOK
  <2>. QED  BY <1>8, <2>1 DEF ReadData, TypeOK
<1>9. ASSUME NEW t \in Clients, ReadFails(t)  PROVE TypeOK'
  BY <1>9 DEF ReadFails, TypeOK, TypeClients
<1>10. ASSUME NEW t \in Clients, ReadEnd(t)  PROVE TypeOK'
  BY <1>10 DEF ReadEnd, Closed, TypeOK, TypeClients
<1>11. ASSUME NEW c \in Clients, ClientStep(c), UNCHANGED serverVars  PROVE TypeOK'
  <2>1. TypeClients'
    BY <1>11, TypeClientStep DEF ClientStep, TypeOK
  <2>. QED  BY <1>11, <2>1 DEF TypeOK
<1>. QED
  BY <1>1, <1>2, <1>3, <1>4, <1>5, <1>6, <1>7, <1>8, <1>9, <1>10, <1>11
  DEF Next, MainStep, ThreadStep

-----------------------------------------------------------------------------
(* The order of the pieces.                                                *)

\* Every step keeps it.
LEMMA InOrderStep ==
  ASSUME TypeOK, InOrder, [Next]_vars
  PROVE  InOrder'
<1>. USE DEF mainVars, serverVars
<1>1. CASE UNCHANGED vars
  BY <1>1, InOrderLinks DEF vars
<1>2. CASE Accept \/ AcceptFails \/ Create \/ LingerEnds \/ Restart
  BY <1>2, InOrderLinks DEF Accept, AcceptFails, Create, LingerEnds, Restart
<1>3. ASSUME Die  PROVE InOrder'
  <2>1. \A c \in Clients : /\ link'[c] = "open" => link[c] = "open"
                           /\ link'[c] = "none" <=> link[c] = "none"
    BY <1>3 DEF Die, Closed
  <2>. QED  BY <1>3, <2>1, InOrderLinks DEF Die
<1>4. CASE CreateFails \/ \E t \in Clients : ReadDataKills(t)
  BY <1>3, <1>4 DEF CreateFails, ReadDataKills
<1>5. ASSUME NEW t \in Clients, ReadData(t)  PROVE InOrder'
  BY <1>5, InOrderEchoes DEF ReadData, TypeOK
<1>6. ASSUME NEW t \in Clients, ReadFails(t)  PROVE InOrder'
  BY <1>6, InOrderLinks DEF ReadFails, ReadsError, TypeOK, TypeClients
<1>7. ASSUME NEW t \in Clients, ReadEnd(t)  PROVE InOrder'
  <2>1. PICK c \in Clients : ReadsEnd(c) /\ link' = Closed({c})
    BY <1>7 DEF ReadEnd
  <2>2. \A d \in Clients : /\ link'[d] = "open" => link[d] = "open"
                           /\ link'[d] = "none" <=> link[d] = "none"
    BY <2>1 DEF ReadsEnd, Closed
  <2>. QED  BY <1>7, <2>2, InOrderLinks DEF ReadEnd
<1>8. ASSUME NEW c \in Clients, ClientStep(c)  PROVE InOrder'
  BY <1>8, InOrderClientStep DEF ClientStep, TypeOK
<1>. QED
  BY <1>1, <1>2, <1>4, <1>5, <1>6, <1>7, <1>8 DEF Next, MainStep, ThreadStep

-----------------------------------------------------------------------------
(* Descriptors and the backlog.                                            *)

\* The two together, which each step keeps or breaks together.
Held == OwnDescriptor /\ WaitsOnce

\* A step that leaves descriptors, threads and the backlog alone keeps both.
LEMMA HeldSame ==
  ASSUME TypeOK, Held, UNCHANGED <<backlog, pc, c_socket, owner, thread, arg>>,
         \A c \in Clients : /\ link'[c] = "none" <=> link[c] = "none"
                            /\ link'[c] = "closed" <=> link[c] = "closed"
  PROVE  Held'
<1>1. \A c \in Clients : Creating(c)' <=> Creating(c)
  BY DEF Creating
<1>2. Waiting' = Waiting
  BY DEF Waiting
<1>3. \A k \in 1 .. Len(backlog) : backlog[k] \in Clients
  BY ElementOfSeq DEF TypeOK, TypeClients
<1>4. OwnDescriptor'
  BY <1>1, <1>2 DEF Held, OwnDescriptor
<1>5. WaitsOnce'
  BY <1>1, <1>3 DEF Held, WaitsOnce
<1>. QED  BY <1>4, <1>5 DEF Held

\* The process ends: nobody has a descriptor, and nobody waits.
LEMMA HeldDie ==
  ASSUME TypeOK, Held, Die
  PROVE  Held'
<1>1. /\ Len(backlog') = 0 /\ pc' = "accept"
      /\ \A f \in Fds : owner'[f] = NoClient
      /\ \A c \in Clients : thread'[c] = IF thread[c] = "run" THEN "ended" ELSE thread[c]
      /\ \A c \in Clients : link'[c] \in {"none", "closed"} /\ (link'[c] = "none" <=> link[c] = "none")
  BY EmptySeq DEF Die, Closed
<1>2. \A c \in Clients : ~ Creating(c)' /\ thread'[c] # "run"
  BY <1>1 DEF Creating
<1>3. OwnDescriptor'
  BY <1>1, <1>2 DEF OwnDescriptor
<1>4. WaitsOnce'
  BY <1>1, <1>2 DEF Held, WaitsOnce
<1>. QED  BY <1>3, <1>4 DEF Held

\* The first of those that wait gets a free descriptor.
LEMMA HeldAccept ==
  ASSUME TypeOK, Held, Accept
  PROVE  Held'
<1>. DEFINE h == Head(backlog)
<1>1. PICK f \in FreeFds : c_socket' = f /\ owner' = [owner EXCEPT ![f] = h]
  BY DEF Accept
<1>2. /\ f \in Fds /\ f # -1 /\ owner[f] = NoClient
      /\ owner'[f] = h /\ \A g \in Fds : g # f => owner'[g] = owner[g]
  BY <1>1 DEF FreeFds, Fds, s_socket, TypeOK
<1>3. /\ pc = "accept" /\ pc' = "create" /\ backlog \in Seq(Clients) /\ backlog # <<>>
      /\ backlog' = Tail(backlog) /\ thread' = thread /\ arg' = arg /\ link' = link
  BY DEF Accept, TypeOK, TypeClients
<1>4. /\ h = backlog[1] /\ h \in Clients /\ Len(backlog) \in Nat \ {0}
      /\ Len(backlog') = Len(backlog) - 1
      /\ \A k \in 1 .. Len(backlog') : backlog'[k] = backlog[k + 1]
  BY <1>3, HeadTailProperties, EmptySeq, LenProperties
<1>5. /\ \A k \in 1 .. Len(backlog') : k + 1 \in 1 .. Len(backlog) /\ k + 1 # 1
      /\ 1 \in 1 .. Len(backlog)
      /\ \A k \in 1 .. Len(backlog) : k # 1 => k - 1 \in 1 .. Len(backlog') /\ (k - 1) + 1 = k
      /\ \A j, k \in 1 .. Len(backlog') : j + 1 = k + 1 => j = k
  BY <1>4
<1>6. /\ thread[h] = "none" /\ link[h] \notin {"none", "closed"}
  BY <1>4, <1>5 DEF Held, WaitsOnce
<1>7. \A c \in Clients : Creating(c)' <=> c = h
  BY <1>1, <1>2, <1>3 DEF Creating
<1>8. \A k \in 1 .. Len(backlog') : backlog'[k] # h /\ backlog'[k] \in Clients
  BY <1>3, <1>4, <1>5, ElementOfSeq DEF Held, WaitsOnce
<1>9. \A c \in Waiting : c = h \/ c \in Waiting'
  <2>1. SUFFICES ASSUME NEW k \in 1 .. Len(backlog), k # 1  PROVE backlog[k] \in Waiting'
    BY <1>4 DEF Waiting
  <2>2. backlog'[k - 1] = backlog[k] /\ k - 1 \in 1 .. Len(backlog')
    BY <1>4, <1>5, <2>1
  <2>. QED  BY <2>2 DEF Waiting
<1>10. \A c \in Clients : ~ Creating(c)
  BY <1>3 DEF Creating
<1>11. NoClient # h
  BY <1>4, ThreadEchoAssumption
<1>12. OwnDescriptor'
  <2>1. ASSUME NEW c \in Clients, thread'[c] = "run"  PROVE arg'[c] \in Fds /\ owner'[arg'[c]] = c
    <3>1. arg[c] \in Fds /\ owner[arg[c]] = c
      BY <1>3, <2>1 DEF Held, OwnDescriptor
    <3>2. arg[c] # f
      BY <1>2, <3>1, ThreadEchoAssumption
    <3>. QED  BY <1>2, <1>3, <3>1, <3>2
  <2>2. ASSUME NEW g \in Fds, owner'[g] # NoClient
        PROVE  \/ pc' = "create" /\ c_socket' = g /\ thread'[owner'[g]] = "none"
               \/ thread'[owner'[g]] = "run" /\ arg'[owner'[g]] = g
    <3>1. CASE g = f
      BY <1>1, <1>2, <1>3, <1>6, <3>1
    <3>2. CASE g # f
      BY <1>2, <1>3, <2>2, <3>2 DEF Held, OwnDescriptor
    <3>. QED  BY <3>1, <3>2
  <2>3. owner'[c_socket'] # NoClient /\ thread'[owner'[c_socket']] = "none"
    BY <1>1, <1>2, <1>3, <1>6, <1>11
  <2>4. ASSUME NEW c \in Clients, link'[c] \notin {"none", "closed"}
        PROVE  thread'[c] = "run" \/ Creating(c)' \/ (c \in Waiting' /\ thread'[c] = "none")
    BY <1>3, <1>7, <1>9, <1>10, <2>4 DEF Held, OwnDescriptor
  <2>. QED  BY <2>1, <2>2, <2>3, <2>4 DEF OwnDescriptor
<1>13. WaitsOnce'
  <2>1. \A k \in 1 .. Len(backlog') :
          link'[backlog'[k]] \notin {"none", "closed"} /\ thread'[backlog'[k]] = "none"
    BY <1>3, <1>4, <1>5 DEF Held, WaitsOnce
  <2>2. \A k \in 1 .. Len(backlog') : ~ Creating(backlog[k])'
    BY <1>7, <1>8
  <2>3. \A j, k \in 1 .. Len(backlog') : backlog'[j] = backlog'[k] => j = k
    BY <1>4, <1>5 DEF Held, WaitsOnce
  <2>4. \A c \in Clients : link'[c] = "none" => thread'[c] = "none" /\ ~ Creating(c)'
    BY <1>3, <1>6, <1>7 DEF Held, WaitsOnce
  <2>. QED  BY <2>1, <2>2, <2>3, <2>4 DEF WaitsOnce
<1>. QED  BY <1>12, <1>13 DEF Held

\* Without a descriptor no connection is touched.
LEMMA HeldAcceptFails ==
  ASSUME TypeOK, Held, AcceptFails
  PROVE  Held'
<1>1. /\ pc = "accept" /\ c_socket' = -1
      /\ UNCHANGED <<backlog, owner, thread, arg, link>>
  BY DEF AcceptFails
<1>2. \A c \in Clients : ~ Creating(c) /\ ~ Creating(c)'
  BY <1>1 DEF Creating
<1>3. Waiting' = Waiting /\ \A k \in 1 .. Len(backlog) : backlog[k] \in Clients
  BY <1>1, ElementOfSeq DEF Waiting, TypeOK, TypeClients
<1>4. OwnDescriptor'
  BY <1>1, <1>2, <1>3 DEF Held, OwnDescriptor
<1>5. WaitsOnce'
  BY <1>1, <1>2, <1>3 DEF Held, WaitsOnce
<1>. QED  BY <1>4, <1>5 DEF Held

\* The connection that was accepted gets its thread.
LEMMA HeldCreate ==
  ASSUME TypeOK, Held, Create
  PROVE  Held'
<1>1. /\ pc = "create" /\ pc' = "accept" /\ c_socket' = -1
      /\ UNCHANGED <<backlog, owner, link>>
  BY DEF Create
<1>2. Waiting' = Waiting /\ \A k \in 1 .. Len(backlog) : backlog[k] \in Clients
  BY <1>1, ElementOfSeq DEF Waiting, TypeOK, TypeClients
<1>3. \A c \in Clients : ~ Creating(c)'
  BY <1>1 DEF Creating
<1>4. CASE c_socket = -1
  <2>1. UNCHANGED <<thread, arg>> /\ \A c \in Clients : ~ Creating(c)
    BY <1>4 DEF Create, Creating
  <2>2. OwnDescriptor'
    BY <1>1, <1>2, <1>3, <1>4, <2>1 DEF Held, OwnDescriptor, Fds, s_socket
  <2>. QED  BY <1>1, <1>2, <1>3, <2>1, <2>2 DEF Held, WaitsOnce
<1>5. CASE c_socket # -1
  <2>. DEFINE d == owner[c_socket]
  <2>1. c_socket \in Fds /\ d \in Clients
    BY <1>1, <1>5 DEF TypeOK, Held, OwnDescriptor
  <2>2. thread[d] = "none"
    BY <1>1, <1>5 DEF Held, OwnDescriptor
  <2>3. /\ thread' = [thread EXCEPT ![d] = "run"] /\ arg' = [arg EXCEPT ![d] = c_socket]
    BY <1>5 DEF Create
  <2>4. /\ thread'[d] = "run" /\ arg'[d] = c_socket
        /\ \A c \in Clients : c # d => thread'[c] = thread[c] /\ arg'[c] = arg[c]
    BY <2>1, <2>3 DEF TypeOK
  <2>5. Creating(d) /\ \A c \in Clients : Creating(c) => c = d
    BY <1>1, <1>5 DEF Creating
  <2>6. \A k \in 1 .. Len(backlog) : backlog[k] # d
    BY <2>5 DEF Held, WaitsOnce
  <2>7. link[d] # "none"
    BY <2>1, <2>5 DEF Held, WaitsOnce
  <2>8. OwnDescriptor'
    <3>1. ASSUME NEW c \in Clients, thread'[c] = "run"
          PROVE  arg'[c] \in Fds /\ owner'[arg'[c]] = c
      BY <1>1, <2>1, <2>4, <3>1 DEF Held, OwnDescriptor
    <3>2. ASSUME NEW f \in Fds, owner'[f] # NoClient
          PROVE  thread'[owner'[f]] = "run" /\ arg'[owner'[f]] = f
      <4>1. CASE f = c_socket
        BY <1>1, <2>4, <4>1
      <4>2. CASE f # c_socket
        <5>1. owner[f] \in Clients /\ thread[owner[f]] = "run" /\ arg[owner[f]] = f
          BY <1>1, <3>2, <4>2 DEF Held, OwnDescriptor, TypeOK
        <5>. QED  BY <1>1, <2>2, <2>4, <4>2, <5>1
      <4>. QED  BY <4>1, <4>2
    <3>3. ASSUME NEW c \in Clients, link'[c] \notin {"none", "closed"}
          PROVE  thread'[c] = "run" \/ (c \in Waiting' /\ thread'[c] = "none")
      BY <1>1, <1>2, <2>4, <2>5, <3>3 DEF Held, OwnDescriptor
    <3>. QED  BY <1>1, <3>1, <3>2, <3>3 DEF OwnDescriptor
  <2>9. WaitsOnce'
    BY <1>1, <1>2, <1>3, <2>4, <2>6, <2>7 DEF Held, WaitsOnce
  <2>. QED  BY <2>8, <2>9 DEF Held
<1>. QED  BY <1>4, <1>5

\* A thread that reads the end of its connection gives its descriptor back.
LEMMA HeldReadEnd ==
  ASSUME TypeOK, Held, NEW t \in Clients, ReadEnd(t)
  PROVE  Held'
<1>1. PICK c \in Clients : Reads(t, c) /\ ReadsEnd(c) /\ link' = Closed({c})
  BY DEF ReadEnd
<1>. DEFINE f == arg[t]
<1>2. thread[t] = "run" /\ f \in Fds /\ owner[f] = t /\ c = t /\ link[t] # "none"
  BY <1>1 DEF Reads, ReadsEnd, Held, OwnDescriptor
<1>3. /\ owner' = [owner EXCEPT ![f] = NoClient] /\ thread' = [thread EXCEPT ![t] = "ended"]
      /\ arg' = [arg EXCEPT ![t] = -1]
      /\ UNCHANGED <<pc, c_socket, backlog>>
  BY DEF ReadEnd, mainVars
<1>4. /\ owner'[f] = NoClient /\ \A g \in Fds : g # f => owner'[g] = owner[g]
      /\ thread'[t] = "ended" /\ \A d \in Clients : d # t => thread'[d] = thread[d] /\ arg'[d] = arg[d]
      /\ link'[t] = "closed" /\ \A d \in Clients : d # t => link'[d] = link[d]
  BY <1>1, <1>2, <1>3 DEF TypeOK, Closed
<1>5. t # NoClient
  BY ThreadEchoAssumption
<1>6. pc = "create" /\ c_socket # -1 =>
        c_socket \in Fds /\ owner[c_socket] \in Clients /\ owner[c_socket] # t /\ c_socket # f
  BY <1>2 DEF Held, OwnDescriptor, TypeOK
<1>7. \A d \in Clients : Creating(d)' <=> Creating(d)
  <2>1. SUFFICES ASSUME pc = "create", c_socket # -1
                 PROVE  owner'[c_socket] = owner[c_socket]
    BY <1>3 DEF Creating
  <2>. QED  BY <1>4, <1>6, <2>1
<1>8. ~ Creating(t)
  BY <1>6 DEF Creating
<1>9. /\ Waiting' = Waiting
      /\ \A k \in 1 .. Len(backlog) : backlog[k] \in Clients /\ backlog[k] # t
  <2>1. \A k \in 1 .. Len(backlog) : thread[backlog[k]] = "none"
    BY DEF Held, WaitsOnce
  <2>2. \A k \in 1 .. Len(backlog) : backlog[k] \in Clients
    BY ElementOfSeq DEF TypeOK, TypeClients
  <2>. QED  BY <1>2, <1>3, <2>1, <2>2 DEF Waiting
<1>10. OwnDescriptor'
  <2>1. ASSUME NEW d \in Clients, thread'[d] = "run"
        PROVE  arg'[d] \in Fds /\ owner'[arg'[d]] = d
    <3>1. d # t /\ arg[d] \in Fds /\ owner[arg[d]] = d
      BY <1>4, <2>1 DEF Held, OwnDescriptor
    <3>2. arg[d] # f
      BY <1>2, <3>1
    <3>. QED  BY <1>4, <3>1, <3>2
  <2>2. ASSUME NEW g \in Fds, owner'[g] # NoClient
        PROVE  \/ pc' = "create" /\ c_socket' = g /\ thread'[owner'[g]] = "none"
               \/ thread'[owner'[g]] = "run" /\ arg'[owner'[g]] = g
    <3>1. g # f /\ owner'[g] = owner[g] /\ owner[g] \in Clients
      BY <1>4, <2>2 DEF TypeOK
    <3>2. \/ pc = "create" /\ c_socket = g /\ thread[owner[g]] = "none"
          \/ thread[owner[g]] = "run" /\ arg[owner[g]] = g
      BY <2>2, <3>1 DEF Held, OwnDescriptor
    <3>3. owner[g] # t
      BY <1>2, <3>1, <3>2
    <3>. QED  BY <1>3, <1>4, <3>1, <3>2, <3>3
  <2>3. pc' = "create" /\ c_socket' # -1 =>
          owner'[c_socket'] # NoClient /\ thread'[owner'[c_socket']] = "none"
    <3>1. SUFFICES ASSUME pc = "create", c_socket # -1
                   PROVE  owner'[c_socket] # NoClient /\ thread'[owner'[c_socket]] = "none"
      BY <1>3
    <3>2. owner'[c_socket] = owner[c_socket] /\ thread'[owner[c_socket]] = thread[owner[c_socket]]
      BY <1>4, <1>6, <3>1
    <3>. QED  BY <3>1, <3>2 DEF Held, OwnDescriptor
  <2>4. ASSUME NEW d \in Clients, link'[d] \notin {"none", "closed"}
        PROVE  thread'[d] = "run" \/ Creating(d)' \/ (d \in Waiting' /\ thread'[d] = "none")
    BY <1>4, <1>7, <1>9, <2>4 DEF Held, OwnDescriptor
  <2>. QED  BY <2>1, <2>2, <2>3, <2>4 DEF OwnDescriptor
<1>11. WaitsOnce'
  <2>1. \A k \in 1 .. Len(backlog) :
          /\ link'[backlog[k]] \notin {"none", "closed"} /\ thread'[backlog[k]] = "none"
          /\ ~ Creating(backlog[k])'
    BY <1>3, <1>4, <1>7, <1>9 DEF Held, WaitsOnce
  <2>2. \A d \in Clients : link'[d] = "none" => thread'[d] = "none" /\ ~ Creating(d)'
    BY <1>4, <1>7 DEF Held, WaitsOnce
  <2>. QED  BY <1>3, <2>1, <2>2 DEF Held, WaitsOnce
<1>. QED  BY <1>10, <1>11 DEF Held

\* A client connects, and waits after the others.
LEMMA HeldConnect ==
  ASSUME TypeOK, InOrder, Held, NEW c \in Clients, Connect(c), UNCHANGED serverVars
  PROVE  Held'
<1>1. /\ backlog \in Seq(Clients) /\ backlog' = Append(backlog, c) /\ link[c] = "none"
      /\ UNCHANGED <<pc, c_socket, owner, thread, arg>>
      /\ link' = [link EXCEPT ![c] = "open"]
  BY DEF Connect, mainVars, serverVars, TypeOK, TypeClients, InOrder, InOrderOf
<1>2. /\ Len(backlog) \in Nat /\ Len(backlog') = Len(backlog) + 1
      /\ \A k \in 1 .. Len(backlog) : backlog'[k] = backlog[k]
      /\ backlog'[Len(backlog) + 1] = c
  BY <1>1, AppendProperties, LenProperties
<1>3. /\ \A k \in 1 .. Len(backlog') : k \in 1 .. Len(backlog) \/ k = Len(backlog) + 1
      /\ 1 .. Len(backlog) \subseteq 1 .. Len(backlog')
      /\ Len(backlog) + 1 \in 1 .. Len(backlog')
  BY <1>2
<1>4. /\ \A d \in Clients : Creating(d)' <=> Creating(d)
      /\ thread[c] = "none" /\ ~ Creating(c)
  BY <1>1 DEF Creating, Held, WaitsOnce
<1>5. c \in Waiting' /\ \A d \in Waiting : d \in Waiting'
  BY <1>2, <1>3 DEF Waiting
<1>6. link'[c] = "open" /\ \A d \in Clients : d # c => link'[d] = link[d]
  BY <1>1 DEF TypeOK, TypeClients
<1>7. \A k \in 1 .. Len(backlog) : backlog[k] \in Clients /\ backlog[k] # c
  BY <1>1, ElementOfSeq DEF Held, WaitsOnce
<1>8. OwnDescriptor'
  BY <1>1, <1>4, <1>5, <1>6 DEF Held, OwnDescriptor
<1>9. WaitsOnce'
  <2>1. \A k \in 1 .. Len(backlog') :
          /\ link'[backlog'[k]] \notin {"none", "closed"} /\ thread'[backlog'[k]] = "none"
          /\ ~ Creating(backlog[k])'
    <3>1. SUFFICES ASSUME NEW k \in 1 .. Len(backlog')
          PROVE  /\ link'[backlog'[k]] \notin {"none", "closed"} /\ thread'[backlog'[k]] = "none"
                 /\ ~ Creating(backlog[k])'
      OBVIOUS
    <3>2. CASE k = Len(backlog) + 1
      BY <1>1, <1>2, <1>4, <1>6, <3>2
    <3>3. CASE k \in 1 .. Len(backlog)
      BY <1>1, <1>2, <1>4, <1>6, <1>7, <3>3 DEF Held, WaitsOnce
    <3>. QED  BY <1>3, <3>2, <3>3
  <2>2. \A j, k \in 1 .. Len(backlog') : backlog'[j] = backlog'[k] => j = k
    BY <1>2, <1>3, <1>7 DEF Held, WaitsOnce
  <2>3. \A d \in Clients : link'[d] = "none" => thread'[d] = "none" /\ ~ Creating(d)'
    BY <1>1, <1>4, <1>6 DEF Held, WaitsOnce
  <2>. QED  BY <2>1, <2>2, <2>3 DEF WaitsOnce
<1>. QED  BY <1>8, <1>9 DEF Held

\* Every step keeps both.
LEMMA HeldStep ==
  ASSUME TypeOK, InOrder, Held, [Next]_vars
  PROVE  Held'
<1>. USE DEF mainVars, serverVars
<1>1. CASE UNCHANGED vars
  BY <1>1, HeldSame DEF vars
<1>2. CASE Accept \/ AcceptFails \/ Create
  BY <1>2, HeldAccept, HeldAcceptFails, HeldCreate
<1>3. CASE CreateFails \/ \E t \in Clients : ReadDataKills(t)
  BY <1>3, HeldDie DEF CreateFails, ReadDataKills
<1>4. CASE LingerEnds \/ Restart
  BY <1>4, HeldSame DEF LingerEnds, Restart
<1>5. ASSUME NEW t \in Clients, ReadData(t)  PROVE Held'
  <2>1. \A d \in Clients : /\ link'[d] = "none" <=> link[d] = "none"
                           /\ link'[d] = "closed" <=> link[d] = "closed"
    BY <1>5 DEF ReadData, Echoes, Answer, TypeOK, TypeClients
  <2>. QED  BY <1>5, <2>1, HeldSame DEF ReadData
<1>6. ASSUME NEW t \in Clients, ReadFails(t)  PROVE Held'
  <2>1. \A d \in Clients : /\ link'[d] = "none" <=> link[d] = "none"
                           /\ link'[d] = "closed" <=> link[d] = "closed"
    BY <1>6 DEF ReadFails, ReadsError, TypeOK, TypeClients
  <2>. QED  BY <1>6, <2>1, HeldSame DEF ReadFails
<1>7. ASSUME NEW t \in Clients, ReadEnd(t)  PROVE Held'
  BY <1>7, HeldReadEnd
<1>8. ASSUME NEW c \in Clients, ClientStep(c), UNCHANGED serverVars  PROVE Held'
  <2>1. CASE Connect(c)
    BY <1>8, <2>1, HeldConnect
  <2>2. CASE Send(c) \/ Receive(c) \/ Leave(c)
    <3>1. \A d \in Clients : /\ link'[d] = "none" <=> link[d] = "none"
                             /\ link'[d] = "closed" <=> link[d] = "closed"
      BY <2>2 DEF Send, Receive, Leave, TypeOK, TypeClients
    <3>2. backlog' = backlog
      BY <2>2 DEF Send, Receive, Leave
    <3>. QED  BY <1>8, <3>1, <3>2, HeldSame
  <2>. QED  BY <1>8, <2>1, <2>2 DEF ClientStep
<1>. QED
  BY <1>1, <1>2, <1>3, <1>4, <1>5, <1>6, <1>7, <1>8 DEF Next, MainStep, ThreadStep

-----------------------------------------------------------------------------
(* The theorems.                                                           *)

\* Nothing has happened at first.
LEMMA InitIInv == Init => IInv
<1>. SUFFICES ASSUME Init  PROVE IInv
  OBVIOUS
<1>1. /\ Len(backlog) = 0 /\ pc = "accept" /\ \A f \in Fds : owner[f] = NoClient
      /\ \A c \in Clients : thread[c] = "none" /\ link[c] = "none"
  BY EmptySeq DEF Init, InitClients
<1>2. TypeOK
  BY EmptySeq DEF Init, InitClients, TypeOK, TypeClients
<1>3. InOrder
  BY InOrderInit DEF Init
<1>4. \A c \in Clients : ~ Creating(c)
  BY <1>1 DEF Creating
<1>5. OwnDescriptor /\ WaitsOnce
  BY <1>1, <1>4 DEF OwnDescriptor, WaitsOnce
<1>. QED  BY <1>2, <1>3, <1>5 DEF IInv

\* The invariant is inductive.
LEMMA NextIInv == IInv /\ [Next]_vars => IInv'
<1>. SUFFICES ASSUME IInv, [Next]_vars  PROVE IInv'
  OBVIOUS
<1>1. TypeOK /\ InOrder /\ Held
  BY DEF IInv, Held
<1>2. TypeOK' /\ InOrder' /\ Held'
  BY <1>1, TypeStep, InOrderStep, HeldStep
<1>. QED  BY <1>2 DEF IInv, Held

\* However threads end and descriptors' numbers come back, each thread reads
\* from its own connection only and no two share a descriptor, with any number
\* of clients, descriptors, spinning threads and restarts of the server.
THEOREM IInvHolds == Spec => []IInv
<1>. QED  BY InitIInv, NextIInv, PTL DEF Spec

\* The threaded servers implement Echo: a client gets its own pieces, in their
\* order, once, whichever thread has which descriptor.
THEOREM Refinement == Spec => ImplementsEcho
<1>1. Init => Promise!Init
  BY EchoInit DEF Init
<1>2. IInv /\ IInv' /\ [Next]_vars => [Promise!Next]_<<sent, Answered>>
  <2>. SUFFICES ASSUME IInv, IInv', [Next]_vars
                PROVE  Promise!Next \/ UNCHANGED <<sent, Answered>>
    OBVIOUS
  <2>1. TypeClients /\ InOrder /\ TypeClients' /\ InOrder'
    BY DEF IInv, TypeOK
  <2>2. CASE UNCHANGED clientVars
    BY <2>2, EchoUnseen DEF clientVars
  <2>3. ASSUME NEW c \in Clients, ClientStep(c)
        PROVE  Promise!Next \/ UNCHANGED <<sent, Answered>>
    BY <2>1, <2>3, EchoClientStep DEF ClientStep
  <2>4. ASSUME MainStep \/ CreateFails \/ LingerEnds \/ Restart \/ UNCHANGED vars
        PROVE  UNCHANGED clientVars
    BY <2>4 DEF MainStep, Accept, AcceptFails, Create, CreateFails, Die, LingerEnds, Restart, vars
  <2>5. ASSUME NEW c \in Clients, ThreadStep(c)  PROVE UNCHANGED clientVars
    BY <2>5 DEF ThreadStep, ReadData, ReadDataKills, ReadFails, ReadEnd, Die
  <2>. QED  BY <2>2, <2>3, <2>4, <2>5 DEF Next
<1>. QED  BY <1>1, <1>2, IInvHolds, PTL DEF Spec, ImplementsEcho, Promise!Spec, Answered
=============================================================================
