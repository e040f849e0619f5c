---------------------------- MODULE ForkEchoProofs ----------------------------
(***************************************************************************)
(* Proofs about ForkEcho, for any number of clients and of pieces: the     *)
(* inductive invariant IInv, and what follows from it.                     *)
(***************************************************************************)
EXTENDS ForkEcho, EchoClientsProofs, FiniteSetTheorems

-----------------------------------------------------------------------------
(* Types.                                                                  *)

\* Every step keeps every type.
LEMMA TypeStep ==
  ASSUME TypeOK, [Next]_vars
  PROVE  TypeOK'
<1>. USE DEF signalVars, serverVars, clientVars, streamVars
<1>1. CASE UNCHANGED vars
  BY <1>1 DEF vars, TypeOK, TypeClients
<1>2. CASE Accept
  <2>1. Head(backlog) \in Clients /\ Tail(backlog) \in Seq(Clients)
    BY <1>2, HeadTailProperties DEF Accept, TypeOK, TypeClients
  <2>. QED  BY <1>2, <2>1 DEF Accept, TypeOK, TypeClients
<1>3. CASE AcceptInterrupted
  BY <1>3 DEF AcceptInterrupted, TypeOK, TypeClients
<1>4. CASE Fork
  BY <1>4 DEF Fork, TypeOK, TypeClients
<1>5. CASE HandlerBegins
  BY <1>5 DEF HandlerBegins, TypeOK, TypeClients
<1>6. CASE HandlerEnds
  BY <1>6 DEF HandlerEnds, TypeOK, TypeClients
<1>7. ASSUME NEW cs, NEW reaped, ParentEnds(cs, reaped)  PROVE TypeOK'
  BY <1>7, EmptySeq DEF ParentEnds, Closed, TypeOK, TypeClients
<1>8. CASE HandlerExits \/ ForkFails
  BY <1>7, <1>8 DEF HandlerExits, ForkFails
<1>9. ASSUME NEW c \in Clients, ReadData(c)  PROVE TypeOK'
  <2>1. TypeClients'
    BY <1>9, TypeEchoes DEF ReadData, TypeOK
  <2>. QED  BY <1>9, <2>1 DEF ReadData, TypeOK
<1>10. ASSUME NEW c \in Clients, ReadFails(c)  PROVE TypeOK'
  BY <1>10 DEF ReadFails, TypeOK, TypeClients
<1>11. ASSUME NEW c \in Clients, ChildEnds(c)  PROVE TypeOK'
  BY <1>11 DEF ChildEnds, Dies, Closed, TypeOK, TypeClients
<1>12. ASSUME NEW c \in Clients, ClientStep(c), UNCHANGED serverVars  PROVE TypeOK'
  <2>1. TypeClients'
    BY <1>12, TypeClientStep DEF ClientStep, TypeOK
  <2>. QED  BY <1>12, <2>1 DEF TypeOK
<1>. QED
  BY <1>1, <1>2, <1>3, <1>4, <1>5, <1>6, <1>8, <1>9, <1>10, <1>11, <1>12
  DEF Next, ParentStep, ChildStep

-----------------------------------------------------------------------------
(* The order of the pieces.                                                *)

\* A step of the whole system keeps it.
LEMMA InOrderStep ==
  ASSUME TypeOK, InOrder, WaitsOnce, [Next]_vars
  PROVE  InOrder'
<1>. USE DEF signalVars, serverVars
<1>1. CASE UNCHANGED vars
  BY <1>1, InOrderLinks DEF vars
<1>2. CASE Accept \/ AcceptInterrupted \/ Fork \/ HandlerBegins \/ HandlerEnds
  BY <1>2, InOrderLinks DEF Accept, AcceptInterrupted, Fork, HandlerBegins, HandlerEnds
<1>3. ASSUME NEW cs, \A c \in cs : c \in Clients => link[c] # "none",
             link' = Closed(cs), UNCHANGED <<streamVars, clientVars>>
      PROVE  InOrder'
  <2>1. \A c \in Clients : /\ link'[c] = "open" => link[c] = "open"
                           /\ link'[c] = "none" <=> link[c] = "none"
    BY <1>3 DEF Closed
  <2>. QED  BY <1>3, <2>1, InOrderLinks
<1>4. \A c \in Waiting : link[c] # "none"
  BY DEF Waiting, WaitsOnce, Untried
<1>5. parent = "fork" => \A c \in {connSock} \ {NoSock} : link[c] # "none"
  BY DEF WaitsOnce, Untried
<1>6. CASE HandlerExits
  BY <1>3, <1>4, <1>5, <1>6 DEF HandlerExits, ParentEnds
<1>7. CASE ForkFails
  BY <1>3, <1>4, <1>5, <1>7 DEF ForkFails, ParentEnds
<1>8. ASSUME NEW c \in Clients, ReadData(c)  PROVE InOrder'
  BY <1>8, InOrderEchoes DEF ReadData, TypeOK
<1>9. ASSUME NEW c \in Clients, ReadFails(c)  PROVE InOrder'
  BY <1>9, InOrderLinks DEF ReadFails, ReadsError, TypeOK, TypeClients
<1>10. ASSUME NEW c \in Clients, ChildEnds(c)  PROVE InOrder'
  <2>1. link[c] # "none"
    <3>1. CASE ReadsEnd(c)
      BY <3>1 DEF ReadsEnd
    <3>2. CASE EchoKills(c)
      BY <3>2 DEF EchoKills
    <3>. QED  BY <1>10, <3>1, <3>2 DEF ChildEnds
  <2>. QED  BY <1>3, <1>10, <2>1 DEF ChildEnds, Dies
<1>11. ASSUME NEW c \in Clients, ClientStep(c)  PROVE InOrder'
  BY <1>11, InOrderClientStep DEF ClientStep, TypeOK
<1>. QED
  BY <1>1, <1>2, <1>6, <1>7, <1>8, <1>9, <1>10, <1>11
  DEF Next, ParentStep, ChildStep

-----------------------------------------------------------------------------
(* Each connection waits once, and gets one child.                         *)

\* The two together, which each step keeps or breaks together.
Waits == WaitsOnce /\ ChildPerConnection

\* A step that leaves alone who waits, and who has a child, keeps both.
LEMMA WaitsSame ==
  ASSUME Waits, UNCHANGED <<backlog, connSock, parent, child>>,
         \A c \in Clients : /\ link'[c] = "none" <=> link[c] = "none"
                            /\ link'[c] = "closed" <=> link[c] = "closed",
         TypeOK
  PROVE  Waits'
<1>1. \A c \in Clients : Untried(c)' <=> Untried(c)
  BY DEF Untried
<1>2. \A k \in 1 .. Len(backlog) : backlog[k] \in Clients
  BY ElementOfSeq DEF TypeOK, TypeClients
<1>3. Waiting' = Waiting
  BY DEF Waiting
<1>4. connSock # NoSock => connSock \in Clients
  BY DEF TypeOK
<1>. QED  BY <1>1, <1>2, <1>3, <1>4 DEF Waits, WaitsOnce, ChildPerConnection

\* A step that takes nobody into the backlog or out of it, and closes no
\* connection of those that wait, keeps WaitsOnce.
LEMMA WaitsOnceKept ==
  ASSUME TypeOK, WaitsOnce, backlog' = backlog,
         \A c \in Clients : Untried(c) => Untried(c)' \/ (parent' # "fork" /\ c \notin Waiting),
         parent' = "fork" => (parent = "fork" /\ connSock' = connSock) \/ connSock' = NoSock,
         \A c \in Clients : link'[c] = "none" => child'[c] = "none"
  PROVE  WaitsOnce'
<1>1. \A k \in 1 .. Len(backlog) : backlog[k] \in Clients /\ backlog[k] \in Waiting
  BY ElementOfSeq DEF TypeOK, TypeClients, Waiting
<1>2. Waiting' = Waiting
  BY DEF Waiting
<1>3. \A k \in 1 .. Len(backlog) : Untried(backlog[k])'
  BY <1>1 DEF WaitsOnce
<1>4. parent' = "fork" /\ connSock' # NoSock => Untried(connSock)' /\ connSock' \notin Waiting
  BY DEF WaitsOnce, TypeOK
<1>. QED  BY <1>2, <1>3, <1>4 DEF WaitsOnce

\* The first of those that wait is accepted.
LEMMA WaitsAccept ==
  ASSUME TypeOK, Waits, Accept
  PROVE  Waits'
<1>1. /\ backlog \in Seq(Clients) /\ backlog # <<>>
      /\ connSock' = Head(backlog) /\ backlog' = Tail(backlog) /\ parent = "accept"
      /\ parent' = "fork" /\ child' = child /\ link' = link
  BY DEF Accept, TypeOK, TypeClients
<1>2. /\ connSock' = backlog[1] /\ Len(backlog) \in Nat \ {0}
      /\ Len(backlog') = Len(backlog) - 1
      /\ \A k \in 1 .. Len(backlog') : backlog'[k] = backlog[k + 1]
  BY <1>1, HeadTailProperties, EmptySeq, LenProperties
<1>3. \A k \in 1 .. Len(backlog') : k + 1 \in 1 .. Len(backlog) /\ k + 1 # 1
  BY <1>2
<1>4. 1 \in 1 .. Len(backlog)
  BY <1>2
<1>5. \A k \in 2 .. Len(backlog) : k - 1 \in 1 .. Len(backlog') /\ (k - 1) + 1 = k
  BY <1>2
<1>6. Waiting' = Waiting \ {connSock'}
  <2>1. \A c : c \in Waiting' => c \in Waiting /\ c # connSock'
    BY <1>2, <1>3, <1>4 DEF Waiting, Waits, WaitsOnce
  <2>2. ASSUME NEW c \in Waiting, c # connSock'  PROVE c \in Waiting'
    <3>1. PICK k \in 1 .. Len(backlog) : c = backlog[k]
      BY DEF Waiting
    <3>2. k \in 2 .. Len(backlog)
      BY <1>2, <2>2, <3>1
    <3>3. backlog'[k - 1] = c
      BY <1>2, <1>5, <3>1, <3>2
    <3>. QED  BY <1>5, <3>2, <3>3 DEF Waiting
  <2>. QED  BY <2>1, <2>2
<1>7. WaitsOnce'
  <2>1. \A k \in 1 .. Len(backlog') : Untried(backlog[k])'
    BY <1>1, <1>2, <1>3 DEF Untried, Waits, WaitsOnce
  <2>2. \A j, k \in 1 .. Len(backlog') : backlog'[j] = backlog'[k] => j = k
    <3>1. \A j, k \in 1 .. Len(backlog') : backlog[j + 1] = backlog[k + 1] => j + 1 = k + 1
      BY <1>3 DEF Waits, WaitsOnce
    <3>2. \A j, k \in 1 .. Len(backlog') : j + 1 = k + 1 => j = k
      BY <1>2
    <3>. QED  BY <1>2, <3>1, <3>2
  <2>3. Untried(connSock)' /\ connSock' \notin Waiting'
    BY <1>1, <1>2, <1>4, <1>6 DEF Untried, Waits, WaitsOnce
  <2>. QED  BY <1>1, <2>1, <2>2, <2>3 DEF Waits, WaitsOnce
<1>8. ChildPerConnection'
  <2>1. connSock' \in Waiting
    BY <1>2, <1>4 DEF Waiting
  <2>. QED  BY <1>1, <1>6, <2>1 DEF Waits, ChildPerConnection
<1>. QED  BY <1>7, <1>8 DEF Waits

\* A client connects, and waits after the others.
LEMMA WaitsConnect ==
  ASSUME TypeOK, InOrder, Waits, NEW c \in Clients, Connect(c), UNCHANGED serverVars
  PROVE  Waits'
<1>1. /\ backlog \in Seq(Clients) /\ backlog' = Append(backlog, c) /\ link[c] = "none"
      /\ child' = child /\ parent' = parent /\ connSock' = connSock
      /\ link' = [link EXCEPT ![c] = "open"]
  BY DEF Connect, serverVars, TypeOK, TypeClients, InOrder, InOrderOf
<1>2. /\ Len(backlog) \in Nat /\ Len(backlog') = Len(backlog) + 1
      /\ \A k \in 1 .. Len(backlog) : backlog'[k] = backlog[k]
      /\ backlog'[Len(backlog) + 1] = c
  BY <1>1, AppendProperties, LenProperties
<1>3. \A k \in 1 .. Len(backlog') : k \in 1 .. Len(backlog) \/ k = Len(backlog) + 1
  BY <1>2
<1>4. /\ 1 .. Len(backlog) \subseteq 1 .. Len(backlog')
      /\ Len(backlog) + 1 \in 1 .. Len(backlog')
  BY <1>2
<1>5. Waiting' = Waiting \union {c}
  <2>1. \A d : d \in Waiting' => d \in Waiting \union {c}
    BY <1>2, <1>3 DEF Waiting
  <2>2. \A d : d \in Waiting => d \in Waiting'
    BY <1>2, <1>4 DEF Waiting
  <2>3. c \in Waiting'
    BY <1>2, <1>4 DEF Waiting
  <2>. QED  BY <2>1, <2>2, <2>3
<1>6. link'[c] = "open" /\ \A d \in Clients : d # c => link'[d] = link[d]
  BY <1>1 DEF TypeOK, TypeClients
<1>7. child[c] = "none"
  BY <1>1 DEF Waits, WaitsOnce
<1>8. Untried(c)' /\ ~ Untried(c) /\ \A d \in Clients : Untried(d) => Untried(d)'
  BY <1>1, <1>6, <1>7 DEF Untried
<1>9. c \notin Waiting /\ (parent = "fork" => connSock # c)
  BY <1>8, ForkEchoAssumption DEF Waits, WaitsOnce, Waiting
<1>10. \A k \in 1 .. Len(backlog) : backlog[k] \in Clients /\ backlog[k] # c
  BY <1>1, <1>9, ElementOfSeq DEF Waiting
<1>11. WaitsOnce'
  <2>1. \A k \in 1 .. Len(backlog') : Untried(backlog[k])'
    BY <1>2, <1>3, <1>8, <1>10 DEF Waits, WaitsOnce
  <2>2. \A j, k \in 1 .. Len(backlog') : backlog'[j] = backlog'[k] => j = k
    BY <1>2, <1>3, <1>10 DEF Waits, WaitsOnce
  <2>3. parent' = "fork" /\ connSock' # NoSock => Untried(connSock)' /\ connSock' \notin Waiting'
    BY <1>1, <1>5, <1>8, <1>9 DEF Waits, WaitsOnce, TypeOK
  <2>4. \A d \in Clients : link'[d] = "none" => child'[d] = "none"
    BY <1>1, <1>6 DEF Waits, WaitsOnce
  <2>. QED  BY <2>1, <2>2, <2>3, <2>4 DEF WaitsOnce
<1>12. ChildPerConnection'
  <2>1. SUFFICES ASSUME NEW d \in Clients
        PROVE  child'[d] = "echo" <=>
                 /\ link'[d] \notin {"none", "closed"} /\ d \notin Waiting'
                 /\ ~ (parent' = "fork" /\ connSock' = d)
    BY DEF ChildPerConnection
  <2>2. CASE d = c
    BY <1>1, <1>5, <1>7, <2>2
  <2>3. CASE d # c
    BY <1>1, <1>5, <1>6, <2>3 DEF Waits, ChildPerConnection
  <2>. QED  BY <2>2, <2>3
<1>. QED  BY <1>11, <1>12 DEF Waits

\* fork() gives a child to the connection that was accepted, if there is one.
LEMMA WaitsFork ==
  ASSUME TypeOK, Waits, Fork
  PROVE  Waits'
<1>1. /\ parent = "fork" /\ parent' = "accept" /\ backlog' = backlog /\ link' = link
      /\ connSock' = connSock
      /\ \A c \in Clients : child'[c] = IF c = connSock THEN "echo" ELSE child[c]
  BY DEF Fork
<1>2. Waiting' = Waiting
  BY <1>1 DEF Waiting
<1>3. connSock \in Clients =>
        Untried(connSock) /\ connSock \notin Waiting
  BY <1>1, ForkEchoAssumption DEF Waits, WaitsOnce
<1>4. WaitsOnce'
  <2>1. \A c \in Clients : Untried(c) => Untried(c)' \/ c \notin Waiting
    BY <1>1, <1>3 DEF Untried
  <2>2. \A c \in Clients : link'[c] = "none" => child'[c] = "none"
    BY <1>1, <1>3 DEF Waits, WaitsOnce, Untried
  <2>. QED  BY <1>1, <2>1, <2>2, WaitsOnceKept DEF Waits
<1>5. ChildPerConnection'
  <2>1. SUFFICES ASSUME NEW c \in Clients
        PROVE  child'[c] = "echo" <=> link'[c] \notin {"none", "closed"} /\ c \notin Waiting'
    BY <1>1 DEF ChildPerConnection
  <2>2. CASE c = connSock
    BY <1>1, <1>2, <1>3, <2>2 DEF Untried
  <2>3. CASE c # connSock
    BY <1>1, <1>2, <2>3 DEF Waits, ChildPerConnection
  <2>. QED  BY <2>2, <2>3
<1>. QED  BY <1>4, <1>5 DEF Waits

\* The server ends, and the connections that have no child are closed.
LEMMA WaitsParentEnds ==
  ASSUME TypeOK, Waits, NEW cs, cs \subseteq Clients,
         ParentEnds(cs, Zombies),
         \A c \in Clients : c \in cs <=> c \in Waiting \/ (parent = "fork" /\ connSock = c)
  PROVE  Waits'
<1>1. /\ parent' = "gone" /\ backlog' = <<>>
      /\ \A c \in Clients : link'[c] = IF c \in cs THEN "closed" ELSE link[c]
      /\ \A c \in Clients : child'[c] = IF child[c] = "zombie" THEN "reaped" ELSE child[c]
  BY DEF ParentEnds, Closed, Zombies
<1>2. Waiting' = {} /\ 1 .. Len(backlog') = {}
  BY <1>1, EmptySeq DEF Waiting
<1>3. \A c \in Clients : link'[c] = "none" => child'[c] = "none"
  BY <1>1 DEF Waits, WaitsOnce
<1>4. WaitsOnce'
  BY <1>1, <1>2, <1>3 DEF WaitsOnce
<1>5. ChildPerConnection'
  BY <1>1, <1>2 DEF Waits, ChildPerConnection
<1>. QED  BY <1>4, <1>5 DEF Waits

\* A child ends, and its connection is closed.
LEMMA WaitsDies ==
  ASSUME TypeOK, Waits, NEW c \in Clients, ChildEnds(c)
  PROVE  Waits'
<1>1. /\ child[c] = "echo" /\ child'[c] \in {"reaped", "zombie"} /\ link'[c] = "closed"
      /\ parent' = parent /\ connSock' = connSock /\ backlog' = backlog
      /\ \A d \in Clients : d # c => child'[d] = child[d] /\ link'[d] = link[d]
  BY DEF ChildEnds, Dies, Closed, TypeOK, TypeClients
<1>2. Waiting' = Waiting
  BY <1>1 DEF Waiting
<1>3. WaitsOnce'
  <2>1. \A d \in Clients : Untried(d) => Untried(d)'
    BY <1>1 DEF Untried
  <2>2. \A d \in Clients : link'[d] = "none" => child'[d] = "none"
    BY <1>1 DEF Waits, WaitsOnce
  <2>. QED  BY <1>1, <2>1, <2>2, WaitsOnceKept DEF Waits
<1>4. ChildPerConnection'
  <2>1. SUFFICES ASSUME NEW d \in Clients
        PROVE  child'[d] = "echo" <=>
                 /\ link'[d] \notin {"none", "closed"} /\ d \notin Waiting'
                 /\ ~ (parent' = "fork" /\ connSock' = d)
    BY DEF ChildPerConnection
  <2>2. CASE d = c
    BY <1>1, <2>2
  <2>3. CASE d # c
    BY <1>1, <1>2, <2>3 DEF Waits, ChildPerConnection
  <2>. QED  BY <2>2, <2>3
<1>. QED  BY <1>3, <1>4 DEF Waits

\* A step of the whole system keeps both.
LEMMA WaitsStep ==
  ASSUME TypeOK, InOrder, Waits, [Next]_vars
  PROVE  Waits'
<1>. USE DEF signalVars, serverVars, clientVars, streamVars
<1>1. CASE UNCHANGED vars
  BY <1>1, WaitsSame DEF vars
<1>2. CASE Accept
  BY <1>2, WaitsAccept
<1>3. CASE AcceptInterrupted
  <2>1. /\ backlog' = backlog /\ child' = child /\ link' = link /\ connSock' = NoSock
        /\ parent = "accept" /\ parent' = "fork"
    BY <1>3 DEF AcceptInterrupted
  <2>2. \A c \in Clients : Untried(c) => Untried(c)'
    BY <2>1 DEF Untried
  <2>3. WaitsOnce'
    BY <2>1, <2>2, WaitsOnceKept DEF Waits, WaitsOnce
  <2>4. Waiting' = Waiting
    BY <2>1 DEF Waiting
  <2>5. ChildPerConnection'
    BY <2>1, <2>4, ForkEchoAssumption DEF Waits, ChildPerConnection
  <2>. QED  BY <2>3, <2>5 DEF Waits
<1>4. CASE Fork
  BY <1>4, WaitsFork
<1>5. CASE HandlerBegins
  BY <1>5, WaitsSame DEF HandlerBegins
<1>6. CASE HandlerEnds
  <2>1. PICK c \in Zombies : child' = [child EXCEPT ![c] = "reaped"]
    BY <1>6 DEF HandlerEnds
  <2>2. /\ backlog' = backlog /\ link' = link /\ connSock' = connSock /\ parent' = parent
        /\ c \in Clients /\ child[c] = "zombie" /\ child'[c] = "reaped"
        /\ \A d \in Clients : d # c => child'[d] = child[d]
    BY <1>6, <2>1 DEF HandlerEnds, Zombies, TypeOK
  <2>3. \A d \in Clients : Untried(d) => Untried(d)'
    BY <2>2 DEF Untried
  <2>4. \A d \in Clients : link'[d] = "none" => child'[d] = "none"
    BY <2>2 DEF Waits, WaitsOnce
  <2>5. WaitsOnce'
    BY <2>2, <2>3, <2>4, WaitsOnceKept DEF Waits
  <2>6. \A d \in Clients : child'[d] = "echo" <=> child[d] = "echo"
    BY <2>2
  <2>7. ChildPerConnection'
    BY <2>2, <2>6 DEF Waits, ChildPerConnection, Waiting
  <2>. QED  BY <2>5, <2>7 DEF Waits
<1>7. Waiting \subseteq Clients /\ {connSock} \ {NoSock} \subseteq Clients
  BY ElementOfSeq DEF TypeOK, TypeClients, Waiting
<1>8. CASE HandlerExits
  <2>. DEFINE cs == Waiting \union (IF parent = "fork" THEN {connSock} \ {NoSock} ELSE {})
  <2>1. cs \subseteq Clients /\ ParentEnds(cs, Zombies)
    BY <1>7, <1>8 DEF HandlerExits
  <2>2. \A c \in Clients : c \in cs <=> c \in Waiting \/ (parent = "fork" /\ connSock = c)
    BY ForkEchoAssumption
  <2>. QED  BY <2>1, <2>2, WaitsParentEnds
<1>9. CASE ForkFails
  <2>. DEFINE cs == Waiting \union ({connSock} \ {NoSock})
  <2>1. cs \subseteq Clients /\ ParentEnds(cs, Zombies) /\ parent = "fork"
    BY <1>7, <1>9 DEF ForkFails
  <2>2. \A c \in Clients : c \in cs <=> c \in Waiting \/ (parent = "fork" /\ connSock = c)
    BY <2>1, ForkEchoAssumption
  <2>. QED  BY <2>1, <2>2, WaitsParentEnds
<1>10. ASSUME NEW c \in Clients, ReadData(c)  PROVE Waits'
  <2>1. \A d \in Clients : /\ link'[d] = "none" <=> link[d] = "none"
                           /\ link'[d] = "closed" <=> link[d] = "closed"
    BY <1>10 DEF ReadData, Echoes, Answer, TypeOK, TypeClients
  <2>. QED  BY <1>10, <2>1, WaitsSame DEF ReadData
<1>11. ASSUME NEW c \in Clients, ReadFails(c)  PROVE Waits'
  <2>1. \A d \in Clients : /\ link'[d] = "none" <=> link[d] = "none"
                           /\ link'[d] = "closed" <=> link[d] = "closed"
    BY <1>11 DEF ReadFails, ReadsError, TypeOK, TypeClients
  <2>. QED  BY <1>11, <2>1, WaitsSame DEF ReadFails
<1>12. ASSUME NEW c \in Clients, ChildEnds(c)  PROVE Waits'
  BY <1>12, WaitsDies
<1>13. ASSUME NEW c \in Clients, ClientStep(c), UNCHANGED serverVars  PROVE Waits'
  <2>1. CASE Connect(c)
    BY <1>13, <2>1, WaitsConnect
  <2>2. CASE Send(c) \/ Receive(c) \/ Leave(c)
    <3>1. \A d \in Clients : /\ link'[d] = "none" <=> link[d] = "none"
                             /\ link'[d] = "closed" <=> link[d] = "closed"
      BY <2>2 DEF Send, Receive, Leave, TypeOK, TypeClients
    <3>2. backlog' = backlog
      BY <2>2 DEF Send, Receive, Leave
    <3>. QED  BY <1>13, <3>1, <3>2, WaitsSame
  <2>. QED  BY <1>13, <2>1, <2>2 DEF ClientStep
<1>. QED
  BY <1>1, <1>2, <1>3, <1>4, <1>5, <1>6, <1>8, <1>9, <1>10, <1>11, <1>12, <1>13
  DEF Next, ParentStep, ChildStep

-----------------------------------------------------------------------------
(* The counts.                                                             *)

\* A set of clients that gains one, loses one, or changes in any way.
LEMMA CountOf ==
  ASSUME NEW S, S \subseteq Clients
  PROVE  /\ IsFiniteSet(S) /\ Cardinality(S) \in Nat
         /\ \A c : c \notin S => Cardinality(S \union {c}) = Cardinality(S) + 1
         /\ \A c : c \in S => Cardinality(S \ {c}) = Cardinality(S) - 1
<1>1. IsFiniteSet(S)
  BY ForkEchoAssumption, FS_Subset
<1>2. Cardinality(S) \in Nat
  BY <1>1, FS_CardinalityType
<1>. QED  BY <1>1, <1>2, FS_AddElement, FS_RemoveElement

\* Every step keeps the account of the zombies.
LEMMA ZombiesStep ==
  ASSUME TypeOK, WaitsOnce, ZombiesAccounted, [Next]_vars
  PROVE  ZombiesAccounted'
<1>. USE DEF signalVars, serverVars
<1>1. Zombies \subseteq Clients /\ lost \in Nat
  BY DEF Zombies, TypeOK
<1>2. ASSUME child' = child, lost' = lost, parent' = "gone" \/ parent # "gone",
             One(pending)' + One(handling)' = One(pending) + One(handling)
      PROVE  ZombiesAccounted'
  <2>1. Zombies' = Zombies
    BY <1>2 DEF Zombies
  <2>. QED  BY <1>1, <1>2, <2>1, CountOf DEF ZombiesAccounted, One
<1>3. CASE UNCHANGED vars
  BY <1>3 DEF vars, ZombiesAccounted, Zombies, One
<1>4. CASE Accept \/ AcceptInterrupted
  BY <1>2, <1>4 DEF Accept, AcceptInterrupted, One
<1>5. CASE Fork
  <2>1. connSock \in Clients => child[connSock] = "none"
    BY <1>5, ForkEchoAssumption DEF Fork, WaitsOnce, Untried
  <2>2. Zombies' = Zombies
    BY <1>5, <2>1 DEF Fork, Zombies
  <2>. QED  BY <1>5, <2>2 DEF Fork, ZombiesAccounted, One
<1>6. CASE HandlerBegins
  BY <1>2, <1>6 DEF HandlerBegins, One, TypeOK, InMain
<1>7. CASE HandlerEnds
  <2>1. PICK c \in Zombies : child' = [child EXCEPT ![c] = "reaped"]
    BY <1>7 DEF HandlerEnds
  <2>2. Zombies' = Zombies \ {c}
    BY <2>1 DEF Zombies, TypeOK
  <2>3. Cardinality(Zombies') = Cardinality(Zombies) - 1 /\ Cardinality(Zombies) \in Nat
    BY <1>1, <2>1, <2>2, CountOf
  <2>. QED  BY <1>1, <1>7, <2>3 DEF HandlerEnds, ZombiesAccounted, One
<1>8. CASE HandlerExits \/ ForkFails
  BY <1>8 DEF HandlerExits, ForkFails, ParentEnds, ZombiesAccounted
<1>9. ASSUME NEW c \in Clients, ReadData(c) \/ ReadFails(c)  PROVE ZombiesAccounted'
  BY <1>9 DEF ReadData, ReadFails, ZombiesAccounted, Zombies, One
<1>10. ASSUME NEW c \in Clients, ChildEnds(c)  PROVE ZombiesAccounted'
  <2>1. CASE parent = "gone"
    BY <1>10, <2>1 DEF ChildEnds, Dies, ZombiesAccounted
  <2>2. CASE parent # "gone"
    <3>1. c \notin Zombies /\ Zombies' = Zombies \union {c}
      BY <1>10, <2>2 DEF ChildEnds, Dies, Zombies, TypeOK
    <3>2. Cardinality(Zombies') = Cardinality(Zombies) + 1 /\ Cardinality(Zombies) \in Nat
      BY <1>1, <3>1, CountOf
    <3>3. lost' + One(pending)' = lost + One(pending) + 1 /\ One(handling)' = One(handling)
      BY <1>1, <1>10, <2>2 DEF ChildEnds, Dies, One
    <3>4. Cardinality(Zombies) = lost + One(pending) + One(handling)
      BY <2>2 DEF ZombiesAccounted
    <3>5. Cardinality(Zombies') = lost' + One(pending)' + One(handling)'
      <4>1. One(pending) \in Nat /\ One(handling) \in Nat /\ One(pending)' \in Nat
        BY DEF One
      <4>. QED  BY <1>1, <3>2, <3>3, <3>4, <4>1
    <3>. QED  BY <3>5 DEF ZombiesAccounted
  <2>. QED  BY <2>1, <2>2
<1>11. ASSUME UNCHANGED serverVars  PROVE ZombiesAccounted'
  BY <1>11 DEF ZombiesAccounted, Zombies, One
<1>. QED
  BY <1>3, <1>4, <1>5, <1>6, <1>7, <1>8, <1>9, <1>10, <1>11
  DEF Next, ParentStep, ChildStep

\* The children that were reaped, which RunawaysBounded counts.
Reaped == {c \in Clients : child[c] = "reaped"}

\* Whether the next fork() is for nothing.
ForksNothing == parent = "fork" /\ connSock = NoSock

\* Every step keeps the bound on the children that spin on -1.
LEMMA RunawaysStep ==
  ASSUME TypeOK, WaitsOnce, RunawaysBounded, [Next]_vars
  PROVE  RunawaysBounded'
<1>. USE DEF signalVars, serverVars
<1>1. /\ Reaped \subseteq Clients /\ Reaped' \subseteq Clients
      /\ runaways \in Nat /\ runaways' \in Nat
      /\ IsFiniteSet(Reaped) /\ IsFiniteSet(Reaped')
      /\ Cardinality(Reaped) \in Nat /\ Cardinality(Reaped') \in Nat
  <2>1. Reaped \subseteq Clients /\ Reaped' \subseteq Clients /\ runaways \in Nat
    BY DEF Reaped, TypeOK
  <2>2. runaways' \in Nat
    BY TypeStep DEF TypeOK
  <2>. QED  BY <2>1, <2>2, CountOf
<1>2. runaways + One(interrupted) + One(ForksNothing) <= Cardinality(Reaped) + One(handling)
  BY DEF RunawaysBounded, Reaped, ForksNothing
<1>3. ASSUME runaways' + One(interrupted)' + One(ForksNothing)'
               <= Cardinality(Reaped)' + One(handling)'
      PROVE  RunawaysBounded'
  BY <1>3 DEF RunawaysBounded, Reaped, ForksNothing
<1>4. ASSUME Reaped' = Reaped, One(handling)' = One(handling),
             runaways' + One(interrupted)' + One(ForksNothing)'
               <= runaways + One(interrupted) + One(ForksNothing)
      PROVE  RunawaysBounded'
  <2>1. Cardinality(Reaped)' = Cardinality(Reaped)
    BY <1>4
  <2>2. /\ One(interrupted) \in Nat /\ One(ForksNothing) \in Nat /\ One(handling) \in Nat
        /\ One(interrupted)' \in Nat /\ One(ForksNothing)' \in Nat
    BY DEF One
  <2>3. runaways' + One(interrupted)' + One(ForksNothing)'
          <= Cardinality(Reaped)' + One(handling)'
    BY <1>1, <1>2, <1>4, <2>1, <2>2
  <2>. QED  BY <1>3, <2>3
<1>5. CASE UNCHANGED vars \/ UNCHANGED serverVars
  BY <1>5 DEF vars, RunawaysBounded, One
<1>6. CASE Accept
  <2>1. Head(backlog) \in Clients
    BY <1>6, HeadTailProperties DEF Accept, TypeOK, TypeClients
  <2>2. Reaped' = Reaped /\ ~ ForksNothing /\ ~ ForksNothing'
    BY <1>6, <2>1, ForkEchoAssumption DEF Accept, Reaped, ForksNothing
  <2>. QED  BY <1>1, <1>4, <1>6, <2>2 DEF Accept, One
<1>7. CASE AcceptInterrupted
  <2>1. Reaped' = Reaped /\ ~ ForksNothing
    BY <1>7 DEF AcceptInterrupted, Reaped, ForksNothing
  <2>. QED  BY <1>1, <1>4, <1>7, <2>1 DEF AcceptInterrupted, One
<1>8. CASE Fork
  <2>1. connSock \in Clients => child[connSock] = "none"
    BY <1>8, ForkEchoAssumption DEF Fork, WaitsOnce, Untried
  <2>2. Reaped' = Reaped
    BY <1>8, <2>1 DEF Fork, Reaped
  <2>3. ~ ForksNothing' /\ (ForksNothing <=> connSock = NoSock)
    BY <1>8 DEF Fork, ForksNothing
  <2>. QED  BY <1>1, <1>4, <1>8, <2>2, <2>3 DEF Fork, One
<1>9. CASE HandlerBegins
  <2>1. Reaped' = Reaped /\ (ForksNothing' <=> ForksNothing)
    BY <1>9 DEF HandlerBegins, Reaped, ForksNothing
  <2>2. /\ ~ handling /\ handling' /\ runaways' = runaways
        /\ One(interrupted)' <= One(interrupted) + 1
    BY <1>9 DEF HandlerBegins, InMain, One
  <2>. QED  BY <1>1, <1>2, <1>3, <2>1, <2>2 DEF One
<1>10. CASE HandlerEnds
  <2>1. PICK c \in Zombies : child' = [child EXCEPT ![c] = "reaped"]
    BY <1>10 DEF HandlerEnds
  <2>2. c \notin Reaped /\ Reaped' = Reaped \union {c}
    BY <2>1 DEF Zombies, Reaped, TypeOK
  <2>3. Cardinality(Reaped') = Cardinality(Reaped) + 1
    BY <1>1, <2>2, CountOf
  <2>4. ForksNothing' <=> ForksNothing
    BY <1>10 DEF HandlerEnds, ForksNothing
  <2>5. handling /\ ~ handling' /\ runaways' = runaways /\ interrupted' = interrupted
    BY <1>10 DEF HandlerEnds
  <2>. QED  BY <1>1, <1>2, <1>3, <2>3, <2>4, <2>5 DEF One
<1>11. CASE HandlerExits
  <2>1. ~ ForksNothing' /\ ~ interrupted' /\ ~ handling' /\ handling /\ runaways' = runaways
    BY <1>11 DEF HandlerExits, ParentEnds, ForksNothing
  <2>2. PICK c \in Zombies : TRUE
    BY <1>11 DEF HandlerExits
  <2>3. c \notin Reaped /\ Reaped \union {c} \subseteq Reaped'
    BY <1>11, <2>2 DEF HandlerExits, ParentEnds, Zombies, Reaped
  <2>4. Cardinality(Reaped) + 1 <= Cardinality(Reaped')
    <3>1. Cardinality(Reaped \union {c}) = Cardinality(Reaped) + 1
      BY <1>1, <2>3, CountOf
    <3>. QED  BY <1>1, <2>3, <3>1, FS_Subset
  <2>. QED  BY <1>1, <1>2, <1>3, <2>1, <2>4 DEF One
<1>12. CASE ForkFails
  <2>1. ~ ForksNothing' /\ ~ interrupted' /\ ~ handling' /\ ~ handling /\ runaways' = runaways
    BY <1>12 DEF ForkFails, InMain, ParentEnds, ForksNothing
  <2>2. Reaped \subseteq Reaped'
    BY <1>12 DEF ForkFails, ParentEnds, Reaped
  <2>3. Cardinality(Reaped) <= Cardinality(Reaped')
    BY <1>1, <2>2, FS_Subset
  <2>. QED  BY <1>1, <1>2, <1>3, <2>1, <2>3 DEF One
<1>13. ASSUME NEW c \in Clients, ReadData(c) \/ ReadFails(c)  PROVE RunawaysBounded'
  BY <1>5, <1>13 DEF ReadData, ReadFails
<1>14. ASSUME NEW c \in Clients, ChildEnds(c)  PROVE RunawaysBounded'
  <2>1. /\ (ForksNothing' <=> ForksNothing) /\ runaways' = runaways
        /\ interrupted' = interrupted /\ handling' = handling
    BY <1>14 DEF ChildEnds, Dies, ForksNothing
  <2>2. Reaped \subseteq Reaped'
    BY <1>14 DEF ChildEnds, Dies, Reaped, TypeOK
  <2>3. Cardinality(Reaped) <= Cardinality(Reaped')
    BY <1>1, <2>2, FS_Subset
  <2>. QED  BY <1>1, <1>2, <1>3, <2>1, <2>3 DEF One
<1>. QED
  BY <1>5, <1>6, <1>7, <1>8, <1>9, <1>10, <1>11, <1>12, <1>13, <1>14
  DEF Next, ParentStep, ChildStep

-----------------------------------------------------------------------------
(* The theorems.                                                           *)

\* Nothing has happened at first.
LEMMA InitIInv == Init => IInv
<1>. SUFFICES ASSUME Init  PROVE IInv
  OBVIOUS
<1>1. /\ backlog = <<>> /\ Len(backlog) = 0 /\ parent = "accept" /\ ~ interrupted
      /\ ~ handling /\ ~ pending /\ lost = 0 /\ runaways = 0
      /\ \A c \in Clients : child[c] = "none" /\ link[c] = "none"
  BY EmptySeq DEF Init, InitClients
<1>2. TypeOK
  BY EmptySeq DEF Init, InitClients, TypeOK, TypeClients
<1>3. InOrder
  BY InOrderInit DEF Init
<1>4. WaitsOnce
  BY <1>1 DEF WaitsOnce
<1>5. ChildPerConnection
  BY <1>1 DEF ChildPerConnection
<1>6. Zombies = {} /\ Reaped = {}
  BY <1>1 DEF Zombies, Reaped
<1>7. ZombiesAccounted
  BY <1>1, <1>6, FS_EmptySet DEF ZombiesAccounted, One
<1>8. RunawaysBounded
  BY <1>1, <1>6, FS_EmptySet DEF RunawaysBounded, Reaped, One
<1>. QED  BY <1>2, <1>3, <1>4, <1>5, <1>7, <1>8 DEF IInv

\* The invariant is inductive.
LEMMA NextIInv == IInv /\ [Next]_vars => IInv'
<1>. SUFFICES ASSUME IInv, [Next]_vars  PROVE IInv'
  OBVIOUS
<1>1. TypeOK /\ InOrder /\ Waits /\ WaitsOnce /\ ZombiesAccounted /\ RunawaysBounded
  BY DEF IInv, Waits
<1>2. TypeOK' /\ InOrder'
  BY <1>1, TypeStep, InOrderStep
<1>3. WaitsOnce' /\ ChildPerConnection'
  BY <1>1, WaitsStep DEF Waits
<1>4. ZombiesAccounted' /\ RunawaysBounded'
  BY <1>1, ZombiesStep, RunawaysStep
<1>. QED  BY <1>2, <1>3, <1>4 DEF IInv

\* The inductive invariant holds, with any number of clients and of pieces:
\* every variable has its type, the pieces are in order on every connection,
\* and a connection waits in the backlog or for its fork() at most once.
THEOREM IInvHolds == Spec => []IInv
<1>. QED  BY InitIInv, NextIInv, PTL DEF Spec

\* However many children end at once, and whatever the parent does then, each
\* zombie is one that the running handler, the pending signal or a lost signal
\* stands for: wait() in the handler never stops the server.
THEOREM ZombiesAccountedHolds == Spec => []ZombiesAccounted
<1>1. IInv => ZombiesAccounted
  BY DEF IInv
<1>. QED  BY <1>1, IInvHolds, PTL

\* The failed accept() of an interrupted server costs at most one spinning
\* child for each child that ended.
THEOREM RunawaysBoundedHolds == Spec => []RunawaysBounded
<1>1. IInv => RunawaysBounded
  BY DEF IInv
<1>. QED  BY <1>1, IInvHolds, PTL

\* Each accepted connection has exactly one child, which lives as long as it.
THEOREM ChildPerConnectionHolds == Spec => []ChildPerConnection
<1>1. IInv => ChildPerConnection
  BY DEF IInv
<1>. QED  BY <1>1, IInvHolds, PTL

\* The forking servers implement Echo: whatever children, signals and
\* interrupted calls do, a client gets its own pieces, in their order, once.
THEOREM Refinement == Spec => ImplementsEcho
<1>1. Init => Promise!Init
  BY EchoInit DEF Init
<1>2. IInv /\ IInv' /\ [Next]_vars => [Promise!Next]_<<sent, Answered>>
  <2>. SUFFICES ASSUME IInv, IInv', [Next]_vars
                PROVE  Promise!Next \/ UNCHANGED <<sent, Answered>>
    OBVIOUS
  <2>1. TypeClients /\ InOrder /\ TypeClients' /\ InOrder'
    BY DEF IInv, TypeOK
  <2>2. CASE UNCHANGED clientVars
    BY <2>2, EchoUnseen DEF clientVars
  <2>3. ASSUME NEW c \in Clients, ClientStep(c)
        PROVE  Promise!Next \/ UNCHANGED <<sent, Answered>>
    BY <2>1, <2>3, EchoClientStep DEF ClientStep
  <2>4. ASSUME ParentStep \/ ForkFails \/ UNCHANGED vars  PROVE UNCHANGED clientVars
    BY <2>4 DEF ParentStep, Accept, AcceptInterrupted, Fork, HandlerBegins, HandlerEnds,
                HandlerExits, ForkFails, ParentEnds, vars
  <2>5. ASSUME NEW c \in Clients, ChildStep(c)  PROVE UNCHANGED clientVars
    BY <2>5 DEF ChildStep, ReadData, ReadFails, ChildEnds, Dies
  <2>. QED  BY <2>2, <2>3, <2>4, <2>5 DEF Next
<1>. QED  BY <1>1, <1>2, IInvHolds, PTL DEF Spec, ImplementsEcho, Promise!Spec, Answered
=============================================================================
