--------------------------- MODULE SelectEchoProofs ---------------------------
(***************************************************************************)
(* Proofs about SelectEcho, for any number of clients, pieces and          *)
(* descriptors and any size of the table.                                  *)
(***************************************************************************)
EXTENDS SelectEcho, EchoClientsProofs

\* Descriptors, and the bits of the table's cells.
LEMMA FdFacts ==
  /\ -1 \notin Fds /\ listenSock \notin Fds
  /\ \A fd \in Fds \union {-1} : Bit(fd) \in Fds
  /\ \A fd \in Fds : Bit(fd) = fd
<1>1. -1 \notin Fds /\ listenSock \notin Fds
  BY DEF Fds, listenSock
<1>2. \A fd \in Fds : fd # -1
  BY <1>1
<1>. QED  BY <1>1, <1>2, SelectEchoAssumption DEF Bit

\* A cell that is appended.
LEMMA Appended ==
  ASSUME NEW S, NEW s \in Seq(S), NEW x \in S
  PROVE  /\ Append(s, x) \in Seq(S) /\ Len(s) \in Nat /\ Len(Append(s, x)) = Len(s) + 1
         /\ \A k \in 1 .. Len(s) : Append(s, x)[k] = s[k]
         /\ Append(s, x)[Len(s) + 1] = x
BY AppendProperties, LenProperties

\* A cell whose place the last one takes.
LEMMA Removed ==
  ASSUME NEW S, NEW s \in Seq(S), NEW j \in 1 .. Len(s), NEW t,
         t = [k \in 1 .. Len(s) - 1 |-> IF k = j THEN s[Len(s)] ELSE s[k]]
  PROVE  /\ t \in Seq(S) /\ Len(s) \in Nat /\ Len(t) = Len(s) - 1
         /\ \A k \in 1 .. Len(s) - 1 : t[k] = IF k = j THEN s[Len(s)] ELSE s[k]
<1>1. Len(s) \in Nat \ {0} /\ \A k \in 1 .. Len(s) : s[k] \in S
  BY LenProperties, ElementOfSeq
<1>2. \A k \in 1 .. Len(s) - 1 : k \in 1 .. Len(s) /\ Len(s) \in 1 .. Len(s) /\ Len(s) - 1 \in Nat
  BY <1>1
<1>3. Len(s) - 1 \in Nat
  BY <1>1
<1>4. t \in Seq(S) /\ Len(t) = Len(s) - 1
  BY <1>1, <1>2, <1>3, IsASeq
<1>. QED  BY <1>1, <1>4

-----------------------------------------------------------------------------
(* Types.                                                                  *)

\* What select() leaves in the set.
LEMMA ReadyFds ==
  ASSUME TypeOK
  PROVE  /\ \A k \in 1 .. numClient : clientSock[k] \in Fds \union {-1}
         /\ Watched \subseteq Fds /\ Ready \subseteq Fds \union {listenSock}
<1>1. \A k \in 1 .. numClient : clientSock[k] \in Fds \union {-1}
  BY ElementOfSeq DEF TypeOK, numClient
<1>2. Watched \subseteq Fds
  BY <1>1, FdFacts DEF Watched, TableFds
<1>. QED  BY <1>1, <1>2 DEF Ready

\* A cell that is read holds a descriptor.
LEMMA InReadFd ==
  ASSUME TypeOK, InRead
  PROVE  i \in 1 .. numClient /\ clientSock[i] \in Fds /\ numClient \in Nat
<1>1. numClient \in Nat
  BY LenProperties DEF numClient, TypeOK
<1>2. i \in 1 .. numClient
  BY <1>1 DEF InRead, InLoop, TypeOK
<1>. QED  BY <1>1, <1>2, ReadyFds DEF InRead

\* It is open.
LEMMA Current ==
  ASSUME TypeOK, TableIsExact, InRead
  PROVE  current \in Clients
<1>1. clientSock[i] \in TableFds \ {-1}
  BY InReadFd, FdFacts DEF TableFds
<1>2. clientSock[i] \in Fds /\ owner[clientSock[i]] # NoClient
  BY <1>1, InReadFd DEF TableIsExact, FreeFds
<1>. QED  BY <1>2 DEF current, TypeOK

\* The end of the process keeps every type.
LEMMA TypeDie ==
  ASSUME TypeOK, Die
  PROVE  TypeOK'
<1>1. backlog' \in Seq(Clients)
  BY EmptySeq DEF Die
<1>2. link' \in [Clients -> {"none", "open", "fin", "err", "rst", "closed"}]
  BY DEF Die, Closed, TypeOK, TypeClients
<1>. QED  BY <1>1, <1>2 DEF Die, TypeOK, TypeClients, streamVars, clientVars

\* Every step keeps every type.
LEMMA TypeStep ==
  ASSUME TypeOK, TableIsExact, up /\ pc = "accept" => backlog # <<>>, [Next]_vars
  PROVE  TypeOK'
<1>. USE DEF serverVars, clientVars, streamVars
<1>1. CASE UNCHANGED vars
  BY <1>1 DEF vars, TypeOK, TypeClients
<1>2. CASE Select
  BY <1>2, ReadyFds DEF Select, TypeOK, TypeClients
<1>3. CASE SelectFails \/ AcceptOverflows \/ ReadDataKills
  BY <1>3, TypeDie DEF SelectFails, AcceptOverflows, ReadDataKills
<1>4. CASE Accept
  <2>1. PICK f \in FreeFds : /\ owner' = [owner EXCEPT ![f] = Head(backlog)]
                             /\ clientSock' = Append(clientSock, f)
    BY <1>4 DEF Accept
  <2>2. Head(backlog) \in Clients /\ Tail(backlog) \in Seq(Clients)
    BY <1>4, HeadTailProperties DEF Accept, TypeOK, TypeClients
  <2>3. f \in Fds
    BY <2>1 DEF FreeFds
  <2>4. clientSock' \in Seq(Fds \union {-1})
    BY <2>1, <2>3, Appended DEF TypeOK
  <2>5. owner' \in [Fds -> Clients \union {NoClient}]
    BY <2>1, <2>2 DEF TypeOK
  <2>. QED  BY <1>4, <2>2, <2>4, <2>5 DEF Accept, TypeOK, TypeClients
<1>5. CASE AcceptFails
  <2>1. Head(backlog) \in Clients /\ Tail(backlog) \in Seq(Clients)
    BY <1>5, HeadTailProperties DEF AcceptFails, TypeOK, TypeClients
  <2>2. clientSock' \in Seq(Fds \union {-1})
    BY <1>5, Appended DEF AcceptFails, TypeOK
  <2>3. <<>> \in Seq(Pieces)
    BY EmptySeq
  <2>4. toServer' \in [Clients -> Seq(Pieces)] /\ backlog' \in Seq(Clients)
    <3>1. /\ toServer' = toServer \/ toServer' = [toServer EXCEPT ![Head(backlog)] = <<>>]
          /\ backlog' = backlog \/ backlog' = Tail(backlog)
      BY <1>5 DEF AcceptFails
    <3>2. toServer \in [Clients -> Seq(Pieces)] /\ backlog \in Seq(Clients)
      BY DEF TypeOK, TypeClients
    <3>. QED  BY <2>1, <2>3, <3>1, <3>2
  <2>5. link' \in [Clients -> {"none", "open", "fin", "err", "rst", "closed"}]
    <3>1. link' = link \/ link' = Closed({Head(backlog)})
      BY <1>5 DEF AcceptFails
    <3>2. link \in [Clients -> {"none", "open", "fin", "err", "rst", "closed"}]
      BY DEF TypeOK, TypeClients
    <3>. QED  BY <3>1, <3>2 DEF Closed
  <2>6. pc' = "loop" /\ UNCHANGED <<up, i, read_fds, owner, len, toClient, clientVars>>
    BY <1>5 DEF AcceptFails
  <2>. QED  BY <2>2, <2>4, <2>5, <2>6 DEF TypeOK, TypeClients
<1>6. CASE Pass \/ LoopEnds
  <2>1. i' \in Nat \ {0} /\ pc' \in {"select", "accept", "loop"}
    BY <1>6 DEF Pass, LoopEnds, TypeOK
  <2>2. UNCHANGED <<up, clientSock, read_fds, owner, len, backlog, streamVars, link, clientVars>>
    BY <1>6 DEF Pass, LoopEnds
  <2>. QED  BY <2>1, <2>2 DEF TypeOK, TypeClients
<1>7. CASE ReadData
  <2>1. TypeClients'
    BY <1>7, Current, TypeEchoes DEF ReadData, TypeOK
  <2>. QED  BY <1>7, <2>1 DEF ReadData, TypeOK
<1>8. CASE ReadFails
  <2>1. link' \in [Clients -> {"none", "open", "fin", "err", "rst", "closed"}]
    BY <1>8 DEF ReadFails, TypeOK, TypeClients
  <2>2. i' \in Nat \ {0}
    BY <1>8 DEF ReadFails, TypeOK
  <2>. QED  BY <1>8, <2>1, <2>2 DEF ReadFails, TypeOK, TypeClients
<1>9. CASE ReadEnd
  <2>1. clientSock' \in Seq(Fds \union {-1})
    <3>1. i \in 1 .. Len(clientSock)
      BY <1>9, InReadFd DEF ReadEnd, numClient
    <3>2. clientSock \in Seq(Fds \union {-1})
      BY DEF TypeOK
    <3>3. clientSock' = [k \in 1 .. Len(clientSock) - 1 |->
                           IF k = i THEN clientSock[Len(clientSock)] ELSE clientSock[k]]
      BY <1>9 DEF ReadEnd, Remove, numClient
    <3>. QED  BY <3>1, <3>2, <3>3, Removed
  <2>2. link' \in [Clients -> {"none", "open", "fin", "err", "rst", "closed"}]
    BY <1>9 DEF ReadEnd, Closed, TypeOK, TypeClients
  <2>3. owner' \in [Fds -> Clients \union {NoClient}]
    BY <1>9 DEF ReadEnd, TypeOK
  <2>4. i' \in Nat \ {0}
    <3>1. i' = i + 1 /\ i \in Nat \ {0}
      BY <1>9 DEF ReadEnd, TypeOK
    <3>. QED  BY <3>1
  <2>. QED  BY <1>9, <2>1, <2>2, <2>3, <2>4 DEF ReadEnd, TypeOK, TypeClients
<1>10. ASSUME NEW c \in Clients, ClientStep(c), UNCHANGED serverVars  PROVE TypeOK'
  <2>1. TypeClients'
    BY <1>10, TypeClientStep DEF ClientStep, TypeOK
  <2>. QED  BY <1>10, <2>1 DEF TypeOK
<1>. QED
  BY <1>1, <1>2, <1>3, <1>4, <1>5, <1>6, <1>7, <1>8, <1>9, <1>10 DEF Next, ServerStep

-----------------------------------------------------------------------------
(* The order of the pieces.                                                *)

\* Every step keeps it.
LEMMA InOrderStep ==
  ASSUME TypeOK, InOrder, TableIsExact, OwnedOnce, up /\ pc = "accept" => backlog # <<>>,
         [Next]_vars
  PROVE  InOrder'
<1>. USE DEF serverVars
<1>1. CASE UNCHANGED vars
  BY <1>1, InOrderLinks DEF vars
<1>2. CASE Select \/ Accept \/ Pass \/ LoopEnds
  BY <1>2, InOrderLinks DEF Select, Accept, Pass, LoopEnds
<1>3. CASE SelectFails \/ AcceptOverflows \/ ReadDataKills
  <2>1. Die
    BY <1>3 DEF SelectFails, AcceptOverflows, ReadDataKills
  <2>2. \A c \in Clients : /\ link'[c] = "open" => link[c] = "open"
                           /\ link'[c] = "none" <=> link[c] = "none"
    BY <2>1 DEF Die, Closed
  <2>. QED  BY <2>1, <2>2, InOrderLinks DEF Die
<1>4. CASE AcceptFails
  <2>1. CASE FreeFds = {}
    BY <1>4, <2>1, InOrderLinks DEF AcceptFails, streamVars
  <2>2. CASE FreeFds # {}
    <3>. DEFINE h == Head(backlog)
    <3>1. /\ h = backlog[1] /\ h \in Clients /\ 1 \in 1 .. Len(backlog)
      BY <1>4, HeadTailProperties, LenProperties, EmptySeq DEF AcceptFails, TypeOK, TypeClients
    <3>2. link[h] # "none"
      BY <3>1 DEF OwnedOnce
    <3>3. /\ link'[h] = "closed" /\ \A c \in Clients : c # h => link'[c] = link[c]
          /\ toServer' = [toServer EXCEPT ![h] = <<>>]
          /\ UNCHANGED <<toClient, clientVars>>
      BY <1>4, <2>2, <3>1 DEF AcceptFails, Closed
    <3>4. SUFFICES ASSUME NEW c \in Clients  PROVE InOrderOf(c)'
      BY DEF InOrder
    <3>5. InOrderOf(c)
      BY DEF InOrder
    <3>6. CASE c = h
      BY <3>2, <3>3, <3>5, <3>6 DEF InOrderOf, clientVars, Follows
    <3>7. CASE c # h
      <4>1. toServer'[c] = toServer[c]
        BY <3>3, <3>7 DEF TypeOK, TypeClients
      <4>. QED  BY <3>3, <3>5, <3>7, <4>1, InOrderSame DEF clientVars
    <3>. QED  BY <3>6, <3>7
  <2>. QED  BY <2>1, <2>2
<1>5. CASE ReadData
  BY <1>5, Current, InOrderEchoes DEF ReadData, TypeOK
<1>6. CASE ReadFails
  <2>1. \A c \in Clients : /\ link'[c] = "open" => link[c] = "open"
                           /\ link'[c] = "none" <=> link[c] = "none"
    BY <1>6 DEF ReadFails, ReadsError, TypeOK, TypeClients
  <2>. QED  BY <1>6, <2>1, InOrderLinks DEF ReadFails
<1>7. CASE ReadEnd
  <2>1. \A c \in Clients : /\ link'[c] = "open" => link[c] = "open"
                           /\ link'[c] = "none" <=> link[c] = "none"
    BY <1>7 DEF ReadEnd, ReadsEnd, Closed
  <2>. QED  BY <1>7, <2>1, InOrderLinks DEF ReadEnd
<1>8. ASSUME NEW c \in Clients, ClientStep(c)  PROVE InOrder'
  BY <1>8, InOrderClientStep DEF ClientStep, TypeOK
<1>. QED  BY <1>1, <1>2, <1>3, <1>4, <1>5, <1>6, <1>7, <1>8 DEF Next, ServerStep

-----------------------------------------------------------------------------
(* The table, its descriptors and what is ready.                           *)

\* The three together, which each step keeps or breaks together.
Served == TableIsExact /\ OwnedOnce /\ ReadyAhead

\* A step that leaves table, descriptors and backlog alone, and after which
\* what is ready is still so, but for the cell the loop leaves behind.
LEMMA ServedSame ==
  ASSUME TypeOK, Served, UNCHANGED <<up, pc, clientSock, read_fds, owner, backlog>>,
         \A c \in Clients : link[c] # "none" => link'[c] # "none",
         i' = i \/ (InLoop /\ i' = i + 1),
         \A c \in Clients : Readable(c) =>
           Readable(c)' \/ (InRead /\ i' = i + 1 /\ c = current)
  PROVE  Served'
<1>1. TableIsExact'
  BY DEF Served, TableIsExact, TableFds, FreeFds, numClient
<1>2. OwnedOnce'
  <2>1. \A k \in 1 .. Len(backlog) : backlog[k] \in Clients
    BY ElementOfSeq DEF TypeOK, TypeClients
  <2>2. \A f \in Fds : owner[f] # NoClient => owner[f] \in Clients
    BY DEF TypeOK
  <2>. QED  BY <2>1, <2>2 DEF Served, OwnedOnce
<1>3. ReadyAhead'
  <2>1. ASSUME up', pc' = "accept"
        PROVE  /\ i' = 1 /\ backlog' # <<>>
               /\ \A f \in read_fds' \ {listenSock} : owner'[f] # NoClient /\ Readable(owner[f])'
    <3>1. /\ i = 1 /\ backlog # <<>> /\ i' = i
          /\ \A f \in read_fds \ {listenSock} : owner[f] # NoClient /\ Readable(owner[f])
      BY <2>1 DEF Served, ReadyAhead, InLoop
    <3>2. ~ InRead
      BY <2>1 DEF InRead, InLoop
    <3>3. \A f \in read_fds \ {listenSock} : owner[f] # NoClient => owner[f] \in Clients
      BY DEF TypeOK
    <3>. QED  BY <3>1, <3>2, <3>3
  <2>2. ASSUME up', pc' = "loop", NEW k \in i' .. numClient',
               clientSock'[k] # -1, clientSock'[k] \in read_fds'
        PROVE  Readable(owner[clientSock[k]])'
    <3>. DEFINE f == clientSock[k]
    <3>1. numClient' = numClient /\ numClient \in Nat /\ i \in Nat \ {0}
      BY LenProperties DEF numClient, TypeOK
    <3>2. k \in i .. numClient /\ k \in 1 .. numClient /\ (i' = i + 1 => k # i)
      BY <3>1
    <3>3. Readable(owner[f])
      BY <2>2, <3>2 DEF Served, ReadyAhead
    <3>4. f \in Fds /\ owner[f] # NoClient
      <4>1. f \in TableFds \ {-1}
        BY <2>2, <3>2 DEF TableFds
      <4>. QED  BY <4>1 DEF Served, TableIsExact, FreeFds
    <3>5. owner[f] \in Clients
      BY <3>4 DEF TypeOK
    <3>6. ~ (InRead /\ i' = i + 1 /\ owner[f] = current)
      <4>1. SUFFICES ASSUME InRead, k # i, owner[f] = owner[clientSock[i]]  PROVE FALSE
        BY <3>2 DEF current
      <4>2. i \in 1 .. numClient /\ clientSock[i] \in Fds
        BY <4>1, InReadFd
      <4>3. f = clientSock[i]
        BY <3>4, <4>1, <4>2 DEF Served, OwnedOnce
      <4>. QED  BY <2>2, <3>2, <4>1, <4>2, <4>3 DEF Served, TableIsExact
    <3>. QED  BY <3>3, <3>5, <3>6
  <2>. QED  BY <2>1, <2>2 DEF ReadyAhead
<1>. QED  BY <1>1, <1>2, <1>3 DEF Served

\* The process ends.
LEMMA ServedDie ==
  ASSUME TypeOK, Served, Die
  PROVE  Served'
<1>1. TableIsExact'
  BY DEF Die, Served, TableIsExact, TableFds, FreeFds, numClient
<1>2. Len(backlog') = 0 /\ owner' = owner /\ ~ up'
  BY EmptySeq DEF Die
<1>3. \A c \in Clients : link[c] # "none" => link'[c] # "none"
  BY DEF Die, Closed
<1>4. \A f \in Fds : owner[f] # NoClient => owner[f] \in Clients
  BY DEF TypeOK
<1>5. OwnedOnce'
  BY <1>2, <1>3, <1>4 DEF Served, OwnedOnce
<1>. QED  BY <1>1, <1>2, <1>5 DEF Served, ReadyAhead

\* select() finds what is ready.
LEMMA ServedSelect ==
  ASSUME TypeOK, Served, Select
  PROVE  Served'
<1>1. /\ UNCHANGED <<clientSock, owner, backlog, link, toServer>>
      /\ read_fds' = Ready /\ i' = 1 /\ NoClient \notin {owner[f] : f \in Watched}
      /\ pc' = IF listenSock \in Ready THEN "accept" ELSE "loop"
  BY DEF Select, streamVars
<1>2. TableIsExact' /\ OwnedOnce'
  BY <1>1 DEF Served, TableIsExact, TableFds, FreeFds, numClient, OwnedOnce
<1>3. \A f \in Ready \ {listenSock} : f \in Watched /\ Readable(owner[f])
  BY DEF Ready
<1>4. \A f \in Ready \ {listenSock} : owner[f] # NoClient /\ Readable(owner[f])'
  BY <1>1, <1>3 DEF Readable
<1>5. listenSock \in Ready => backlog # <<>>
  BY ReadyFds, FdFacts DEF Ready
<1>6. \A k \in 1 .. numClient : clientSock[k] # -1 => clientSock[k] # listenSock
  BY ReadyFds, FdFacts
<1>7. numClient' = numClient
  BY <1>1 DEF numClient
<1>8. ReadyAhead'
  BY <1>1, <1>4, <1>5, <1>6, <1>7 DEF ReadyAhead
<1>. QED  BY <1>2, <1>8 DEF Served
\* The first of those that wait gets a free descriptor, at the table's end.
LEMMA ServedAccept ==
  ASSUME TypeOK, Served, Accept
  PROVE  Served'
<1>. DEFINE h == Head(backlog)
            n == Len(clientSock)
<1>1. PICK f \in FreeFds : owner' = [owner EXCEPT ![f] = h] /\ clientSock' = Append(clientSock, f)
  BY DEF Accept
<1>2. /\ f \in Fds /\ f # -1 /\ f # listenSock /\ owner[f] = NoClient
      /\ owner'[f] = h /\ \A g \in Fds : g # f => owner'[g] = owner[g]
  BY <1>1, FdFacts DEF FreeFds, TypeOK
<1>3. /\ up /\ pc = "accept" /\ pc' = "loop" /\ backlog' = Tail(backlog)
      /\ UNCHANGED <<link, toServer, read_fds, i>>
  BY DEF Accept, streamVars
<1>4. backlog # <<>> /\ backlog \in Seq(Clients)
  BY <1>3 DEF Served, ReadyAhead, TypeOK, TypeClients
<1>5. /\ h = backlog[1] /\ h \in Clients /\ Len(backlog) \in Nat \ {0}
      /\ Len(backlog') = Len(backlog) - 1
      /\ \A k \in 1 .. Len(backlog') : backlog'[k] = backlog[k + 1]
  BY <1>3, <1>4, HeadTailProperties, EmptySeq, LenProperties
<1>6. /\ \A k \in 1 .. Len(backlog') : k + 1 \in 1 .. Len(backlog) /\ k + 1 # 1
      /\ 1 \in 1 .. Len(backlog)
      /\ \A j, k \in 1 .. Len(backlog') : j + 1 = k + 1 => j = k
  BY <1>5
<1>7. h # NoClient /\ link[h] # "none" /\ \A g \in Fds : owner[g] # h
  BY <1>5, <1>6, SelectEchoAssumption DEF Served, OwnedOnce
<1>8. /\ n \in Nat /\ numClient = n /\ numClient' = n + 1
      /\ \A k \in 1 .. n : clientSock'[k] = clientSock[k]
      /\ clientSock'[n + 1] = f
  <2>1. clientSock \in Seq(Fds \union {-1}) /\ f \in Fds \union {-1}
    BY <1>2 DEF TypeOK
  <2>. QED  BY <1>1, <2>1, Appended DEF numClient
<1>9. /\ \A k \in 1 .. n + 1 : k \in 1 .. n \/ k = n + 1
      /\ 1 .. n \subseteq 1 .. n + 1 /\ n + 1 \in 1 .. n + 1
  BY <1>8
<1>10. f \notin TableFds
  BY <1>1, <1>2 DEF Served, TableIsExact
<1>11. TableFds' = TableFds \union {f}
  <2>1. TableFds' = {clientSock'[k] : k \in 1 .. n + 1}
    BY <1>8 DEF TableFds
  <2>2. TableFds = {clientSock[k] : k \in 1 .. n}
    BY <1>8 DEF TableFds
  <2>3. \A x \in TableFds' : x \in TableFds \union {f}
    BY <1>8, <1>9, <2>1, <2>2
  <2>4. \A x \in TableFds : x \in TableFds'
    BY <1>8, <1>9, <2>1, <2>2
  <2>5. f \in TableFds'
    BY <1>8, <1>9, <2>1
  <2>. QED  BY <2>3, <2>4, <2>5
<1>12. TableIsExact'
  <2>1. FreeFds' = FreeFds \ {f}
    BY <1>2, <1>7 DEF FreeFds
  <2>2. TableFds' \ {-1} = Fds \ FreeFds'
    BY <1>1, <1>2, <1>11, <2>1 DEF Served, TableIsExact
  <2>3. \A k \in 1 .. n : clientSock[k] # f
    BY <1>8, <1>10 DEF TableFds
  <2>4. \A j, k \in 1 .. n : clientSock[j] = clientSock[k] /\ clientSock[j] # -1 => j = k
    BY <1>8 DEF Served, TableIsExact
  <2>5. \A j, k \in 1 .. n + 1 :
          clientSock'[j] = clientSock'[k] /\ clientSock'[j] # -1 => j = k
    BY <1>8, <1>9, <2>3, <2>4
  <2>. QED  BY <1>8, <2>2, <2>5 DEF TableIsExact
<1>13. OwnedOnce'
  <2>1. \A g, e \in Fds : owner'[g] = owner'[e] /\ owner'[g] # NoClient => g = e
    BY <1>2, <1>7 DEF Served, OwnedOnce
  <2>2. \A g \in Fds : owner'[g] # NoClient => link'[owner'[g]] # "none"
    BY <1>2, <1>3, <1>7 DEF Served, OwnedOnce
  <2>3. \A j, k \in 1 .. Len(backlog') : backlog'[j] = backlog'[k] => j = k
    BY <1>5, <1>6 DEF Served, OwnedOnce
  <2>4. \A k \in 1 .. Len(backlog') : backlog'[k] # h
    BY <1>5, <1>6 DEF Served, OwnedOnce
  <2>5. \A k \in 1 .. Len(backlog') :
          link'[backlog'[k]] # "none" /\ \A g \in Fds : owner'[g] # backlog'[k]
    BY <1>2, <1>3, <1>5, <1>6, <2>4 DEF Served, OwnedOnce
  <2>. QED  BY <2>1, <2>2, <2>3, <2>5 DEF OwnedOnce
<1>14. ReadyAhead'
  <2>1. SUFFICES ASSUME NEW k \in 1 .. n + 1, clientSock'[k] # -1, clientSock'[k] \in read_fds
                 PROVE  Readable(owner[clientSock[k]])'
    <3>1. i' = 1 /\ pc' # "accept"
      BY <1>3 DEF Served, ReadyAhead
    <3>. QED  BY <1>3, <1>8, <3>1 DEF ReadyAhead
  <2>2. \A g \in read_fds \ {listenSock} : owner[g] # NoClient /\ Readable(owner[g])
    BY <1>3 DEF Served, ReadyAhead
  <2>3. k \in 1 .. n /\ clientSock'[k] = clientSock[k]
    BY <1>2, <1>8, <1>9, <2>1, <2>2
  <2>4. clientSock[k] \in Fds /\ clientSock[k] # f
    BY <1>2, <1>8, <2>1, <2>2, <2>3, ReadyFds
  <2>5. Readable(owner[clientSock[k]])
    BY <2>1, <2>2, <2>3, <2>4, FdFacts
  <2>. QED  BY <1>2, <1>3, <2>3, <2>4, <2>5 DEF Readable
<1>. QED  BY <1>12, <1>13, <1>14 DEF Served

\* accept() fails: -1 is at the table's end, and a connection may be dropped.
LEMMA ServedAcceptFails ==
  ASSUME TypeOK, Served, AcceptFails
  PROVE  Served'
<1>. DEFINE h == Head(backlog)
            n == Len(clientSock)
<1>1. /\ up /\ pc = "accept" /\ pc' = "loop" /\ clientSock' = Append(clientSock, -1)
      /\ UNCHANGED <<owner, read_fds, i>>
  BY DEF AcceptFails
<1>2. backlog # <<>> /\ backlog \in Seq(Clients) /\ i = 1
  BY <1>1 DEF Served, ReadyAhead, TypeOK, TypeClients
<1>3. /\ h = backlog[1] /\ h \in Clients /\ Len(backlog) \in Nat \ {0}
      /\ Len(Tail(backlog)) = Len(backlog) - 1
      /\ \A k \in 1 .. Len(Tail(backlog)) : Tail(backlog)[k] = backlog[k + 1]
  BY <1>2, HeadTailProperties, EmptySeq, LenProperties
<1>4. 1 \in 1 .. Len(backlog)
  BY <1>3
<1>5. \A f \in Fds : owner[f] # h
  BY <1>3, <1>4 DEF Served, OwnedOnce
<1>6. /\ n \in Nat /\ numClient = n /\ numClient' = n + 1
      /\ \A k \in 1 .. n : clientSock'[k] = clientSock[k]
      /\ clientSock'[n + 1] = -1
  <2>1. clientSock \in Seq(Fds \union {-1}) /\ -1 \in Fds \union {-1}
    BY DEF TypeOK
  <2>. QED  BY <1>1, <2>1, Appended DEF numClient
<1>7. /\ \A k \in 1 .. n + 1 : k \in 1 .. n \/ k = n + 1
      /\ 1 .. n \subseteq 1 .. n + 1 /\ n + 1 \in 1 .. n + 1
  BY <1>6
<1>8. TableFds' \ {-1} = TableFds \ {-1}
  <2>1. TableFds' = {clientSock'[k] : k \in 1 .. n + 1} /\ TableFds = {clientSock[k] : k \in 1 .. n}
    BY <1>6 DEF TableFds
  <2>2. \A x \in TableFds' : x \in TableFds \/ x = -1
    BY <1>6, <1>7, <2>1
  <2>3. \A x \in TableFds : x \in TableFds'
    BY <1>6, <1>7, <2>1
  <2>. QED  BY <2>2, <2>3
<1>9. TableIsExact'
  <2>1. FreeFds' = FreeFds
    BY <1>1 DEF FreeFds
  <2>2. \A j, k \in 1 .. n : clientSock[j] = clientSock[k] /\ clientSock[j] # -1 => j = k
    BY <1>6 DEF Served, TableIsExact
  <2>3. \A j, k \in 1 .. n + 1 : clientSock'[j] = clientSock'[k] /\ clientSock'[j] # -1 => j = k
    BY <1>6, <1>7, <2>2
  <2>. QED  BY <1>6, <1>8, <2>1, <2>3 DEF Served, TableIsExact
<1>10. /\ \A c \in Clients : link[c] # "none" => link'[c] # "none"
       /\ \A f \in Fds : owner[f] # NoClient /\ Readable(owner[f]) => Readable(owner[f])'
  <2>1. CASE FreeFds = {}
    BY <1>1, <2>1 DEF AcceptFails, Readable
  <2>2. CASE FreeFds # {}
    <3>1. link' = Closed({h}) /\ toServer' = [toServer EXCEPT ![h] = <<>>]
      BY <2>2 DEF AcceptFails
    <3>2. \A c \in Clients : c # h => link'[c] = link[c] /\ toServer'[c] = toServer[c]
      BY <1>3, <3>1 DEF Closed, TypeOK, TypeClients
    <3>3. \A c \in Clients : link[c] # "none" => link'[c] # "none"
      BY <3>1 DEF Closed
    <3>4. \A f \in Fds : owner[f] # NoClient => owner[f] \in Clients /\ owner[f] # h
      BY <1>5 DEF TypeOK
    <3>. QED  BY <1>1, <3>2, <3>3, <3>4 DEF Readable
  <2>. QED  BY <2>1, <2>2
<1>11. OwnedOnce'
  <2>1. \A f \in Fds : owner[f] # NoClient => owner[f] \in Clients
    BY DEF TypeOK
  <2>2. CASE backlog' = backlog
    <3>1. \A k \in 1 .. Len(backlog) : backlog[k] \in Clients
      BY <1>2, ElementOfSeq
    <3>. QED  BY <1>1, <1>10, <2>1, <2>2, <3>1 DEF Served, OwnedOnce
  <2>3. CASE backlog' = Tail(backlog) /\ link' = Closed({h})
    <3>1. /\ \A k \in 1 .. Len(backlog') : k + 1 \in 1 .. Len(backlog) /\ backlog'[k] = backlog[k + 1]
          /\ \A j, k \in 1 .. Len(backlog') : j + 1 = k + 1 => j = k
      BY <1>3, <2>3
    <3>2. \A k \in 1 .. Len(backlog) : backlog[k] \in Clients
      BY <1>2, ElementOfSeq
    <3>3. \A j, k \in 1 .. Len(backlog') : backlog'[j] = backlog'[k] => j = k
      BY <3>1 DEF Served, OwnedOnce
    <3>4. \A k \in 1 .. Len(backlog') :
            link'[backlog'[k]] # "none" /\ \A f \in Fds : owner[f] # backlog'[k]
      BY <1>10, <3>1, <3>2 DEF Served, OwnedOnce
    <3>5. /\ \A f, g \in Fds : owner[f] = owner[g] /\ owner[f] # NoClient => f = g
          /\ \A f \in Fds : owner[f] # NoClient => link'[owner[f]] # "none"
      BY <1>10, <2>1 DEF Served, OwnedOnce
    <3>. QED  BY <1>1, <3>3, <3>4, <3>5 DEF OwnedOnce
  <2>. QED  BY <2>2, <2>3 DEF AcceptFails
<1>12. ReadyAhead'
  <2>1. SUFFICES ASSUME NEW k \in 1 .. n + 1, clientSock'[k] # -1, clientSock'[k] \in read_fds
                 PROVE  Readable(owner[clientSock[k]])'
    BY <1>1, <1>2, <1>6 DEF ReadyAhead
  <2>2. \A g \in read_fds \ {listenSock} : owner[g] # NoClient /\ Readable(owner[g])
    BY <1>1 DEF Served, ReadyAhead
  <2>3. k \in 1 .. n /\ clientSock'[k] = clientSock[k]
    BY <1>6, <1>7, <2>1
  <2>4. clientSock[k] \in Fds /\ clientSock[k] # listenSock
    BY <1>6, <2>1, <2>3, ReadyFds, FdFacts
  <2>5. Readable(owner[clientSock[k]])'
    BY <1>10, <2>1, <2>2, <2>3, <2>4
  <2>. QED  BY <1>1, <2>3, <2>5 DEF Readable
<1>. QED  BY <1>9, <1>11, <1>12 DEF Served

\* A connection has ended: its descriptor is free, and the last cell has taken
\* the place of its cell.
LEMMA ServedReadEnd ==
  ASSUME TypeOK, Served, ReadEnd
  PROVE  Served'
<1>. DEFINE n == Len(clientSock)
            fd == clientSock[i]
            from(k) == IF k = i THEN n ELSE k
<1>1. /\ up /\ pc = "loop" /\ InRead /\ UNCHANGED <<up, pc, read_fds, backlog, toServer>>
      /\ i' = i + 1 /\ link' = Closed({current})
      /\ owner' = [owner EXCEPT ![fd] = NoClient]
  BY DEF ReadEnd, InRead, InLoop, streamVars
<1>2. i \in 1 .. n /\ fd \in Fds /\ fd # -1 /\ n \in Nat \ {0} /\ numClient = n
  BY <1>1, InReadFd, FdFacts DEF numClient
<1>3. current \in Clients /\ current = owner[fd] /\ current # NoClient
  BY <1>1, Current, SelectEchoAssumption DEF Served, current
<1>4. owner'[fd] = NoClient /\ \A f \in Fds : f # fd => owner'[f] = owner[f]
  BY <1>1, <1>2 DEF TypeOK
<1>5. /\ \A c \in Clients : link[c] # "none" => link'[c] # "none"
      /\ \A c \in Clients : c # current => link'[c] = link[c]
  BY <1>1 DEF Closed
<1>6. numClient' = n - 1 /\ \A k \in 1 .. n - 1 : clientSock'[k] = clientSock[from(k)]
  <2>1. clientSock \in Seq(Fds \union {-1})
    BY DEF TypeOK
  <2>2. clientSock' = [k \in 1 .. Len(clientSock) - 1 |->
                         IF k = i THEN clientSock[Len(clientSock)] ELSE clientSock[k]]
    BY DEF ReadEnd, Remove, numClient
  <2>3. /\ Len(clientSock') = n - 1
        /\ \A k \in 1 .. n - 1 : clientSock'[k] = IF k = i THEN clientSock[n] ELSE clientSock[k]
    BY <1>2, <2>1, <2>2, Removed
  <2>. QED  BY <2>3 DEF numClient
<1>7. /\ \A k \in 1 .. n - 1 : from(k) \in 1 .. n /\ from(k) # i
      /\ \A j, k \in 1 .. n - 1 : from(j) = from(k) => j = k
      /\ \A j \in 1 .. n : j # i => \E k \in 1 .. n - 1 : from(k) = j
  <2>1. \A k \in 1 .. n - 1 : from(k) \in 1 .. n /\ from(k) # i
    BY <1>2
  <2>2. \A j, k \in 1 .. n - 1 : from(j) = from(k) => j = k
    BY <1>2
  <2>3. ASSUME NEW j \in 1 .. n, j # i  PROVE \E k \in 1 .. n - 1 : from(k) = j
    <3>1. CASE j = n
      <4>1. i \in 1 .. n - 1 /\ from(i) = j
        BY <1>2, <2>3, <3>1
      <4>. QED  BY <4>1
    <3>2. CASE j # n
      <4>1. j \in 1 .. n - 1 /\ from(j) = j
        BY <1>2, <2>3, <3>2
      <4>. QED  BY <4>1
    <3>. QED  BY <3>1, <3>2
  <2>. QED  BY <2>1, <2>2, <2>3
<1>8. \A j, k \in 1 .. n : clientSock[j] = clientSock[k] /\ clientSock[j] # -1 => j = k
  BY <1>2 DEF Served, TableIsExact
<1>9. TableIsExact'
  <2>. HIDE DEF n, fd, from
  <2>1. TableFds' = {clientSock'[k] : k \in 1 .. n - 1} /\ TableFds = {clientSock[k] : k \in 1 .. n}
    BY <1>2, <1>6 DEF TableFds
  <2>2. \A x \in TableFds' : x \in TableFds /\ x # fd
    <3>1. SUFFICES ASSUME NEW k \in 1 .. n - 1
                   PROVE  clientSock[from(k)] \in TableFds /\ clientSock[from(k)] # fd
      BY <1>6, <2>1
    <3>2. from(k) \in 1 .. n /\ from(k) # i
      BY <1>7
    <3>. QED  BY <1>2, <1>8, <2>1, <3>2 DEF fd
  <2>3. \A x \in TableFds : x # fd => x \in TableFds'
    <3>1. SUFFICES ASSUME NEW j \in 1 .. n, clientSock[j] # fd  PROVE clientSock[j] \in TableFds'
      BY <2>1
    <3>2. j # i
      BY <3>1 DEF fd
    <3>3. PICK k \in 1 .. n - 1 : from(k) = j
      BY <1>7, <3>2
    <3>. QED  BY <1>6, <2>1, <3>3
  <2>4. FreeFds' = FreeFds \union {fd}
    BY <1>2, <1>4 DEF FreeFds
  <2>5. TableFds' \ {-1} = Fds \ FreeFds'
    BY <1>2, <2>2, <2>3, <2>4 DEF Served, TableIsExact
  <2>6. \A j, k \in 1 .. n - 1 : clientSock'[j] = clientSock'[k] /\ clientSock'[j] # -1 => j = k
    BY <1>6, <1>7, <1>8
  <2>. QED  BY <1>6, <2>5, <2>6 DEF TableIsExact
<1>10. OwnedOnce'
  <2>1. \A f \in Fds : owner[f] # NoClient => owner[f] \in Clients
    BY DEF TypeOK
  <2>2. \A k \in 1 .. Len(backlog) : backlog[k] \in Clients /\ backlog[k] # NoClient
    BY ElementOfSeq, SelectEchoAssumption DEF TypeOK, TypeClients
  <2>3. \A f, g \in Fds : owner'[f] = owner'[g] /\ owner'[f] # NoClient => f = g
    <3>1. \A f \in Fds : owner'[f] # NoClient => owner'[f] = owner[f]
      BY <1>4
    <3>. QED  BY <3>1 DEF Served, OwnedOnce
  <2>4. \A f \in Fds : owner'[f] # NoClient => link'[owner'[f]] # "none"
    BY <1>4, <1>5, <2>1 DEF Served, OwnedOnce
  <2>5. \A k \in 1 .. Len(backlog) :
          link'[backlog[k]] # "none" /\ \A f \in Fds : owner'[f] # backlog[k]
    BY <1>4, <1>5, <2>2 DEF Served, OwnedOnce
  <2>. QED  BY <1>1, <2>3, <2>4, <2>5 DEF Served, OwnedOnce
<1>11. ReadyAhead'
  <2>1. SUFFICES ASSUME NEW k \in i + 1 .. n - 1, clientSock'[k] # -1, clientSock'[k] \in read_fds
                 PROVE  Readable(owner[clientSock[k]])'
    BY <1>1, <1>6 DEF ReadyAhead
  <2>2. k \in 1 .. n - 1 /\ k # i /\ k \in i .. n /\ k \in 1 .. n
    BY <1>2
  <2>3. clientSock'[k] = clientSock[k]
    BY <1>6, <2>2
  <2>4. clientSock[k] # fd /\ clientSock[k] \in Fds
    BY <1>2, <1>8, <2>1, <2>2, <2>3, ReadyFds
  <2>5. Readable(owner[clientSock[k]])
    BY <1>1, <1>2, <2>1, <2>2, <2>3 DEF Served, ReadyAhead
  <2>6. owner[clientSock[k]] # NoClient
    <3>1. clientSock[k] \in TableFds \ {-1}
      BY <1>2, <2>1, <2>2, <2>3 DEF TableFds
    <3>. QED  BY <3>1 DEF Served, TableIsExact, FreeFds
  <2>7. owner[clientSock[k]] \in Clients /\ owner[clientSock[k]] # current
    BY <1>2, <1>3, <2>4, <2>6 DEF TypeOK, Served, OwnedOnce
  <2>8. owner'[clientSock'[k]] = owner[clientSock[k]] /\ link'[owner[clientSock[k]]] = link[owner[clientSock[k]]]
    BY <1>4, <1>5, <2>3, <2>4, <2>7
  <2>. QED  BY <1>1, <2>5, <2>8 DEF Readable
<1>. QED  BY <1>9, <1>10, <1>11 DEF Served

\* The loop has come to the table's end.
LEMMA ServedLoopEnds ==
  ASSUME TypeOK, Served, LoopEnds
  PROVE  Served'
<1>1. UNCHANGED <<clientSock, owner, backlog, link>> /\ pc' = "select"
  BY DEF LoopEnds
<1>. QED
  BY <1>1 DEF Served, TableIsExact, TableFds, FreeFds, numClient, OwnedOnce, ReadyAhead

\* A client that connects is the last of those that wait.
LEMMA ServedConnect ==
  ASSUME TypeOK, InOrder, Served, NEW c \in Clients, up, Connect(c), UNCHANGED serverVars
  PROVE  Served'
<1>. USE DEF serverVars
<1>1. /\ link[c] = "none" /\ toServer[c] = <<>> /\ toServer' = toServer
      /\ backlog' = Append(backlog, c) /\ backlog \in Seq(Clients)
  BY DEF Connect, InOrder, InOrderOf, TypeOK, TypeClients, streamVars
<1>2. link'[c] = "open" /\ \A d \in Clients : d # c => link'[d] = link[d]
  BY DEF Connect, TypeOK, TypeClients
<1>3. /\ Len(backlog) \in Nat /\ Len(backlog') = Len(backlog) + 1
      /\ \A k \in 1 .. Len(backlog) : backlog'[k] = backlog[k]
      /\ backlog'[Len(backlog) + 1] = c
  BY <1>1, Appended
<1>4. \A k \in 1 .. Len(backlog') : k \in 1 .. Len(backlog) \/ k = Len(backlog) + 1
  BY <1>3
<1>5. \A f \in Fds : owner[f] # c
  BY <1>1, SelectEchoAssumption DEF Served, OwnedOnce
<1>6. \A k \in 1 .. Len(backlog) : backlog[k] # c /\ backlog[k] \in Clients
  BY <1>1, ElementOfSeq DEF Served, OwnedOnce
<1>7. \A f \in Fds : owner[f] # NoClient => owner[f] \in Clients /\ owner[f] # c
  BY <1>5 DEF TypeOK
<1>8. TableIsExact'
  BY DEF Served, TableIsExact, TableFds, FreeFds, numClient
<1>9. OwnedOnce'
  <2>1. \A j, k \in 1 .. Len(backlog') : backlog'[j] = backlog'[k] => j = k
    BY <1>3, <1>4, <1>6 DEF Served, OwnedOnce
  <2>2. \A k \in 1 .. Len(backlog') :
          link'[backlog'[k]] # "none" /\ \A f \in Fds : owner[f] # backlog'[k]
    BY <1>2, <1>3, <1>4, <1>5, <1>6 DEF Served, OwnedOnce
  <2>3. \A f \in Fds : owner[f] # NoClient => link'[owner[f]] # "none"
    BY <1>2, <1>7 DEF Served, OwnedOnce
  <2>. QED  BY <2>1, <2>2, <2>3 DEF Served, OwnedOnce
<1>10. \A d \in Clients : d # c /\ Readable(d) => Readable(d)'
  BY <1>1, <1>2 DEF Readable
<1>11. ReadyAhead'
  <2>1. backlog' # <<>>
    BY <1>3, EmptySeq
  <2>2. ASSUME up, pc = "accept"
        PROVE  \A f \in read_fds \ {listenSock} : owner[f] # NoClient /\ Readable(owner[f])'
    <3>1. \A f \in read_fds \ {listenSock} : f \in Fds /\ owner[f] # NoClient /\ Readable(owner[f])
      BY <2>2 DEF Served, ReadyAhead, TypeOK
    <3>. QED  BY <1>7, <1>10, <3>1
  <2>3. ASSUME up, pc = "loop", NEW k \in i .. numClient, clientSock[k] # -1, clientSock[k] \in read_fds
        PROVE  Readable(owner[clientSock[k]])'
    <3>1. k \in 1 .. numClient /\ Readable(owner[clientSock[k]])
      BY <2>3, LenProperties DEF Served, ReadyAhead, TypeOK, numClient
    <3>2. clientSock[k] \in Fds /\ clientSock[k] \in TableFds \ {-1}
      BY <2>3, <3>1, ReadyFds DEF TableFds
    <3>3. owner[clientSock[k]] # NoClient
      BY <3>2 DEF Served, TableIsExact, FreeFds
    <3>. QED  BY <1>7, <1>10, <3>1, <3>2, <3>3
  <2>. QED  BY <2>1, <2>2, <2>3 DEF Served, ReadyAhead, numClient
<1>. QED  BY <1>8, <1>9, <1>11 DEF Served

\* What a client does on its connection leaves what is readable readable.
LEMMA ReadableClientStep ==
  ASSUME TypeClients, NEW c \in Clients, Send(c) \/ Receive(c) \/ Leave(c)
  PROVE  /\ \A d \in Clients : Readable(d) => Readable(d)'
         /\ \A d \in Clients : link[d] # "none" => link'[d] # "none"
         /\ backlog' = backlog
<1>1. CASE Send(c)
  <2>1. link' = link /\ backlog' = backlog
    BY <1>1 DEF Send
  <2>2. PICK n \in 1 .. 2 :
          toServer' = [toServer EXCEPT ![c] =
            IF link[c] = "open" THEN @ \o [k \in 1 .. n |-> <<c, sent[c] + k>>] ELSE @]
    BY <1>1 DEF Send
  <2>. DEFINE line == [k \in 1 .. n |-> <<c, sent[c] + k>>]
  <2>3. sent[c] \in Nat /\ toServer[c] \in Seq(Pieces)
    BY DEF TypeClients
  <2>4. line \in Seq(Pieces) /\ Len(line) = n
    BY <2>3, LineType
  <2>5. toServer[c] \o line # <<>>
    <3>. HIDE DEF line
    <3>1. Len(toServer[c] \o line) = Len(toServer[c]) + n /\ Len(toServer[c]) \in Nat
      BY <2>3, <2>4, ConcatProperties, LenProperties
    <3>2. Len(toServer[c] \o line) # 0
      BY <3>1
    <3>. QED  BY <3>2, EmptySeq
  <2>6. toServer'[c] = toServer[c] \o line \/ toServer'[c] = toServer[c]
    BY <2>2 DEF TypeClients
  <2>7. \A d \in Clients : d # c => toServer'[d] = toServer[d]
    BY <2>2 DEF TypeClients
  <2>. QED  BY <2>1, <2>5, <2>6, <2>7 DEF Readable
<1>2. CASE Receive(c)
  BY <1>2 DEF Receive, Readable
<1>3. CASE Leave(c)
  BY <1>3 DEF Leave, Readable, TypeClients
<1>. QED  BY <1>1, <1>2, <1>3

\* Every step keeps the three.
LEMMA ServedStep ==
  ASSUME TypeOK, InOrder, Served, [Next]_vars
  PROVE  Served'
<1>. USE DEF serverVars
<1>1. CASE UNCHANGED vars
  <2>1. UNCHANGED <<up, pc, clientSock, read_fds, i, owner, backlog, link, toServer>>
    BY <1>1 DEF vars, streamVars
  <2>2. \A c \in Clients : Readable(c) =>
          Readable(c)' \/ (InRead /\ i' = i + 1 /\ c = current)
    BY <2>1 DEF Readable
  <2>. QED  BY <2>1, <2>2, ServedSame
<1>2. CASE Select \/ Accept \/ AcceptFails \/ ReadEnd \/ LoopEnds
  BY <1>2, ServedSelect, ServedAccept, ServedAcceptFails, ServedReadEnd, ServedLoopEnds
<1>3. CASE SelectFails \/ AcceptOverflows \/ ReadDataKills
  BY <1>3, ServedDie DEF SelectFails, AcceptOverflows, ReadDataKills
<1>4. CASE Pass
  BY <1>4, ServedSame DEF Pass, streamVars, Readable
<1>5. CASE ReadData
  <2>1. /\ InRead /\ i' = i + 1 /\ Echoes(current) /\ current \in Clients
        /\ UNCHANGED <<up, pc, clientSock, read_fds, owner, backlog>>
    BY <1>5, Current DEF ReadData, Served
  <2>2. PICK n \in 1 .. Len(toServer[current]) : Answer(current, n) /\ TakeFrom(current, n)
    BY <2>1 DEF Echoes
  <2>3. \A c \in Clients : link[c] # "none" => link'[c] # "none"
    BY <2>1, <2>2 DEF Answer, TypeOK, TypeClients
  <2>4. \A c \in Clients : c # current => link'[c] = link[c] /\ toServer'[c] = toServer[c]
    BY <2>1, <2>2 DEF Answer, TakeFrom, TypeOK, TypeClients
  <2>5. \A c \in Clients : c # current /\ Readable(c) => Readable(c)'
    BY <2>4 DEF Readable
  <2>. QED  BY <2>1, <2>3, <2>5, ServedSame DEF InRead
<1>6. CASE ReadFails
  <2>1. /\ InRead /\ i' = i + 1 /\ current \in Clients
        /\ link' = [link EXCEPT ![current] = "rst"] /\ toServer' = toServer
        /\ UNCHANGED <<up, pc, clientSock, read_fds, owner, backlog>>
    BY <1>6, Current DEF ReadFails, Served, streamVars
  <2>2. \A c \in Clients : link[c] # "none" => link'[c] # "none"
    BY <2>1 DEF TypeOK, TypeClients
  <2>3. \A c \in Clients : c # current /\ Readable(c) => Readable(c)'
    BY <2>1 DEF Readable, TypeOK, TypeClients
  <2>. QED  BY <2>1, <2>2, <2>3, ServedSame DEF InRead
<1>7. ASSUME NEW c \in Clients, ClientStep(c), UNCHANGED serverVars  PROVE Served'
  <2>1. CASE up /\ Connect(c)
    BY <1>7, <2>1, ServedConnect
  <2>2. CASE Send(c) \/ Receive(c) \/ Leave(c)
    <3>1. /\ \A d \in Clients : Readable(d) =>
               Readable(d)' \/ (InRead /\ i' = i + 1 /\ d = current)
          /\ \A d \in Clients : link[d] # "none" => link'[d] # "none"
          /\ backlog' = backlog
      BY <2>2, ReadableClientStep DEF TypeOK
    <3>2. UNCHANGED <<up, pc, clientSock, read_fds, owner, backlog>> /\ i' = i
      BY <1>7, <3>1
    <3>. QED  BY <3>1, <3>2, ServedSame
  <2>. QED  BY <1>7, <2>1, <2>2 DEF ClientStep
<1>. QED  BY <1>1, <1>2, <1>3, <1>4, <1>5, <1>6, <1>7 DEF Next, ServerStep

-----------------------------------------------------------------------------
(* The theorems.                                                           *)

\* Nothing has happened at first.
LEMMA InitIInv == Init => IInv
<1>. SUFFICES ASSUME Init  PROVE IInv
  OBVIOUS
<1>1. TypeOK
  BY EmptySeq DEF Init, InitClients, TypeOK, TypeClients
<1>2. InOrder
  BY InOrderInit DEF Init
<1>3. /\ Len(backlog) = 0 /\ numClient = 0 /\ pc = "select"
      /\ \A f \in Fds : owner[f] = NoClient
  BY EmptySeq DEF Init, InitClients, numClient
<1>4. TableFds = {} /\ FreeFds = Fds
  BY <1>3 DEF TableFds, FreeFds
<1>5. TableIsExact
  BY <1>3, <1>4 DEF TableIsExact
<1>6. OwnedOnce /\ ReadyAhead
  BY <1>3 DEF OwnedOnce, ReadyAhead
<1>. QED  BY <1>1, <1>2, <1>5, <1>6 DEF IInv

\* The invariant is inductive.
LEMMA NextIInv == IInv /\ [Next]_vars => IInv'
<1>. SUFFICES ASSUME IInv, [Next]_vars  PROVE IInv'
  OBVIOUS
<1>1. TypeOK /\ InOrder /\ Served /\ TableIsExact /\ OwnedOnce
  BY DEF IInv, Served
<1>2. up /\ pc = "accept" => backlog # <<>>
  BY DEF IInv, ReadyAhead
<1>3. TypeOK' /\ InOrder' /\ Served'
  BY <1>1, <1>2, TypeStep, InOrderStep, ServedStep
<1>. QED  BY <1>3 DEF IInv, Served

\* The server's types, its table, who owns which descriptor and what is ready,
\* with any number of clients, pieces, descriptors and cells of the table.
THEOREM IInvHolds == Spec => []IInv
<1>. QED  BY InitIInv, NextIInv, PTL DEF Spec

\* However clients come and go while the loop runs, the table holds each open
\* descriptor once and no other, but for the -1 of a failed accept().
THEOREM TableIsExactHolds == Spec => []TableIsExact
<1>1. IInv => TableIsExact
  BY DEF IInv
<1>. QED  BY <1>1, IInvHolds, PTL

\* The one thread never waits in a read(): what it reads from was in the set
\* and is ready still, though the table has changed since select().
THEOREM NeverWaitsForOneHolds == Spec => []NeverWaitsForOne
<1>1. IInv => NeverWaitsForOne
  <2>. SUFFICES ASSUME IInv, InRead  PROVE current # NoClient /\ Readable(current)
    BY DEF NeverWaitsForOne
  <2>1. TypeOK /\ TableIsExact /\ ReadyAhead
    BY DEF IInv
  <2>2. i \in i .. numClient /\ clientSock[i] \in Fds
    BY <2>1, InReadFd
  <2>3. clientSock[i] \in read_fds /\ clientSock[i] # -1
    BY <2>2, FdFacts DEF InRead, Isset
  <2>4. current \in Clients
    BY <2>1, Current
  <2>. QED  BY <2>1, <2>2, <2>3, <2>4, SelectEchoAssumption DEF ReadyAhead, InRead, InLoop, current
<1>. QED  BY <1>1, IInvHolds, PTL

\* The select server implements Echo: a client gets its own pieces, in their
\* order, once, wherever the table has moved its cell.
THEOREM Refinement == Spec => ImplementsEcho
<1>1. Init => Promise!Init
  BY EchoInit DEF Init
<1>2. IInv /\ IInv' /\ [Next]_vars => [Promise!Next]_<<sent, Answered>>
  <2>. SUFFICES ASSUME IInv, IInv', [Next]_vars
                PROVE  Promise!Next \/ UNCHANGED <<sent, Answered>>
    OBVIOUS
  <2>1. TypeClients /\ InOrder /\ TypeClients' /\ InOrder'
    BY DEF IInv, TypeOK
  <2>2. CASE UNCHANGED clientVars
    BY <2>2, EchoUnseen DEF clientVars
  <2>3. ASSUME NEW c \in Clients, ClientStep(c)
        PROVE  Promise!Next \/ UNCHANGED <<sent, Answered>>
    BY <2>1, <2>3, EchoClientStep DEF ClientStep
  <2>4. CASE UNCHANGED vars
    BY <2>2, <2>4 DEF vars
  <2>5. ASSUME Die  PROVE UNCHANGED clientVars
    BY <2>5 DEF Die
  <2>6. ASSUME ServerStep  PROVE UNCHANGED clientVars
    <3>1. CASE SelectFails \/ AcceptOverflows \/ ReadDataKills
      BY <2>5, <3>1 DEF SelectFails, AcceptOverflows, ReadDataKills
    <3>2. CASE Select \/ Accept \/ AcceptFails
      BY <3>2 DEF Select, Accept, AcceptFails
    <3>3. CASE Pass \/ ReadData \/ ReadFails \/ ReadEnd \/ LoopEnds
      BY <3>3 DEF Pass, ReadData, ReadFails, ReadEnd, LoopEnds
    <3>. QED  BY <2>6, <3>1, <3>2, <3>3 DEF ServerStep
  <2>. QED  BY <2>2, <2>3, <2>4, <2>6 DEF Next
<1>. QED  BY <1>1, <1>2, IInvHolds, PTL DEF Spec, ImplementsEcho, Promise!Spec, Answered
=============================================================================
