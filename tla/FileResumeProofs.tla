------------------------- MODULE FileResumeProofs -------------------------
(***************************************************************************)
(* Theorems about FileResume, for every number of clients, every file and  *)
(* every buffer size: its types, that IInv is inductive and implies the    *)
(* invariants, and that the transfer implements PrefixCopy.                *)
(***************************************************************************)
EXTENDS FileResume, SequenceTheorems, TLAPS

-----------------------------------------------------------------------------
(* Pieces of a sequence.                                                   *)

\* The part of a sequence from one place to another is a sequence.
LEMMA PieceType ==
  ASSUME NEW S, NEW s \in Seq(S), NEW m \in Nat \ {0}, NEW n \in 0 .. Len(s)
  PROVE  /\ SubSeq(s, m, n) \in Seq(S)
         /\ Len(SubSeq(s, m, n)) = IF m <= n THEN n - m + 1 ELSE 0
         /\ \A i \in 1 .. n - m + 1 : SubSeq(s, m, n)[i] = s[m + i - 1]
<1>1. \A i \in m .. n : s[i] \in S
  BY ElementOfSeq, LenProperties
<1>. QED  BY <1>1, SubSeqProperties, LenProperties

-----------------------------------------------------------------------------
(* Type correctness.                                                       *)

\* What ends a client's process keeps the types of what it changes.
LEMMA TypeExit ==
  ASSUME TypeOK, NEW c \in Clients, Exit(c)
  PROVE  /\ cpc' \in [Clients -> {"idle", "connected", "waiting", "sending"}]
         /\ end' \in [Clients -> {"open", "fin", "rst"}]
         /\ conn' \in [Clients -> {"none", "queued", "served", "closed"}]
         /\ reply' \in [Clients -> Seq(Nat)]
         /\ UNCHANGED <<backlog, name, total, data>>
BY EmptySeq DEF TypeOK, Exit

\* Faults stay within their bound.
LEMMA TypeFault ==
  ASSUME TypeOK, Fault
  PROVE  faults' \in 0 .. MaxFaults
BY ConstantsAssumption DEF TypeOK, Fault

\* So does what a client does with any value of currbytes.
LEMMA TypeStartAt ==
  ASSUME TypeOK, NEW c \in Clients, NEW g \in Int, StartAt(c, g)
  PROVE  /\ cpc' \in [Clients -> {"idle", "connected", "waiting", "sending"}]
         /\ ctotal' \in [Clients -> Int] /\ cnum' \in [Clients -> Nat]
         /\ cpos' \in [Clients -> Nat] /\ total' \in [Clients -> Seq(Int)]
<1>1. FileSize \in Nat
  BY ConstantsAssumption, LenProperties DEF FileSize
<1>2. <<FileSize - g>> \in Seq(Int)
  BY <1>1
<1>3. total' \in [Clients -> Seq(Int)]
  BY <1>2 DEF TypeOK, StartAt
<1>4. ctotal' \in [Clients -> Int]
  BY <1>1 DEF TypeOK, StartAt
<1>5. cpos' \in [Clients -> Nat]
  BY <1>1 DEF TypeOK, StartAt
<1>6. cpc' \in [Clients -> {"idle", "connected", "waiting", "sending"}]
  BY DEF TypeOK, StartAt
<1>7. cnum' \in [Clients -> Nat]
  BY DEF TypeOK, StartAt
<1>. QED  BY <1>3, <1>4, <1>5, <1>6, <1>7

\* A client's step, or a cut of its connection, keeps every type.
LEMMA TypeClient ==
  ASSUME TypeOK, NEW c \in Clients
  PROVE  Connect(c) \/ ClientStep(c) \/ OpenFails(c) \/ Kill(c) \/ Reset(c) => TypeOK'
<1>. USE DEF serverVars, streamVars, connVars, clientVars
<1>1. ASSUME Connect(c) PROVE TypeOK'
  BY <1>1, AppendProperties DEF Connect, TypeOK
<1>2. ASSUME SendName(c) PROVE TypeOK'
  BY <1>2 DEF SendName, Live, TypeOK
<1>3. ASSUME RecvOffset(c) PROVE TypeOK'
  <2>1. Head(reply[c]) \in Int
    <3>1. reply[c] \in Seq(Nat) /\ reply[c] # <<>>
      BY <1>3 DEF RecvOffset, TypeOK
    <3>2. Head(reply[c]) \in Nat
      BY <3>1, HeadTailProperties
    <3>. QED  BY <3>2
  <2>2. reply' \in [Clients -> Seq(Nat)]
    BY <1>3, EmptySeq DEF RecvOffset, TypeOK
  <2>3. StartAt(c, Head(reply[c]))
    BY <1>3 DEF RecvOffset
  <2>. QED  BY <1>3, <2>1, <2>2, <2>3, TypeStartAt DEF RecvOffset, TypeOK
<1>4. ASSUME RecvNoOffset(c) PROVE TypeOK'
  <2>1. PICK g \in Garbage : StartAt(c, g)
    BY <1>4 DEF RecvNoOffset
  <2>2. g \in Int
    BY ConstantsAssumption
  <2>. QED  BY <1>4, <2>1, <2>2, TypeStartAt DEF RecvNoOffset, TypeOK
<1>5. ASSUME SendChunk(c) PROVE TypeOK'
  <2>. DEFINE n == SmallerOf(BUFSIZE, FileSize - cpos[c])
  <2>1. n \in Nat /\ cpos[c] + n \in 0 .. Len(Source)
    <3>1. cpos[c] \in Nat /\ Len(Source) \in Nat /\ BUFSIZE \in Nat
      BY ConstantsAssumption, LenProperties DEF TypeOK
    <3>2. cpos[c] < Len(Source)
      BY <1>5 DEF SendChunk, FileSize
    <3>. QED  BY <3>1, <3>2 DEF SmallerOf, FileSize
  <2>2. Bytes(cpos[c], cpos[c] + n) \in Seq(Byte)
    <3>1. cpos[c] + 1 \in Nat \ {0}
      <4>1. cpos[c] \in Nat
        BY DEF TypeOK
      <4>. QED  BY <4>1
    <3>2. Source \in Seq(Byte)
      BY ConstantsAssumption
    <3>. HIDE DEF n
    <3>. QED  BY <2>1, <3>1, <3>2, PieceType DEF Bytes
  <2>3. data' \in [Clients -> Seq(Byte)]
    <3>1. data \in [Clients -> Seq(Byte)] /\ data[c] \in Seq(Byte)
      BY DEF TypeOK
    <3>2. data[c] \o Bytes(cpos[c], cpos[c] + n) \in Seq(Byte)
      BY <2>2, <3>1, ConcatProperties
    <3>. DEFINE more == data[c] \o Bytes(cpos[c], cpos[c] + n)
    <3>3. data' = [data EXCEPT ![c] = IF Live(c) THEN more ELSE @]
      BY <1>5 DEF SendChunk
    <3>. HIDE DEF more
    <3>4. more \in Seq(Byte)
      BY <3>2 DEF more
    <3>. QED  BY <3>1, <3>3, <3>4
  <2>6. /\ cpos' = [cpos EXCEPT ![c] = @ + n]
        /\ cnum' = [cnum EXCEPT ![c] = @ + n]
    BY <1>5 DEF SendChunk
  <2>4. cpos' \in [Clients -> Nat] /\ cnum' \in [Clients -> Nat]
    <3>1. cpos \in [Clients -> Nat] /\ cnum \in [Clients -> Nat]
      BY DEF TypeOK
    <3>2. cpos[c] + n \in Nat /\ cnum[c] + n \in Nat
      BY <2>1, <3>1
    <3>. QED  BY <2>6, <3>1, <3>2
  <2>5. UNCHANGED <<serverVars, name, total, reply, connVars, cpc, ctotal, told,
                    cprinted, faults>>
    BY <1>5 DEF SendChunk
  <2>. QED  BY <2>3, <2>4, <2>5 DEF TypeOK
<1>6. ASSUME Finish(c) PROVE TypeOK'
  BY <1>6, TypeExit DEF Finish, TypeOK
<1>7. ASSUME Abort(c) PROVE TypeOK'
  BY <1>7, TypeExit DEF Abort, TypeOK
<1>8. ASSUME OpenFails(c) PROVE TypeOK'
  BY <1>8, TypeExit, TypeFault DEF OpenFails, TypeOK
<1>9. ASSUME Kill(c) PROVE TypeOK'
  BY <1>9, TypeExit, TypeFault DEF Kill, TypeOK
<1>10. ASSUME Reset(c) PROVE TypeOK'
  <2>1. reply' \in [Clients -> Seq(Nat)] /\ end' \in [Clients -> {"open", "fin", "rst"}]
    BY <1>10, EmptySeq DEF Reset, TypeOK
  <2>2. /\ name' = name \/ name' = [name EXCEPT ![c] = FALSE]
        /\ total' = total \/ total' = [total EXCEPT ![c] = <<>>]
    BY <1>10 DEF Reset
  <2>8. name' \in [Clients -> BOOLEAN] /\ total' \in [Clients -> Seq(Int)]
    <3>1. name \in [Clients -> BOOLEAN] /\ total \in [Clients -> Seq(Int)]
      BY DEF TypeOK
    <3>2. name' \in [Clients -> BOOLEAN]
      BY <2>2, <3>1
    <3>3. total' \in [Clients -> Seq(Int)]
      BY <2>2, <3>1, EmptySeq
    <3>. QED  BY <3>2, <3>3
  <2>3. data[c] \in Seq(Byte)
    BY DEF TypeOK
  <2>4. \A n \in 0 .. Len(data[c]) : SubSeq(data[c], 1, n) \in Seq(Byte)
    BY <2>3, PieceType
  <2>9. \/ \E n \in 0 .. Len(data[c]) : data' = [data EXCEPT ![c] = SubSeq(@, 1, n)]
        \/ data' = [data EXCEPT ![c] = <<>>]
    BY <1>10 DEF Reset
  <2>5. data' \in [Clients -> Seq(Byte)]
    <3>1. data \in [Clients -> Seq(Byte)] /\ <<>> \in Seq(Byte)
      BY EmptySeq DEF TypeOK
    <3>. QED  BY <2>4, <2>9, <3>1
  <2>6. faults' \in 0 .. MaxFaults
    BY <1>10, TypeFault DEF Reset
  <2>7. UNCHANGED <<serverVars, conn, backlog, clientVars>>
    BY <1>10 DEF Reset
  <2>. QED  BY <2>1, <2>8, <2>5, <2>6, <2>7 DEF TypeOK
<1>. QED  BY <1>1, <1>2, <1>3, <1>4, <1>5, <1>6, <1>7, <1>8, <1>9, <1>10 DEF ClientStep

\* Closing connections keeps the types of what it changes.
LEMMA TypeClose ==
  ASSUME TypeOK, NEW cs, Close(cs)
  PROVE  /\ conn' \in [Clients -> {"none", "queued", "served", "closed"}]
         /\ name' \in [Clients -> BOOLEAN]
         /\ total' \in [Clients -> Seq(Int)]
         /\ data' \in [Clients -> Seq(Byte)]
<1>1. <<>> \in Seq(Int) /\ <<>> \in Seq(Byte)
  BY EmptySeq
<1>2. conn' \in [Clients -> {"none", "queued", "served", "closed"}]
  BY DEF TypeOK, Close
<1>3. name' \in [Clients -> BOOLEAN]
  BY DEF TypeOK, Close
<1>4. total' \in [Clients -> Seq(Int)]
  BY <1>1 DEF TypeOK, Close
<1>5. data' \in [Clients -> Seq(Byte)]
  BY <1>1 DEF TypeOK, Close
<1>. QED  BY <1>2, <1>3, <1>4, <1>5

\* So do the ways a session ends.
LEMMA TypeEnd ==
  ASSUME TypeOK, filename' \in BOOLEAN, sound' \in BOOLEAN, faults' \in 0 .. MaxFaults,
         \/ GiveUp
         \/ Report /\ disk' \in Seq(Byte) /\ wbuf' \in Seq(Byte)
  PROVE  TypeOK'
<1>1. CASE GiveUp
  <2>1. Close({cur})
    BY <1>1 DEF GiveUp
  <2>. QED  BY <1>1, <2>1, TypeClose DEF GiveUp, TypeOK, clientVars
<1>2. CASE Report /\ disk' \in Seq(Byte) /\ wbuf' \in Seq(Byte)
  <2>1. Close({cur})
    BY <1>2 DEF Report
  <2>. QED  BY <1>2, <2>1, TypeClose DEF Report, TypeOK, clientVars
<1>. QED  BY <1>1, <1>2

\* What stdio writes and what it keeps are pieces of what it was given.
LEMMA TypeStore ==
  ASSUME TypeOK, NEW b \in Seq(Byte), NEW n \in 0 .. Len(b),
         Store(b, n) \/ StoreFails(b, n)
  PROVE  /\ disk' \in Seq(Byte) /\ wbuf' \in Seq(Byte)
         /\ Len(disk') = Len(disk) + n
         /\ Store(b, n) => Len(wbuf') = Len(b) - n
<1>1. disk \in Seq(Byte) /\ Len(b) \in Nat /\ <<>> \in Seq(Byte)
  BY LenProperties, EmptySeq DEF TypeOK
<1>2. SubSeq(b, 1, n) \in Seq(Byte) /\ Len(SubSeq(b, 1, n)) = n
  BY <1>1, PieceType
<1>3. /\ SubSeq(b, n + 1, Len(b)) \in Seq(Byte)
      /\ Len(SubSeq(b, n + 1, Len(b))) = Len(b) - n
  BY <1>1, PieceType
<1>4. disk' = disk \o SubSeq(b, 1, n)
  BY DEF Store, StoreFails
<1>5. wbuf' = <<>> \/ wbuf' = SubSeq(b, n + 1, Len(b))
  BY DEF Store, StoreFails
<1>6. disk' \in Seq(Byte) /\ Len(disk') = Len(disk) + n
  BY <1>1, <1>2, <1>4, ConcatProperties
<1>7. Store(b, n) => Len(wbuf') = Len(b) - n
  BY <1>3 DEF Store
<1>. QED  BY <1>1, <1>3, <1>5, <1>6, <1>7

\* What the server receives in one call, appended to what stdio holds.
LEMMA TypeReceived ==
  ASSUME TypeOK, CanReceive
  PROVE  /\ Received \in 1 .. Len(data[cur])
         /\ wbuf \o SubSeq(data[cur], 1, Received) \in Seq(Byte)
         /\ Len(wbuf \o SubSeq(data[cur], 1, Received)) = Len(wbuf) + Received
         /\ SubSeq(data[cur], Received + 1, Len(data[cur])) \in Seq(Byte)
         /\ Len(SubSeq(data[cur], Received + 1, Len(data[cur]))) = Len(data[cur]) - Received
<1>1. data[cur] \in Seq(Byte) /\ wbuf \in Seq(Byte)
  BY DEF TypeOK
<1>2. Len(data[cur]) \in Nat \ {0} /\ BUFSIZE \in Nat \ {0}
  BY <1>1, EmptySeq, ConstantsAssumption DEF CanReceive
<1>3. Received \in 1 .. Len(data[cur])
  BY <1>2 DEF Received, SmallerOf
<1>4. /\ SubSeq(data[cur], 1, Received) \in Seq(Byte)
      /\ Len(SubSeq(data[cur], 1, Received)) = Received
  BY <1>1, <1>2, <1>3, PieceType
<1>5. /\ SubSeq(data[cur], Received + 1, Len(data[cur])) \in Seq(Byte)
      /\ Len(SubSeq(data[cur], Received + 1, Len(data[cur]))) = Len(data[cur]) - Received
  BY <1>1, <1>2, <1>3, PieceType
<1>. QED  BY <1>1, <1>3, <1>4, <1>5, ConcatProperties

\* The server's steps keep every type.
LEMMA TypeServer ==
  ASSUME TypeOK
  PROVE  ServerStep \/ ServerCrash \/ ServerStart => TypeOK'
<1>. USE DEF serverVars, streamVars, connVars, clientVars
<1>1. ASSUME Accept PROVE TypeOK'
  <2>1. Head(backlog) \in Clients /\ Tail(backlog) \in Seq(Clients)
    BY <1>1, HeadTailProperties DEF Accept, TypeOK
  <2>. QED  BY <1>1, <2>1 DEF Accept, TypeOK
<1>2. ASSUME RecvName PROVE TypeOK'
  <2>1. <<Len(disk)>> \in Seq(Nat)
    BY LenProperties DEF TypeOK
  <2>2. reply' \in [Clients -> Seq(Nat)]
    BY <1>2, <2>1 DEF RecvName, TypeOK
  <2>. QED  BY <1>2, <2>2 DEF RecvName, TypeOK
<1>3. ASSUME RecvNameFails PROVE TypeOK'
  <2>1. faults' \in 0 .. MaxFaults
    BY <1>3, TypeFault DEF RecvNameFails, TypeOK
  <2>2. filename' \in BOOLEAN /\ sound' \in BOOLEAN
    BY <1>3 DEF RecvNameFails, TypeOK
  <2>. QED  BY <1>3, <2>1, <2>2, TypeEnd DEF RecvNameFails
<1>4. ASSUME RecvTotal PROVE TypeOK'
  <2>1. Head(total[cur]) \in Int
    BY <1>4, HeadTailProperties DEF RecvTotal, TypeOK
  <2>2. total' \in [Clients -> Seq(Int)]
    BY <1>4, EmptySeq DEF RecvTotal, TypeOK
  <2>. QED  BY <1>4, <2>1, <2>2 DEF RecvTotal, TypeOK
<1>5. ASSUME RecvNoTotal PROVE TypeOK'
  <2>1. totalbytes' \in Int
    BY <1>5, ConstantsAssumption DEF RecvNoTotal, TypeOK
  <2>. QED  BY <1>5, <2>1 DEF RecvNoTotal, TypeOK
<1>6. ASSUME RecvTotalFails PROVE TypeOK'
  <2>1. faults' \in 0 .. MaxFaults
    BY <1>6, TypeFault DEF RecvTotalFails, TypeOK
  <2>2. filename' \in BOOLEAN /\ sound' \in BOOLEAN
    BY <1>6 DEF RecvTotalFails, TypeOK
  <2>. QED  BY <1>6, <2>1, <2>2, TypeEnd DEF RecvTotalFails
<1>7. ASSUME RecvData PROVE TypeOK'
  <2>1. CanReceive
    BY <1>7 DEF RecvData
  <2>. DEFINE b == wbuf \o SubSeq(data[cur], 1, Received)
  <2>2. PICK n \in 0 .. Len(b) : Store(b, n)
    BY <1>7 DEF RecvData
  <2>3. disk' \in Seq(Byte) /\ wbuf' \in Seq(Byte)
    BY <2>1, <2>2, TypeReceived, TypeStore
  <2>4. data' = [data EXCEPT ![cur] = SubSeq(@, Received + 1, Len(@))]
    BY <1>7 DEF RecvData
  <2>5. data' \in [Clients -> Seq(Byte)]
    BY <2>1, <2>4, TypeReceived DEF TypeOK
  <2>6. numtotal' \in Nat
    <3>1. Received \in Nat
      BY <2>1, TypeReceived
    <3>. QED  BY <1>7, <3>1 DEF RecvData, TypeOK
  <2>7. UNCHANGED <<spc, cur, filename, totalbytes, printed, sound, name, total,
                    reply, connVars, clientVars, faults>>
    BY <1>7 DEF RecvData
  <2>. QED  BY <2>3, <2>5, <2>6, <2>7 DEF TypeOK
<1>8. ASSUME RecvDataFails PROVE TypeOK'
  <2>1. CanReceive
    BY <1>8 DEF RecvDataFails
  <2>. DEFINE b == wbuf \o SubSeq(data[cur], 1, Received)
  <2>2. PICK n \in 0 .. Len(b) - 1 : StoreFails(b, n)
    BY <1>8 DEF RecvDataFails
  <2>3. b \in Seq(Byte) /\ n \in 0 .. Len(b)
    BY <2>1, TypeReceived, LenProperties
  <2>4. disk' \in Seq(Byte) /\ wbuf' \in Seq(Byte)
    BY <2>2, <2>3, TypeStore
  <2>5. sound' \in BOOLEAN /\ filename' \in BOOLEAN /\ Report
    BY <1>8 DEF RecvDataFails, Report, TypeOK
  <2>6. faults' \in 0 .. MaxFaults
    BY <1>8, TypeFault DEF RecvDataFails
  <2>. QED  BY <2>4, <2>5, <2>6, TypeEnd
<1>9. ASSUME EndData PROVE TypeOK'
  <2>1. wbuf \in Seq(Byte) /\ Len(wbuf) \in 0 .. Len(wbuf)
    BY LenProperties DEF TypeOK
  <2>2. disk' \in Seq(Byte) /\ wbuf' \in Seq(Byte)
    BY <1>9, <2>1, TypeStore DEF EndData
  <2>3. sound' \in BOOLEAN /\ filename' \in BOOLEAN /\ Report /\ faults' \in 0 .. MaxFaults
    BY <1>9 DEF EndData, Report, TypeOK
  <2>. QED  BY <2>2, <2>3, TypeEnd
<1>10. ASSUME EndDataFails PROVE TypeOK'
  <2>1. PICK n \in 0 .. Len(wbuf) - 1 : StoreFails(wbuf, n)
    BY <1>10 DEF EndDataFails
  <2>2. wbuf \in Seq(Byte) /\ n \in 0 .. Len(wbuf)
    BY LenProperties DEF TypeOK
  <2>3. disk' \in Seq(Byte) /\ wbuf' \in Seq(Byte)
    BY <2>1, <2>2, TypeStore
  <2>4. sound' \in BOOLEAN /\ filename' \in BOOLEAN /\ Report
    BY <1>10 DEF EndDataFails, Report, TypeOK
  <2>5. faults' \in 0 .. MaxFaults
    BY <1>10, TypeFault DEF EndDataFails
  <2>. QED  BY <2>3, <2>4, <2>5, TypeEnd
<1>11. ASSUME ServerCrash PROVE TypeOK'
  <2>1. faults' \in 0 .. MaxFaults
    BY <1>11, TypeFault DEF ServerCrash
  <2>2. Close({c \in Clients : conn[c] \in {"queued", "served"}})
    BY <1>11 DEF ServerCrash
  <2>3. wbuf' \in Seq(Byte) /\ backlog' \in Seq(Clients)
    BY <1>11, EmptySeq DEF ServerCrash
  <2>4. UNCHANGED <<cur, filename, totalbytes, numtotal, disk, printed, sound,
                    reply, end, clientVars>> /\ spc' = "down"
    BY <1>11 DEF ServerCrash
  <2>. HIDE DEF Close
  <2>. QED  BY <2>1, <2>2, <2>3, <2>4, TypeClose DEF TypeOK
<1>12. ASSUME ServerStart PROVE TypeOK'
  <2>1. totalbytes' \in Int
    BY <1>12, ConstantsAssumption DEF ServerStart
  <2>. QED  BY <1>12, <2>1 DEF ServerStart, TypeOK
<1>. QED  BY <1>1, <1>2, <1>3, <1>4, <1>5, <1>6, <1>7, <1>8, <1>9, <1>10, <1>11, <1>12
          DEF ServerStep

\* Every state has every variable in its type: no garbage an unassigned int
\* holds, and no position or count computed from it, leaves the integers.
THEOREM TypeCorrect == Spec => []TypeOK
<1>1. Init => TypeOK
  <2>1. <<>> \in Seq(Byte) /\ <<>> \in Seq(Clients) /\ <<>> \in Seq(Int) /\ <<>> \in Seq(Nat)
    BY EmptySeq
  <2>. SUFFICES ASSUME Init PROVE TypeOK
    OBVIOUS
  <2>2. /\ totalbytes \in Int /\ faults \in 0 .. MaxFaults
        /\ disk \in Seq(Byte) /\ wbuf \in Seq(Byte) /\ backlog \in Seq(Clients)
    BY <2>1, ConstantsAssumption DEF Init
  <2>3. /\ total \in [Clients -> Seq(Int)] /\ data \in [Clients -> Seq(Byte)]
        /\ reply \in [Clients -> Seq(Nat)]
    BY <2>1 DEF Init
  <2>4. /\ cpos \in [Clients -> Nat] /\ ctotal \in [Clients -> Int]
        /\ cnum \in [Clients -> Nat] /\ told \in [Clients -> BOOLEAN]
        /\ name \in [Clients -> BOOLEAN]
        /\ cprinted \in [Clients -> {"none", "complete", "failed"}]
        /\ cpc \in [Clients -> {"idle", "connected", "waiting", "sending"}]
        /\ end \in [Clients -> {"open", "fin", "rst"}]
        /\ conn \in [Clients -> {"none", "queued", "served", "closed"}]
    BY DEF Init
  <2>5. /\ spc \in {"accept", "name", "total", "data", "down"}
        /\ cur \in Clients /\ filename \in BOOLEAN /\ numtotal \in Nat
        /\ printed \in {"none", "complete", "failed"} /\ sound \in BOOLEAN
    BY DEF Init
  <2>. QED  BY <2>2, <2>3, <2>4, <2>5 DEF TypeOK
<1>2. TypeOK /\ [Next]_vars => TypeOK'
  <2>. SUFFICES ASSUME TypeOK, [Next]_vars PROVE TypeOK'
    OBVIOUS
  <2>1. CASE Next
    BY <2>1, TypeClient, TypeServer DEF Next
  <2>2. CASE UNCHANGED vars
    BY <2>2 DEF TypeOK, vars, serverVars, streamVars, connVars, clientVars
  <2>. QED  BY <2>1, <2>2
<1>. QED  BY <1>1, <1>2, PTL DEF Spec

-----------------------------------------------------------------------------
(* Sequences that continue the source.                                     *)

\* The size of the source, which the client computes with ftell(), is a number.
LEMMA FileSizeIsNat == FileSize \in Nat
BY ConstantsAssumption, LenProperties DEF FileSize

\* No bytes continue any prefix of the source.
LEMMA ContinuesEmpty ==
  ASSUME NEW n \in Nat
  PROVE  Continues(<<>>, n) <=> n <= FileSize
BY FileSizeIsNat, EmptySeq DEF Continues

\* Bytes that follow on each other can be put together: what fwrite() appends.
LEMMA ContinuesConcat ==
  ASSUME NEW s \in Seq(Byte), NEW t \in Seq(Byte), NEW n \in Nat,
         Continues(s, n), Continues(t, n + Len(s))
  PROVE  Continues(s \o t, n)
<1>1. Len(s) \in Nat /\ Len(t) \in Nat /\ FileSize \in Nat
  BY LenProperties, FileSizeIsNat
<1>2. Len(s \o t) = Len(s) + Len(t)
  BY ConcatProperties
<1>3. ASSUME NEW i \in 1 .. Len(s) + Len(t)
      PROVE  (s \o t)[i] = Source[n + i]
  <2>1. (s \o t)[i] = IF i <= Len(s) THEN s[i] ELSE t[i - Len(s)]
    BY ConcatProperties
  <2>2. CASE i <= Len(s)
    BY <1>1, <2>1, <2>2 DEF Continues
  <2>3. CASE ~ (i <= Len(s))
    <3>1. i - Len(s) \in 1 .. Len(t)
      BY <1>1, <2>3
    <3>2. t[i - Len(s)] = Source[n + Len(s) + (i - Len(s))]
      BY <3>1 DEF Continues
    <3>3. n + Len(s) + (i - Len(s)) = n + i
      BY <1>1
    <3>. QED  BY <2>1, <2>3, <3>2, <3>3
  <2>. QED  BY <2>2, <2>3
<1>. QED  BY <1>1, <1>2, <1>3 DEF Continues

\* Bytes that continue the source can be cut in two: what is written and what is kept.
LEMMA ContinuesPieces ==
  ASSUME NEW s \in Seq(Byte), NEW n \in Nat, NEW k \in 0 .. Len(s), Continues(s, n)
  PROVE  /\ Continues(SubSeq(s, 1, k), n)
         /\ Continues(SubSeq(s, k + 1, Len(s)), n + k)
<1>1. Len(s) \in Nat /\ FileSize \in Nat
  BY LenProperties, FileSizeIsNat
<1>2. /\ Len(SubSeq(s, 1, k)) = k
      /\ \A i \in 1 .. k : SubSeq(s, 1, k)[i] = s[i]
  <2>1. \A i \in 1 .. k - 1 + 1 : SubSeq(s, 1, k)[i] = s[1 + i - 1]
    BY PieceType
  <2>. QED  BY <1>1, <2>1, PieceType
<1>3. /\ Len(SubSeq(s, k + 1, Len(s))) = Len(s) - k
      /\ \A i \in 1 .. Len(s) - k : SubSeq(s, k + 1, Len(s))[i] = s[k + i]
  <2>1. k + 1 \in Nat \ {0} /\ Len(s) \in 0 .. Len(s)
    BY <1>1
  <2>2. /\ Len(SubSeq(s, k + 1, Len(s))) = IF k + 1 <= Len(s) THEN Len(s) - (k + 1) + 1 ELSE 0
        /\ \A i \in 1 .. Len(s) - (k + 1) + 1 :
             SubSeq(s, k + 1, Len(s))[i] = s[k + 1 + i - 1]
    BY <2>1, PieceType
  <2>3. Len(s) - (k + 1) + 1 = Len(s) - k /\ \A i \in Int : k + 1 + i - 1 = k + i
    BY <1>1
  <2>4. Len(SubSeq(s, k + 1, Len(s))) = Len(s) - k
    BY <1>1, <2>2
  <2>5. \A i \in 1 .. Len(s) - k : SubSeq(s, k + 1, Len(s))[i] = s[k + i]
    BY <2>2, <2>3
  <2>. QED  BY <2>4, <2>5
<1>4. Continues(SubSeq(s, 1, k), n)
  BY <1>1, <1>2 DEF Continues
<1>5. Continues(SubSeq(s, k + 1, Len(s)), n + k)
  <2>1. ASSUME NEW i \in 1 .. Len(s) - k PROVE s[k + i] = Source[n + k + i]
    <3>1. k + i \in 1 .. Len(s)
      BY <1>1
    <3>2. s[k + i] = Source[n + (k + i)]
      BY <3>1 DEF Continues
    <3>. QED  BY <3>2
  <2>. QED  BY <1>1, <1>3, <2>1 DEF Continues
<1>. QED  BY <1>4, <1>5

\* What fread() takes from a position of the source continues it from there.
LEMMA ContinuesBytes ==
  ASSUME NEW m \in 0 .. FileSize, NEW k \in m .. FileSize
  PROVE  /\ Bytes(m, k) \in Seq(Byte) /\ Len(Bytes(m, k)) = k - m
         /\ Continues(Bytes(m, k), m)
<1>1. FileSize \in Nat /\ Source \in Seq(Byte) /\ k \in 0 .. Len(Source) /\ m + 1 \in Nat \ {0}
  BY FileSizeIsNat, ConstantsAssumption DEF FileSize
<1>2. /\ Bytes(m, k) \in Seq(Byte)
      /\ Len(Bytes(m, k)) = IF m + 1 <= k THEN k - (m + 1) + 1 ELSE 0
      /\ \A i \in 1 .. k - (m + 1) + 1 : Bytes(m, k)[i] = Source[m + 1 + i - 1]
  BY <1>1, PieceType DEF Bytes
<1>3. k - (m + 1) + 1 = k - m /\ \A i \in Int : m + 1 + i - 1 = m + i
  BY <1>1
<1>. QED  BY <1>1, <1>2, <1>3 DEF Continues

\* A sequence that continues the empty prefix is the prefix of its length.
LEMMA ContinuesIsPrefix ==
  ASSUME NEW s \in Seq(Byte), Continues(s, 0)
  PROVE  Len(s) \in 0 .. FileSize /\ s = Bytes(0, Len(s))
<1>1. Len(s) \in 0 .. FileSize
  BY LenProperties, FileSizeIsNat DEF Continues
<1>2. /\ Bytes(0, Len(s)) \in Seq(Byte) /\ Len(Bytes(0, Len(s))) = Len(s)
      /\ Continues(Bytes(0, Len(s)), 0)
  BY <1>1, FileSizeIsNat, ContinuesBytes
<1>3. \A i \in 1 .. Len(s) : s[i] = Bytes(0, Len(s))[i]
  BY <1>2 DEF Continues
<1>. QED  BY <1>1, <1>2, <1>3, SeqEqual

-----------------------------------------------------------------------------
(* The clients' steps and the network's.                                   *)

\* The counts do not depend on the clients.
LEMMA CountFrame ==
  ASSUME CountInv, UNCHANGED serverVars
  PROVE  CountInv'
BY DEF CountInv, Serving, Stored, FileSize, serverVars

\* Nor does a session on the streams of clients other than the one it serves.
LEMMA SessionFrame ==
  ASSUME SessionInv, UNCHANGED serverVars,
         UNCHANGED <<total[cur], data[cur], reply[cur], end[cur], cpc[cur],
                     cpos[cur], told[cur], cprinted[cur]>>
  PROVE  SessionInv'
BY DEF SessionInv, Continues, Stored, Sent, FileSize, serverVars

\* A client that ends, having printed r or nothing.
LEMMA ExitInv ==
  ASSUME IInv, NEW c \in Clients, cpc[c] # "idle", Exit(c),
         UNCHANGED <<serverVars, cpos, told>>,
         NEW r \in {"none", "complete", "failed"},
         cprinted' = [cprinted EXCEPT ![c] = r],
         r = "complete" => cpc[c] = "sending" /\ cpos[c] >= FileSize
  PROVE  ConnInv' /\ StreamInv' /\ SessionInv' /\ CountInv'
<1>1. UNCHANGED <<spc, cur, wbuf, disk, backlog, name, total, data>>
  BY DEF Exit, serverVars
<1>2. ConnInv'
  <2>1. \A d \in Clients : /\ conn'[d] = "served" <=> conn[d] = "served"
                           /\ conn[d] = "queued" => conn'[d] = "queued"
    BY DEF IInv, TypeOK, Exit
  <2>2. \A i \in 1 .. Len(backlog) : backlog[i] \in Clients
    BY ElementOfSeq DEF IInv, TypeOK
  <2>. QED  BY <1>1, <2>1, <2>2 DEF IInv, ConnInv, Serving
<1>3. StreamInv'
  <2>. SUFFICES ASSUME NEW d \in Clients PROVE StreamOK(d)'
    BY DEF StreamInv
  <2>1. StreamOK(d)
    BY DEF IInv, StreamInv
  <2>2. CASE d = c
    <3>1. /\ cpc'[c] = "idle" /\ reply'[c] = <<>> /\ told'[c] = told[c]
          /\ conn'[c] = IF conn[c] = "closed" THEN "none" ELSE conn[c]
          /\ end'[c] # "open"
      BY DEF IInv, TypeOK, Exit
    <3>. QED  BY <1>1, <2>1, <2>2, <3>1 DEF StreamOK
  <2>3. CASE d # c
    <3>1. /\ cpc'[d] = cpc[d] /\ reply'[d] = reply[d] /\ told'[d] = told[d]
          /\ conn'[d] = conn[d] /\ end'[d] = end[d] /\ cprinted'[d] = cprinted[d]
      BY <2>3 DEF IInv, TypeOK, Exit
    <3>. QED  BY <1>1, <2>1, <2>3, <3>1 DEF StreamOK
  <2>. QED  BY <2>2, <2>3
<1>4. SessionInv'
  <2>1. CASE c # cur
    BY <1>1, <2>1, SessionFrame DEF IInv, TypeOK, Exit
  <2>2. CASE c = cur
    <3>1. cpc'[cur] = "idle" /\ reply'[cur] = <<>> /\ told'[cur] = told[cur]
          /\ cpos'[cur] = cpos[cur] /\ cprinted'[cur] = r
      BY <2>2 DEF IInv, TypeOK, Exit
    <3>2. ASSUME spc \in {"total", "data"}, r = "complete", end'[cur] = "fin"
          PROVE  Sent(cur) = FileSize
      <4>1. end[cur] = "open"
        BY <2>2, <3>2 DEF IInv, TypeOK, StreamInv, StreamOK, Exit
      <4>2. Continues(data[cur], Stored) /\ cpos[cur] = Sent(cur)
        BY <2>2, <3>2, <4>1 DEF IInv, SessionInv
      <4>3. cpos[cur] >= FileSize /\ Sent(cur) <= FileSize
        BY <2>2, <3>2, <4>2 DEF Continues, Sent
      <4>4. cpos[cur] \in Nat
        BY DEF IInv, TypeOK
      <4>. QED  BY <4>2, <4>3, <4>4, FileSizeIsNat
    <3>3. Sent(cur)' = Sent(cur) /\ Stored' = Stored /\ FileSize' = FileSize
      BY <1>1 DEF Sent, Stored, FileSize
    <3>4. /\ Continues(disk, 0)' <=> Continues(disk, 0)
          /\ Continues(wbuf, Len(disk))' <=> Continues(wbuf, Len(disk))
          /\ Continues(data[cur], Stored)' <=> Continues(data[cur], Stored)
      BY <1>1, <3>3 DEF Continues, FileSize
    <3>. QED  BY <1>1, <2>2, <3>1, <3>2, <3>3, <3>4 DEF IInv, SessionInv
  <2>. QED  BY <2>1, <2>2
<1>. QED  BY <1>2, <1>3, <1>4, CountFrame DEF IInv

\* Connections that stay as they are.
LEMMA ConnFrame ==
  ASSUME ConnInv, UNCHANGED <<spc, cur, conn, backlog>>
  PROVE  ConnInv'
BY DEF ConnInv, Serving

\* Streams of a client that stay as they are.
LEMMA StreamFrame ==
  ASSUME StreamInv, NEW d \in Clients,
         UNCHANGED <<conn[d], total[d], data[d], reply[d], end[d], cpc[d],
                     told[d], cprinted[d]>>
  PROVE  StreamOK(d)'
BY DEF StreamInv, StreamOK

\* A served client is the one the server knows.
LEMMA ServedIsCur ==
  ASSUME ConnInv, NEW c \in Clients, conn[c] = "served"
  PROVE  c = cur /\ spc \in {"name", "total", "data"}
BY DEF ConnInv, Serving

\* A new connection waits in the backlog with empty streams.
LEMMA ConnectInv ==
  ASSUME IInv, NEW c \in Clients, Connect(c)
  PROVE  ConnInv' /\ StreamInv' /\ SessionInv' /\ CountInv'
<1>. USE DEF serverVars, streamVars
<1>1. /\ UNCHANGED <<spc, cur, disk, wbuf, name, total, data, reply, cpos, ctotal, cnum>>
      /\ conn[c] = "none" /\ cpc[c] = "idle"
      /\ conn' = [conn EXCEPT ![c] = "queued"] /\ backlog' = Append(backlog, c)
      /\ cpc' = [cpc EXCEPT ![c] = "connected"] /\ end' = [end EXCEPT ![c] = "open"]
      /\ told' = [told EXCEPT ![c] = FALSE]
      /\ cprinted' = [cprinted EXCEPT ![c] = "none"]
  BY DEF Connect
<1>2. ConnInv'
  <2>1. /\ Len(backlog') = Len(backlog) + 1 /\ Len(backlog) \in Nat
        /\ \A i \in 1 .. Len(backlog) : backlog'[i] = backlog[i] /\ backlog[i] \in Clients
        /\ backlog'[Len(backlog) + 1] = c
    BY <1>1, AppendProperties, ElementOfSeq, LenProperties DEF IInv, TypeOK
  <2>2. \A i \in 1 .. Len(backlog) : backlog[i] # c
    BY <1>1 DEF IInv, ConnInv
  <2>3. \A d \in Clients : conn'[d] = "served" <=> conn[d] = "served"
    BY <1>1 DEF IInv, TypeOK
  <2>4. \A i \in 1 .. Len(backlog') : conn'[backlog'[i]] = "queued"
    <3>1. \A d \in Clients \ {c} : conn'[d] = conn[d]
      BY <1>1 DEF IInv, TypeOK
    <3>2. conn'[c] = "queued"
      BY <1>1 DEF IInv, TypeOK
    <3>3. \A i \in 1 .. Len(backlog) : conn[backlog[i]] = "queued"
      BY DEF IInv, ConnInv
    <3>. QED  BY <2>1, <2>2, <3>1, <3>2, <3>3
  <2>5. \A i, j \in 1 .. Len(backlog') : backlog'[i] = backlog'[j] => i = j
    BY <2>1, <2>2 DEF IInv, ConnInv
  <2>. QED  BY <1>1, <2>3, <2>4, <2>5 DEF IInv, ConnInv, Serving
<1>3. StreamInv'
  <2>. SUFFICES ASSUME NEW d \in Clients PROVE StreamOK(d)'
    BY DEF StreamInv
  <2>1. CASE d = c
    <3>1. /\ cpc'[c] = "connected" /\ conn'[c] = "queued" /\ end'[c] = "open"
          /\ told'[c] = FALSE /\ cprinted'[c] = "none"
      BY <1>1 DEF IInv, TypeOK
    <3>2. StreamOK(c)
      BY DEF IInv, StreamInv
    <3>. QED  BY <1>1, <2>1, <3>1, <3>2 DEF StreamOK
  <2>2. CASE d # c
    <3>1. UNCHANGED <<conn[d], end[d], cpc[d], told[d], cprinted[d]>>
      BY <1>1, <2>2 DEF IInv, TypeOK
    <3>. QED  BY <1>1, <3>1, StreamFrame DEF IInv
  <2>. QED  BY <2>1, <2>2
<1>4. SessionInv'
  <2>1. CASE c # cur
    <3>1. UNCHANGED <<end[cur], cpc[cur], told[cur], cprinted[cur]>>
      BY <1>1, <2>1 DEF IInv, TypeOK
    <3>. QED  BY <1>1, <3>1, SessionFrame DEF Connect, IInv
  <2>2. CASE c = cur
    <3>1. spc \in {"accept", "down"}
      BY <1>1, <2>2 DEF IInv, TypeOK, ConnInv, Serving
    <3>. QED  BY <1>1, <3>1 DEF IInv, SessionInv, Continues, FileSize
  <2>. QED  BY <2>1, <2>2
<1>. QED  BY <1>2, <1>3, <1>4, CountFrame DEF IInv, Connect

\* The name a client sends says nothing about positions.
LEMMA SendNameInv ==
  ASSUME IInv, NEW c \in Clients, SendName(c)
  PROVE  ConnInv' /\ StreamInv' /\ SessionInv' /\ CountInv'
<1>. USE DEF serverVars, connVars
<1>1. /\ UNCHANGED <<spc, cur, disk, wbuf, conn, backlog, end, total, data, reply,
                     cpos, told, cprinted>>
      /\ cpc[c] = "connected" /\ cpc' = [cpc EXCEPT ![c] = "waiting"]
  BY DEF SendName
<1>2. StreamInv'
  <2>. SUFFICES ASSUME NEW d \in Clients PROVE StreamOK(d)'
    BY DEF StreamInv
  <2>1. CASE d = c
    <3>1. cpc'[c] = "waiting"
      BY <1>1 DEF IInv, TypeOK
    <3>2. StreamOK(c)
      BY DEF IInv, StreamInv
    <3>. QED  BY <1>1, <2>1, <3>1, <3>2 DEF StreamOK
  <2>2. CASE d # c
    <3>1. cpc'[d] = cpc[d]
      BY <1>1, <2>2 DEF IInv, TypeOK
    <3>. QED  BY <1>1, <3>1, StreamFrame DEF IInv
  <2>. QED  BY <2>1, <2>2
<1>3. SessionInv'
  <2>1. \A d \in Clients : cpc'[d] = cpc[d] \/ (cpc[d] = "connected" /\ cpc'[d] = "waiting")
    <3>1. cpc \in [Clients -> {"idle", "connected", "waiting", "sending"}]
      BY DEF IInv, TypeOK
    <3>. QED  BY <1>1, <3>1
  <2>2. cur \in Clients
    BY DEF IInv, TypeOK
  <2>3. cpc'[cur] = cpc[cur] \/ (cpc[cur] = "connected" /\ cpc'[cur] = "waiting")
    BY <2>1, <2>2
  <2>. QED  BY <1>1, <2>3 DEF IInv, SessionInv, Continues, Stored, Sent, FileSize
<1>. QED  BY <1>1, <1>2, <1>3, ConnFrame, CountFrame DEF IInv, SendName

\* The offset a client is told is where the server's file ends, so the position it
\* takes and the total it announces fit what is stored.
LEMMA RecvOffsetInv ==
  ASSUME IInv, NEW c \in Clients, RecvOffset(c)
  PROVE  ConnInv' /\ StreamInv' /\ SessionInv' /\ CountInv'
<1>. USE DEF connVars, serverVars
<1>. DEFINE currbytes == Head(reply[c])
<1>1. /\ UNCHANGED <<spc, cur, disk, wbuf, conn, backlog, end, data, cprinted>>
      /\ cpc[c] = "waiting" /\ end[c] # "rst" /\ reply[c] # <<>>
      /\ cpc' = [cpc EXCEPT ![c] = "sending"]
      /\ cpos' = [cpos EXCEPT ![c] = IF currbytes < 0 THEN FileSize ELSE currbytes]
      /\ total' = [total EXCEPT ![c] = IF Live(c) THEN <<FileSize - currbytes>> ELSE @]
      /\ reply' = [reply EXCEPT ![c] = <<>>]
      /\ told' = [told EXCEPT ![c] = TRUE]
  BY DEF RecvOffset, StartAt
<1>2. \A d \in Clients \ {c} : UNCHANGED <<total[d], reply[d], cpc[d], cpos[d], told[d]>>
  BY <1>1 DEF IInv, TypeOK
<1>3. /\ cpc'[c] = "sending" /\ reply'[c] = <<>> /\ told'[c] = TRUE
      /\ total'[c] = IF Live(c) THEN <<FileSize - currbytes>> ELSE total[c]
      /\ cpos'[c] = IF currbytes < 0 THEN FileSize ELSE currbytes
  BY <1>1 DEF IInv, TypeOK
<1>4. StreamOK(c)
  BY DEF IInv, StreamInv
<1>5. conn[c] \notin {"none", "queued"} /\ cprinted[c] = "none" /\ end[c] = "open"
  BY <1>1, <1>4 DEF StreamOK, IInv, TypeOK
<1>6. Live(c) <=> conn[c] = "served"
  BY <1>5 DEF Live, IInv, TypeOK
<1>7. StreamInv'
  <2>. SUFFICES ASSUME NEW d \in Clients PROVE StreamOK(d)'
    BY DEF StreamInv
  <2>1. CASE d = c
    BY <1>1, <1>3, <1>4, <1>5, <1>6, <2>1 DEF StreamOK
  <2>2. CASE d # c
    BY <1>1, <1>2, <2>2, StreamFrame DEF IInv
  <2>. QED  BY <2>1, <2>2
<1>8. SessionInv'
  <2>1. CASE c # cur
    <3>1. cur \in Clients \ {c} /\ SessionInv
      BY <2>1 DEF IInv, TypeOK
    <3>2. UNCHANGED serverVars
      BY DEF RecvOffset
    <3>3. UNCHANGED <<total[cur], data[cur], reply[cur], end[cur], cpc[cur],
                      cpos[cur], told[cur], cprinted[cur]>>
      BY <1>1, <1>2, <3>1
    <3>. QED  BY <3>1, <3>2, <3>3, SessionFrame
  <2>2. CASE c = cur /\ conn[c] # "served"
    <3>1. spc \notin {"name", "total", "data"}
      BY <2>2 DEF IInv, ConnInv, Serving
    <3>. QED  BY <1>1, <3>1, SMTT(30) DEF IInv, SessionInv, Continues, FileSize
  <2>3. CASE c = cur /\ conn[c] = "served"
    <3>1. spc = "total"
      BY <1>1, <2>3, ServedIsCur DEF IInv, SessionInv
    <3>2. reply[cur] = <<Len(disk)>> /\ total[cur] = <<>> /\ data[cur] = <<>> /\ wbuf = <<>>
      BY <1>1, <2>3, <3>1 DEF IInv, SessionInv
    <3>3. currbytes = Len(disk) /\ Len(disk) \in Nat /\ Len(wbuf) = 0 /\ Len(data[cur]) = 0
      BY <2>3, <3>2, LenProperties DEF IInv, TypeOK
    <3>4. total'[cur] = <<FileSize - Len(disk)>> /\ cpos'[cur] = Len(disk)
      BY <1>3, <1>6, <2>3, <3>3
    <3>5. UNCHANGED <<Stored, Sent(cur), FileSize, Continues(disk, 0),
                      Continues(wbuf, Len(disk)), Continues(data[cur], Stored)>>
      BY <1>1 DEF Stored, Sent, FileSize, Continues
    <3>6. Sent(cur) = Len(disk)
      BY <3>3 DEF Sent, Stored
    <3>. QED
      BY <1>1, <1>3, <1>5, <2>3, <3>1, <3>2, <3>4, <3>5, <3>6, SMTT(30) DEF IInv, SessionInv
  <2>. QED  BY <2>1, <2>2, <2>3
<1>. QED  BY <1>1, <1>7, <1>8, ConnFrame, CountFrame DEF IInv, RecvOffset

\* A client that goes on with an unassigned offset has lost its connection: nothing
\* it announces or sends reaches the server.
LEMMA RecvNoOffsetInv ==
  ASSUME IInv, NEW c \in Clients, RecvNoOffset(c)
  PROVE  ConnInv' /\ StreamInv' /\ SessionInv' /\ CountInv'
<1>. USE DEF connVars, serverVars
<1>1. /\ UNCHANGED <<spc, cur, disk, wbuf, conn, backlog, end, data, reply, told, cprinted>>
      /\ cpc[c] = "waiting" /\ conn[c] = "closed" /\ reply[c] = <<>>
      /\ cpc' = [cpc EXCEPT ![c] = "sending"]
      /\ \E g \in Garbage :
           /\ cpos' = [cpos EXCEPT ![c] = IF g < 0 THEN FileSize ELSE g]
           /\ total' = [total EXCEPT ![c] = IF Live(c) THEN <<FileSize - g>> ELSE @]
  BY DEF RecvNoOffset, StartAt
<1>2. \A d \in Clients \ {c} : UNCHANGED <<total[d], cpc[d], cpos[d]>>
  BY <1>1 DEF IInv, TypeOK
<1>3. cpc'[c] = "sending" /\ total'[c] = total[c]
  BY <1>1 DEF IInv, TypeOK, Live
<1>4. StreamOK(c)
  BY DEF IInv, StreamInv
<1>5. StreamInv'
  <2>. SUFFICES ASSUME NEW d \in Clients PROVE StreamOK(d)'
    BY DEF StreamInv
  <2>1. CASE d = c
    BY <1>1, <1>3, <1>4, <2>1 DEF StreamOK
  <2>2. CASE d # c
    BY <1>1, <1>2, <2>2, StreamFrame DEF IInv
  <2>. QED  BY <2>1, <2>2
<1>6. SessionInv'
  <2>1. CASE c # cur
    BY <1>1, <1>2, <2>1, SessionFrame DEF IInv, TypeOK, RecvNoOffset
  <2>2. CASE c = cur
    <3>1. spc \notin {"name", "total", "data"}
      BY <1>1, <2>2 DEF IInv, ConnInv, Serving
    <3>. QED  BY <1>1, <3>1 DEF IInv, SessionInv, Continues, FileSize
  <2>. QED  BY <2>1, <2>2
<1>. QED  BY <1>1, <1>5, <1>6, ConnFrame, CountFrame DEF IInv, RecvNoOffset

\* A piece that is sent continues what is stored and under way.
LEMMA SendChunkInv ==
  ASSUME IInv, NEW c \in Clients, SendChunk(c)
  PROVE  ConnInv' /\ StreamInv' /\ SessionInv' /\ CountInv'
<1>. USE DEF connVars, serverVars
<1>. DEFINE n == SmallerOf(BUFSIZE, FileSize - cpos[c])
<1>1. /\ UNCHANGED <<spc, cur, disk, wbuf, conn, backlog, end, total, reply, cpc,
                     told, cprinted>>
      /\ cpc[c] = "sending" /\ end[c] # "rst" /\ cpos[c] < FileSize
      /\ cpos' = [cpos EXCEPT ![c] = @ + n]
      /\ data' = [data EXCEPT ![c] = IF Live(c) THEN @ \o Bytes(cpos[c], cpos[c] + n) ELSE @]
  BY DEF SendChunk
<1>2. \A d \in Clients \ {c} : UNCHANGED <<data[d], cpos[d]>>
  BY <1>1 DEF IInv, TypeOK
<1>3. /\ cpos'[c] = cpos[c] + n
      /\ data'[c] = IF Live(c) THEN data[c] \o Bytes(cpos[c], cpos[c] + n) ELSE data[c]
  BY <1>1 DEF IInv, TypeOK
<1>4. StreamOK(c)
  BY DEF IInv, StreamInv
<1>5. /\ conn[c] \notin {"none", "queued"} /\ cprinted[c] = "none" /\ end[c] = "open"
      /\ Live(c) <=> conn[c] = "served"
  BY <1>1, <1>4 DEF StreamOK, Live, IInv, TypeOK
<1>6. StreamInv'
  <2>. SUFFICES ASSUME NEW d \in Clients PROVE StreamOK(d)'
    BY DEF StreamInv
  <2>1. CASE d = c
    BY <1>1, <1>3, <1>4, <1>5, <2>1 DEF StreamOK
  <2>2. CASE d # c
    BY <1>1, <1>2, <2>2, StreamFrame DEF IInv
  <2>. QED  BY <2>1, <2>2
<1>7. SessionInv'
  <2>1. CASE c # cur
    BY <1>1, <1>2, <2>1, SessionFrame DEF IInv, TypeOK, SendChunk
  <2>2. CASE c = cur /\ conn[c] # "served"
    <3>1. spc \notin {"name", "total", "data"}
      BY <2>2 DEF IInv, ConnInv, Serving
    <3>. QED  BY <1>1, <3>1 DEF IInv, SessionInv, Continues, FileSize
  <2>3. CASE c = cur /\ conn[c] = "served"
    <3>1. spc \in {"total", "data"} /\ (spc = "total" => total[cur] # <<>>)
      BY <1>1, <1>5, <2>3, ServedIsCur DEF IInv, SessionInv
    <3>2. Continues(data[cur], Stored) /\ cpos[cur] = Sent(cur)
      BY <1>1, <1>5, <2>3, <3>1 DEF IInv, SessionInv
    <3>3. /\ data[cur] \in Seq(Byte) /\ Len(data[cur]) \in Nat /\ Stored \in Nat
          /\ cpos[cur] \in Nat /\ BUFSIZE \in Nat
      <4>1. disk \in Seq(Byte) /\ wbuf \in Seq(Byte) /\ data[cur] \in Seq(Byte)
        BY DEF IInv, TypeOK
      <4>. QED  BY <4>1, LenProperties, ConstantsAssumption DEF Stored, IInv, TypeOK
    <3>4. /\ cpos[cur] \in 0 .. FileSize /\ cpos[cur] + n \in cpos[cur] .. FileSize
          /\ n \in Nat
      BY <1>1, <2>3, <3>3, FileSizeIsNat DEF SmallerOf
    <3>5. /\ Bytes(cpos[cur], cpos[cur] + n) \in Seq(Byte)
          /\ Len(Bytes(cpos[cur], cpos[cur] + n)) = n
          /\ Continues(Bytes(cpos[cur], cpos[cur] + n), cpos[cur])
      BY <3>3, <3>4, ContinuesBytes
    <3>6. data'[cur] = data[cur] \o Bytes(cpos[cur], cpos[cur] + n)
      BY <1>3, <1>5, <2>3
    <3>7. Continues(data'[cur], Stored) /\ Len(data'[cur]) = Len(data[cur]) + n
      <4>. DEFINE b == Bytes(cpos[cur], cpos[cur] + n)
      <4>1. Continues(b, Stored + Len(data[cur])) /\ b \in Seq(Byte) /\ Len(b) = n
        BY <3>2, <3>5 DEF Sent
      <4>2. data'[cur] = data[cur] \o b
        BY <3>6
      <4>. HIDE DEF b
      <4>3. Continues(data[cur] \o b, Stored)
        BY <3>2, <3>3, <4>1, ContinuesConcat
      <4>4. Len(data[cur] \o b) = Len(data[cur]) + Len(b)
        BY <3>3, <4>1, ConcatProperties
      <4>. QED  BY <4>1, <4>2, <4>3, <4>4
    <3>8. cpos'[cur] = Stored + Len(data'[cur])
      <4>1. cpos'[cur] = cpos[cur] + n /\ cpos[cur] = Stored + Len(data[cur])
        BY <1>3, <2>3, <3>2 DEF Sent
      <4>. HIDE DEF n
      <4>. QED  BY <4>1, <3>3, <3>4, <3>7
    <3>9. UNCHANGED <<Stored, FileSize, Continues(disk, 0), Continues(wbuf, Len(disk))>>
      BY <1>1 DEF Stored, FileSize, Continues
    <3>10. Sent(cur)' = Stored + Len(data'[cur])
           /\ Continues(data[cur], Stored)' = Continues(data'[cur], Stored)
      BY <1>1, <3>9 DEF Sent, Continues
    <3>. QED  BY <1>1, <1>5, <2>3, <3>1, <3>7, <3>8, <3>9, <3>10 DEF IInv, SessionInv
  <2>. QED  BY <2>1, <2>2, <2>3
<1>. QED  BY <1>1, <1>6, <1>7, ConnFrame, CountFrame DEF IInv, SendChunk

\* The ends that print nothing.
LEMMA ExitQuietlyInv ==
  ASSUME IInv, NEW c \in Clients, cpc[c] # "idle", Exit(c),
         UNCHANGED <<serverVars, cpos, told, cprinted>>
  PROVE  ConnInv' /\ StreamInv' /\ SessionInv' /\ CountInv'
<1>1. cprinted[c] = "none" /\ cprinted \in [Clients -> {"none", "complete", "failed"}]
  <2>1. StreamOK(c)
    BY DEF IInv, StreamInv
  <2>. QED  BY <2>1 DEF StreamOK, IInv, TypeOK
<1>2. cprinted' = [cprinted EXCEPT ![c] = "none"]
  BY <1>1
<1>. QED  BY <1>2, ExitInv

\* A client that printed its result was at the end of its file.
LEMMA FinishInv ==
  ASSUME IInv, NEW c \in Clients, Finish(c)
  PROVE  ConnInv' /\ StreamInv' /\ SessionInv' /\ CountInv'
<1>. DEFINE r == IF cnum[c] = ctotal[c] THEN "complete" ELSE "failed"
<1>1. /\ cpc[c] = "sending" /\ cpos[c] >= FileSize
      /\ cprinted' = [cprinted EXCEPT ![c] = r] /\ Exit(c)
      /\ UNCHANGED <<serverVars, cpos, told>>
  BY DEF Finish
<1>2. r \in {"none", "complete", "failed"} /\ cpc[c] # "idle"
  BY <1>1
<1>. HIDE DEF r
<1>. QED  BY <1>1, <1>2, ExitInv

\* A cut loses a suffix of what is under way, so what arrived has no gap.
LEMMA ResetInv ==
  ASSUME IInv, NEW c \in Clients, Reset(c)
  PROVE  ConnInv' /\ StreamInv' /\ SessionInv' /\ CountInv'
<1>. USE DEF serverVars, clientVars
<1>1. /\ UNCHANGED <<spc, cur, disk, wbuf, conn, backlog, cpc, cpos, told, cprinted>>
      /\ end' = [end EXCEPT ![c] = "rst"] /\ reply' = [reply EXCEPT ![c] = <<>>]
      /\ conn[c] \in {"queued", "served"} /\ end[c] = "open"
  BY DEF Reset, Live
<1>2. \/ total' = total /\ \E n \in 0 .. Len(data[c]) :
                              data' = [data EXCEPT ![c] = SubSeq(@, 1, n)]
      \/ total' = [total EXCEPT ![c] = <<>>] /\ data' = [data EXCEPT ![c] = <<>>]
  BY DEF Reset
<1>3. data \in [Clients -> Seq(Byte)] /\ total \in [Clients -> Seq(Int)] /\ cur \in Clients
      /\ end \in [Clients -> {"open", "fin", "rst"}] /\ reply \in [Clients -> Seq(Nat)]
  BY DEF IInv, TypeOK
<1>4. \A d \in Clients \ {c} : UNCHANGED <<data[d], total[d], end[d], reply[d]>>
  BY <1>1, <1>2, <1>3
<1>5. end'[c] = "rst" /\ reply'[c] = <<>>
  BY <1>1, <1>3
<1>6. \/ total'[c] = total[c] /\ \E n \in 0 .. Len(data[c]) : data'[c] = SubSeq(data[c], 1, n)
      \/ total'[c] = <<>> /\ data'[c] = <<>>
  BY <1>2, <1>3
<1>7. data[c] = <<>> => data'[c] = <<>>
  BY <1>3, <1>6, EmptySeq, SubSeqEmpty
<1>8. StreamOK(c)
  BY DEF IInv, StreamInv
<1>9. StreamInv'
  <2>. SUFFICES ASSUME NEW d \in Clients PROVE StreamOK(d)'
    BY DEF StreamInv
  <2>1. CASE d = c
    <3>1. total[c] = <<>> => total'[c] = <<>>
      BY <1>6
    <3>. QED  BY <1>1, <1>5, <1>7, <1>8, <2>1, <3>1 DEF StreamOK
  <2>2. CASE d # c
    BY <1>1, <1>4, <2>2, StreamFrame DEF IInv
  <2>. QED  BY <2>1, <2>2
<1>10. SessionInv'
  <2>1. CASE c # cur
    BY <1>1, <1>3, <1>4, <2>1, SessionFrame DEF IInv, Reset
  <2>2. CASE c = cur
    <3>1. ASSUME Continues(data[cur], Stored) PROVE Continues(data'[cur], Stored)
      <4>1. Stored \in Nat /\ Stored <= FileSize
        <5>1. disk \in Seq(Byte) /\ wbuf \in Seq(Byte)
          BY DEF IInv, TypeOK
        <5>2. Len(disk) + Len(wbuf) <= FileSize
          BY DEF IInv, SessionInv, Continues
        <5>. QED  BY <5>1, <5>2, LenProperties DEF Stored
      <4>2. CASE data'[cur] = <<>>
        BY <4>1, <4>2, ContinuesEmpty
      <4>3. ASSUME NEW n \in 0 .. Len(data[cur]), data'[cur] = SubSeq(data[cur], 1, n)
            PROVE  Continues(data'[cur], Stored)
        BY <1>3, <3>1, <4>1, <4>3, ContinuesPieces
      <4>. QED  BY <1>6, <2>2, <4>2, <4>3
    <3>2. UNCHANGED <<Stored, FileSize, Continues(disk, 0), Continues(wbuf, Len(disk))>>
          /\ Continues(data[cur], Stored)' = Continues(data'[cur], Stored)
      BY <1>1 DEF Stored, FileSize, Continues
    <3>3. spc = "total" => total'[cur] \in {<<>>, <<FileSize - Len(disk)>>}
                           /\ (total'[cur] = <<>> => data'[cur] = <<>>)
      BY <1>6, <1>7, <2>2 DEF IInv, SessionInv
    <3>4. /\ spc = "name" => total'[cur] = <<>> /\ data'[cur] = <<>>
          /\ spc = "data" => total'[cur] = <<>>
      BY <1>6, <1>7, <2>2 DEF IInv, SessionInv
    <3>. QED  BY <1>1, <1>5, <2>2, <3>1, <3>2, <3>3, <3>4 DEF IInv, SessionInv
  <2>. QED  BY <2>1, <2>2
<1>. QED  BY <1>1, <1>9, <1>10, ConnFrame, CountFrame DEF IInv, Reset

\* Every step of a client, and every cut of its connection.
LEMMA ClientInv ==
  ASSUME IInv, NEW c \in Clients
  PROVE  Connect(c) \/ ClientStep(c) \/ OpenFails(c) \/ Kill(c) \/ Reset(c)
           => ConnInv' /\ StreamInv' /\ SessionInv' /\ CountInv'
<1>1. ASSUME Abort(c) \/ OpenFails(c) \/ Kill(c)
      PROVE  ConnInv' /\ StreamInv' /\ SessionInv' /\ CountInv'
  <2>1. /\ cpc[c] # "idle" /\ Exit(c)
        /\ UNCHANGED <<serverVars, cpos, told, cprinted>>
    BY <1>1 DEF Abort, OpenFails, Kill
  <2>. QED  BY <2>1, ExitQuietlyInv
<1>. QED  BY <1>1, ConnectInv, SendNameInv, RecvOffsetInv, RecvNoOffsetInv, SendChunkInv,
             FinishInv, ResetInv DEF ClientStep

-----------------------------------------------------------------------------
(* The server's steps.                                                     *)

\* What stdio writes, of bytes that continue the file, continues it, and what
\* it keeps continues that.
LEMMA StoreContinues ==
  ASSUME TypeOK, Continues(disk, 0), NEW b \in Seq(Byte), Continues(b, Len(disk)),
         NEW n \in 0 .. Len(b), Store(b, n) \/ StoreFails(b, n)
  PROVE  /\ Continues(disk', 0)
         /\ wbuf' # <<>> => Continues(wbuf', Len(disk'))
         /\ Len(disk') = Len(disk) + n
         /\ Store(b, n) => Len(wbuf') = Len(b) - n
<1>1. disk \in Seq(Byte) /\ Len(disk) \in Nat
  BY LenProperties DEF TypeOK
<1>2. /\ Continues(SubSeq(b, 1, n), Len(disk))
      /\ Continues(SubSeq(b, n + 1, Len(b)), Len(disk) + n)
  BY <1>1, ContinuesPieces
<1>3. SubSeq(b, 1, n) \in Seq(Byte)
  BY PieceType
<1>4. disk' = disk \o SubSeq(b, 1, n)
  BY DEF Store, StoreFails
<1>5. Continues(SubSeq(b, 1, n), 0 + Len(disk))
  BY <1>1, <1>2
<1>6. Continues(disk', 0)
  BY <1>1, <1>3, <1>4, <1>5, ContinuesConcat
<1>7. /\ Len(disk') = Len(disk) + n
      /\ Store(b, n) => Len(wbuf') = Len(b) - n
  BY TypeStore
<1>8. wbuf' # <<>> => wbuf' = SubSeq(b, n + 1, Len(b))
  BY DEF Store, StoreFails
<1>. QED  BY <1>2, <1>6, <1>7, <1>8

\* Where the file and the buffer stand, in numbers.
LEMMA StoredFacts ==
  ASSUME IInv
  PROVE  /\ disk \in Seq(Byte) /\ wbuf \in Seq(Byte) /\ cur \in Clients
         /\ data[cur] \in Seq(Byte) /\ Len(data[cur]) \in Nat
         /\ Len(disk) \in Nat /\ Len(wbuf) \in Nat
         /\ Stored = Len(disk) + Len(wbuf) /\ Stored \in 0 .. FileSize
         /\ Len(disk) <= FileSize /\ FileSize \in Nat
<1>1. disk \in Seq(Byte) /\ wbuf \in Seq(Byte) /\ data[cur] \in Seq(Byte) /\ cur \in Clients
  BY DEF IInv, TypeOK
<1>2. Len(disk) + Len(wbuf) <= FileSize
  BY DEF IInv, SessionInv, Continues
<1>. QED  BY <1>1, <1>2, LenProperties, FileSizeIsNat DEF Stored

\* Closing the connection that is served leaves the others as they are.
LEMMA CloseCur ==
  ASSUME IInv, Serving, Close({cur}), spc' = "accept",
         UNCHANGED <<cur, backlog, reply, end, clientVars>>
  PROVE  ConnInv' /\ StreamInv'
<1>. USE DEF clientVars
<1>1. /\ conn'[cur] = IF cpc[cur] = "idle" THEN "none" ELSE "closed"
      /\ total'[cur] = <<>> /\ data'[cur] = <<>> /\ cur \in Clients
  BY DEF Close, IInv, TypeOK
<1>2. \A d \in Clients \ {cur} : UNCHANGED <<conn[d], total[d], data[d]>>
  BY DEF Close, IInv, TypeOK
<1>3. conn[cur] = "served"
  BY <1>1 DEF IInv, ConnInv
<1>4. \A i \in 1 .. Len(backlog) : backlog[i] \in Clients
  BY ElementOfSeq DEF IInv, TypeOK
<1>5. ConnInv'
  <2>1. \A d \in Clients : conn'[d] # "served"
    BY <1>1, <1>2 DEF IInv, ConnInv
  <2>2. \A i \in 1 .. Len(backlog) : conn'[backlog[i]] = "queued"
    BY <1>2, <1>3, <1>4 DEF IInv, ConnInv
  <2>. QED  BY <2>1, <2>2 DEF IInv, ConnInv, Serving
<1>6. StreamInv'
  <2>. SUFFICES ASSUME NEW d \in Clients PROVE StreamOK(d)'
    BY DEF StreamInv
  <2>1. CASE d = cur
    <3>1. StreamOK(cur)
      BY <1>1 DEF IInv, StreamInv
    <3>. QED  BY <1>1, <1>3, <2>1, <3>1 DEF StreamOK
  <2>2. CASE d # cur
    BY <1>2, <2>2, StreamFrame DEF IInv
  <2>. QED  BY <2>1, <2>2
<1>. QED  BY <1>5, <1>6

\* A session that ends before the file is opened leaves it as it was.
LEMMA GiveUpInv ==
  ASSUME IInv, spc \in {"name", "total"}, GiveUp, UNCHANGED sound
  PROVE  ConnInv' /\ StreamInv' /\ SessionInv' /\ CountInv'
<1>1. /\ spc' = "accept" /\ Close({cur})
      /\ UNCHANGED <<cur, totalbytes, numtotal, disk, wbuf, printed, reply, backlog,
                     end, clientVars>>
  BY DEF GiveUp
<1>2. ConnInv' /\ StreamInv'
  BY <1>1, CloseCur DEF Serving
<1>3. SessionInv'
  BY <1>1 DEF IInv, SessionInv, Continues, FileSize
<1>4. CountInv'
  BY <1>1 DEF IInv, CountInv, Serving
<1>. QED  BY <1>2, <1>3, <1>4

\* The end of a session that wrote what it held.
LEMMA ReportInv ==
  ASSUME IInv, spc = "data", Report, Continues(disk', 0), wbuf' = <<>>,
         sound' => sound /\ Len(disk') = Stored
  PROVE  ConnInv' /\ StreamInv' /\ SessionInv' /\ CountInv'
<1>1. /\ spc' = "accept" /\ Close({cur})
      /\ printed' = IF numtotal = totalbytes THEN "complete" ELSE "failed"
      /\ UNCHANGED <<cur, filename, totalbytes, numtotal, reply, backlog, end, clientVars>>
  BY DEF Report
<1>2. ConnInv' /\ StreamInv'
  BY <1>1, CloseCur DEF Serving
<1>3. Continues(wbuf', Len(disk')) /\ FileSize' = FileSize
  BY ContinuesEmpty, EmptySeq, FileSizeIsNat DEF Continues, FileSize
<1>4. SessionInv'
  <2>1. Continues(disk, 0)' = Continues(disk', 0)
        /\ Continues(wbuf, Len(disk))' = Continues(wbuf', Len(disk'))
    BY DEF Continues, FileSize
  <2>. QED  BY <1>1, <1>3, <2>1 DEF SessionInv
<1>5. CountInv'
  <2>1. sound' /\ numtotal = totalbytes => Len(disk') = FileSize
    <3>1. sound /\ numtotal = totalbytes => 0 = FileSize - Stored
      BY DEF IInv, CountInv, TypeOK
    <3>. QED  BY <3>1, StoredFacts
  <2>. QED  BY <1>1, <1>3, <2>1 DEF CountInv, Serving
<1>. QED  BY <1>2, <1>4, <1>5

\* The next session begins with the next client of the backlog.
LEMMA AcceptInv ==
  ASSUME IInv, Accept
  PROVE  ConnInv' /\ StreamInv' /\ SessionInv' /\ CountInv'
<1>. USE DEF streamVars, clientVars
<1>1. /\ spc = "accept" /\ backlog # <<>> /\ spc' = "name"
      /\ cur' = Head(backlog) /\ backlog' = Tail(backlog)
      /\ conn' = [conn EXCEPT ![Head(backlog)] = "served"]
      /\ printed' = "none"
      /\ UNCHANGED <<disk, wbuf, total, data, reply, end, cpc, told, cprinted>>
  BY DEF Accept
<1>2. /\ backlog \in Seq(Clients) /\ Len(backlog) \in Nat \ {0}
      /\ Head(backlog) = backlog[1] /\ backlog[1] \in Clients
      /\ Len(Tail(backlog)) = Len(backlog) - 1
      /\ \A i \in 1 .. Len(backlog) - 1 : /\ Tail(backlog)[i] = backlog[i + 1]
                                          /\ backlog[i + 1] \in Clients
  <2>1. backlog \in Seq(Clients)
    BY DEF IInv, TypeOK
  <2>2. Len(backlog) \in Nat \ {0}
    BY <1>1, <2>1, EmptySeq
  <2>3. \A i \in 1 .. Len(backlog) : backlog[i] \in Clients
    BY <2>1, ElementOfSeq
  <2>. QED  BY <1>1, <2>1, <2>2, <2>3, HeadTailProperties
<1>3. /\ conn'[cur'] = "served" /\ conn[cur'] = "queued" /\ cur' \in Clients
      /\ \A d \in Clients \ {cur'} : conn'[d] = conn[d]
  <2>1. conn \in [Clients -> {"none", "queued", "served", "closed"}]
    BY DEF IInv, TypeOK
  <2>2. cur' = backlog[1] /\ conn[backlog[1]] = "queued"
    BY <1>1, <1>2 DEF IInv, ConnInv
  <2>. QED  BY <1>1, <1>2, <2>1, <2>2
<1>4. ConnInv'
  <2>1. \A d \in Clients : conn[d] # "served"
    BY <1>1 DEF IInv, ConnInv, Serving
  <2>2. \A i \in 1 .. Len(backlog') : backlog'[i] # cur' /\ conn'[backlog'[i]] = "queued"
    <3>. SUFFICES ASSUME NEW i \in 1 .. Len(backlog) - 1
                  PROVE  backlog[i + 1] # backlog[1] /\ conn'[backlog[i + 1]] = "queued"
      BY <1>1, <1>2
    <3>1. i + 1 \in 1 .. Len(backlog) /\ 1 \in 1 .. Len(backlog) /\ i + 1 # 1
      BY <1>2
    <3>2. backlog[i + 1] # backlog[1] /\ conn[backlog[i + 1]] = "queued"
      BY <3>1 DEF IInv, ConnInv
    <3>. QED  BY <1>1, <1>2, <1>3, <3>2
  <2>3. \A i, j \in 1 .. Len(backlog') : backlog'[i] = backlog'[j] => i = j
    <3>. SUFFICES ASSUME NEW i \in 1 .. Len(backlog) - 1, NEW j \in 1 .. Len(backlog) - 1,
                         backlog[i + 1] = backlog[j + 1]
                  PROVE  i = j
      BY <1>1, <1>2
    <3>1. i + 1 \in 1 .. Len(backlog) /\ j + 1 \in 1 .. Len(backlog)
      BY <1>2
    <3>2. i + 1 = j + 1
      BY <3>1 DEF IInv, ConnInv
    <3>. QED  BY <3>2
  <2>. QED  BY <1>1, <1>3, <2>1, <2>2, <2>3 DEF ConnInv, Serving
<1>5. StreamOK(cur')
  BY <1>3 DEF IInv, StreamInv
<1>6. StreamInv'
  <2>. SUFFICES ASSUME NEW d \in Clients PROVE StreamOK(d)'
    BY DEF StreamInv
  <2>1. CASE d = cur'
    BY <1>1, <1>3, <1>5, <2>1 DEF StreamOK
  <2>2. CASE d # cur'
    BY <1>1, <1>3, <2>2, StreamFrame DEF IInv
  <2>. QED  BY <2>1, <2>2
<1>7. SessionInv'
  <2>1. /\ total[cur'] = <<>> /\ data[cur'] = <<>> /\ reply[cur'] = <<>>
        /\ cpc[cur'] # "sending" /\ ~ told[cur']
    BY <1>3, <1>5 DEF StreamOK
  <2>2. /\ Continues(disk, 0)' /\ Continues(wbuf, Len(disk))' /\ wbuf' = <<>>
    BY <1>1 DEF IInv, SessionInv, Continues, FileSize
  <2>. QED  BY <1>1, <2>1, <2>2 DEF SessionInv
<1>8. CountInv'
  BY <1>1 DEF CountInv
<1>. QED  BY <1>4, <1>6, <1>7, <1>8

\* The offset the server sends is the size of its file.
LEMMA RecvNameInv ==
  ASSUME IInv, RecvName
  PROVE  ConnInv' /\ StreamInv' /\ SessionInv' /\ CountInv'
<1>. USE DEF connVars, clientVars
<1>1. /\ spc = "name" /\ spc' = "total"
      /\ reply' = [reply EXCEPT ![cur] = IF end[cur] = "open" THEN <<Len(disk)>> ELSE @]
      /\ UNCHANGED <<cur, totalbytes, numtotal, disk, wbuf, printed, sound, total, data,
                     conn, backlog, end, cpc, cpos, told, cprinted>>
  BY DEF RecvName
<1>2. /\ cur \in Clients /\ conn[cur] = "served" /\ StreamOK(cur)
      /\ reply'[cur] = IF end[cur] = "open" THEN <<Len(disk)>> ELSE reply[cur]
      /\ \A d \in Clients \ {cur} : reply'[d] = reply[d]
  <2>1. cur \in Clients /\ reply \in [Clients -> Seq(Nat)]
    BY DEF IInv, TypeOK
  <2>2. conn[cur] = "served" /\ StreamOK(cur)
    BY <1>1, <2>1 DEF IInv, StreamInv, ConnInv, Serving
  <2>. QED  BY <1>1, <2>1, <2>2
<1>3. /\ total[cur] = <<>> /\ data[cur] = <<>> /\ reply[cur] = <<>> /\ wbuf = <<>>
      /\ cpc[cur] # "sending" /\ ~ told[cur]
  BY <1>1 DEF IInv, SessionInv
<1>4. ConnInv'
  BY <1>1 DEF IInv, ConnInv, Serving
<1>5. StreamInv'
  <2>. SUFFICES ASSUME NEW d \in Clients PROVE StreamOK(d)'
    BY DEF StreamInv
  <2>1. CASE d = cur
    BY <1>1, <1>2, <1>3, <2>1 DEF StreamOK
  <2>2. CASE d # cur
    BY <1>1, <1>2, <2>2, StreamFrame DEF IInv
  <2>. QED  BY <2>1, <2>2
<1>6. SessionInv'
  <2>1. /\ Continues(disk, 0)' /\ Continues(wbuf, Len(disk))' /\ Continues(data[cur], Stored)'
        /\ FileSize' = FileSize
    <3>1. Continues(<<>>, Stored)
      BY StoredFacts, ContinuesEmpty
    <3>. QED  BY <1>1, <1>3, <3>1 DEF IInv, SessionInv, Continues, FileSize, Stored
  <2>2. reply'[cur] \in {<<>>, <<Len(disk)>>}
    BY <1>2, <1>3
  <2>. QED  BY <1>1, <1>3, <2>1, <2>2 DEF SessionInv
<1>7. CountInv'
  BY <1>1 DEF IInv, CountInv, Serving, FileSize
<1>. QED  BY <1>4, <1>5, <1>6, <1>7

\* What recv() of totalbytes leads to, whether it arrived (sound') or not.
LEMMA BeginDataInv ==
  ASSUME IInv, spc = "total", spc' = "data", numtotal' = 0,
         UNCHANGED <<cur, disk, wbuf, printed, data, reply, connVars, clientVars>>,
         total' = [total EXCEPT ![cur] = <<>>], reply[cur] = <<>>, totalbytes' \in Int,
         sound' => totalbytes' = FileSize - Len(disk)
  PROVE  ConnInv' /\ StreamInv' /\ SessionInv' /\ CountInv'
<1>. USE DEF connVars, clientVars
<1>1. /\ cur \in Clients /\ total'[cur] = <<>> /\ StreamOK(cur)
      /\ \A d \in Clients \ {cur} : total'[d] = total[d]
  BY DEF IInv, TypeOK, StreamInv
<1>2. ConnInv'
  BY DEF IInv, ConnInv, Serving
<1>3. StreamInv'
  <2>. SUFFICES ASSUME NEW d \in Clients PROVE StreamOK(d)'
    BY DEF StreamInv
  <2>1. CASE d = cur
    BY <1>1, <2>1 DEF StreamOK
  <2>2. CASE d # cur
    BY <1>1, <2>2, StreamFrame DEF IInv
  <2>. QED  BY <2>1, <2>2
<1>4. UNCHANGED <<Stored, Sent(cur), FileSize, Continues(disk, 0),
                  Continues(wbuf, Len(disk)), Continues(data[cur], Stored)>>
  BY DEF Stored, Sent, FileSize, Continues
<1>5. SessionInv'
  BY <1>1, <1>4 DEF IInv, SessionInv
<1>6. CountInv'
  <2>1. wbuf = <<>>
    BY DEF IInv, SessionInv
  <2>2. Stored = Len(disk)
    BY <2>1, StoredFacts, EmptySeq
  <2>3. sound' => totalbytes' - numtotal' = FileSize - Stored
    BY <2>2, StoredFacts
  <2>. QED  BY <1>4, <2>3 DEF IInv, CountInv, Serving
<1>. QED  BY <1>2, <1>3, <1>5, <1>6

\* The total that arrives is what the server's file lacks.
LEMMA RecvTotalInv ==
  ASSUME IInv, RecvTotal
  PROVE  ConnInv' /\ StreamInv' /\ SessionInv' /\ CountInv'
<1>1. /\ spc = "total" /\ total[cur] # <<>> /\ totalbytes' = Head(total[cur])
      /\ total' = [total EXCEPT ![cur] = <<>>] /\ spc' = "data" /\ numtotal' = 0
      /\ UNCHANGED <<cur, disk, wbuf, printed, data, reply, connVars, clientVars>>
  BY DEF RecvTotal
<1>2. total[cur] = <<FileSize - Len(disk)>> /\ reply[cur] = <<>>
  BY <1>1 DEF IInv, SessionInv
<1>3. totalbytes' = FileSize - Len(disk) /\ totalbytes' \in Int
  BY <1>1, <1>2, StoredFacts
<1>. QED  BY <1>1, <1>2, <1>3, BeginDataInv

\* Without a total the session goes on, but it is no longer sound.
LEMMA RecvNoTotalInv ==
  ASSUME IInv, RecvNoTotal
  PROVE  ConnInv' /\ StreamInv' /\ SessionInv' /\ CountInv'
<1>. USE DEF streamVars
<1>1. /\ spc = "total" /\ total[cur] = <<>> /\ end[cur] = "fin"
      /\ totalbytes' \in Garbage \union {totalbytes} /\ ~ sound'
      /\ spc' = "data" /\ numtotal' = 0
      /\ UNCHANGED <<cur, disk, wbuf, printed, total, data, reply, connVars, clientVars>>
  BY DEF RecvNoTotal
<1>2. StreamOK(cur) /\ totalbytes' \in Int /\ total \in [Clients -> Seq(Int)]
  BY <1>1, ConstantsAssumption DEF IInv, StreamInv, TypeOK
<1>3. reply[cur] = <<>> /\ total' = [total EXCEPT ![cur] = <<>>]
  BY <1>1, <1>2 DEF StreamOK
<1>. QED  BY <1>1, <1>2, <1>3, BeginDataInv

\* A piece that is received moves from the connection to stdio and the file.
LEMMA RecvDataInv ==
  ASSUME IInv, RecvData
  PROVE  ConnInv' /\ StreamInv' /\ SessionInv' /\ CountInv'
<1>. USE DEF connVars, clientVars
<1>. DEFINE piece == SubSeq(data[cur], 1, Received)
            rest  == SubSeq(data[cur], Received + 1, Len(data[cur]))
            b     == wbuf \o piece
<1>1. /\ spc = "data" /\ CanReceive
      /\ \E n \in 0 .. Len(b) : Store(b, n)
      /\ data' = [data EXCEPT ![cur] = rest] /\ numtotal' = numtotal + Received
      /\ UNCHANGED <<spc, cur, totalbytes, printed, sound, total, reply,
                     conn, backlog, end, cpc, cpos, told, cprinted>>
  BY DEF RecvData
<1>2. /\ Received \in 1 .. Len(data[cur]) /\ b \in Seq(Byte) /\ rest \in Seq(Byte)
      /\ Len(b) = Len(wbuf) + Received /\ Len(rest) = Len(data[cur]) - Received
  BY <1>1, TypeReceived DEF IInv
<1>3. Continues(disk, 0) /\ Continues(wbuf, Len(disk)) /\ Continues(data[cur], Stored)
  BY <1>1 DEF IInv, SessionInv
<1>4. Continues(piece, Stored) /\ Continues(rest, Stored + Received) /\ piece \in Seq(Byte)
  BY <1>2, <1>3, StoredFacts, ContinuesPieces, PieceType
<1>5. Continues(b, Len(disk))
  BY <1>3, <1>4, StoredFacts, ContinuesConcat
<1>6. /\ data'[cur] = rest /\ cur \in Clients
      /\ \A d \in Clients \ {cur} : data'[d] = data[d]
  BY <1>1 DEF IInv, TypeOK
<1>. HIDE DEF b, rest, piece
<1>7. PICK n \in 0 .. Len(b) : Store(b, n)
  BY <1>1
<1>8. /\ Continues(disk', 0) /\ (wbuf' # <<>> => Continues(wbuf', Len(disk')))
      /\ Len(disk') = Len(disk) + n /\ Len(wbuf') = Len(b) - n
  BY <1>2, <1>3, <1>5, <1>7, StoreContinues DEF IInv
<1>9. Stored' = Stored + Received /\ Sent(cur)' = Sent(cur) /\ FileSize' = FileSize
  <2>1. Stored' = Len(disk') + Len(wbuf') /\ Sent(cur)' = Stored' + Len(rest)
    BY <1>1, <1>6 DEF Stored, Sent
  <2>2. Stored' = Stored + Received
    BY <1>2, <1>7, <1>8, <2>1, StoredFacts
  <2>3. Sent(cur)' = Sent(cur)
    <3>1. Sent(cur) = Stored + Len(data[cur])
      BY DEF Sent
    <3>2. Stored \in Nat /\ Len(data[cur]) \in Nat /\ Received \in Nat
      BY <1>2, StoredFacts
    <3>3. \A i, j, k \in Nat : i + j + (k - j) = i + k
      OBVIOUS
    <3>4. Stored + Received + (Len(data[cur]) - Received) = Stored + Len(data[cur])
      BY <3>2, <3>3
    <3>. QED  BY <1>2, <2>1, <2>2, <3>1, <3>4
  <2>. QED  BY <2>2, <2>3 DEF FileSize
<1>10. Continues(wbuf', Len(disk'))
  <2>1. Len(disk') \in Nat /\ Len(disk') <= FileSize
    BY <1>2, <1>5, <1>7, <1>8, StoredFacts DEF Continues
  <2>. QED  BY <1>8, <2>1, ContinuesEmpty
<1>11. ConnInv'
  BY <1>1, ConnFrame DEF IInv
<1>12. StreamInv'
  <2>. SUFFICES ASSUME NEW d \in Clients PROVE StreamOK(d)'
    BY DEF StreamInv
  <2>1. CASE d = cur
    <3>1. StreamOK(cur) /\ conn[cur] = "served"
      BY <1>1, <1>6 DEF IInv, StreamInv, ConnInv, Serving
    <3>. QED  BY <1>1, <2>1, <3>1 DEF StreamOK
  <2>2. CASE d # cur
    BY <1>1, <1>6, <2>2, StreamFrame DEF IInv
  <2>. QED  BY <2>1, <2>2
<1>13. SessionInv'
  <2>1. /\ Continues(disk, 0)' = Continues(disk', 0)
        /\ Continues(wbuf, Len(disk))' = Continues(wbuf', Len(disk'))
        /\ Continues(data[cur], Stored)' = Continues(rest, Stored')
    BY <1>1, <1>6 DEF Continues, FileSize
  <2>. QED  BY <1>1, <1>4, <1>6, <1>8, <1>9, <1>10, <2>1 DEF IInv, SessionInv
<1>14. CountInv'
  <2>1. totalbytes \in Int /\ numtotal \in Nat /\ Received \in Nat
    BY <1>2 DEF IInv, TypeOK
  <2>2. sound => totalbytes - numtotal' = FileSize - Stored'
    <3>1. sound => totalbytes - numtotal = FileSize - Stored
      BY <1>1 DEF IInv, CountInv
    <3>. QED  BY <1>1, <1>9, <2>1, <3>1, StoredFacts
  <2>3. printed = "none"
    BY <1>1 DEF IInv, CountInv, Serving
  <2>. QED  BY <1>1, <1>9, <2>2, <2>3 DEF CountInv
<1>. QED  BY <1>11, <1>12, <1>13, <1>14

\* A write that fails in fwrite() ends the session with a prefix on the disk.
LEMMA RecvDataFailsInv ==
  ASSUME IInv, RecvDataFails
  PROVE  ConnInv' /\ StreamInv' /\ SessionInv' /\ CountInv'
<1>. DEFINE piece == SubSeq(data[cur], 1, Received)
            b     == wbuf \o piece
<1>1. /\ spc = "data" /\ CanReceive /\ sound' = FALSE /\ Report
      /\ \E n \in 0 .. Len(b) - 1 : StoreFails(b, n)
  BY DEF RecvDataFails
<1>2. /\ Received \in 1 .. Len(data[cur]) /\ b \in Seq(Byte)
  BY <1>1, TypeReceived DEF IInv
<1>3. Continues(disk, 0) /\ Continues(wbuf, Len(disk)) /\ Continues(data[cur], Stored)
  BY <1>1 DEF IInv, SessionInv
<1>4. Continues(piece, Stored) /\ piece \in Seq(Byte)
  <2>1. Received \in 0 .. Len(data[cur]) /\ data[cur] \in Seq(Byte) /\ Stored \in Nat
    BY <1>2, StoredFacts
  <2>2. Continues(piece, Stored)
    BY <1>3, <2>1, ContinuesPieces
  <2>. QED  BY <2>1, <2>2, PieceType
<1>5. Continues(b, Len(disk))
  BY <1>3, <1>4, StoredFacts, ContinuesConcat
<1>. HIDE DEF b, piece
<1>6. PICK n \in 0 .. Len(b) - 1 : StoreFails(b, n)
  BY <1>1
<1>7. n \in 0 .. Len(b)
  BY <1>2, LenProperties
<1>8. Continues(disk', 0) /\ wbuf' = <<>>
  BY <1>2, <1>3, <1>5, <1>6, <1>7, StoreContinues DEF IInv, StoreFails
<1>. QED  BY <1>1, <1>8, ReportInv

\* The ends of the stream, with the last write or without.
LEMMA EndDataInv ==
  ASSUME IInv, EndData \/ EndDataFails
  PROVE  ConnInv' /\ StreamInv' /\ SessionInv' /\ CountInv'
<1>1. Continues(disk, 0) /\ Continues(wbuf, Len(disk))
  BY DEF IInv, SessionInv
<1>2. CASE EndData
  <2>1. spc = "data" /\ Store(wbuf, Len(wbuf)) /\ Report /\ sound' = sound
    BY <1>2 DEF EndData
  <2>2. Len(wbuf) \in 0 .. Len(wbuf)
    BY StoredFacts
  <2>3. Continues(disk', 0) /\ Len(disk') = Stored
    BY <1>1, <2>1, <2>2, StoredFacts, StoreContinues DEF IInv
  <2>4. wbuf' = <<>>
    <3>1. wbuf' = SubSeq(wbuf, Len(wbuf) + 1, Len(wbuf))
      BY <2>1 DEF Store
    <3>2. Len(wbuf) \in Nat
      BY StoredFacts
    <3>. QED  BY <3>1, <3>2, SubSeqEmpty
  <2>. QED  BY <2>1, <2>3, <2>4, ReportInv
<1>3. CASE EndDataFails
  <2>1. spc = "data" /\ Report /\ sound' = FALSE
    BY <1>3 DEF EndDataFails
  <2>2. PICK n \in 0 .. Len(wbuf) - 1 : StoreFails(wbuf, n)
    BY <1>3 DEF EndDataFails
  <2>3. n \in 0 .. Len(wbuf)
    BY StoredFacts
  <2>4. Continues(disk', 0) /\ wbuf' = <<>>
    BY <1>1, <2>2, <2>3, StoredFacts, StoreContinues DEF IInv, StoreFails
  <2>. QED  BY <2>1, <2>4, ReportInv
<1>. QED  BY <1>2, <1>3

\* A crash loses what stdio held and the connections, and leaves a prefix.
LEMMA ServerCrashInv ==
  ASSUME IInv, ServerCrash
  PROVE  ConnInv' /\ StreamInv' /\ SessionInv' /\ CountInv'
<1>. USE DEF clientVars
<1>1. /\ spc' = "down" /\ wbuf' = <<>> /\ backlog' = <<>>
      /\ UNCHANGED <<cur, disk, printed, sound, reply, end, cpc, cpos, told, cprinted>>
      /\ \A c \in Clients :
           /\ conn'[c] = IF conn[c] \in {"queued", "served"}
                         THEN IF cpc[c] = "idle" THEN "none" ELSE "closed" ELSE conn[c]
           /\ total'[c] = IF conn[c] \in {"queued", "served"} THEN <<>> ELSE total[c]
           /\ data'[c] = IF conn[c] \in {"queued", "served"} THEN <<>> ELSE data[c]
  BY DEF ServerCrash, Close
<1>2. ConnInv'
  BY <1>1, EmptySeq DEF ConnInv, Serving
<1>3. StreamInv'
  <2>. SUFFICES ASSUME NEW d \in Clients PROVE StreamOK(d)'
    BY DEF StreamInv
  <2>1. StreamOK(d) /\ conn[d] \in {"none", "queued", "served", "closed"}
    BY DEF IInv, StreamInv, TypeOK
  <2>. QED  BY <1>1, <2>1 DEF StreamOK
<1>4. SessionInv'
  <2>1. Continues(disk, 0)' /\ Continues(wbuf, Len(disk))'
    <3>1. Continues(<<>>, Len(disk))
      BY StoredFacts, ContinuesEmpty
    <3>. QED  BY <1>1, <3>1 DEF IInv, SessionInv, Continues, FileSize
  <2>. QED  BY <1>1, <2>1 DEF SessionInv
<1>5. CountInv'
  BY <1>1 DEF IInv, CountInv, Serving, FileSize
<1>. QED  BY <1>2, <1>3, <1>4, <1>5

\* A server that starts again finds the file as the last one left it.
LEMMA ServerStartInv ==
  ASSUME IInv, ServerStart
  PROVE  ConnInv' /\ StreamInv' /\ SessionInv' /\ CountInv'
<1>. USE DEF streamVars, connVars, clientVars
<1>1. /\ spc = "down" /\ spc' = "accept"
      /\ UNCHANGED <<cur, disk, wbuf, printed, sound, total, data, reply, conn,
                     backlog, end, cpc, cpos, told, cprinted>>
  BY DEF ServerStart
<1>2. ConnInv'
  BY <1>1 DEF IInv, ConnInv, Serving
<1>3. StreamInv'
  <2>. SUFFICES ASSUME NEW d \in Clients PROVE StreamOK(d)'
    BY DEF StreamInv
  <2>. QED  BY <1>1, StreamFrame DEF IInv
<1>4. SessionInv'
  BY <1>1 DEF IInv, SessionInv, Continues, FileSize
<1>5. CountInv'
  BY <1>1 DEF IInv, CountInv, Serving, FileSize
<1>. QED  BY <1>2, <1>3, <1>4, <1>5

\* Every step of the server, its crash and its start.
LEMMA ServerInv ==
  ASSUME IInv
  PROVE  ServerStep \/ ServerCrash \/ ServerStart
           => ConnInv' /\ StreamInv' /\ SessionInv' /\ CountInv'
<1>1. ASSUME RecvNameFails \/ RecvTotalFails
      PROVE  ConnInv' /\ StreamInv' /\ SessionInv' /\ CountInv'
  <2>1. spc \in {"name", "total"} /\ GiveUp /\ UNCHANGED sound
    BY <1>1 DEF RecvNameFails, RecvTotalFails
  <2>. QED  BY <2>1, GiveUpInv
<1>. QED  BY <1>1, AcceptInv, RecvNameInv, RecvTotalInv, RecvNoTotalInv, RecvDataInv,
             RecvDataFailsInv, EndDataInv, ServerCrashInv, ServerStartInv DEF ServerStep

-----------------------------------------------------------------------------
(* The theorems.                                                           *)

\* The invariant is inductive.
THEOREM Inductive == Spec => []IInv
<1>1. Init => ConnInv /\ StreamInv /\ SessionInv /\ CountInv
  <2>. SUFFICES ASSUME Init PROVE ConnInv /\ StreamInv /\ SessionInv /\ CountInv
    OBVIOUS
  <2>1. ConnInv
    BY EmptySeq DEF Init, ConnInv, Serving
  <2>2. StreamInv
    BY DEF Init, StreamInv, StreamOK
  <2>3. SessionInv
    <3>1. Continues(<<>>, 0) /\ Len(<<>>) = 0
      BY FileSizeIsNat, ContinuesEmpty, EmptySeq
    <3>. QED  BY <3>1 DEF Init, SessionInv
  <2>4. CountInv
    BY DEF Init, CountInv, Serving
  <2>. QED  BY <2>1, <2>2, <2>3, <2>4
<1>2. IInv /\ [Next]_vars => ConnInv' /\ StreamInv' /\ SessionInv' /\ CountInv'
  <2>. SUFFICES ASSUME IInv, [Next]_vars
                PROVE  ConnInv' /\ StreamInv' /\ SessionInv' /\ CountInv'
    OBVIOUS
  <2>1. CASE Next
    BY <2>1, ClientInv, ServerInv DEF Next
  <2>2. CASE UNCHANGED vars
    <3>. USE <2>2 DEF IInv, vars, serverVars, streamVars, connVars, clientVars
    <3>1. ConnInv'
      BY ConnFrame
    <3>2. StreamInv'
      BY StreamFrame DEF StreamInv
    <3>3. SessionInv'
      BY SessionFrame
    <3>4. CountInv'
      BY CountFrame
    <3>. QED  BY <3>1, <3>2, <3>3, <3>4
  <2>. QED  BY <2>1, <2>2
<1>. QED  BY <1>1, <1>2, TypeCorrect, PTL DEF Spec, IInv

\* The server's file is at all times a prefix of the clients' file: whatever is
\* killed, cut or restarted, resuming neither skips nor repeats bytes.
THEOREM PrefixStored == Spec => []StoredIsPrefix
<1>1. IInv => StoredIsPrefix
  BY ContinuesIsPrefix DEF IInv, TypeOK, SessionInv, StoredIsPrefix
<1>. QED  BY <1>1, Inductive, PTL

\* The server's message is right in every session in which it received the
\* total and its writes succeeded.
THEOREM CompleteStored == Spec => []CompleteIsStored
<1>1. IInv => CompleteIsStored
  <2>. SUFFICES ASSUME IInv, printed = "complete", sound PROVE disk = Source
    BY DEF CompleteIsStored
  <2>1. disk = Bytes(0, Len(disk)) /\ Len(disk) = FileSize
    BY ContinuesIsPrefix DEF IInv, TypeOK, SessionInv, CountInv
  <2>2. SubSeq(Source, 1, Len(Source)) = Source
    BY ConstantsAssumption, SubSeqFull
  <2>. QED  BY <2>1, <2>2 DEF Bytes, FileSize
<1>. QED  BY <1>1, Inductive, PTL

\* For such a client the server's file, its buffer and the connection make up
\* the source.
LEMMA NoGap == IInv => NothingMissing
<1>. SUFFICES ASSUME IInv, NEW c \in Clients,
                     cprinted[c] = "complete", told[c], conn[c] = "served", end[c] = "fin"
              PROVE  disk \o wbuf \o data[c] = Source
  BY DEF NothingMissing
<1>1. c = cur /\ spc \in {"name", "total", "data"}
  BY ServedIsCur DEF IInv
<1>2. spc \in {"total", "data"}
  BY <1>1 DEF IInv, SessionInv
<1>3. Sent(cur) = FileSize /\ Continues(data[cur], Stored)
  BY <1>1, <1>2 DEF IInv, SessionInv
<1>4. /\ disk \in Seq(Byte) /\ wbuf \in Seq(Byte) /\ data[cur] \in Seq(Byte)
      /\ Len(disk) \in Nat /\ Len(wbuf) \in Nat /\ Len(data[cur]) \in Nat
      /\ Stored = Len(disk) + Len(wbuf)
  BY StoredFacts
<1>5. Continues(disk, 0) /\ Continues(wbuf, 0 + Len(disk))
  BY <1>4 DEF IInv, SessionInv
<1>6. disk \o wbuf \in Seq(Byte) /\ Len(disk \o wbuf) = Stored
  BY <1>4, ConcatProperties
<1>7. Continues(disk \o wbuf, 0)
  BY <1>4, <1>5, ContinuesConcat
<1>8. Continues(data[cur], 0 + Len(disk \o wbuf))
  BY <1>3, <1>4, <1>6
<1>9. Continues(disk \o wbuf \o data[cur], 0)
  BY <1>4, <1>6, <1>7, <1>8, ContinuesConcat
<1>10. /\ disk \o wbuf \o data[cur] \in Seq(Byte)
       /\ Len(disk \o wbuf \o data[cur]) = FileSize
  <2>1. Len(disk \o wbuf \o data[cur]) = Len(disk \o wbuf) + Len(data[cur])
    BY <1>4, <1>6, ConcatProperties
  <2>2. Stored + Len(data[cur]) = FileSize
    BY <1>3 DEF Sent
  <2>. QED  BY <1>4, <1>6, <2>1, <2>2, ConcatProperties
<1>11. disk \o wbuf \o data[cur] = Bytes(0, FileSize)
  BY <1>9, <1>10, ContinuesIsPrefix
<1>12. Bytes(0, FileSize) = Source
  BY ConstantsAssumption, SubSeqFull DEF Bytes, FileSize
<1>. QED  BY <1>1, <1>11, <1>12

\* As long as the connection is still served of a client that was told its
\* offset, printed completion and left by FIN, what the server has written, what
\* stdio holds and what it has not read make up the source, without a gap
\* (fileclient.c's "complete" against the stream that fileserver.c reads).
THEOREM NothingIsMissing == Spec => []NothingMissing
<1>. QED  BY NoGap, Inductive, PTL

\* And when such a session has ended, at a recv() of 0 and with an fclose() that
\* wrote, the server's file is the source, whatever was killed and resumed before
\* (the loop of fileserver.c and its fclose()).
THEOREM MessageKept == Spec => MessageIsKept
<1>1. ASSUME IInv, EndData, cprinted[cur] = "complete", told[cur], end[cur] = "fin"
      PROVE  disk' = Source
  <2>1. spc = "data" /\ data[cur] = <<>> /\ disk' = disk \o SubSeq(wbuf, 1, Len(wbuf))
    BY <1>1 DEF EndData, Store
  <2>2. cur \in Clients /\ disk \in Seq(Byte) /\ wbuf \in Seq(Byte)
    BY <1>1 DEF IInv, TypeOK
  <2>3. conn[cur] = "served"
    BY <1>1, <2>1, <2>2 DEF IInv, ConnInv, Serving
  <2>4. disk \o wbuf \o <<>> = Source
    BY <1>1, <2>1, <2>2, <2>3, NoGap DEF NothingMissing
  <2>5. disk \o wbuf \o <<>> = disk \o wbuf
    BY <2>2, ConcatProperties, ConcatEmptySeq
  <2>6. SubSeq(wbuf, 1, Len(wbuf)) = wbuf
    BY <2>2, SubSeqFull
  <2>. QED  BY <2>1, <2>4, <2>5, <2>6
<1>2. IInv => [EndData /\ cprinted[cur] = "complete" /\ told[cur] /\ end[cur] = "fin"
                 => disk' = Source]_vars
  BY <1>1
<1>. QED  BY <1>2, Inductive, PTL DEF MessageIsKept

\* The transfer keeps the promise of PrefixCopy: the file starts empty and
\* every step leaves it or extends it by the next bytes of the source.
THEOREM Refinement == Spec => ImplementsPrefixCopy
<1>1. Init => Promise!Init
  BY DEF Init, Promise!Init
<1>2. IInv /\ IInv' /\ [Next]_vars => [Promise!Next]_disk
  <2>. SUFFICES ASSUME IInv, IInv', Next, disk' # disk
                PROVE  Promise!Next
    BY DEF vars, serverVars
  <2>1. \E b \in Seq(Byte) : \E n \in 0 .. Len(b) : disk' = disk \o SubSeq(b, 1, n)
    <3>. DEFINE Grows(b, n) == disk' = disk \o SubSeq(b, 1, n)
    <3>1. ASSUME RecvData \/ RecvDataFails \/ EndData \/ EndDataFails
          PROVE  \E b \in Seq(Byte) : \E n \in 0 .. Len(b) : Grows(b, n)
      <4>. DEFINE b == wbuf \o SubSeq(data[cur], 1, Received)
      <4>1. CASE RecvData \/ RecvDataFails
        <5>1. b \in Seq(Byte) /\ Len(b) \in Nat
          BY <4>1, TypeReceived, LenProperties DEF IInv, RecvData, RecvDataFails
        <5>2. \E n \in 0 .. Len(b) : Grows(b, n)
          <6>1. CASE RecvData
            BY <6>1 DEF RecvData, Store
          <6>2. CASE RecvDataFails
            <7>1. PICK n \in 0 .. Len(b) - 1 : StoreFails(b, n)
              BY <6>2 DEF RecvDataFails
            <7>2. n \in 0 .. Len(b) /\ Grows(b, n)
              BY <5>1, <7>1 DEF StoreFails
            <7>. QED  BY <7>2
          <6>. QED  BY <4>1, <6>1, <6>2
        <5>. QED  BY <5>1, <5>2
      <4>2. CASE EndData \/ EndDataFails
        <5>1. wbuf \in Seq(Byte) /\ Len(wbuf) \in Nat
          BY StoredFacts
        <5>2. \E n \in 0 .. Len(wbuf) : Grows(wbuf, n)
          <6>1. CASE EndData
            BY <5>1, <6>1 DEF EndData, Store
          <6>2. CASE EndDataFails
            <7>1. PICK n \in 0 .. Len(wbuf) - 1 : StoreFails(wbuf, n)
              BY <6>2 DEF EndDataFails
            <7>2. n \in 0 .. Len(wbuf) /\ Grows(wbuf, n)
              BY <5>1, <7>1 DEF StoreFails
            <7>. QED  BY <7>2
          <6>. QED  BY <4>2, <6>1, <6>2
        <5>. QED  BY <5>1, <5>2
      <4>. QED  BY <3>1, <4>1, <4>2
    <3>2. ASSUME NEW c \in Clients,
                 Connect(c) \/ ClientStep(c) \/ OpenFails(c) \/ Kill(c) \/ Reset(c)
          PROVE  disk' = disk
      BY <3>2 DEF Connect, ClientStep, SendName, RecvOffset, RecvNoOffset, SendChunk,
                  Finish, Abort, OpenFails, Kill, Reset, serverVars
    <3>3. ASSUME \/ Accept \/ RecvName \/ RecvNameFails \/ RecvTotal \/ RecvNoTotal
                 \/ RecvTotalFails \/ ServerCrash \/ ServerStart
          PROVE  disk' = disk
      BY <3>3 DEF Accept, RecvName, RecvNameFails, RecvTotal, RecvNoTotal,
                  RecvTotalFails, GiveUp, ServerCrash, ServerStart
    <3>4. RecvData \/ RecvDataFails \/ EndData \/ EndDataFails
      BY <3>2, <3>3 DEF Next, ServerStep
    <3>. QED  BY <3>1, <3>4
  <2>7. PICK b \in Seq(Byte) : \E n \in 0 .. Len(b) : disk' = disk \o SubSeq(b, 1, n)
    BY <2>1
  <2>2. PICK n \in 0 .. Len(b) : disk' = disk \o SubSeq(b, 1, n)
    BY <2>7
  <2>3. /\ disk \in Seq(Byte) /\ SubSeq(b, 1, n) \in Seq(Byte)
        /\ Len(disk) \in Nat /\ Len(SubSeq(b, 1, n)) = n
    BY <2>2, PieceType, StoredFacts
  <2>4. Len(disk') = Len(disk) + n /\ (n = 0 => disk' = disk)
    BY <2>2, <2>3, ConcatProperties, ConcatEmptySeq, SubSeqEmpty
  <2>5. disk' \in Seq(Byte) /\ Continues(disk', 0)
    BY DEF IInv, TypeOK, SessionInv, Continues, FileSize
  <2>6. Len(disk') \in Len(disk) + 1 .. Len(Source) /\ disk' = SubSeq(Source, 1, Len(disk'))
    BY <2>3, <2>4, <2>5, ContinuesIsPrefix DEF Bytes, FileSize
  <2>. QED  BY <2>6 DEF Promise!Next, Promise!Extend, Promise!FirstBytes
<1>. QED  BY <1>1, <1>2, Inductive, PTL DEF Spec, ImplementsPrefixCopy, Promise!Spec
=============================================================================
