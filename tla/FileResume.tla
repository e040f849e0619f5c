---------------------------- MODULE FileResume ----------------------------
(***************************************************************************)
(* The resumable file transfer: thu/hw2/fileserver/fileserver.c and        *)
(* thu/hw2/fileclient/fileclient.c, over TCP.  The server is iterative: it *)
(* serves one connection at a time.  A client sends the file's name, is    *)
(* told how many bytes the server already has, announces how many follow   *)
(* and sends them from there; the server appends.  Every process may be    *)
(* killed at any point and run again, which is what the program is for.    *)
(*                                                                         *)
(* A step runs from one blocking call to the next.  One file name is       *)
(* modelled, and every client run holds the same file, Source.             *)
(***************************************************************************)
EXTENDS Integers, Sequences

CONSTANTS
  Clients,    \* runs of the client program that may be connected at once
  Byte,       \* the possible bytes
  Source,     \* the clients' file
  BUFSIZE,    \* bytes per fread, send and recv
  Garbage,    \* what an int that was never assigned may hold
  MaxFaults   \* bound on the kills, crashes, resets and failing file calls

ASSUME ConstantsAssumption ==
  /\ Source \in Seq(Byte)
  /\ BUFSIZE \in Nat \ {0}
  /\ Garbage \subseteq Int
  /\ Garbage # {}
  /\ MaxFaults \in Nat

VARIABLES
  \* The server process and its file.
  spc,          \* "name", "total", "data": the recv it is in; "accept"; "down"
  cur,          \* whose connection client_sock is, while it serves one
  filename,     \* whether the name received is the file's (otherwise it is "")
  totalbytes, numtotal,
  disk,         \* the file in the file system
  wbuf,         \* what the stdio stream fp holds and has not written yet
  printed,      \* the result the server printed for the session that ended
                \* last: "complete", "failed"; "none" once the next one begins
  sound,        \* history: in this session totalbytes was received and every
                \* write succeeded
  \* The connections, by client run.
  conn,         \* "none", "queued" (not accepted), "served", "closed" (by server)
  backlog,      \* the connections waiting for accept, oldest first
  name, total, data,   \* what the server has not read: name, total and bytes
  reply,        \* the currbytes the client has not read
  end,          \* how the server's stream ends: "open", "fin", "rst"
  \* The client processes.
  cpc,          \* "idle" (not running), "connected", "waiting", "sending"
  cpos,         \* the position of its file
  ctotal, cnum, \* the client's totalbytes and numtotal
  told,         \* whether its currbytes was received (otherwise it is garbage)
  cprinted,     \* the result this run printed: "none", "complete", "failed"
  faults        \* faults so far

serverVars == <<spc, cur, filename, totalbytes, numtotal, disk, wbuf, printed, sound>>
streamVars == <<name, total, data, reply>>
connVars   == <<conn, backlog, end>>
clientVars == <<cpc, cpos, ctotal, cnum, told, cprinted>>
vars == <<serverVars, streamVars, connVars, clientVars, faults>>

FileSize == Len(Source)

\* Bytes from+1 .. to of the source.
Bytes(from, to) == SubSeq(Source, from + 1, to)

SmallerOf(a, b) == IF a < b THEN a ELSE b

\* The server's side of the connection is there and nothing has cut it.
Live(c) == conn[c] \in {"queued", "served"} /\ end[c] = "open"

Serving == spc \in {"name", "total", "data"}

Fault == faults < MaxFaults /\ faults' = faults + 1

-----------------------------------------------------------------------------
Init ==
  /\ spc = "accept" /\ cur \in Clients /\ filename = FALSE
  /\ totalbytes \in Garbage /\ numtotal = 0
  /\ disk = <<>> /\ wbuf = <<>> /\ printed = "none" /\ sound = TRUE
  /\ conn = [c \in Clients |-> "none"] /\ backlog = <<>>
  /\ name = [c \in Clients |-> FALSE]
  /\ total = [c \in Clients |-> <<>>]
  /\ data = [c \in Clients |-> <<>>]
  /\ reply = [c \in Clients |-> <<>>]
  /\ end = [c \in Clients |-> "open"]
  /\ cpc = [c \in Clients |-> "idle"]
  /\ cpos = [c \in Clients |-> 0]
  /\ ctotal = [c \in Clients |-> 0]
  /\ cnum = [c \in Clients |-> 0]
  /\ told = [c \in Clients |-> FALSE]
  /\ cprinted = [c \in Clients |-> "none"]
  /\ faults = 0

-----------------------------------------------------------------------------
(* The client.                                                             *)

\* The process ends, and the kernel closes its socket: with a reset when a
\* currbytes was never read, else with a FIN behind what was sent.
Exit(c) ==
  /\ cpc' = [cpc EXCEPT ![c] = "idle"]
  /\ end' = [end EXCEPT ![c] = IF @ # "open" THEN @
                               ELSE IF reply[c] # <<>> THEN "rst" ELSE "fin"]
  /\ conn' = [conn EXCEPT ![c] = IF @ = "closed" THEN "none" ELSE @]
  /\ reply' = [reply EXCEPT ![c] = <<>>]
  /\ UNCHANGED <<backlog, name, total, data>>

\* socket() and connect(): the kernel completes the connection by itself, as
\* long as the server listens.
Connect(c) ==
  /\ cpc[c] = "idle" /\ conn[c] = "none" /\ spc # "down"
  /\ cpc' = [cpc EXCEPT ![c] = "connected"]
  /\ conn' = [conn EXCEPT ![c] = "queued"]
  /\ backlog' = Append(backlog, c)
  /\ end' = [end EXCEPT ![c] = "open"]
  /\ told' = [told EXCEPT ![c] = FALSE]
  /\ cprinted' = [cprinted EXCEPT ![c] = "none"]
  /\ UNCHANGED <<serverVars, streamVars, cpos, ctotal, cnum, faults>>

\* fopen() of the file and send() of its name.
SendName(c) ==
  /\ cpc[c] = "connected" /\ end[c] # "rst"
  /\ cpc' = [cpc EXCEPT ![c] = "waiting"]
  /\ name' = [name EXCEPT ![c] = Live(c)]
  /\ UNCHANGED <<serverVars, total, data, reply, connVars, cpos, ctotal, cnum,
                 told, cprinted, faults>>

\* The file cannot be opened: the program returns, with the connection made.
OpenFails(c) ==
  /\ cpc[c] = "connected" /\ Fault
  /\ Exit(c)
  /\ UNCHANGED <<serverVars, cpos, ctotal, cnum, told, cprinted>>

\* Mutant of StartAt: the whole file is sent each time.
StartAtZero(c, currbytes) ==
  /\ cpc' = [cpc EXCEPT ![c] = "sending"]
  /\ ctotal' = [ctotal EXCEPT ![c] = FileSize]
  /\ cnum' = [cnum EXCEPT ![c] = 0]
  /\ cpos' = [cpos EXCEPT ![c] = 0]
  /\ total' = [total EXCEPT ![c] = IF Live(c) THEN <<FileSize>> ELSE @]

\* What follows recv() of currbytes: totalbytes is announced and the file is
\* positioned. fseek() to a negative position fails and leaves the file where
\* the search for its size left it, at its end.
StartAt(c, currbytes) ==
  /\ cpc' = [cpc EXCEPT ![c] = "sending"]
  /\ ctotal' = [ctotal EXCEPT ![c] = FileSize - currbytes]
  /\ cnum' = [cnum EXCEPT ![c] = 0]
  /\ cpos' = [cpos EXCEPT ![c] = IF currbytes < 0 THEN FileSize ELSE currbytes]
  /\ total' = [total EXCEPT ![c] = IF Live(c) THEN <<FileSize - currbytes>> ELSE @]

RecvOffset(c) ==
  /\ cpc[c] = "waiting" /\ end[c] # "rst" /\ reply[c] # <<>>
  /\ StartAt(c, Head(reply[c]))
  /\ reply' = [reply EXCEPT ![c] = <<>>]
  /\ told' = [told EXCEPT ![c] = TRUE]
  /\ UNCHANGED <<serverVars, name, data, connVars, cprinted, faults>>

\* The server has closed: recv() returns 0, which is not < 0, and the client
\* goes on with a currbytes nobody assigned.
RecvNoOffset(c) ==
  /\ cpc[c] = "waiting" /\ conn[c] = "closed" /\ reply[c] = <<>>
  /\ \E g \in Garbage : StartAt(c, g)
  /\ UNCHANGED <<serverVars, name, data, reply, connVars, told, cprinted, faults>>

\* Mutant of SendChunk: the socket takes one byte less than it was given, and
\* numtotal counts what was read.
SendChunkShort(c) ==
  /\ cpc[c] = "sending" /\ end[c] # "rst" /\ cpos[c] < FileSize
  /\ LET n == SmallerOf(BUFSIZE, FileSize - cpos[c]) IN
       /\ cpos' = [cpos EXCEPT ![c] = @ + n]
       /\ cnum' = [cnum EXCEPT ![c] = @ + n]
       /\ data' = [data EXCEPT ![c] =
                     IF Live(c) THEN @ \o Bytes(cpos[c], cpos[c] + n - 1) ELSE @]
  /\ UNCHANGED <<serverVars, name, total, reply, connVars, cpc, ctotal, told,
                 cprinted, faults>>

\* fread() and send() of the next piece; a closed connection swallows it.
SendChunk(c) ==
  /\ cpc[c] = "sending" /\ end[c] # "rst" /\ cpos[c] < FileSize
  /\ LET n == SmallerOf(BUFSIZE, FileSize - cpos[c]) IN
       /\ cpos' = [cpos EXCEPT ![c] = @ + n]
       /\ cnum' = [cnum EXCEPT ![c] = @ + n]
       /\ data' = [data EXCEPT ![c] =
                     IF Live(c) THEN @ \o Bytes(cpos[c], cpos[c] + n) ELSE @]
  /\ UNCHANGED <<serverVars, name, total, reply, connVars, cpc, ctotal, told,
                 cprinted, faults>>

\* fread() returns 0: the result is printed and the program ends.
Finish(c) ==
  /\ cpc[c] = "sending" /\ cpos[c] >= FileSize
  /\ cprinted' = [cprinted EXCEPT ![c] =
                    IF cnum[c] = ctotal[c] THEN "complete" ELSE "failed"]
  /\ Exit(c)
  /\ UNCHANGED <<serverVars, cpos, ctotal, cnum, told, faults>>

\* A recv() or send() on a connection that was reset, or closed by the server:
\* it returns -1, or SIGPIPE ends the process. Either way the run is over.
Abort(c) ==
  /\ end[c] = "rst" \/ conn[c] = "closed"
  /\ \/ cpc[c] = "connected"
     \/ cpc[c] = "waiting" /\ reply[c] = <<>>
     \/ cpc[c] = "sending" /\ cpos[c] < FileSize
  /\ Exit(c)
  /\ UNCHANGED <<serverVars, cpos, ctotal, cnum, told, cprinted, faults>>

\* The user interrupts the transfer.
Kill(c) ==
  /\ cpc[c] # "idle" /\ Fault
  /\ Exit(c)
  /\ UNCHANGED <<serverVars, cpos, ctotal, cnum, told, cprinted>>

-----------------------------------------------------------------------------
(* The network.                                                            *)

\* The connection is cut, and what had not arrived at either end is lost: a
\* suffix of the stream to the server, and the reply.
Reset(c) ==
  /\ Live(c) /\ Fault
  /\ end' = [end EXCEPT ![c] = "rst"]
  /\ reply' = [reply EXCEPT ![c] = <<>>]
  /\ \/ /\ \E n \in 0 .. Len(data[c]) :
             data' = [data EXCEPT ![c] = SubSeq(@, 1, n)]
        /\ UNCHANGED <<name, total>>
     \/ /\ data' = [data EXCEPT ![c] = <<>>]
        /\ total' = [total EXCEPT ![c] = <<>>]
        /\ name' \in {name, [name EXCEPT ![c] = FALSE]}
  /\ UNCHANGED <<serverVars, conn, backlog, clientVars>>

-----------------------------------------------------------------------------
(* The server.                                                             *)

\* Mutant of Close: what the session left unread is there for the next.
CloseKeeps(cs) ==
  /\ conn' = [c \in Clients |-> IF c \in cs
                                THEN IF cpc[c] = "idle" THEN "none" ELSE "closed"
                                ELSE conn[c]]
  /\ name' = [c \in Clients |-> IF c \in cs THEN FALSE ELSE name[c]]
  /\ UNCHANGED <<total, data>>

\* The server's close() of the connections cs; unread data goes with them.
Close(cs) ==
  /\ conn' = [c \in Clients |-> IF c \in cs
                                THEN IF cpc[c] = "idle" THEN "none" ELSE "closed"
                                ELSE conn[c]]
  /\ name' = [c \in Clients |-> IF c \in cs THEN FALSE ELSE name[c]]
  /\ total' = [c \in Clients |-> IF c \in cs THEN <<>> ELSE total[c]]
  /\ data' = [c \in Clients |-> IF c \in cs THEN <<>> ELSE data[c]]

\* fwrite() and fclose(): of the bytes handed over so far, stdio passes the
\* first n to the file and keeps the rest.
Store(bytes, n) ==
  /\ disk' = disk \o SubSeq(bytes, 1, n)
  /\ wbuf' = SubSeq(bytes, n + 1, Len(bytes))

\* The same where a write() fails: what was not written is gone.
StoreFails(bytes, n) ==
  /\ disk' = disk \o SubSeq(bytes, 1, n)
  /\ wbuf' = <<>>

\* accept() of the oldest waiting connection.
Accept ==
  /\ spc = "accept" /\ backlog # <<>>
  /\ spc' = "name" /\ cur' = Head(backlog) /\ backlog' = Tail(backlog)
  /\ conn' = [conn EXCEPT ![Head(backlog)] = "served"]
  /\ printed' = "none" /\ sound' = TRUE
  /\ UNCHANGED <<filename, totalbytes, numtotal, disk, wbuf, streamVars,
                 end, clientVars, faults>>

\* A call fails before the file is opened for appending: close and continue.
GiveUp ==
  /\ spc' = "accept" /\ Close({cur})
  /\ UNCHANGED <<cur, totalbytes, numtotal, disk, wbuf, printed, reply, backlog,
                 end, clientVars>>

\* recv() of the name, the search for the file's size, send() of currbytes. A
\* client that left without a name makes recv() return 0: the name is "", no
\* file has it, and the reply goes nowhere.
RecvName ==
  /\ spc = "name" /\ (name[cur] \/ end[cur] = "fin") /\ end[cur] # "rst"
  /\ spc' = "total" /\ filename' = name[cur]
  /\ name' = [name EXCEPT ![cur] = FALSE]
  /\ reply' = [reply EXCEPT ![cur] = IF end[cur] = "open" THEN <<Len(disk)>> ELSE @]
  /\ UNCHANGED <<cur, totalbytes, numtotal, disk, wbuf, printed, sound, total,
                 data, connVars, clientVars, faults>>

\* recv() fails, or send() does after it; or the file exists and cannot be read.
RecvNameFails ==
  /\ spc = "name"
  /\ \/ end[cur] = "rst" /\ UNCHANGED faults
     \/ name[cur] /\ Fault
  /\ filename' = name[cur]
  /\ GiveUp
  /\ UNCHANGED sound

\* Mutant of RecvTotal: the file is opened for writing, which empties it.
RecvTotalTruncates ==
  /\ spc = "total" /\ total[cur] # <<>>
  /\ totalbytes' = Head(total[cur]) /\ total' = [total EXCEPT ![cur] = <<>>]
  /\ spc' = "data" /\ numtotal' = 0 /\ disk' = <<>>
  /\ UNCHANGED <<cur, filename, wbuf, printed, sound, name, data, reply,
                 connVars, clientVars, faults>>

\* recv() of totalbytes and fopen() for appending.
RecvTotal ==
  /\ spc = "total" /\ total[cur] # <<>>
  /\ totalbytes' = Head(total[cur]) /\ total' = [total EXCEPT ![cur] = <<>>]
  /\ spc' = "data" /\ numtotal' = 0
  /\ UNCHANGED <<cur, filename, disk, wbuf, printed, sound, name, data, reply,
                 connVars, clientVars, faults>>

\* The client left before it announced anything: recv() returns 0, which is
\* not < 0, and totalbytes is whatever it was. With a name the server goes on.
RecvNoTotal ==
  /\ spc = "total" /\ total[cur] = <<>> /\ end[cur] = "fin" /\ filename
  /\ totalbytes' \in Garbage \union {totalbytes}
  /\ sound' = FALSE
  /\ spc' = "data" /\ numtotal' = 0
  /\ UNCHANGED <<cur, filename, disk, wbuf, printed, streamVars, connVars,
                 clientVars, faults>>

\* recv() fails; or fopen() does, which it always does for the name "".
RecvTotalFails ==
  /\ spc = "total"
  /\ \/ total[cur] = <<>> /\ end[cur] = "rst" /\ UNCHANGED faults
     \/ total[cur] = <<>> /\ end[cur] = "fin" /\ ~filename /\ UNCHANGED faults
     \/ (total[cur] # <<>> \/ end[cur] = "fin") /\ Fault
  /\ GiveUp
  /\ UNCHANGED <<filename, sound>>

\* What recv() returns under MSG_WAITALL: a full buffer, or, once the stream
\* has ended, what is left of it. 0 stands for both of its other results.
Received == SmallerOf(BUFSIZE, Len(data[cur]))

\* Mutant of CanReceive: a recv() that insists on a full buffer.
CanReceiveFull == Len(data[cur]) >= BUFSIZE

CanReceive == data[cur] # <<>> /\ (Len(data[cur]) >= BUFSIZE \/ end[cur] # "open")

\* recv() of a piece and fwrite() of it.
RecvData ==
  /\ spc = "data" /\ CanReceive
  /\ LET bytes == wbuf \o SubSeq(data[cur], 1, Received) IN
       \E n \in 0 .. Len(bytes) : Store(bytes, n)
  /\ data' = [data EXCEPT ![cur] = SubSeq(@, Received + 1, Len(@))]
  /\ numtotal' = numtotal + Received
  /\ UNCHANGED <<spc, cur, filename, totalbytes, printed, sound, name, total,
                 reply, connVars, clientVars, faults>>

\* Mutant of Report: only a surplus of bytes counts as a failure.
ReportAtMost ==
  /\ printed' = IF numtotal <= totalbytes THEN "complete" ELSE "failed"
  /\ spc' = "accept" /\ Close({cur})
  /\ UNCHANGED <<cur, filename, totalbytes, numtotal, reply, backlog, end, clientVars>>

\* The end of a session: the result and close().
Report ==
  /\ printed' = IF numtotal = totalbytes THEN "complete" ELSE "failed"
  /\ spc' = "accept" /\ Close({cur})
  /\ UNCHANGED <<cur, filename, totalbytes, numtotal, reply, backlog, end, clientVars>>

\* A write inside fwrite() fails: ferror() stops the loop, numtotal is left as
\* it is, fclose() finds nothing more to write.
RecvDataFails ==
  /\ spc = "data" /\ CanReceive /\ Fault
  /\ LET bytes == wbuf \o SubSeq(data[cur], 1, Received) IN
       \E n \in 0 .. Len(bytes) - 1 : StoreFails(bytes, n)
  /\ sound' = FALSE
  /\ Report

\* Mutant of EndData: without fclose(), what stdio holds is not written.
EndDataUnflushed ==
  /\ spc = "data" /\ data[cur] = <<>> /\ end[cur] # "open"
  /\ StoreFails(wbuf, 0)
  /\ Report
  /\ UNCHANGED <<sound, faults>>

\* recv() returns 0 or -1: fclose() writes the rest, the result is printed.
EndData ==
  /\ spc = "data" /\ data[cur] = <<>> /\ end[cur] # "open"
  /\ Store(wbuf, Len(wbuf))
  /\ Report
  /\ UNCHANGED <<sound, faults>>

\* The same with a failing fclose(), whose result nobody looks at.
EndDataFails ==
  /\ spc = "data" /\ data[cur] = <<>> /\ end[cur] # "open" /\ Fault
  /\ \E n \in 0 .. Len(wbuf) - 1 : StoreFails(wbuf, n)
  /\ sound' = FALSE
  /\ Report

\* The server is killed, or accept() fails and it leaves its loop: what stdio
\* held is lost and the kernel closes every connection.
ServerCrash ==
  /\ spc # "down" /\ Fault
  /\ spc' = "down" /\ wbuf' = <<>>
  /\ backlog' = <<>>
  /\ Close({c \in Clients : conn[c] \in {"queued", "served"}})
  /\ UNCHANGED <<cur, filename, totalbytes, numtotal, disk, printed, sound,
                 reply, end, clientVars>>

\* The server is started again; its totalbytes was never assigned.
ServerStart ==
  /\ spc = "down"
  /\ spc' = "accept" /\ totalbytes' \in Garbage
  /\ UNCHANGED <<cur, filename, numtotal, disk, wbuf, printed, sound,
                 streamVars, connVars, clientVars, faults>>

-----------------------------------------------------------------------------
ClientStep(c) ==
  \/ SendName(c) \/ RecvOffset(c) \/ RecvNoOffset(c) \/ SendChunk(c)
  \/ Finish(c) \/ Abort(c)

ServerStep ==
  \/ Accept \/ RecvName \/ RecvNameFails \/ RecvTotal \/ RecvNoTotal
  \/ RecvTotalFails \/ RecvData \/ RecvDataFails \/ EndData \/ EndDataFails

Next ==
  \/ \E c \in Clients : \/ Connect(c) \/ ClientStep(c)
                        \/ OpenFails(c) \/ Kill(c) \/ Reset(c)
  \/ ServerStep \/ ServerCrash \/ ServerStart

Spec == Init /\ [][Next]_vars

\* Every program that can take a step takes it in the end: the server, the
\* clients that run. An interrupted transfer is run again by its user, and a
\* server that died is started again.
FairSpec ==
  /\ Spec
  /\ WF_vars(ServerStep) /\ WF_vars(ServerStart)
  /\ \A c \in Clients : WF_vars(ClientStep(c)) /\ WF_vars(Connect(c))

-----------------------------------------------------------------------------
TypeOK ==
  /\ spc \in {"accept", "name", "total", "data", "down"}
  /\ cur \in Clients /\ filename \in BOOLEAN
  /\ totalbytes \in Int /\ numtotal \in Nat
  /\ disk \in Seq(Byte) /\ wbuf \in Seq(Byte)
  /\ printed \in {"none", "complete", "failed"} /\ sound \in BOOLEAN
  /\ conn \in [Clients -> {"none", "queued", "served", "closed"}]
  /\ backlog \in Seq(Clients)
  /\ name \in [Clients -> BOOLEAN]
  /\ total \in [Clients -> Seq(Int)]
  /\ data \in [Clients -> Seq(Byte)]
  /\ reply \in [Clients -> Seq(Nat)]
  /\ end \in [Clients -> {"open", "fin", "rst"}]
  /\ cpc \in [Clients -> {"idle", "connected", "waiting", "sending"}]
  /\ cpos \in [Clients -> Nat]
  /\ ctotal \in [Clients -> Int] /\ cnum \in [Clients -> Nat]
  /\ told \in [Clients -> BOOLEAN]
  /\ cprinted \in [Clients -> {"none", "complete", "failed"}]
  /\ faults \in 0 .. MaxFaults

\* What the server keeps is a prefix of the clients' file, whatever was
\* killed, cut or restarted in between: resuming neither skips nor repeats
\* bytes, and sessions of several clients do not interleave.
StoredIsPrefix == disk = Bytes(0, Len(disk)) /\ Len(disk) <= FileSize

\* A client that was told its offset and printed that the transfer is complete
\* has left every byte the server lacks on its way: in the connection or in
\* the server's stdio buffer, in order and without a gap.
NothingMissing ==
  \A c \in Clients :
    cprinted[c] = "complete" /\ told[c] /\ conn[c] = "served" /\ end[c] = "fin"
      => disk \o wbuf \o data[c] = Source

\* What that client's message is worth once it has gone: the session that ends
\* behind it, recv() having returned 0 and fclose() having written, leaves the
\* client's file on the server's disk.
MessageIsKept ==
  [][EndData /\ cprinted[cur] = "complete" /\ told[cur] /\ end[cur] = "fin"
       => disk' = Source]_vars

\* When the server prints that the transfer is complete, its file is the
\* client's, provided it received totalbytes and its writes succeeded.
CompleteIsStored == printed = "complete" /\ sound => disk = Source

\* The server's message by itself ("-> ... complete!"), with no proviso.
CompleteMeansStored == printed = "complete" => disk = Source

-----------------------------------------------------------------------------
(* The inductive invariant.                                                *)

\* s holds the bytes of the source that come after the first n.
Continues(s, n) ==
  n + Len(s) <= FileSize /\ \A i \in 1 .. Len(s) : s[i] = Source[n + i]

\* How far the server and the stream to it have come in the source.
Stored   == Len(disk) + Len(wbuf)
Sent(c)  == Stored + Len(data[c])

\* At most one connection is served, the server knows which, and those it has
\* yet to accept wait in the backlog once each.
ConnInv ==
  /\ \A c \in Clients : conn[c] = "served" <=> Serving /\ c = cur
  /\ \A i \in 1 .. Len(backlog) : conn[backlog[i]] = "queued"
  /\ \A i, j \in 1 .. Len(backlog) : backlog[i] = backlog[j] => i = j

\* What a client that is not served, or has gone, leaves in its streams.
StreamOK(c) ==
  /\ conn[c] # "served" => total[c] = <<>> /\ data[c] = <<>>
  /\ conn[c] \in {"none", "queued"} => reply[c] = <<>> /\ cpc[c] # "sending"
  /\ conn[c] = "none" => cpc[c] = "idle"
  /\ conn[c] = "queued" => ~ told[c]
  /\ cpc[c] = "idle" => reply[c] = <<>> /\ (end[c] = "open" => conn[c] = "none")
  /\ end[c] = "fin" => cpc[c] = "idle"
  /\ cpc[c] \in {"connected", "waiting"} => ~ told[c] /\ cprinted[c] = "none"
  /\ cprinted[c] # "none" => cpc[c] = "idle"

StreamInv == \A c \in Clients : StreamOK(c)

\* The session: what was announced, what is under way and what is written fit
\* together, without a gap.
SessionInv ==
  /\ Continues(disk, 0) /\ Continues(wbuf, Len(disk))
  /\ wbuf # <<>> => spc = "data"
  /\ spc = "name" => /\ total[cur] = <<>> /\ data[cur] = <<>> /\ reply[cur] = <<>>
                     /\ cpc[cur] # "sending" /\ ~ told[cur]
  /\ spc = "total" =>
       /\ total[cur] \in {<<>>, <<FileSize - Len(disk)>>}
       /\ reply[cur] \in {<<>>, <<Len(disk)>>}
       /\ reply[cur] # <<>> => total[cur] = <<>> /\ cpc[cur] # "sending"
       /\ total[cur] = <<>> => data[cur] = <<>>
       /\ cpc[cur] = "sending" /\ end[cur] = "open" => total[cur] # <<>>
  /\ spc = "data" => total[cur] = <<>> /\ reply[cur] = <<>>
  /\ spc \in {"total", "data"} =>
       /\ Continues(data[cur], Stored)
       /\ cpc[cur] = "sending" /\ end[cur] = "open" => cpos[cur] = Sent(cur)
       /\ cprinted[cur] = "complete" /\ told[cur] /\ end[cur] = "fin"
            => Sent(cur) = FileSize

\* The count the server compares: as long as it received totalbytes and its
\* writes succeed, what it still expects is what the source still has.
CountInv ==
  /\ Serving => printed = "none"
  /\ spc = "data" /\ sound => totalbytes - numtotal = FileSize - Stored
  /\ printed = "complete" /\ sound => Len(disk) = FileSize

IInv == TypeOK /\ ConnInv /\ StreamInv /\ SessionInv /\ CountInv

-----------------------------------------------------------------------------
\* Every connection that is made is over at some time: no client, dead or
\* alive, keeps the iterative server to itself or waits in the backlog for ever.
SessionsEnd ==
  \A c \in Clients :
    conn[c] \in {"queued", "served"} ~> conn[c] \notin {"queued", "served"}

\* Interrupted transfers are resumed until the file has arrived.
EventuallyStored == <>[](disk = Source)

\* The promise, for the file on the server's disk.
Promise == INSTANCE PrefixCopy WITH stored <- disk
ImplementsPrefixCopy == Promise!Spec
=============================================================================
