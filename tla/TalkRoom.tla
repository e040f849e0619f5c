----------------------------- MODULE TalkRoom -----------------------------
(***************************************************************************)
(* The talk room of fri/homework: server.c, which accepts users and reads  *)
(* each in a thread of its own that writes what it read to all the others, *)
(* and client.c.  The table sock_connect and its length user_cnt are       *)
(* shared by the main thread and the readers without a lock.               *)
(*                                                                         *)
(* A step is one system call or one access to the shared table.  A line    *)
(* that user u types is <<u, k>>, the k-th of u; read() may return several *)
(* at once.  No socket is ever closed by the server while it runs, so a    *)
(* user stands for its connection, too.                                    *)
(***************************************************************************)
EXTENDS Integers, Sequences, FiniteSets, SequencesExt

CONSTANTS
  Users,       \* runs of the client, each of which connects at most once
  NoUser,      \* what a cell of the table holds before it is assigned
  MaxLines,    \* bound on the lines each user types
  ListenSlot   \* the index at which thread_id[] reaches the memory of
               \* sock_listen: 12 in fri/homework/server, where the array has
               \* MAX_USER = 10 cells and nothing checks user_cnt against it

ASSUME TalkRoomAssumption ==
  /\ NoUser \notin Users /\ IsFiniteSet(Users)
  /\ MaxLines \in [Users -> Nat] /\ ListenSlot \in Nat

VARIABLES
  up,            \* the server process runs
  main,          \* its main thread: in "accept", before "count" or "create"
  sock_connect,  \* the table, by index
  user_cnt,
  arg,           \* the socket the next reader is created with
  backlog,       \* connections the kernel has made and nobody accepted yet
  reader,        \* the thread of a user: "none", "read", "write", "done"
  rcvBuffer, i,  \* a reader's variables: what it read, its place in the table
  toServer, toUser,  \* the lines under way on a connection, each way
  link,          \* the server's end of it: "none", "open", "fin" (the user has
                 \* left), "err" (reset, and no call was told), "rst"
  typing,        \* the client reads its keyboard
  typed,         \* how many lines the user typed
  shown          \* the lines the client printed

mainVars   == <<main, sock_connect, user_cnt, arg>>
readerVars == <<reader, rcvBuffer, i>>
clientVars == <<typing, typed, shown>>
vars == <<up, mainVars, backlog, readerVars, toServer, toUser, link, clientVars>>

\* The cells of memory from sock_connect[0] on, the array's and those after it.
Slots == 0 .. Cardinality(Users)

Init ==
  /\ up = TRUE /\ main = "accept"
  /\ sock_connect = [s \in Slots |-> NoUser] /\ user_cnt = 0 /\ arg = NoUser
  /\ backlog = <<>>
  /\ reader = [u \in Users |-> "none"]
  /\ rcvBuffer = [u \in Users |-> <<>>] /\ i = [u \in Users |-> 0]
  /\ toServer = [u \in Users |-> <<>>] /\ toUser = [u \in Users |-> <<>>]
  /\ link = [u \in Users |-> "none"]
  /\ typing = [u \in Users |-> FALSE] /\ typed = [u \in Users |-> 0]
  /\ shown = [u \in Users |-> <<>>]

-----------------------------------------------------------------------------
(* The client.                                                             *)

Join(u) ==
  /\ up /\ link[u] = "none"
  /\ link' = [link EXCEPT ![u] = "open"] /\ backlog' = Append(backlog, u)
  /\ typing' = [typing EXCEPT ![u] = TRUE]
  /\ UNCHANGED <<up, mainVars, readerVars, toServer, toUser, typed, shown>>

\* do_keyboard(): a line is sent. After "exit" the keyboard thread ends, and
\* nothing else does.
Type(u) ==
  /\ up /\ typing[u] /\ typed[u] < MaxLines[u]
  /\ typed' = [typed EXCEPT ![u] = @ + 1]
  /\ toServer' = [toServer EXCEPT ![u] = Append(@, <<u, typed[u] + 1>>)]
  /\ typing' \in {typing, [typing EXCEPT ![u] = FALSE]}
  /\ UNCHANGED <<up, mainVars, backlog, readerVars, toUser, link, shown>>

\* readSock() of the client: what has arrived is printed.
Show(u) ==
  /\ link[u] = "open" /\ toUser[u] # <<>>
  /\ \E n \in 1 .. Len(toUser[u]) :
       /\ shown' = [shown EXCEPT ![u] = @ \o SubSeq(toUser[u], 1, n)]
       /\ toUser' = [toUser EXCEPT ![u] = SubSeq(@, n + 1, Len(@))]
  /\ UNCHANGED <<up, mainVars, backlog, readerVars, toServer, link, typing, typed>>

\* The user ends the client, which it does not do by itself. The kernel resets
\* the connection if there is something the client has not read.
Leave(u) ==
  /\ link[u] = "open"
  /\ link' = [link EXCEPT ![u] = IF toUser[u] = <<>> THEN "fin" ELSE "err"]
  /\ toUser' = [toUser EXCEPT ![u] = <<>>]
  /\ typing' = [typing EXCEPT ![u] = FALSE]
  /\ UNCHANGED <<up, mainVars, backlog, readerVars, toServer, typed, shown>>

-----------------------------------------------------------------------------
(* The server's main thread.                                               *)

\* The process ends and all its threads with it.
Die ==
  /\ up' = FALSE
  /\ UNCHANGED <<mainVars, backlog, readerVars, toServer, toUser, link, clientVars>>

\* thread_id[ListenSlot] was assigned: sock_listen is no longer a socket.
ListenLost == user_cnt > ListenSlot

\* Mutants of Accept: the result of accept() is not tested; the user is entered
\* one cell too far.
AcceptUntested ==
  /\ up /\ main = "accept" /\ ~ ListenLost
  /\ sock_connect' = [sock_connect EXCEPT ![user_cnt] =
                        IF backlog = <<>> THEN -1 ELSE Head(backlog)]
  /\ backlog' = SubSeq(backlog, 2, Len(backlog)) /\ main' = "count"
  /\ UNCHANGED <<up, user_cnt, arg, readerVars, toServer, toUser, link, clientVars>>

AcceptBeyond ==
  /\ up /\ main = "accept" /\ ~ ListenLost /\ backlog # <<>>
  /\ sock_connect' = [sock_connect EXCEPT ![user_cnt + 1] = Head(backlog)]
  /\ backlog' = Tail(backlog) /\ main' = "count"
  /\ UNCHANGED <<up, user_cnt, arg, readerVars, toServer, toUser, link, clientVars>>

Accept ==
  /\ up /\ main = "accept" /\ ~ ListenLost /\ backlog # <<>>
  /\ sock_connect' = [sock_connect EXCEPT ![user_cnt] = Head(backlog)]
  /\ backlog' = Tail(backlog) /\ main' = "count"
  /\ UNCHANGED <<up, user_cnt, arg, readerVars, toServer, toUser, link, clientVars>>

\* Mutant of Count: the other order of the arguments.
CountReadsAfter ==
  /\ up /\ main = "count"
  /\ arg' = sock_connect[user_cnt + 1] /\ user_cnt' = user_cnt + 1 /\ main' = "create"
  /\ UNCHANGED <<up, sock_connect, backlog, readerVars, toServer, toUser, link, clientVars>>

\* The arguments of pthread_create(): one increments user_cnt and one reads
\* sock_connect[user_cnt], in no defined order. The repository's build,
\* fri/homework/server, reads the table first.
Count ==
  /\ up /\ main = "count"
  /\ arg' = sock_connect[user_cnt] /\ user_cnt' = user_cnt + 1 /\ main' = "create"
  /\ UNCHANGED <<up, sock_connect, backlog, readerVars, toServer, toUser, link, clientVars>>

Create ==
  /\ up /\ main = "create"
  /\ reader' = [reader EXCEPT ![arg] = "read"] /\ main' = "accept"
  /\ UNCHANGED <<up, sock_connect, user_cnt, arg, backlog, rcvBuffer, i, toServer,
                 toUser, link, clientVars>>

\* accept() fails, as it must once sock_listen is overwritten, or
\* pthread_create() does: the process ends.
MainFails == up /\ main \in {"accept", "create"} /\ Die

-----------------------------------------------------------------------------
(* The server's readers.                                                   *)

\* Mutant of Read: a line is put behind what the buffer holds.
ReadAppends(u) ==
  /\ up /\ reader[u] = "read" /\ toServer[u] # <<>>
  /\ \E n \in 1 .. Len(toServer[u]) :
       /\ rcvBuffer' = [rcvBuffer EXCEPT ![u] = @ \o SubSeq(toServer[u], 1, n)]
       /\ toServer' = [toServer EXCEPT ![u] = SubSeq(@, n + 1, Len(@))]
  /\ reader' = [reader EXCEPT ![u] = "write"] /\ i' = [i EXCEPT ![u] = 0]
  /\ UNCHANGED <<up, mainVars, backlog, toUser, link, clientVars>>

Read(u) ==
  /\ up /\ reader[u] = "read" /\ toServer[u] # <<>>
  /\ \E n \in 1 .. Len(toServer[u]) :
       /\ rcvBuffer' = [rcvBuffer EXCEPT ![u] = SubSeq(toServer[u], 1, n)]
       /\ toServer' = [toServer EXCEPT ![u] = SubSeq(@, n + 1, Len(@))]
  /\ reader' = [reader EXCEPT ![u] = "write"] /\ i' = [i EXCEPT ![u] = 0]
  /\ UNCHANGED <<up, mainVars, backlog, toUser, link, clientVars>>

\* read() returns -1, which is not 0: the loop goes on, and each write() of -1
\* bytes fails without an effect.
ReadFails(u) ==
  /\ up /\ reader[u] = "read" /\ toServer[u] = <<>> /\ link[u] = "err"
  /\ link' = [link EXCEPT ![u] = "rst"]
  /\ UNCHANGED <<up, mainVars, backlog, readerVars, toServer, toUser, clientVars>>

\* Mutant of ReadEnd: the thread ends as soon as the user has left.
ReadEndAtOnce(u) ==
  /\ up /\ reader[u] = "read" /\ link[u] \in {"fin", "rst"}
  /\ reader' = [reader EXCEPT ![u] = "done"]
  /\ UNCHANGED <<up, mainVars, backlog, rcvBuffer, i, toServer, toUser, link, clientVars>>

\* read() returns 0: the thread ends. The user stays in the table.
ReadEnd(u) ==
  /\ up /\ reader[u] = "read" /\ toServer[u] = <<>> /\ link[u] \in {"fin", "rst"}
  /\ reader' = [reader EXCEPT ![u] = "done"]
  /\ UNCHANGED <<up, mainVars, backlog, rcvBuffer, i, toServer, toUser, link, clientVars>>

\* One turn of writeSock()'s loop, for the socket of v.
Next_i(u) == i' = [i EXCEPT ![u] = @ + 1]

Skip(u, v) == v = u /\ Next_i(u) /\ UNCHANGED <<toUser, link>>

\* Mutant of WriteTo: a failed write() ends the loop.
WriteToStops(u, v) ==
  /\ v # u /\ v # NoUser
  /\ \/ /\ link[v] = "open" /\ UNCHANGED link /\ Next_i(u)
        /\ toUser' = [toUser EXCEPT ![v] = @ \o rcvBuffer[u]]
     \/ /\ link[v] = "fin" /\ link' \in {link, [link EXCEPT ![v] = "rst"]}
        /\ UNCHANGED toUser /\ Next_i(u)
     \/ /\ link[v] = "err" /\ link' = [link EXCEPT ![v] = "rst"]
        /\ UNCHANGED toUser /\ i' = [i EXCEPT ![u] = user_cnt]

\* write() to a user that has left succeeds until the reset it causes arrives;
\* to a connection that was reset it returns -1 once.
WriteTo(u, v) ==
  /\ v # u /\ v # NoUser
  /\ \/ /\ link[v] = "open" /\ UNCHANGED link
        /\ toUser' = [toUser EXCEPT ![v] = @ \o rcvBuffer[u]]
     \/ link[v] = "fin" /\ link' \in {link, [link EXCEPT ![v] = "rst"]} /\ UNCHANGED toUser
     \/ link[v] = "err" /\ link' = [link EXCEPT ![v] = "rst"] /\ UNCHANGED toUser
  /\ Next_i(u)

Write(u) ==
  /\ up /\ reader[u] = "write" /\ i[u] < user_cnt
  /\ LET v == sock_connect[i[u]] IN Skip(u, v) \/ WriteTo(u, v)
  /\ UNCHANGED <<up, mainVars, backlog, reader, rcvBuffer, toServer, clientVars>>

\* A further write() to a connection that was reset raises SIGPIPE.
WriteKills(u) ==
  /\ up /\ reader[u] = "write" /\ i[u] < user_cnt
  /\ LET v == sock_connect[i[u]] IN v \notin {u, NoUser} /\ link[v] = "rst"
  /\ Die

WriteEnd(u) ==
  /\ up /\ reader[u] = "write" /\ i[u] >= user_cnt
  /\ reader' = [reader EXCEPT ![u] = "read"]
  /\ UNCHANGED <<up, mainVars, backlog, rcvBuffer, i, toServer, toUser, link, clientVars>>

-----------------------------------------------------------------------------
MainStep == Accept \/ Count \/ Create \/ (ListenLost /\ MainFails)

ReaderStep(u) ==
  Read(u) \/ ReadFails(u) \/ ReadEnd(u) \/ Write(u) \/ WriteKills(u) \/ WriteEnd(u)

Next ==
  \/ MainStep \/ MainFails
  \/ \E u \in Users : Join(u) \/ Type(u) \/ Show(u) \/ Leave(u) \/ ReaderStep(u)

Spec == Init /\ [][Next]_vars

\* The threads of the server run, and so do the clients' readers. Nobody has to
\* join, type or leave.
FairSpec ==
  /\ Spec /\ WF_vars(MainStep)
  /\ \A u \in Users : WF_vars(ReaderStep(u)) /\ WF_vars(Show(u))

-----------------------------------------------------------------------------
Lines == Users \X Nat

TypeOK ==
  /\ up \in BOOLEAN /\ main \in {"accept", "count", "create"}
  /\ sock_connect \in [Slots -> Users \union {NoUser}]
  /\ user_cnt \in Nat /\ arg \in Users \union {NoUser}
  /\ backlog \in Seq(Users)
  /\ reader \in [Users -> {"none", "read", "write", "done"}]
  /\ rcvBuffer \in [Users -> Seq(Lines)] /\ i \in [Users -> Nat]
  /\ toServer \in [Users -> Seq(Lines)] /\ toUser \in [Users -> Seq(Lines)]
  /\ link \in [Users -> {"none", "open", "fin", "err", "rst"}]
  /\ typing \in [Users -> BOOLEAN] /\ typed \in [Users -> Nat]
  /\ shown \in [Users -> Seq(Lines)]

Members == {sock_connect[s] : s \in {s \in Slots : s < user_cnt}}

\* What user v hears of the room: what was printed and what is on its way.
Heard(v) == shown[v] \o toUser[v]

\* Where the lines that u typed are in lines h.
LinesOf(h, u) == {k \in 1 .. Len(h) : h[k][1] = u}

\* The lines of u in h go on with the next number each time.
InOrder(h, u) ==
  \A j, k \in LinesOf(h, u) :
    j < k /\ (\A m \in LinesOf(h, u) : m <= j \/ k <= m) => h[k][2] = h[j][2] + 1

\* Lines b are in h, together, and no line of u is behind them.
EndsWith(h, u, b) ==
  \E p \in 0 .. Len(h) - Len(b) :
    /\ \A k \in 1 .. Len(b) : h[p + k] = b[k]
    /\ \A k \in LinesOf(h, u) : k <= p + Len(b)

\* The unlocked table is always fit to be read: what is counted is assigned,
\* no user is in it twice, and each has a reader once it is created.
TableIsFit ==
  /\ NoUser \notin Members
  /\ \A s, t \in Slots : s < user_cnt /\ t < user_cnt /\ sock_connect[s] = sock_connect[t]
                           => s = t
  /\ \A u \in Users : reader[u] # "none" <=> u \in Members /\ ~ (main = "create" /\ arg = u)

\* Whoever waits to be accepted, or was accepted and not yet counted, is in no
\* cell that counts, and waits once; and there is a cell for it.
Newcomers ==
  /\ user_cnt \in Slots
  /\ \A j, k \in 1 .. Len(backlog) : backlog[j] = backlog[k] => j = k
  /\ \A k \in 1 .. Len(backlog) :
       link[backlog[k]] # "none" /\ reader[backlog[k]] = "none" /\ backlog[k] \notin Members
  /\ main = "count" =>
       LET new == sock_connect[user_cnt] IN
       /\ new \in Users \ Members /\ link[new] # "none" /\ reader[new] = "none"
       /\ \A k \in 1 .. Len(backlog) : backlog[k] # new
  /\ main = "create" => arg \in Members
  /\ \A u \in Members : link[u] # "none"

\* Each user hears each other user's lines in the order they were typed,
\* each once, without a gap from the first it hears; and never its own.
HeardInOrder ==
  \A v, u \in Users :
    /\ v = u => LinesOf(Heard(v), u) = {}
    /\ InOrder(Heard(v), u)

\* Lines b are those u typed after the first e, one after the other.
Follow(b, u, e) == \A k \in 1 .. Len(b) : b[k] = <<u, e + k>>

\* The last line of u in h is its line e.
LastIs(h, u, e) ==
  \A k \in LinesOf(h, u) : (\A m \in LinesOf(h, u) : m <= k) => h[k][2] = e

\* How many lines of u its reader has taken, and those of before its buffer.
Taken(u)  == typed[u] - Len(toServer[u])
Before(u) == Taken(u) - Len(rcvBuffer[u])

\* Member v has yet to be written to by the reader of u.
Awaits(v, u) ==
  reader[u] = "write" /\ \E s \in Slots : i[u] <= s /\ s < user_cnt /\ sock_connect[s] = v

\* The lines of u that are in its reader's buffer, and behind them those that
\* are on their way.
Stream(u) ==
  /\ Len(toServer[u]) <= typed[u] /\ Follow(toServer[u], u, Taken(u))
  /\ Len(rcvBuffer[u]) <= Taken(u) /\ Follow(rcvBuffer[u], u, Before(u))

\* As long as v is there it was handed the lines of before the buffer or, once
\* written to, the buffer as well.
Handed(v, u) ==
  link[v] = "open" =>
    /\ LastIs(Heard(v), u, IF Awaits(v, u) THEN Before(u) ELSE Taken(u))
    /\ v \in Members /\ reader[u] = "write" /\ ~ Awaits(v, u)
         => EndsWith(Heard(v), u, rcvBuffer[u])

\* Nobody hears anything before it is counted, and no reader is further in the
\* table than the cell that will be counted next.
Delivery ==
  \A u \in Users :
    /\ Stream(u) /\ i[u] <= user_cnt
    /\ u \notin Members => Heard(u) = <<>>
    /\ \A v \in Users \ {u} : Handed(v, u)

IInv == TypeOK /\ TableIsFit /\ Newcomers /\ HeardInOrder /\ Delivery

ReachedAll(u) ==
  \A v \in Members \ {u} : link[v] = "open" => EndsWith(Heard(v), u, rcvBuffer[u])

\* Whoever is in the room when a reader has gone through the table was handed
\* what it read, also those who were counted while it was writing.
ReachesAll ==
  [][\A u \in Users : reader[u] = "write" /\ reader'[u] = "read" => ReachedAll(u)]_vars

\* Who connects has a reader in the end, unless the server has ended.
Admitted ==
  \A u \in Users : up /\ link[u] # "none" ~> reader[u] # "none" \/ ~ up

\* A line under way to the server is shown in the end to every member who
\* stays, as long as the server runs: also what a user typed before leaving.
EventuallyHeard ==
  \A u, v \in Users : \A k \in 1 .. MaxLines[u] :
    u # v /\ v \in Members /\ Contains(toServer[u], <<u, k>>)
      ~> \/ Contains(shown[v], <<u, k>>)
         \/ link[v] # "open" \/ ~ up
=============================================================================
