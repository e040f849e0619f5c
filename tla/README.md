# A verification of the networktest programs

`networktest` is a collection of network programs and small Linux drivers, written over one
week (`src/mon` … `src/fri`). Some are demonstrations of one call; the others are complete
systems: servers that are iterative, forking, threaded or built around `select()`, a file
transfer that resumes after an interruption, a chat room, relays over pipes and queues,
drivers with interrupts and timers. This directory models those systems in TLA+, checks them
with TLC on small instances and proves the central results with TLAPS.

No program has tests; what the programs promise is in their messages and comments, and in
the protocol that each pair of client and server forms.

## 1. The system

| Part | State it keeps | Operations | Hard behaviour | What makes it correct |
|---|---|---|---|---|
| Resumable transfer `thu/hw2` | the file on disk; `totalbytes`, `numtotal`, stdio buffer; the client's position | name, offset, size, data, verdict | kills and restarts on both sides, cut connections, failing writes, `recv()` returning 0 | the stored file is a prefix of the sent one, the transfer ends, the verdict is true |
| Talk room `fri/homework` | table `sock_connect`, `user_cnt`, one buffer per thread | accept, create, read, write to all others | threads share the table with no lock; users leave; SIGPIPE; table overflow | lines arrive in order, once, at everyone who stays |
| Select echo `thu/select` | table `clientSock`, `numClient`, `read_fds` | select, accept, read and write, remove | the table changes while the loop walks it; stale set; unchecked `accept()` | each client gets its own lines; the table is exact; the one thread never blocks |
| Forking echo `wen/fork` | children, `connSock`, the pending signal | accept, fork, echo, reap | SIGCHLD between any two steps, coalesced signals, EINTR | one child per connection, zombies accounted for |
| UDP echo `wen/udp*` | the alarm, datagrams under way | sendto, recvfrom, alarm | loss, late answers, signal before the call | an answer belongs to its line; the client never hangs |
| UDP relays `fri/fifo`, `fri/pipe`, `fri/msgq` | a kernel queue between two or four processes | receive, enqueue, dequeue, answer | end of one process, full queue, message size | each datagram answered once, to its sender |
| LED drivers, servers `fri/ledok`, `thu/homework`, `thu/led` | the port register, an open device | write, display | partial messages | the LEDs show the last message (not modelled, section 8) |
| Kernel timer `fri/kernelTimer` | one timer, a counter, a process id | arm, fire, signal, unload | re-arming of an active timer, unload while armed | a registered program is signalled again and again; nothing is called after unload |
| Key driver `fri/signal_keybutton` | four interrupts, a process id, the programs it signals | register, interrupt, signal | stale id, partly failed registration, signal before the handler | the key reaches the program that registered |
| Two-process talk `wen/talk` | two processes per side, their ids | keyboard, socket, quit | each ends the other by a signal | both sides end after `quit` |
| Thread echo `thu/echo_thread`, `fri/sock_opt` | a thread per connection, the process' descriptors | accept, create, echo, restart | numbers that come back, a failed `accept()`, a server that ends and is run again | as the other echo servers; a thread uses its own descriptor only |
| Line echo `tue/echo` | a byte buffer and its length | read a line, answer | counts kept over lines, a line of the buffer's size | a line in, the line out |
| The rest | none that outlives a call | | | not modelled (section 8) |

The parts do not call each other: each is a client program and a server program (or a
program and a driver) joined by a connection, a signal or a device file. Interaction is
inside a part: through TCP (a queue of bytes each way and a state of the link), through
memory shared by threads, and through signals. The hazards of each part, with their lines,
are listed in `PROJECT.json`.

## 2. The modules

| Module | Models |
|---|---|
| `PrefixCopy` | abstract: what a resumable copy promises. The stored sequence starts empty and only grows, always to a prefix of the source |
| `FileResume` | `thu/hw2`: server, clients, connections, faults |
| `FileResumeProofs` | theorems about `FileResume` |
| `TalkRoom` | `fri/homework`: server threads, table, clients |
| `Echo` | abstract: what an echo service promises each client |
| `EchoClients` | the echo client and its connection, shared by the servers below |
| `SelectEcho` | `thu/select/echo_server_select.c`, EXTENDS `EchoClients` |
| `ForkEcho` | `wen/fork/echo_server_fok_sig.c` and `echo_server_fork.c`, EXTENDS `EchoClients` |
| `ThreadEcho` | `thu/echo_thread` and `fri/sock_opt`, EXTENDS `EchoClients` |
| `UdpClients` | the datagram clients of `wen/udp`, `wen/udp_alarm`, `wen/udp_connect` and the sockets |
| `UdpServers` | the datagram servers of `wen/udp*` and the relays of `fri/pipe`, `fri/fifo`, `fri/msgq`, EXTENDS `UdpClients` |
| `Board` | the drivers of `fri/kernelTimer` and `fri/signal_keybutton` with the programs that register with them |
| `TalkFork` | `wen/talk`: two processes on each side |
| `LineEcho` | `tue/echo`: the client's buffer and count, byte by byte |
| `EchoClientsProofs` | lemmas about the client and its connection, for any server on `EchoClients` |
| `ForkEchoProofs`, `SelectEchoProofs`, `ThreadEchoProofs`, `TalkRoomProofs`, `UdpServersProofs` | theorems about the module of that name |
| `SignalProofs` | theorems about the two systems held together by signals, `Board` and `TalkFork` |
| `MC…` | values of the constants for TLC |

Definitions whose comment begins with "Mutant of" are deliberate faults: each is a changed
form of the definition after it, and the property named for it in `PROJECT.json` is violated
when it takes that definition's place. They are not part of any specification.

### FileResume

One step is the code from one blocking call to the next. The server's `spc` is the `recv()`
it is in: `RecvName` is lines 73–105 of `fileserver.c` (name, size of the file, offset
sent), `RecvTotal` 107–128, `RecvData` one turn of the loop 129–146, `EndData` and `Report`
139–158. The client's `cpc` likewise: `SendName`, `RecvOffset` with `StartAt` (lines 59–80
of `fileclient.c`), `SendChunk`, `Finish`.

* `disk` and `wbuf` are the file and what stdio still holds: `fwrite()` may pass on any
  first part of it, `fclose()` passes on all. A failing write loses the rest.
* `Garbage` is what an `int` that was never assigned may hold. The server's `totalbytes`
  (line 108) is unassigned when `recv()` returns 0: it may then also still hold the last
  session's.
* Faults are kills of clients (`Kill`), failing file calls, cut connections that lose any
  suffix of what is under way (`Reset`), and a server that dies and is started again.
  `MaxFaults` bounds their number.
* `sound` and `told` are history: whether the server received `totalbytes` and wrote without
  failure, whether the client received its offset. No action is guarded by them.

Files with other names are not modelled: sessions on different files share only the loop of
the server. All clients hold the same file, which the protocol takes for granted (an offset
is a number of bytes and no more).

### TalkRoom

The main thread's `accept`, `user_cnt++` and `pthread_create` are three steps (`Accept`,
`Count`, `Create`), since reader threads walk the table in between. C leaves open whether
`sock_connect[user_cnt]` in the call is read before or after `user_cnt++`; the build in the
repository reads it before, and so does `Count`. A reader is in `read` or goes through the
table one `write()` at a time (`WriteTo`). The table has no bound: at index `ListenSlot` the
writes to `thread_id` reach the variable `sock_listen`, after which `accept()` fails and the
main thread ends the process. `link` is the state of a connection as the server sees it; a
write to a reset connection fails once and from then on raises SIGPIPE, which nobody
handles.

### EchoClients, SelectEcho, ForkEcho, ThreadEcho

A client sends a line, in one piece or two, and reads until it has it all back. Pieces are
numbered, and `got` records each with its sender, so that an answer to the wrong client is
seen. The connection follows Linux: a process that ends with unread data sends a reset, else
a FIN; data that was queued before a reset can still be read, then one call returns -1, and
from then on reads return 0 and writes raise SIGPIPE.

`SelectEcho` numbers descriptors from the lowest free one, as the kernel does, so a number
comes back soon. `accept()` is given an address length that was never assigned: if it is
negative the connection is dropped and -1 is entered in the table; so it is when no
descriptor is left. FD_SET and FD_ISSET of -1 act on a bit of the set, that of `MinusOne`;
in the repository's build it is 31. `TableEnd` is the index at which the table leaves the
program's data (992 there; the array has 512 cells, and the memory after them is not used by
anything).

`ForkEcho` covers both programs by the variable `handlerExits`, chosen once. SIGCHLD is a
flag (`pending`), blocked while the handler runs; the handler runs between any two steps of
the parent, and one that interrupts a waiting `accept()` makes it return -1 (`interrupted`),
with which the program forks a child that reads from -1 for ever (`runaways`). `lost` counts
the deaths that found the signal pending.

`ThreadEcho` covers both programs by `reuse`, chosen once: whether SO_REUSEADDR is set. The
threads share one set of descriptors, numbered from the lowest free one; `arg` is the number
a thread was given by value, `owner` what a number is open on. A thread reads what its
number is open on (`Reads`), no matter whose connection that is. Without a free number
`accept()` returns -1 and a thread is made of it that spins (`runaways`). `Die` is the end
of the process, by SIGPIPE in any thread, by a failing `pthread_create()` or from outside;
connections that clients have not closed linger, and `bind()` fails until they are gone
(`Restart`) unless `reuse` holds.

### UdpClients, UdpServers

All programs speak to 127.0.0.1, where datagrams are not overtaken or doubled: they are
lost, if nobody has the port or if the receive buffer (`RcvBuf`) is full. A client's
`sendto()`, its entry into `recvfrom()` and what ends that are separate steps, so that the
alarm may go off before the wait begins (`AlarmEarly`), after which nothing ends it, or
during it (`Timeout`, EINTR). A client takes whatever datagram comes first for its echo
(`Receive`); the connected one only those from the server's port, and it is told when nobody
listens (`refused`).

`kind` is the server, chosen once. A relay's parent receives (`Recv`) and passes on
(`Pass`), waiting while the queue has no room; its workers take and answer (`Take`,
`Answer`). A pipe belongs to one run of the server, the FIFO and the message queue to all of
them (`QueueOf`), and the message queue outlives them. Any process may be killed
(`ParentEnds`, `WorkerEnds`); the socket is free when the last process of its run has ended
(`Release`), and the relays on pipe and FIFO ignore that their `bind()` fails. At the end of
a pipe the worker answers the message read last again and again (`TakeEnd`). `res_send` is
not in the repository; it is modelled as `msgq_echoserv.c` uses it. If it cannot be
executed, a child comes back from `fork_and_exec()` (lines 84-86), makes the forks that are
left, and goes on to receive on the shared socket as its parent does (`ChildRecv`,
`ChildPass`): `Children` such processes, 2^3 - 1 in the code, that fill the queue, keep the
port when the parent has ended, and leave nobody to answer. `Crews` is the choice, made at
each start.

### Board

Both drivers ask for the same major number, so one is loaded at a time, and a program may
find either behind its device file. `Script` is the order of the calls of each program:
`test` sets its handler before it gives its id, `sig` after. A process id is reused once its
process is reaped; a zombie holds it. `Notify` is `kill_proc()` on the id the driver was
given last. `misused` is history: the timer was written to while it ran, or its driver was
unloaded with the timer armed, or a `request_irq()` failed. From then on the kernel may walk
a broken list or call into code that is gone (`kernel` becomes "undefined"). `probe()` gives
nothing back when one request fails, and `remove()` is not called then (`strayIrqs`). The
handler of `sig.c` forks (`Fork`), and nobody waits for its children while it lives.

### TalkFork

`kpc[s]` and `spc[s]` are the two processes of side `s`: the one at the keyboard, the
parent, and the one at the socket. What is typed is numbered, 0 is "exit". `Quit` is the
parent's end after "exit": the client's signals its child, the server's signals its whole
group, since the pid it uses is a global variable that one in `main()` shadows. `QuitParent`
is the socket process that reads "exit" and signals its parent. `Read` returns all that has
arrived, of which only the start is compared: an "exit" behind another line is not noticed
(`missed`, history). After the end of the connection `read()` returns 0 and the process
spins. A side whose connection is closed with something unread sends a reset, as does one
that is written to after it has closed; the reset may overtake any last lines that were
under way (`Without`, and `cut`, which is history). The names of its specification begin
with `Talk` (`TalkInit`, `TalkNext`, `TalkInv`), since `SignalProofs` extends both this
module and `Board`.

### LineEcho

The one module at the level of bytes, as its property is about them: `length` and
`rcvBuffer` of the client, the bytes under way, a word's characters being its number. The
initial content of the buffer is all 0 or all unknown (-1).

## 3. The runs

| Run | Question | Bounds | Distinct states |
|---|---|---|---|
| `file_resume` | is the file ever wrong, can a sound verdict be wrong | 2 clients, 3 bytes in pieces of 2, 2 faults | 1.16 million |
| `file_resume_live` | does every session end, does the file get there | the same, 1 fault | 82,310 |
| `file_resume_verdict` | is the printed verdict true with no proviso (it is not) | the same, 1 fault | stops at the counterexample |
| `talk_room` | is the unlocked table fit to read, do lines arrive in order, at everyone | 3 users, two lines of one and one of another, table bound at 2 | 2.9 million |
| `talk_room_live` | is everyone admitted and heard | 3 users, 1 line | 23,347 |
| `select_echo` | table, readiness, echo, liveness | 3 clients, 2 descriptors, 3 pieces | 158,297 |
| `fork_echo` | children, zombies, signals, echo, liveness | 3 clients, 3 pieces | 116,342 |
| `thread_echo` | descriptors and their threads, echo, restarts, liveness | 3 clients with 2, 1 and 0 pieces, 2 descriptors, 1 spinning thread, 1 restart | 271,823 |
| `udp_echo` | which answer is taken for which line, does the alarm end the wait, is everything answered | 5 servers, a client with an alarm (2 lines), a connected one (1 line), 2 runs, 2 `res_send` processes or 2 children that receive, a queue of 1, buffers of 2 | 264,134 |
| `board` | whom the signals reach, when the kernel is in danger | 3 process ids, 2 keys, 2 ticks, 3 starts | 286,900 |
| `talk_fork` | which processes are left, does "exit" end all | 3 and 2 typed lines | 7,188 |
| `line_echo` | is what is printed the echo of the word (it is not) | buffer of 4, 4 words | stops at the counterexample |

Why these are enough. *Transfer*: two pieces, one full and one partial, are the shortest
file in which a session can stop between pieces and inside one; three different bytes make a
byte skipped or repeated visible; two faults let one session break, its successor break too,
and a third finish; the third kind of client (a bystander in the backlog) is played by the
idle one of two. *Talk room*: a speaker, a listener and a third who is accepted while the
speaker's thread is in the middle of the table; one user types twice while another types
once. With three users the table passes its bound of 2, as ten and more do in the code.
*Select*: two descriptors for three clients give reuse of a number, a move in the table, and
exhaustion. *Fork*: three children, so one can die while the handler runs, one while the
signal is pending, and one connection can be waiting. *Threads*: the third client makes
`accept()` fail or reuse the number of an ended thread; one spinning thread shows all that
more would (`runaways` guards nothing but its bound). *Datagrams*: two lines of one client
are needed for a late answer to meet the wrong line, a second client for an answer to go
astray, a second run for processes to be left over from the first, two workers for answers
to overtake one another behind one message queue, two children left to receive for one to
hold a datagram while another keeps the port. *Board*: three ids let a parent, its child and
a stranger with a reused id exist together; of two keys one is the first, whose result
`probe()` returns, and one is not; two ticks tell a tick that signals from one that does
not. *Talk by processes*: two lines and an "exit" behind them can be read together or apart.
*Words*: lengths of 1 to 3 in a buffer of 4 fill it after two words.

Symmetry is not used: most runs check liveness, and users have different numbers of lines.
Deadlock is not checked where all clients may have come and gone and the servers rightly
wait (`CHECK_DEADLOCK FALSE`); the transfer never stops and is checked for it.

### What the properties say

* `StoredIsPrefix`, `ImplementsPrefixCopy`: the stored file is a prefix of the sent one,
  never shrinks, and changes only by growing.
* `NothingMissing`: when a client that was told its offset has printed completion, what the
  server holds, on disk, in stdio and in the socket, is the whole file. `MessageIsKept`,
  which is proved from it: when that session ends, `recv()` having returned 0 and `fclose()`
  having written, the file on disk is the source.
* `CompleteIsStored`: the server's verdict is true if it received `totalbytes` and no write
  failed. `CompleteMeansStored`, without that proviso, is violated (section 6).
* `SessionsEnd`, `EventuallyStored`: no session holds the iterative server for ever, and the
  file is stored in the end.
* `IInv` of each run (`TalkInv` of `talk_fork`): the type invariant with what else is
  inductive (section 5). In `udp_echo` it also says that a client is answered with its own
  lines only, and in which order what is under way may be; in `talk_fork`, that a side which
  is there gets what the other said in order, and loses of it no more than last lines that a
  reset has overtaken.
* `TableIsFit`, `HeardInOrder`, `ReachesAll`, `Admitted`, `EventuallyHeard`: the table read
  without a lock is always usable; no line is lost, repeated or reordered between two users;
  a reader that has gone through the table has served everyone who is in it by then.
* `TableIsExact`, `NeverWaitsForOne`: the table lists each open descriptor once; no `read()`
  is entered on a descriptor that is not ready, although `read_fds` is older than the table.
* `ImplementsEcho`: the three kinds of server implement `Echo`: each client gets its own
  pieces, in order, once.
* `EventuallyEchoed`, `EventuallyClosed`, `EventuallyServed`: pieces come back, descriptors
  are given back, connections get their child.
* `ZombiesAccounted`: zombies are exactly those a running handler or a pending signal will
  reap and those whose signal was lost. So `wait()` in the handler never blocks the server.
  `EventuallyReaped`: without lost signals every child is reaped.
* `RunawaysBounded`: at most one spinning child per child that ended. `ChildPerConnection`:
  no connection gets a second child.
* `EventuallyEchoed` of `ThreadEcho` has two parts: with a thread a piece comes back
  whatever else spins or is reset; from the backlog it does if descriptors keep being given
  back.
* `AnswersInTurn`: an echo that is printed late is off by no more lines than there were
  timeouts, always; and as long as no relay on a pipe or FIFO has lost its parent
  (`Orphaned`: from then on its child may repeat itself, and a second server may share the
  FIFO), answers come once, and in the order of their lines unless several workers serve one
  queue.
* `AlarmEndsWait`: once `recvfrom()` is entered with the alarm set, the wait ends. With the
  alarm already gone off it need not, which is the race of `echo_client_UDPalarm.c`; such a
  wait is not `armed`.
* `EventuallyAnswered`: what a server has received is answered, also through a queue that
  was full, while no process is killed.
* `KernelSafe` (a part of `Board`'s `IInv`): however programs come, go, fork and are killed,
  only a timer that is written to twice or left running, or a refused interrupt, brings the
  kernel into a driver that is gone.
* `KilledUnprepared`: the signal kills `sig` only between its `write()` and its `signal()`,
  never `test`, and otherwise only a process that was given the id of a registered one.
* `KeepsSignalling`: a program registered with the timer driver is signalled again and
  again.
* `SpinsUnnoticed`, `ExitEnds`: a process is left spinning only if the other side ended
  without "exit" or the "exit" was read behind another line or overtaken by a reset; an
  "exit" that is noticed ends the four processes, though both sides may type it at once and
  the server's parent does not know its child.
* `EchoIsTheWord`: violated (section 6).

## 4. Fairness

Weak fairness of a process is the operating system's promise to run what can run. Each
server process or thread has it as a whole (`ServerStep`, `MainStep`, `ReaderStep(u)`,
`ParentStep`, `ChildStep(c)`), not each of its actions, since a process takes whatever step
it is at. A client has it for the code it runs by itself. In `file_resume_live` a client
that is killed is run again (`WF(Connect)`) and a dead server is restarted: the program's
very purpose is that the user runs it again. `ThreadEcho`: the main thread, each
connection's thread, and a client that reads an echo. `UdpServers`: each process of the
server, and a client that waits, of which the alarm is part: `alarm(2)` goes off after two
seconds whatever happens. `Board`: the timer ticks (`Tick`) and a signal is delivered
(`Deliver`), which hardware and kernel promise; no key has to be pressed. `TalkFork`:
`Quit`, `Read`, `QuitParent`, the steps a process takes without its user. Nobody has to
connect, type or leave in the other systems. No strong fairness is assumed anywhere.

## 5. What is proved

`tlapm` checks, for every file, buffer size, number of clients and of faults
(`ConstantsAssumption`, and no more):

* `TypeCorrect`: `Spec => []TypeOK`;
* `Inductive`: `Spec => []IInv`;
* `PrefixStored`, `NothingIsMissing`, `CompleteStored`: `Spec => []` of `StoredIsPrefix`,
  `NothingMissing`, `CompleteIsStored`;
* `MessageKept`: `Spec => MessageIsKept`;
* `Refinement`: `Spec => ImplementsPrefixCopy`.

`StoredIsPrefix` is not inductive: a step may append to the file whatever is in the stream.
`IInv` says what is in the stream. `ConnInv`: exactly one connection is served while a
session runs, and it is `cur`. `StreamInv`: only the served connection has a total or data
under way, and a client cannot be ahead of its session. `SessionInv`: file, stdio buffer and
the stream of `cur` continue one another without a gap (`Continues(s, n)`: `s` is the source
after the first `n` bytes), and the client's position is where they end. `CountInv`: while
the session is sound, `totalbytes - numtotal` is what the source has beyond what is stored.
`IInv` is an invariant of run `file_resume`, too. `MessageIsKept` follows from
`NothingMissing` at the step in which the session ends: the stream is empty then and
`fclose()` writes what stdio held. It speaks of the served connection of a client that was
told its offset and left in order; of one that was cut or whose `fclose()` failed it says
nothing. The proof has a lemma for each action. The refinement follows since each action
leaves `disk` alone or appends a part that continues it.

The forking servers (`ForkEchoProofs`), for any finite set of clients and any number of
pieces (`EchoClientsAssumption`, `ForkEchoAssumption`):

* `IInvHolds`: `Spec => []IInv`, which includes `TypeOK`;
* `ZombiesAccountedHolds`, `RunawaysBoundedHolds`, `ChildPerConnectionHolds`: `Spec => []`
  of the invariants of those names;
* `Refinement`: `Spec => ImplementsEcho`.

The counts are not inductive by themselves. That `fork()` adds a child and never revives a
zombie needs `WaitsOnce`: a connection is in the backlog once, or is the one `accept()`
returned, and has had no child (`Untried`). Then each step moves a child from one set to
another, and the lemmas on cardinalities (`CountOf`) say what that does to the sums.
`InOrder` says that what a client has read, what is on its way to it and what is on its way
to the server continue one another (`Follows`); it gives the refinement, as what was read is
`Pieces(n)` for the length `n` of it, and every read makes `n` greater. The lemmas about
`InOrder` and about `Echo` are in `EchoClientsProofs`, which knows of no server, so that
another server only has to show its own steps harmless. `IInv` is an invariant of run
`fork_echo`, too.

The select server (`SelectEchoProofs`), for any finite set of clients and any number of
pieces, descriptors and table entries that satisfy the assumptions:

* `IInvHolds`, `TableIsExactHolds`, `NeverWaitsForOneHolds`: `Spec => []` of the invariants
  of those names;
* `Refinement`: `Spec => ImplementsEcho`.

`TableIsExact` needs `OwnedOnce` (two descriptors are never open on one connection, and what
is open was accepted); `NeverWaitsForOne` needs `ReadyAhead`: of the descriptors the loop
has not reached yet, those that are set in `read_fds` are still ready, since only the loop
itself reads and closes. The moving of the last entry into a freed place is where both could
break.

The threaded servers (`ThreadEchoProofs`), for any finite set of clients, any descriptors,
restarts and spinning threads: `IInvHolds` and `Refinement` (`Spec => ImplementsEcho`).
`OwnDescriptor` says that a thread's number is open on its own connection and no one else
has it, although numbers come back; it needs `WaitsOnce`, as above.

The talk room (`TalkRoomProofs`), for any finite set of users and any number of lines:
`IInvHolds`, `TableIsFitHolds`, `HeardInOrderHolds` (`Spec => []HeardInOrder`) and
`ReachesAllHolds` (`Spec => ReachesAll`). That an accepted descriptor is in nobody's hands
yet, and that `user_cnt` counts what is in the table and cannot exceed the number of users,
needs `Newcomers`: a user whose connection waits or was just returned by `accept()` is not
in the table. The bound is a counting argument (`RoomForAll`): the entries of the table are
an injection into `Users`. `HeardInOrder` compares lines a user already has, so by itself it
says nothing of the line that comes next. `Delivery` does. The lines of `u` that its reader
has in its buffer and those on their way to it follow one another up to the last one typed
(`Stream`); and the last line of `u` that a member `v` was handed is the last one before the
buffer while `v`'s cell is still ahead of the reader's index (`Awaits`), and the buffer's
last one when it is behind (`Handed`). The delicate step is `Count`, which lets a new cell into every walk
that is under way: a walk that has come to the old end goes on, one that has ended does not.
It is harmless since who is counted has heard nothing before, since no index is beyond
`user_cnt`, and since no user is in two cells (`TableIsFit`), so that a cell ahead of the
index means that none behind it is the same user's. `ReachesAll` is then the last conjunct
of `Handed` (`EndsWith`), with the fact that a reader stops writing at the end of the table
only (`OnlyWriteEnd`).

The drivers (`SignalProofs`), for any ids, keys and numbers of ticks and starts:
`IInvHolds`, which includes `KernelSafe`, and `KilledUnpreparedHolds`. `KernelSafe` rests on
`Fits` (an open device has its driver, which has its own timer or interrupts and no other:
so a driver in use is not unloaded) and `KilledUnprepared` on `Families` (who has called
`signal()` still has the handler, also after a fork; only what runs has a signal pending).

The two-process talk (`SignalProofs`), for any number of lines typed on each side:
`TalkInvHolds` and `SpinsUnnoticedHolds`. `Connected` says of a side that what it has
printed and what is on its way is what the other said, "exit" included, but for last lines
if a reset has overtaken some (`cut`); that holds past the other's end, since what has
arrived before a connection is closed can still be read. Nothing is cut while both sides are
there, so no line is ever sent behind a gap (`LostBehind`, `KeptBySend`). An "exit" is the
last thing said, so one that is read behind another line (`missed`) leaves nothing to be
read after it, and a process that has not noticed one has printed none: that is why what is
left spinning has met no "exit".

The datagram servers (`UdpServersProofs`), for any clients and lines, runs of the server,
workers behind the message queue and sizes of buffers and queues (`UdpClientsAssumption`,
`UdpServersAssumption`): `IInvHolds` and `AnswersInTurnHolds` (`Spec => []AnswersInTurn`).
Three things are proved one after the other.

* *Whose lines are where.* Whatever is in a buffer, a queue, a parent's or a worker's hands
  was sent, and what is with a client is that client's own. `LateAtMost` then is arithmetic:
  a client sends one line per wait, and each wait ended with an echo or a timeout, so the
  `k`-th echo is of one of the first `k` lines plus as many as there were timeouts. This
  part needs no proviso: it holds while a child repeats itself and while two servers share a
  FIFO.
* *Who runs* (`Staff`). A run is started when the one before has lost its parent, a worker
  belongs to a run that was started, and the run that has the port has a living process. As
  long as no parent of a pipe or FIFO relay has ended, it follows that there is one worker
  only, behind queue 1, which has a writer: so it never sees the end of its pipe. Children
  that are left receivers exist behind the message queue only (`ReceivesToo`).
* *Nothing passes anything* (`OneWay`). The order of the answers a client has is not
  inductive: it depends on everything on the way. `Places` are the five places a datagram
  goes through, from the socket's buffer to the client; what is in a place further on
  precedes what is in one further back (`Ahead`), each sequence is in turn, and two workers
  never hold the same. An action moves one datagram by one place, and the lemma
  `PlacesMoved` says that the order is kept if it comes from the front of one place to the
  end of the next. A child that receives takes a datagram to the second place and puts it
  from there into the third, the other way round; it can, as both orders are the same behind
  the message queue. `Precedes` is "not the same" behind the message queue, where several
  workers may overtake each other, and "of an earlier line, if of the same client" else.

With these every safety property and action property of the passing runs is a theorem.
Only model-checked: the liveness properties (fairness and ENABLED are beyond the prover),
which are `SessionsEnd`, `EventuallyStored`, `Admitted`, `EventuallyHeard`,
`EventuallyEchoed`, `EventuallyClosed`, `EventuallyServed`, `EventuallyReaped`,
`AlarmEndsWait`, `EventuallyAnswered`, `KeepsSignalling` and `ExitEnds`. `LineEcho` has no
theorem: its one property is violated.

## 6. Findings

`file_resume_verdict`: `fileserver.c:151` prints that the transfer is complete for a file
that lacks bytes. A client that leaves after sending its name makes the `recv()` of
`totalbytes` return 0; line 110 tests for `< 0` only, and `totalbytes` was never assigned.
If it holds 0, the session, in which nothing was received, is reported complete. The same
message follows a failing `fclose()`, whose result line 147 does not use. The stored file
stays a prefix all the same.

`line_echo`: `tue/echo/client/echo_client.c:59` prints "echo : " and a text that is not the
echo. The client sets `length` to 0 once (line 20), where its server does so for each line
(line 43); after `BUFSIZ` characters in all, line 54 ends the reading loop in the middle of
a word, and from then on the rest of one word is read as the echo of the next. The
counterexample needs nothing of the buffer's unknown initial content.

Behaviour that the models show and that breaks no promise of the code: an interrupted
`accept()` in `echo_server_fok_sig.c` leaves a child spinning on -1 (`RunawaysBounded` says
how many); deaths that coincide leave zombies; the table of the talk room runs over its
bound and ends the server; a connection to the select server can be dropped for its
unassigned length; an alarm that goes off before `recvfrom()` leaves the client waiting for
ever; a relay whose parent ended repeats its last answer; a process that has reused a
registered id is killed by a key; an "exit" read behind another line leaves processes
spinning.

## 7. Plan

In this order, most important first; (done) marks what exists.

1. `FileResume`, its proofs, its live and verdict runs (done).
2. `TalkRoom`, proofs of its invariants and of `ReachesAll` (done).
3. `Echo`, `EchoClients`, `SelectEcho`, `ForkEcho`, `ThreadEcho`, the proofs of their
   invariants and that each implements `Echo` (done).
4. `UdpClients` and `UdpServers`: the alarm, and the relays over pipe, FIFO and queue, and
   their proofs (done).
5. `Board`: the timer and key drivers with their programs, and its proofs (done).
6. `TalkFork` and its proofs (done); `LineEcho` (done).
7. The LED drivers of `fri/ledok` and their server, for the four-byte messages that arrive
   in part.

## 8. Not modelled

* The Linux 2.6.24 tree under `fri/keybutton-gpio`: third-party code. What the programs need
  of the kernel is modelled where they use it (sockets, signals, descriptors).
* Demonstrations of single calls, the packet readers, the port scanners, broadcast, the
  first server: no state outlives a call.
* `thu/talk_thread`: unfinished, its client does not compile. The finished form is
  `TalkRoom`.
* The LED drivers and servers (`fri/ledok`, `thu/homework`, `thu/led`): they keep a register
  the hardware holds and four bytes; so the hazard of a message cut short
  (`fri/ledok/server.c:78`), listed in `PROJECT.json`, has no property.
* `fri/keybutton-gpio`'s own driver prints which key was pressed and keeps nothing.
* `wen/mutex` (one lock, two threads), `tue/file_transfer` (`FileResume` with an offset of
  0), `tue/ls_srv_client` (the output of a command, sent as it is read): nothing that is not
  in the other modules.
* In the single modules: clients that spin at the end of a connection change nothing and are
  left waiting (`EchoClients`); datagrams of 512 bytes and more, which a server's buffer
  cuts, the rendezvous in `open()` of a FIFO, and an `execlp()` that fails for some children
  of a run and not for others (`UdpServers`); the LED the timer driver toggles and the text
  a handler's child prints (`Board`); a line that arrives in two reads or of which a reset
  leaves the beginning (`TalkFork`); a word longer than the buffer of `scanf()`
  (`LineEcho`).
* In the modelled parts: time (`sleep`, `usleep`), the length of the backlog, ports in
  TIME_WAIT, a `write()` that blocks or is cut because a socket buffer is full (pieces are
  at most 8192 bytes), records of 4 and 256 bytes arriving in part (MSG_WAITALL), SIGCHLD
  for stopped children, formatting of messages.
