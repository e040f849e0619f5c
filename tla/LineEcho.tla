------------------------------ MODULE LineEcho ------------------------------
(***************************************************************************)
(* The word echo of tue/echo, server/echo_server.c and client/             *)
(* echo_client.c; wen/fork/echo_client.c is the same client.  A word is    *)
(* sent with its terminator and read back a character at a time, by loops  *)
(* that count what they read in length.  The server sets it to 0 for every *)
(* word, the client does so once.                                          *)
(***************************************************************************)
EXTENDS Integers, Sequences, FiniteSetsExt

CONSTANTS
  BUFSIZ,     \* the size of the buffers, which holds a character and its terminator
  MaxWords    \* bound on the words that are typed

VARIABLES
  server,     \* "accept", "loop", "gone"
  cpc,        \* the client: "none", "scanf", "read", "gone"
  words,      \* how many words were typed
  toServer,   \* the words under way, each a sequence of its number; "quit" is
              \* an empty one
  toClient,   \* the characters under way, 0 being the terminator
  length,     \* the client's count
  word,       \* the word typed last
  rcvBuffer,  \* and the byte behind it; -1 is any that the stack held before
  printed     \* what was printed last

vars == <<server, cpc, words, toServer, toClient, length, word, rcvBuffer, printed>>

Init ==
  /\ server = "accept" /\ cpc = "none" /\ words = 0
  /\ toServer = <<>> /\ toClient = <<>>
  /\ length = 0 /\ word = <<>>
  /\ rcvBuffer \in {[k \in 0 .. BUFSIZ |-> b] : b \in {0, -1}} /\ printed = <<>>

-----------------------------------------------------------------------------
Connect ==
  /\ server = "accept" /\ server' = "loop" /\ cpc' = "scanf"
  /\ UNCHANGED <<words, toServer, toClient, length, word, rcvBuffer, printed>>

\* A word fits the buffer with its terminator.
Write ==
  /\ cpc = "scanf" /\ words < MaxWords /\ cpc' = "read"
  /\ words' = words + 1
  /\ \E n \in 1 .. BUFSIZ - 1 : word' = [k \in 1 .. n |-> words + 1]
  /\ toServer' = IF server = "loop" THEN Append(toServer, word') ELSE toServer
  /\ UNCHANGED <<server, toClient, length, rcvBuffer, printed>>

Quit ==
  /\ cpc = "scanf" /\ cpc' = "gone"
  /\ toServer' = Append(toServer, <<>>)
  /\ UNCHANGED <<server, words, toClient, length, word, rcvBuffer, printed>>

Interrupt ==
  /\ cpc \in {"scanf", "read"} /\ cpc' = "gone"
  /\ UNCHANGED <<server, words, toServer, toClient, length, word, rcvBuffer, printed>>

\* One turn of the server's loop: length is 0, and the word fits.
Echo ==
  /\ server = "loop" /\ toServer # <<>> /\ Head(toServer) # <<>>
  /\ toClient' = toClient \o Append(Head(toServer), 0)
  /\ toServer' = Tail(toServer)
  /\ UNCHANGED <<server, cpc, words, length, word, rcvBuffer, printed>>

\* "quit" ends the server; so does the client's end, for which it finds an
\* empty line again and again, until the answer to one raises SIGPIPE.
ServerEnds ==
  /\ server = "loop"
  /\ \/ toServer # <<>> /\ Head(toServer) = <<>>
     \/ toServer = <<>> /\ cpc = "gone"
  /\ server' = "gone" /\ toServer' = <<>>
  /\ UNCHANGED <<cpc, words, toClient, length, word, rcvBuffer, printed>>

\* n characters are read, the byte at length is set to 0, and what precedes the
\* first 0 is printed.
Prints(n) ==
  /\ toClient' = SubSeq(toClient, n + 1, Len(toClient))
  /\ rcvBuffer' = [k \in 0 .. BUFSIZ |-> IF k = length' THEN 0
                                        ELSE IF k < n THEN toClient[k + 1] ELSE rcvBuffer[k]]
  /\ printed' = [k \in 1 .. Min({j \in 0 .. BUFSIZ : rcvBuffer'[j] = 0}) |-> rcvBuffer'[k - 1]]
  /\ cpc' = "scanf"
  /\ UNCHANGED <<server, words, toServer, word>>

\* The loop of read(), with room for the characters up to the terminator.
ReadWord ==
  /\ cpc = "read"
  /\ \E n \in 0 .. Len(toClient) - 1 :
       /\ toClient[n + 1] = 0 /\ \A k \in 1 .. n : toClient[k] # 0
       /\ length + n <= BUFSIZ /\ length' = length + n
       /\ Prints(n + 1)

\* With length at BUFSIZ it reads one character more and ends.
ReadFull ==
  /\ cpc = "read"
  /\ LET n == BUFSIZ - length + 1 IN
       /\ n <= Len(toClient) /\ \A k \in 1 .. n : toClient[k] # 0
       /\ length' = BUFSIZ
       /\ Prints(n)

Next == Connect \/ Write \/ Quit \/ Interrupt \/ Echo \/ ServerEnds \/ ReadWord \/ ReadFull

Spec == Init /\ [][Next]_vars

-----------------------------------------------------------------------------
\* What the client prints as "echo : %s" is the echo of the word just typed.
EchoIsTheWord == cpc = "scanf" => printed = word
=============================================================================
