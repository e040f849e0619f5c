---------------------------- MODULE TalkRoomProofs ----------------------------
(***************************************************************************)
(* Proofs about TalkRoom, for any number of users and lines and any place  *)
(* of the listening socket behind the array of threads.                    *)
(***************************************************************************)
EXTENDS TalkRoom, FiniteSetTheorems, SequenceTheorems, TLAPS

-----------------------------------------------------------------------------
(* Types.                                                                  *)

\* What read() takes of the lines that have arrived, and what it leaves.
LEMMA Cut ==
  ASSUME NEW S, NEW s \in Seq(S), NEW n \in 1 .. Len(s)
  PROVE  SubSeq(s, 1, n) \in Seq(S) /\ SubSeq(s, n + 1, Len(s)) \in Seq(S)
<1>1. /\ \A k \in 1 .. n : s[k] \in S
      /\ \A k \in n + 1 .. Len(s) : s[k] \in S
  BY ElementOfSeq, LenProperties
<1>2. 1 \in Int /\ n \in Int /\ n + 1 \in Int /\ Len(s) \in Int
  BY LenProperties
<1>. QED  BY <1>1, <1>2, SubSeqProperties

\* A reader stays within the cells.
LEMMA InSlots ==
  ASSUME TypeOK, Newcomers, NEW u \in Users, i[u] < user_cnt
  PROVE  i[u] \in Slots /\ sock_connect[i[u]] \in Members
<1>1. IsFiniteSet(Users) /\ Cardinality(Users) \in Nat
  BY TalkRoomAssumption, FS_CardinalityType
<1>2. i[u] \in Nat /\ user_cnt \in 0 .. Cardinality(Users)
  BY DEF TypeOK, Newcomers, Slots
<1>3. i[u] \in Slots
  BY <1>1, <1>2 DEF Slots
<1>. QED  BY <1>3 DEF Members

\* Every step keeps every type.
LEMMA TypeStep ==
  ASSUME TypeOK, TableIsFit, Newcomers, [Next]_vars
  PROVE  TypeOK'
<1>. USE DEF mainVars, readerVars, clientVars
<1>1. CASE UNCHANGED vars
  BY <1>1 DEF vars, TypeOK
<1>2. ASSUME Die  PROVE TypeOK'
  BY <1>2 DEF Die, TypeOK
<1>3. CASE Accept
  <2>1. Head(backlog) \in Users /\ Tail(backlog) \in Seq(Users)
    BY <1>3, HeadTailProperties DEF Accept, TypeOK
  <2>2. sock_connect' \in [Slots -> Users \union {NoUser}]
    BY <1>3, <2>1 DEF Accept, TypeOK
  <2>. QED  BY <1>3, <2>1, <2>2 DEF Accept, TypeOK
<1>4. CASE Count
  <2>1. arg' \in Users \union {NoUser} /\ user_cnt' \in Nat
    BY <1>4 DEF Count, TypeOK, Newcomers
  <2>. QED  BY <1>4, <2>1 DEF Count, TypeOK
<1>5. CASE Create
  BY <1>5 DEF Create, TypeOK
<1>6. ASSUME NEW u \in Users, Join(u)  PROVE TypeOK'
  <2>1. backlog' \in Seq(Users)
    BY <1>6, AppendProperties DEF Join, TypeOK
  <2>. QED  BY <1>6, <2>1 DEF Join, TypeOK
<1>7. ASSUME NEW u \in Users, Type(u)  PROVE TypeOK'
  <2>1. typed[u] \in Nat /\ toServer[u] \in Seq(Lines)
    BY DEF TypeOK
  <2>2. Append(toServer[u], <<u, typed[u] + 1>>) \in Seq(Lines)
    BY <2>1, AppendProperties DEF Lines
  <2>3. toServer' \in [Users -> Seq(Lines)]
    <3>1. /\ toServer \in [Users -> Seq(Lines)]
          /\ toServer' = [toServer EXCEPT ![u] = Append(@, <<u, typed[u] + 1>>)]
      BY <1>7 DEF Type, TypeOK
    <3>. QED  BY <2>2, <3>1
  <2>4. typed' \in [Users -> Nat]
    <3>1. typed \in [Users -> Nat] /\ typed' = [typed EXCEPT ![u] = @ + 1]
      BY <1>7 DEF Type, TypeOK
    <3>. QED  BY <3>1
  <2>5. typing' \in [Users -> BOOLEAN]
    <3>1. typing \in [Users -> BOOLEAN] /\ typing' \in {typing, [typing EXCEPT ![u] = FALSE]}
      BY <1>7 DEF Type, TypeOK
    <3>. QED  BY <3>1
  <2>. QED  BY <1>7, <2>3, <2>4, <2>5 DEF Type, TypeOK
<1>8. ASSUME NEW u \in Users, Show(u)  PROVE TypeOK'
  <2>1. PICK n \in 1 .. Len(toUser[u]) :
          /\ shown' = [shown EXCEPT ![u] = @ \o SubSeq(toUser[u], 1, n)]
          /\ toUser' = [toUser EXCEPT ![u] = SubSeq(@, n + 1, Len(@))]
    BY <1>8 DEF Show
  <2>2. toUser[u] \in Seq(Lines) /\ shown[u] \in Seq(Lines)
    BY DEF TypeOK
  <2>3. /\ SubSeq(toUser[u], n + 1, Len(toUser[u])) \in Seq(Lines)
        /\ shown[u] \o SubSeq(toUser[u], 1, n) \in Seq(Lines)
    BY <2>2, Cut, ConcatProperties
  <2>4. shown' \in [Users -> Seq(Lines)] /\ toUser' \in [Users -> Seq(Lines)]
    BY <2>1, <2>3 DEF TypeOK
  <2>. QED  BY <1>8, <2>4 DEF Show, TypeOK
<1>9. ASSUME NEW u \in Users, Leave(u)  PROVE TypeOK'
  BY <1>9, EmptySeq DEF Leave, TypeOK
<1>10. ASSUME NEW u \in Users, Read(u)  PROVE TypeOK'
  <2>1. PICK n \in 1 .. Len(toServer[u]) :
          /\ rcvBuffer' = [rcvBuffer EXCEPT ![u] = SubSeq(toServer[u], 1, n)]
          /\ toServer' = [toServer EXCEPT ![u] = SubSeq(@, n + 1, Len(@))]
    BY <1>10 DEF Read
  <2>2. toServer[u] \in Seq(Lines)
    BY DEF TypeOK
  <2>3. rcvBuffer' \in [Users -> Seq(Lines)] /\ toServer' \in [Users -> Seq(Lines)]
    BY <2>1, <2>2, Cut DEF TypeOK
  <2>4. reader' \in [Users -> {"none", "read", "write", "done"}] /\ i' \in [Users -> Nat]
    BY <1>10 DEF Read, TypeOK
  <2>. QED  BY <1>10, <2>3, <2>4 DEF Read, TypeOK
<1>11. ASSUME NEW u \in Users, ReadFails(u) \/ ReadEnd(u) \/ WriteEnd(u)  PROVE TypeOK'
  BY <1>11 DEF ReadFails, ReadEnd, WriteEnd, TypeOK
<1>12. ASSUME NEW u \in Users, Write(u)  PROVE TypeOK'
  <2>. DEFINE v == sock_connect[i[u]]
  <2>1. i[u] \in Slots /\ (Skip(u, v) \/ WriteTo(u, v)) /\ i[u] < user_cnt
    BY <1>12, InSlots DEF Write
  <2>2. i' \in [Users -> Nat]
    <3>1. i' = [i EXCEPT ![u] = @ + 1] /\ i \in [Users -> Nat]
      BY <2>1 DEF Skip, WriteTo, Next_i, TypeOK
    <3>. QED  BY <3>1
  <2>3. link' \in [Users -> {"none", "open", "fin", "err", "rst"}]
    <3>1. link \in [Users -> {"none", "open", "fin", "err", "rst"}]
      BY DEF TypeOK
    <3>2. link' = link \/ link' = [link EXCEPT ![v] = "rst"]
      BY <2>1 DEF Skip, WriteTo
    <3>. QED  BY <3>1, <3>2
  <2>4. v = u \/ v \in Users
    BY <1>12, <2>1, InSlots DEF TableIsFit, TypeOK
  <2>5. toUser[v] \o rcvBuffer[u] \in Seq(Lines)
    BY <2>4, ConcatProperties DEF TypeOK
  <2>6. toUser' \in [Users -> Seq(Lines)]
    <3>1. toUser \in [Users -> Seq(Lines)]
      BY DEF TypeOK
    <3>2. toUser' = toUser \/ toUser' = [toUser EXCEPT ![v] = @ \o rcvBuffer[u]]
      BY <2>1 DEF Skip, WriteTo
    <3>. QED  BY <2>5, <3>1, <3>2
  <2>. QED  BY <1>12, <2>2, <2>3, <2>6 DEF Write, TypeOK
<1>13. CASE MainFails \/ \E u \in Users : WriteKills(u)
  BY <1>2, <1>13 DEF MainFails, WriteKills
<1>. QED
  BY <1>1, <1>3, <1>4, <1>5, <1>6, <1>7, <1>8, <1>9, <1>10, <1>11, <1>12, <1>13
  DEF Next, MainStep, ReaderStep

-----------------------------------------------------------------------------
(* The table and those who come.                                           *)

\* The two together, which each step keeps or breaks together.
Fit == TableIsFit /\ Newcomers

\* A step that leaves the table, the main thread and the backlog alone, and
\* under which nobody gets or loses a reader or a connection.
LEMMA FitSame ==
  ASSUME TypeOK, Fit, UNCHANGED <<mainVars, backlog>>,
         \A u \in Users : /\ link[u] # "none" => link'[u] # "none"
                          /\ reader'[u] = "none" <=> reader[u] = "none"
  PROVE  Fit'
<1>. USE DEF mainVars
<1>1. Members' = Members
  BY DEF Members
<1>2. \A k \in 1 .. Len(backlog) : backlog[k] \in Users
  BY ElementOfSeq DEF TypeOK
<1>3. Members \subseteq Users
  BY DEF Fit, TableIsFit, Members, TypeOK
<1>4. TableIsFit'
  BY <1>1 DEF Fit, TableIsFit
<1>5. Newcomers'
  <2>1. main' = "count" =>
          LET new == sock_connect'[user_cnt'] IN
          /\ new \in Users \ Members' /\ link'[new] # "none" /\ reader'[new] = "none"
          /\ \A k \in 1 .. Len(backlog') : backlog'[k] # new
    BY <1>1 DEF Fit, Newcomers
  <2>2. \A k \in 1 .. Len(backlog') :
          link'[backlog'[k]] # "none" /\ reader'[backlog'[k]] = "none" /\ backlog'[k] \notin Members'
    BY <1>1, <1>2 DEF Fit, Newcomers
  <2>3. \A u \in Members' : link'[u] # "none"
    BY <1>1, <1>3 DEF Fit, Newcomers
  <2>. QED  BY <1>1, <2>1, <2>2, <2>3 DEF Fit, Newcomers
<1>. QED  BY <1>4, <1>5 DEF Fit

\* The cells that count are left alone by accept().
LEMMA CellsAtAccept ==
  ASSUME TypeOK, Fit, Accept
  PROVE  /\ user_cnt' = user_cnt /\ user_cnt \in Slots
         /\ sock_connect'[user_cnt] = Head(backlog)
         /\ \A s \in Slots : s < user_cnt => sock_connect'[s] = sock_connect[s]
         /\ Members' = Members
<1>1. /\ sock_connect' = [sock_connect EXCEPT ![user_cnt] = Head(backlog)]
      /\ user_cnt' = user_cnt
  BY DEF Accept
<1>2. /\ user_cnt \in Slots /\ sock_connect'[user_cnt] = Head(backlog)
      /\ \A s \in Slots : s # user_cnt => sock_connect'[s] = sock_connect[s]
  BY <1>1 DEF Fit, Newcomers, TypeOK
<1>3. \A s \in Slots : s < user_cnt => s # user_cnt
  BY DEF TypeOK
<1>4. Members' = Members
  BY <1>1, <1>2, <1>3 DEF Members
<1>. QED  BY <1>1, <1>2, <1>3, <1>4

\* The first of those who wait is put in the cell behind those that count.
LEMMA FitAccept ==
  ASSUME TypeOK, Fit, Accept
  PROVE  Fit'
<1>. DEFINE h == Head(backlog)
<1>1. /\ main = "accept" /\ main' = "count" /\ backlog # <<>> /\ backlog' = Tail(backlog)
      /\ sock_connect' = [sock_connect EXCEPT ![user_cnt] = h]
      /\ UNCHANGED <<user_cnt, arg, reader, link>>
  BY DEF Accept, readerVars
<1>2. /\ h = backlog[1] /\ h \in Users /\ Len(backlog) \in Nat \ {0}
      /\ Len(backlog') = Len(backlog) - 1
      /\ \A k \in 1 .. Len(backlog') : backlog'[k] = backlog[k + 1]
  BY <1>1, HeadTailProperties, EmptySeq, LenProperties DEF TypeOK
<1>3. /\ \A k \in 1 .. Len(backlog') : k + 1 \in 1 .. Len(backlog) /\ k + 1 # 1
      /\ 1 \in 1 .. Len(backlog)
      /\ \A j, k \in 1 .. Len(backlog') : j + 1 = k + 1 => j = k
  BY <1>2
<1>4. /\ user_cnt \in Slots /\ sock_connect'[user_cnt] = h
      /\ \A s \in Slots : s < user_cnt => sock_connect'[s] = sock_connect[s]
      /\ Members' = Members
  BY CellsAtAccept
<1>5. h \notin Members /\ link[h] # "none" /\ reader[h] = "none"
  BY <1>2, <1>3 DEF Fit, Newcomers
<1>6. TableIsFit'
  <2>1. \A s, t \in Slots : /\ s < user_cnt' /\ t < user_cnt'
                             /\ sock_connect'[s] = sock_connect'[t] => s = t
    BY <1>1, <1>4 DEF Fit, TableIsFit
  <2>2. NoUser \notin Members'
    BY <1>4 DEF Fit, TableIsFit
  <2>3. \A u \in Users : reader'[u] # "none" <=> u \in Members' /\ ~ (main' = "create" /\ arg' = u)
    BY <1>1, <1>4 DEF Fit, TableIsFit
  <2>. QED  BY <2>1, <2>2, <2>3 DEF TableIsFit
<1>7. Newcomers'
  <2>1. \A j, k \in 1 .. Len(backlog') : backlog'[j] = backlog'[k] => j = k
    BY <1>2, <1>3 DEF Fit, Newcomers
  <2>2. \A k \in 1 .. Len(backlog') :
          link'[backlog'[k]] # "none" /\ reader'[backlog'[k]] = "none" /\ backlog'[k] \notin Members'
    BY <1>1, <1>2, <1>3, <1>4 DEF Fit, Newcomers
  <2>3. \A k \in 1 .. Len(backlog') : backlog'[k] # h
    BY <1>2, <1>3 DEF Fit, Newcomers
  <2>4. \A u \in Members' : link'[u] # "none"
    BY <1>1, <1>4 DEF Fit, Newcomers
  <2>5. LET new == sock_connect'[user_cnt'] IN
        /\ new \in Users \ Members' /\ link'[new] # "none" /\ reader'[new] = "none"
        /\ \A k \in 1 .. Len(backlog') : backlog'[k] # new
    BY <1>1, <1>2, <1>4, <1>5, <2>3
  <2>. QED  BY <1>1, <1>4, <2>1, <2>2, <2>4, <2>5 DEF Newcomers
<1>. QED  BY <1>6, <1>7 DEF Fit

\* There is a cell for each user, as those that count hold different users.
LEMMA RoomForAll ==
  ASSUME TypeOK, Fit, main = "count"
  PROVE  user_cnt + 1 \in Slots
<1>1. IsFiniteSet(Users) /\ Cardinality(Users) \in Nat
  BY TalkRoomAssumption, FS_CardinalityType
<1>2. user_cnt \in Nat /\ user_cnt \in 0 .. Cardinality(Users)
  BY DEF TypeOK, Fit, Newcomers, Slots
<1>. DEFINE f == [s \in 0 .. user_cnt |-> sock_connect[s]]
<1>3. 0 .. user_cnt \subseteq Slots
  BY <1>1, <1>2 DEF Slots
<1>4. \A s \in 0 .. user_cnt : s = user_cnt \/ (s < user_cnt /\ sock_connect[s] \in Members)
  BY <1>2, <1>3 DEF Members
<1>5. sock_connect[user_cnt] \in Users \ Members
  BY DEF Fit, Newcomers
<1>6. \A s \in 0 .. user_cnt : sock_connect[s] \in Users
  BY <1>3, <1>4, <1>5 DEF Fit, TableIsFit, TypeOK
<1>7. \A s, t \in 0 .. user_cnt : sock_connect[s] = sock_connect[t] => s = t
  BY <1>3, <1>4, <1>5 DEF Fit, TableIsFit
<1>8. f \in Injection(0 .. user_cnt, Users)
  BY <1>6, <1>7 DEF Injection, IsInjective
<1>9. Cardinality(0 .. user_cnt) <= Cardinality(Users)
  BY <1>1, <1>8, FS_Injection
<1>10. Cardinality(0 .. user_cnt) = user_cnt + 1
  BY <1>2, FS_Interval
<1>. QED  BY <1>1, <1>2, <1>9, <1>10 DEF Slots

\* One more cell counts, that of a user who was in none.
LEMMA CellsAtCount ==
  ASSUME TypeOK, Fit, Count
  PROVE  /\ user_cnt' = user_cnt + 1 /\ user_cnt \in Slots /\ user_cnt' \in Slots
         /\ sock_connect' = sock_connect
         /\ \A s \in Slots : s < user_cnt' <=> s < user_cnt \/ s = user_cnt
         /\ sock_connect[user_cnt] \in Users \ Members
         /\ Members' = Members \union {sock_connect[user_cnt]}
<1>. DEFINE new == sock_connect[user_cnt]
<1>1. main = "count" /\ user_cnt' = user_cnt + 1 /\ sock_connect' = sock_connect
  BY DEF Count
<1>2. new \in Users \ Members
  BY <1>1 DEF Fit, Newcomers
<1>3. user_cnt \in Slots /\ user_cnt' \in Slots
  BY <1>1, RoomForAll DEF Fit, Newcomers
<1>4. \A s \in Slots : s < user_cnt' <=> s < user_cnt \/ s = user_cnt
  BY <1>1 DEF Slots, TypeOK
<1>5. Members' = Members \union {new}
  <2>1. \A u : u \in Members' <=> \E s \in Slots : (s < user_cnt \/ s = user_cnt) /\ sock_connect[s] = u
    BY <1>1, <1>4 DEF Members
  <2>2. \A u : u \in Members <=> \E s \in Slots : s < user_cnt /\ sock_connect[s] = u
    BY DEF Members
  <2>. QED  BY <1>3, <2>1, <2>2
<1>. QED  BY <1>1, <1>2, <1>3, <1>4, <1>5

\* The user that was accepted is counted.
LEMMA FitCount ==
  ASSUME TypeOK, Fit, Count
  PROVE  Fit'
<1>. DEFINE new == sock_connect[user_cnt]
<1>1. /\ main = "count" /\ main' = "create" /\ arg' = new /\ user_cnt' = user_cnt + 1
      /\ UNCHANGED <<sock_connect, backlog, reader, link>>
  BY DEF Count, readerVars
<1>2. /\ new \in Users /\ new \notin Members /\ link[new] # "none" /\ reader[new] = "none"
      /\ \A k \in 1 .. Len(backlog) : backlog[k] # new
  BY <1>1 DEF Fit, Newcomers
<1>3. user_cnt \in Slots /\ user_cnt' \in Slots /\ Members' = Members \union {new}
  BY CellsAtCount
<1>4. \A s \in Slots : s < user_cnt' <=> s < user_cnt \/ s = user_cnt
  BY CellsAtCount
<1>5. \A s \in Slots : s < user_cnt => sock_connect[s] # new
  BY <1>2 DEF Members
<1>6. TableIsFit'
  <2>1. \A s, t \in Slots : /\ s < user_cnt' /\ t < user_cnt'
                             /\ sock_connect'[s] = sock_connect'[t] => s = t
    BY <1>1, <1>4, <1>5 DEF Fit, TableIsFit
  <2>2. NoUser \notin Members'
    BY <1>2, <1>3, TalkRoomAssumption DEF Fit, TableIsFit
  <2>3. \A u \in Users : reader'[u] # "none" <=> u \in Members' /\ ~ (main' = "create" /\ arg' = u)
    BY <1>1, <1>2, <1>3 DEF Fit, TableIsFit
  <2>. QED  BY <2>1, <2>2, <2>3 DEF TableIsFit
<1>7. Newcomers'
  <2>1. \A k \in 1 .. Len(backlog') :
          link'[backlog'[k]] # "none" /\ reader'[backlog'[k]] = "none" /\ backlog'[k] \notin Members'
    BY <1>1, <1>2, <1>3 DEF Fit, Newcomers
  <2>2. \A u \in Members' : link'[u] # "none"
    BY <1>1, <1>2, <1>3 DEF Fit, Newcomers
  <2>3. \A j, k \in 1 .. Len(backlog') : backlog'[j] = backlog'[k] => j = k
    BY <1>1 DEF Fit, Newcomers
  <2>. QED  BY <1>1, <1>3, <2>1, <2>2, <2>3 DEF Newcomers
<1>. QED  BY <1>6, <1>7 DEF Fit

\* The user that was counted gets its reader.
LEMMA FitCreate ==
  ASSUME TypeOK, Fit, Create
  PROVE  Fit'
<1>1. /\ main = "create" /\ main' = "accept" /\ reader' = [reader EXCEPT ![arg] = "read"]
      /\ UNCHANGED <<sock_connect, user_cnt, arg, backlog, link>>
  BY DEF Create
<1>2. Members' = Members
  BY <1>1 DEF Members
<1>3. arg \in Members /\ arg \in Users
  BY <1>1 DEF Fit, Newcomers, TableIsFit, TypeOK
<1>4. reader'[arg] = "read" /\ \A u \in Users : u # arg => reader'[u] = reader[u]
  BY <1>1, <1>3 DEF TypeOK
<1>5. \A k \in 1 .. Len(backlog) : backlog[k] \in Users /\ backlog[k] # arg
  <2>1. \A k \in 1 .. Len(backlog) : backlog[k] \in Users
    BY ElementOfSeq DEF TypeOK
  <2>2. \A k \in 1 .. Len(backlog) : backlog[k] \notin Members
    BY DEF Fit, Newcomers
  <2>. QED  BY <1>3, <2>1, <2>2
<1>6. TableIsFit'
  BY <1>1, <1>2, <1>3, <1>4 DEF Fit, TableIsFit
<1>7. Newcomers'
  BY <1>1, <1>2, <1>4, <1>5 DEF Fit, Newcomers
<1>. QED  BY <1>6, <1>7 DEF Fit

\* Who joins is the last of those who wait.
LEMMA FitJoin ==
  ASSUME TypeOK, Fit, NEW u \in Users, Join(u)
  PROVE  Fit'
<1>1. /\ link[u] = "none" /\ backlog' = Append(backlog, u) /\ backlog \in Seq(Users)
      /\ UNCHANGED <<main, sock_connect, user_cnt, arg, reader>>
  BY DEF Join, mainVars, readerVars, TypeOK
<1>2. link'[u] = "open" /\ \A v \in Users : v # u => link'[v] = link[v]
  BY DEF Join, TypeOK
<1>3. /\ Len(backlog) \in Nat /\ Len(backlog') = Len(backlog) + 1
      /\ \A k \in 1 .. Len(backlog) : backlog'[k] = backlog[k]
      /\ backlog'[Len(backlog) + 1] = u
  BY <1>1, AppendProperties, LenProperties
<1>4. \A k \in 1 .. Len(backlog') : k \in 1 .. Len(backlog) \/ k = Len(backlog) + 1
  BY <1>3
<1>5. Members' = Members
  BY <1>1 DEF Members
<1>6. u \notin Members /\ \A k \in 1 .. Len(backlog) : backlog[k] # u /\ backlog[k] \in Users
  BY <1>1, ElementOfSeq DEF Fit, Newcomers
<1>7. reader[u] = "none"
  BY <1>6 DEF Fit, TableIsFit
<1>8. main = "count" => sock_connect[user_cnt] # u
  BY <1>1 DEF Fit, Newcomers
<1>9. Members \subseteq Users
  BY DEF Fit, TableIsFit, Members, TypeOK
<1>10. TableIsFit'
  BY <1>1, <1>5 DEF Fit, TableIsFit
<1>11. Newcomers'
  <2>1. \A j, k \in 1 .. Len(backlog') : backlog'[j] = backlog'[k] => j = k
    BY <1>3, <1>4, <1>6 DEF Fit, Newcomers
  <2>2. \A k \in 1 .. Len(backlog') :
          link'[backlog'[k]] # "none" /\ reader'[backlog'[k]] = "none" /\ backlog'[k] \notin Members'
    BY <1>1, <1>2, <1>3, <1>4, <1>5, <1>6, <1>7 DEF Fit, Newcomers
  <2>3. main' = "count" =>
          LET new == sock_connect'[user_cnt'] IN
          /\ new \in Users \ Members' /\ link'[new] # "none" /\ reader'[new] = "none"
          /\ \A k \in 1 .. Len(backlog') : backlog'[k] # new
    BY <1>1, <1>2, <1>3, <1>4, <1>5, <1>8 DEF Fit, Newcomers
  <2>4. \A v \in Members' : link'[v] # "none"
    BY <1>2, <1>5, <1>6, <1>9 DEF Fit, Newcomers
  <2>. QED  BY <1>1, <1>5, <2>1, <2>2, <2>3, <2>4 DEF Fit, Newcomers
<1>. QED  BY <1>10, <1>11 DEF Fit

\* Every step keeps both.
LEMMA FitStep ==
  ASSUME TypeOK, Fit, [Next]_vars
  PROVE  Fit'
<1>. USE DEF mainVars, readerVars
<1>1. CASE UNCHANGED vars
  BY <1>1, FitSame DEF vars
<1>2. CASE Accept \/ Count \/ Create
  BY <1>2, FitAccept, FitCount, FitCreate
<1>3. CASE MainFails \/ \E u \in Users : WriteKills(u)
  BY <1>3, FitSame DEF MainFails, WriteKills, Die
<1>4. ASSUME NEW u \in Users, Join(u)  PROVE Fit'
  BY <1>4, FitJoin
<1>5. ASSUME NEW u \in Users, Type(u) \/ Show(u)  PROVE Fit'
  BY <1>5, FitSame DEF Type, Show
<1>6. ASSUME NEW u \in Users, Leave(u) \/ ReadFails(u)  PROVE Fit'
  <2>1. \A v \in Users : link[v] # "none" => link'[v] # "none"
    BY <1>6 DEF Leave, ReadFails, TypeOK
  <2>. QED  BY <1>6, <2>1, FitSame DEF Leave, ReadFails
<1>7. ASSUME NEW u \in Users, Read(u) \/ ReadEnd(u) \/ WriteEnd(u)  PROVE Fit'
  <2>1. \A v \in Users : reader'[v] = "none" <=> reader[v] = "none"
    BY <1>7 DEF Read, ReadEnd, WriteEnd, TypeOK
  <2>. QED  BY <1>7, <2>1, FitSame DEF Read, ReadEnd, WriteEnd
<1>8. ASSUME NEW u \in Users, Write(u)  PROVE Fit'
  <2>1. \A v \in Users : link[v] # "none" => link'[v] # "none"
    BY <1>8 DEF Write, Skip, WriteTo, TypeOK
  <2>. QED  BY <1>8, <2>1, FitSame DEF Write
<1>. QED
  BY <1>1, <1>2, <1>3, <1>4, <1>5, <1>6, <1>7, <1>8 DEF Next, MainStep, ReaderStep

-----------------------------------------------------------------------------
(* What is heard.                                                          *)

\* What comes behind, element by element.
LEMMA Behind ==
  ASSUME NEW S, NEW h \in Seq(S), NEW b \in Seq(S)
  PROVE  /\ h \o b \in Seq(S) /\ Len(h \o b) = Len(h) + Len(b)
         /\ Len(h) \in Nat /\ Len(b) \in Nat
         /\ \A k \in 1 .. Len(h) : (h \o b)[k] = h[k]
         /\ \A k \in 1 .. Len(b) : (h \o b)[Len(h) + k] = b[k]
<1>. QED  BY ConcatProperties, LenProperties

\* The lines of a user are where they were, and behind.
LEMMA LinesBehind ==
  ASSUME NEW S, NEW h \in Seq(S), NEW b \in Seq(S), NEW u
  PROVE  /\ \A k \in LinesOf(h, u) : k \in LinesOf(h \o b, u) /\ k \in 1 .. Len(h)
         /\ \A k \in LinesOf(b, u) : Len(h) + k \in LinesOf(h \o b, u) /\ k \in 1 .. Len(b)
         /\ \A k \in LinesOf(h \o b, u) :
              k \in Int /\ (k \in LinesOf(h, u) \/ (k > Len(h) /\ k - Len(h) \in LinesOf(b, u)))
<1>. DEFINE c == h \o b
            l == Len(h)
            m == Len(b)
<1>1. /\ Len(c) = l + m /\ l \in Nat /\ m \in Nat
      /\ \A k \in 1 .. l : c[k] = h[k]
      /\ \A k \in 1 .. m : c[l + k] = b[k]
  BY Behind
<1>. HIDE DEF c
<1>2. \A k \in LinesOf(h, u) : k \in LinesOf(c, u) /\ k \in 1 .. l
  BY <1>1 DEF LinesOf
<1>3. \A k \in LinesOf(b, u) : l + k \in LinesOf(c, u) /\ k \in 1 .. m
  BY <1>1 DEF LinesOf
<1>4. ASSUME NEW k \in LinesOf(c, u)
      PROVE  k \in Int /\ (k \in LinesOf(h, u) \/ (k > l /\ k - l \in LinesOf(b, u)))
  <2>1. k \in 1 .. l + m /\ c[k][1] = u
    BY <1>1 DEF LinesOf
  <2>2. CASE k \in 1 .. l
    BY <1>1, <2>1, <2>2 DEF LinesOf
  <2>3. CASE k \notin 1 .. l
    <3>1. k - l \in 1 .. m /\ k = l + (k - l) /\ k > l
      BY <1>1, <2>1, <2>3
    <3>2. c[k] = b[k - l]
      BY <1>1, <3>1
    <3>. QED  BY <2>1, <3>1, <3>2 DEF LinesOf
  <2>. QED  BY <2>2, <2>3
<1>. QED  BY <1>2, <1>3, <1>4 DEF c

\* What is heard in order is in order up to any place.
LEMMA UpToAnyPlace ==
  ASSUME NEW S, NEW h \in Seq(S), NEW b \in Seq(S), NEW u
  PROVE  /\ InOrder(h \o b, u) => InOrder(h, u)
         /\ LinesOf(h \o b, u) = {} => LinesOf(h, u) = {}
<1>. DEFINE c == h \o b
<1>1. /\ \A k \in LinesOf(h, u) : k \in LinesOf(c, u) /\ k \in 1 .. Len(h)
      /\ \A k \in LinesOf(c, u) : k \in Int /\ (k \in LinesOf(h, u) \/ k > Len(h))
      /\ \A k \in 1 .. Len(h) : c[k] = h[k]
      /\ Len(h) \in Nat
  BY LinesBehind, Behind
<1>. HIDE DEF c
<1>2. ASSUME InOrder(c, u), NEW j \in LinesOf(h, u), NEW k \in LinesOf(h, u),
             j < k, \A m \in LinesOf(h, u) : m <= j \/ k <= m
      PROVE  h[k][2] = h[j][2] + 1
  <2>1. \A m \in LinesOf(c, u) : m <= j \/ k <= m
    BY <1>1, <1>2
  <2>2. c[k][2] = c[j][2] + 1
    BY <1>1, <1>2, <2>1 DEF InOrder
  <2>. QED  BY <1>1, <2>2
<1>3. InOrder(c, u) => InOrder(h, u)
  BY <1>2 DEF InOrder
<1>. QED  BY <1>1, <1>3 DEF c

\* The lines of others change nothing about those of u.
LEMMA OthersBehind ==
  ASSUME NEW S, NEW h \in Seq(S), NEW b \in Seq(S), NEW u, LinesOf(b, u) = {}
  PROVE  /\ LinesOf(h, u) = {} => LinesOf(h \o b, u) = {}
         /\ InOrder(h, u) => InOrder(h \o b, u)
         /\ \A e : LastIs(h, u, e) => LastIs(h \o b, u, e)
         /\ \A d \in Seq(S) : EndsWith(h, u, d) => EndsWith(h \o b, u, d)
<1>. DEFINE c == h \o b
<1>1. /\ \A k \in LinesOf(h, u) : k \in LinesOf(c, u)
      /\ \A k \in LinesOf(c, u) : k \in LinesOf(h, u)
      /\ \A k \in 1 .. Len(h) : c[k] = h[k]
      /\ Len(h) \in Nat /\ Len(c) \in Nat /\ Len(h) <= Len(c)
  BY LinesBehind, Behind
<1>. HIDE DEF c
<1>2. LinesOf(c, u) = LinesOf(h, u) /\ \A k \in LinesOf(h, u) : k \in 1 .. Len(h)
  BY <1>1 DEF LinesOf
<1>3. InOrder(h, u) => InOrder(c, u)
  BY <1>1, <1>2 DEF InOrder
<1>4. \A e : LastIs(h, u, e) => LastIs(c, u, e)
  BY <1>1, <1>2 DEF LastIs
<1>5. ASSUME NEW d \in Seq(S), EndsWith(h, u, d)  PROVE EndsWith(c, u, d)
  <2>1. PICK p \in 0 .. Len(h) - Len(d) : /\ \A k \in 1 .. Len(d) : h[p + k] = d[k]
                                          /\ \A k \in LinesOf(h, u) : k <= p + Len(d)
    BY <1>5 DEF EndsWith
  <2>2. Len(d) \in Nat
    BY LenProperties
  <2>3. p \in 0 .. Len(c) - Len(d) /\ \A k \in 1 .. Len(d) : p + k \in 1 .. Len(h)
    BY <1>1, <2>1, <2>2
  <2>. QED  BY <1>1, <1>2, <2>1, <2>3 DEF EndsWith
<1>. QED  BY <1>2, <1>3, <1>4, <1>5 DEF c

\* The lines of u that follow the last one heard are heard in order.
LEMMA OwnBehind ==
  ASSUME NEW S, NEW h \in Seq(S), NEW b \in Seq(S), NEW u, NEW e \in Nat,
         Follow(b, u, e), InOrder(h, u), LastIs(h, u, e)
  PROVE  /\ InOrder(h \o b, u) /\ LastIs(h \o b, u, e + Len(b))
         /\ EndsWith(h \o b, u, b)
<1>. DEFINE c == h \o b
            l == Len(h)
            m == Len(b)
<1>1. /\ Len(c) = l + m /\ l \in Nat /\ m \in Nat
      /\ \A k \in 1 .. l : c[k] = h[k]
      /\ \A k \in 1 .. m : c[l + k] = b[k]
  BY Behind
<1>2. /\ \A k \in LinesOf(h, u) : k \in LinesOf(c, u) /\ k \in 1 .. l
      /\ \A k \in LinesOf(b, u) : l + k \in LinesOf(c, u) /\ k \in 1 .. m
      /\ \A k \in LinesOf(c, u) :
           k \in Int /\ (k \in LinesOf(h, u) \/ (k > l /\ k - l \in LinesOf(b, u)))
  BY LinesBehind
<1>. HIDE DEF c, l, m
<1>3. \A k \in 1 .. m : b[k][2] = e + k /\ k \in LinesOf(b, u)
  BY DEF Follow, LinesOf, m
<1>4. \A k \in l + 1 .. l + m : k \in LinesOf(c, u) /\ c[k][2] = e + (k - l)
  <2>. TAKE k \in l + 1 .. l + m
  <2>1. k - l \in 1 .. m /\ l + (k - l) = k
    BY <1>1
  <2>. QED  BY <1>1, <1>2, <1>3, <2>1
<1>5. \A k \in LinesOf(c, u) : k \in LinesOf(h, u) \/ k \in l + 1 .. l + m
  BY <1>1, <1>2
<1>6. ASSUME NEW j \in LinesOf(c, u), NEW k \in LinesOf(c, u), j < k,
             \A n \in LinesOf(c, u) : n <= j \/ k <= n
      PROVE  c[k][2] = c[j][2] + 1
  <2>1. CASE k \in LinesOf(h, u)
    <3>1. j \in LinesOf(h, u)
      BY <1>1, <1>2, <1>5, <1>6, <2>1
    <3>2. h[k][2] = h[j][2] + 1
      BY <1>2, <1>6, <2>1, <3>1 DEF InOrder
    <3>. QED  BY <1>1, <1>2, <2>1, <3>1, <3>2
  <2>2. CASE k \in l + 1 .. l + m /\ j \in LinesOf(h, u)
    <3>1. k = l + 1
      <4>1. l + 1 \in l + 1 .. l + m /\ l + 1 <= k /\ j \in 1 .. l
        BY <1>1, <1>2, <2>2
      <4>2. l + 1 \in LinesOf(c, u)
        BY <1>4, <4>1
      <4>3. l + 1 <= j \/ k <= l + 1
        BY <1>6, <4>2
      <4>. QED  BY <1>1, <2>2, <4>1, <4>3
    <3>2. \A n \in LinesOf(h, u) : n <= j
      BY <1>1, <1>2, <1>6, <3>1
    <3>3. h[j][2] = e
      BY <2>2, <3>2 DEF LastIs
    <3>4. c[k][2] = e + (k - l) /\ k - l = 1
      BY <1>1, <1>4, <2>2, <3>1
    <3>5. c[j] = h[j]
      BY <1>1, <1>2, <2>2
    <3>. QED  BY <3>3, <3>4, <3>5
  <2>3. CASE k \in l + 1 .. l + m /\ j \in l + 1 .. l + m
    <3>1. k = j + 1
      <4>1. j + 1 \in l + 1 .. l + m
        BY <1>1, <1>6, <2>3
      <4>2. j + 1 \in LinesOf(c, u)
        BY <1>4, <4>1
      <4>3. j + 1 <= j \/ k <= j + 1
        BY <1>6, <4>2
      <4>. QED  BY <1>1, <1>6, <2>3, <4>1, <4>3
    <3>2. c[j][2] = e + (j - l) /\ c[k][2] = e + (k - l)
      BY <1>4, <2>3
    <3>. QED  BY <1>1, <2>3, <3>1, <3>2
  <2>. QED  BY <1>5, <2>1, <2>2, <2>3
<1>7. InOrder(c, u)
  BY <1>6 DEF InOrder
<1>8. ASSUME NEW k \in LinesOf(c, u), \A n \in LinesOf(c, u) : n <= k
      PROVE  c[k][2] = e + m
  <2>1. CASE m = 0
    <3>1. k \in LinesOf(h, u)
      BY <1>1, <1>5, <2>1
    <3>2. h[k][2] = e
      BY <1>2, <1>8, <3>1 DEF LastIs
    <3>. QED  BY <1>1, <1>2, <2>1, <3>1, <3>2
  <2>2. CASE m # 0
    <3>1. l + m \in l + 1 .. l + m
      BY <1>1, <2>2
    <3>2. k = l + m
      <4>1. l + m <= k
        BY <1>4, <1>8, <3>1
      <4>2. k \in Int /\ (k \in 1 .. l \/ k \in l + 1 .. l + m)
        BY <1>2, <1>5, <1>8
      <4>. QED  BY <1>1, <4>1, <4>2
    <3>. QED  BY <1>1, <1>4, <3>1, <3>2
  <2>. QED  BY <2>1, <2>2
<1>9. LastIs(c, u, e + m)
  BY <1>8 DEF LastIs
<1>10. EndsWith(c, u, b)
  <2>1. l \in 0 .. Len(c) - Len(b)
    BY <1>1 DEF m
  <2>2. \A k \in 1 .. Len(b) : c[l + k] = b[k]
    BY <1>1 DEF m
  <2>3. \A k \in LinesOf(c, u) : k <= l + Len(b)
    BY <1>1, <1>2, <1>5 DEF m
  <2>. QED  BY <2>1, <2>2, <2>3 DEF EndsWith
<1>. QED  BY <1>7, <1>9, <1>10 DEF c, m

\* Who hears nothing hears it in order.
LEMMA NothingHeard ==
  ASSUME NEW u
  PROVE  /\ LinesOf(<<>>, u) = {} /\ InOrder(<<>>, u)
         /\ \A e : LastIs(<<>>, u, e)
<1>1. LinesOf(<<>>, u) = {}
  BY EmptySeq DEF LinesOf
<1>. QED  BY <1>1 DEF InOrder, LastIs

\* The pieces that Cut speaks of, element by element.
LEMMA CutTells ==
  ASSUME NEW S, NEW s \in Seq(S), NEW n \in 1 .. Len(s)
  PROVE  /\ Len(SubSeq(s, 1, n)) = n /\ Len(SubSeq(s, n + 1, Len(s))) = Len(s) - n
         /\ \A k \in 1 .. n : SubSeq(s, 1, n)[k] = s[k]
         /\ \A k \in 1 .. Len(s) - n : SubSeq(s, n + 1, Len(s))[k] = s[n + k]
<1>1. /\ \A k \in 1 .. n : s[k] \in S
      /\ \A k \in n + 1 .. Len(s) : s[k] \in S
  BY ElementOfSeq, LenProperties
<1>2. 1 \in Int /\ n \in Int /\ n + 1 \in Int /\ Len(s) \in Nat
  BY LenProperties
<1>. DEFINE a == SubSeq(s, 1, n)
            b == SubSeq(s, n + 1, Len(s))
<1>3. Len(a) = n /\ \A k \in 1 .. n - 1 + 1 : a[k] = s[1 + k - 1]
  BY <1>1, <1>2, SubSeqProperties
<1>4. /\ Len(b) = IF n + 1 <= Len(s) THEN Len(s) - (n + 1) + 1 ELSE 0
      /\ \A k \in 1 .. Len(s) - (n + 1) + 1 : b[k] = s[n + 1 + k - 1]
  BY <1>1, <1>2, SubSeqProperties
<1>. HIDE DEF a, b
<1>5. Len(b) = Len(s) - n
  BY <1>2, <1>4
<1>6. \A k \in 1 .. n : a[k] = s[k]
  BY <1>2, <1>3
<1>7. \A k \in 1 .. Len(s) - n : b[k] = s[n + k]
  <2>. TAKE k \in 1 .. Len(s) - n
  <2>1. k \in 1 .. Len(s) - (n + 1) + 1 /\ n + 1 + k - 1 = n + k
    BY <1>2
  <2>. QED  BY <1>4, <2>1
<1>. QED  BY <1>3, <1>5, <1>6, <1>7 DEF a, b

\* It does not matter which lines are put together first.
Texts == Seq(Lines)

LEMMA Grouped ==
  ASSUME NEW a \in Texts, NEW b \in Texts, NEW c \in Texts
  PROVE  (a \o b) \o c = a \o (b \o c)
<1>. QED  BY ConcatAssociative DEF Texts

\* What is moved from what is under way to what is printed is still heard.
LEMMA StillHeard ==
  ASSUME NEW h \in Texts, NEW t \in Texts, NEW n \in 1 .. Len(t)
  PROVE  (h \o SubSeq(t, 1, n)) \o SubSeq(t, n + 1, Len(t)) = h \o t
<1>. DEFINE a == SubSeq(t, 1, n)
            b == SubSeq(t, n + 1, Len(t))
<1>1. a \in Texts /\ b \in Texts
  BY Cut DEF Texts
<1>2. a \o b = t
  <2>1. Len(t) \in Nat
    BY LenProperties DEF Texts
  <2>2. 1 \in 1 .. Len(t) + 1 /\ n \in 1 - 1 .. Len(t) /\ Len(t) \in n .. Len(t)
    BY <2>1
  <2>3. a \o b = SubSeq(t, 1, Len(t))
    BY <2>2, ConcatAdjacentSubSeq DEF Texts
  <2>. HIDE DEF a, b
  <2>. QED  BY <2>3, SubSeqFull DEF Texts
<1>. HIDE DEF a, b
<1>3. (h \o a) \o b = h \o (a \o b)
  BY <1>1, Grouped
<1>. QED  BY <1>2, <1>3 DEF a, b

-----------------------------------------------------------------------------
(* Order and delivery.                                                     *)

Hears == HeardInOrder /\ Delivery

\* What is heard are lines.
LEMMA HeardType ==
  ASSUME TypeOK, NEW v \in Users
  PROVE  /\ shown[v] \in Seq(Lines) /\ toUser[v] \in Seq(Lines) /\ Heard(v) \in Seq(Lines)
         /\ rcvBuffer[v] \in Seq(Lines) /\ toServer[v] \in Seq(Lines)
         /\ typed[v] \in Nat /\ i[v] \in Nat
         /\ Len(rcvBuffer[v]) \in Nat /\ Len(toServer[v]) \in Nat
<1>1. shown[v] \in Seq(Lines) /\ toUser[v] \in Seq(Lines)
  BY DEF TypeOK
<1>2. rcvBuffer[v] \in Seq(Lines) /\ toServer[v] \in Seq(Lines)
  BY DEF TypeOK
<1>3. typed[v] \in Nat /\ i[v] \in Nat
  BY DEF TypeOK
<1>. QED  BY <1>1, <1>2, <1>3, ConcatProperties, LenProperties DEF Heard

\* How far v was served by u's reader is as it was.
SameFor(v, u) ==
  /\ link[v] = "open" /\ Awaits(v, u)' = Awaits(v, u)
  /\ v \in Members' /\ reader'[u] = "write" => v \in Members /\ reader[u] = "write"

\* A step after which everyone has heard what it had heard, no line of a user
\* has gone from one place to another, and who is to be served is as it was,
\* but for those who have heard nothing and are still to be served.
LEMMA HearsSame ==
  ASSUME Hears, rcvBuffer' = rcvBuffer,
         \A u \in Users : /\ Heard(u)' = Heard(u) /\ Taken(u)' = Taken(u)
                          /\ Stream(u)' /\ i'[u] <= user_cnt'
                          /\ u \in Members => u \in Members',
         \A u \in Users : \A v \in Users \ {u} : link'[v] = "open" =>
           \/ SameFor(v, u)
           \/ Heard(v) = <<>> /\ (v \notin Members' \/ Awaits(v, u)' \/ reader'[u] # "write")
  PROVE  Hears'
<1>1. HeardInOrder'
  BY DEF Hears, HeardInOrder
<1>2. ASSUME NEW u \in Users, NEW v \in Users \ {u}, link'[v] = "open"
      PROVE  Handed(v, u)'
  <2>1. Heard(v)' = Heard(v) /\ Taken(u)' = Taken(u) /\ Before(u)' = Before(u)
    BY DEF Before
  <2>2. CASE SameFor(v, u)
    BY <1>2, <2>1, <2>2 DEF Hears, Delivery, Handed, SameFor
  <2>3. CASE Heard(v) = <<>> /\ (v \notin Members' \/ Awaits(v, u)' \/ reader'[u] # "write")
    BY <2>1, <2>3, NothingHeard DEF Handed
  <2>. QED  BY <1>2, <2>2, <2>3
<1>3. \A u \in Users : \A v \in Users \ {u} : Handed(v, u)'
  BY <1>2 DEF Handed
<1>4. \A u \in Users : u \notin Members' => Heard(u)' = <<>>
  BY DEF Hears, Delivery
<1>. QED  BY <1>1, <1>3, <1>4 DEF Hears, Delivery

\* The same of a step that only concerns connections and readers.
LEMMA HearsApart ==
  ASSUME Hears, UNCHANGED <<sock_connect, user_cnt, rcvBuffer, i, typed, toServer>>,
         \A u \in Users : Heard(u)' = Heard(u),
         \A v \in Users : link'[v] = "open" => link[v] = "open" \/ (Heard(v) = <<>> /\ v \notin Members),
         \A u \in Users : reader'[u] = "write" <=> reader[u] = "write"
  PROVE  Hears'
<1>1. Members' = Members
  BY DEF Members
<1>2. ASSUME NEW u \in Users
      PROVE  /\ Stream(u)' /\ Taken(u)' = Taken(u) /\ i'[u] <= user_cnt'
             /\ \A v \in Users : Awaits(v, u)' = Awaits(v, u)
  <2>1. Stream(u) /\ i[u] <= user_cnt
    BY DEF Hears, Delivery
  <2>2. Taken(u)' = Taken(u)
    BY DEF Taken
  <2>3. Stream(u)'
    BY <2>1, <2>2 DEF Stream, Before
  <2>4. \A v \in Users : Awaits(v, u)' = Awaits(v, u)
    BY DEF Awaits
  <2>. QED  BY <2>1, <2>2, <2>3, <2>4
<1>3. ASSUME NEW u \in Users, NEW v \in Users \ {u}, link'[v] = "open"
      PROVE  \/ SameFor(v, u)
             \/ Heard(v) = <<>> /\ (v \notin Members' \/ Awaits(v, u)' \/ reader'[u] # "write")
  BY <1>1, <1>2, <1>3 DEF SameFor
<1>. QED  BY <1>1, <1>2, <1>3, HearsSame

\* accept(): no cell that counts has changed.
LEMMA HearsAccept ==
  ASSUME TypeOK, Fit, Hears, Accept
  PROVE  Hears'
<1>1. UNCHANGED <<reader, rcvBuffer, i, toServer, toUser, link, typed, shown>>
  BY DEF Accept, readerVars, clientVars
<1>2. /\ user_cnt' = user_cnt /\ Members' = Members
      /\ \A s \in Slots : s < user_cnt => sock_connect'[s] = sock_connect[s]
  BY CellsAtAccept
<1>3. ASSUME NEW u \in Users
      PROVE  /\ Heard(u)' = Heard(u) /\ Taken(u)' = Taken(u) /\ Stream(u)'
             /\ i'[u] <= user_cnt' /\ \A v \in Users : Awaits(v, u)' = Awaits(v, u)
  <2>1. Stream(u) /\ i[u] <= user_cnt
    BY DEF Hears, Delivery
  <2>2. Heard(u)' = Heard(u) /\ Taken(u)' = Taken(u)
    BY <1>1 DEF Heard, Taken
  <2>3. Stream(u)'
    BY <1>1, <2>1, <2>2 DEF Stream, Before
  <2>4. \A v \in Users : Awaits(v, u)' = Awaits(v, u)
    BY <1>1, <1>2 DEF Awaits
  <2>. QED  BY <1>1, <1>2, <2>1, <2>2, <2>3, <2>4
<1>4. \A u, v \in Users : link'[v] = "open" => SameFor(v, u)
  BY <1>1, <1>2, <1>3 DEF SameFor
<1>. QED  BY <1>1, <1>2, <1>3, <1>4, HearsSame

\* user_cnt++: each reader that is writing comes to the new user, too.
LEMMA HearsCount ==
  ASSUME TypeOK, Fit, Hears, Count
  PROVE  Hears'
<1>. DEFINE new == sock_connect[user_cnt]
<1>1. UNCHANGED <<reader, rcvBuffer, i, toServer, toUser, link, typed, shown>>
  BY DEF Count, readerVars, clientVars
<1>2. /\ user_cnt' = user_cnt + 1 /\ user_cnt \in Slots /\ user_cnt \in Nat
      /\ sock_connect' = sock_connect
      /\ \A s \in Slots : s < user_cnt' <=> s < user_cnt \/ s = user_cnt
      /\ new \in Users \ Members /\ Members' = Members \union {new}
  BY CellsAtCount DEF TypeOK
<1>3. ASSUME NEW u \in Users
      PROVE  /\ Heard(u)' = Heard(u) /\ Taken(u)' = Taken(u) /\ Stream(u)'
             /\ i'[u] <= user_cnt'
  <2>1. Stream(u) /\ i[u] <= user_cnt /\ i[u] \in Nat
    BY DEF Hears, Delivery, TypeOK
  <2>2. Heard(u)' = Heard(u) /\ Taken(u)' = Taken(u)
    BY <1>1 DEF Heard, Taken
  <2>3. Stream(u)'
    BY <1>1, <2>1, <2>2 DEF Stream, Before
  <2>4. i'[u] <= user_cnt'
    BY <1>1, <1>2, <2>1
  <2>. QED  BY <2>2, <2>3, <2>4
<1>4. ASSUME NEW u \in Users, NEW v \in Users \ {u}, link'[v] = "open", v # new
      PROVE  SameFor(v, u)
  <2>1. Awaits(v, u)' = Awaits(v, u)
    BY <1>1, <1>2, <1>4 DEF Awaits
  <2>. QED  BY <1>1, <1>2, <1>4, <2>1 DEF SameFor
<1>5. ASSUME NEW u \in Users, NEW v \in Users, v = new
      PROVE  Heard(v) = <<>> /\ (Awaits(v, u)' \/ reader'[u] # "write")
  <2>1. Heard(v) = <<>>
    BY <1>2, <1>5 DEF Hears, Delivery
  <2>2. i'[u] <= user_cnt /\ user_cnt < user_cnt' /\ sock_connect'[user_cnt] = v
    BY <1>1, <1>2, <1>5 DEF Hears, Delivery
  <2>3. reader'[u] = "write" => Awaits(v, u)'
    BY <1>2, <2>2 DEF Awaits
  <2>. QED  BY <2>1, <2>3
<1>. QED  BY <1>1, <1>2, <1>3, <1>4, <1>5, HearsSame

\* A line is typed and is on its way.
LEMMA HearsType ==
  ASSUME TypeOK, Hears, NEW x \in Users, Type(x)
  PROVE  Hears'
<1>1. /\ UNCHANGED <<sock_connect, user_cnt, reader, rcvBuffer, i, toUser, link, shown>>
      /\ typed' = [typed EXCEPT ![x] = @ + 1]
      /\ toServer' = [toServer EXCEPT ![x] = Append(@, <<x, typed[x] + 1>>)]
  BY DEF Type, mainVars, readerVars
<1>2. Members' = Members /\ \A u, v \in Users : Awaits(v, u)' = Awaits(v, u)
  BY <1>1 DEF Members, Awaits
<1>3. ASSUME NEW u \in Users
      PROVE  Taken(u)' = Taken(u) /\ Stream(u)'
  <2>. DEFINE line == <<x, typed[x] + 1>>
              q == toServer[x]
  <2>1. /\ Stream(u) /\ typed[u] \in Nat /\ Len(toServer[u]) \in Nat
        /\ Len(rcvBuffer[u]) \in Nat
    BY HeardType DEF Hears, Delivery
  <2>2. CASE u # x
    <3>1. typed'[u] = typed[u] /\ toServer'[u] = toServer[u]
      BY <1>1, <2>2 DEF TypeOK
    <3>. QED  BY <1>1, <2>1, <3>1 DEF Stream, Taken, Before
  <2>3. CASE u = x
    <3>1. typed'[x] = typed[x] + 1 /\ toServer'[x] = Append(q, line)
      BY <1>1 DEF TypeOK
    <3>2. q \in Seq(Lines) /\ line \in Lines
      <4>1. q \in Seq(Lines) /\ typed[x] \in Nat
        BY HeardType
      <4>. QED  BY <4>1 DEF Lines
    <3>3. /\ Len(toServer'[x]) = Len(q) + 1
          /\ \A k \in 1 .. Len(q) : toServer'[x][k] = q[k]
          /\ toServer'[x][Len(q) + 1] = line
      BY <3>1, <3>2, AppendProperties
    <3>4. Taken(x)' = Taken(x) /\ Taken(x) + Len(q) = typed[x] /\ Taken(x) \in Nat
      <4>1. Len(q) \in Nat /\ typed[x] \in Nat /\ Len(q) <= typed[x]
        <5>1. Stream(x) /\ typed[x] \in Nat /\ Len(toServer[x]) \in Nat
          BY <2>1, <2>3
        <5>. QED  BY <5>1 DEF Stream
      <4>2. Taken(x) = typed[x] - Len(q) /\ Taken(x)' = typed'[x] - Len(toServer'[x])
        BY DEF Taken
      <4>3. typed'[x] = typed[x] + 1 /\ Len(toServer'[x]) = Len(q) + 1
        BY <3>1, <3>3
      <4>. HIDE DEF q
      <4>. QED  BY <4>1, <4>2, <4>3
    <3>5. Follow(toServer'[x], x, Taken(x))
      <4>. SUFFICES ASSUME NEW k \in 1 .. Len(toServer'[x])
                    PROVE  toServer'[x][k] = <<x, Taken(x) + k>>
        BY DEF Follow
      <4>1. CASE k \in 1 .. Len(q)
        BY <2>1, <2>3, <3>3, <4>1 DEF Stream, Follow
      <4>2. CASE k = Len(q) + 1
        <5>1. Taken(x) + k = typed[x] + 1
          BY <2>1, <2>3, <3>4, <4>2
        <5>. QED  BY <3>3, <4>2, <5>1
      <4>. QED  BY <2>1, <2>3, <3>3, <4>1, <4>2
    <3>6. Len(toServer'[x]) <= typed'[x]
      BY <2>1, <2>3, <3>1, <3>3 DEF Stream
    <3>. QED  BY <1>1, <2>1, <2>3, <3>4, <3>5, <3>6 DEF Stream, Before
  <2>. QED  BY <2>2, <2>3
<1>4. \A u \in Users : Heard(u)' = Heard(u) /\ i'[u] <= user_cnt'
  BY <1>1 DEF Heard, Hears, Delivery
<1>5. \A u, v \in Users : link'[v] = "open" => SameFor(v, u)
  BY <1>1, <1>2 DEF SameFor
<1>. QED  BY <1>1, <1>2, <1>3, <1>4, <1>5, HearsSame

\* Lines are read into the buffer, and all the others await them.
LEMMA HearsRead ==
  ASSUME TypeOK, Fit, Hears, NEW x \in Users, Read(x)
  PROVE  Hears'
<1>. DEFINE q == toServer[x]
<1>1. PICK n \in 1 .. Len(q) :
        /\ rcvBuffer' = [rcvBuffer EXCEPT ![x] = SubSeq(q, 1, n)]
        /\ toServer' = [toServer EXCEPT ![x] = SubSeq(q, n + 1, Len(q))]
  BY DEF Read
<1>2. /\ UNCHANGED <<sock_connect, user_cnt, toUser, link, typed, shown>>
      /\ reader' = [reader EXCEPT ![x] = "write"] /\ i' = [i EXCEPT ![x] = 0]
      /\ reader[x] = "read"
  BY DEF Read, mainVars, clientVars
<1>3. Members' = Members /\ \A u \in Users : Heard(u)' = Heard(u)
  BY <1>2 DEF Members, Heard
<1>4. /\ q \in Seq(Lines) /\ Len(q) \in Nat /\ typed[x] \in Nat
      /\ Len(rcvBuffer[x]) \in Nat /\ Stream(x)
  BY HeardType DEF Hears, Delivery
<1>5. /\ Len(rcvBuffer'[x]) = n /\ Len(toServer'[x]) = Len(q) - n
      /\ \A k \in 1 .. n : rcvBuffer'[x][k] = q[k]
      /\ \A k \in 1 .. Len(q) - n : toServer'[x][k] = q[n + k]
  <2>1. rcvBuffer'[x] = SubSeq(q, 1, n) /\ toServer'[x] = SubSeq(q, n + 1, Len(q))
    BY <1>1 DEF TypeOK
  <2>. HIDE DEF q
  <2>. QED  BY <1>4, <2>1, CutTells
<1>6. Taken(x)' = Taken(x) + n /\ Before(x)' = Taken(x) /\ Taken(x) + Len(q) = typed[x]
      /\ Taken(x) \in Nat /\ n \in Nat /\ n <= Len(q)
  <2>1. Len(q) <= typed[x] /\ Taken(x) = typed[x] - Len(q)
    <3>1. Len(q) <= typed[x]
      BY <1>4 DEF Stream
    <3>. QED  BY <3>1 DEF Taken
  <2>2. Taken(x)' = typed[x] - Len(toServer'[x]) /\ Before(x)' = Taken(x)' - Len(rcvBuffer'[x])
    BY <1>2 DEF Taken, Before
  <2>3. n \in Nat /\ n <= Len(q) /\ Len(q) \in Nat /\ typed[x] \in Nat
    BY <1>4
  <2>4. Len(toServer'[x]) = Len(q) - n /\ Len(rcvBuffer'[x]) = n
    BY <1>5
  <2>. DEFINE m == Len(q)
  <2>5. Len(toServer'[x]) = m - n /\ Taken(x) = typed[x] - m /\ m \in Nat /\ m <= typed[x]
    BY <2>1, <2>3, <2>4
  <2>. HIDE DEF m
  <2>6. Taken(x)' = Taken(x) + n /\ Taken(x) + m = typed[x] /\ Taken(x) \in Nat
    BY <2>2, <2>3, <2>5
  <2>7. Before(x)' = Taken(x)
    BY <2>2, <2>3, <2>4, <2>6
  <2>. QED  BY <2>3, <2>6, <2>7 DEF m
<1>7. Stream(x)'
  <2>1. \A k \in 1 .. Len(q) : q[k] = <<x, Taken(x) + k>>
    BY <1>4 DEF Stream, Follow
  <2>2. Follow(rcvBuffer'[x], x, Taken(x))
    <3>1. \A k \in 1 .. n : k \in 1 .. Len(q)
      BY <1>6
    <3>. HIDE DEF q
    <3>2. \A k \in 1 .. n : rcvBuffer'[x][k] = <<x, Taken(x) + k>>
      BY <1>5, <2>1, <3>1
    <3>. QED  BY <1>5, <3>2 DEF Follow
  <2>3. Follow(toServer'[x], x, Taken(x) + n)
    <3>. SUFFICES ASSUME NEW k \in 1 .. Len(toServer'[x])
                  PROVE  toServer'[x][k] = <<x, Taken(x) + n + k>>
      BY DEF Follow
    <3>1. n + k \in 1 .. Len(q) /\ k \in 1 .. Len(q) - n /\ Taken(x) + n + k = Taken(x) + (n + k)
      BY <1>4, <1>5, <1>6
    <3>. QED  BY <1>5, <2>1, <3>1
  <2>4. Len(toServer'[x]) <= typed'[x] /\ Len(rcvBuffer'[x]) <= Taken(x)'
    BY <1>2, <1>4, <1>5, <1>6
  <2>. QED  BY <1>6, <2>2, <2>3, <2>4 DEF Stream
<1>8. ASSUME NEW u \in Users, u # x
      PROVE  /\ Taken(u)' = Taken(u) /\ Before(u)' = Before(u) /\ Stream(u)'
             /\ reader'[u] = reader[u] /\ rcvBuffer'[u] = rcvBuffer[u]
             /\ i'[u] = i[u] /\ \A v \in Users : Awaits(v, u)' = Awaits(v, u)
  <2>1. /\ toServer'[u] = toServer[u] /\ rcvBuffer'[u] = rcvBuffer[u]
        /\ reader'[u] = reader[u] /\ i'[u] = i[u]
    BY <1>1, <1>2, <1>8 DEF TypeOK
  <2>2. Taken(u)' = Taken(u) /\ Before(u)' = Before(u)
    BY <1>2, <2>1 DEF Taken, Before
  <2>3. Stream(u)'
    BY <1>2, <2>1, <2>2 DEF Stream, Hears, Delivery
  <2>4. \A v \in Users : Awaits(v, u)' = Awaits(v, u)
    BY <1>2, <2>1 DEF Awaits
  <2>. QED  BY <2>1, <2>2, <2>3, <2>4
<1>9. ASSUME NEW v \in Users \ {x}, link'[v] = "open"
      PROVE  Handed(v, x)'
  <2>1. ~ Awaits(v, x)
    BY <1>2 DEF Awaits
  <2>2. CASE v \in Members
    <3>1. PICK s \in Slots : s < user_cnt /\ sock_connect[s] = v
      BY <2>2 DEF Members
    <3>2. reader'[x] = "write" /\ i'[x] = 0 /\ 0 <= s
      BY <1>2 DEF TypeOK, Slots
    <3>3. Awaits(v, x)'
      BY <1>2, <3>1, <3>2 DEF Awaits
    <3>4. LastIs(Heard(v), x, Taken(x))
      BY <1>2, <1>9, <2>1 DEF Hears, Delivery, Handed
    <3>. QED  BY <1>3, <1>6, <3>3, <3>4 DEF Handed
  <2>3. CASE v \notin Members
    <3>1. Heard(v)' = <<>> /\ v \notin Members'
      BY <1>3, <2>3 DEF Hears, Delivery
    <3>. QED  BY <3>1, NothingHeard DEF Handed
  <2>. QED  BY <2>2, <2>3
<1>10. ASSUME NEW u \in Users, u # x, NEW v \in Users \ {u}
       PROVE  Handed(v, u)'
  BY <1>2, <1>3, <1>8, <1>10 DEF Hears, Delivery, Handed
<1>11. \A u \in Users : i'[u] <= user_cnt'
  BY <1>2, <1>8 DEF Hears, Delivery, TypeOK
<1>12. HeardInOrder' /\ \A u \in Users : u \notin Members' => Heard(u)' = <<>>
  BY <1>3 DEF Hears, HeardInOrder, Delivery
<1>13. \A u \in Users : Stream(u)' /\ \A v \in Users \ {u} : Handed(v, u)'
  <2>. TAKE u \in Users
  <2>1. CASE u = x
    <3>1. \A v \in Users \ {x} : Handed(v, x)'
      BY <1>9 DEF Handed
    <3>. QED  BY <1>7, <2>1, <3>1
  <2>2. CASE u # x
    <3>1. \A v \in Users \ {u} : Handed(v, u)'
      BY <1>10, <2>2
    <3>. QED  BY <1>8, <2>2, <3>1
  <2>. QED  BY <2>1, <2>2
<1>. QED  BY <1>11, <1>12, <1>13 DEF Hears, Delivery

\* The user in the reader's cell is written to: it awaited the buffer, and no
\* longer does.
LEMMA CellServed ==
  ASSUME TypeOK, Fit, NEW x \in Users, reader[x] = "write", i[x] < user_cnt,
         UNCHANGED <<sock_connect, user_cnt, reader>>, i' = [i EXCEPT ![x] = @ + 1]
  PROVE  LET v == sock_connect[i[x]] IN
         /\ v \in Members /\ v \in Users /\ Awaits(v, x)
         /\ \A w \in Users : w = v => ~ Awaits(w, x)'
         /\ \A w \in Users : w # v => Awaits(w, x)' = Awaits(w, x)
         /\ \A u, w \in Users : u # x => Awaits(w, u)' = Awaits(w, u)
<1>. DEFINE v == sock_connect[i[x]]
<1>1. i[x] \in Slots /\ v \in Members
  BY InSlots DEF Fit
<1>2. v \in Users
  BY <1>1 DEF Fit, TableIsFit, Members, TypeOK
<1>3. Awaits(v, x)
  BY <1>1 DEF Awaits, TypeOK, Slots
<1>4. i'[x] = i[x] + 1 /\ \A u \in Users : u # x => i'[u] = i[u]
  BY DEF TypeOK
<1>5. \A s \in Slots : i[x] + 1 <= s <=> i[x] <= s /\ s # i[x]
  BY <1>1 DEF Slots
<1>6. ASSUME NEW w \in Users, w = v  PROVE ~ Awaits(w, x)'
  <2>1. \A s \in Slots : s < user_cnt /\ sock_connect[s] = w => s = i[x]
    BY <1>1, <1>6 DEF Fit, TableIsFit
  <2>. QED  BY <1>4, <1>5, <2>1 DEF Awaits
<1>7. ASSUME NEW w \in Users, w # v  PROVE Awaits(w, x)' = Awaits(w, x)
  BY <1>4, <1>5, <1>7 DEF Awaits
<1>8. \A u, w \in Users : u # x => Awaits(w, u)' = Awaits(w, u)
  BY <1>4 DEF Awaits
<1>. QED  BY <1>1, <1>2, <1>3, <1>6, <1>7, <1>8

\* A turn of the loop that hands nothing over: the user's own cell, or one of a
\* user who is not there.
LEMMA HearsPassedBy ==
  ASSUME TypeOK, Fit, Hears, NEW x \in Users, Write(x), toUser' = toUser,
         NEW v \in Users, v = sock_connect[i[x]], v # x => link[v] # "open",
         link' = link \/ link' = [link EXCEPT ![v] = "rst"]
  PROVE  Hears'
<1>1. /\ UNCHANGED <<sock_connect, user_cnt, reader, rcvBuffer, toServer, typed, shown>>
      /\ reader[x] = "write" /\ i[x] < user_cnt /\ i' = [i EXCEPT ![x] = @ + 1]
  BY DEF Write, Skip, WriteTo, Next_i, mainVars, clientVars
<1>2. /\ \A w \in Users : w # v => Awaits(w, x)' = Awaits(w, x)
      /\ \A u, w \in Users : u # x => Awaits(w, u)' = Awaits(w, u)
  BY <1>1, CellServed
<1>3. Members' = Members
  BY <1>1 DEF Members
<1>4. ASSUME NEW u \in Users
      PROVE  /\ Heard(u)' = Heard(u) /\ Taken(u)' = Taken(u) /\ Stream(u)'
             /\ i'[u] <= user_cnt'
  <2>1. Stream(u) /\ i[u] <= user_cnt /\ i[u] \in Nat /\ user_cnt \in Nat
    BY DEF Hears, Delivery, TypeOK
  <2>2. Heard(u)' = Heard(u) /\ Taken(u)' = Taken(u)
    BY <1>1 DEF Heard, Taken
  <2>3. Stream(u)'
    BY <1>1, <2>1, <2>2 DEF Stream, Before
  <2>4. i'[u] <= user_cnt'
    BY <1>1, <2>1 DEF TypeOK
  <2>. QED  BY <2>2, <2>3, <2>4
<1>5. ASSUME NEW u \in Users, NEW w \in Users \ {u}, link'[w] = "open"
      PROVE  SameFor(w, u)
  <2>1. link[w] = "open" /\ (w = v => v = x)
    BY <1>5 DEF TypeOK
  <2>2. Awaits(w, u)' = Awaits(w, u)
    BY <1>2, <1>5, <2>1
  <2>. QED  BY <1>1, <1>3, <2>1, <2>2 DEF SameFor
<1>. QED  BY <1>1, <1>3, <1>4, <1>5, HearsSame

\* The buffer is handed to another user who is there.
LEMMA HearsHanded ==
  ASSUME TypeOK, Fit, Hears, NEW x \in Users, Write(x),
         NEW v \in Users, v = sock_connect[i[x]], v # x, link[v] = "open", link' = link,
         toUser' = [toUser EXCEPT ![v] = @ \o rcvBuffer[x]]
  PROVE  Hears'
<1>. DEFINE b == rcvBuffer[x]
<1>1. /\ UNCHANGED <<sock_connect, user_cnt, reader, rcvBuffer, toServer, typed, shown>>
      /\ reader[x] = "write" /\ i[x] < user_cnt /\ i' = [i EXCEPT ![x] = @ + 1]
  BY DEF Write, Skip, WriteTo, Next_i, mainVars, clientVars
<1>2. /\ v \in Members /\ Awaits(v, x) /\ ~ Awaits(v, x)'
      /\ \A w \in Users : w # v => Awaits(w, x)' = Awaits(w, x)
      /\ \A u, w \in Users : u # x => Awaits(w, u)' = Awaits(w, u)
  BY <1>1, CellServed
<1>3. Members' = Members
  BY <1>1 DEF Members
<1>4. /\ Heard(v) \in Seq(Lines) /\ b \in Seq(Lines) /\ Len(b) \in Nat
      /\ shown[v] \in Seq(Lines) /\ toUser[v] \in Seq(Lines)
  BY HeardType
<1>5. Heard(v)' = Heard(v) \o b
  <2>1. toUser'[v] = toUser[v] \o b /\ shown'[v] = shown[v]
    BY <1>1 DEF TypeOK
  <2>2. (shown[v] \o toUser[v]) \o b = shown[v] \o (toUser[v] \o b)
    <3>. DEFINE s == shown[v]
                t == toUser[v]
    <3>1. s \in Texts /\ t \in Texts /\ b \in Texts
      BY <1>4 DEF Texts
    <3>. HIDE DEF s, t, b
    <3>2. (s \o t) \o b = s \o (t \o b)
      BY <3>1, Grouped
    <3>. QED  BY <3>2 DEF s, t
  <2>. HIDE DEF b
  <2>. QED  BY <2>1, <2>2 DEF Heard
<1>6. \A w \in Users : w # v => Heard(w)' = Heard(w)
  BY <1>1 DEF Heard, TypeOK
<1>7. ASSUME NEW u \in Users
      PROVE  /\ Taken(u)' = Taken(u) /\ Before(u)' = Before(u) /\ Stream(u)'
             /\ i'[u] <= user_cnt'
  <2>1. Stream(u) /\ i[u] <= user_cnt /\ i[u] \in Nat /\ user_cnt \in Nat
    BY DEF Hears, Delivery, TypeOK
  <2>2. Taken(u)' = Taken(u) /\ Before(u)' = Before(u)
    BY <1>1 DEF Before, Taken
  <2>3. Stream(u)'
    BY <1>1, <2>1, <2>2 DEF Stream
  <2>4. i'[u] <= user_cnt'
    BY <1>1, <2>1 DEF TypeOK
  <2>. QED  BY <2>2, <2>3, <2>4
<1>8. /\ Before(x) \in Nat /\ Before(x) + Len(b) = Taken(x) /\ Follow(b, x, Before(x))
  <2>1. Stream(x) /\ typed[x] \in Nat /\ Len(toServer[x]) \in Nat
    BY HeardType DEF Hears, Delivery
  <2>2. Taken(x) \in Nat
    BY <2>1 DEF Stream, Taken
  <2>. QED  BY <1>4, <2>1, <2>2 DEF Stream, Before
<1>9. /\ InOrder(Heard(v)', x) /\ LastIs(Heard(v)', x, Taken(x))
      /\ EndsWith(Heard(v)', x, b)
  <2>1. InOrder(Heard(v), x) /\ LastIs(Heard(v), x, Before(x))
    BY <1>2 DEF Hears, HeardInOrder, Delivery, Handed
  <2>. HIDE DEF b
  <2>. QED  BY <1>4, <1>5, <1>8, <2>1, OwnBehind
<1>10. ASSUME NEW u \in Users, u # x
       PROVE  /\ InOrder(Heard(v)', u) /\ (v = u => LinesOf(Heard(v)', u) = {})
              /\ \A e : LastIs(Heard(v), u, e) => LastIs(Heard(v)', u, e)
              /\ \A d \in Seq(Lines) : EndsWith(Heard(v), u, d) => EndsWith(Heard(v)', u, d)
  <2>1. LinesOf(b, u) = {}
    BY <1>8, <1>10 DEF Follow, LinesOf
  <2>2. InOrder(Heard(v), u) /\ (v = u => LinesOf(Heard(v), u) = {})
    BY DEF Hears, HeardInOrder
  <2>. DEFINE h == Heard(v)
              c == Heard(v)'
  <2>3. h \in Seq(Lines) /\ b \in Seq(Lines) /\ c = h \o b
    BY <1>4, <1>5
  <2>. HIDE DEF b, h, c
  <2>4. /\ InOrder(h, u) => InOrder(c, u)
        /\ LinesOf(h, u) = {} => LinesOf(c, u) = {}
        /\ \A e : LastIs(h, u, e) => LastIs(c, u, e)
        /\ \A d \in Seq(Lines) : EndsWith(h, u, d) => EndsWith(c, u, d)
    BY <2>1, <2>3, OthersBehind
  <2>. QED  BY <2>2, <2>4 DEF h, c
<1>11. HeardInOrder'
  <2>. SUFFICES ASSUME NEW w \in Users, NEW u \in Users
                PROVE  (w = u => LinesOf(Heard(w)', u) = {}) /\ InOrder(Heard(w)', u)
    BY DEF HeardInOrder
  <2>1. CASE w # v
    BY <1>6, <2>1 DEF Hears, HeardInOrder
  <2>2. CASE w = v /\ u = x
    BY <1>9, <2>2
  <2>3. CASE w = v /\ u # x
    BY <1>10, <2>3
  <2>. QED  BY <2>1, <2>2, <2>3
<1>12. ASSUME NEW u \in Users, NEW w \in Users \ {u}
       PROVE  Handed(w, u)'
  <2>1. Handed(w, u)
    BY DEF Hears, Delivery
  <2>2. CASE w # v
    <3>1. Awaits(w, u)' = Awaits(w, u)
      BY <1>2, <2>2
    <3>. QED  BY <1>1, <1>3, <1>6, <1>7, <2>1, <2>2, <3>1 DEF Handed
  <2>3. CASE w = v /\ u = x
    <3>1. Handed(v, x)'
      BY <1>1, <1>2, <1>7, <1>9 DEF Handed
    <3>. QED  BY <2>3, <3>1 DEF Handed
  <2>4. CASE w = v /\ u # x
    <3>1. Awaits(w, u)' = Awaits(w, u) /\ rcvBuffer[u] \in Seq(Lines)
      BY <1>2, <2>4, HeardType
    <3>2. Handed(w, u)'
      BY <1>1, <1>3, <1>7, <1>10, <2>1, <2>4, <3>1 DEF Handed
    <3>. QED  BY <3>2
  <2>. QED  BY <2>2, <2>3, <2>4
<1>13. \A u \in Users : u \notin Members' => Heard(u)' = <<>>
  BY <1>2, <1>3, <1>6 DEF Hears, Delivery
<1>. QED  BY <1>7, <1>11, <1>12, <1>13 DEF Hears, Delivery

\* Who has heard nothing has printed nothing.
LEMMA NothingIn ==
  ASSUME NEW S, NEW s \in Seq(S), NEW t \in Seq(S), s \o t = <<>>
  PROVE  s = <<>>
<1>. DEFINE m == Len(s)
            n == Len(t)
<1>1. m \in Nat /\ n \in Nat /\ m + n = 0
  BY LenProperties, ConcatProperties, EmptySeq
<1>2. m = 0 => s = <<>>
  BY EmptySeq
<1>. HIDE DEF m, n
<1>3. m = 0
  BY <1>1
<1>. QED  BY <1>2, <1>3

\* A user leaves: what it has printed is the first part of what it has heard.
LEMMA HearsLeave ==
  ASSUME TypeOK, Hears, NEW x \in Users, Leave(x)
  PROVE  Hears'
<1>1. /\ UNCHANGED <<sock_connect, user_cnt, reader, rcvBuffer, i, toServer, typed, shown>>
      /\ link'[x] # "open" /\ toUser'[x] = <<>>
      /\ \A v \in Users : v # x => link'[v] = link[v] /\ toUser'[v] = toUser[v]
  BY DEF Leave, mainVars, readerVars, TypeOK
<1>2. Members' = Members /\ \A u, v \in Users : Awaits(v, u)' = Awaits(v, u)
  BY <1>1 DEF Members, Awaits
<1>3. \A v \in Users : v # x => Heard(v)' = Heard(v)
  BY <1>1 DEF Heard
<1>4. Heard(x)' = shown[x] /\ shown[x] \in Seq(Lines) /\ toUser[x] \in Seq(Lines)
  <2>1. shown[x] \in Seq(Lines) /\ toUser[x] \in Seq(Lines)
    BY HeardType
  <2>2. shown[x] \o <<>> = shown[x]
    BY <2>1, ConcatEmptySeq
  <2>. QED  BY <1>1, <2>1, <2>2 DEF Heard
<1>5. \A u \in Users : /\ InOrder(Heard(x), u) => InOrder(shown[x], u)
                       /\ LinesOf(Heard(x), u) = {} => LinesOf(shown[x], u) = {}
  BY <1>4, UpToAnyPlace DEF Heard
<1>6. HeardInOrder'
  <2>. SUFFICES ASSUME NEW v \in Users, NEW u \in Users
                PROVE  (v = u => LinesOf(Heard(v)', u) = {}) /\ InOrder(Heard(v)', u)
    BY DEF HeardInOrder
  <2>1. CASE v # x
    BY <1>3, <2>1 DEF Hears, HeardInOrder
  <2>2. CASE v = x
    <3>1. (x = u => LinesOf(Heard(x), u) = {}) /\ InOrder(Heard(x), u)
      BY DEF Hears, HeardInOrder
    <3>. QED  BY <1>4, <1>5, <2>2, <3>1
  <2>. QED  BY <2>1, <2>2
<1>7. ASSUME NEW u \in Users
      PROVE  /\ Taken(u)' = Taken(u) /\ Before(u)' = Before(u)
             /\ Stream(u)' /\ i'[u] <= user_cnt'
  <2>1. Stream(u) /\ i[u] <= user_cnt
    BY DEF Hears, Delivery
  <2>2. Taken(u)' = Taken(u) /\ Before(u)' = Before(u)
    BY <1>1 DEF Before, Taken
  <2>. QED  BY <1>1, <2>1, <2>2 DEF Stream
<1>8. ASSUME NEW u \in Users, NEW v \in Users \ {u}
      PROVE  Handed(v, u)'
  <2>1. CASE v = x
    BY <1>1, <2>1 DEF Handed
  <2>2. CASE v # x
    <3>1. Handed(v, u)
      BY DEF Hears, Delivery
    <3>. QED  BY <1>1, <1>2, <1>3, <1>7, <2>2, <3>1 DEF Handed
  <2>. QED  BY <2>1, <2>2
<1>9. \A u \in Users : u \notin Members' => Heard(u)' = <<>>
  <2>1. ASSUME x \notin Members  PROVE shown[x] = <<>>
    <3>1. Heard(x) = <<>>
      BY <2>1 DEF Hears, Delivery
    <3>. QED  BY <1>4, <3>1, NothingIn DEF Heard
  <2>. QED  BY <1>2, <1>3, <1>4, <2>1 DEF Hears, Delivery
<1>. QED  BY <1>6, <1>7, <1>8, <1>9 DEF Hears, Delivery

\* Every step keeps the order and what was delivered.
LEMMA HearsStep ==
  ASSUME TypeOK, Fit, Hears, [Next]_vars
  PROVE  Hears'
<1>. USE DEF mainVars, readerVars, clientVars
<1>1. CASE UNCHANGED vars
  <2>1. \A u \in Users : Heard(u)' = Heard(u)
    BY <1>1 DEF vars, Heard
  <2>2. UNCHANGED <<sock_connect, user_cnt, rcvBuffer, i, typed, toServer, link, reader>>
    BY <1>1 DEF vars
  <2>. QED  BY <2>1, <2>2, HearsApart
<1>2. ASSUME Die  PROVE Hears'
  <2>1. \A u \in Users : Heard(u)' = Heard(u)
    BY <1>2 DEF Die, Heard
  <2>2. UNCHANGED <<sock_connect, user_cnt, rcvBuffer, i, typed, toServer, link, reader>>
    BY <1>2 DEF Die
  <2>. QED  BY <2>1, <2>2, HearsApart
<1>3. CASE Create
  <2>1. reader[arg] = "none" /\ arg \in Users
    <3>1. arg \in Members /\ main = "create"
      BY <1>3 DEF Create, Fit, Newcomers
    <3>2. arg \in Users
      BY <3>1 DEF Fit, TableIsFit, TypeOK
    <3>. QED  BY <3>1, <3>2 DEF Fit, TableIsFit
  <2>2. \A u \in Users : reader'[u] = "write" <=> reader[u] = "write"
    BY <1>3, <2>1 DEF Create, TypeOK
  <2>3. \A u \in Users : Heard(u)' = Heard(u)
    BY <1>3 DEF Create, Heard
  <2>4. UNCHANGED <<sock_connect, user_cnt, rcvBuffer, i, typed, toServer, link>>
    BY <1>3 DEF Create
  <2>. QED  BY <2>2, <2>3, <2>4, HearsApart
<1>4. ASSUME NEW x \in Users, Join(x)  PROVE Hears'
  <2>1. x \notin Members /\ Heard(x) = <<>>
    BY <1>4 DEF Join, Fit, Newcomers, Hears, Delivery
  <2>2. \A v \in Users : link'[v] = "open" => link[v] = "open" \/ v = x
    BY <1>4 DEF Join, TypeOK
  <2>3. \A u \in Users : Heard(u)' = Heard(u)
    BY <1>4 DEF Join, Heard
  <2>4. UNCHANGED <<sock_connect, user_cnt, rcvBuffer, i, typed, toServer, reader>>
    BY <1>4 DEF Join
  <2>5. \A v \in Users : link'[v] = "open" => link[v] = "open" \/ (Heard(v) = <<>> /\ v \notin Members)
    BY <2>1, <2>2
  <2>. QED  BY <2>3, <2>4, <2>5, HearsApart
<1>5. ASSUME NEW x \in Users, Show(x)  PROVE Hears'
  <2>1. PICK n \in 1 .. Len(toUser[x]) :
          /\ shown' = [shown EXCEPT ![x] = @ \o SubSeq(toUser[x], 1, n)]
          /\ toUser' = [toUser EXCEPT ![x] = SubSeq(@, n + 1, Len(@))]
    BY <1>5 DEF Show
  <2>2. /\ shown'[x] = shown[x] \o SubSeq(toUser[x], 1, n)
        /\ toUser'[x] = SubSeq(toUser[x], n + 1, Len(toUser[x]))
        /\ \A u \in Users : u # x => shown'[u] = shown[u] /\ toUser'[u] = toUser[u]
    <3>1. shown \in [Users -> Seq(Lines)]
      BY DEF TypeOK
    <3>2. toUser \in [Users -> Seq(Lines)]
      BY DEF TypeOK
    <3>3. /\ shown'[x] = shown[x] \o SubSeq(toUser[x], 1, n)
          /\ \A u \in Users : u # x => shown'[u] = shown[u]
      BY <2>1, <3>1
    <3>4. /\ toUser'[x] = SubSeq(toUser[x], n + 1, Len(toUser[x]))
          /\ \A u \in Users : u # x => toUser'[u] = toUser[u]
      BY <2>1, <3>2
    <3>. QED  BY <3>3, <3>4
  <2>3. Heard(x)' = Heard(x)
    <3>. DEFINE s == shown[x]
                t == toUser[x]
    <3>1. s \in Texts /\ t \in Texts
      BY HeardType DEF Texts
    <3>2. (s \o SubSeq(t, 1, n)) \o SubSeq(t, n + 1, Len(t)) = s \o t
      <4>1. n \in 1 .. Len(t)
        OBVIOUS
      <4>. HIDE DEF s, t
      <4>. QED  BY <3>1, <4>1, StillHeard
    <3>. QED  BY <2>2, <3>2 DEF Heard
  <2>4. \A u \in Users : Heard(u)' = Heard(u)
    BY <2>2, <2>3 DEF Heard
  <2>5. UNCHANGED <<sock_connect, user_cnt, rcvBuffer, i, typed, toServer, link, reader>>
    BY <1>5 DEF Show
  <2>. QED  BY <2>4, <2>5, HearsApart
<1>6. ASSUME NEW x \in Users, ReadFails(x) \/ ReadEnd(x)  PROVE Hears'
  <2>1. \A u \in Users : Heard(u)' = Heard(u)
    BY <1>6 DEF ReadFails, ReadEnd, Heard
  <2>2. \A v \in Users : link'[v] = "open" => link[v] = "open"
    BY <1>6 DEF ReadFails, ReadEnd, TypeOK
  <2>3. \A u \in Users : reader'[u] = "write" <=> reader[u] = "write"
    BY <1>6 DEF ReadFails, ReadEnd, TypeOK
  <2>4. UNCHANGED <<sock_connect, user_cnt, rcvBuffer, i, typed, toServer>>
    BY <1>6 DEF ReadFails, ReadEnd
  <2>. QED  BY <2>1, <2>2, <2>3, <2>4, HearsApart
<1>7. ASSUME NEW x \in Users, WriteEnd(x)  PROVE Hears'
  <2>1. /\ UNCHANGED <<sock_connect, user_cnt, rcvBuffer, i, toServer, toUser, link, typed, shown>>
        /\ reader' = [reader EXCEPT ![x] = "read"] /\ i[x] >= user_cnt
    BY <1>7 DEF WriteEnd
  <2>2. Members' = Members /\ \A u \in Users : Heard(u)' = Heard(u) /\ Taken(u)' = Taken(u)
    BY <2>1 DEF Members, Heard, Taken
  <2>3. ASSUME NEW u \in Users  PROVE Stream(u)' /\ i'[u] <= user_cnt'
    <3>1. Stream(u) /\ i[u] <= user_cnt
      BY DEF Hears, Delivery
    <3>. QED  BY <2>1, <2>2, <3>1 DEF Stream, Before
  <2>4. ASSUME NEW u \in Users, NEW v \in Users  PROVE Awaits(v, u)' = Awaits(v, u)
    <3>1. CASE u = x
      <4>1. \A s \in Slots : ~ (i[x] <= s /\ s < user_cnt)
        <5>1. i[x] \in Nat /\ user_cnt \in Nat /\ i[x] >= user_cnt
          BY <2>1 DEF TypeOK
        <5>2. \A s \in Slots : s \in Int
          BY DEF Slots
        <5>. QED  BY <5>1, <5>2
      <4>. QED  BY <2>1, <3>1, <4>1 DEF Awaits
    <3>2. CASE u # x
      <4>1. reader'[u] = reader[u]
        BY <2>1, <3>2 DEF TypeOK
      <4>. QED  BY <2>1, <4>1 DEF Awaits
    <3>. QED  BY <3>1, <3>2
  <2>5. \A u \in Users : reader'[u] = "write" => reader[u] = "write"
    BY <2>1 DEF TypeOK
  <2>6. \A u, v \in Users : link'[v] = "open" => SameFor(v, u)
    BY <2>1, <2>2, <2>4, <2>5 DEF SameFor
  <2>. QED  BY <2>1, <2>2, <2>3, <2>6, HearsSame
<1>8. ASSUME NEW x \in Users, Write(x)  PROVE Hears'
  <2>. DEFINE v == sock_connect[i[x]]
  <2>1. Skip(x, v) \/ WriteTo(x, v)
    BY <1>8 DEF Write
  <2>2. v \in Users
    <3>1. v \in Members
      BY <1>8, InSlots DEF Write, Fit
    <3>. QED  BY <3>1 DEF Members, Fit, TableIsFit, TypeOK
  <2>3. \/ /\ toUser' = toUser /\ (v # x => link[v] # "open")
           /\ link' = link \/ link' = [link EXCEPT ![v] = "rst"]
        \/ /\ v # x /\ link[v] = "open" /\ link' = link
           /\ toUser' = [toUser EXCEPT ![v] = @ \o rcvBuffer[x]]
    BY <2>1 DEF Skip, WriteTo
  <2>. HIDE DEF v
  <2>4. v = sock_connect[i[x]]
    BY DEF v
  <2>. QED  BY <1>8, <2>2, <2>3, <2>4, HearsPassedBy, HearsHanded
<1>9. CASE MainFails \/ \E u \in Users : WriteKills(u)
  BY <1>2, <1>9 DEF MainFails, WriteKills
<1>. QED
  BY <1>1, <1>3, <1>4, <1>5, <1>6, <1>7, <1>8, <1>9, HearsAccept, HearsCount, HearsType,
     HearsRead, HearsLeave DEF Next, MainStep, ReaderStep

-----------------------------------------------------------------------------
(* The theorems.                                                           *)

\* Nobody is in the room at first.
LEMMA InitIInv == Init => IInv
<1>. SUFFICES ASSUME Init  PROVE IInv
  OBVIOUS
<1>1. IsFiniteSet(Users) /\ Cardinality(Users) \in Nat
  BY TalkRoomAssumption, FS_CardinalityType
<1>2. TypeOK
  BY EmptySeq DEF Init, TypeOK
<1>3. Members = {}
  BY <1>1 DEF Init, Members, Slots
<1>4. TableIsFit
  BY <1>1, <1>3 DEF Init, TableIsFit, Slots
<1>5. Len(backlog) = 0 /\ user_cnt \in Slots
  BY <1>1, EmptySeq DEF Init, Slots
<1>6. Newcomers
  BY <1>3, <1>5 DEF Init, Newcomers
<1>7. Hears
  <2>1. ASSUME NEW v \in Users  PROVE Heard(v) = <<>>
    <3>1. shown[v] = <<>> /\ toUser[v] = <<>>
      BY DEF Init
    <3>. QED  BY <3>1, EmptySeq, ConcatEmptySeq DEF Heard
  <2>2. HeardInOrder
    BY <2>1, NothingHeard DEF HeardInOrder
  <2>3. ASSUME NEW u \in Users  PROVE Stream(u) /\ i[u] <= user_cnt
    <3>1. /\ Len(toServer[u]) = 0 /\ Len(rcvBuffer[u]) = 0 /\ typed[u] = 0
          /\ i[u] = 0 /\ user_cnt = 0
      BY EmptySeq DEF Init
    <3>. QED  BY <3>1 DEF Stream, Taken, Before, Follow
  <2>4. ASSUME NEW u \in Users, NEW v \in Users  PROVE Handed(v, u)
    BY <1>3, <2>1, NothingHeard DEF Handed
  <2>. QED  BY <2>1, <2>2, <2>3, <2>4 DEF Hears, Delivery
<1>. QED  BY <1>2, <1>4, <1>6, <1>7 DEF IInv, Hears

\* The invariant is inductive.
LEMMA NextIInv == IInv /\ [Next]_vars => IInv'
<1>. SUFFICES ASSUME IInv, [Next]_vars  PROVE IInv'
  OBVIOUS
<1>1. TypeOK /\ Fit /\ Hears
  BY DEF IInv, Fit, Hears
<1>2. TypeOK' /\ Fit'
  BY <1>1, TypeStep, FitStep DEF Fit
<1>3. Hears'
  BY <1>1, HearsStep
<1>. QED  BY <1>2, <1>3 DEF IInv, Fit, Hears

\* The room's types, its table and those who come, with any number of users.
THEOREM IInvHolds == Spec => []IInv
<1>. QED  BY InitIInv, NextIInv, PTL DEF Spec

\* The table that the main thread fills and all the readers go through without
\* a lock is fit to be read at any moment: no cell that counts is unassigned,
\* no user is in two, and each that is counted has or is about to get a reader.
THEOREM TableIsFitHolds == Spec => []TableIsFit
<1>1. IInv => TableIsFit
  BY DEF IInv
<1>. QED  BY <1>1, IInvHolds, PTL

\* Whatever the readers that write to the same user do in between, each user
\* hears each other user's lines in the order they were typed, each once,
\* without a gap from the first it hears, and never its own.
THEOREM HeardInOrderHolds == Spec => []HeardInOrder
<1>1. IInv => HeardInOrder
  BY DEF IInv
<1>. QED  BY <1>1, IInvHolds, PTL

\* Only the end of writeSock()'s loop takes a reader back to read().
LEMMA OnlyWriteEnd ==
  ASSUME IInv, Next, NEW u \in Users, reader[u] = "write", reader'[u] = "read"
  PROVE  WriteEnd(u)
<1>. USE DEF mainVars, readerVars, clientVars
<1>1. reader \in [Users -> {"none", "read", "write", "done"}]
  BY DEF IInv, TypeOK
<1>2. reader' # reader
  OBVIOUS
<1>3. CASE Create
  <2>1. main = "create" => reader[arg] # "write"
    <3>1. main = "create" => arg \in Members /\ arg \in Users
      BY DEF IInv, Newcomers, TableIsFit, Members, TypeOK
    <3>. QED  BY <3>1 DEF IInv, TableIsFit
  <2>2. u # arg
    BY <1>3, <2>1 DEF Create
  <2>. QED  BY <1>1, <1>3, <2>2 DEF Create
<1>4. ASSUME NEW x \in Users, Read(x) \/ ReadEnd(x)  PROVE FALSE
  BY <1>1, <1>4 DEF Read, ReadEnd
<1>5. ASSUME NEW x \in Users, WriteEnd(x)  PROVE WriteEnd(u)
  <2>1. u = x
    BY <1>1, <1>5 DEF WriteEnd
  <2>. QED  BY <1>5, <2>1
<1>6. ASSUME NEW x \in Users,
             Join(x) \/ Type(x) \/ Show(x) \/ Leave(x) \/ ReadFails(x) \/ Write(x) \/ WriteKills(x)
      PROVE  FALSE
  BY <1>2, <1>6 DEF Join, Type, Show, Leave, ReadFails, Write, WriteKills, Die
<1>7. CASE Accept \/ Count \/ MainFails
  BY <1>2, <1>7 DEF Accept, Count, MainFails, Die
<1>. QED  BY <1>3, <1>4, <1>5, <1>6, <1>7 DEF Next, MainStep, ReaderStep

\* When a reader has gone through the table, whoever is in the room and is
\* still there has the lines it read, the last it has heard of that user: also
\* one who was counted while the reader was writing.
THEOREM ReachesAllHolds == Spec => ReachesAll
<1>1. ASSUME IInv, [Next]_vars
      PROVE  [\A u \in Users : reader[u] = "write" /\ reader'[u] = "read" => ReachedAll(u)]_vars
  <2>1. ASSUME NEW u \in Users, reader[u] = "write", reader'[u] = "read", Next
        PROVE  ReachedAll(u)
    <3>1. i[u] >= user_cnt /\ i[u] \in Nat /\ user_cnt \in Nat
      BY <1>1, <2>1, OnlyWriteEnd DEF WriteEnd, IInv, TypeOK
    <3>2. \A v \in Users : ~ Awaits(v, u)
      <4>1. \A s \in Slots : ~ (i[u] <= s /\ s < user_cnt)
        BY <3>1 DEF Slots
      <4>. QED  BY <4>1 DEF Awaits
    <3>3. Members \subseteq Users
      BY <1>1 DEF IInv, TypeOK, TableIsFit, Members
    <3>4. \A v \in Users \ {u} : Handed(v, u)
      BY <1>1 DEF IInv, Delivery
    <3>. QED  BY <2>1, <3>2, <3>3, <3>4 DEF ReachedAll, Handed
  <2>. QED  BY <1>1, <2>1
<1>. QED  BY <1>1, IInvHolds, PTL DEF Spec, ReachesAll
=============================================================================
