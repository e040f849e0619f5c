-------------------------- MODULE EchoClientsProofs --------------------------
(***************************************************************************)
(* Proofs about the clients of the echo servers, whatever the server: what *)
(* a client's step and a server's echo preserve.                           *)
(***************************************************************************)
EXTENDS EchoClients, SequenceTheorems, TLAPS

-----------------------------------------------------------------------------
(* Types.                                                                  *)

\* The first n elements of a sequence, which a read() takes.
LEMMA Taken ==
  ASSUME NEW S, NEW s \in Seq(S), NEW n \in 1 .. Len(s)
  PROVE  /\ SubSeq(s, 1, n) \in Seq(S)
         /\ Len(SubSeq(s, 1, n)) = n
         /\ \A k \in 1 .. n : SubSeq(s, 1, n)[k] = s[k]
<1>1. \A k \in 1 .. n : s[k] \in S
  BY ElementOfSeq, LenProperties
<1>2. 1 \in Int /\ n \in Int /\ n >= 1
  BY LenProperties
<1>. QED  BY <1>1, <1>2, SubSeqProperties, LenProperties

\* The elements after the first n, which a read() leaves.
LEMMA Left ==
  ASSUME NEW S, NEW s \in Seq(S), NEW n \in 1 .. Len(s)
  PROVE  /\ SubSeq(s, n + 1, Len(s)) \in Seq(S)
         /\ Len(SubSeq(s, n + 1, Len(s))) = Len(s) - n
         /\ \A k \in 1 .. Len(s) - n : SubSeq(s, n + 1, Len(s))[k] = s[n + k]
<1>1. \A k \in n + 1 .. Len(s) : s[k] \in S
  BY ElementOfSeq, LenProperties
<1>2. n + 1 \in Int /\ Len(s) \in Int
  BY LenProperties
<1>3. SubSeq(s, n + 1, Len(s)) \in Seq(S)
  BY <1>1, <1>2, SubSeqProperties
<1>4. Len(SubSeq(s, n + 1, Len(s))) = IF n + 1 <= Len(s) THEN Len(s) - (n + 1) + 1 ELSE 0
  BY <1>1, <1>2, SubSeqProperties
<1>5. \A k \in 1 .. Len(s) - (n + 1) + 1 : SubSeq(s, n + 1, Len(s))[k] = s[n + 1 + k - 1]
  BY <1>1, <1>2, SubSeqProperties
<1>. QED  BY <1>2, <1>3, <1>4, <1>5

\* The pieces of the line that Send writes.
LEMMA LineType ==
  ASSUME NEW c \in Clients, NEW m \in Nat, NEW n \in 1 .. 2
  PROVE  /\ [k \in 1 .. n |-> <<c, m + k>>] \in Seq(Pieces)
         /\ Len([k \in 1 .. n |-> <<c, m + k>>]) = n
<1>1. \A k \in 1 .. n : <<c, m + k>> \in Pieces
  BY DEF Pieces
<1>. QED  BY <1>1, IsASeq

\* A client's step keeps every type.
LEMMA TypeClientStep ==
  ASSUME TypeClients, NEW c \in Clients, Connect(c) \/ Send(c) \/ Receive(c) \/ Leave(c)
  PROVE  TypeClients'
<1>. USE DEF streamVars
<1>1. CASE Connect(c)
  BY <1>1, AppendProperties DEF Connect, TypeClients
<1>2. CASE Send(c)
  <2>1. PICK n \in 1 .. 2 :
          /\ sent' = [sent EXCEPT ![c] = @ + n]
          /\ toServer' = [toServer EXCEPT ![c] =
               IF link[c] = "open" THEN @ \o [k \in 1 .. n |-> <<c, sent[c] + k>>] ELSE @]
    BY <1>2 DEF Send
  <2>2. toServer[c] \in Seq(Pieces) /\ sent[c] \in Nat
    BY DEF TypeClients
  <2>3. toServer[c] \o [k \in 1 .. n |-> <<c, sent[c] + k>>] \in Seq(Pieces)
    BY <2>2, LineType, ConcatProperties
  <2>4. toServer' \in [Clients -> Seq(Pieces)]
    BY <2>1, <2>3 DEF TypeClients
  <2>5. sent' \in [Clients -> Nat]
    BY <2>1 DEF TypeClients
  <2>. QED  BY <1>2, <2>4, <2>5 DEF Send, TypeClients
<1>3. CASE Receive(c)
  <2>1. PICK n \in 1 .. Len(toClient[c]) :
          /\ got' = [got EXCEPT ![c] = @ \o SubSeq(toClient[c], 1, n)]
          /\ toClient' = [toClient EXCEPT ![c] = SubSeq(@, n + 1, Len(@))]
    BY <1>3 DEF Receive
  <2>2. toClient[c] \in Seq(Pieces) /\ got[c] \in Seq(Pieces)
    BY DEF TypeClients
  <2>3. got[c] \o SubSeq(toClient[c], 1, n) \in Seq(Pieces)
    BY <2>2, Taken, ConcatProperties
  <2>4. SubSeq(toClient[c], n + 1, Len(toClient[c])) \in Seq(Pieces)
    BY <2>2, Left
  <2>5. got' \in [Clients -> Seq(Pieces)] /\ toClient' \in [Clients -> Seq(Pieces)]
    BY <2>1, <2>3, <2>4 DEF TypeClients
  <2>6. cpc' \in [Clients -> {"none", "typing", "reading", "gone"}]
    BY <1>3 DEF Receive, TypeClients
  <2>. QED  BY <1>3, <2>5, <2>6 DEF Receive, TypeClients
<1>4. CASE Leave(c)
  BY <1>4, EmptySeq DEF Leave, TypeClients
<1>. QED  BY <1>1, <1>2, <1>3, <1>4

\* So does a server's echo.
LEMMA TypeEchoes ==
  ASSUME TypeClients, NEW c \in Clients, Echoes(c), UNCHANGED <<backlog, clientVars>>
  PROVE  TypeClients'
<1>1. PICK n \in 1 .. Len(toServer[c]) : Answer(c, n) /\ TakeFrom(c, n)
  BY DEF Echoes
<1>2. toServer[c] \in Seq(Pieces) /\ toClient[c] \in Seq(Pieces)
  BY DEF TypeClients
<1>3. SubSeq(toServer[c], n + 1, Len(toServer[c])) \in Seq(Pieces)
  BY <1>2, Left
<1>4. toClient[c] \o SubSeq(toServer[c], 1, n) \in Seq(Pieces)
  BY <1>2, Taken, ConcatProperties
<1>5. toServer' \in [Clients -> Seq(Pieces)]
  BY <1>1, <1>3 DEF TakeFrom, TypeClients
<1>6. toClient' \in [Clients -> Seq(Pieces)]
  BY <1>1, <1>4 DEF Answer, TypeClients
<1>7. link' \in [Clients -> {"none", "open", "fin", "err", "rst", "closed"}]
  BY <1>1 DEF Answer, TypeClients
<1>. QED  BY <1>5, <1>6, <1>7 DEF TypeClients, clientVars

-----------------------------------------------------------------------------
(* The order of the pieces.                                                *)

\* Two runs of pieces, one after the other.
LEMMA FollowsConcat ==
  ASSUME NEW c, NEW s \in Seq(Pieces), NEW t \in Seq(Pieces), NEW n \in Nat,
         Follows(c, s, n), Follows(c, t, n + Len(s))
  PROVE  Follows(c, s \o t, n)
<1>1. Len(s) \in Nat /\ Len(t) \in Nat /\ Len(s \o t) = Len(s) + Len(t)
  BY LenProperties, ConcatProperties
<1>2. SUFFICES ASSUME NEW k \in 1 .. Len(s \o t)  PROVE (s \o t)[k] = <<c, n + k>>
  BY DEF Follows
<1>3. CASE k <= Len(s)
  <2>1. (s \o t)[k] = s[k] /\ k \in 1 .. Len(s)
    BY <1>1, <1>3, ConcatProperties
  <2>. QED  BY <2>1 DEF Follows
<1>4. CASE ~ (k <= Len(s))
  <2>1. k - Len(s) \in 1 .. Len(t)
    BY <1>1, <1>4
  <2>2. (s \o t)[k] = t[k - Len(s)]
    BY <1>1, <1>4, <2>1, ConcatProperties
  <2>3. n + Len(s) + (k - Len(s)) = n + k
    BY <1>1
  <2>. QED  BY <2>1, <2>2, <2>3 DEF Follows
<1>. QED  BY <1>3, <1>4

\* A run of pieces, cut in two.
LEMMA FollowsCut ==
  ASSUME NEW c, NEW s \in Seq(Pieces), NEW n \in Nat, NEW m \in 1 .. Len(s),
         Follows(c, s, n)
  PROVE  /\ Follows(c, SubSeq(s, 1, m), n)
         /\ Follows(c, SubSeq(s, m + 1, Len(s)), n + m)
<1>1. Len(s) \in Nat
  BY LenProperties
<1>2. Follows(c, SubSeq(s, 1, m), n)
  BY <1>1, Taken DEF Follows
<1>3. ASSUME NEW k \in 1 .. Len(s) - m
      PROVE  SubSeq(s, m + 1, Len(s))[k] = <<c, n + m + k>>
  <2>1. m + k \in 1 .. Len(s) /\ n + (m + k) = n + m + k
    BY <1>1
  <2>2. SubSeq(s, m + 1, Len(s))[k] = s[m + k]
    BY Left
  <2>. QED  BY <2>1, <2>2 DEF Follows
<1>4. Len(SubSeq(s, m + 1, Len(s))) = Len(s) - m
  BY Left
<1>. QED  BY <1>2, <1>3, <1>4 DEF Follows

\* What is in order for a client stays so when nothing of it changes.
LEMMA InOrderSame ==
  ASSUME NEW d \in Clients, InOrderOf(d),
         got'[d] = got[d], toClient'[d] = toClient[d], toServer'[d] = toServer[d],
         sent'[d] = sent[d], cpc'[d] = cpc[d],
         link'[d] = "open" => link[d] = "open",
         link'[d] = "none" <=> link[d] = "none"
  PROVE  InOrderOf(d)'
BY DEF InOrderOf, Follows

\* A step that only ends or resets connections keeps the order.
LEMMA InOrderLinks ==
  ASSUME InOrder, UNCHANGED <<streamVars, clientVars>>,
         \A c \in Clients : /\ link'[c] = "open" => link[c] = "open"
                            /\ link'[c] = "none" <=> link[c] = "none"
  PROVE  InOrder'
BY InOrderSame DEF InOrder, streamVars, clientVars

\* At first there is nothing to order.
LEMMA InOrderInit ==
  ASSUME InitClients
  PROVE  InOrder
<1>1. \A c \in Clients : /\ link[c] = "none" /\ cpc[c] = "none" /\ sent[c] = 0
                         /\ toServer[c] = <<>> /\ Len(got[c]) = 0 /\ Len(toClient[c]) = 0
  BY EmptySeq DEF InitClients
<1>2. SUFFICES ASSUME NEW c \in Clients  PROVE InOrderOf(c)
  BY DEF InOrder
<1>3. Follows(c, got[c], 0) /\ Follows(c, toClient[c], Len(got[c]))
  BY <1>1 DEF Follows
<1>4. Len(got[c]) + Len(toClient[c]) <= sent[c]
  <2>. DEFINE g == Len(got[c])
              t == Len(toClient[c])
  <2>1. g = 0 /\ t = 0 /\ sent[c] = 0
    BY <1>1
  <2>2. g + t <= sent[c]
    <3>. HIDE DEF g, t
    <3>. QED  BY <2>1
  <2>. QED  BY <2>2
<1>. QED  BY <1>1, <1>3, <1>4 DEF InOrderOf

\* A client's step keeps the order.
LEMMA InOrderClientStep ==
  ASSUME TypeClients, InOrder, NEW c \in Clients,
         Connect(c) \/ Send(c) \/ Receive(c) \/ Leave(c)
  PROVE  InOrder'
<1>. USE DEF streamVars
<1>1. got[c] \in Seq(Pieces) /\ toClient[c] \in Seq(Pieces) /\ toServer[c] \in Seq(Pieces)
  BY DEF TypeClients
<1>. DEFINE g == Len(got[c])
            t == Len(toClient[c])
            v == Len(toServer[c])
<1>2. g \in Nat /\ t \in Nat /\ v \in Nat /\ sent[c] \in Nat
  <2>1. sent[c] \in Nat
    BY DEF TypeClients
  <2>. QED  BY <1>1, <2>1, LenProperties
<1>3. InOrderOf(c)
  BY DEF InOrder
<1>4. g + t <= sent[c]
  BY <1>3 DEF InOrderOf
<1>5. ASSUME NEW d \in Clients, d # c  PROVE InOrderOf(d)'
  <2>1. /\ got'[d] = got[d] /\ toClient'[d] = toClient[d] /\ toServer'[d] = toServer[d]
        /\ sent'[d] = sent[d] /\ cpc'[d] = cpc[d] /\ link'[d] = link[d]
    BY <1>5 DEF TypeClients, Connect, Send, Receive, Leave
  <2>. QED  BY <2>1, InOrderSame DEF InOrder
<1>6. CASE Connect(c)
  <2>1. /\ got' = got /\ toClient' = toClient /\ toServer' = toServer /\ sent' = sent
        /\ cpc'[c] = "typing" /\ link'[c] = "open" /\ cpc[c] = "none"
    BY <1>6 DEF Connect, TypeClients
  <2>2. sent[c] = 0 /\ Len(toServer[c]) = 0 /\ Len(got[c]) = 0 /\ Len(toClient[c]) = 0
    <3>1. sent[c] = 0 /\ toServer[c] = <<>>
      BY <1>3, <2>1 DEF InOrderOf
    <3>2. g = 0 /\ t = 0
      <4>1. sent[c] = 0
        BY <3>1
      <4>. HIDE DEF g, t, v
      <4>. QED  BY <1>2, <1>4, <4>1
    <3>. QED  BY <3>1, <3>2, EmptySeq
  <2>3. InOrderOf(c)'
    BY <2>1, <2>2 DEF InOrderOf, Follows
  <2>. QED  BY <1>5, <2>3 DEF InOrder
<1>7. CASE Send(c)
  <2>1. PICK n \in 1 .. 2 :
          /\ sent' = [sent EXCEPT ![c] = @ + n]
          /\ toServer' = [toServer EXCEPT ![c] =
               IF link[c] = "open" THEN @ \o [k \in 1 .. n |-> <<c, sent[c] + k>>] ELSE @]
    BY <1>7 DEF Send
  <2>2. /\ got' = got /\ toClient' = toClient /\ link' = link /\ cpc[c] = "typing"
        /\ cpc'[c] = "reading" /\ sent'[c] = sent[c] + n
    BY <1>7, <2>1 DEF Send, TypeClients
  <2>3. CASE link[c] = "open"
    <3>. DEFINE line == [k \in 1 .. n |-> <<c, sent[c] + k>>]
    <3>1. line \in Seq(Pieces) /\ Len(line) = n
      BY <1>2, LineType
    <3>2. toServer'[c] = toServer[c] \o line
      BY <2>1, <2>3 DEF TypeClients
    <3>3. Follows(c, line, sent[c])
      BY <3>1 DEF Follows
    <3>4. g + t + v = sent[c]
      BY <1>3, <2>3 DEF InOrderOf
    <3>5. Follows(c, toServer[c], Len(got[c]) + Len(toClient[c]))
      BY <1>3, <2>3 DEF InOrderOf
    <3>6. Len(toServer'[c]) = v + n
      BY <1>1, <3>1, <3>2, ConcatProperties
    <3>7. Follows(c, toServer'[c], Len(got[c]) + Len(toClient[c]))
      <4>. HIDE DEF line
      <4>1. g + t \in Nat
        <5>. HIDE DEF g, t, v
        <5>. QED  BY <1>2
      <4>2. Follows(c, line, g + t + v)
        <5>. HIDE DEF g, t, v
        <5>. QED  BY <3>3, <3>4
      <4>. QED  BY <1>1, <3>1, <3>2, <3>5, <4>1, <4>2, FollowsConcat
    <3>8. InOrderOf(c)'
      <4>1. g + t <= sent[c] + n
        <5>. HIDE DEF g, t, v
        <5>. QED  BY <1>2, <1>4
      <4>2. g + t + Len(toServer'[c]) = sent[c] + n
        <5>1. g + t + (v + n) = sent[c] + n
          <6>. HIDE DEF g, t, v
          <6>. QED  BY <1>2, <3>4
        <5>. QED  BY <3>6, <5>1
      <4>. QED  BY <1>3, <2>2, <2>3, <3>7, <4>1, <4>2 DEF InOrderOf, Follows
    <3>. QED  BY <1>5, <3>8 DEF InOrder
  <2>4. CASE link[c] # "open"
    <3>1. toServer'[c] = toServer[c]
      BY <2>1, <2>4 DEF TypeClients
    <3>2. g + t <= sent[c] + n
      <4>. HIDE DEF g, t, v
      <4>. QED  BY <1>2, <1>4
    <3>3. InOrderOf(c)'
      BY <1>3, <2>2, <2>4, <3>1, <3>2 DEF InOrderOf, Follows
    <3>. QED  BY <1>5, <3>3 DEF InOrder
  <2>. QED  BY <2>3, <2>4
<1>8. CASE Receive(c)
  <2>1. PICK n \in 1 .. Len(toClient[c]) :
          /\ got' = [got EXCEPT ![c] = @ \o SubSeq(toClient[c], 1, n)]
          /\ toClient' = [toClient EXCEPT ![c] = SubSeq(@, n + 1, Len(@))]
    BY <1>8 DEF Receive
  <2>2. /\ got'[c] = got[c] \o SubSeq(toClient[c], 1, n)
        /\ toClient'[c] = SubSeq(toClient[c], n + 1, Len(toClient[c]))
        /\ toServer' = toServer /\ link' = link /\ sent' = sent
        /\ cpc[c] = "reading" /\ cpc'[c] \in {"typing", "reading"}
    BY <1>8, <2>1 DEF Receive, TypeClients
  <2>3. SubSeq(toClient[c], 1, n) \in Seq(Pieces) /\ Len(SubSeq(toClient[c], 1, n)) = n
    BY <1>1, Taken
  <2>4. Len(toClient'[c]) = Len(toClient[c]) - n
    BY <1>1, <2>2, Left
  <2>5. Follows(c, SubSeq(toClient[c], 1, n), Len(got[c]))
        /\ Follows(c, toClient'[c], Len(got[c]) + n)
    BY <1>1, <1>2, <1>3, <2>2, FollowsCut DEF InOrderOf
  <2>6. Len(got'[c]) = Len(got[c]) + n
    BY <1>1, <2>2, <2>3, ConcatProperties
  <2>7. Follows(c, got'[c], 0)
    <3>1. Follows(c, got[c], 0) /\ 0 + Len(got[c]) = Len(got[c])
      BY <1>2, <1>3 DEF InOrderOf
    <3>. QED  BY <1>1, <2>2, <2>3, <2>5, <3>1, FollowsConcat
  <2>8. Len(got'[c]) + Len(toClient'[c]) = g + t
    <3>1. n \in 1 .. t
      OBVIOUS
    <3>2. (g + n) + (t - n) = g + t
      <4>. HIDE DEF g, t, v
      <4>. QED  BY <1>2, <3>1
    <3>. QED  BY <2>6, <2>4, <3>2
  <2>9. InOrderOf(c)'
    BY <1>3, <2>2, <2>5, <2>6, <2>7, <2>8 DEF InOrderOf, Follows
  <2>. QED  BY <1>5, <2>9 DEF InOrder
<1>9. CASE Leave(c)
  <2>1. /\ got' = got /\ toClient'[c] = <<>> /\ toServer' = toServer /\ sent' = sent
        /\ cpc[c] # "none" /\ cpc'[c] = "gone" /\ link'[c] # "open"
        /\ link'[c] = "none" <=> link[c] = "none"
    BY <1>9 DEF Leave, TypeClients
  <2>2. Len(toClient'[c]) = 0
    BY <2>1, EmptySeq
  <2>3. g + 0 <= sent[c]
    <3>. HIDE DEF g, t, v
    <3>. QED  BY <1>2, <1>4
  <2>4. Follows(c, got'[c], 0) /\ Follows(c, toClient'[c], Len(got'[c]))
    BY <1>3, <2>1, <2>2 DEF InOrderOf, Follows
  <2>5. Len(got'[c]) + Len(toClient'[c]) <= sent'[c]
    <3>1. Len(got'[c]) = g /\ sent'[c] = sent[c]
      BY <2>1
    <3>. QED  BY <2>2, <2>3, <3>1
  <2>6. (cpc'[c] = "none" <=> link'[c] = "none") /\ cpc'[c] # "none"
    BY <1>3, <2>1 DEF InOrderOf
  <2>7. InOrderOf(c)'
    BY <2>1, <2>4, <2>5, <2>6 DEF InOrderOf
  <2>. QED  BY <1>5, <2>7 DEF InOrder
<1>. QED  BY <1>6, <1>7, <1>8, <1>9

\* So does a server's echo.
LEMMA InOrderEchoes ==
  ASSUME TypeClients, InOrder, NEW c \in Clients, Echoes(c), UNCHANGED <<backlog, clientVars>>
  PROVE  InOrder'
<1>. USE DEF clientVars
<1>1. PICK n \in 1 .. Len(toServer[c]) : Answer(c, n) /\ TakeFrom(c, n)
  BY DEF Echoes
<1>2. got[c] \in Seq(Pieces) /\ toClient[c] \in Seq(Pieces) /\ toServer[c] \in Seq(Pieces)
  BY DEF TypeClients
<1>. DEFINE g == Len(got[c])
            t == Len(toClient[c])
            v == Len(toServer[c])
<1>3. g \in Nat /\ t \in Nat /\ v \in Nat /\ n \in 1 .. v
  BY <1>2, LenProperties
<1>4. InOrderOf(c)
  BY DEF InOrder
<1>5. /\ got'[c] = got[c] /\ sent'[c] = sent[c] /\ cpc'[c] = cpc[c]
      /\ toServer'[c] = SubSeq(toServer[c], n + 1, Len(toServer[c]))
  BY <1>1 DEF TakeFrom, TypeClients
<1>6. cpc[c] # "none" /\ link[c] # "none"
  <2>1. toServer[c] # <<>>
    BY <1>2, <1>3, EmptySeq
  <2>. QED  BY <1>4, <2>1 DEF InOrderOf
<1>7. ASSUME NEW d \in Clients, d # c  PROVE InOrderOf(d)'
  <2>1. /\ got'[d] = got[d] /\ toClient'[d] = toClient[d] /\ toServer'[d] = toServer[d]
        /\ sent'[d] = sent[d] /\ cpc'[d] = cpc[d] /\ link'[d] = link[d]
    BY <1>1, <1>7 DEF TypeClients, Answer, TakeFrom
  <2>. QED  BY <2>1, InOrderSame DEF InOrder
<1>8. CASE link[c] = "open"
  <2>1. link'[c] = "open" /\ toClient'[c] = toClient[c] \o SubSeq(toServer[c], 1, n)
    BY <1>1, <1>8 DEF Answer, TypeClients
  <2>2. SubSeq(toServer[c], 1, n) \in Seq(Pieces) /\ Len(SubSeq(toServer[c], 1, n)) = n
    BY <1>2, Taken
  <2>3. Follows(c, got[c], 0) /\ Follows(c, toClient[c], g) /\ Follows(c, toServer[c], g + t)
    BY <1>4, <1>8 DEF InOrderOf
  <2>4. g + t + v = sent[c]
    BY <1>4, <1>8 DEF InOrderOf
  <2>5. g + t \in Nat
    <3>. HIDE DEF g, t, v
    <3>. QED  BY <1>3
  <2>6. /\ Follows(c, SubSeq(toServer[c], 1, n), g + t)
        /\ Follows(c, toServer'[c], g + t + n)
    <3>. HIDE DEF g, t
    <3>. QED  BY <1>2, <1>5, <2>3, <2>5, FollowsCut
  <2>7. Len(toClient'[c]) = t + n /\ Len(toServer'[c]) = v - n
    BY <1>2, <1>5, <2>1, <2>2, Left, ConcatProperties
  <2>8. Follows(c, toClient'[c], g)
    <3>1. Len(toClient[c]) = t
      OBVIOUS
    <3>. HIDE DEF g, t
    <3>. QED  BY <1>2, <1>3, <2>1, <2>2, <2>3, <2>6, <3>1, FollowsConcat
  <2>9. Len(got'[c]) = g /\ g + (t + n) = g + t + n /\ g + t + n <= sent[c]
        /\ g + t + n + (v - n) = sent[c]
    <3>1. Len(got'[c]) = g
      BY <1>5
    <3>. HIDE DEF g, t, v
    <3>. QED  BY <1>3, <2>4, <3>1
  <2>10. Len(got'[c]) + Len(toClient'[c]) = g + t + n
    <3>. HIDE DEF g, t, v
    <3>. QED  BY <2>7, <2>9
  <2>11. InOrderOf(c)'
    <3>1. Follows(c, got'[c], 0) /\ Follows(c, toClient'[c], Len(got'[c]))
      BY <1>5, <2>3, <2>8
    <3>2. Len(got'[c]) + Len(toClient'[c]) <= sent'[c]
      <4>. HIDE DEF g, t, v
      <4>. QED  BY <1>5, <2>9, <2>10
    <3>3. /\ Follows(c, toServer'[c], Len(got'[c]) + Len(toClient'[c]))
          /\ Len(got'[c]) + Len(toClient'[c]) + Len(toServer'[c]) = sent'[c]
      <4>. HIDE DEF g, t, v
      <4>. QED  BY <1>5, <2>6, <2>7, <2>9, <2>10
    <3>. QED  BY <1>5, <1>6, <2>1, <3>1, <3>2, <3>3 DEF InOrderOf
  <2>. QED  BY <1>7, <2>11 DEF InOrder
<1>9. CASE link[c] # "open"
  <2>1. toClient'[c] = toClient[c] /\ link'[c] # "open" /\ link'[c] # "none"
    BY <1>1, <1>6, <1>9 DEF Answer, TypeClients
  <2>2. InOrderOf(c)'
    BY <1>4, <1>5, <1>6, <2>1 DEF InOrderOf, Follows
  <2>. QED  BY <1>7, <2>2 DEF InOrder
<1>. QED  BY <1>8, <1>9

-----------------------------------------------------------------------------
(* The promise of Echo.                                                    *)

\* What each client has read, as Echo sees it.
Answered ==
  [c \in Clients |-> [k \in 1 .. Len(got[c]) |->
     IF got[c][k][1] = c THEN got[c][k][2] ELSE 0]]

\* Lists that are in order are the first pieces of their clients.
LEMMA AnsweredIs ==
  ASSUME NEW g \in [Clients -> Seq(Pieces)], \A c \in Clients : Follows(c, g[c], 0)
  PROVE  [c \in Clients |-> [k \in 1 .. Len(g[c]) |->
            IF g[c][k][1] = c THEN g[c][k][2] ELSE 0]]
           = [c \in Clients |-> [k \in 1 .. Len(g[c]) |-> k]]
<1>1. ASSUME NEW c \in Clients, NEW k \in 1 .. Len(g[c])
      PROVE  (IF g[c][k][1] = c THEN g[c][k][2] ELSE 0) = k
  <2>1. g[c][k] = <<c, 0 + k>>
    BY DEF Follows
  <2>2. 0 + k = k
    <3>1. Len(g[c]) \in Nat
      BY LenProperties
    <3>. QED  BY <3>1
  <2>. QED  BY <2>1, <2>2
<1>. QED  BY <1>1

\* A list of numbers has its length.
LEMMA PiecesLength ==
  ASSUME NEW n \in Nat
  PROVE  Len([k \in 1 .. n |-> k]) = n
BY IsASeq

\* A step that reads and writes nothing for a client is not seen.
LEMMA EchoUnseen ==
  ASSUME UNCHANGED <<sent, got>>
  PROVE  UNCHANGED <<sent, Answered>>
BY DEF Answered

\* At first nothing was read.
LEMMA EchoInit ==
  ASSUME InitClients
  PROVE  Promise!Init
<1>1. ASSUME NEW c \in Clients  PROVE 1 .. Len(got[c]) = {}
  <2>1. got[c] = <<>>
    BY DEF InitClients
  <2>2. Len(got[c]) = 0
    BY <2>1, EmptySeq
  <2>. QED  BY <2>2
<1>2. \A c \in Clients : Answered[c] = <<>>
  <2>1. SUFFICES ASSUME NEW c \in Clients  PROVE Answered[c] = <<>>
    OBVIOUS
  <2>2. Answered[c] = [k \in {} |-> 0]
    BY <1>1 DEF Answered
  <2>. QED  BY <2>2
<1>3. Answered = [c \in Clients |-> <<>>]
  BY <1>2 DEF Answered
<1>. QED  BY <1>3 DEF Promise!Init, Answered, InitClients

\* A client's step is a step of Echo, or is not seen.
LEMMA EchoClientStep ==
  ASSUME TypeClients, InOrder, TypeClients', InOrder', NEW c \in Clients,
         Connect(c) \/ Send(c) \/ Receive(c) \/ Leave(c)
  PROVE  Promise!Next \/ UNCHANGED <<sent, Answered>>
<1>1. CASE Connect(c) \/ Leave(c)
  BY <1>1, EchoUnseen DEF Connect, Leave
<1>2. CASE Send(c)
  <2>1. PICK n \in 1 .. 2 : sent' = [sent EXCEPT ![c] = @ + n]
    BY <1>2 DEF Send
  <2>2. Answered' = Answered
    BY <1>2 DEF Send, Answered
  <2>3. Promise!Send(c)
    BY <2>1, <2>2 DEF Promise!Send, Answered
  <2>. QED  BY <2>3 DEF Promise!Next
<1>3. CASE Receive(c)
  <2>1. PICK n \in 1 .. Len(toClient[c]) :
          got' = [got EXCEPT ![c] = @ \o SubSeq(toClient[c], 1, n)]
    BY <1>3 DEF Receive
  <2>. DEFINE m == Len(got'[c])
  <2>2. got[c] \in Seq(Pieces) /\ toClient[c] \in Seq(Pieces) /\ sent[c] \in Nat
    BY DEF TypeClients
  <2>3. m = Len(got[c]) + n
    BY <2>1, <2>2, Taken, ConcatProperties DEF TypeClients
  <2>4. m <= sent[c]
    <3>. DEFINE t == Len(toClient'[c])
    <3>1. m + t <= sent'[c] /\ sent' = sent
      BY <1>3 DEF InOrder, InOrderOf, Receive
    <3>2. m \in Nat /\ t \in Nat
      BY LenProperties DEF TypeClients
    <3>. HIDE DEF m, t
    <3>. QED  BY <2>2, <3>1, <3>2
  <2>5. Len(got[c]) \in Nat /\ Len(toClient[c]) \in Nat /\ m \in Nat
    BY <2>2, LenProperties DEF TypeClients
  <2>6. /\ Answered = [d \in Clients |-> [k \in 1 .. Len(got[d]) |-> k]]
        /\ Answered' = [d \in Clients |-> [k \in 1 .. Len(got'[d]) |-> k]]
    <3>1. \A d \in Clients : Follows(d, got[d], 0) /\ Follows(d, got'[d], 0)
      BY DEF InOrder, InOrderOf
    <3>2. got \in [Clients -> Seq(Pieces)] /\ got' \in [Clients -> Seq(Pieces)]
      BY DEF TypeClients
    <3>. QED  BY <3>1, <3>2, AnsweredIs DEF Answered
  <2>7. Len(Answered[c]) = Len(got[c])
    BY <2>5, <2>6, PiecesLength
  <2>8. m \in Len(Answered[c]) + 1 .. sent[c]
    <3>. DEFINE g == Len(got[c])
    <3>1. Len(Answered[c]) = g /\ m = g + n /\ n >= 1 /\ g \in Nat
      BY <2>3, <2>5, <2>7
    <3>. HIDE DEF m, g
    <3>. QED  BY <2>2, <2>4, <2>5, <3>1
  <2>9. Answered' = [Answered EXCEPT ![c] = Promise!Pieces(m)]
    BY <2>1, <2>6 DEF Promise!Pieces, TypeClients
  <2>10. Promise!Receive(c)
    <3>. HIDE DEF m
    <3>. QED  BY <1>3, <2>8, <2>9 DEF Promise!Receive, Answered, Receive
  <2>. QED  BY <2>10 DEF Promise!Next
<1>. QED  BY <1>1, <1>2, <1>3
=============================================================================
