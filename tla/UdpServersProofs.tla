------------------------- MODULE UdpServersProofs -------------------------
(***************************************************************************)
(* Proofs about UdpServers, for any number of clients, lines, runs and     *)
(* forked processes and any sizes of the buffers and queues: a client is   *)
(* answered with lines of its own, whoever is killed, restarted or left    *)
(* over; and unless a relay has lost its parent a datagram is in one place *)
(* at a time and passes none that was sent before it.                      *)
(***************************************************************************)
EXTENDS UdpServers, SequenceTheorems, TLAPS

-----------------------------------------------------------------------------
(* Sequences and what is in them.                                          *)

\* The set of a sequence's elements.
LEMMA Elements ==
  ASSUME NEW S, NEW s \in Seq(S)
  PROVE  /\ \A k \in 1 .. Len(s) : s[k] \in ToSet(s)
         /\ \A x \in ToSet(s) : \E k \in 1 .. Len(s) : s[k] = x
         /\ ToSet(s) \subseteq S /\ Len(s) \in Nat
<1>1. DOMAIN s = 1 .. Len(s) /\ Len(s) \in Nat
  BY LenProperties
<1>2. \A k \in 1 .. Len(s) : s[k] \in S
  BY ElementOfSeq
<1>. QED  BY <1>1, <1>2 DEF ToSet

\* None, and one.
LEMMA NoElements == ToSet(<<>>) = {}
<1>1. <<>> \in Seq({})
  BY EmptySeq
<1>2. Len(<<>>) = 0
  BY EmptySeq
<1>3. 1 .. Len(<<>>) = {}
  BY <1>2
<1>4. \A x \in ToSet(<<>>) : \E k \in 1 .. Len(<<>>) : <<>>[k] = x
  BY <1>1, Elements
<1>. QED  BY <1>3, <1>4

LEMMA OneElement ==
  ASSUME NEW S, NEW x \in S
  PROVE  <<x>> \in Seq(S) /\ Len(<<x>>) = 1 /\ ToSet(<<x>>) = {x}
<1>1. Len(<<x>>) = 1 /\ <<x>>[1] = x /\ DOMAIN <<x>> = {1}
  OBVIOUS
<1>2. <<x>> \in Seq(S)
  OBVIOUS
<1>. QED  BY <1>1, <1>2 DEF ToSet

\* Something is put behind the others.
LEMMA Behind ==
  ASSUME NEW S, NEW s \in Seq(S), NEW x \in S
  PROVE  /\ Append(s, x) \in Seq(S) /\ Len(Append(s, x)) = Len(s) + 1
         /\ \A k \in 1 .. Len(s) : Append(s, x)[k] = s[k]
         /\ Append(s, x)[Len(s) + 1] = x
         /\ ToSet(Append(s, x)) = ToSet(s) \union {x}
<1>. DEFINE t == Append(s, x)
<1>1. /\ t \in Seq(S) /\ Len(t) = Len(s) + 1 /\ Len(s) \in Nat
      /\ \A k \in 1 .. Len(s) : t[k] = s[k]
      /\ t[Len(s) + 1] = x
  BY AppendProperties, LenProperties
<1>2. DOMAIN s = 1 .. Len(s) /\ DOMAIN t = 1 .. Len(t)
  BY <1>1, LenProperties
<1>. HIDE DEF t
<1>3. 1 .. Len(t) = (1 .. Len(s)) \union {Len(s) + 1}
  BY <1>1
<1>4. ToSet(t) = {t[k] : k \in 1 .. Len(s)} \union {t[Len(s) + 1]}
  BY <1>2, <1>3 DEF ToSet
<1>5. {t[k] : k \in 1 .. Len(s)} = ToSet(s)
  BY <1>1, <1>2 DEF ToSet
<1>6. ToSet(t) = ToSet(s) \union {x}
  BY <1>1, <1>4, <1>5
<1>. QED  BY <1>1, <1>6 DEF t

\* The first is taken.
LEMMA WithoutFirst ==
  ASSUME NEW S, NEW s \in Seq(S), s # <<>>
  PROVE  /\ Tail(s) \in Seq(S) /\ Len(Tail(s)) = Len(s) - 1 /\ Len(s) \in Nat \ {0}
         /\ \A k \in 1 .. Len(Tail(s)) : Tail(s)[k] = s[k + 1]
         /\ Head(s) = s[1] /\ Head(s) \in ToSet(s) /\ Head(s) \in S
         /\ ToSet(Tail(s)) \subseteq ToSet(s)
<1>. DEFINE t == Tail(s)
<1>1. /\ t \in Seq(S) /\ Len(t) = Len(s) - 1 /\ Len(s) \in Nat \ {0}
      /\ \A k \in 1 .. Len(t) : t[k] = s[k + 1]
      /\ Head(s) = s[1] /\ Head(s) \in S
  BY HeadTailProperties, EmptySeq
<1>. HIDE DEF t
<1>2. Head(s) \in ToSet(s)
  BY <1>1, Elements
<1>3. \A k \in 1 .. Len(t) : k + 1 \in 1 .. Len(s)
  BY <1>1
<1>4. \A k \in 1 .. Len(t) : t[k] \in ToSet(s)
  BY <1>1, <1>3, Elements
<1>5. ToSet(t) \subseteq ToSet(s)
  BY <1>1, <1>4, Elements
<1>. QED  BY <1>1, <1>2, <1>5 DEF t

\* Two, one behind the other.
LEMMA Joined ==
  ASSUME NEW S, NEW s \in Seq(S), NEW t \in Seq(S)
  PROVE  /\ s \o t \in Seq(S) /\ Len(s \o t) = Len(s) + Len(t)
         /\ Len(s) \in Nat /\ Len(t) \in Nat
         /\ \A k \in 1 .. Len(s) : (s \o t)[k] = s[k]
         /\ ToSet(s) \subseteq ToSet(s \o t)
<1>. DEFINE c == s \o t
<1>1. /\ c \in Seq(S) /\ Len(c) = Len(s) + Len(t)
      /\ Len(s) \in Nat /\ Len(t) \in Nat
      /\ \A k \in 1 .. Len(s) + Len(t) : c[k] = IF k <= Len(s) THEN s[k] ELSE t[k - Len(s)]
  BY ConcatProperties, LenProperties
<1>. HIDE DEF c
<1>2. \A k \in 1 .. Len(s) : c[k] = s[k] /\ k \in 1 .. Len(c)
  BY <1>1
<1>3. \A k \in 1 .. Len(s) : s[k] \in ToSet(c)
  BY <1>1, <1>2, Elements
<1>4. ToSet(s) \subseteq ToSet(c)
  BY <1>3, Elements
<1>. QED  BY <1>1, <1>2, <1>4 DEF c

\* Three in a row.
Texts == Seq(Datagrams)

LEMMA Grouped ==
  ASSUME NEW a \in Texts, NEW b \in Texts, NEW c \in Texts
  PROVE  (a \o b) \o c = a \o (b \o c)
<1>. QED  BY ConcatAssociative DEF Texts

\* What comes behind the second comes behind both; and the first of the second
\* may as well be the last of the first.
LEMMA JoinedBehind ==
  ASSUME NEW s \in Texts, NEW t \in Texts, NEW x \in Datagrams
  PROVE  s \o Append(t, x) = Append(s \o t, x)
<1>1. Append(t, x) = t \o <<x>> /\ s \o t \in Texts /\ <<x>> \in Texts
  BY AppendIsConcat, ConcatProperties, OneElement DEF Texts
<1>2. Append(s \o t, x) = (s \o t) \o <<x>>
  BY <1>1, AppendIsConcat DEF Texts
<1>3. (s \o t) \o <<x>> = s \o (t \o <<x>>)
  BY <1>1, Grouped
<1>. QED  BY <1>1, <1>2, <1>3

LEMMA JoinedMoved ==
  ASSUME NEW s \in Texts, NEW t \in Texts, t # <<>>
  PROVE  Append(s, Head(t)) \o Tail(t) = s \o t
<1>. DEFINE x == Head(t)
            r == Tail(t)
<1>1. x \in Datagrams /\ r \in Texts /\ <<x>> \in Texts
  BY HeadTailProperties, OneElement DEF Texts
<1>2. t = <<x>> \o r
  <2>1. 1 \in 1 .. Len(t) /\ Len(t) \in 1 .. Len(t) /\ 1 + 1 = 2
    BY EmptySeq DEF Texts
  <2>2. SubSeq(t, 1, Len(t)) = <<t[1]>> \o SubSeq(t, 2, Len(t))
    BY <2>1, SubSeqRecursiveFirst DEF Texts
  <2>3. SubSeq(t, 1, Len(t)) = t /\ r = SubSeq(t, 2, Len(t)) /\ x = t[1]
    BY SubSeqFull, TailIsSubSeq DEF Texts
  <2>. HIDE DEF x, r
  <2>. QED  BY <2>2, <2>3
<1>. HIDE DEF x, r
<1>3. Append(s, x) = s \o <<x>>
  BY <1>1, AppendIsConcat DEF Texts
<1>4. (s \o <<x>>) \o r = s \o (<<x>> \o r)
  BY <1>1, Grouped
<1>. QED  BY <1>2, <1>3, <1>4 DEF x, r

-----------------------------------------------------------------------------
(* Turns.                                                                  *)

\* Less is still in turn.
LEMMA AheadLess ==
  ASSUME NEW S, NEW T, NEW A, NEW B, Ahead(S, T), A \subseteq S, B \subseteq T
  PROVE  Ahead(A, B)
BY DEF Ahead

\* What the others precede may be put behind them.
LEMMA InTurnBehind ==
  ASSUME NEW S, NEW s \in Seq(S), NEW x \in S, InTurn(s), Ahead(ToSet(s), {x})
  PROVE  InTurn(Append(s, x))
<1>. DEFINE t == Append(s, x)
<1>1. /\ Len(t) = Len(s) + 1 /\ Len(s) \in Nat /\ t[Len(s) + 1] = x
      /\ \A k \in 1 .. Len(s) : t[k] = s[k]
  BY Behind, Elements
<1>2. \A k \in 1 .. Len(s) : Precedes(s[k], x)
  BY Elements DEF Ahead
<1>. HIDE DEF t
<1>3. ASSUME NEW j \in 1 .. Len(t), NEW k \in 1 .. Len(t), j < k
      PROVE  Precedes(t[j], t[k])
  <2>1. j \in 1 .. Len(s)
    BY <1>1, <1>3
  <2>2. CASE k \in 1 .. Len(s)
    <3>1. Precedes(s[j], s[k])
      BY <1>3, <2>1, <2>2 DEF InTurn
    <3>2. t[j] = s[j] /\ t[k] = s[k]
      BY <1>1, <2>1, <2>2
    <3>. QED  BY <3>1, <3>2
  <2>3. CASE k = Len(s) + 1
    <3>1. t[j] = s[j] /\ t[k] = x
      BY <1>1, <2>1, <2>3
    <3>. QED  BY <1>2, <2>1, <3>1
  <2>. QED  BY <1>1, <2>2, <2>3
<1>4. InTurn(t)
  BY <1>3 DEF InTurn
<1>. QED  BY <1>4 DEF t

\* The first precedes the others, which remain in turn.
LEMMA InTurnTail ==
  ASSUME NEW S, NEW s \in Seq(S), s # <<>>, InTurn(s)
  PROVE  InTurn(Tail(s)) /\ Ahead({Head(s)}, ToSet(Tail(s)))
<1>. DEFINE t == Tail(s)
            x == Head(s)
<1>1. /\ t \in Seq(S) /\ Len(t) = Len(s) - 1 /\ Len(s) \in Nat \ {0}
      /\ \A k \in 1 .. Len(t) : t[k] = s[k + 1]
      /\ x = s[1]
  BY WithoutFirst
<1>. HIDE DEF t, x
<1>2. ASSUME NEW j \in 1 .. Len(t), NEW k \in 1 .. Len(t), j < k
      PROVE  Precedes(t[j], t[k])
  <2>1. j + 1 \in 1 .. Len(s) /\ k + 1 \in 1 .. Len(s) /\ j + 1 < k + 1
    BY <1>1, <1>2
  <2>2. Precedes(s[j + 1], s[k + 1])
    BY <2>1 DEF InTurn
  <2>. QED  BY <1>1, <2>2
<1>3. \A k \in 1 .. Len(t) : Precedes(x, t[k])
  <2>. TAKE k \in 1 .. Len(t)
  <2>1. 1 \in 1 .. Len(s) /\ k + 1 \in 1 .. Len(s) /\ 1 < k + 1
    BY <1>1
  <2>2. Precedes(s[1], s[k + 1])
    BY <2>1 DEF InTurn
  <2>. QED  BY <1>1, <2>2
<1>4. Ahead({x}, ToSet(t))
  BY <1>1, <1>3, Elements DEF Ahead
<1>5. InTurn(t)
  BY <1>2 DEF InTurn
<1>. QED  BY <1>4, <1>5 DEF t, x

\* The first part of what is in turn is in turn, and so is nothing at all.
LEMMA InTurnPart ==
  ASSUME NEW S, NEW s \in Seq(S), NEW t \in Seq(S), InTurn(s \o t)
  PROVE  InTurn(s)
<1>. DEFINE c == s \o t
<1>1. /\ Len(c) = Len(s) + Len(t) /\ Len(s) \in Nat /\ Len(t) \in Nat
      /\ \A k \in 1 .. Len(s) : c[k] = s[k]
  BY Joined
<1>2. InTurn(c)
  OBVIOUS
<1>. HIDE DEF c
<1>3. ASSUME NEW j \in 1 .. Len(s), NEW k \in 1 .. Len(s), j < k
      PROVE  Precedes(s[j], s[k])
  <2>1. j \in 1 .. Len(c) /\ k \in 1 .. Len(c)
    BY <1>1
  <2>2. Precedes(c[j], c[k])
    BY <1>2, <1>3, <2>1 DEF InTurn
  <2>. QED  BY <1>1, <2>2
<1>. QED  BY <1>3 DEF InTurn

LEMMA InTurnNothing == InTurn(<<>>)
<1>1. Len(<<>>) = 0
  BY EmptySeq
<1>. QED  BY <1>1 DEF InTurn

\* Five places, each ahead of the next ones, are so when something has come to
\* the m-th that all in the places ahead of it precede and that precedes all
\* that is left behind it, and when something is lost.
LEMMA PlacesMoved ==
  ASSUME NEW s, NEW t, NEW m \in 1 .. 5, NEW X,
         \A j, k \in 1 .. 5 : j < k => Ahead(s[j], s[k]),
         \A k \in 1 .. 5 : k # m => t[k] \subseteq s[k],
         t[m] \subseteq s[m] \union X,
         \A j \in 1 .. 5 : j < m => Ahead(t[j], X),
         \A k \in 1 .. 5 : m < k => Ahead(X, t[k])
  PROVE  \A j, k \in 1 .. 5 : j < k => Ahead(t[j], t[k])
<1>. SUFFICES ASSUME NEW j \in 1 .. 5, NEW k \in 1 .. 5, j < k
              PROVE  Ahead(t[j], t[k])
  OBVIOUS
<1>1. Ahead(s[j], s[k])
  OBVIOUS
<1>2. CASE j = m
  <2>1. t[k] \subseteq s[k] /\ Ahead(X, t[k]) /\ t[j] \subseteq s[j] \union X
    BY <1>2
  <2>. QED  BY <1>1, <2>1 DEF Ahead
<1>3. CASE k = m
  <2>1. t[j] \subseteq s[j] /\ Ahead(t[j], X) /\ t[k] \subseteq s[k] \union X
    BY <1>3
  <2>. QED  BY <1>1, <2>1 DEF Ahead
<1>4. CASE j # m /\ k # m
  <2>1. t[j] \subseteq s[j] /\ t[k] \subseteq s[k]
    BY <1>4
  <2>. QED  BY <1>1, <2>1 DEF Ahead
<1>. QED  BY <1>2, <1>3, <1>4

-----------------------------------------------------------------------------
(* Types.                                                                  *)

\* What is known of clients, buffers, queues and processes at any moment.
Sound ==
  /\ \A c \in Clients : ClientSound(c) /\ LateAtMost(c)
  /\ AllGenuine(toServer)
  /\ \A r \in Runs :
       /\ AllGenuine(hold[r]) /\ AllGenuine(queue[r])
       /\ Len(hold[r]) = IF ppc[r] = "pass" THEN 1 ELSE 0
  /\ \A w \in Workers : AllGenuine(pmsg[w]) /\ Len(pmsg[w]) <= 1

\* Who will pass a datagram on has one.
Ready == \A w \in Workers : wpc[w] = "pass" => pmsg[w] # <<>>

LEMMA IInvIs == IInv <=> TypeOK /\ Sound /\ Ready /\ Staff /\ (~ Orphaned => OneWay)
<1>1. IInv => TypeOK /\ Staff /\ (~ Orphaned => OneWay)
  BY DEF IInv
<1>2. IInv => Sound
  BY DEF IInv, Sound
<1>3. IInv => Ready
  BY DEF IInv, Ready
<1>4. Sound /\ Ready =>
        \A w \in Workers : /\ AllGenuine(pmsg[w]) /\ Len(pmsg[w]) <= 1
                           /\ wpc[w] = "pass" => pmsg[w] # <<>>
  BY DEF Sound, Ready
<1>5. TypeOK /\ Sound /\ Ready /\ Staff /\ (~ Orphaned => OneWay) => IInv
  BY <1>4 DEF IInv, Sound
<1>. QED  BY <1>1, <1>2, <1>3, <1>5

\* All that is in a sequence was sent if each of its elements was.
LEMMA GenuineSet ==
  ASSUME NEW S, NEW s \in Seq(S)
  PROVE  AllGenuine(s) <=> \A m \in ToSet(s) : Genuine(m)
<1>1. ASSUME AllGenuine(s), NEW m \in ToSet(s)  PROVE Genuine(m)
  BY <1>1, Elements DEF AllGenuine
<1>2. ASSUME \A m \in ToSet(s) : Genuine(m)  PROVE AllGenuine(s)
  BY <1>2, Elements DEF AllGenuine
<1>. QED  BY <1>1, <1>2

\* A sequence of one has that one.
LEMMA OnlyOne ==
  ASSUME NEW s \in Texts, Len(s) = 1, AllGenuine(s)
  PROVE  s[1] \in Datagrams /\ Genuine(s[1]) /\ ToSet(s) = {s[1]}
<1>1. s \in Seq(Datagrams) /\ 1 .. Len(s) = {1}
  BY DEF Texts
<1>2. s[1] \in ToSet(s) /\ \A x \in ToSet(s) : x = s[1]
  BY <1>1, Elements
<1>3. ToSet(s) = {s[1]}
  BY <1>2
<1>4. s[1] \in Datagrams /\ Genuine(s[1])
  BY <1>1, ElementOfSeq DEF AllGenuine
<1>. QED  BY <1>3, <1>4

\* What a parent has to pass on, and what a worker has to send.
LEMMA HeldOne ==
  ASSUME TypeOK, Sound, NEW r \in Runs, ppc[r] = "pass"
  PROVE  /\ hold[r][1] \in Datagrams /\ Genuine(hold[r][1])
         /\ ToSet(hold[r]) = {hold[r][1]}
<1>1. hold[r] \in Texts /\ Len(hold[r]) = 1 /\ AllGenuine(hold[r])
  BY DEF TypeOK, Sound, Texts
<1>. QED  BY <1>1, OnlyOne

LEMMA HeldNone ==
  ASSUME TypeOK, Sound, NEW r \in Runs, ppc[r] # "pass"
  PROVE  ToSet(hold[r]) = {}
<1>1. hold[r] \in Seq(Datagrams) /\ Len(hold[r]) = 0
  BY DEF TypeOK, Sound
<1>2. \A x \in ToSet(hold[r]) : \E k \in 1 .. 0 : hold[r][k] = x
  BY <1>1, Elements
<1>. QED  BY <1>2

LEMMA CarriedOne ==
  ASSUME TypeOK, Sound, NEW w \in Workers, pmsg[w] # <<>>
  PROVE  /\ pmsg[w][1] \in Datagrams /\ Genuine(pmsg[w][1])
         /\ ToSet(pmsg[w]) = {pmsg[w][1]}
<1>1. pmsg[w] \in Texts /\ Len(pmsg[w]) <= 1 /\ AllGenuine(pmsg[w])
  BY DEF TypeOK, Sound, Texts
<1>. DEFINE n == Len(pmsg[w])
<1>2. n \in Nat \ {0} /\ n <= 1
  BY <1>1, EmptySeq DEF Texts
<1>. HIDE DEF n
<1>3. n = 1
  BY <1>2
<1>. USE DEF n
<1>. QED  BY <1>1, <1>3, OnlyOne

\* A datagram arrives at a buffer, or is lost.
LEMMA Offered ==
  ASSUME NEW b \in Seq(Datagrams), NEW m \in Datagrams
  PROVE  /\ Offer(b, m) = b \/ Offer(b, m) = Append(b, m)
         /\ Offer(b, m) \in Seq(Datagrams)
         /\ ToSet(Offer(b, m)) \subseteq ToSet(b) \union {m}
<1>1. Offer(b, m) = b \/ Offer(b, m) = Append(b, m)
  BY DEF Offer
<1>2. Append(b, m) \in Seq(Datagrams) /\ ToSet(Append(b, m)) = ToSet(b) \union {m}
  BY Behind
<1>. QED  BY <1>1, <1>2

\* An answer comes to the client it is for, or is lost.
LEMMA Delivered ==
  ASSUME TypeOK, NEW m \in Datagrams, NEW p, Deliver(m, p)
  PROVE  /\ m[1] \in Clients /\ toClient' \in [Clients -> Seq(Datagrams)]
         /\ \A c \in Clients : \/ toClient'[c] = toClient[c]
                               \/ c = m[1] /\ toClient'[c] = Append(toClient[c], m)
<1>1. m[1] \in Clients
  BY DEF Datagrams
<1>2. toClient \in [Clients -> Seq(Datagrams)]
  BY DEF TypeOK, TypeClients
<1>3. PICK b : /\ b = toClient[m[1]] \/ b = Offer(toClient[m[1]], m)
               /\ toClient' = [toClient EXCEPT ![m[1]] = b]
  BY DEF Deliver
<1>4. b \in Seq(Datagrams) /\ (b = toClient[m[1]] \/ b = Append(toClient[m[1]], m))
  <2>. DEFINE t == toClient[m[1]]
  <2>1. t \in Seq(Datagrams)
    BY <1>1, <1>2
  <2>. HIDE DEF t
  <2>2. Offer(t, m) \in Seq(Datagrams) /\ (Offer(t, m) = t \/ Offer(t, m) = Append(t, m))
    BY <2>1, Offered
  <2>. QED  BY <1>3, <2>1, <2>2 DEF t
<1>. QED  BY <1>1, <1>2, <1>3, <1>4

\* A client's steps keep every type.
LEMMA TypeClient ==
  ASSUME TypeOK, NEW c \in Clients, ClientStep(c, Listening), UNCHANGED serverVars
  PROVE  TypeOK'
<1>1. /\ toServer \in Seq(Datagrams) /\ toClient \in [Clients -> Seq(Datagrams)]
      /\ cpc \in [Clients -> {"typing", "entering", "recv", "refused", "gone"}]
      /\ armed \in [Clients -> BOOLEAN] /\ sent \in [Clients -> Nat]
  BY DEF TypeOK, TypeClients
<1>2. got \in [Clients -> Seq(Datagrams)] /\ timeouts \in [Clients -> Nat]
  BY DEF TypeOK, TypeClients
<1>3. TypeClients'
  <2>1. CASE SendLine(c, Listening)
    <3>1. <<c, sent[c] + 1>> \in Datagrams
      BY <1>1 DEF Datagrams
    <3>2. toServer' \in Seq(Datagrams)
      BY <1>1, <2>1, <3>1, Offered DEF SendLine
    <3>3. sent' \in [Clients -> Nat]
      BY <1>1, <2>1 DEF SendLine
    <3>4. armed' \in [Clients -> BOOLEAN]
      BY <1>1, <2>1 DEF SendLine
    <3>5. cpc' \in [Clients -> {"typing", "entering", "recv", "refused", "gone"}]
      <4>1. PICK p \in {"typing", "entering", "recv", "refused", "gone"} :
              cpc' = [cpc EXCEPT ![c] = p]
        BY <2>1 DEF SendLine
      <4>. QED  BY <1>1, <4>1
    <3>. QED  BY <1>1, <1>2, <2>1, <3>2, <3>3, <3>4, <3>5 DEF SendLine, TypeClients
  <2>2. CASE AlarmEarly(c) \/ Enter(c) \/ Timeout(c)
    <3>1. /\ armed' \in [Clients -> BOOLEAN]
          /\ cpc' \in [Clients -> {"typing", "entering", "recv", "refused", "gone"}]
      BY <1>1, <2>2 DEF AlarmEarly, Enter, Timeout
    <3>2. timeouts' \in [Clients -> Nat]
      <4>1. timeouts' = timeouts \/ timeouts' = [timeouts EXCEPT ![c] = @ + 1]
        BY <2>2 DEF AlarmEarly, Enter, Timeout
      <4>. QED  BY <1>2, <4>1
    <3>. QED  BY <1>1, <1>2, <2>2, <3>1, <3>2 DEF AlarmEarly, Enter, Timeout, TypeClients
  <2>3. CASE Receive(c)
    <3>1. toClient[c] \in Seq(Datagrams) /\ toClient[c] # <<>> /\ got[c] \in Seq(Datagrams)
      BY <1>1, <1>2, <2>3 DEF Receive
    <3>2. Head(toClient[c]) \in Datagrams /\ Tail(toClient[c]) \in Seq(Datagrams)
      BY <3>1, HeadTailProperties
    <3>3. Append(got[c], Head(toClient[c])) \in Seq(Datagrams)
      BY <3>1, <3>2, AppendProperties
    <3>4. got' \in [Clients -> Seq(Datagrams)]
      <4>1. got' = [got EXCEPT ![c] = Append(@, Head(toClient[c]))]
        BY <2>3 DEF Receive
      <4>. QED  BY <1>2, <3>3, <4>1
    <3>5. toClient' \in [Clients -> Seq(Datagrams)]
      <4>1. toClient' = [toClient EXCEPT ![c] = Tail(@)]
        BY <2>3 DEF Receive
      <4>. QED  BY <1>1, <3>2, <4>1
    <3>6. /\ armed' \in [Clients -> BOOLEAN]
          /\ cpc' \in [Clients -> {"typing", "entering", "recv", "refused", "gone"}]
      BY <1>1, <2>3 DEF Receive
    <3>. QED  BY <1>1, <1>2, <2>3, <3>4, <3>5, <3>6 DEF Receive, TypeClients
  <2>4. CASE Leave(c)
    <3>1. /\ armed' \in [Clients -> BOOLEAN]
          /\ cpc' \in [Clients -> {"typing", "entering", "recv", "refused", "gone"}]
      BY <1>1, <2>4 DEF Leave
    <3>2. toClient' \in [Clients -> Seq(Datagrams)]
      BY <1>1, <2>4, EmptySeq DEF Leave
    <3>. QED  BY <1>1, <1>2, <2>4, <3>1, <3>2 DEF Leave, TypeClients
  <2>. QED  BY <2>1, <2>2, <2>3, <2>4 DEF ClientStep
<1>. QED  BY <1>3 DEF TypeOK, serverVars

\* What of the queues and the socket is lost when a process has ended.
LEMMA ReleaseLoses ==
  ASSUME TypeOK, Release
  PROVE  /\ kind' = kind /\ toClient' = toClient /\ bound' \in {bound, 0}
         /\ toServer' \in {toServer, <<>>} /\ (bound' = 0 => toServer' = <<>>)
         /\ queue' \in [Runs -> Seq(Datagrams)]
         /\ \A q \in Runs : queue'[q] \in {queue[q], <<>>}
<1>1. queue \in [Runs -> Seq(Datagrams)]
  BY DEF TypeOK
<1>2. /\ \A q \in Runs : queue'[q] \in {queue[q], <<>>}
      /\ queue' = [q \in Runs |-> queue'[q]]
  BY DEF Release
<1>3. \A q \in Runs : queue'[q] \in Seq(Datagrams)
  BY <1>1, <1>2, EmptySeq
<1>4. queue' \in [Runs -> Seq(Datagrams)]
  BY <1>2, <1>3
<1>. QED  BY <1>2, <1>4 DEF Release

LEMMA TypeEnds ==
  ASSUME TypeOK, UNCHANGED clientVars,
         (\E r \in Runs : ParentEnds(r)) \/ (\E w \in Workers : WorkerEnds(w))
  PROVE  TypeOK'
<1>1. Release
  BY DEF ParentEnds, WorkerEnds
<1>2. /\ ppc \in [Runs -> {"none", "recv", "pass", "dead"}]
      /\ hold \in [Runs -> Seq(Datagrams)] /\ <<>> \in Seq(Datagrams)
  BY EmptySeq DEF TypeOK
<1>3. /\ wpc \in [Workers -> {"none", "read", "send", "recv", "pass", "dead"}]
      /\ pmsg \in [Workers -> Seq(Datagrams)]
  BY DEF TypeOK
<1>4. /\ TypeClients' /\ kind' \in Kinds /\ bound' \in Runs \union {0}
      /\ queue' \in [Runs -> Seq(Datagrams)]
  <2>1. /\ kind' = kind /\ toClient' = toClient /\ bound' \in {bound, 0}
        /\ toServer' \in {toServer, <<>>} /\ queue' \in [Runs -> Seq(Datagrams)]
    BY <1>1, ReleaseLoses
  <2>2. toServer' \in Seq(Datagrams)
    BY <1>2, <2>1 DEF TypeOK, TypeClients
  <2>3. TypeClients'
    BY <2>1, <2>2 DEF TypeOK, TypeClients, clientVars
  <2>. QED  BY <2>1, <2>3 DEF TypeOK
<1>5. CASE \E r \in Runs : ParentEnds(r)
  <2>1. PICK r \in Runs : /\ ppc' = [ppc EXCEPT ![r] = "dead"]
                          /\ hold' = [hold EXCEPT ![r] = <<>>] /\ UNCHANGED <<wpc, pmsg>>
    BY <1>5 DEF ParentEnds
  <2>2. /\ ppc' \in [Runs -> {"none", "recv", "pass", "dead"}]
        /\ hold' \in [Runs -> Seq(Datagrams)]
    BY <1>2, <2>1
  <2>. QED  BY <1>3, <1>4, <2>1, <2>2 DEF TypeOK
<1>6. CASE \E w \in Workers : WorkerEnds(w)
  <2>1. PICK w \in Workers : /\ wpc' = [wpc EXCEPT ![w] = "dead"]
                             /\ pmsg' = [pmsg EXCEPT ![w] = <<>>] /\ UNCHANGED <<ppc, hold>>
    BY <1>6 DEF WorkerEnds
  <2>2. /\ wpc' \in [Workers -> {"none", "read", "send", "recv", "pass", "dead"}]
        /\ pmsg' \in [Workers -> Seq(Datagrams)]
    BY <1>2, <1>3, <2>1
  <2>. QED  BY <1>2, <1>4, <2>1, <2>2 DEF TypeOK
<1>. QED  BY <1>5, <1>6

\* The processes that a server forks when it is started.
LEMMA Forked ==
  ASSUME NEW r \in Runs, Start(r), NEW w \in Workers
  PROVE  \/ wpc'[w] = wpc[w] /\ (wpc' = wpc \/ wpc' = [v \in Workers |-> wpc'[v]])
         \/ /\ wpc' = [v \in Workers |-> wpc'[v]]
            /\ w[1] = r /\ ppc' = [ppc EXCEPT ![r] = "recv"]
            /\ wpc'[w] \in {"read", "recv"} /\ (Piped \/ kind = "msgq")
            /\ Piped => w[2] = 1
            /\ wpc'[w] = "recv" => kind = "msgq"
<1>1. Children \in Nat /\ w[2] \in 1 .. Children
  BY UdpServersAssumption DEF Workers
<1>2. CASE bound # 0 /\ ~ Piped
  BY <1>2 DEF Start
<1>3. CASE ~ (bound # 0 /\ ~ Piped)
  <2>1. PICK crew \in Crews :
          wpc' = [v \in Workers |-> IF v[1] = r /\ v[2] <= crew[1] THEN crew[2] ELSE wpc[v]]
    BY <1>3 DEF Start
  <2>2. ppc' = [ppc EXCEPT ![r] = "recv"]
    BY <1>3 DEF Start
  <2>3. \/ crew[1] = 0
        \/ kind = "msgq" /\ crew[2] \in {"read", "recv"}
        \/ Piped /\ crew[1] = 1 /\ crew[2] = "read"
    BY DEF Crews
  <2>4. wpc'[w] = IF w[1] = r /\ w[2] <= crew[1] THEN crew[2] ELSE wpc[w]
    BY <2>1
  <2>5. wpc' = [v \in Workers |-> wpc'[v]]
    BY <2>1
  <2>6. CASE w[1] = r /\ w[2] <= crew[1]
    <3>1. crew[1] # 0 /\ (crew[1] = 1 => w[2] = 1)
      BY <1>1, <2>6
    <3>2. kind = "msgq" => ~ Piped
      BY DEF Piped
    <3>. QED  BY <2>2, <2>3, <2>4, <2>5, <2>6, <3>1, <3>2
  <2>7. CASE ~ (w[1] = r /\ w[2] <= crew[1])
    BY <2>4, <2>5, <2>7
  <2>. QED  BY <2>6, <2>7
<1>. QED  BY <1>2, <1>3

\* A server's steps keep every type.
LEMMA TypeStart ==
  ASSUME TypeOK, UNCHANGED clientVars, NEW r \in Runs, Start(r)
  PROVE  TypeOK'
<1>1. /\ ppc \in [Runs -> {"none", "recv", "pass", "dead"}]
      /\ wpc \in [Workers -> {"none", "read", "send", "recv", "pass", "dead"}]
  BY DEF TypeOK
<1>2. UNCHANGED <<kind, hold, queue, pmsg, toServer, toClient>>
  BY DEF Start
<1>3. ppc' \in [Runs -> {"none", "recv", "pass", "dead"}] /\ bound' \in Runs \union {0}
  <2>1. /\ ppc' = [ppc EXCEPT ![r] = "dead"] \/ ppc' = [ppc EXCEPT ![r] = "recv"]
        /\ bound' \in {bound, r}
    BY DEF Start
  <2>. QED  BY <1>1, <2>1 DEF TypeOK
<1>4. wpc' \in [Workers -> {"none", "read", "send", "recv", "pass", "dead"}]
  <2>1. \A w \in Workers : wpc'[w] \in {wpc[w], "read", "recv"}
    BY Forked
  <2>2. wpc' = wpc \/ wpc' = [v \in Workers |-> wpc'[v]]
    BY DEF Start
  <2>. QED  BY <1>1, <2>1, <2>2
<1>. QED  BY <1>2, <1>3, <1>4 DEF TypeOK, TypeClients, clientVars

LEMMA TypeRecv ==
  ASSUME TypeOK, UNCHANGED clientVars, NEW r \in Runs, Recv(r)
  PROVE  TypeOK'
<1>1. toServer \in Seq(Datagrams) /\ toServer # <<>>
  BY DEF TypeOK, TypeClients, Recv
<1>2. Head(toServer) \in Datagrams /\ Tail(toServer) \in Seq(Datagrams)
  BY <1>1, HeadTailProperties
<1>3. <<Head(toServer)>> \in Seq(Datagrams)
  BY <1>2, OneElement
<1>4. hold' \in [Runs -> Seq(Datagrams)]
  <2>1. hold \in [Runs -> Seq(Datagrams)]
    BY DEF TypeOK
  <2>2. hold' = hold \/ hold' = [hold EXCEPT ![r] = <<Head(toServer)>>]
    BY DEF Recv
  <2>. QED  BY <1>3, <2>1, <2>2
<1>5. ppc' \in [Runs -> {"none", "recv", "pass", "dead"}]
  <2>1. ppc \in [Runs -> {"none", "recv", "pass", "dead"}]
    BY DEF TypeOK
  <2>2. ppc' = ppc \/ ppc' = [ppc EXCEPT ![r] = "pass"]
    BY DEF Recv
  <2>. QED  BY <2>1, <2>2
<1>6. UNCHANGED <<kind, bound, queue, wpc, pmsg, toClient>> /\ toServer' = Tail(toServer)
  BY DEF Recv
<1>. QED  BY <1>2, <1>4, <1>5, <1>6 DEF TypeOK, TypeClients, clientVars

\* AnswerSelf and Pass: the parent has done with its datagram.
LEMMA TypePassed ==
  ASSUME TypeOK, NEW r \in Runs, ppc' = [ppc EXCEPT ![r] = "recv"],
         hold' = [hold EXCEPT ![r] = <<>>]
  PROVE  /\ ppc' \in [Runs -> {"none", "recv", "pass", "dead"}]
         /\ hold' \in [Runs -> Seq(Datagrams)]
<1>1. ppc \in [Runs -> {"none", "recv", "pass", "dead"}] /\ hold \in [Runs -> Seq(Datagrams)]
  BY DEF TypeOK
<1>. QED  BY <1>1, EmptySeq

LEMMA TypeAnswerSelf ==
  ASSUME TypeOK, Sound, UNCHANGED clientVars, NEW r \in Runs, AnswerSelf(r)
  PROVE  TypeOK'
<1>1. ppc[r] = "pass" /\ Deliver(hold[r][1], TRUE)
  BY DEF AnswerSelf
<1>2. toClient' \in [Clients -> Seq(Datagrams)]
  BY <1>1, HeldOne, Delivered
<1>3. /\ ppc' = [ppc EXCEPT ![r] = "recv"] /\ hold' = [hold EXCEPT ![r] = <<>>]
      /\ UNCHANGED <<kind, bound, queue, wpc, pmsg, toServer>>
  BY DEF AnswerSelf
<1>. QED  BY <1>2, <1>3, TypePassed DEF TypeOK, TypeClients, clientVars

\* The queue of a run is that of a run.
LEMMA QueueIs ==
  ASSUME NEW r \in Runs
  PROVE  QueueOf(r) \in Runs
<1>1. MaxRuns \in Nat
  BY UdpServersAssumption
<1>. QED  BY <1>1 DEF QueueOf, Runs

LEMMA TypePass ==
  ASSUME TypeOK, Sound, UNCHANGED clientVars, NEW r \in Runs, Pass(r)
  PROVE  TypeOK'
<1>. DEFINE q == QueueOf(r)
            m == hold[r][1]
<1>1. q \in Runs /\ m \in Datagrams
  BY QueueIs, HeldOne DEF Pass
<1>2. queue \in [Runs -> Seq(Datagrams)] /\ queue' = [queue EXCEPT ![q] = Append(@, m)]
  BY DEF Pass, TypeOK
<1>. HIDE DEF q, m
<1>3. Append(queue[q], m) \in Seq(Datagrams)
  BY <1>1, <1>2, AppendProperties
<1>4. queue' \in [Runs -> Seq(Datagrams)]
  BY <1>2, <1>3
<1>5. /\ ppc' = [ppc EXCEPT ![r] = "recv"] /\ hold' = [hold EXCEPT ![r] = <<>>]
      /\ UNCHANGED <<kind, bound, wpc, pmsg, toServer, toClient>>
  BY DEF Pass
<1>. QED  BY <1>4, <1>5, TypePassed DEF TypeOK, TypeClients, clientVars

LEMMA TypeChild ==
  ASSUME TypeOK, Sound, Ready, UNCHANGED clientVars, NEW w \in Workers,
         ChildRecv(w) \/ ChildPass(w)
  PROVE  TypeOK'
<1>1. /\ pmsg \in [Workers -> Seq(Datagrams)]
      /\ wpc \in [Workers -> {"none", "read", "send", "recv", "pass", "dead"}]
      /\ toServer \in Seq(Datagrams) /\ queue \in [Runs -> Seq(Datagrams)]
  BY DEF TypeOK, TypeClients
<1>2. UNCHANGED <<kind, bound, ppc, hold, toClient>>
  BY DEF ChildRecv, ChildPass
<1>3. CASE ChildRecv(w)
  <2>1. /\ toServer # <<>> /\ toServer' = Tail(toServer) /\ queue' = queue
        /\ pmsg' = [pmsg EXCEPT ![w] = <<Head(toServer)>>] /\ wpc' = [wpc EXCEPT ![w] = "pass"]
    BY <1>3 DEF ChildRecv
  <2>2. Head(toServer) \in Datagrams /\ Tail(toServer) \in Seq(Datagrams)
    BY <1>1, <2>1, HeadTailProperties
  <2>3. <<Head(toServer)>> \in Seq(Datagrams)
    BY <2>2, OneElement
  <2>4. /\ pmsg' \in [Workers -> Seq(Datagrams)]
        /\ wpc' \in [Workers -> {"none", "read", "send", "recv", "pass", "dead"}]
    BY <1>1, <2>1, <2>3
  <2>. QED  BY <1>2, <2>1, <2>2, <2>4 DEF TypeOK, TypeClients, clientVars
<1>4. CASE ChildPass(w)
  <2>. DEFINE q == QueueOf(w[1])
              m == pmsg[w][1]
  <2>1. /\ queue' = [queue EXCEPT ![q] = Append(@, m)] /\ toServer' = toServer
        /\ pmsg' = [pmsg EXCEPT ![w] = <<>>] /\ wpc' = [wpc EXCEPT ![w] = "recv"]
    BY <1>4 DEF ChildPass
  <2>2. q \in Runs /\ m \in Datagrams
    BY <1>4, QueueIs, CarriedOne DEF Ready, ChildPass, Workers
  <2>. HIDE DEF q, m
  <2>3. Append(queue[q], m) \in Seq(Datagrams)
    BY <1>1, <2>2, AppendProperties
  <2>4. queue' \in [Runs -> Seq(Datagrams)]
    BY <1>1, <2>1, <2>3
  <2>5. /\ pmsg' \in [Workers -> Seq(Datagrams)]
        /\ wpc' \in [Workers -> {"none", "read", "send", "recv", "pass", "dead"}]
    BY <1>1, <2>1, EmptySeq
  <2>. QED  BY <1>2, <2>1, <2>4, <2>5 DEF TypeOK, TypeClients, clientVars
<1>. QED  BY <1>3, <1>4

LEMMA TypeTake ==
  ASSUME TypeOK, UNCHANGED clientVars, NEW w \in Workers, Take(w)
  PROVE  TypeOK'
<1>. DEFINE q == QueueOf(w[1])
<1>1. q \in Runs
  BY QueueIs DEF Workers
<1>2. /\ queue \in [Runs -> Seq(Datagrams)] /\ queue' = [queue EXCEPT ![q] = Tail(@)]
      /\ queue[q] # <<>> /\ pmsg' = [pmsg EXCEPT ![w] = <<Head(queue[q])>>]
  BY DEF Take, TypeOK
<1>3. /\ pmsg \in [Workers -> Seq(Datagrams)]
      /\ wpc \in [Workers -> {"none", "read", "send", "recv", "pass", "dead"}]
  BY DEF TypeOK
<1>4. wpc' = [wpc EXCEPT ![w] = "send"] /\ UNCHANGED <<kind, bound, ppc, hold, toServer, toClient>>
  BY DEF Take
<1>. HIDE DEF q
<1>5. Head(queue[q]) \in Datagrams /\ Tail(queue[q]) \in Seq(Datagrams)
  BY <1>1, <1>2, HeadTailProperties
<1>6. <<Head(queue[q])>> \in Seq(Datagrams)
  BY <1>5, OneElement
<1>7. queue' \in [Runs -> Seq(Datagrams)]
  BY <1>2, <1>5
<1>8. pmsg' \in [Workers -> Seq(Datagrams)]
  BY <1>2, <1>3, <1>6
<1>9. wpc' \in [Workers -> {"none", "read", "send", "recv", "pass", "dead"}]
  BY <1>3, <1>4
<1>. QED  BY <1>4, <1>7, <1>8, <1>9 DEF TypeOK, TypeClients, clientVars

LEMMA TypeAnswer ==
  ASSUME TypeOK, Sound, UNCHANGED clientVars, NEW w \in Workers, Answer(w) \/ TakeEnd(w)
  PROVE  TypeOK'
<1>1. /\ pmsg \in [Workers -> Seq(Datagrams)]
      /\ wpc \in [Workers -> {"none", "read", "send", "recv", "pass", "dead"}]
      /\ toClient \in [Clients -> Seq(Datagrams)]
  BY DEF TypeOK, TypeClients
<1>2. UNCHANGED <<kind, bound, ppc, hold, queue, toServer>>
  BY DEF Answer, TakeEnd
<1>3. toClient' \in [Clients -> Seq(Datagrams)]
  <2>1. \/ toClient' = toClient
        \/ pmsg[w] # <<>> /\ Deliver(pmsg[w][1], bound = w[1])
    BY DEF Answer, TakeEnd
  <2>. QED  BY <1>1, <2>1, CarriedOne, Delivered
<1>4. wpc' \in [Workers -> {"none", "read", "send", "recv", "pass", "dead"}]
  <2>1. wpc' = [wpc EXCEPT ![w] = "read"] \/ wpc' = [wpc EXCEPT ![w] = "send"]
    BY DEF Answer, TakeEnd
  <2>. QED  BY <1>1, <2>1
<1>5. pmsg' \in [Workers -> Seq(Datagrams)]
  <2>1. pmsg' = pmsg \/ \E b \in {pmsg[w], <<>>} : pmsg' = [pmsg EXCEPT ![w] = b]
    BY DEF Answer, TakeEnd
  <2>. QED  BY <1>1, <2>1, EmptySeq
<1>. QED  BY <1>2, <1>3, <1>4, <1>5 DEF TypeOK, TypeClients, clientVars

LEMMA TypeStep ==
  ASSUME TypeOK, Sound, Ready, [Next]_vars
  PROVE  TypeOK'
<1>1. CASE UNCHANGED vars
  BY <1>1 DEF vars, serverVars, clientVars, TypeOK, TypeClients
<1>2. CASE \E c \in Clients : ClientStep(c, Listening) /\ UNCHANGED serverVars
  BY <1>2, TypeClient
<1>3. CASE ServerStep /\ UNCHANGED clientVars
  <2>1. ASSUME NEW r \in Runs, PassKills(r)  PROVE ParentEnds(r)
    BY <2>1 DEF PassKills
  <2>. QED
    BY <1>3, <2>1, TypeStart, TypeEnds, TypeRecv, TypeAnswerSelf, TypePass, TypeChild,
       TypeTake, TypeAnswer DEF ServerStep, ParentStep, WorkerStep
<1>. QED  BY <1>1, <1>2, <1>3 DEF Next


-----------------------------------------------------------------------------
(* Whose lines are where.                                                  *)

\* The lines that were sent, and those that one client has sent.
Sent == {m \in Datagrams : m[2] <= sent[m[1]]}
Own(c) == {m \in Sent : m[1] = c}

\* The part of ClientSound that is about the wait of a client.
Waits(c) ==
  /\ cpc[c] = "typing" => sent[c] = Finished(c)
  /\ cpc[c] \in {"entering", "recv", "refused"} => sent[c] = Finished(c) + 1
  /\ armed[c] => cpc[c] \in {"entering", "recv"} /\ Style[c] = "alarm"
  /\ Style[c] # "alarm" => timeouts[c] = 0

\* Sound, by the sets of what is in the sequences.
AtClient(c) ==
  /\ ToSet(toClient[c]) \subseteq Own(c) /\ ToSet(got[c]) \subseteq Own(c)
  /\ Waits(c) /\ LateAtMost(c)
AtParent(r) ==
  /\ ToSet(hold[r]) \subseteq Sent /\ ToSet(queue[r]) \subseteq Sent
  /\ Len(hold[r]) = IF ppc[r] = "pass" THEN 1 ELSE 0
AtWorker(w) == ToSet(pmsg[w]) \subseteq Sent /\ Len(pmsg[w]) <= 1

Traced ==
  /\ \A c \in Clients : AtClient(c)
  /\ ToSet(toServer) \subseteq Sent
  /\ \A r \in Runs : AtParent(r)
  /\ \A w \in Workers : AtWorker(w)

LEMMA AllIn ==
  ASSUME NEW S, NEW s \in Seq(S), NEW G
  PROVE  (\A k \in 1 .. Len(s) : s[k] \in G) <=> ToSet(s) \subseteq G
BY Elements

LEMMA TracedIs == TypeOK => (Sound <=> Traced)
<1>. SUFFICES ASSUME TypeOK  PROVE Sound <=> Traced
  OBVIOUS
<1>1. \A m : (Genuine(m) <=> m \in Sent) /\ \A c : (OwnLine(c, m) <=> m \in Own(c))
  BY DEF Genuine, OwnLine, Sent, Own
<1>2. ASSUME NEW s \in Seq(Datagrams)  PROVE AllGenuine(s) <=> ToSet(s) \subseteq Sent
  BY <1>1, AllIn DEF AllGenuine
<1>3. ASSUME NEW s \in Seq(Datagrams), NEW c
      PROVE  (\A k \in 1 .. Len(s) : OwnLine(c, s[k])) <=> ToSet(s) \subseteq Own(c)
  BY <1>1, AllIn
<1>4. ASSUME NEW c \in Clients  PROVE ClientSound(c) /\ LateAtMost(c) <=> AtClient(c)
  <2>1. toClient[c] \in Seq(Datagrams) /\ got[c] \in Seq(Datagrams)
    BY DEF TypeOK, TypeClients
  <2>2. (\A k \in 1 .. Len(toClient[c]) : OwnLine(c, toClient[c][k]))
          <=> ToSet(toClient[c]) \subseteq Own(c)
    BY <1>3, <2>1
  <2>3. (\A k \in 1 .. Len(got[c]) : OwnLine(c, got[c][k])) <=> ToSet(got[c]) \subseteq Own(c)
    BY <1>3, <2>1
  <2>. QED  BY <2>2, <2>3 DEF AtClient, Waits, ClientSound
<1>5. ASSUME NEW r \in Runs
      PROVE  /\ AllGenuine(hold[r]) <=> ToSet(hold[r]) \subseteq Sent
             /\ AllGenuine(queue[r]) <=> ToSet(queue[r]) \subseteq Sent
  BY <1>2 DEF TypeOK
<1>6. ASSUME NEW w \in Workers  PROVE AllGenuine(pmsg[w]) <=> ToSet(pmsg[w]) \subseteq Sent
  BY <1>2 DEF TypeOK
<1>7. AllGenuine(toServer) <=> ToSet(toServer) \subseteq Sent
  BY <1>2 DEF TypeOK, TypeClients
<1>. QED  BY <1>4, <1>5, <1>6, <1>7 DEF Sound, Traced, AtParent, AtWorker

LEMMA TracedNext == TypeOK' => (Sound' <=> Traced')
BY TracedIs, PTL

\* No line is forgotten to have been sent.
LEMMA SentGrows ==
  ASSUME sent \in [Clients -> Nat], sent' \in [Clients -> Nat],
         \A c \in Clients : sent[c] <= sent'[c]
  PROVE  Sent \subseteq Sent' /\ \A c : Own(c) \subseteq {m \in Sent' : m[1] = c}
<1>1. \A m \in Sent : m \in Sent'
  <2>. TAKE m \in Sent
  <2>1. m \in Datagrams /\ m[1] \in Clients /\ m[2] \in Nat /\ m[2] <= sent[m[1]]
    BY DEF Sent, Datagrams
  <2>2. m[2] <= sent'[m[1]]
    BY <2>1
  <2>. QED  BY <2>1, <2>2 DEF Sent
<1>. QED  BY <1>1 DEF Own

\* A client's steps.
LEMMA TracedSend ==
  ASSUME TypeOK, TypeOK', Traced, UNCHANGED serverVars, NEW c \in Clients,
         SendLine(c, Listening)
  PROVE  Traced'
<1>1. /\ sent \in [Clients -> Nat] /\ sent' \in [Clients -> Nat]
      /\ cpc \in [Clients -> {"typing", "entering", "recv", "refused", "gone"}]
      /\ armed \in [Clients -> BOOLEAN] /\ toServer \in Seq(Datagrams)
  BY DEF TypeOK, TypeClients
<1>2. /\ cpc[c] = "typing" /\ sent' = [sent EXCEPT ![c] = @ + 1]
      /\ toServer' = IF Listening THEN Offer(toServer, <<c, sent[c] + 1>>) ELSE toServer
      /\ armed' = [armed EXCEPT ![c] = Style[c] = "alarm"]
      /\ UNCHANGED <<toClient, got, timeouts>>
  BY DEF SendLine
<1>3. \E p \in {"entering", "recv", "refused"} :
        cpc' = [cpc EXCEPT ![c] = p] /\ (Style[c] = "alarm" => p = "entering")
  BY DEF SendLine
<1>4. UNCHANGED <<ppc, hold, queue, wpc, pmsg>>
  BY DEF serverVars
<1>5. \A d \in Clients : sent[d] <= sent'[d]
  BY <1>1, <1>2
<1>6. Sent \subseteq Sent' /\ \A d : Own(d) \subseteq {m \in Sent' : m[1] = d}
  BY <1>1, <1>5, SentGrows
<1>7. ToSet(toServer') \subseteq Sent'
  <2>. DEFINE m == <<c, sent[c] + 1>>
  <2>1. m \in Datagrams /\ m \in Sent'
    BY <1>1, <1>2 DEF Datagrams, Sent
  <2>. HIDE DEF m
  <2>2. ToSet(toServer') \subseteq ToSet(toServer) \union {m}
    BY <1>1, <1>2, <2>1, Offered DEF m
  <2>. QED  BY <1>6, <2>1, <2>2 DEF Traced
<1>8. ASSUME NEW d \in Clients  PROVE AtClient(d)'
  <2>1. AtClient(d)
    BY DEF Traced
  <2>2. ToSet(toClient'[d]) \subseteq Own(d)' /\ ToSet(got'[d]) \subseteq Own(d)'
    BY <1>2, <1>6, <2>1 DEF AtClient, Own
  <2>3. LateAtMost(d)'
    BY <1>2, <2>1 DEF AtClient, LateAtMost
  <2>4. Finished(d)' = Finished(d)
    BY <1>2 DEF Finished
  <2>5. Waits(d)'
    BY <1>1, <1>2, <1>3, <2>1, <2>4 DEF AtClient, Waits
  <2>. QED  BY <2>2, <2>3, <2>5 DEF AtClient
<1>9. (\A r \in Runs : AtParent(r)') /\ (\A w \in Workers : AtWorker(w)')
  BY <1>4, <1>6 DEF Traced, AtParent, AtWorker
<1>. QED  BY <1>7, <1>8, <1>9 DEF Traced

\* Steps that send nothing keep what was sent, so that only what they change
\* has to be looked at.
LEMMA TracedQuiet ==
  ASSUME Traced, UNCHANGED serverVars, UNCHANGED <<toServer, sent>>,
         NEW c \in Clients, AtClient(c)',
         \A d \in Clients : d # c => AtClient(d)'
  PROVE  Traced'
BY DEF Traced, AtParent, AtWorker, Sent, serverVars

LEMMA TracedWait ==
  ASSUME TypeOK, Traced, UNCHANGED serverVars, NEW c \in Clients,
         AlarmEarly(c) \/ Enter(c) \/ Timeout(c) \/ Leave(c)
  PROVE  Traced'
<1>1. /\ armed \in [Clients -> BOOLEAN] /\ timeouts \in [Clients -> Nat]
      /\ cpc \in [Clients -> {"typing", "entering", "recv", "refused", "gone"}]
      /\ got \in [Clients -> Seq(Datagrams)] /\ sent \in [Clients -> Nat]
      /\ toClient \in [Clients -> Seq(Datagrams)]
  BY DEF TypeOK, TypeClients
<1>2. UNCHANGED <<toServer, sent, got>>
  BY DEF AlarmEarly, Enter, Timeout, Leave
<1>3. ASSUME NEW d \in Clients  PROVE AtClient(d)'
  <2>1. AtClient(d) /\ Own(d)' = Own(d)
    BY <1>2 DEF Traced, Own, Sent
  <2>2. ToSet(toClient'[d]) \subseteq Own(d)
    <3>1. toClient'[d] = toClient[d] \/ toClient'[d] = <<>>
      BY <1>1 DEF AlarmEarly, Enter, Timeout, Leave
    <3>. QED  BY <2>1, <3>1, NoElements DEF AtClient
  <2>. DEFINE n == Len(got[d])
  <2>3. n \in Nat /\ Len(got'[d]) = n /\ timeouts[d] \in Nat /\ sent[d] \in Nat
    BY <1>1, <1>2, LenProperties
  <2>4. Waits(d) /\ Finished(d) = n + timeouts[d] /\ Finished(d)' = n + timeouts'[d]
    BY <2>1, <1>2 DEF AtClient, Finished
  <2>. HIDE DEF n
  <2>5. Waits(d)'
    <3>1. CASE AlarmEarly(c) \/ Enter(c)
      BY <1>1, <1>2, <2>3, <2>4, <3>1 DEF AlarmEarly, Enter, Waits
    <3>2. CASE Timeout(c)
      BY <1>1, <1>2, <2>3, <2>4, <3>2 DEF Timeout, Waits
    <3>3. CASE Leave(c)
      BY <1>1, <1>2, <2>3, <2>4, <3>3 DEF Leave, Waits
    <3>. QED  BY <3>1, <3>2, <3>3
  <2>6. LateAtMost(d)'
    <3>1. \A k \in 1 .. n : got[d][k] \in Datagrams
      BY <1>1, ElementOfSeq DEF n
    <3>2. \A k \in 1 .. n : got[d][k][2] \in Nat
      BY <3>1 DEF Datagrams
    <3>3. timeouts'[d] \in Nat /\ timeouts[d] <= timeouts'[d]
      BY <1>1 DEF AlarmEarly, Enter, Timeout, Leave
    <3>4. \A k \in 1 .. n : got[d][k][2] <= k + timeouts[d]
      BY <2>1 DEF AtClient, LateAtMost, n
    <3>5. \A k \in 1 .. n : got[d][k][2] <= k + timeouts'[d]
      BY <2>3, <3>2, <3>3, <3>4
    <3>. QED  BY <1>2, <2>3, <3>5 DEF LateAtMost
  <2>. QED  BY <1>2, <2>1, <2>2, <2>5, <2>6 DEF AtClient
<1>. QED  BY <1>2, <1>3, TracedQuiet

LEMMA TracedReceive ==
  ASSUME TypeOK, Traced, UNCHANGED serverVars, NEW c \in Clients, Receive(c)
  PROVE  Traced'
<1>. DEFINE b == toClient[c]
            g == got[c]
            x == Head(b)
            n == Len(g)
<1>1. /\ armed \in [Clients -> BOOLEAN] /\ timeouts \in [Clients -> Nat]
      /\ cpc \in [Clients -> {"typing", "entering", "recv", "refused", "gone"}]
      /\ got \in [Clients -> Seq(Datagrams)] /\ sent \in [Clients -> Nat]
      /\ toClient \in [Clients -> Seq(Datagrams)]
  BY DEF TypeOK, TypeClients
<1>2. /\ cpc[c] = "recv" /\ b # <<>> /\ cpc' = [cpc EXCEPT ![c] = "typing"]
      /\ armed' = [armed EXCEPT ![c] = FALSE]
      /\ UNCHANGED <<toServer, sent, timeouts>>
  BY DEF Receive
<1>3. /\ got' = [got EXCEPT ![c] = Append(g, x)]
      /\ toClient' = [toClient EXCEPT ![c] = Tail(b)]
  BY DEF Receive
<1>4. b \in Seq(Datagrams) /\ g \in Seq(Datagrams) /\ n \in Nat
  BY <1>1, LenProperties
<1>5. AtClient(c)
  BY DEF Traced
<1>6. /\ \A k \in 1 .. n : g[k][2] <= k + timeouts[c]
      /\ sent[c] = n + timeouts[c] + 1 /\ timeouts[c] \in Nat
      /\ ToSet(b) \subseteq Own(c) /\ ToSet(g) \subseteq Own(c)
  BY <1>1, <1>2, <1>5 DEF AtClient, LateAtMost, Waits, Finished
<1>7. /\ got'[c] = Append(g, x) /\ toClient'[c] = Tail(b)
      /\ \A d \in Clients : d # c => got'[d] = got[d] /\ toClient'[d] = toClient[d]
  BY <1>1, <1>3
<1>. HIDE DEF b, g
<1>8. /\ x \in ToSet(b) /\ x \in Datagrams /\ Tail(b) \in Seq(Datagrams)
      /\ ToSet(Tail(b)) \subseteq ToSet(b)
  BY <1>2, <1>4, WithoutFirst
<1>. HIDE DEF x
<1>9. x \in Own(c) /\ x[2] \in Nat /\ x[2] <= sent[c]
  BY <1>6, <1>8 DEF Own, Sent, Datagrams
<1>10. /\ Append(g, x) \in Seq(Datagrams) /\ Len(Append(g, x)) = n + 1
       /\ \A k \in 1 .. n : Append(g, x)[k] = g[k]
       /\ Append(g, x)[n + 1] = x /\ ToSet(Append(g, x)) = ToSet(g) \union {x}
  BY <1>4, <1>8, Behind
<1>. DEFINE h == Append(g, x)
<1>. HIDE DEF n, h
<1>11. \A k \in 1 .. Len(h) : h[k][2] <= k + timeouts[c]
  <2>. TAKE k \in 1 .. Len(h)
  <2>1. CASE k \in 1 .. n
    BY <1>6, <1>10, <2>1 DEF h
  <2>2. CASE k = n + 1
    BY <1>4, <1>6, <1>9, <1>10, <2>2 DEF h
  <2>. QED  BY <1>4, <1>10, <2>1, <2>2 DEF h
<1>12. AtClient(c)'
  <2>1. ToSet(toClient'[c]) \subseteq Own(c)' /\ ToSet(got'[c]) \subseteq Own(c)'
    BY <1>2, <1>6, <1>7, <1>8, <1>9, <1>10 DEF Own, Sent, h
  <2>2. LateAtMost(c)'
    BY <1>2, <1>7, <1>11 DEF LateAtMost, h
  <2>3. Finished(c)' = n + 1 + timeouts[c]
    BY <1>2, <1>7, <1>10 DEF Finished, h
  <2>4. Waits(c)'
    <3>1. cpc'[c] = "typing" /\ ~ armed'[c]
      BY <1>1, <1>2
    <3>2. Style[c] # "alarm" => timeouts'[c] = 0
      BY <1>2, <1>5 DEF AtClient, Waits
    <3>3. sent'[c] = n + 1 + timeouts[c]
      <4>1. sent'[c] = sent[c]
        BY <1>2
      <4>2. timeouts[c] \in Nat /\ sent[c] = n + timeouts[c] + 1
        BY <1>6
      <4>3. n + timeouts[c] + 1 = n + 1 + timeouts[c]
        BY <1>4, <4>2
      <4>. QED  BY <4>1, <4>2, <4>3
    <3>. QED  BY <2>3, <3>1, <3>2, <3>3 DEF Waits
  <2>. QED  BY <2>1, <2>2, <2>4 DEF AtClient
<1>13. ASSUME NEW d \in Clients, d # c  PROVE AtClient(d)'
  <2>1. /\ got'[d] = got[d] /\ toClient'[d] = toClient[d] /\ cpc'[d] = cpc[d]
        /\ armed'[d] = armed[d] /\ sent' = sent /\ timeouts' = timeouts
    BY <1>1, <1>2, <1>7, <1>13
  <2>2. AtClient(d)
    BY DEF Traced
  <2>. QED  BY <2>1, <2>2 DEF AtClient, Own, Sent, Waits, Finished, LateAtMost
<1>. QED  BY <1>2, <1>12, <1>13, TracedQuiet

LEMMA TracedClient ==
  ASSUME TypeOK, TypeOK', Traced, UNCHANGED serverVars, NEW c \in Clients,
         ClientStep(c, Listening)
  PROVE  Traced'
BY TracedSend, TracedWait, TracedReceive DEF ClientStep

\* A server's steps: everything goes from one place to another.
LEMMA TracedServer ==
  ASSUME Traced, UNCHANGED clientVars,
         \A c \in Clients : ToSet(toClient'[c]) \subseteq Own(c),
         ToSet(toServer') \subseteq Sent,
         \A r \in Runs : /\ ToSet(hold'[r]) \subseteq Sent /\ ToSet(queue'[r]) \subseteq Sent
                         /\ Len(hold'[r]) = IF ppc'[r] = "pass" THEN 1 ELSE 0,
         \A w \in Workers : ToSet(pmsg'[w]) \subseteq Sent /\ Len(pmsg'[w]) <= 1
  PROVE  Traced'
<1>1. sent' = sent
  BY DEF clientVars
<1>2. ASSUME NEW c \in Clients  PROVE AtClient(c)'
  <2>1. AtClient(c) /\ ToSet(toClient'[c]) \subseteq Own(c)
    BY DEF Traced
  <2>. QED  BY <1>1, <2>1 DEF AtClient, Own, Sent, Waits, Finished, LateAtMost, clientVars
<1>3. ASSUME NEW r \in Runs  PROVE AtParent(r)'
  BY <1>1 DEF AtParent, Sent
<1>4. ASSUME NEW w \in Workers  PROVE AtWorker(w)'
  BY <1>1 DEF AtWorker, Sent
<1>5. ToSet(toServer)' \subseteq Sent'
  BY <1>1 DEF Sent
<1>. QED  BY <1>2, <1>3, <1>4, <1>5 DEF Traced

LEMMA TracedDelivered ==
  ASSUME TypeOK, Traced, NEW m \in Sent, NEW p, Deliver(m, p), NEW c \in Clients
  PROVE  ToSet(toClient'[c]) \subseteq Own(c)
<1>1. m \in Datagrams
  BY DEF Sent
<1>2. \/ toClient'[c] = toClient[c]
      \/ c = m[1] /\ toClient'[c] = Append(toClient[c], m)
  BY <1>1, Delivered
<1>3. toClient[c] \in Seq(Datagrams) /\ ToSet(toClient[c]) \subseteq Own(c)
  BY DEF TypeOK, TypeClients, Traced, AtClient
<1>4. ToSet(Append(toClient[c], m)) = ToSet(toClient[c]) \union {m}
  BY <1>1, <1>3, Behind
<1>. QED  BY <1>2, <1>3, <1>4 DEF Own

LEMMA TracedStart ==
  ASSUME TypeOK, Traced, UNCHANGED clientVars, NEW r \in Runs, Start(r)
  PROVE  Traced'
<1>1. /\ UNCHANGED <<hold, queue, pmsg, toServer, toClient>> /\ ppc[r] = "none"
      /\ \E p \in {"dead", "recv"} : ppc' = [ppc EXCEPT ![r] = p]
  BY DEF Start
<1>2. \A s \in Runs : ppc'[s] = "pass" <=> ppc[s] = "pass"
  BY <1>1 DEF TypeOK
<1>. QED  BY <1>1, <1>2, TracedServer DEF Traced, AtClient, AtParent, AtWorker

LEMMA TracedEnds ==
  ASSUME TypeOK, Traced, UNCHANGED clientVars,
         (\E r \in Runs : ParentEnds(r)) \/ (\E w \in Workers : WorkerEnds(w))
  PROVE  Traced'
<1>1. Release
  BY DEF ParentEnds, WorkerEnds
<1>2. /\ toClient' = toClient /\ toServer' \in {toServer, <<>>}
      /\ \A q \in Runs : queue'[q] \in {queue[q], <<>>}
  BY <1>1, ReleaseLoses
<1>3. ToSet(<<>>) = {} /\ Len(<<>>) = 0
  BY NoElements, EmptySeq
<1>4. ToSet(toServer') \subseteq Sent
  BY <1>2, <1>3 DEF Traced
<1>5. \A q \in Runs : ToSet(queue'[q]) \subseteq Sent
  BY <1>2, <1>3 DEF Traced, AtParent
<1>6. CASE \E r \in Runs : ParentEnds(r)
  <2>1. PICK r \in Runs : /\ ppc' = [ppc EXCEPT ![r] = "dead"]
                          /\ hold' = [hold EXCEPT ![r] = <<>>] /\ UNCHANGED <<wpc, pmsg>>
    BY <1>6 DEF ParentEnds
  <2>2. /\ ppc'[r] = "dead" /\ hold'[r] = <<>>
        /\ \A s \in Runs : s # r => ppc'[s] = ppc[s] /\ hold'[s] = hold[s]
    BY <2>1 DEF TypeOK
  <2>3. \A s \in Runs : ToSet(hold'[s]) \subseteq Sent
    BY <1>3, <2>2 DEF Traced, AtParent
  <2>4. \A s \in Runs : Len(hold'[s]) = IF ppc'[s] = "pass" THEN 1 ELSE 0
    <3>. TAKE s \in Runs
    <3>1. CASE s = r
      BY <1>3, <2>2, <3>1
    <3>2. CASE s # r
      BY <2>2, <3>2 DEF Traced, AtParent
    <3>. QED  BY <3>1, <3>2
  <2>5. \A w \in Workers : ToSet(pmsg'[w]) \subseteq Sent /\ Len(pmsg'[w]) <= 1
    BY <2>1 DEF Traced, AtWorker
  <2>6. \A c \in Clients : ToSet(toClient'[c]) \subseteq Own(c)
    BY <1>2 DEF Traced, AtClient
  <2>. QED  BY <1>4, <1>5, <2>3, <2>4, <2>5, <2>6, TracedServer
<1>7. CASE \E w \in Workers : WorkerEnds(w)
  <2>1. PICK w \in Workers : pmsg' = [pmsg EXCEPT ![w] = <<>>] /\ UNCHANGED <<ppc, hold>>
    BY <1>7 DEF WorkerEnds
  <2>2. pmsg'[w] = <<>> /\ \A v \in Workers : v # w => pmsg'[v] = pmsg[v]
    BY <2>1 DEF TypeOK
  <2>3. \A v \in Workers : ToSet(pmsg'[v]) \subseteq Sent /\ Len(pmsg'[v]) <= 1
    <3>. TAKE v \in Workers
    <3>1. CASE v = w
      BY <1>3, <2>2, <3>1
    <3>2. CASE v # w
      BY <2>2, <3>2 DEF Traced, AtWorker
    <3>. QED  BY <3>1, <3>2
  <2>4. \A r \in Runs : /\ ToSet(hold'[r]) \subseteq Sent
                        /\ Len(hold'[r]) = IF ppc'[r] = "pass" THEN 1 ELSE 0
    BY <2>1 DEF Traced, AtParent
  <2>5. \A c \in Clients : ToSet(toClient'[c]) \subseteq Own(c)
    BY <1>2 DEF Traced, AtClient
  <2>. QED  BY <1>4, <1>5, <2>3, <2>4, <2>5, TracedServer
<1>. QED  BY <1>6, <1>7

LEMMA TracedRecv ==
  ASSUME TypeOK, Traced, UNCHANGED clientVars, NEW r \in Runs, Recv(r)
  PROVE  Traced'
<1>. DEFINE x == Head(toServer)
<1>1. /\ toServer \in Seq(Datagrams) /\ toServer # <<>>
      /\ UNCHANGED <<queue, pmsg, toClient>> /\ toServer' = Tail(toServer)
  BY DEF TypeOK, TypeClients, Recv
<1>2. /\ x \in ToSet(toServer) /\ x \in Datagrams
      /\ ToSet(toServer') \subseteq ToSet(toServer) /\ ToSet(toServer) \subseteq Sent
  BY <1>1, WithoutFirst DEF Traced
<1>3. /\ ppc[r] = "recv"
      /\ \/ UNCHANGED <<ppc, hold>>
         \/ hold' = [hold EXCEPT ![r] = <<x>>] /\ ppc' = [ppc EXCEPT ![r] = "pass"]
  BY DEF Recv
<1>. HIDE DEF x
<1>4. ToSet(<<x>>) = {x} /\ Len(<<x>>) = 1
  BY <1>2, OneElement
<1>5. ASSUME NEW s \in Runs
      PROVE  /\ ToSet(hold'[s]) \subseteq Sent
             /\ Len(hold'[s]) = IF ppc'[s] = "pass" THEN 1 ELSE 0
  <2>1. /\ ToSet(hold[s]) \subseteq Sent
        /\ Len(hold[s]) = IF ppc[s] = "pass" THEN 1 ELSE 0
    BY DEF Traced, AtParent
  <2>2. CASE hold' = [hold EXCEPT ![r] = <<x>>] /\ ppc' = [ppc EXCEPT ![r] = "pass"]
    <3>1. /\ hold'[r] = <<x>> /\ ppc'[r] = "pass"
          /\ s # r => hold'[s] = hold[s] /\ ppc'[s] = ppc[s]
      BY <2>2 DEF TypeOK
    <3>. QED  BY <1>2, <1>4, <2>1, <3>1
  <2>3. CASE UNCHANGED <<ppc, hold>>
    BY <2>1, <2>3
  <2>. QED  BY <1>3, <2>2, <2>3
<1>6. ToSet(toServer') \subseteq Sent
  BY <1>2
<1>. QED  BY <1>1, <1>5, <1>6, TracedServer DEF Traced, AtClient, AtParent, AtWorker

\* AnswerSelf and Pass.
LEMMA TracedPassed ==
  ASSUME TypeOK, Traced, NEW r \in Runs, ppc' = [ppc EXCEPT ![r] = "recv"],
         hold' = [hold EXCEPT ![r] = <<>>], NEW s \in Runs
  PROVE  /\ ToSet(hold'[s]) \subseteq Sent
         /\ Len(hold'[s]) = IF ppc'[s] = "pass" THEN 1 ELSE 0
<1>1. /\ hold'[r] = <<>> /\ ppc'[r] = "recv"
      /\ s # r => hold'[s] = hold[s] /\ ppc'[s] = ppc[s]
  BY DEF TypeOK
<1>2. /\ ToSet(hold[s]) \subseteq Sent
      /\ Len(hold[s]) = IF ppc[s] = "pass" THEN 1 ELSE 0
  BY DEF Traced, AtParent
<1>3. ToSet(<<>>) = {} /\ Len(<<>>) = 0
  BY NoElements, EmptySeq
<1>4. CASE s = r
  BY <1>1, <1>3, <1>4
<1>5. CASE s # r
  BY <1>1, <1>2, <1>5
<1>. QED  BY <1>4, <1>5

LEMMA TracedAnswerSelf ==
  ASSUME TypeOK, Sound, Traced, UNCHANGED clientVars, NEW r \in Runs, AnswerSelf(r)
  PROVE  Traced'
<1>1. /\ ppc[r] = "pass" /\ Deliver(hold[r][1], TRUE)
      /\ ppc' = [ppc EXCEPT ![r] = "recv"] /\ hold' = [hold EXCEPT ![r] = <<>>]
      /\ UNCHANGED <<queue, pmsg, toServer>>
  BY DEF AnswerSelf
<1>2. hold[r][1] \in Sent
  <2>1. Genuine(hold[r][1])
    BY <1>1, HeldOne
  <2>. QED  BY <2>1 DEF Genuine, Sent
<1>3. \A c \in Clients : ToSet(toClient'[c]) \subseteq Own(c)
  BY <1>1, <1>2, TracedDelivered
<1>. QED  BY <1>1, <1>3, TracedPassed, TracedServer DEF Traced, AtParent, AtWorker

LEMMA TracedPass ==
  ASSUME TypeOK, Sound, Traced, UNCHANGED clientVars, NEW r \in Runs, Pass(r)
  PROVE  Traced'
<1>. DEFINE q == QueueOf(r)
            m == hold[r][1]
<1>1. /\ ppc[r] = "pass"
      /\ ppc' = [ppc EXCEPT ![r] = "recv"] /\ hold' = [hold EXCEPT ![r] = <<>>]
      /\ UNCHANGED <<pmsg, toServer, toClient>>
  BY DEF Pass
<1>2. /\ queue \in [Runs -> Seq(Datagrams)] /\ queue' = [queue EXCEPT ![q] = Append(@, m)]
      /\ q \in Runs /\ m \in Datagrams
  BY <1>1, QueueIs, HeldOne DEF Pass, TypeOK
<1>3. m \in Sent
  <2>1. Genuine(m)
    BY <1>1, HeldOne
  <2>. HIDE DEF m
  <2>. QED  BY <2>1 DEF Genuine, Sent
<1>. HIDE DEF q, m
<1>4. ToSet(Append(queue[q], m)) = ToSet(queue[q]) \union {m}
  BY <1>2, Behind
<1>5. \A s \in Runs : ToSet(queue'[s]) \subseteq Sent
  BY <1>2, <1>3, <1>4 DEF Traced, AtParent
<1>. QED  BY <1>1, <1>5, TracedPassed, TracedServer DEF Traced, AtClient, AtWorker

LEMMA TracedTake ==
  ASSUME TypeOK, Traced, UNCHANGED clientVars, NEW w \in Workers, Take(w)
  PROVE  Traced'
<1>. DEFINE q == QueueOf(w[1])
            x == Head(queue[q])
<1>1. q \in Runs
  BY QueueIs DEF Workers
<1>2. /\ queue \in [Runs -> Seq(Datagrams)] /\ queue' = [queue EXCEPT ![q] = Tail(@)]
      /\ queue[q] # <<>> /\ pmsg' = [pmsg EXCEPT ![w] = <<x>>]
      /\ pmsg \in [Workers -> Seq(Datagrams)] /\ UNCHANGED <<ppc, hold, toServer, toClient>>
  BY DEF Take, TypeOK
<1>. HIDE DEF q
<1>3. /\ x \in ToSet(queue[q]) /\ x \in Datagrams /\ ToSet(Tail(queue[q])) \subseteq ToSet(queue[q])
  BY <1>1, <1>2, WithoutFirst
<1>. HIDE DEF x
<1>4. ToSet(<<x>>) = {x} /\ Len(<<x>>) = 1
  BY <1>3, OneElement
<1>5. ToSet(queue[q]) \subseteq Sent
  BY <1>1 DEF Traced, AtParent
<1>6. \A s \in Runs : ToSet(queue'[s]) \subseteq Sent
  BY <1>1, <1>2, <1>3, <1>5 DEF Traced, AtParent
<1>7. \A v \in Workers : ToSet(pmsg'[v]) \subseteq Sent /\ Len(pmsg'[v]) <= 1
  <2>. TAKE v \in Workers
  <2>1. pmsg'[w] = <<x>> /\ (v # w => pmsg'[v] = pmsg[v])
    BY <1>2
  <2>2. CASE v = w
    <3>1. {x} \subseteq Sent
      BY <1>3, <1>5
    <3>2. pmsg'[v] = <<x>>
      BY <2>1, <2>2
    <3>. QED  BY <1>4, <3>1, <3>2
  <2>3. CASE v # w
    BY <2>1, <2>3 DEF Traced, AtWorker
  <2>. QED  BY <2>2, <2>3
<1>. QED  BY <1>2, <1>6, <1>7, TracedServer DEF Traced, AtClient, AtParent

LEMMA TracedAnswer ==
  ASSUME TypeOK, Sound, Traced, UNCHANGED clientVars, NEW w \in Workers,
         Answer(w) \/ TakeEnd(w)
  PROVE  Traced'
<1>1. /\ UNCHANGED <<ppc, hold, queue, toServer>>
      /\ \/ toClient' = toClient
         \/ pmsg[w] # <<>> /\ Deliver(pmsg[w][1], bound = w[1])
      /\ pmsg' = pmsg \/ \E b \in {pmsg[w], <<>>} : pmsg' = [pmsg EXCEPT ![w] = b]
  BY DEF Answer, TakeEnd
<1>2. \A c \in Clients : ToSet(toClient'[c]) \subseteq Own(c)
  <2>1. CASE toClient' = toClient
    BY <2>1 DEF Traced, AtClient
  <2>2. CASE pmsg[w] # <<>> /\ Deliver(pmsg[w][1], bound = w[1])
    <3>1. Genuine(pmsg[w][1])
      BY <2>2, CarriedOne
    <3>2. pmsg[w][1] \in Sent
      BY <3>1 DEF Genuine, Sent
    <3>. QED  BY <2>2, <3>2, TracedDelivered
  <2>. QED  BY <1>1, <2>1, <2>2
<1>3. \A v \in Workers : pmsg'[v] \in {pmsg[v], <<>>}
  BY <1>1 DEF TypeOK
<1>4. \A v \in Workers : ToSet(pmsg'[v]) \subseteq Sent /\ Len(pmsg'[v]) <= 1
  <2>1. ToSet(<<>>) = {} /\ Len(<<>>) = 0
    BY NoElements, EmptySeq
  <2>. TAKE v \in Workers
  <2>2. CASE pmsg'[v] = pmsg[v]
    BY <2>2 DEF Traced, AtWorker
  <2>3. CASE pmsg'[v] = <<>>
    BY <2>1, <2>3
  <2>. QED  BY <1>3, <2>2, <2>3
<1>. QED  BY <1>1, <1>2, <1>4, TracedServer DEF Traced, AtParent

LEMMA TracedChild ==
  ASSUME TypeOK, Sound, Ready, Traced, UNCHANGED clientVars, NEW w \in Workers,
         ChildRecv(w) \/ ChildPass(w)
  PROVE  Traced'
<1>1. /\ pmsg \in [Workers -> Seq(Datagrams)] /\ queue \in [Runs -> Seq(Datagrams)]
      /\ UNCHANGED <<ppc, hold, toClient>>
  BY DEF TypeOK, ChildRecv, ChildPass
<1>2. ToSet(<<>>) = {} /\ Len(<<>>) = 0
  BY NoElements, EmptySeq
<1>3. CASE ChildRecv(w)
  <2>. DEFINE x == Head(toServer)
  <2>1. /\ toServer \in Seq(Datagrams) /\ toServer # <<>> /\ toServer' = Tail(toServer)
        /\ queue' = queue /\ pmsg' = [pmsg EXCEPT ![w] = <<x>>]
    BY <1>3 DEF ChildRecv, TypeOK, TypeClients
  <2>2. /\ x \in ToSet(toServer) /\ x \in Datagrams
        /\ ToSet(toServer') \subseteq ToSet(toServer) /\ ToSet(toServer) \subseteq Sent
    BY <2>1, WithoutFirst DEF Traced
  <2>. HIDE DEF x
  <2>3. ToSet(<<x>>) = {x} /\ Len(<<x>>) = 1 /\ ToSet(toServer') \subseteq Sent
    BY <2>2, OneElement
  <2>4. pmsg'[w] = <<x>> /\ \A v \in Workers : v # w => pmsg'[v] = pmsg[v]
    BY <1>1, <2>1
  <2>5. \A v \in Workers : ToSet(pmsg'[v]) \subseteq Sent /\ Len(pmsg'[v]) <= 1
    <3>. TAKE v \in Workers
    <3>1. CASE v = w
      <4>1. x \in Sent /\ pmsg'[v] = <<x>>
        BY <2>2, <2>4, <3>1
      <4>. QED  BY <2>3, <4>1
    <3>2. CASE v # w
      BY <2>4, <3>2 DEF Traced, AtWorker
    <3>. QED  BY <3>1, <3>2
  <2>. QED  BY <1>1, <2>1, <2>3, <2>5, TracedServer DEF Traced, AtClient, AtParent
<1>4. CASE ChildPass(w)
  <2>. DEFINE q == QueueOf(w[1])
              m == pmsg[w][1]
  <2>1. /\ queue' = [queue EXCEPT ![q] = Append(@, m)] /\ toServer' = toServer
        /\ pmsg' = [pmsg EXCEPT ![w] = <<>>]
    BY <1>4 DEF ChildPass
  <2>2. q \in Runs /\ m \in Datagrams /\ Genuine(m)
    BY <1>4, QueueIs, CarriedOne DEF Ready, ChildPass, Workers
  <2>. HIDE DEF q, m
  <2>3. m \in Sent /\ ToSet(Append(queue[q], m)) = ToSet(queue[q]) \union {m}
    BY <1>1, <2>2, Behind DEF Genuine, Sent
  <2>4. \A s \in Runs : ToSet(queue'[s]) \subseteq Sent
    BY <1>1, <2>1, <2>2, <2>3 DEF Traced, AtParent
  <2>5. pmsg'[w] = <<>> /\ \A v \in Workers : v # w => pmsg'[v] = pmsg[v]
    BY <1>1, <2>1
  <2>6. \A v \in Workers : ToSet(pmsg'[v]) \subseteq Sent /\ Len(pmsg'[v]) <= 1
    <3>. TAKE v \in Workers
    <3>1. CASE v = w
      BY <1>2, <2>5, <3>1
    <3>2. CASE v # w
      BY <2>5, <3>2 DEF Traced, AtWorker
    <3>. QED  BY <3>1, <3>2
  <2>. QED  BY <1>1, <2>1, <2>4, <2>6, TracedServer DEF Traced, AtClient, AtParent
<1>. QED  BY <1>3, <1>4

LEMMA SoundStep ==
  ASSUME TypeOK, TypeOK', Sound, Ready, [Next]_vars
  PROVE  Sound'
<1>1. Traced
  BY TracedIs
<1>2. CASE UNCHANGED vars
  <2>1. /\ UNCHANGED <<toServer, toClient, clientVars, hold, queue, ppc, pmsg>>
    BY <1>2 DEF vars, serverVars
  <2>2. Traced'
    BY <1>1, <2>1, TracedServer DEF Traced, AtClient, AtParent, AtWorker
  <2>. QED  BY <2>2, TracedNext
<1>3. CASE \E c \in Clients : ClientStep(c, Listening) /\ UNCHANGED serverVars
  BY <1>1, <1>3, TracedClient, TracedNext
<1>4. CASE ServerStep /\ UNCHANGED clientVars
  <2>1. ASSUME NEW r \in Runs, PassKills(r)  PROVE ParentEnds(r)
    BY <2>1 DEF PassKills
  <2>2. Traced'
    BY <1>1, <1>4, <2>1, TracedStart, TracedEnds, TracedRecv, TracedAnswerSelf, TracedPass,
       TracedChild, TracedTake, TracedAnswer DEF ServerStep, ParentStep, WorkerStep
  <2>. QED  BY <2>2, TracedNext
<1>. QED  BY <1>2, <1>3, <1>4 DEF Next

\* Nobody comes to pass a datagram on without one.
LEMMA ReadyStep ==
  ASSUME TypeOK, Ready, [Next]_vars
  PROVE  Ready'
<1>1. CASE UNCHANGED <<wpc, pmsg>>
  BY <1>1 DEF Ready
<1>2. ASSUME NEW r \in Runs, Start(r)  PROVE Ready'
  <2>1. pmsg' = pmsg /\ \A w \in Workers : wpc'[w] \in {wpc[w], "read", "recv"}
    BY <1>2, Forked DEF Start
  <2>. QED  BY <2>1 DEF Ready
<1>3. ASSUME NEW w \in Workers, WorkerEnds(w) \/ WorkerStep(w)  PROVE Ready'
  <2>1. /\ wpc'[w] = "pass" => \E x : pmsg'[w] = <<x>>
        /\ \A v \in Workers : v # w => wpc'[v] = wpc[v] /\ pmsg'[v] = pmsg[v]
    <3>1. CASE WorkerEnds(w) \/ ChildRecv(w) \/ ChildPass(w)
      BY <3>1 DEF WorkerEnds, ChildRecv, ChildPass, TypeOK
    <3>2. CASE Take(w) \/ TakeEnd(w) \/ Answer(w)
      BY <3>2 DEF Take, TakeEnd, Answer, TypeOK
    <3>. QED  BY <1>3, <3>1, <3>2 DEF WorkerStep
  <2>2. \A x : <<x>> # <<>>
    OBVIOUS
  <2>. QED  BY <2>1, <2>2 DEF Ready
<1>4. ASSUME NEW r \in Runs, ParentEnds(r) \/ ParentStep(r)  PROVE UNCHANGED <<wpc, pmsg>>
  BY <1>4 DEF ParentEnds, ParentStep, Recv, AnswerSelf, Pass, PassKills
<1>5. CASE \E c \in Clients : ClientStep(c, Listening) /\ UNCHANGED serverVars
  BY <1>1, <1>5 DEF serverVars
<1>6. CASE UNCHANGED vars
  BY <1>1, <1>6 DEF vars, serverVars
<1>7. CASE ServerStep
  BY <1>1, <1>2, <1>3, <1>4, <1>7 DEF ServerStep
<1>. QED  BY <1>5, <1>6, <1>7 DEF Next

-----------------------------------------------------------------------------
(* Who runs.                                                               *)

\* Parents that receive still do, workers that live still do.
LEMMA StaffSame ==
  ASSUME Staff, UNCHANGED <<kind, bound>>,
         \A r \in Runs : ppc'[r] = ppc[r] \/ (Receiving(r) /\ Receiving(r)'),
         \A w \in Workers : Living(w)' <=> Living(w),
         \A w \in Workers : ReceivesToo(w)' => ReceivesToo(w),
         bound = 0 => toServer' = <<>>, bound \in Runs \union {0}
  PROVE  Staff'
<1>1. \A r \in Runs : /\ ppc'[r] # "none" => ppc[r] # "none"
                      /\ ppc[r] = "dead" => ppc'[r] = "dead"
                      /\ ppc[r] # "none" => ppc'[r] # "none"
                      /\ Receiving(r) => Receiving(r)'
  BY DEF Receiving
<1>2. \A r, s \in Runs : ppc'[r] # "none" /\ s < r => ppc'[s] = "dead"
  BY <1>1 DEF Staff
<1>3. \A w \in Workers : Living(w)' => /\ ppc'[w[1]] # "none" /\ (Piped \/ kind = "msgq")'
                                       /\ Piped' => w[2] = 1
  <2>. TAKE w \in Workers
  <2>1. w[1] \in Runs
    BY DEF Workers
  <2>. QED  BY <1>1, <2>1 DEF Staff, Piped
<1>4. bound' # 0 => Receiving(bound)' \/ \E s \in 1 .. Children : Living(<<bound, s>>)'
  <2>. SUFFICES ASSUME bound # 0
                PROVE  Receiving(bound)' \/ \E s \in 1 .. Children : Living(<<bound, s>>)'
    OBVIOUS
  <2>1. bound \in Runs /\ \A s \in 1 .. Children : <<bound, s>> \in Workers
    BY DEF Workers
  <2>2. CASE Receiving(bound)
    <3>1. \A r \in Runs : Receiving(r) => ppc'[r] \in {"recv", "pass"}
      BY <1>1 DEF Receiving
    <3>2. ppc'[bound] \in {"recv", "pass"}
      BY <2>1, <2>2, <3>1
    <3>. QED  BY <3>2 DEF Receiving
  <2>3. CASE \E s \in 1 .. Children : Living(<<bound, s>>)
    <3>1. \A w \in Workers : Living(w) => wpc'[w] \in {"read", "send", "recv", "pass"}
      BY DEF Living, ReceivesToo
    <3>2. \E s \in 1 .. Children : wpc'[<<bound, s>>] \in {"read", "send", "recv", "pass"}
      BY <2>1, <2>3, <3>1
    <3>. QED  BY <3>2 DEF Living, ReceivesToo
  <2>. QED  BY <2>2, <2>3 DEF Staff
<1>5. \A w \in Workers : ReceivesToo(w)' => kind' = "msgq"
  BY DEF Staff
<1>. QED  BY <1>2, <1>3, <1>4, <1>5 DEF Staff

LEMMA StaffStart ==
  ASSUME TypeOK, Staff, NEW r \in Runs, Start(r)
  PROVE  Staff'
<1>1. /\ ppc[r] = "none" /\ (r > 1 => ppc[r - 1] = "dead")
      /\ UNCHANGED <<kind, toServer>> /\ bound \in Runs \union {0}
      /\ ppc \in [Runs -> {"none", "recv", "pass", "dead"}]
      /\ MaxRuns \in Nat
  BY UdpServersAssumption DEF Start, TypeOK
<1>2. PICK p \in {"dead", "recv"} : ppc' = [ppc EXCEPT ![r] = p]
  BY DEF Start
<1>3. ppc'[r] = p /\ \A s \in Runs : s # r => ppc'[s] = ppc[s]
  BY <1>1, <1>2
<1>4. \A s \in Runs : ppc[s] # "none" => ppc'[s] = ppc[s]
  BY <1>1, <1>3
<1>5. \A a, b \in Runs : ppc'[a] # "none" /\ b < a => ppc'[b] = "dead"
  <2>. SUFFICES ASSUME NEW a \in Runs, NEW b \in Runs, ppc'[a] # "none", b < a
                PROVE  ppc[b] = "dead"
    BY <1>4
  <2>1. CASE a # r
    BY <1>3, <2>1 DEF Staff
  <2>2. CASE a = r
    <3>1. r - 1 \in Runs /\ ppc[r - 1] = "dead" /\ (b = r - 1 \/ b < r - 1)
      BY <1>1, <2>2 DEF Runs
    <3>. QED  BY <3>1 DEF Staff
  <2>. QED  BY <2>1, <2>2
<1>6. ASSUME NEW w \in Workers
      PROVE  /\ Living(w) => Living(w)'
             /\ Living(w)' => \/ Living(w)
                              \/ /\ w[1] = r /\ p = "recv" /\ (Piped \/ kind = "msgq")
                                 /\ Piped => w[2] = 1
             /\ ReceivesToo(w)' => kind = "msgq"
  <2>1. CASE wpc'[w] = wpc[w]
    BY <2>1 DEF Living, ReceivesToo, Staff
  <2>2. CASE wpc'[w] # wpc[w]
    <3>1. /\ w[1] = r /\ ppc' = [ppc EXCEPT ![r] = "recv"]
          /\ wpc'[w] \in {"read", "recv"} /\ (Piped \/ kind = "msgq")
          /\ Piped => w[2] = 1
          /\ wpc'[w] = "recv" => kind = "msgq"
      BY <2>2, Forked
    <3>2. p = "recv"
      BY <1>1, <1>3, <3>1
    <3>. QED  BY <3>1, <3>2 DEF Living, ReceivesToo
  <2>. QED  BY <2>1, <2>2
<1>7. \A w \in Workers : Living(w)' => /\ ppc'[w[1]] # "none" /\ (Piped \/ kind = "msgq")'
                                       /\ Piped' => w[2] = 1
  <2>. TAKE w \in Workers
  <2>1. w[1] \in Runs /\ (Piped' <=> Piped) /\ kind' = kind
    BY <1>1 DEF Workers, Piped
  <2>2. CASE Living(w)
    BY <1>4, <2>1, <2>2 DEF Staff
  <2>3. CASE ~ Living(w)
    BY <1>3, <1>6, <2>1, <2>3
  <2>. QED  BY <2>2, <2>3
<1>8. bound' \in Runs /\ (bound' # r => bound' = bound) /\ (bound' = r => bound = r \/ p = "recv")
  <2>1. CASE bound # 0 /\ ~ Piped
    BY <1>1, <2>1 DEF Start
  <2>2. CASE ~ (bound # 0 /\ ~ Piped)
    <3>1. ppc'[r] = "recv" /\ bound' = IF bound = 0 THEN r ELSE bound
      BY <1>1, <2>2 DEF Start
    <3>. QED  BY <1>1, <1>3, <3>1
  <2>. QED  BY <2>1, <2>2
<1>9. 0 \notin Runs
  BY <1>1 DEF Runs
<1>10. Receiving(bound)' \/ \E s \in 1 .. Children : Living(<<bound, s>>)'
  <2>1. CASE bound' = r /\ p = "recv"
    BY <1>3, <2>1 DEF Receiving
  <2>2. CASE bound' = bound
    <3>1. bound \in Runs /\ bound # 0
      BY <1>8, <1>9, <2>2
    <3>2. CASE Receiving(bound)
      BY <1>4, <2>2, <3>1, <3>2 DEF Receiving
    <3>3. CASE \E s \in 1 .. Children : Living(<<bound, s>>)
      <4>1. \A w \in Workers : Living(w) => wpc'[w] \in {"read", "send", "recv", "pass"}
        BY <1>6 DEF Living, ReceivesToo
      <4>2. \E s \in 1 .. Children : wpc'[<<bound', s>>] \in {"read", "send", "recv", "pass"}
        BY <2>2, <3>1, <3>3, <4>1 DEF Workers
      <4>. QED  BY <4>2 DEF Living, ReceivesToo
    <3>. QED  BY <3>1, <3>2, <3>3 DEF Staff
  <2>. QED  BY <1>8, <2>1, <2>2
<1>11. \A w \in Workers : ReceivesToo(w)' => kind' = "msgq"
  BY <1>1, <1>6
<1>. QED  BY <1>5, <1>7, <1>8, <1>9, <1>10, <1>11 DEF Staff

LEMMA StaffEnds ==
  ASSUME TypeOK, Staff,
         (\E r \in Runs : ParentEnds(r)) \/ (\E w \in Workers : WorkerEnds(w))
  PROVE  Staff'
<1>1. Release
  BY DEF ParentEnds, WorkerEnds
<1>2. kind' = kind /\ bound' \in {bound, 0} /\ (bound' = 0 => toServer' = <<>>)
  BY <1>1, ReleaseLoses
<1>3. /\ \A r \in Runs : ppc'[r] = ppc[r] \/ (ppc[r] # "none" /\ ppc'[r] = "dead")
      /\ \A w \in Workers : Living(w)' => Living(w)
      /\ \A w \in Workers : ReceivesToo(w)' => ReceivesToo(w)
  <2>1. CASE \E r \in Runs : ParentEnds(r)
    BY <2>1 DEF ParentEnds, Receiving, Living, ReceivesToo, TypeOK
  <2>2. CASE \E w \in Workers : WorkerEnds(w)
    BY <2>2 DEF WorkerEnds, Living, ReceivesToo, TypeOK
  <2>. QED  BY <2>1, <2>2
<1>4. \A r, s \in Runs : ppc'[r] # "none" /\ s < r => ppc'[s] = "dead"
  BY <1>3 DEF Staff
<1>5. \A w \in Workers : Living(w)' => /\ ppc'[w[1]] # "none" /\ (Piped \/ kind = "msgq")'
                                       /\ Piped' => w[2] = 1
  <2>. TAKE w \in Workers
  <2>1. w[1] \in Runs /\ (Piped' <=> Piped) /\ kind' = kind
    BY <1>2 DEF Workers, Piped
  <2>. QED  BY <1>3, <2>1 DEF Staff
<1>6. bound' # 0 => Receiving(bound)' \/ \E s \in 1 .. Children : Living(<<bound, s>>)'
  <2>1. bound' # 0 => bound' = bound
                      /\ \E r \in Runs : r = bound /\ (\/ Receiving(r)'
                                                      \/ \E s \in 1 .. Children : Living(<<r, s>>)')
    BY <1>1 DEF Release
  <2>. QED  BY <2>1 DEF Receiving, Living, ReceivesToo
<1>7. \A w \in Workers : ReceivesToo(w)' => kind' = "msgq"
  BY <1>2, <1>3 DEF Staff
<1>. QED  BY <1>2, <1>4, <1>5, <1>6, <1>7 DEF Staff

LEMMA StaffStep ==
  ASSUME TypeOK, Staff, [Next]_vars
  PROVE  Staff'
<1>1. CASE UNCHANGED vars
  BY <1>1 DEF vars, serverVars, Staff, Receiving, Living, ReceivesToo, Piped
<1>2. CASE \E c \in Clients : ClientStep(c, Listening) /\ UNCHANGED serverVars
  <2>1. bound = 0 => toServer' = <<>>
    BY <1>2 DEF Staff, Listening, ClientStep, SendLine, AlarmEarly, Enter, Timeout, Receive, Leave
  <2>2. /\ UNCHANGED <<kind, bound>> /\ \A r \in Runs : ppc'[r] = ppc[r]
        /\ \A w \in Workers : Living(w)' <=> Living(w)
        /\ \A w \in Workers : ReceivesToo(w)' => ReceivesToo(w)
    BY <1>2 DEF serverVars, Living, ReceivesToo
  <2>. QED  BY <2>1, <2>2, StaffSame DEF TypeOK
<1>3. ASSUME NEW r \in Runs, Recv(r) \/ AnswerSelf(r) \/ Pass(r)  PROVE Staff'
  <2>1. /\ UNCHANGED <<kind, bound, wpc>> /\ ppc[r] \in {"recv", "pass"}
        /\ \/ ppc' = ppc \/ ppc' = [ppc EXCEPT ![r] = "recv"]
           \/ ppc' = [ppc EXCEPT ![r] = "pass"]
    BY <1>3 DEF Recv, AnswerSelf, Pass
  <2>2. \A s \in Runs : ppc'[s] = ppc[s] \/ (Receiving(s) /\ Receiving(s)')
    BY <2>1 DEF Receiving, TypeOK
  <2>3. bound = 0 => toServer' = <<>>
    <3>1. 0 \notin Runs
      BY UdpServersAssumption DEF Runs
    <3>2. (bound = r \/ toServer' = toServer)
      BY <1>3 DEF Recv, AnswerSelf, Pass
    <3>. QED  BY <3>1, <3>2 DEF Staff
  <2>4. /\ \A w \in Workers : Living(w)' <=> Living(w)
        /\ \A w \in Workers : ReceivesToo(w)' => ReceivesToo(w)
    BY <2>1 DEF Living, ReceivesToo
  <2>. QED  BY <2>1, <2>2, <2>3, <2>4, StaffSame DEF TypeOK
<1>4. ASSUME NEW w \in Workers, WorkerStep(w)  PROVE Staff'
  <2>1. /\ UNCHANGED <<kind, bound, ppc>>
        /\ \/ /\ ReceivesToo(w) /\ (bound = w[1] \/ toServer' = toServer)
              /\ wpc' = [wpc EXCEPT ![w] = "recv"] \/ wpc' = [wpc EXCEPT ![w] = "pass"]
           \/ /\ wpc[w] \in {"read", "send"} /\ toServer' = toServer
              /\ wpc' = [wpc EXCEPT ![w] = "read"] \/ wpc' = [wpc EXCEPT ![w] = "send"]
    <3>1. CASE ChildRecv(w) \/ ChildPass(w)
      BY <3>1 DEF ChildRecv, ChildPass, ReceivesToo
    <3>2. CASE Take(w) \/ TakeEnd(w) \/ Answer(w)
      BY <3>2 DEF Take, TakeEnd, Answer
    <3>. QED  BY <1>4, <3>1, <3>2 DEF WorkerStep
  <2>2. /\ \A v \in Workers : Living(v)' <=> Living(v)
        /\ \A v \in Workers : ReceivesToo(v)' => ReceivesToo(v)
    BY <2>1 DEF Living, ReceivesToo, TypeOK
  <2>3. bound = 0 => toServer' = <<>>
    <3>1. 0 \notin Runs /\ w[1] \in Runs
      BY UdpServersAssumption DEF Runs, Workers
    <3>. QED  BY <2>1, <3>1 DEF Staff
  <2>. QED  BY <2>1, <2>2, <2>3, StaffSame DEF TypeOK
<1>5. CASE ServerStep
  <2>1. ASSUME NEW r \in Runs, PassKills(r)  PROVE ParentEnds(r)
    BY <2>1 DEF PassKills
  <2>. QED
    BY <1>3, <1>4, <1>5, <2>1, StaffStart, StaffEnds DEF ServerStep, ParentStep
<1>. QED  BY <1>1, <1>2, <1>5 DEF Next

-----------------------------------------------------------------------------
(* Nothing passes anything.                                                *)

\* The five places.
Printed == UNION {ToSet(Answers(c)) : c \in Clients}
Worked == UNION {Carried(w) : w \in Workers}
Queued == UNION {ToSet(queue[q]) : q \in Runs}
Held == UNION {ToSet(hold[r]) : r \in Runs}
Received == ToSet(toServer)

LEMMA PlacesAre ==
  /\ Places[1] = Printed /\ Places[2] = Worked /\ Places[3] = Queued
  /\ Places[4] = Held /\ Places[5] = Received
BY DEF Places, Printed, Worked, Queued, Held, Received

LEMMA PlacesNext ==
  /\ Places'[1] = Printed' /\ Places'[2] = Worked' /\ Places'[3] = Queued'
  /\ Places'[4] = Held' /\ Places'[5] = Received'
BY DEF Places, Printed, Worked, Queued, Held, Received

\* The parts of OneWay, by name.
LEMMA OneWayIs ==
  ASSUME OneWay
  PROVE  /\ Ahead(Printed, Worked) /\ Ahead(Printed, Queued) /\ Ahead(Printed, Held)
         /\ Ahead(Printed, Received) /\ Ahead(Worked, Queued) /\ Ahead(Worked, Held)
         /\ Ahead(Worked, Received) /\ Ahead(Queued, Held) /\ Ahead(Queued, Received)
         /\ Ahead(Held, Received)
<1>1. \A m, n \in 1 .. 5 : m < n => Ahead(Places[m], Places[n])
  BY DEF OneWay
<1>2. 1 < 2 /\ 1 < 3 /\ 1 < 4 /\ 1 < 5 /\ 2 < 3 /\ 2 < 4 /\ 2 < 5 /\ 3 < 4 /\ 3 < 5 /\ 4 < 5
  OBVIOUS
<1>3. 1 \in 1 .. 5 /\ 2 \in 1 .. 5 /\ 3 \in 1 .. 5 /\ 4 \in 1 .. 5 /\ 5 \in 1 .. 5
  OBVIOUS
<1>4. /\ Ahead(Places[1], Places[2]) /\ Ahead(Places[1], Places[3])
      /\ Ahead(Places[1], Places[4]) /\ Ahead(Places[1], Places[5])
      /\ Ahead(Places[2], Places[3]) /\ Ahead(Places[2], Places[4])
      /\ Ahead(Places[2], Places[5]) /\ Ahead(Places[3], Places[4])
      /\ Ahead(Places[3], Places[5]) /\ Ahead(Places[4], Places[5])
  BY <1>1, <1>2, <1>3
<1>. QED  BY <1>4, PlacesAre

\* OneWay is kept if something comes to one place as PlacesMoved has it, and
\* every sequence is still in turn.
LEMMA OneWayKept ==
  ASSUME OneWay, kind' = kind, NEW m \in 1 .. 5, NEW X,
         \A k \in 1 .. 5 : k # m => Places'[k] \subseteq Places[k],
         Places'[m] \subseteq Places[m] \union X,
         \A j \in 1 .. 5 : j < m => Ahead(Places'[j], X),
         \A k \in 1 .. 5 : m < k => Ahead(X, Places'[k]),
         \A v, w \in Workers : v # w => Ahead(Carried(v)', Carried(w)'),
         \A c \in Clients : InTurn(Answers(c)'),
         \A q \in Runs : /\ InTurn(queue'[q])
                         /\ queue'[q] # <<>> => q = 1 /\ kind # "echo",
         InTurn(toServer')
  PROVE  OneWay'
<1>1. \A j, k \in 1 .. 5 : j < k => Ahead(Places[j], Places[k])
  BY DEF OneWay
<1>2. \A j, k \in 1 .. 5 : j < k => Ahead(Places'[j], Places'[k])
  BY <1>1, PlacesMoved
<1>3. \A a, b : Precedes(a, b)' <=> Precedes(a, b)
  BY DEF Precedes
<1>4. \A j, k \in 1 .. 5 : j < k => Ahead(Places[j], Places[k])'
  BY <1>2, <1>3 DEF Ahead
<1>5. \A v, w \in Workers : v # w => Ahead(Carried(v), Carried(w))'
  BY <1>3 DEF Ahead
<1>6. \A c \in Clients : InTurn(Answers(c))'
  BY <1>3 DEF InTurn
<1>7. \A q \in Runs : InTurn(queue[q])'
  BY <1>3 DEF InTurn
<1>8. InTurn(toServer)'
  BY <1>3 DEF InTurn
<1>. QED  BY <1>4, <1>5, <1>6, <1>7, <1>8 DEF OneWay

LEMMA AheadNothing == \A S : Ahead(S, {}) /\ Ahead({}, S)
BY DEF Ahead

\* Nothing comes anywhere.
LEMMA OneWayLess ==
  ASSUME OneWay, kind' = kind,
         Printed' \subseteq Printed, Queued' \subseteq Queued,
         Held' \subseteq Held, Received' \subseteq Received,
         \A w \in Workers : Carried(w)' \subseteq Carried(w),
         \A c \in Clients : InTurn(Answers(c)'),
         \A q \in Runs : queue'[q] \in {queue[q], <<>>},
         InTurn(toServer')
  PROVE  OneWay'
<1>1. Worked' \subseteq Worked
  BY DEF Worked
<1>2. \A k \in 1 .. 5 : k # 1 => Places'[k] \subseteq Places[k]
  BY <1>1, PlacesAre, PlacesNext
<1>3. Places'[1] \subseteq Places[1] \union {}
  BY PlacesAre, PlacesNext
<1>4. \A v, w \in Workers : v # w => Ahead(Carried(v)', Carried(w)')
  BY AheadLess DEF OneWay
<1>5. \A q \in Runs : /\ InTurn(queue'[q])
                      /\ queue'[q] # <<>> => q = 1 /\ kind # "echo"
  BY InTurnNothing DEF OneWay
<1>6. 1 \in 1 .. 5 /\ \A j \in 1 .. 5 : ~ (j < 1)
  OBVIOUS
<1>. QED  BY <1>2, <1>3, <1>4, <1>5, <1>6, AheadNothing, OneWayKept

\* What holds of the processes of a relay that has not lost a parent.
LEMMA Unorphaned ==
  ASSUME TypeOK, Staff, ~ Orphaned
  PROVE  /\ \A r, s \in Runs : Receiving(r) /\ Receiving(s) => r = s
         /\ Piped => \A r \in Runs : ppc[r] # "none" => r = 1
         /\ Piped => \A v, w \in Workers : Living(v) /\ Living(w) => v = w
         /\ \A r \in Runs : ppc[r] # "none" => QueueOf(r) = 1
         /\ \A w \in Workers : Living(w) /\ Piped => Writers(QueueOf(w[1])) # {}
<1>1. MaxRuns \in Nat /\ Runs = 1 .. MaxRuns
  BY UdpServersAssumption DEF Runs
<1>2. \A r, s \in Runs : Receiving(r) /\ Receiving(s) => r = s
  <2>. SUFFICES ASSUME NEW r \in Runs, NEW s \in Runs, Receiving(r), Receiving(s), r # s
                PROVE  FALSE
    OBVIOUS
  <2>1. ppc[r] # "none" /\ ppc[s] # "none" /\ ppc[r] # "dead" /\ ppc[s] # "dead"
    BY DEF Receiving
  <2>2. r < s \/ s < r
    BY <1>1
  <2>. QED  BY <2>1, <2>2 DEF Staff
<1>3. ASSUME Piped, NEW r \in Runs, ppc[r] # "none"  PROVE r = 1
  <2>1. 1 \in Runs /\ (r = 1 \/ 1 < r)
    BY <1>1
  <2>. QED  BY <1>3, <2>1 DEF Staff, Orphaned
<1>4. ASSUME Piped, NEW v \in Workers, Living(v)  PROVE v = <<1, 1>>
  <2>1. v[1] \in Runs /\ v = <<v[1], v[2]>>
    BY DEF Workers
  <2>2. ppc[v[1]] # "none" /\ v[2] = 1
    BY <1>4 DEF Staff
  <2>. QED  BY <1>3, <1>4, <2>1, <2>2
<1>5. \A r \in Runs : ppc[r] # "none" => QueueOf(r) = 1
  BY <1>3 DEF QueueOf, Piped
<1>6. ASSUME NEW w \in Workers, Living(w), Piped  PROVE Writers(QueueOf(w[1])) # {}
  <2>1. w = <<1, 1>> /\ w[1] = 1 /\ w[1] \in Runs
    BY <1>4, <1>6 DEF Workers
  <2>2. ppc[1] # "none" /\ ppc[1] # "dead"
    BY <1>6, <2>1 DEF Staff, Orphaned
  <2>3. Receiving(1)
    BY <2>1, <2>2 DEF Receiving, TypeOK
  <2>. QED  BY <2>1, <2>3 DEF Writers
<1>. QED  BY <1>2, <1>3, <1>4, <1>5, <1>6

\* Only one parent has a datagram.
LEMMA HeldBy ==
  ASSUME TypeOK, Sound, Staff, ~ Orphaned, NEW r \in Runs, Receiving(r)
  PROVE  \A s \in Runs : s # r => ToSet(hold[s]) = {}
<1>. SUFFICES ASSUME NEW s \in Runs, s # r  PROVE ToSet(hold[s]) = {}
  OBVIOUS
<1>1. ppc[s] # "pass"
  <2>1. ~ Receiving(s)
    BY Unorphaned
  <2>. QED  BY <2>1 DEF Receiving
<1>. QED  BY <1>1, HeldNone

\* The sequences that do not change remain in turn.
LEMMA StillInTurn ==
  ASSUME OneWay
  PROVE  /\ toClient' = toClient /\ got' = got => \A c \in Clients : InTurn(Answers(c)')
         /\ toServer' = toServer => InTurn(toServer')
         /\ queue' = queue => \A q \in Runs : /\ InTurn(queue'[q])
                                              /\ queue'[q] # <<>> => q = 1 /\ kind # "echo"
BY DEF OneWay, Answers

\* The places that do not change.
LEMMA StillThere ==
  /\ toClient' = toClient /\ got' = got => Printed' = Printed
  /\ wpc' = wpc /\ pmsg' = pmsg => \A w \in Workers : Carried(w)' = Carried(w)
  /\ wpc' = wpc /\ pmsg' = pmsg => Worked' = Worked
  /\ queue' = queue => Queued' = Queued
  /\ hold' = hold => Held' = Held
  /\ toServer' = toServer => Received' = Received
BY DEF Printed, Answers, Worked, Carried, Queued, Held, Received

\* Who has given a datagram away has none.
LEMMA HeldNext ==
  ASSUME TypeOK, Sound, Staff, ~ Orphaned, NEW r \in Runs, Receiving(r),
         hold' = [hold EXCEPT ![r] = <<>>]
  PROVE  Held' = {}
<1>1. hold'[r] = <<>> /\ \A s \in Runs : s # r => hold'[s] = hold[s]
  BY DEF TypeOK
<1>2. \A s \in Runs : ToSet(hold'[s]) = {}
  BY <1>1, HeldBy, NoElements
<1>. QED  BY <1>2 DEF Held

LEMMA OneWayRecv ==
  ASSUME TypeOK, Sound, Staff, ~ Orphaned, OneWay, UNCHANGED clientVars,
         NEW r \in Runs, Recv(r)
  PROVE  OneWay'
<1>. DEFINE x == Head(toServer)
<1>1. /\ toServer \in Seq(Datagrams) /\ toServer # <<>> /\ toServer' = Tail(toServer)
      /\ UNCHANGED <<kind, bound, queue, wpc, pmsg, toClient, got>>
      /\ hold' = hold \/ hold' = [hold EXCEPT ![r] = <<x>>]
  BY DEF Recv, TypeOK, TypeClients, clientVars
<1>2. /\ x \in Received /\ x \in Datagrams /\ Received' \subseteq Received
  BY <1>1, WithoutFirst DEF Received
<1>3. InTurn(Tail(toServer)) /\ Ahead({x}, ToSet(Tail(toServer)))
  BY <1>1, InTurnTail DEF OneWay
<1>4. InTurn(toServer') /\ Ahead({x}, Received')
  BY <1>1, <1>3 DEF Received
<1>. HIDE DEF x
<1>5. Held' \subseteq Held \union {x}
  <2>1. \A s \in Runs : hold'[s] = hold[s] \/ hold'[s] = <<x>>
    BY <1>1 DEF TypeOK
  <2>2. ToSet(<<x>>) = {x}
    BY <1>2, OneElement
  <2>3. \A s \in Runs : ToSet(hold'[s]) \subseteq ToSet(hold[s]) \union {x}
    BY <2>1, <2>2
  <2>. QED  BY <2>3 DEF Held
<1>6. Ahead(Printed, {x}) /\ Ahead(Worked, {x}) /\ Ahead(Queued, {x})
  BY <1>2, OneWayIs, AheadLess
<1>7. Printed' = Printed /\ Worked' = Worked /\ Queued' = Queued
  BY <1>1, StillThere
<1>8. \A k \in 1 .. 5 : k # 4 => Places'[k] \subseteq Places[k]
  BY <1>2, <1>7, PlacesAre, PlacesNext
<1>9. Places'[4] \subseteq Places[4] \union {x}
  BY <1>5, PlacesAre, PlacesNext
<1>10. \A j \in 1 .. 5 : j < 4 => Ahead(Places'[j], {x})
  BY <1>6, <1>7, PlacesNext
<1>11. \A k \in 1 .. 5 : 4 < k => Ahead({x}, Places'[k])
  BY <1>4, PlacesNext
<1>12. \A v, w \in Workers : v # w => Ahead(Carried(v)', Carried(w)')
  BY <1>1, StillThere DEF OneWay
<1>13. 4 \in 1 .. 5 /\ kind' = kind
  BY <1>1
<1>14. /\ \A c \in Clients : InTurn(Answers(c)')
       /\ \A q \in Runs : InTurn(queue'[q]) /\ (queue'[q] # <<>> => q = 1 /\ kind # "echo")
  BY <1>1, StillInTurn
<1>. QED  BY <1>4, <1>8, <1>9, <1>10, <1>11, <1>12, <1>13, <1>14, OneWayKept

LEMMA OneWayPass ==
  ASSUME TypeOK, Sound, Staff, ~ Orphaned, OneWay, UNCHANGED clientVars,
         NEW r \in Runs, Pass(r)
  PROVE  OneWay'
<1>. DEFINE x == hold[r][1]
<1>1. /\ ppc[r] = "pass" /\ Receiving(r) /\ kind # "echo"
      /\ UNCHANGED <<kind, wpc, pmsg, toServer, toClient, got>>
      /\ hold' = [hold EXCEPT ![r] = <<>>]
  BY DEF Pass, Receiving, clientVars
<1>2. x \in Datagrams /\ x \in Held /\ QueueOf(r) = 1 /\ 1 \in Runs
  <2>1. ppc[r] # "none"
    BY <1>1
  <2>2. QueueOf(r) = 1
    BY <2>1, Unorphaned
  <2>3. ToSet(hold[r]) = {x} /\ x \in Datagrams
    BY <1>1, HeldOne
  <2>. QED  BY <2>2, <2>3, QueueIs DEF Held
<1>3. /\ queue \in [Runs -> Seq(Datagrams)] /\ queue' = [queue EXCEPT ![1] = Append(@, x)]
  BY <1>2 DEF Pass, TypeOK
<1>. HIDE DEF x
<1>4. Held' = {}
  BY <1>1, HeldNext
<1>5. /\ Ahead(Printed, {x}) /\ Ahead(Worked, {x}) /\ Ahead(Queued, {x})
      /\ Ahead({x}, Received)
  BY <1>2, OneWayIs, AheadLess
<1>6. /\ ToSet(Append(queue[1], x)) = ToSet(queue[1]) \union {x}
      /\ InTurn(Append(queue[1], x))
  <2>1. InTurn(queue[1]) /\ ToSet(queue[1]) \subseteq Queued /\ queue[1] \in Seq(Datagrams)
    BY <1>2, <1>3 DEF OneWay, Queued
  <2>2. Ahead(ToSet(queue[1]), {x})
    BY <1>5, <2>1, AheadLess
  <2>. QED  BY <1>2, <2>1, <2>2, Behind, InTurnBehind
<1>7. queue'[1] = Append(queue[1], x) /\ \A q \in Runs : q # 1 => queue'[q] = queue[q]
  BY <1>2, <1>3
<1>8. Queued' \subseteq Queued \union {x}
  <2>1. \A q \in Runs : ToSet(queue'[q]) \subseteq ToSet(queue[q]) \union {x}
    BY <1>6, <1>7
  <2>. QED  BY <2>1 DEF Queued
<1>9. \A q \in Runs : InTurn(queue'[q]) /\ (queue'[q] # <<>> => q = 1 /\ kind # "echo")
  BY <1>1, <1>6, <1>7 DEF OneWay
<1>10. Printed' = Printed /\ Worked' = Worked /\ Received' = Received
  BY <1>1, StillThere
<1>11. \A k \in 1 .. 5 : k # 3 => Places'[k] \subseteq Places[k]
  BY <1>4, <1>10, PlacesAre, PlacesNext
<1>12. Places'[3] \subseteq Places[3] \union {x}
  BY <1>8, PlacesAre, PlacesNext
<1>13. \A j \in 1 .. 5 : j < 3 => Ahead(Places'[j], {x})
  BY <1>5, <1>10, PlacesNext
<1>14. \A k \in 1 .. 5 : 3 < k => Ahead({x}, Places'[k])
  BY <1>4, <1>5, <1>10, AheadNothing, PlacesNext
<1>15. \A v, w \in Workers : v # w => Ahead(Carried(v)', Carried(w)')
  BY <1>1, StillThere DEF OneWay
<1>16. 3 \in 1 .. 5 /\ kind' = kind
  BY <1>1
<1>17. (\A c \in Clients : InTurn(Answers(c)')) /\ InTurn(toServer')
  BY <1>1, StillInTurn
<1>. QED  BY <1>9, <1>11, <1>12, <1>13, <1>14, <1>15, <1>16, <1>17, OneWayKept

\* Behind the message queue what is ahead may as well be behind.
LEMMA AheadEither ==
  ASSUME kind = "msgq", NEW S, NEW T, Ahead(S, T)
  PROVE  Ahead(T, S)
BY DEF Ahead, Precedes

LEMMA OneWayChildRecv ==
  ASSUME TypeOK, Staff, OneWay, UNCHANGED clientVars, NEW w \in Workers, ChildRecv(w)
  PROVE  OneWay'
<1>. DEFINE x == Head(toServer)
<1>1. /\ kind = "msgq" /\ toServer \in Seq(Datagrams) /\ toServer # <<>>
      /\ toServer' = Tail(toServer)
      /\ pmsg' = [pmsg EXCEPT ![w] = <<x>>] /\ wpc' = [wpc EXCEPT ![w] = "pass"]
      /\ UNCHANGED <<kind, queue, hold, toClient, got>>
  BY DEF ChildRecv, ReceivesToo, Staff, TypeOK, TypeClients, clientVars
<1>2. x \in Received /\ x \in Datagrams /\ Received' \subseteq Received
  BY <1>1, WithoutFirst DEF Received
<1>3. InTurn(Tail(toServer)) /\ Ahead({x}, ToSet(Tail(toServer)))
  BY <1>1, InTurnTail DEF OneWay
<1>4. InTurn(toServer') /\ Ahead({x}, Received')
  BY <1>1, <1>3 DEF Received
<1>. HIDE DEF x
<1>5. Carried(w)' = {x} /\ \A v \in Workers : v # w => Carried(v)' = Carried(v)
  <2>1. ToSet(<<x>>) = {x}
    BY <1>2, OneElement
  <2>2. /\ wpc'[w] = "pass" /\ pmsg'[w] = <<x>>
        /\ \A v \in Workers : v # w => wpc'[v] = wpc[v] /\ pmsg'[v] = pmsg[v]
    BY <1>1 DEF TypeOK
  <2>. QED  BY <2>1, <2>2 DEF Carried
<1>6. /\ Ahead(Printed, {x}) /\ Ahead(Worked, {x}) /\ Ahead(Queued, {x})
      /\ Ahead(Held, {x})
  BY <1>2, OneWayIs, AheadLess
<1>7. Ahead({x}, Queued) /\ Ahead({x}, Held)
  BY <1>1, <1>6, AheadEither
<1>8. \A u, v \in Workers : u # v => Ahead(Carried(u)', Carried(v)')
  <2>1. ASSUME NEW v \in Workers
        PROVE  Ahead(Carried(v), {x}) /\ Ahead({x}, Carried(v))
    <3>1. Carried(v) \subseteq Worked
      BY DEF Worked
    <3>. QED  BY <1>1, <1>6, <3>1, AheadLess, AheadEither
  <2>2. \A u, v \in Workers : u # v => Ahead(Carried(u), Carried(v))
    BY DEF OneWay
  <2>. TAKE u, v \in Workers
  <2>. HAVE u # v
  <2>3. CASE u = w
    BY <1>5, <2>1, <2>3
  <2>4. CASE v = w
    BY <1>5, <2>1, <2>4
  <2>5. CASE u # w /\ v # w
    BY <1>5, <2>2, <2>5
  <2>. QED  BY <2>3, <2>4, <2>5
<1>9. Worked' \subseteq Worked \union {x}
  BY <1>5 DEF Worked
<1>10. Printed' = Printed /\ Queued' = Queued /\ Held' = Held
  BY <1>1, StillThere
<1>11. \A k \in 1 .. 5 : k # 2 => Places'[k] \subseteq Places[k]
  BY <1>2, <1>10, PlacesAre, PlacesNext
<1>12. Places'[2] \subseteq Places[2] \union {x}
  BY <1>9, PlacesAre, PlacesNext
<1>13. \A j \in 1 .. 5 : j < 2 => Ahead(Places'[j], {x})
  BY <1>6, <1>10, PlacesNext
<1>14. \A k \in 1 .. 5 : 2 < k => Ahead({x}, Places'[k])
  BY <1>4, <1>7, <1>10, PlacesNext
<1>15. 2 \in 1 .. 5 /\ kind' = kind
  BY <1>1
<1>16. /\ \A c \in Clients : InTurn(Answers(c)')
       /\ \A q \in Runs : InTurn(queue'[q]) /\ (queue'[q] # <<>> => q = 1 /\ kind # "echo")
  BY <1>1, StillInTurn
<1>. QED  BY <1>4, <1>8, <1>11, <1>12, <1>13, <1>14, <1>15, <1>16, OneWayKept

LEMMA OneWayChildPass ==
  ASSUME TypeOK, Sound, Ready, Staff, OneWay, UNCHANGED clientVars,
         NEW w \in Workers, ChildPass(w)
  PROVE  OneWay'
<1>. DEFINE x == pmsg[w][1]
<1>1. /\ kind = "msgq" /\ wpc[w] = "pass" /\ pmsg[w] # <<>>
      /\ pmsg' = [pmsg EXCEPT ![w] = <<>>] /\ wpc' = [wpc EXCEPT ![w] = "recv"]
      /\ UNCHANGED <<kind, hold, toServer, toClient, got>>
  BY DEF ChildPass, Ready, ReceivesToo, Staff, clientVars
<1>2. QueueOf(w[1]) = 1 /\ 1 \in Runs
  <2>1. w[1] \in Runs /\ QueueOf(w[1]) = 1
    BY <1>1 DEF Workers, QueueOf
  <2>. QED  BY <2>1, QueueIs
<1>3. queue \in [Runs -> Seq(Datagrams)] /\ queue' = [queue EXCEPT ![1] = Append(@, x)]
  BY <1>2 DEF ChildPass, TypeOK
<1>4. x \in Datagrams /\ x \in Carried(w)
  BY <1>1, CarriedOne DEF Carried
<1>. HIDE DEF x
<1>5. Carried(w)' = {} /\ \A v \in Workers : v # w => Carried(v)' = Carried(v)
  <2>1. /\ wpc'[w] = "recv"
        /\ \A v \in Workers : v # w => wpc'[v] = wpc[v] /\ pmsg'[v] = pmsg[v]
    BY <1>1 DEF TypeOK
  <2>. QED  BY <2>1 DEF Carried
<1>6. \A v \in Workers : Carried(v)' \subseteq Carried(v)
  BY <1>5
<1>7. Worked' \subseteq Worked /\ x \in Worked
  BY <1>4, <1>6 DEF Worked
<1>8. Ahead(Worked', {x})
  <2>1. \A v \in Workers : v # w => Ahead(Carried(v), {x})
    BY <1>4, AheadLess DEF OneWay
  <2>2. \A v \in Workers : Ahead(Carried(v)', {x})
    BY <1>5, <2>1, AheadNothing
  <2>. QED  BY <2>2 DEF Worked, Ahead
<1>9. /\ Ahead(Printed, {x}) /\ Ahead({x}, Queued) /\ Ahead({x}, Held)
      /\ Ahead({x}, Received)
  BY <1>7, OneWayIs, AheadLess
<1>10. /\ ToSet(Append(queue[1], x)) = ToSet(queue[1]) \union {x}
       /\ InTurn(Append(queue[1], x))
  <2>1. InTurn(queue[1]) /\ ToSet(queue[1]) \subseteq Queued /\ queue[1] \in Seq(Datagrams)
    BY <1>2, <1>3 DEF OneWay, Queued
  <2>2. Ahead(ToSet(queue[1]), {x})
    BY <1>1, <1>9, <2>1, AheadLess, AheadEither
  <2>. QED  BY <1>4, <2>1, <2>2, Behind, InTurnBehind
<1>11. queue'[1] = Append(queue[1], x) /\ \A q \in Runs : q # 1 => queue'[q] = queue[q]
  BY <1>2, <1>3
<1>12. Queued' \subseteq Queued \union {x}
  <2>1. \A q \in Runs : ToSet(queue'[q]) \subseteq ToSet(queue[q]) \union {x}
    BY <1>10, <1>11
  <2>. QED  BY <2>1 DEF Queued
<1>13. \A q \in Runs : InTurn(queue'[q]) /\ (queue'[q] # <<>> => q = 1 /\ kind # "echo")
  BY <1>1, <1>10, <1>11 DEF OneWay
<1>14. Printed' = Printed /\ Held' = Held /\ Received' = Received
  BY <1>1, StillThere
<1>15. \A k \in 1 .. 5 : k # 3 => Places'[k] \subseteq Places[k]
  BY <1>7, <1>14, PlacesAre, PlacesNext
<1>16. Places'[3] \subseteq Places[3] \union {x}
  BY <1>12, PlacesAre, PlacesNext
<1>17. \A j \in 1 .. 5 : j < 3 => Ahead(Places'[j], {x})
  BY <1>8, <1>9, <1>14, PlacesNext
<1>18. \A k \in 1 .. 5 : 3 < k => Ahead({x}, Places'[k])
  BY <1>9, <1>14, PlacesNext
<1>19. \A u, v \in Workers : u # v => Ahead(Carried(u)', Carried(v)')
  BY <1>6, AheadLess DEF OneWay
<1>20. 3 \in 1 .. 5 /\ kind' = kind
  BY <1>1
<1>21. (\A c \in Clients : InTurn(Answers(c)')) /\ InTurn(toServer')
  BY <1>1, StillInTurn
<1>. QED  BY <1>13, <1>15, <1>16, <1>17, <1>18, <1>19, <1>20, <1>21, OneWayKept

LEMMA OneWayTake ==
  ASSUME TypeOK, Sound, Staff, ~ Orphaned, OneWay, UNCHANGED clientVars,
         NEW w \in Workers, Take(w)
  PROVE  OneWay'
<1>. DEFINE x == Head(queue[1])
<1>1. Living(w) /\ w[1] \in Runs
  BY DEF Take, Living, Workers
<1>2. QueueOf(w[1]) = 1 /\ 1 \in Runs
  BY <1>1, QueueIs, Unorphaned DEF Staff
<1>3. /\ queue \in [Runs -> Seq(Datagrams)] /\ queue' = [queue EXCEPT ![1] = Tail(@)]
      /\ queue[1] # <<>> /\ pmsg' = [pmsg EXCEPT ![w] = <<x>>]
      /\ wpc' = [wpc EXCEPT ![w] = "send"]
      /\ UNCHANGED <<kind, hold, toServer, toClient, got>>
  BY <1>2 DEF Take, TypeOK, clientVars
<1>4. queue[1] \in Seq(Datagrams) /\ InTurn(queue[1])
  BY <1>2, <1>3 DEF OneWay
<1>5. /\ x \in ToSet(queue[1]) /\ x \in Datagrams
      /\ ToSet(Tail(queue[1])) \subseteq ToSet(queue[1])
  BY <1>3, <1>4, WithoutFirst
<1>6. InTurn(Tail(queue[1])) /\ Ahead({x}, ToSet(Tail(queue[1])))
  BY <1>3, <1>4, InTurnTail
<1>7. queue'[1] = Tail(queue[1]) /\ \A q \in Runs : q # 1 => queue'[q] = <<>>
  BY <1>2, <1>3 DEF OneWay
<1>. HIDE DEF x
<1>8. Queued' = ToSet(Tail(queue[1])) /\ Queued' \subseteq Queued /\ x \in Queued
  <2>1. \A q \in Runs : q # 1 => ToSet(queue'[q]) = {}
    BY <1>7, NoElements
  <2>2. Queued' = ToSet(queue'[1])
    BY <1>2, <2>1 DEF Queued
  <2>3. ToSet(queue[1]) \subseteq Queued
    BY <1>2 DEF Queued
  <2>. QED  BY <1>5, <1>7, <2>2, <2>3
<1>9. /\ Carried(w)' = {x} /\ \A v \in Workers : v # w => Carried(v)' = Carried(v)
  <2>1. ToSet(<<x>>) = {x}
    BY <1>5, OneElement
  <2>2. /\ wpc'[w] = "send" /\ pmsg'[w] = <<x>>
        /\ \A v \in Workers : v # w => wpc'[v] = wpc[v] /\ pmsg'[v] = pmsg[v]
    BY <1>3 DEF TypeOK
  <2>. QED  BY <2>1, <2>2 DEF Carried
<1>10. /\ Ahead(Printed, {x}) /\ Ahead(Worked, {x}) /\ Ahead({x}, Queued')
       /\ Ahead({x}, Held) /\ Ahead({x}, Received)
  BY <1>6, <1>8, OneWayIs, AheadLess
<1>11. \A u, v \in Workers : u # v => Ahead(Carried(u)', Carried(v)')
  <2>1. ASSUME NEW v \in Workers, v # w
        PROVE  Ahead(Carried(v), {x}) /\ Ahead({x}, Carried(v))
    <3>1. Ahead(Carried(v), {x})
      <4>1. Carried(v) \subseteq Worked
        BY DEF Worked
      <4>. QED  BY <1>10, <4>1, AheadLess
    <3>2. CASE kind = "msgq"
      BY <3>1, <3>2 DEF Ahead, Precedes
    <3>3. CASE kind # "msgq"
      <4>1. Piped
        BY <1>1, <3>3 DEF Staff
      <4>2. ~ Living(v)
        BY <1>1, <2>1, <4>1, Unorphaned
      <4>3. Carried(v) = {}
        BY <4>2 DEF Living, ReceivesToo, Carried
      <4>. QED  BY <3>1, <4>3, AheadNothing
    <3>. QED  BY <3>1, <3>2, <3>3
  <2>2. \A u, v \in Workers : u # v => Ahead(Carried(u), Carried(v))
    BY DEF OneWay
  <2>. TAKE u, v \in Workers
  <2>. HAVE u # v
  <2>3. CASE u = w
    BY <1>9, <2>1, <2>3
  <2>4. CASE v = w
    BY <1>9, <2>1, <2>4
  <2>5. CASE u # w /\ v # w
    BY <1>9, <2>2, <2>5
  <2>. QED  BY <2>3, <2>4, <2>5
<1>12. Worked' \subseteq Worked \union {x}
  BY <1>9 DEF Worked
<1>13. Printed' = Printed /\ Held' = Held /\ Received' = Received
  BY <1>3, StillThere
<1>14. \A k \in 1 .. 5 : k # 2 => Places'[k] \subseteq Places[k]
  BY <1>8, <1>13, PlacesAre, PlacesNext
<1>15. Places'[2] \subseteq Places[2] \union {x}
  BY <1>12, PlacesAre, PlacesNext
<1>16. \A j \in 1 .. 5 : j < 2 => Ahead(Places'[j], {x})
  BY <1>10, <1>13, PlacesNext
<1>17. \A k \in 1 .. 5 : 2 < k => Ahead({x}, Places'[k])
  BY <1>10, <1>13, PlacesNext
<1>18. \A q \in Runs : InTurn(queue'[q]) /\ (queue'[q] # <<>> => q = 1 /\ kind # "echo")
  BY <1>2, <1>3, <1>6, <1>7, InTurnNothing DEF OneWay
<1>19. 2 \in 1 .. 5 /\ kind' = kind
  BY <1>3
<1>20. (\A c \in Clients : InTurn(Answers(c)')) /\ InTurn(toServer')
  BY <1>3, StillInTurn
<1>. QED  BY <1>11, <1>14, <1>15, <1>16, <1>17, <1>18, <1>19, <1>20, OneWayKept

\* An answer, by the server itself or by a worker, from a place x was in, to
\* the place behind which there is none.
LEMMA OneWayAnswer ==
  ASSUME TypeOK, OneWay, UNCHANGED <<kind, queue, toServer>>, UNCHANGED clientVars,
         NEW x \in Datagrams, NEW p, Deliver(x, p), Ahead(Printed, {x}),
         Worked' \subseteq Worked, Held' \subseteq Held,
         Ahead({x}, Worked'), Ahead({x}, Queued), Ahead({x}, Held'), Ahead({x}, Received),
         \A v, w \in Workers : v # w => Ahead(Carried(v)', Carried(w)')
  PROVE  OneWay'
<1>1. \A c \in Clients : \/ toClient'[c] = toClient[c]
                         \/ c = x[1] /\ toClient'[c] = Append(toClient[c], x)
  BY Delivered
<1>2. ASSUME NEW c \in Clients
      PROVE  /\ Answers(c) \in Seq(Datagrams) /\ InTurn(Answers(c)')
             /\ Answers(c)' \in {Answers(c), Append(Answers(c), x)}
  <2>1. got' = got /\ got[c] \in Texts /\ toClient[c] \in Texts
    BY DEF TypeOK, TypeClients, clientVars, Texts
  <2>2. Answers(c) \in Seq(Datagrams)
    BY <2>1, ConcatProperties DEF Texts, Answers
  <2>3. Answers(c)' \in {Answers(c), Append(Answers(c), x)}
    <3>1. got[c] \o Append(toClient[c], x) = Append(got[c] \o toClient[c], x)
      BY <2>1, JoinedBehind
    <3>. QED  BY <1>1, <2>1, <3>1 DEF Answers
  <2>4. InTurn(Answers(c))
    BY DEF OneWay
  <2>5. ToSet(Answers(c)) \subseteq Printed
    BY DEF Printed
  <2>6. InTurn(Append(Answers(c), x))
    <3>1. Ahead(ToSet(Answers(c)), {x})
      BY <2>5, AheadLess
    <3>. QED  BY <2>2, <2>4, <3>1, InTurnBehind
  <2>. QED  BY <2>2, <2>3, <2>4, <2>6
<1>3. Printed' \subseteq Printed \union {x}
  <2>1. ASSUME NEW c \in Clients  PROVE ToSet(Answers(c)') \subseteq ToSet(Answers(c)) \union {x}
    <3>1. ToSet(Append(Answers(c), x)) = ToSet(Answers(c)) \union {x}
      BY <1>2, Behind
    <3>. QED  BY <1>2, <3>1
  <2>. QED  BY <2>1 DEF Printed
<1>4. Queued' = Queued /\ Received' = Received
  BY StillThere
<1>5. \A k \in 1 .. 5 : k # 1 => Places'[k] \subseteq Places[k]
  BY <1>4, PlacesAre, PlacesNext
<1>6. Places'[1] \subseteq Places[1] \union {x}
  BY <1>3, PlacesAre, PlacesNext
<1>7. \A j \in 1 .. 5 : j < 1 => Ahead(Places'[j], {x})
  OBVIOUS
<1>8. \A k \in 1 .. 5 : 1 < k => Ahead({x}, Places'[k])
  BY <1>4, PlacesNext
<1>9. /\ \A q \in Runs : InTurn(queue'[q]) /\ (queue'[q] # <<>> => q = 1 /\ kind # "echo")
      /\ InTurn(toServer')
  BY StillInTurn
<1>10. 1 \in 1 .. 5 /\ kind' = kind
  OBVIOUS
<1>. QED  BY <1>2, <1>5, <1>6, <1>7, <1>8, <1>9, <1>10, OneWayKept

LEMMA OneWayAnswerSelf ==
  ASSUME TypeOK, Sound, Staff, ~ Orphaned, OneWay, UNCHANGED clientVars,
         NEW r \in Runs, AnswerSelf(r)
  PROVE  OneWay'
<1>. DEFINE x == hold[r][1]
<1>1. /\ ppc[r] = "pass" /\ kind = "echo" /\ Deliver(x, TRUE)
      /\ hold' = [hold EXCEPT ![r] = <<>>]
      /\ UNCHANGED <<kind, queue, wpc, pmsg, toServer>>
  BY DEF AnswerSelf
<1>2. x \in Datagrams /\ x \in Held /\ Receiving(r)
  <2>1. ToSet(hold[r]) = {x} /\ x \in Datagrams
    BY <1>1, HeldOne
  <2>2. Receiving(r)
    BY <1>1 DEF Receiving
  <2>. QED  BY <2>1, <2>2 DEF Held
<1>. HIDE DEF x
<1>3. Held' = {}
  BY <1>1, <1>2, HeldNext
<1>4. \A w \in Workers : Carried(w) = {} /\ Carried(w)' = {}
  <2>1. \A w \in Workers : ~ Living(w)
    BY <1>1 DEF Staff, Piped
  <2>. QED  BY <1>1, <2>1 DEF Living, ReceivesToo, Carried
<1>5. Worked = {} /\ Worked' = {}
  BY <1>4 DEF Worked
<1>6. Queued = {}
  <2>1. \A q \in Runs : queue[q] = <<>>
    BY <1>1 DEF OneWay
  <2>. QED  BY <2>1, NoElements DEF Queued
<1>7. Ahead(Printed, {x}) /\ Ahead({x}, Received)
  BY <1>2, OneWayIs, AheadLess
<1>8. /\ Worked' \subseteq Worked /\ Held' \subseteq Held
      /\ Ahead({x}, Worked') /\ Ahead({x}, Queued) /\ Ahead({x}, Held')
      /\ \A v, w \in Workers : v # w => Ahead(Carried(v)', Carried(w)')
  BY <1>3, <1>4, <1>5, <1>6, AheadNothing
<1>9. UNCHANGED <<kind, queue, toServer>>
  BY <1>1
<1>. QED  BY <1>1, <1>2, <1>7, <1>8, <1>9, OneWayAnswer

LEMMA OneWayWorker ==
  ASSUME TypeOK, Sound, Staff, ~ Orphaned, OneWay, UNCHANGED clientVars,
         NEW w \in Workers, Answer(w)
  PROVE  OneWay'
<1>1. /\ wpc[w] = "send" /\ wpc' = [wpc EXCEPT ![w] = "read"]
      /\ pmsg' \in {pmsg, [pmsg EXCEPT ![w] = <<>>]}
      /\ UNCHANGED <<kind, queue, hold, toServer, got>>
  BY DEF Answer, TypeOK, clientVars
<1>2. Carried(w)' = {} /\ \A v \in Workers : v # w => Carried(v)' = Carried(v)
  <2>1. /\ wpc'[w] = "read"
        /\ \A v \in Workers : v # w => wpc'[v] = wpc[v] /\ pmsg'[v] = pmsg[v]
    BY <1>1 DEF TypeOK
  <2>. QED  BY <2>1 DEF Carried
<1>3. \A v \in Workers : Carried(v)' \subseteq Carried(v)
  BY <1>2
<1>4. Worked' \subseteq Worked
  BY <1>3 DEF Worked
<1>5. \A u, v \in Workers : u # v => Ahead(Carried(u)', Carried(v)')
  BY <1>3, AheadLess DEF OneWay
<1>6. CASE pmsg[w] = <<>>
  <2>1. toClient' = toClient
    BY <1>6 DEF Answer
  <2>2. /\ Printed' = Printed /\ Queued' = Queued /\ Held' = Held /\ Received' = Received
    BY <1>1, <2>1, StillThere
  <2>3. (\A c \in Clients : InTurn(Answers(c)')) /\ InTurn(toServer')
    BY <1>1, <2>1, StillInTurn
  <2>4. \A q \in Runs : queue'[q] \in {queue[q], <<>>}
    BY <1>1
  <2>. QED  BY <1>1, <1>3, <2>2, <2>3, <2>4, OneWayLess
<1>7. CASE pmsg[w] # <<>>
  <2>. DEFINE x == pmsg[w][1]
  <2>1. Deliver(x, bound = w[1])
    BY <1>7 DEF Answer
  <2>2. x \in Datagrams /\ x \in Carried(w)
    BY <1>1, <1>7, CarriedOne DEF Carried
  <2>. HIDE DEF x
  <2>3. x \in Worked
    BY <2>2 DEF Worked
  <2>4. /\ Ahead(Printed, {x}) /\ Ahead({x}, Queued) /\ Ahead({x}, Held)
        /\ Ahead({x}, Received)
    BY <2>3, OneWayIs, AheadLess
  <2>5. Ahead({x}, Worked')
    <3>1. \A v \in Workers : v # w => Ahead({x}, Carried(v))
      BY <2>2, AheadLess DEF OneWay
    <3>2. \A v \in Workers : Ahead({x}, Carried(v)')
      BY <1>2, <3>1, AheadNothing
    <3>. QED  BY <3>2 DEF Worked, Ahead
  <2>6. Held' = Held
    BY <1>1, StillThere
  <2>7. /\ Held' \subseteq Held /\ Ahead({x}, Held') /\ UNCHANGED <<kind, queue, toServer>>
    BY <1>1, <2>4, <2>6
  <2>. QED  BY <1>4, <1>5, <2>1, <2>2, <2>4, <2>5, <2>7, OneWayAnswer
<1>. QED  BY <1>6, <1>7

\* Some process ends, or the server is started.
LEMMA OneWayEnds ==
  ASSUME TypeOK, OneWay, UNCHANGED clientVars,
         (\E r \in Runs : ParentEnds(r)) \/ (\E w \in Workers : WorkerEnds(w))
  PROVE  OneWay'
<1>1. Release
  BY DEF ParentEnds, WorkerEnds
<1>2. /\ kind' = kind /\ toClient' = toClient /\ toServer' \in {toServer, <<>>}
      /\ \A q \in Runs : queue'[q] \in {queue[q], <<>>}
  BY <1>1, ReleaseLoses
<1>3. /\ \A r \in Runs : hold'[r] \in {hold[r], <<>>}
      /\ \A w \in Workers : /\ wpc'[w] \in {wpc[w], "dead"}
                            /\ pmsg'[w] \in {pmsg[w], <<>>}
  <2>1. CASE \E r \in Runs : ParentEnds(r)
    BY <2>1 DEF ParentEnds, TypeOK
  <2>2. CASE \E w \in Workers : WorkerEnds(w)
    BY <2>2 DEF WorkerEnds, TypeOK
  <2>. QED  BY <2>1, <2>2
<1>4. Received' \subseteq Received /\ InTurn(toServer')
  BY <1>2, NoElements, InTurnNothing DEF Received, OneWay
<1>5. Queued' \subseteq Queued
  <2>1. \A q \in Runs : ToSet(queue'[q]) \subseteq ToSet(queue[q])
    BY <1>2, NoElements
  <2>. QED  BY <2>1 DEF Queued
<1>6. Held' \subseteq Held
  <2>1. \A r \in Runs : ToSet(hold'[r]) \subseteq ToSet(hold[r])
    BY <1>3, NoElements
  <2>. QED  BY <2>1 DEF Held
<1>7. \A w \in Workers : Carried(w)' \subseteq Carried(w)
  BY <1>3, NoElements DEF Carried
<1>8. got' = got
  BY DEF clientVars
<1>9. Printed' \subseteq Printed /\ \A c \in Clients : InTurn(Answers(c)')
  BY <1>2, <1>8, StillThere, StillInTurn
<1>. QED  BY <1>2, <1>4, <1>5, <1>6, <1>7, <1>9, OneWayLess

LEMMA OneWayStart ==
  ASSUME TypeOK, OneWay, UNCHANGED clientVars, NEW r \in Runs, Start(r)
  PROVE  OneWay'
<1>1. /\ UNCHANGED <<kind, hold, queue, pmsg, toServer, toClient, got>>
      /\ \A w \in Workers : wpc'[w] \in {wpc[w], "read", "recv"}
  <2>1. UNCHANGED <<kind, hold, queue, pmsg, toServer, toClient, got>>
    BY DEF Start, clientVars
  <2>2. \A w \in Workers : wpc'[w] \in {wpc[w], "read", "recv"}
    BY Forked
  <2>. QED  BY <2>1, <2>2
<1>2. \A w \in Workers : Carried(w)' \subseteq Carried(w)
  BY <1>1 DEF Carried
<1>3. Printed' = Printed /\ Queued' = Queued /\ Held' = Held /\ Received' = Received
  BY <1>1, StillThere
<1>4. (\A c \in Clients : InTurn(Answers(c)')) /\ InTurn(toServer')
  BY <1>1, StillInTurn
<1>5. \A q \in Runs : queue'[q] \in {queue[q], <<>>}
  BY <1>1
<1>. QED  BY <1>1, <1>2, <1>3, <1>4, <1>5, OneWayLess

\* Whatever is somewhere was sent.
LEMMA PlacesSent ==
  ASSUME TypeOK, Traced
  PROVE  /\ Printed \subseteq Sent /\ Worked \subseteq Sent /\ Queued \subseteq Sent
         /\ Held \subseteq Sent /\ Received \subseteq Sent
<1>1. ASSUME NEW c \in Clients  PROVE ToSet(Answers(c)) \subseteq Sent
  <2>. DEFINE s == got[c]
              t == toClient[c]
  <2>1. s \in Seq(Datagrams) /\ t \in Seq(Datagrams)
    BY DEF TypeOK, TypeClients
  <2>2. ToSet(s) \subseteq Sent /\ ToSet(t) \subseteq Sent
    BY DEF Traced, AtClient, Own
  <2>3. /\ s \o t \in Seq(Datagrams) /\ Len(s \o t) = Len(s) + Len(t)
        /\ Len(s) \in Nat /\ Len(t) \in Nat
        /\ \A k \in 1 .. Len(s) + Len(t) : (s \o t)[k] = IF k <= Len(s) THEN s[k] ELSE t[k - Len(s)]
    <3>. HIDE DEF s, t
    <3>. QED  BY <2>1, ConcatProperties, LenProperties
  <2>4. /\ \A k \in 1 .. Len(s) : s[k] \in Sent
        /\ \A k \in 1 .. Len(t) : t[k] \in Sent
    <3>. HIDE DEF s, t
    <3>. QED  BY <2>1, <2>2, Elements
  <2>. DEFINE u == s \o t
  <2>. HIDE DEF s, t, u
  <2>5. \A k \in 1 .. Len(u) : u[k] \in Sent
    <3>. TAKE k \in 1 .. Len(u)
    <3>1. CASE k <= Len(s)
      <4>1. k \in 1 .. Len(s) /\ u[k] = s[k]
        BY <2>3, <3>1 DEF u
      <4>. QED  BY <2>4, <4>1
    <3>2. CASE ~ (k <= Len(s))
      <4>1. k - Len(s) \in 1 .. Len(t) /\ u[k] = t[k - Len(s)]
        BY <2>3, <3>2 DEF u
      <4>. QED  BY <2>4, <4>1
    <3>. QED  BY <3>1, <3>2
  <2>6. ToSet(u) \subseteq Sent
    <3>1. u \in Seq(Datagrams)
      BY <2>3 DEF u
    <3>. QED  BY <2>5, <3>1, AllIn
  <2>. QED  BY <2>6 DEF u, s, t, Answers
<1>2. Printed \subseteq Sent
  BY <1>1 DEF Printed
<1>3. Worked \subseteq Sent
  BY DEF Worked, Carried, Traced, AtWorker
<1>4. Queued \subseteq Sent /\ Held \subseteq Sent
  BY DEF Queued, Held, Traced, AtParent
<1>. QED  BY <1>2, <1>3, <1>4 DEF Traced, Received

LEMMA OneWaySend ==
  ASSUME TypeOK, Traced, OneWay, UNCHANGED serverVars, NEW c \in Clients,
         SendLine(c, Listening)
  PROVE  OneWay'
<1>. DEFINE x == <<c, sent[c] + 1>>
<1>1. sent[c] \in Nat /\ toServer \in Seq(Datagrams)
  BY DEF TypeOK, TypeClients
<1>2. x \in Datagrams /\ x[1] = c /\ x[2] = sent[c] + 1
  BY <1>1 DEF Datagrams
<1>3. /\ UNCHANGED <<kind, toClient, got, wpc, pmsg, queue, hold>>
      /\ toServer' \in {toServer, Offer(toServer, x)}
  BY DEF SendLine, serverVars
<1>. HIDE DEF x
<1>4. \A m \in Sent : Precedes(m, x)
  <2>. TAKE m \in Sent
  <2>1. m \in Datagrams /\ m[2] \in Nat /\ m[2] <= sent[m[1]]
    BY DEF Sent, Datagrams
  <2>2. m[1] = c => m[2] < x[2]
    BY <1>1, <1>2, <2>1
  <2>3. m # x
    BY <1>2, <2>1, <2>2
  <2>. QED  BY <1>2, <2>2, <2>3 DEF Precedes
<1>5. \A S : S \subseteq Sent => Ahead(S, {x})
  BY <1>4 DEF Ahead
<1>6. Ahead(Printed, {x}) /\ Ahead(Worked, {x}) /\ Ahead(Queued, {x}) /\ Ahead(Held, {x})
  BY <1>5, PlacesSent
<1>7. toServer' \in {toServer, Append(toServer, x)}
  BY <1>1, <1>2, <1>3, Offered
<1>8. Received' \subseteq Received \union {x} /\ InTurn(toServer')
  <2>1. InTurn(toServer) /\ Ahead(ToSet(toServer), {x})
    BY <1>5, PlacesSent DEF OneWay, Received
  <2>2. InTurn(Append(toServer, x)) /\ ToSet(Append(toServer, x)) = ToSet(toServer) \union {x}
    BY <1>1, <1>2, <2>1, Behind, InTurnBehind
  <2>. QED  BY <1>7, <2>1, <2>2 DEF Received
<1>9. Printed' = Printed /\ Worked' = Worked /\ Queued' = Queued /\ Held' = Held
  BY <1>3, StillThere
<1>10. \A k \in 1 .. 5 : k # 5 => Places'[k] \subseteq Places[k]
  BY <1>9, PlacesAre, PlacesNext
<1>11. Places'[5] \subseteq Places[5] \union {x}
  BY <1>8, PlacesAre, PlacesNext
<1>12. \A k \in 1 .. 5 : 5 < k => Ahead({x}, Places'[k])
  OBVIOUS
<1>13. \A v, w \in Workers : v # w => Ahead(Carried(v)', Carried(w)')
  BY <1>3, StillThere DEF OneWay
<1>14. /\ \A d \in Clients : InTurn(Answers(d)')
       /\ \A q \in Runs : InTurn(queue'[q]) /\ (queue'[q] # <<>> => q = 1 /\ kind # "echo")
  BY <1>3, StillInTurn
<1>15. 5 \in 1 .. 5 /\ kind' = kind
  BY <1>3
<1>16. \A j \in 1 .. 5 : j < 5 => Ahead(Places'[j], {x})
  BY <1>6, <1>9, PlacesNext
<1>. QED  BY <1>16, <1>8, <1>10, <1>11, <1>12, <1>13, <1>14, <1>15, OneWayKept

LEMMA OneWayWait ==
  ASSUME TypeOK, OneWay, UNCHANGED serverVars, NEW c \in Clients,
         AlarmEarly(c) \/ Enter(c) \/ Timeout(c) \/ Receive(c) \/ Leave(c)
  PROVE  OneWay'
<1>1. UNCHANGED <<kind, wpc, pmsg, queue, hold, toServer>>
  BY DEF serverVars, AlarmEarly, Enter, Timeout, Receive, Leave
<1>2. /\ got \in [Clients -> Seq(Datagrams)] /\ toClient \in [Clients -> Seq(Datagrams)]
  BY DEF TypeOK, TypeClients
<1>3. ASSUME NEW d \in Clients
      PROVE  InTurn(Answers(d)') /\ ToSet(Answers(d)') \subseteq ToSet(Answers(d))
  <2>1. /\ got[d] \in Texts /\ toClient[d] \in Texts
        /\ got[d] \in Seq(Datagrams) /\ toClient[d] \in Seq(Datagrams)
    BY <1>2 DEF Texts
  <2>2. InTurn(Answers(d))
    BY DEF OneWay
  <2>3. \/ Answers(d)' = Answers(d)
        \/ Answers(d)' = got[d]
    <3>1. CASE AlarmEarly(c) \/ Enter(c) \/ Timeout(c)
      BY <3>1 DEF AlarmEarly, Enter, Timeout, Answers
    <3>2. CASE Leave(c)
      <4>1. got' = got /\ toClient'[d] \in {toClient[d], <<>>}
        BY <1>2, <3>2 DEF Leave
      <4>2. got[d] \o <<>> = got[d]
        BY <2>1, ConcatEmptySeq
      <4>. QED  BY <4>1, <4>2 DEF Answers
    <3>3. CASE Receive(c) /\ d = c
      <4>1. got'[d] = Append(got[d], Head(toClient[d])) /\ toClient'[d] = Tail(toClient[d])
        BY <1>2, <3>3 DEF Receive
      <4>2. toClient[d] # <<>>
        BY <3>3 DEF Receive
      <4>3. Append(got[d], Head(toClient[d])) \o Tail(toClient[d]) = got[d] \o toClient[d]
        BY <2>1, <4>2, JoinedMoved
      <4>. QED  BY <4>1, <4>3 DEF Answers
    <3>4. CASE Receive(c) /\ d # c
      <4>1. got'[d] = got[d] /\ toClient'[d] = toClient[d]
        BY <1>2, <3>4 DEF Receive
      <4>. QED  BY <4>1 DEF Answers
    <3>. QED  BY <3>1, <3>2, <3>3, <3>4
  <2>4. InTurn(got[d]) /\ ToSet(got[d]) \subseteq ToSet(Answers(d))
    BY <2>1, <2>2, InTurnPart, Joined DEF Answers
  <2>. QED  BY <2>2, <2>3, <2>4
<1>4. Printed' \subseteq Printed
  BY <1>3 DEF Printed
<1>5. /\ Queued' = Queued /\ Held' = Held /\ Received' = Received
      /\ \A w \in Workers : Carried(w)' = Carried(w)
  BY <1>1, StillThere
<1>6. InTurn(toServer') /\ \A q \in Runs : queue'[q] \in {queue[q], <<>>}
  BY <1>1, StillInTurn
<1>. QED  BY <1>1, <1>3, <1>4, <1>5, <1>6, OneWayLess

\* A relay that has lost a parent never gets it back.
LEMMA OrphanedStays ==
  ASSUME TypeOK, [Next]_vars, ~ Orphaned'
  PROVE  ~ Orphaned
<1>1. kind' = kind /\ \A r \in Runs : ppc[r] = "dead" => ppc'[r] = "dead"
  <2>1. CASE UNCHANGED vars
    BY <2>1 DEF vars, serverVars
  <2>2. CASE \E c \in Clients : ClientStep(c, Listening) /\ UNCHANGED serverVars
    BY <2>2 DEF serverVars
  <2>3. ASSUME NEW r \in Runs, Start(r) \/ ParentEnds(r) \/ ParentStep(r)
        PROVE  kind' = kind /\ \A s \in Runs : ppc[s] = "dead" => ppc'[s] = "dead"
    <3>1. CASE Start(r)
      <4>1. ppc[r] = "none" /\ kind' = kind /\ \E p : ppc' = [ppc EXCEPT ![r] = p]
        BY <3>1 DEF Start
      <4>. QED  BY <4>1 DEF TypeOK
    <3>2. CASE ParentEnds(r) \/ PassKills(r)
      BY <3>2, ReleaseLoses DEF PassKills, ParentEnds, Release, TypeOK
    <3>3. CASE Recv(r) \/ AnswerSelf(r) \/ Pass(r)
      <4>1. ppc[r] \in {"recv", "pass"} /\ kind' = kind
        BY <3>3 DEF Recv, AnswerSelf, Pass
      <4>2. ppc' = ppc \/ \E p : ppc' = [ppc EXCEPT ![r] = p]
        BY <3>3 DEF Recv, AnswerSelf, Pass
      <4>. QED  BY <4>1, <4>2 DEF TypeOK
    <3>. QED  BY <2>3, <3>1, <3>2, <3>3 DEF ParentStep
  <2>4. ASSUME NEW w \in Workers, WorkerEnds(w) \/ WorkerStep(w)
        PROVE  kind' = kind /\ ppc' = ppc
    BY <2>4 DEF WorkerEnds, WorkerStep, ChildRecv, ChildPass, Take, TakeEnd, Answer, Release
  <2>. QED  BY <2>1, <2>2, <2>3, <2>4 DEF Next, ServerStep
<1>. QED  BY <1>1 DEF Orphaned, Piped

LEMMA OneWayStep ==
  ASSUME TypeOK, Sound, Ready, Staff, ~ Orphaned, OneWay, [Next]_vars
  PROVE  OneWay'
<1>1. CASE UNCHANGED vars
  <2>1. UNCHANGED <<kind, wpc, pmsg, queue, hold, toServer, toClient, got>>
    BY <1>1 DEF vars, serverVars, clientVars
  <2>2. /\ Printed' = Printed /\ Queued' = Queued /\ Held' = Held /\ Received' = Received
        /\ \A w \in Workers : Carried(w)' = Carried(w)
    BY <2>1, StillThere
  <2>3. (\A c \in Clients : InTurn(Answers(c)')) /\ InTurn(toServer')
    BY <2>1, StillInTurn
  <2>4. \A q \in Runs : queue'[q] \in {queue[q], <<>>}
    BY <2>1
  <2>. QED  BY <2>1, <2>2, <2>3, <2>4, OneWayLess
<1>2. ASSUME NEW c \in Clients, ClientStep(c, Listening), UNCHANGED serverVars
      PROVE  OneWay'
  <2>1. Traced
    BY TracedIs
  <2>. QED  BY <1>2, <2>1, OneWaySend, OneWayWait DEF ClientStep
<1>3. ASSUME NEW w \in Workers, TakeEnd(w)  PROVE FALSE
  BY <1>3, Unorphaned DEF TakeEnd, Living
<1>4. CASE ServerStep /\ UNCHANGED clientVars
  <2>1. ASSUME NEW r \in Runs, PassKills(r)  PROVE ParentEnds(r)
    BY <2>1 DEF PassKills
  <2>. QED
    BY <1>3, <1>4, <2>1, OneWayStart, OneWayEnds, OneWayRecv, OneWayAnswerSelf, OneWayPass,
       OneWayChildRecv,
       OneWayChildPass, OneWayTake, OneWayWorker DEF ServerStep, ParentStep, WorkerStep
<1>. QED  BY <1>1, <1>2, <1>4 DEF Next

-----------------------------------------------------------------------------
(* The theorems.                                                           *)

\* At first nothing was sent and nothing runs.
LEMMA InitIInv == Init => IInv
<1>. SUFFICES ASSUME Init  PROVE IInv
  OBVIOUS
<1>0. \A S : <<>> \in Seq(S)
  BY EmptySeq
<1>1. TypeOK
  BY <1>0 DEF Init, InitClients, TypeOK, TypeClients
<1>2. ToSet(<<>>) = {} /\ Len(<<>>) = 0
  BY NoElements, EmptySeq
<1>3. Sound
  <2>1. ASSUME NEW c \in Clients  PROVE AtClient(c)
    <3>1. /\ toClient[c] = <<>> /\ got[c] = <<>> /\ cpc[c] = "typing" /\ ~ armed[c]
          /\ sent[c] = 0 /\ timeouts[c] = 0
      BY DEF Init, InitClients
    <3>2. LateAtMost(c)
      BY <1>2, <3>1 DEF LateAtMost
    <3>3. Waits(c)
      BY <1>2, <3>1 DEF Waits, Finished
    <3>. QED  BY <1>2, <3>1, <3>2, <3>3 DEF AtClient
  <2>2. ASSUME NEW r \in Runs  PROVE AtParent(r)
    BY <1>2 DEF Init, AtParent
  <2>3. ASSUME NEW w \in Workers  PROVE AtWorker(w)
    BY <1>2 DEF Init, AtWorker
  <2>4. ToSet(toServer) \subseteq Sent
    BY <1>2 DEF Init, InitClients
  <2>. QED  BY <1>1, <2>1, <2>2, <2>3, <2>4, TracedIs DEF Traced
<1>4. Staff
  BY DEF Init, InitClients, Staff, Living, ReceivesToo
<1>5. OneWay
  <2>1. \A c \in Clients : Answers(c) = <<>>
    <3>1. <<>> \o <<>> = <<>>
      BY <1>0, ConcatEmptySeq
    <3>. QED  BY <3>1 DEF Init, InitClients, Answers
  <2>2. /\ \A w \in Workers : Carried(w) = {}
        /\ toServer = <<>> /\ \A q \in Runs : queue[q] = <<>> /\ hold[q] = <<>>
    BY DEF Init, InitClients, Carried
  <2>3. Printed = {} /\ Worked = {} /\ Queued = {} /\ Held = {} /\ Received = {}
    BY <1>2, <2>1, <2>2 DEF Printed, Worked, Queued, Held, Received
  <2>4. \A m \in 1 .. 5 : Places[m] = {}
    BY <2>3, PlacesAre
  <2>. QED  BY <2>1, <2>2, <2>4, AheadNothing, InTurnNothing DEF OneWay
<1>6. Ready
  BY DEF Init, Ready
<1>. QED  BY <1>1, <1>3, <1>4, <1>5, <1>6, IInvIs

LEMMA IInvNext == IInv' <=> TypeOK' /\ Sound' /\ Ready' /\ Staff' /\ (~ Orphaned' => OneWay')
BY IInvIs, PTL

LEMMA NextIInv == IInv /\ [Next]_vars => IInv'
<1>. SUFFICES ASSUME IInv, [Next]_vars  PROVE IInv'
  OBVIOUS
<1>1. TypeOK /\ Sound /\ Ready /\ Staff /\ (~ Orphaned => OneWay)
  BY IInvIs
<1>2. TypeOK' /\ Ready'
  BY <1>1, TypeStep, ReadyStep
<1>3. Sound'
  BY <1>1, <1>2, SoundStep
<1>4. Staff'
  BY <1>1, StaffStep
<1>5. ~ Orphaned' => OneWay'
  BY <1>1, OrphanedStays, OneWayStep
<1>. QED  BY <1>2, <1>3, <1>4, <1>5, IInvNext

\* Whoever is killed, restarted or left over, and whatever a worker sends
\* again, a client is answered with its own lines only, no wait is counted
\* twice, some process of the run that has the port lives, and unless a relay
\* has lost its parent no datagram passes another (echo_server_UDP.c, pipe, fifo,
\* msgq_echoserv.c and their clients).
THEOREM IInvHolds == Spec => []IInv
<1>. QED  BY InitIInv, NextIInv, PTL DEF Spec

LEMMA TurnsOfAnswers == IInv => AnswersInTurn
<1>. SUFFICES ASSUME IInv, NEW c \in Clients
              PROVE  /\ LateAtMost(c)
                     /\ ~ Orphaned =>
                          \A j, k \in 1 .. Len(Answers(c)) :
                            j < k => /\ Answers(c)[j] # Answers(c)[k]
                                     /\ kind # "msgq" => Answers(c)[j][2] < Answers(c)[k][2]
  BY DEF AnswersInTurn
<1>1. TypeOK /\ Sound /\ (~ Orphaned => OneWay)
  BY IInvIs
<1>2. LateAtMost(c)
  BY <1>1 DEF Sound
<1>. SUFFICES ASSUME ~ Orphaned, NEW j \in 1 .. Len(Answers(c)),
                     NEW k \in 1 .. Len(Answers(c)), j < k
              PROVE  /\ Answers(c)[j] # Answers(c)[k]
                     /\ kind # "msgq" => Answers(c)[j][2] < Answers(c)[k][2]
  BY <1>2
<1>. DEFINE s == Answers(c)
            a == s[j]
            b == s[k]
<1>3. Precedes(a, b)
  <2>1. InTurn(s)
    BY <1>1 DEF OneWay
  <2>. QED  BY <2>1 DEF InTurn
<1>4. \A i \in 1 .. Len(s) : s[i] \in Datagrams /\ s[i][1] = c
  <2>1. got[c] \in Seq(Datagrams) /\ toClient[c] \in Seq(Datagrams)
    BY <1>1 DEF TypeOK, TypeClients
  <2>. DEFINE g == got[c]
              t == toClient[c]
  <2>2. /\ \A i \in 1 .. Len(g) : OwnLine(c, g[i])
        /\ \A i \in 1 .. Len(t) : OwnLine(c, t[i])
    BY <1>1 DEF Sound, ClientSound
  <2>. HIDE DEF g, t
  <2>3. /\ Len(g \o t) = Len(g) + Len(t) /\ Len(g) \in Nat /\ Len(t) \in Nat
        /\ \A i \in 1 .. Len(g) + Len(t) : (g \o t)[i] = IF i <= Len(g) THEN g[i] ELSE t[i - Len(g)]
    BY <2>1, ConcatProperties, LenProperties DEF g, t
  <2>. DEFINE u == g \o t
  <2>. HIDE DEF u
  <2>4. \A i \in 1 .. Len(u) : OwnLine(c, u[i])
    <3>. TAKE i \in 1 .. Len(u)
    <3>1. CASE i <= Len(g)
      <4>1. i \in 1 .. Len(g) /\ u[i] = g[i]
        BY <2>3, <3>1 DEF u
      <4>. QED  BY <2>2, <4>1
    <3>2. CASE ~ (i <= Len(g))
      <4>1. i - Len(g) \in 1 .. Len(t) /\ u[i] = t[i - Len(g)]
        BY <2>3, <3>2 DEF u
      <4>. QED  BY <2>2, <4>1
    <3>. QED  BY <3>1, <3>2
  <2>5. \A i \in 1 .. Len(u) : u[i] \in Datagrams /\ u[i][1] = c
    BY <2>4 DEF OwnLine, Genuine
  <2>. QED  BY <2>5 DEF u, g, t, Answers
<1>5. a \in Datagrams /\ a[1] = c /\ b \in Datagrams /\ b[1] = c
  BY <1>4
<1>. HIDE DEF a, b
<1>6. a[2] \in Nat /\ b[2] \in Nat
  BY <1>5 DEF Datagrams
<1>7. a # b /\ (kind # "msgq" => a[2] < b[2])
  <2>1. CASE kind = "msgq"
    BY <1>3, <2>1 DEF Precedes
  <2>2. CASE kind # "msgq"
    <3>1. a[2] < b[2]
      BY <1>3, <1>5, <2>2 DEF Precedes
    <3>2. a[2] # b[2]
      BY <1>6, <3>1
    <3>. QED  BY <3>1, <3>2
  <2>. QED  BY <2>1, <2>2
<1>. QED  BY <1>7 DEF a, b

\* A late echo is as late as the client's timeouts explain; and unless a relay
\* has lost its parent no answer comes twice, and those of one process come in
\* the order of the lines (echo_client_UDPalarm.c, msgq_echoserv.c).
THEOREM AnswersInTurnHolds == Spec => []AnswersInTurn
<1>. QED  BY IInvHolds, TurnsOfAnswers, PTL
=============================================================================
