-------------------------- MODULE EpollServerProofs --------------------------
(***************************************************************************)
(* The epoll echo server for every number of clients, every size of        *)
(* sockets and buffers, and every limit: its counter is the number of its  *)
(* connections and failed accepts, and a client that has never met too     *)
(* little room gets back what it sent.                                     *)
(***************************************************************************)
EXTENDS EpollServer, FiniteSetTheorems, SequenceTheorems, TLAPS

-----------------------------------------------------------------------------
(* Facts about byte sequences *)

\* The library's facts, for bytes.
LEMMA Joined == \A s, t \in Seq(Nat) : s \o t \in Seq(Nat) /\ s \o <<>> = s
  BY ConcatProperties, ConcatEmptySeq

LEMMA Associative == \A s, t, u \in Seq(Nat) : (s \o t) \o u = s \o (t \o u)
  <1> TAKE s, t, u \in Seq(Nat)
  <1> QED
    BY ConcatAssociative, SMTT(60)

LEMMA UpperType ==
    ASSUME NEW s \in Seq(Nat)
    PROVE  /\ Upper(s) \in Seq(Nat) /\ Len(Upper(s)) = Len(s)
           /\ \A j \in 1 .. Len(s) : Upper(s)[j] = toupper(s[j])
  <1>1. DOMAIN s = 1 .. Len(s) /\ Len(s) \in Nat /\ \A j \in 1 .. Len(s) : s[j] \in Nat
    OBVIOUS
  <1>2. \A x \in Nat : toupper(x) \in Nat
    BY SizesAssumption DEF toupper
  <1>3. Upper(s) = [j \in 1 .. Len(s) |-> toupper(s[j])]
    BY <1>1 DEF Upper
  <1> QED
    BY <1>1, <1>2, <1>3

LEMMA UpperConcat ==
    ASSUME NEW s \in Seq(Nat), NEW t \in Seq(Nat)
    PROVE  Upper(s \o t) = Upper(s) \o Upper(t)
  <1>1. s \o t \in Seq(Nat) /\ Len(s \o t) = Len(s) + Len(t) /\ Len(s) \in Nat /\ Len(t) \in Nat
    OBVIOUS
  <1>2. /\ Upper(s) \in Seq(Nat) /\ Upper(t) \in Seq(Nat) /\ Upper(s \o t) \in Seq(Nat)
        /\ Len(Upper(s)) = Len(s) /\ Len(Upper(t)) = Len(t)
        /\ Len(Upper(s \o t)) = Len(s) + Len(t)
    BY <1>1, UpperType
  <1>3. Len(Upper(s) \o Upper(t)) = Len(s) + Len(t) /\ Upper(s) \o Upper(t) \in Seq(Nat)
    BY <1>2, ConcatProperties
  <1>4. ASSUME NEW j \in 1 .. Len(s) + Len(t)
        PROVE  Upper(s \o t)[j] = (Upper(s) \o Upper(t))[j]
    <2>1. Upper(s \o t)[j] = toupper((s \o t)[j])
      BY <1>1, UpperType
    <2>2. CASE j <= Len(s)
      <3>1. j \in 1 .. Len(s)
        BY <1>1, <2>2
      <3>2. (s \o t)[j] = s[j] /\ (Upper(s) \o Upper(t))[j] = Upper(s)[j]
        BY <1>1, <1>2, <3>1, ConcatProperties
      <3> QED
        BY <2>1, <3>1, <3>2, UpperType
    <2>3. CASE ~(j <= Len(s))
      <3>1. j - Len(s) \in 1 .. Len(t)
        BY <1>1, <2>3
      <3>2. (s \o t)[j] = t[j - Len(s)]
        BY <1>1, <2>3
      <3>3. (Upper(s) \o Upper(t))[j] = Upper(t)[j - Len(Upper(s))]
        <4>1. j \in 1 .. Len(Upper(s)) + Len(Upper(t)) /\ ~(j <= Len(Upper(s)))
          BY <1>2, <2>3
        <4>2. Upper(s) \in Seq(Nat) /\ Upper(t) \in Seq(Nat)
          BY <1>2
        <4> HIDE DEF Upper
        <4> QED
          BY <4>1, <4>2
      <3> QED
        BY <1>2, <2>1, <3>1, <3>2, <3>3, UpperType
    <2> QED
      BY <2>2, <2>3
  <1> QED
    BY <1>1, <1>2, <1>3, <1>4, SeqEqual

LEMMA UpperAppend ==
    ASSUME NEW s \in Seq(Nat), NEW x \in Nat
    PROVE  Upper(Append(s, x)) = Append(Upper(s), toupper(x))
  <1>1. Append(s, x) = s \o <<x>> /\ <<x>> \in Seq(Nat)
    BY AppendIsConcat
  <1>2. Upper(s) \in Seq(Nat) /\ toupper(x) \in Nat
    BY UpperType, SizesAssumption DEF toupper
  <1>3. Append(Upper(s), toupper(x)) = Upper(s) \o <<toupper(x)>>
    BY <1>2, AppendIsConcat
  <1>4. Upper(<<x>>) = <<toupper(x)>>
    BY DEF Upper
  <1> QED
    BY <1>1, <1>3, <1>4, UpperConcat

LEMMA ConcatAppend ==
    ASSUME NEW s \in Seq(Nat), NEW t \in Seq(Nat), NEW x \in Nat
    PROVE  s \o Append(t, x) = Append(s \o t, x)
  <1>1. <<x>> \in Seq(Nat) /\ s \o t \in Seq(Nat)
    BY ConcatProperties
  <1>2. Append(t, x) = t \o <<x>> /\ Append(s \o t, x) = (s \o t) \o <<x>>
    BY <1>1, AppendIsConcat
  <1> QED
    BY <1>1, <1>2, ConcatAssociative

\* One byte of the outgoing queue is received.
LEMMA ReceiveOne ==
    ASSUME NEW s \in Seq(Nat), NEW t \in Seq(Nat), t # <<>>
    PROVE  /\ Append(s, Head(t)) \in Seq(Nat) /\ Tail(t) \in Seq(Nat)
           /\ Append(s, Head(t)) \o Tail(t) = s \o t
  <1>1. Head(t) \in Nat /\ Tail(t) \in Seq(Nat) /\ <<Head(t)>> \in Seq(Nat)
    BY HeadTailProperties
  <1>2. t = <<Head(t)>> \o Tail(t)
    <2>1. 1 \in 1 .. Len(t) /\ Len(t) \in 1 .. Len(t)
      BY EmptySeq
    <2>2. SubSeq(t, 1, Len(t)) = <<t[1]>> \o SubSeq(t, 2, Len(t))
      BY <2>1, SubSeqRecursiveFirst
    <2> QED
      BY <2>2, SubSeqFull, TailIsSubSeq
  <1>3. Append(s, Head(t)) = s \o <<Head(t)>>
    BY <1>1, AppendIsConcat
  <1>4. (s \o <<Head(t)>>) \o Tail(t) = s \o (<<Head(t)>> \o Tail(t))
    BY <1>1, ConcatAssociative
  <1> QED
    BY <1>1, <1>2, <1>3, <1>4, AppendProperties

\* A sequence is read in two parts.
LEMMA SplitAt ==
    ASSUME NEW s \in Seq(Nat), NEW k \in 0 .. Len(s)
    PROVE  /\ SubSeq(s, 1, k) \in Seq(Nat) /\ SubSeq(s, k + 1, Len(s)) \in Seq(Nat)
           /\ Len(SubSeq(s, 1, k)) = k
           /\ SubSeq(s, 1, k) \o SubSeq(s, k + 1, Len(s)) = s
  <1>0. Len(s) \in Nat /\ k \in Int /\ \A j \in 1 .. Len(s) : s[j] \in Nat
    OBVIOUS
  <1>1. SubSeq(s, 1, k) \in Seq(Nat) /\ Len(SubSeq(s, 1, k)) = k
    BY <1>0, SubSeqProperties
  <1>2. SubSeq(s, k + 1, Len(s)) \in Seq(Nat)
    BY <1>0, SubSeqProperties
  <1>3. SubSeq(s, 1, k) \o SubSeq(s, k + 1, Len(s)) = SubSeq(s, 1, Len(s))
    <2>1. 1 \in 1 .. Len(s) + 1 /\ k \in 1 - 1 .. Len(s) /\ Len(s) \in k .. Len(s)
      BY <1>0
    <2> QED
      BY <2>1, ConcatAdjacentSubSeq
  <1> QED
    BY <1>1, <1>2, <1>3, SubSeqFull

Letters(k) == [j \in 1 .. k |-> j]

LEMMA OneMoreLetter ==
    ASSUME NEW k \in Nat
    PROVE  Letters(k) \in Seq(Nat) /\ Letters(k + 1) = Append(Letters(k), k + 1)
  <1>1. Letters(k) \in Seq(Nat) /\ Len(Letters(k)) = k
    BY DEF Letters
  <1>2. Letters(k + 1) \in Seq(Nat) /\ Len(Letters(k + 1)) = k + 1
    BY DEF Letters
  <1>3. Append(Letters(k), k + 1) \in Seq(Nat) /\ Len(Append(Letters(k), k + 1)) = k + 1
    BY <1>1
  <1>4. ASSUME NEW j \in 1 .. k + 1
        PROVE  Letters(k + 1)[j] = Append(Letters(k), k + 1)[j]
    BY <1>1, <1>4 DEF Letters
  <1> QED
    BY <1>1, <1>2, <1>3, <1>4, SeqEqual

\* What the client has got, what is under way to it, what the buffer holds and
\* what is still to be read.
Chain(g, o, b, i) == g \o o \o b \o Upper(i)

\* Append, for facts that the provers are to apply as they stand.
Added(s, x) == Append(s, x)

LEMMA ChainSend ==
    ASSUME NEW g \in Seq(Nat), NEW o \in Seq(Nat), NEW b \in Seq(Nat), NEW s \in Seq(Nat), NEW x \in Nat
    PROVE  Chain(g, o, b, Added(s, x)) = Added(Chain(g, o, b, s), toupper(x))
  <1>1. (g \o o) \o b \in Seq(Nat)
    BY Joined
  <1>2. Upper(s) \in Seq(Nat) /\ toupper(x) \in Nat
    BY UpperType, SizesAssumption DEF toupper
  <1>3. Upper(Append(s, x)) = Append(Upper(s), toupper(x))
    BY UpperAppend
  <1>4. ((g \o o) \o b) \o Append(Upper(s), toupper(x)) = Append(((g \o o) \o b) \o Upper(s), toupper(x))
    BY <1>1, <1>2, ConcatAppend, Zenon
  <1> QED
    BY <1>3, <1>4, Zenon DEF Chain, Added

\* A read moves bytes from the incoming queue to the empty buffer.
LEMMA ChainRead ==
    ASSUME NEW g \in Seq(Nat), NEW o \in Seq(Nat), NEW s \in Seq(Nat), NEW k \in 0 .. Len(s)
    PROVE  Chain(g, o, Upper(SubSeq(s, 1, k)), SubSeq(s, k + 1, Len(s))) = Chain(g, o, <<>>, s)
  <1> DEFINE s1 == SubSeq(s, 1, k)
             s2 == SubSeq(s, k + 1, Len(s))
  <1>1. s1 \in Seq(Nat) /\ s2 \in Seq(Nat) /\ s1 \o s2 = s
    BY SplitAt
  <1> HIDE DEF s1, s2
  <1>2. Upper(s1) \in Seq(Nat) /\ Upper(s2) \in Seq(Nat) /\ Upper(s) = Upper(s1) \o Upper(s2)
    BY <1>1, UpperType, UpperConcat
  <1>3. g \o o \in Seq(Nat)
    BY ConcatProperties
  <1>4. ((g \o o) \o Upper(s1)) \o Upper(s2) = (g \o o) \o (Upper(s1) \o Upper(s2))
    BY <1>2, <1>3, Associative, Zenon
  <1>5. (g \o o) \o <<>> = g \o o
    BY <1>3, ConcatEmptySeq
  <1>6. ((g \o o) \o Upper(s1)) \o Upper(s2) = ((g \o o) \o <<>>) \o Upper(s)
    BY <1>2, <1>4, <1>5
  <1> QED
    BY <1>6, Zenon DEF Chain, s1, s2

\* A write moves the buffer to the outgoing queue.
LEMMA ChainWrite ==
    ASSUME NEW g \in Seq(Nat), NEW o \in Seq(Nat), NEW b \in Seq(Nat), NEW s \in Seq(Nat)
    PROVE  Chain(g, o \o b, <<>>, s) = Chain(g, o, b, s)
  <1>1. (g \o o) \o b = g \o (o \o b)
    BY Associative, Zenon
  <1>2. g \o (o \o b) \in Seq(Nat)
    BY Joined
  <1>3. (g \o (o \o b)) \o <<>> = g \o (o \o b)
    BY <1>2, ConcatEmptySeq
  <1> QED
    BY <1>1, <1>3, Zenon DEF Chain

Held(c) == SubSeq(buffer[c], 1, buffer_len[c])

\* EchoIntact, for one client.
Echoes(c) ==
    c \notin short =>
      /\ peer[c] # "cut"
      /\ peer[c] = "connected" =>
            Upper(Letters(sent[c])) = Chain(got[c], outq[c], Held(c), inq[c])

LEMMA EchoIs == /\ EchoIntact <=> \A c \in Clients : Echoes(c)
                /\ EchoIntact' <=> \A c \in Clients : Echoes(c)'
  BY DEF EchoIntact, Echoes, Chain, Held, Letters

LEMMA HeldType ==
    ASSUME TypeOK, NEW c \in Clients
    PROVE  /\ got[c] \in Seq(Nat) /\ outq[c] \in Seq(Nat) /\ inq[c] \in Seq(Nat)
           /\ buffer[c] \in Seq(Nat) /\ buffer_len[c] \in 0 .. Len(buffer[c]) /\ sent[c] \in Nat
           /\ Held(c) \in Seq(Nat)
           /\ buffer_len[c] = 0 => Held(c) = <<>>
  <1>1. /\ got[c] \in Seq(Nat) /\ outq[c] \in Seq(Nat) /\ inq[c] \in Seq(Nat)
        /\ buffer[c] \in Seq(Nat) /\ buffer_len[c] \in Nat /\ buffer_len[c] <= Len(buffer[c])
        /\ sent[c] \in Nat
    BY DEF TypeOK
  <1>2. buffer_len[c] \in 0 .. Len(buffer[c])
    BY <1>1
  <1>3. Held(c) \in Seq(Nat)
    BY <1>1, <1>2, SplitAt DEF Held
  <1>4. buffer_len[c] = 0 => Held(c) = <<>>
    BY SubSeqEmpty DEF Held
  <1> QED
    BY <1>1, <1>2, <1>3, <1>4

-----------------------------------------------------------------------------
(* The invariant is inductive *)

LEMMA InitIInv == Init => IInv
  <1> SUFFICES ASSUME Init PROVE IInv
    OBVIOUS
  <1>1. NoEvent \in Events /\ IsFiniteSet({}) /\ Cardinality({}) = 0
    BY FS_EmptySet DEF NoEvent, Events
  <1>2. TypeOK
    BY <1>1, SizesAssumption DEF Init, TypeOK
  <1>3. NoStaleEvent /\ AcceptedOnce
    BY DEF Init, NoStaleEvent, AcceptedOnce
  <1>4. CountAgrees
    BY <1>1, SizesAssumption DEF Init, CountAgrees
  <1>5. WholeTurns /\ EchoIntact
    BY DEF Init, WholeTurns, Undisturbed, EchoIntact
  <1> QED
    BY <1>2, <1>3, <1>4, <1>5 DEF IInv

LEMMA ConnectStep ==
    ASSUME IInv, NEW c \in Clients, client_connect(c)
    PROVE  IInv'
  <1> USE DEF IInv, server, units
  <1>1. peer[c] = "none" /\ c \notin open /\ c \notin backlog
    BY DEF client_connect, AcceptedOnce
  <1>2. /\ peer' = [peer EXCEPT ![c] = "connected"] /\ backlog' = backlog \cup {c}
        /\ UNCHANGED <<server, units, inq, outq, sent, got, short, phantoms>>
    BY DEF client_connect
  <1>3. peer'[c] = "connected" /\ \A d \in Clients : d # c => peer'[d] = peer[d]
    BY <1>2 DEF TypeOK
  <1>4. TypeOK'
    BY <1>2 DEF TypeOK
  <1>5. NoStaleEvent' /\ CountAgrees'
    BY <1>2 DEF NoStaleEvent, CountAgrees
  <1>6. AcceptedOnce'
    BY <1>1, <1>2, <1>3 DEF AcceptedOnce, TypeOK
  <1>7. /\ buffer_len[c] = 0 /\ sent[c] = 0 /\ got[c] = <<>> /\ outq[c] = <<>> /\ inq[c] = <<>>
    BY <1>1 DEF AcceptedOnce
  <1>8. WholeTurns'
    <2> SUFFICES ASSUME NEW d \in Clients, Undisturbed(d)'
                 PROVE  /\ Writing(d)' => cur'.events = {"IN", "OUT"}
                        /\ ~Writing(d)' => buffer_len'[d] = 0 /\ (d \in open' => interest'[d] = {"IN"})
                        /\ pc' = "read" /\ cur'.unit = d => cur'.events = {"IN"} /\ inq'[d] # <<>>
                        /\ \A e \in batch' : e.unit = d => e.events = {"IN"} /\ inq'[d] # <<>>
      BY DEF WholeTurns
    <2>1. CASE d = c
      <3>1. c # Listener
        BY ListenerAssumption
      <3> QED
        BY <1>1, <1>2, <1>7, <2>1, <3>1 DEF NoStaleEvent, Writing
    <2>2. CASE d # c
      BY <1>2, <1>3, <2>2 DEF WholeTurns, Undisturbed, Writing
    <2> QED
      BY <2>1, <2>2
  <1>9. EchoIntact'
    <2> SUFFICES ASSUME NEW d \in Clients PROVE Echoes(d)'
      BY EchoIs
    <2>1. CASE d = c
      <3>1. SubSeq(buffer[c], 1, 0) = <<>> /\ <<>> \in Seq(Nat)
        BY SubSeqEmpty
      <3>2. Upper(Letters(0)) = <<>> /\ Upper(<<>>) = <<>>
        BY DEF Upper, Letters
      <3>3. Chain(<<>>, <<>>, <<>>, <<>>) = <<>>
        BY <3>1, <3>2, Joined DEF Chain
      <3> QED
        BY <1>2, <1>3, <1>7, <2>1, <3>1, <3>2, <3>3 DEF Echoes, Held
    <2>2. CASE d # c
      BY <1>2, <1>3, <2>2, EchoIs DEF Echoes, Held
    <2> QED
      BY <2>1, <2>2
  <1> QED
    BY <1>4, <1>5, <1>6, <1>8, <1>9

LEMMA SendStep ==
    ASSUME IInv, NEW c \in Clients, client_send(c)
    PROVE  IInv'
  <1> USE DEF IInv, server, units
  <1>1. /\ peer[c] = "connected"
        /\ sent' = [sent EXCEPT ![c] = @ + 1] /\ inq' = [inq EXCEPT ![c] = Append(@, sent[c] + 1)]
        /\ UNCHANGED <<server, units, backlog, peer, outq, got, short, phantoms>>
    BY DEF client_send
  <1>2. inq[c] \in Seq(Nat) /\ sent[c] \in Nat /\ sent[c] + 1 \in Nat
    BY DEF TypeOK
  <1>3. /\ Append(inq[c], sent[c] + 1) \in Seq(Nat) /\ Append(inq[c], sent[c] + 1) # <<>>
    BY <1>2, AppendProperties
  <1>4. /\ sent'[c] = sent[c] + 1 /\ inq'[c] = Append(inq[c], sent[c] + 1)
        /\ \A d \in Clients : d # c => sent'[d] = sent[d] /\ inq'[d] = inq[d]
    BY <1>1 DEF TypeOK
  <1>5. TypeOK'
    BY <1>1, <1>2, <1>3 DEF TypeOK
  <1>6. NoStaleEvent' /\ CountAgrees'
    BY <1>1 DEF NoStaleEvent, CountAgrees
  <1>7. AcceptedOnce'
    BY <1>1, <1>4 DEF AcceptedOnce
  <1>8. WholeTurns'
    BY <1>1, <1>3, <1>4 DEF WholeTurns, Undisturbed, Writing
  <1>9. EchoIntact'
    <2> SUFFICES ASSUME NEW d \in Clients PROVE Echoes(d)'
      BY EchoIs
    <2>1. CASE d = c
      <3>1. Letters(sent[c]) \in Seq(Nat) /\ Letters(sent[c] + 1) = Append(Letters(sent[c]), sent[c] + 1)
        BY <1>2, OneMoreLetter
      <3>2. Upper(Letters(sent[c] + 1)) = Added(Upper(Letters(sent[c])), toupper(sent[c] + 1))
        BY <1>2, <3>1, UpperAppend DEF Added
      <3>3. got[c] \in Seq(Nat) /\ outq[c] \in Seq(Nat) /\ Held(c) \in Seq(Nat)
        BY HeldType
      <3>4. Chain(got[c], outq[c], Held(c), Added(inq[c], sent[c] + 1))
              = Added(Chain(got[c], outq[c], Held(c), inq[c]), toupper(sent[c] + 1))
        BY <1>2, <3>3, ChainSend
      <3>5. Echoes(c)
        BY EchoIs
      <3> QED
        BY <1>1, <1>4, <2>1, <3>2, <3>4, <3>5 DEF Echoes, Held, Added
    <2>2. CASE d # c
      BY <1>1, <1>4, <2>2, EchoIs DEF Echoes, Held
    <2> QED
      BY <2>1, <2>2
  <1> QED
    BY <1>5, <1>6, <1>7, <1>8, <1>9

LEMMA ReceiveStep ==
    ASSUME IInv, NEW c \in Clients, client_receive(c)
    PROVE  IInv'
  <1> USE DEF IInv, server, units
  <1>1. /\ peer[c] = "connected" /\ outq[c] # <<>>
        /\ got' = [got EXCEPT ![c] = Append(@, Head(outq[c]))] /\ outq' = [outq EXCEPT ![c] = Tail(@)]
        /\ UNCHANGED <<server, units, backlog, peer, inq, sent, short, phantoms>>
    BY DEF client_receive
  <1>2. got[c] \in Seq(Nat) /\ outq[c] \in Seq(Nat)
    BY DEF TypeOK
  <1>3. /\ Append(got[c], Head(outq[c])) \in Seq(Nat) /\ Tail(outq[c]) \in Seq(Nat)
        /\ Append(got[c], Head(outq[c])) \o Tail(outq[c]) = got[c] \o outq[c]
    BY <1>1, <1>2, ReceiveOne
  <1>4. /\ got'[c] = Append(got[c], Head(outq[c])) /\ outq'[c] = Tail(outq[c])
        /\ \A d \in Clients : d # c => got'[d] = got[d] /\ outq'[d] = outq[d]
    BY <1>1 DEF TypeOK
  <1>5. TypeOK'
    <2>1. Len(outq'[c]) <= Room
      <3>1. Len(Tail(outq[c])) = Len(outq[c]) - 1 /\ Len(outq[c]) \in Nat
        BY <1>1, <1>2, HeadTailProperties
      <3> QED
        BY <1>4, <3>1, SizesAssumption DEF TypeOK
    <2> QED
      BY <1>1, <1>3, <1>4, <2>1 DEF TypeOK
  <1>6. NoStaleEvent' /\ CountAgrees'
    BY <1>1 DEF NoStaleEvent, CountAgrees
  <1>7. AcceptedOnce' /\ WholeTurns'
    BY <1>1, <1>4 DEF AcceptedOnce, WholeTurns, Undisturbed, Writing
  <1>8. EchoIntact'
    <2> SUFFICES ASSUME NEW d \in Clients PROVE Echoes(d)'
      BY EchoIs
    <2>1. CASE d = c
      <3>1. Chain(got'[c], outq'[c], Held(c), inq[c]) = Chain(got[c], outq[c], Held(c), inq[c])
        BY <1>3, <1>4 DEF Chain
      <3> QED
        BY <1>1, <2>1, <3>1, EchoIs DEF Echoes, Held
    <2>2. CASE d # c
      BY <1>1, <1>4, <2>2, EchoIs DEF Echoes, Held
    <2> QED
      BY <2>1, <2>2
  <1> QED
    BY <1>5, <1>6, <1>7, <1>8

LEMMA CloseStep ==
    ASSUME IInv, NEW c \in Clients, client_close(c)
    PROVE  IInv'
  <1> USE DEF IInv, server, units
  <1>1. /\ peer[c] = "connected"
        /\ peer' = [peer EXCEPT ![c] = IF outq[c] = <<>> THEN "closed" ELSE "reset"]
        /\ outq' = [outq EXCEPT ![c] = <<>>]
        /\ UNCHANGED <<server, units, backlog, inq, sent, got, short, phantoms>>
    BY DEF client_close
  <1>2. /\ peer'[c] \in {"closed", "reset"} /\ outq'[c] = <<>>
        /\ \A d \in Clients : d # c => peer'[d] = peer[d] /\ outq'[d] = outq[d]
    BY <1>1 DEF TypeOK
  <1>3. TypeOK'
    BY <1>1, <1>2, SizesAssumption DEF TypeOK
  <1>4. NoStaleEvent' /\ CountAgrees'
    BY <1>1 DEF NoStaleEvent, CountAgrees
  <1>5. AcceptedOnce' /\ WholeTurns'
    <2>1. AcceptedOnce'
      <3>1. \A d \in Clients : peer'[d] = "none" => d # c
        BY <1>2
      <3>2. \A d \in Clients : peer[d] # "none" => peer'[d] # "none"
        BY <1>2
      <3> QED
        BY <1>1, <1>2, <3>1, <3>2 DEF AcceptedOnce, TypeOK
    <2>2. WholeTurns'
      BY <1>1, <1>2 DEF WholeTurns, Undisturbed, Writing
    <2> QED
      BY <2>1, <2>2
  <1>6. EchoIntact'
    <2> SUFFICES ASSUME NEW d \in Clients PROVE Echoes(d)'
      BY EchoIs
    <2>1. CASE d = c
      BY <1>2, <2>1 DEF Echoes
    <2>2. CASE d # c
      BY <1>1, <1>2, <2>2, EchoIs DEF Echoes, Held
    <2> QED
      BY <2>1, <2>2
  <1> QED
    BY <1>3, <1>4, <1>5, <1>6

LEMMA WaitStep ==
    ASSUME IInv, main \/ signal_handler \/ epoll_pwait
    PROVE  IInv'
  <1> USE DEF IInv, server, units, clients
  <1>1. /\ UNCHANGED <<CONNECTIONS_LIMIT, cur, current_connection_count, units, clients, short, phantoms>>
        /\ pc' \in {"wait", "loop", "ended"} \/ pc' = pc
    BY DEF main, signal_handler, epoll_pwait
  <1>2. /\ batch' \in SUBSET Events
        /\ \A e \in batch' : \/ e \in batch /\ UNCHANGED batch
                             \/ /\ pc = "wait" /\ pc' = "loop" /\ batch' \subseteq Reported
    <2>1. CASE main \/ signal_handler
      BY <2>1 DEF main, signal_handler, TypeOK
    <2>2. CASE epoll_pwait
      <3>1. batch' \subseteq Reported /\ pc = "wait" /\ pc' = "loop"
        BY <2>2 DEF epoll_pwait, kSubset
      <3>2. \A c \in Clients : Ready(c) \in SUBSET {"IN", "OUT", "HUP"}
        BY DEF Ready, TypeOK
      <3>3. Reported \subseteq Events
        BY <3>2 DEF Reported, Events, TypeOK
      <3> QED
        BY <3>1, <3>3
    <2> QED
      BY <2>1, <2>2
  <1>3. ASSUME NEW e \in Reported
        PROVE  /\ e.unit \in open \cup {Listener}
               /\ \A f \in Reported : e.unit = f.unit => e = f
               /\ e.unit # Listener => e.events = Ready(e.unit) /\ Ready(e.unit) # {}
    <2>1. \A f \in Reported :
             \/ f = [unit |-> Listener, events |-> {"IN"}]
             \/ \E c \in open : f = [unit |-> c, events |-> Ready(c)] /\ Ready(c) # {}
      BY DEF Reported
    <2>2. Listener \notin open
      BY ListenerAssumption DEF TypeOK
    <2>3. e.unit \in open \cup {Listener}
      BY <2>1
    <2>4. e.unit # Listener => e.events = Ready(e.unit) /\ Ready(e.unit) # {}
      BY <2>1
    <2>5. ASSUME NEW f \in Reported, e.unit = f.unit
          PROVE  e = f
      <3>1. CASE e.unit = Listener
        <4>1. \A g \in Reported : g.unit = Listener => g = [unit |-> Listener, events |-> {"IN"}]
          BY <2>1, <2>2
        <4> QED
          BY <2>5, <3>1, <4>1
      <3>2. CASE e.unit # Listener
        BY <2>1, <2>2, <2>5, <3>2
      <3> QED
        BY <3>1, <3>2
    <2> QED
      BY <2>3, <2>4, <2>5
  <1>4. pc' \in {"read", "write"} => pc' = pc /\ batch' = batch
    BY <1>1 DEF main, signal_handler, epoll_pwait
  <1>5. TypeOK'
    BY <1>1, <1>2 DEF TypeOK
  <1>6. NoStaleEvent'
    <2>1. CASE batch' = batch
      BY <1>1, <1>4, <2>1 DEF NoStaleEvent
    <2>2. CASE batch' # batch
      <3>1. batch' \subseteq Reported
        BY <1>2, <2>2
      <3> QED
        BY <1>1, <1>3, <1>4, <2>2, <3>1 DEF NoStaleEvent
    <2> QED
      BY <2>1, <2>2
  <1>7. AcceptedOnce' /\ CountAgrees'
    BY <1>1 DEF AcceptedOnce, CountAgrees
  <1>8. WholeTurns'
    <2> SUFFICES ASSUME NEW d \in Clients, Undisturbed(d)'
                 PROVE  /\ Writing(d)' => cur'.events = {"IN", "OUT"}
                        /\ ~Writing(d)' => buffer_len'[d] = 0 /\ (d \in open' => interest'[d] = {"IN"})
                        /\ pc' = "read" /\ cur'.unit = d => cur'.events = {"IN"} /\ inq'[d] # <<>>
                        /\ \A e \in batch' : e.unit = d => e.events = {"IN"} /\ inq'[d] # <<>>
      BY DEF WholeTurns
    <2>1. Undisturbed(d) /\ peer[d] = "connected" /\ d # Listener
      BY <1>1, ListenerAssumption DEF Undisturbed
    <2>2. Writing(d)' <=> Writing(d)
      <3>1. CASE main \/ signal_handler
        BY <1>1, <3>1 DEF main, signal_handler, Writing
      <3>2. CASE epoll_pwait
        BY <3>2 DEF epoll_pwait, Writing
      <3> QED
        BY <3>1, <3>2
    <2>3. ASSUME NEW e \in batch', e.unit = d
          PROVE  e.events = {"IN"} /\ inq[d] # <<>>
      <3>1. CASE batch' = batch
        BY <2>1, <2>3, <3>1 DEF WholeTurns
      <3>2. CASE batch' # batch
        <4>1. e \in Reported /\ pc = "wait"
          BY <1>2, <2>3, <3>2
        <4>2. d \in open /\ e.events = Ready(d) /\ Ready(d) # {}
          BY <1>3, <2>1, <2>3, <4>1
        <4>3. interest[d] = {"IN"}
          BY <2>1, <4>1, <4>2 DEF WholeTurns, Writing
        <4>4. Ready(d) = {x \in {"IN"} : inq[d] # <<>>}
          BY <2>1, <4>3 DEF Ready
        <4> QED
          BY <4>2, <4>4
      <3> QED
        BY <3>1, <3>2
    <2>4. UNCHANGED <<cur, buffer_len, open, interest, inq>>
      BY <1>1
    <2> QED
      BY <1>4, <2>1, <2>2, <2>3, <2>4 DEF WholeTurns
  <1>9. EchoIntact'
    BY <1>1, EchoIs DEF Echoes, Held
  <1> QED
    BY <1>5, <1>6, <1>7, <1>8, <1>9

LEMMA EventStep ==
    ASSUME IInv, next_event
    PROVE  IInv'
  <1> USE DEF IInv, units, clients
  <1>1. /\ pc = "loop"
        /\ UNCHANGED <<CONNECTIONS_LIMIT, current_connection_count, units, clients, short, phantoms>>
    BY DEF next_event
  <1>2. AcceptedOnce' /\ CountAgrees'
    BY <1>1 DEF AcceptedOnce, CountAgrees
  <1>3. EchoIntact'
    BY <1>1, EchoIs DEF Echoes, Held
  <1>4. ASSUME NEW e \in batch, e.unit # Listener, batch' = batch \ {e}, cur' = e,
               pc' = IF "IN" \in e.events THEN "read" ELSE "write"
        PROVE  IInv'
    <2>1. TypeOK'
      BY <1>1, <1>4 DEF TypeOK
    <2>2. NoStaleEvent'
      BY <1>1, <1>4 DEF NoStaleEvent
    <2>3. WholeTurns'
      <3>1. \A d \in Clients : Undisturbed(d)' => Undisturbed(d)
        BY <1>1 DEF Undisturbed
      <3>2. \A d \in Clients : Undisturbed(d) /\ e.unit = d => pc' = "read"
        BY <1>4 DEF WholeTurns
      <3>3. \A d \in Clients : ~Writing(d)
        BY <1>1 DEF Writing
      <3> QED
        BY <1>1, <1>4, <3>1, <3>2, <3>3 DEF WholeTurns, Writing
    <2> QED
      BY <1>2, <1>3, <2>1, <2>2, <2>3
  <1>5. CASE batch = {} /\ pc' = "wait" /\ UNCHANGED <<batch, cur>>
    <2>1. TypeOK' /\ NoStaleEvent'
      BY <1>1, <1>5 DEF TypeOK, NoStaleEvent
    <2>2. WholeTurns'
      BY <1>1, <1>5 DEF WholeTurns, Undisturbed, Writing
    <2> QED
      BY <1>2, <1>3, <2>1, <2>2
  <1> QED
    BY <1>4, <1>5 DEF next_event

LEMMA AcceptStep ==
    ASSUME IInv, NEW c \in Clients, accept_client(c)
    PROVE  IInv'
  <1> USE DEF IInv, units
  <1>1. /\ pc = "loop" /\ pc' = pc /\ c \in backlog /\ backlog' = backlog \ {c}
        /\ UNCHANGED <<CONNECTIONS_LIMIT, cur, inq, outq, sent, got, short>>
    BY DEF accept_client
  <1>2. PICK listening \in batch : listening.unit = Listener /\ batch' = batch \ {listening}
    BY DEF accept_client
  <1>3. c \notin open /\ peer[c] # "none"
    BY <1>1 DEF AcceptedOnce
  <1>4. \A e \in batch : e.unit # c
    BY <1>3, ListenerAssumption DEF NoStaleEvent
  <1>5. \A d \in Clients : ~Writing(d) /\ ~Writing(d)'
    BY <1>1 DEF Writing
  <1>6. Undisturbed(c) => buffer_len[c] = 0
    BY <1>5 DEF WholeTurns
  <1>7. CASE /\ peer' = [peer EXCEPT ![c] = "dropped"] /\ UNCHANGED units
             /\ \/ UNCHANGED <<current_connection_count, phantoms>>
                \/ /\ current_connection_count < CONNECTIONS_LIMIT
                   /\ current_connection_count' = current_connection_count + 1
                   /\ phantoms' = phantoms + 1
    <2>1. peer'[c] = "dropped" /\ \A d \in Clients : d # c => peer'[d] = peer[d]
      BY <1>7 DEF TypeOK
    <2>2. TypeOK'
      <3>1. peer' \in [Clients -> {"none", "connected", "closed", "reset", "cut", "dropped"}]
        BY <1>7 DEF TypeOK
      <3>2. current_connection_count' \in Nat /\ phantoms' \in Nat
        BY <1>7 DEF TypeOK
      <3>3. backlog' \in SUBSET Clients /\ batch' \in SUBSET Events
        BY <1>1, <1>2 DEF TypeOK
      <3>4. \A d \in Clients : buffer_len'[d] <= Len(buffer'[d]) /\ Len(outq'[d]) <= Room
        BY <1>1, <1>7 DEF TypeOK
      <3> QED
        BY <1>1, <1>7, <3>1, <3>2, <3>3, <3>4 DEF TypeOK
    <2>3. NoStaleEvent'
      BY <1>1, <1>2, <1>7 DEF NoStaleEvent
    <2>4. AcceptedOnce'
      BY <1>1, <1>7, <2>1 DEF AcceptedOnce, TypeOK
    <2>5. CountAgrees'
      <3>1. Cardinality(open) \in Nat
        BY FS_CardinalityType DEF TypeOK
      <3> QED
        BY <1>1, <1>7, <3>1 DEF CountAgrees, TypeOK
    <2>6. WholeTurns'
      BY <1>1, <1>2, <1>5, <1>7, <2>1 DEF WholeTurns, Undisturbed
    <2>7. EchoIntact'
      <3> SUFFICES ASSUME NEW d \in Clients PROVE Echoes(d)'
        BY EchoIs
      <3>1. CASE d = c
        BY <2>1, <3>1 DEF Echoes
      <3>2. CASE d # c
        BY <1>1, <1>7, <2>1, <3>2, EchoIs DEF Echoes, Held
      <3> QED
        BY <3>1, <3>2
    <2> QED
      BY <2>2, <2>3, <2>4, <2>5, <2>6, <2>7
  <1>8. CASE /\ current_connection_count < CONNECTIONS_LIMIT
             /\ current_connection_count' = current_connection_count + 1
             /\ initialize_connection(c) /\ UNCHANGED <<peer, phantoms>>
    <2>1. /\ open' = open \cup {c} /\ buffer' = [buffer EXCEPT ![c] = <<>>]
          /\ buffer_len' = [buffer_len EXCEPT ![c] = 0] /\ interest' = [interest EXCEPT ![c] = {"IN"}]
      BY <1>8 DEF initialize_connection
    <2>2. /\ buffer'[c] = <<>> /\ buffer_len'[c] = 0 /\ interest'[c] = {"IN"}
          /\ \A d \in Clients : d # c => /\ buffer'[d] = buffer[d] /\ buffer_len'[d] = buffer_len[d]
                                        /\ interest'[d] = interest[d]
      BY <2>1 DEF TypeOK
    <2>3. IsFiniteSet(open') /\ Cardinality(open') = Cardinality(open) + 1 /\ Cardinality(open) \in Nat
      BY <1>3, <2>1, FS_AddElement, FS_CardinalityType DEF TypeOK
    <2>4. TypeOK'
      <3>1. <<>> \in Seq(Nat) /\ Len(<<>>) = 0
        OBVIOUS
      <3>2. buffer' \in [Clients -> Seq(Nat)] /\ buffer_len' \in [Clients -> Nat]
            /\ interest' \in [Clients -> SUBSET {"IN", "OUT"}]
        BY <2>1, <3>1 DEF TypeOK
      <3>3. \A d \in Clients : buffer_len'[d] <= Len(buffer'[d]) /\ Len(outq'[d]) <= Room
        <4>1. \A d \in Clients : Len(outq'[d]) <= Room /\ buffer_len[d] <= Len(buffer[d])
          BY <1>1 DEF TypeOK
        <4>2. Len(buffer'[c]) = 0 /\ buffer_len'[c] = 0
          BY <2>2, <3>1
        <4>3. buffer_len'[c] <= Len(buffer'[c])
          BY <4>2
        <4>4. \A d \in Clients : d # c => buffer_len'[d] <= Len(buffer'[d])
          BY <2>2, <4>1
        <4> QED
          BY <4>1, <4>3, <4>4
      <3> QED
        BY <1>1, <1>2, <1>8, <2>1, <2>3, <3>2, <3>3 DEF TypeOK
    <2>5. NoStaleEvent'
      BY <1>1, <1>2, <2>1 DEF NoStaleEvent
    <2>6. AcceptedOnce'
      BY <1>1, <1>3, <1>8, <2>1, <2>2 DEF AcceptedOnce, TypeOK
    <2>7. CountAgrees'
      <3>1. /\ current_connection_count \in Nat /\ CONNECTIONS_LIMIT \in Nat /\ phantoms \in Nat
            /\ current_connection_count = Cardinality(open) + phantoms
        BY DEF CountAgrees, TypeOK
      <3>2. /\ current_connection_count' = Cardinality(open') + phantoms'
            /\ current_connection_count' <= CONNECTIONS_LIMIT'
        BY <1>1, <1>8, <2>3, <3>1
      <3> QED
        BY <3>2 DEF CountAgrees
    <2>8. WholeTurns'
      <3>1. \A d \in Clients : Undisturbed(d)' => Undisturbed(d)
        BY <1>1, <1>8 DEF Undisturbed
      <3> QED
        BY <1>1, <1>2, <1>4, <1>5, <2>1, <2>2, <3>1 DEF WholeTurns
    <2>9. EchoIntact'
      <3> SUFFICES ASSUME NEW d \in Clients PROVE Echoes(d)'
        BY EchoIs
      <3>1. CASE d = c
        <4>1. Held(c)' = <<>>
          BY <2>2, SubSeqEmpty DEF Held
        <4>2. Undisturbed(c) => Held(c) = <<>>
          BY <1>6, HeldType
        <4> QED
          BY <1>1, <1>8, <3>1, <4>1, <4>2, EchoIs DEF Echoes, Undisturbed
      <3>2. CASE d # c
        BY <1>1, <1>8, <2>2, <3>2, EchoIs DEF Echoes, Held
      <3> QED
        BY <3>1, <3>2
    <2> QED
      BY <2>4, <2>5, <2>6, <2>7, <2>8, <2>9
  <1>9. ~(current_connection_count >= CONNECTIONS_LIMIT) => current_connection_count < CONNECTIONS_LIMIT
    BY DEF TypeOK
  <1> QED
    BY <1>7, <1>8, <1>9 DEF accept_client

\* A client is released: its bytes are no longer followed.
LEMMA FreeStep ==
    ASSUME IInv, pc \in {"read", "write"}, free_client(cur.unit),
           UNCHANGED <<CONNECTIONS_LIMIT, batch, backlog, inq, sent, got, phantoms,
                       buffer, buffer_len, outq>>,
           short \subseteq short', short' \subseteq Clients,
           cur.unit \in short' \/ peer[cur.unit] # "connected"
    PROVE  IInv'
  <1> USE DEF IInv
  <1> DEFINE c == cur.unit
  <1>1. c \in open /\ c \in Clients /\ c # Listener /\ peer[c] # "none" /\ \A e \in batch : e.unit # c
    BY ListenerAssumption DEF NoStaleEvent, AcceptedOnce, TypeOK
  <1>2. /\ open' = open \ {c} /\ interest' = [interest EXCEPT ![c] = {}]
        /\ peer' = [peer EXCEPT ![c] = IF @ = "connected" THEN "cut" ELSE "dropped"]
        /\ current_connection_count' = current_connection_count - 1
        /\ pc' = "loop" /\ cur' = NoEvent
    BY DEF free_client
  <1> HIDE DEF c
  <1>3. /\ peer'[c] \in {"cut", "dropped"}
        /\ peer[c] # "connected" => peer'[c] = "dropped"
        /\ \A d \in Clients : d # c => peer'[d] = peer[d] /\ interest'[d] = interest[d]
    BY <1>1, <1>2 DEF TypeOK
  <1>4. IsFiniteSet(open') /\ Cardinality(open') = Cardinality(open) - 1 /\ Cardinality(open) \in Nat
        /\ Cardinality(open') \in Nat
    BY <1>1, <1>2, FS_RemoveElement, FS_CardinalityType DEF TypeOK
  <1>5. CountAgrees' /\ current_connection_count' \in Nat
    <2>1. /\ current_connection_count \in Nat /\ CONNECTIONS_LIMIT \in Nat /\ phantoms \in Nat
          /\ current_connection_count = Cardinality(open) + phantoms
          /\ current_connection_count <= CONNECTIONS_LIMIT
      BY DEF CountAgrees, TypeOK
    <2>2. /\ current_connection_count' = Cardinality(open') + phantoms'
          /\ current_connection_count' <= CONNECTIONS_LIMIT' /\ current_connection_count' \in Nat
      BY <1>2, <1>4, <2>1
    <2> QED
      BY <2>2 DEF CountAgrees
  <1>6. TypeOK'
    <2>1. NoEvent \in Events
      BY DEF NoEvent, Events
    <2>2. interest' \in [Clients -> SUBSET {"IN", "OUT"}]
      BY <1>1, <1>2 DEF TypeOK
    <2>3. peer' \in [Clients -> {"none", "connected", "closed", "reset", "cut", "dropped"}]
      BY <1>1, <1>2 DEF TypeOK
    <2>4. open' \in SUBSET Clients
      BY <1>2 DEF TypeOK
    <2> QED
      BY <1>2, <1>4, <1>5, <2>1, <2>2, <2>3, <2>4 DEF TypeOK
  <1>7. NoStaleEvent'
    BY <1>1, <1>2 DEF NoStaleEvent
  <1>8. AcceptedOnce'
    <2>1. \A d \in Clients : peer'[d] = "none" => d # c /\ peer[d] = "none"
      BY <1>3
    <2>2. \A d \in Clients : peer[d] # "none" => peer'[d] # "none"
      BY <1>3
    <2> QED
      BY <1>2, <2>1, <2>2 DEF AcceptedOnce, TypeOK
  <1>9. WholeTurns'
    <2> SUFFICES ASSUME NEW d \in Clients, Undisturbed(d)'
                 PROVE  /\ buffer_len'[d] = 0 /\ (d \in open' => interest'[d] = {"IN"})
                        /\ \A e \in batch' : e.unit = d => e.events = {"IN"} /\ inq'[d] # <<>>
      BY <1>2 DEF WholeTurns, Writing
    <2>1. d # c /\ Undisturbed(d)
      <3>1. d # c
        BY <1>3 DEF Undisturbed
      <3> QED
        BY <1>3, <3>1 DEF Undisturbed
    <2>2. ~Writing(d)
      BY <2>1 DEF Writing, c
    <2> QED
      BY <1>2, <1>3, <2>1, <2>2 DEF WholeTurns
  <1>10. EchoIntact'
    <2> SUFFICES ASSUME NEW d \in Clients PROVE Echoes(d)'
      BY EchoIs
    <2>1. CASE d = c
      BY <1>3, <2>1 DEF Echoes, c
    <2>2. CASE d # c
      BY <1>3, <2>2, EchoIs DEF Echoes, Held
    <2> QED
      BY <2>1, <2>2
  <1> QED
    BY <1>5, <1>6, <1>7, <1>8, <1>9, <1>10

LEMMA ReadStep ==
    ASSUME IInv, read_event
    PROVE  IInv'
  <1> USE DEF IInv
  <1> DEFINE c == cur.unit
             n == Least(Len(inq[c]), REQUEST_BUFFER)
  <1>1. pc = "read" /\ UNCHANGED <<CONNECTIONS_LIMIT, batch, backlog, outq, sent, got, short, phantoms>>
    BY DEF read_event
  <1>2. c \in open /\ c \in Clients /\ peer[c] # "none" /\ \A e \in batch : e.unit # c
    BY <1>1 DEF NoStaleEvent, AcceptedOnce, TypeOK
  <1>3. CASE peer[c] = "reset"
    <2>1. free_client(cur.unit) /\ UNCHANGED <<buffer, buffer_len, inq>>
      BY <1>3 DEF read_event
    <2>2. short' \subseteq Clients
      BY <1>1 DEF TypeOK
    <2> QED
      BY <1>1, <1>3, <2>1, <2>2, FreeStep
  <1>4. CASE peer[c] # "reset"
    <2>1. /\ pc' = "write" /\ UNCHANGED <<open, peer, current_connection_count>>
          /\ \/ n > 0 /\ handle_read(c, n)
             \/ ~(n > 0) /\ UNCHANGED <<buffer, buffer_len, inq, cur, interest>>
      BY <1>4 DEF read_event
    <2>2. CountAgrees'
      BY <1>1, <2>1 DEF CountAgrees
    <2>3. Len(inq[c]) \in Nat /\ inq[c] \in Seq(Nat) /\ n \in 0 .. Len(inq[c])
          /\ (n = 0 => inq[c] = <<>>)
      <3>1. inq[c] \in Seq(Nat) /\ Len(inq[c]) \in Nat /\ (Len(inq[c]) = 0 => inq[c] = <<>>)
        BY <1>2, EmptySeq DEF TypeOK
      <3>2. REQUEST_BUFFER \in Nat \ {0}
        BY SizesAssumption
      <3> QED
        BY <3>1, <3>2 DEF Least
    <2> HIDE DEF c, n
    <2>4. \A d \in Clients : ~Writing(d) /\ (d # c => ~(cur.unit = d))
      BY <1>1 DEF Writing, c
    <2>5. CASE ~(n > 0) /\ UNCHANGED <<buffer, buffer_len, inq, cur, interest>>
      <3>1. inq[c] = <<>>
        BY <2>3, <2>5
      <3>2. TypeOK' /\ NoStaleEvent' /\ AcceptedOnce'
        BY <1>1, <2>1, <2>5 DEF TypeOK, NoStaleEvent, AcceptedOnce
      <3>3. WholeTurns'
        <4>1. ~Undisturbed(c) /\ \A d \in Clients : Undisturbed(d)' <=> Undisturbed(d)
          BY <1>1, <1>2, <2>1, <3>1 DEF WholeTurns, Undisturbed, c
        <4>2. \A d \in Clients : d # c => ~Writing(d)'
          BY <2>4, <2>5 DEF Writing
        <4> QED
          BY <1>1, <2>1, <2>4, <2>5, <4>1, <4>2 DEF WholeTurns
      <3>4. EchoIntact'
        BY <1>1, <2>1, <2>5, EchoIs DEF Echoes, Held
      <3> QED
        BY <2>2, <3>2, <3>3, <3>4
    <2>6. CASE n > 0 /\ handle_read(c, n)
      <3> DEFINE first == SubSeq(inq[c], 1, n)
                 rest  == SubSeq(inq[c], n + 1, Len(inq[c]))
      <3>1. /\ first \in Seq(Nat) /\ rest \in Seq(Nat) /\ Len(first) = n
            /\ Upper(first) \in Seq(Nat) /\ Len(Upper(first)) = n
        <4>1. first \in Seq(Nat) /\ rest \in Seq(Nat) /\ Len(first) = n
          BY <2>3, SplitAt
        <4> HIDE DEF first, rest
        <4> QED
          BY <4>1, UpperType
      <3>2. /\ buffer' = [buffer EXCEPT ![c] = Upper(first)] /\ buffer_len' = [buffer_len EXCEPT ![c] = n]
            /\ inq' = [inq EXCEPT ![c] = rest]
            /\ cur' = [cur EXCEPT !.events = @ \cup {"OUT"}]
            /\ interest' = [interest EXCEPT ![c] = cur'.events \ {"HUP"}]
        BY <1>2, <2>6 DEF handle_read, epoll_add_write, TypeOK
      <3>3. /\ buffer'[c] = Upper(first) /\ buffer_len'[c] = n /\ inq'[c] = rest
            /\ \A d \in Clients : d # c => /\ buffer'[d] = buffer[d] /\ buffer_len'[d] = buffer_len[d]
                                          /\ inq'[d] = inq[d] /\ interest'[d] = interest[d]
        BY <1>2, <3>2 DEF TypeOK
      <3> HIDE DEF first, rest
      <3>4. cur'.unit = c /\ cur'.events = cur.events \cup {"OUT"} /\ cur' \in Events
        <4>1. cur \in Events
          BY DEF TypeOK
        <4> QED
          BY <3>2, <4>1 DEF Events, c
      <3>5. TypeOK'
        <4>1. buffer' \in [Clients -> Seq(Nat)] /\ buffer_len' \in [Clients -> Nat] /\ inq' \in [Clients -> Seq(Nat)]
          <5>1. /\ buffer \in [Clients -> Seq(Nat)] /\ buffer_len \in [Clients -> Nat]
                /\ inq \in [Clients -> Seq(Nat)]
            BY DEF TypeOK
          <5>2. buffer' \in [Clients -> Seq(Nat)]
            BY <3>1, <3>2, <5>1
          <5>3. inq' \in [Clients -> Seq(Nat)]
            BY <3>1, <3>2, <5>1
          <5>4. n \in Nat
            BY <2>3
          <5>5. buffer_len' \in [Clients -> Nat]
            BY <3>2, <5>1, <5>4
          <5> QED
            BY <5>2, <5>3, <5>5
        <4>2. interest' \in [Clients -> SUBSET {"IN", "OUT"}]
          <5>1. cur'.events \ {"HUP"} \in SUBSET {"IN", "OUT"}
            BY <3>4 DEF Events
          <5> QED
            BY <3>2, <5>1 DEF TypeOK
        <4>3. \A d \in Clients : buffer_len'[d] <= Len(buffer'[d]) /\ Len(outq'[d]) <= Room
          <5>1. \A d \in Clients : buffer_len[d] <= Len(buffer[d]) /\ Len(outq'[d]) <= Room
            BY <1>1 DEF TypeOK
          <5>2. buffer_len'[c] <= Len(buffer'[c])
            BY <2>3, <3>1, <3>3
          <5> QED
            BY <3>3, <5>1, <5>2
        <4> QED
          BY <1>1, <2>1, <3>4, <4>1, <4>2, <4>3 DEF TypeOK
      <3>6. NoStaleEvent'
        BY <1>1, <1>2, <2>1, <3>4 DEF NoStaleEvent
      <3>7. AcceptedOnce'
        BY <1>1, <1>2, <2>1, <3>3 DEF AcceptedOnce
      <3>8. WholeTurns'
        <4> SUFFICES ASSUME NEW d \in Clients, Undisturbed(d)'
                     PROVE  /\ Writing(d)' => cur'.events = {"IN", "OUT"}
                            /\ ~Writing(d)' => buffer_len'[d] = 0 /\ (d \in open' => interest'[d] = {"IN"})
                            /\ \A e \in batch' : e.unit = d => e.events = {"IN"} /\ inq'[d] # <<>>
          BY <2>1 DEF WholeTurns
        <4>1. Undisturbed(d)
          BY <1>1, <2>1 DEF Undisturbed
        <4>2. CASE d = c
          <5>1. cur.events = {"IN"}
            BY <1>1, <4>1, <4>2 DEF WholeTurns, c
          <5>2. Writing(d)'
            BY <2>1, <3>4, <4>2 DEF Writing
          <5> QED
            BY <1>1, <1>2, <3>4, <4>2, <5>1, <5>2
        <4>3. CASE d # c
          <5>1. ~Writing(d)'
            BY <3>4, <4>3 DEF Writing
          <5> QED
            BY <1>1, <2>1, <2>4, <3>3, <4>1, <4>3, <5>1 DEF WholeTurns
        <4> QED
          BY <4>2, <4>3
      <3>9. EchoIntact'
        <4> SUFFICES ASSUME NEW d \in Clients PROVE Echoes(d)'
          BY EchoIs
        <4>1. CASE d = c
          <5>1. Held(d)' = Upper(first)
            <6>1. SubSeq(Upper(first), 1, n) = Upper(first)
              BY <3>1, SubSeqFull
            <6> QED
              BY <3>3, <4>1, <6>1 DEF Held
          <5>2. got[c] \in Seq(Nat) /\ outq[c] \in Seq(Nat)
            BY <1>2, HeldType
          <5>3. Chain(got[c], outq[c], Upper(first), rest) = Chain(got[c], outq[c], <<>>, inq[c])
            BY <2>3, <5>2, ChainRead DEF first, rest
          <5>4. Undisturbed(c) => Held(c) = <<>>
            BY <1>2, <2>4, HeldType DEF WholeTurns
          <5> QED
            BY <1>1, <1>2, <2>1, <3>3, <4>1, <5>1, <5>3, <5>4, EchoIs DEF Echoes, Undisturbed
        <4>2. CASE d # c
          BY <1>1, <2>1, <3>3, <4>2, EchoIs DEF Echoes, Held
        <4> QED
          BY <4>1, <4>2
      <3> QED
        BY <2>2, <3>5, <3>6, <3>7, <3>8, <3>9
    <2> QED
      BY <2>1, <2>5, <2>6
  <1> QED
    BY <1>3, <1>4

\* A write takes no more than the bytes left or the room in the socket.
LEMMA LeastIs ==
    ASSUME NEW a \in Nat, NEW b \in Nat
    PROVE  Least(a, b) \in Nat /\ Least(a, b) <= a /\ Least(a, b) <= b
  BY DEF Least

LEMMA WriteStep ==
    ASSUME IInv, write_event
    PROVE  IInv'
  <1> USE DEF IInv
  <1> DEFINE c == cur.unit
             n == Least(buffer_len[c], Room - Len(outq[c]))
             fails == buffer_len[c] > 0 /\ (peer[c] = "reset" \/ n = 0)
  <1>1. pc = "write" /\ UNCHANGED <<CONNECTIONS_LIMIT, batch, buffer, backlog, inq, sent, got, phantoms>>
    BY DEF write_event
  <1>2. c \in open /\ c \in Clients /\ peer[c] # "none" /\ \A e \in batch : e.unit # c
    BY <1>1 DEF NoStaleEvent, AcceptedOnce, TypeOK
  <1>3. short' = IF "OUT" \in cur.events /\ n < buffer_len[c] /\ peer[c] # "reset"
                 THEN short \cup {c} ELSE short
    BY DEF write_event
  <1>4. /\ buffer[c] \in Seq(Nat) /\ Len(buffer[c]) \in Nat
        /\ buffer_len[c] \in Nat /\ buffer_len[c] <= Len(buffer[c])
        /\ outq[c] \in Seq(Nat) /\ Len(outq[c]) \in Nat /\ Len(outq[c]) <= Room /\ Room \in Nat \ {0}
    BY <1>2, SizesAssumption DEF TypeOK
  <1>5. n \in 0 .. Len(buffer[c]) /\ n <= buffer_len[c] /\ n <= Room - Len(outq[c])
    <2>1. Room - Len(outq[c]) \in Nat
      BY <1>4
    <2>2. n \in Nat /\ n <= buffer_len[c] /\ n <= Room - Len(outq[c])
      BY <1>4, <2>1, LeastIs
    <2> QED
      BY <1>4, <2>2
  <1>6. Undisturbed(c) => cur.events = {"IN", "OUT"}
    BY <1>1, <1>2 DEF WholeTurns, Writing
  <1>7. short \subseteq short' /\ short' \subseteq Clients
    BY <1>2, <1>3 DEF TypeOK
  <1>8. CASE "OUT" \notin cur.events \/ fails
    <2>1. free_client(cur.unit) /\ UNCHANGED <<buffer_len, outq>>
      BY <1>8 DEF write_event
    <2>2. c \in short' \/ peer[c] # "connected"
      <3>1. CASE c \notin short /\ peer[c] = "connected"
        <4>1. n = 0 /\ buffer_len[c] > 0 /\ "OUT" \in cur.events
          BY <1>6, <1>8, <3>1 DEF Undisturbed
        <4> QED
          BY <1>3, <1>4, <3>1, <4>1
      <3> QED
        BY <1>7, <3>1
    <2> QED
      BY <1>1, <1>7, <2>1, <2>2, FreeStep
  <1>9. CASE ~("OUT" \notin cur.events \/ fails)
    <2> DEFINE out == SubSeq(buffer[c], 1, n)
    <2>1. /\ handle_write(c, n) /\ pc' = "loop" /\ cur' = NoEvent
          /\ IF buffer_len'[c] = 0 THEN epoll_del_write(c) ELSE UNCHANGED interest
          /\ UNCHANGED <<open, current_connection_count>>
      BY <1>9 DEF write_event
    <2>2. out \in Seq(Nat) /\ Len(out) = n /\ outq[c] \o out \in Seq(Nat)
          /\ Len(outq[c] \o out) = Len(outq[c]) + n
      <3>1. out \in Seq(Nat) /\ Len(out) = n
        BY <1>4, <1>5, SplitAt
      <3> HIDE DEF out, n
      <3>2. outq[c] \o out \in Seq(Nat) /\ Len(outq[c] \o out) = Len(outq[c]) + Len(out)
        BY <1>4, <3>1, ConcatProperties
      <3> QED
        BY <3>1, <3>2
    <2>3. buffer_len' = [buffer_len EXCEPT ![c] = @ - n]
      BY <2>1 DEF handle_write
    <2>4. \/ peer[c] = "closed" /\ peer' = [peer EXCEPT ![c] = "reset"] /\ UNCHANGED outq
          \/ outq' = [outq EXCEPT ![c] = outq[c] \o out] /\ UNCHANGED peer
      BY <1>2, <2>1 DEF handle_write, TypeOK
    <2> HIDE DEF out, fails, n
    <2>5. \/ interest' = [interest EXCEPT ![c] = cur.events \ {"OUT", "HUP"}] /\ buffer_len'[c] = 0
          \/ UNCHANGED interest /\ buffer_len'[c] # 0
      <3>1. CASE buffer_len'[c] = 0
        BY <2>1, <3>1 DEF epoll_del_write
      <3>2. CASE buffer_len'[c] # 0
        BY <2>1, <3>2
      <3> QED
        BY <3>1, <3>2
    <2> HIDE DEF c
    <2>6. /\ buffer_len'[c] = buffer_len[c] - n
          /\ \A d \in Clients : d # c => /\ buffer_len'[d] = buffer_len[d] /\ interest'[d] = interest[d]
                                        /\ peer'[d] = peer[d] /\ outq'[d] = outq[d]
      BY <1>2, <2>3, <2>4, <2>5 DEF TypeOK
    <2>7. \/ peer[c] = "closed" /\ peer'[c] = "reset"
          \/ outq'[c] = outq[c] \o out /\ peer'[c] = peer[c]
      BY <1>2, <2>4 DEF TypeOK
    <2>8. CountAgrees'
      BY <1>1, <2>1 DEF CountAgrees
    <2>9. \A d \in Clients : ~Writing(d)' /\ (d # c => ~Writing(d))
      BY <2>1 DEF Writing, c
    <2>10. TypeOK'
      <3>1. buffer_len[c] - n \in Nat /\ buffer_len[c] - n <= buffer_len[c]
        BY <1>4, <1>5
      <3>2. buffer_len' \in [Clients -> Nat]
        <4>1. buffer_len \in [Clients -> Nat]
          BY DEF TypeOK
        <4> QED
          BY <1>2, <2>3, <3>1, <4>1
      <3>3. outq' \in [Clients -> Seq(Nat)] /\ \A d \in Clients : Len(outq'[d]) <= Room
        <4>1. outq \in [Clients -> Seq(Nat)] /\ \A d \in Clients : Len(outq[d]) <= Room
          BY DEF TypeOK
        <4>2. Len(outq[c] \o out) <= Room
          BY <1>4, <1>5, <2>2
        <4>3. CASE UNCHANGED outq
          BY <4>1, <4>3
        <4>4. CASE outq' = [outq EXCEPT ![c] = outq[c] \o out]
          <5>1. outq' \in [Clients -> Seq(Nat)]
            BY <2>2, <4>1, <4>4
          <5>2. outq'[c] = outq[c] \o out /\ \A d \in Clients : d # c => outq'[d] = outq[d]
            BY <1>2, <4>1, <4>4
          <5>3. ASSUME NEW d \in Clients PROVE Len(outq'[d]) <= Room
            BY <4>1, <4>2, <5>2
          <5> QED
            BY <5>1, <5>3
        <4> QED
          BY <2>4, <4>3, <4>4
      <3>4. peer' \in [Clients -> {"none", "connected", "closed", "reset", "cut", "dropped"}]
        BY <2>4 DEF TypeOK
      <3>5. interest' \in [Clients -> SUBSET {"IN", "OUT"}]
        <4>1. cur.events \ {"OUT", "HUP"} \in SUBSET {"IN", "OUT"}
          BY DEF TypeOK, Events
        <4> QED
          BY <2>5, <4>1 DEF TypeOK
      <3>6. \A d \in Clients : buffer_len'[d] <= Len(buffer'[d])
        <4>1. \A d \in Clients : buffer_len[d] <= Len(buffer[d])
          BY DEF TypeOK
        <4>2. buffer_len'[c] <= Len(buffer[c])
          BY <1>4, <2>6, <3>1
        <4> QED
          BY <1>1, <2>6, <4>1, <4>2
      <3>7. NoEvent \in Events
        BY DEF NoEvent, Events
      <3> QED
        BY <1>1, <1>7, <2>1, <3>2, <3>3, <3>4, <3>5, <3>6, <3>7 DEF TypeOK
    <2>11. NoStaleEvent'
      BY <1>1, <2>1 DEF NoStaleEvent
    <2>12. AcceptedOnce'
      <3>1. peer'[c] # "none"
        BY <1>2, <2>7
      <3> QED
        BY <1>1, <2>1, <2>6, <3>1 DEF AcceptedOnce, TypeOK
    <2>13. Undisturbed(c) /\ c \notin short' => n = buffer_len[c] /\ cur.events = {"IN", "OUT"}
      <3>1. n < buffer_len[c] \/ n = buffer_len[c]
        BY <1>4, <1>5
      <3> QED
        BY <1>3, <1>6, <3>1 DEF Undisturbed
    <2>14. WholeTurns'
      <3> SUFFICES ASSUME NEW d \in Clients, Undisturbed(d)'
                   PROVE  /\ buffer_len'[d] = 0 /\ (d \in open' => interest'[d] = {"IN"})
                          /\ \A e \in batch' : e.unit = d => e.events = {"IN"} /\ inq'[d] # <<>>
        BY <2>1, <2>9 DEF WholeTurns
      <3>1. Undisturbed(d)
        BY <1>7, <2>6, <2>7 DEF Undisturbed
      <3>2. CASE d = c
        <4>1. n = buffer_len[c] /\ cur.events = {"IN", "OUT"}
          BY <2>13, <3>1, <3>2 DEF Undisturbed
        <4>2. buffer_len'[c] = 0
          BY <1>4, <2>6, <4>1
        <4>3. interest'[c] = {"IN"}
          <5>1. interest' = [interest EXCEPT ![c] = cur.events \ {"OUT", "HUP"}]
            BY <2>5, <4>2
          <5>2. interest'[c] = cur.events \ {"OUT", "HUP"}
            BY <1>2, <5>1 DEF TypeOK
          <5> QED
            BY <4>1, <5>2
        <4> QED
          BY <1>1, <1>2, <3>2, <4>2, <4>3
      <3>3. CASE d # c
        BY <1>1, <2>1, <2>6, <2>9, <3>1, <3>3 DEF WholeTurns
      <3> QED
        BY <3>2, <3>3
    <2>15. EchoIntact'
      <3> SUFFICES ASSUME NEW d \in Clients PROVE Echoes(d)'
        BY EchoIs
      <3>1. CASE d = c
        <4>1. CASE c \notin short' /\ peer'[c] = "connected"
          <5>1. Undisturbed(c) /\ peer[c] = "connected" /\ outq'[c] = outq[c] \o out
            BY <1>7, <2>7, <4>1 DEF Undisturbed
          <5>2. n = buffer_len[c]
            BY <2>13, <4>1, <5>1
          <5>3. out = Held(c)
            BY <5>2 DEF out, Held
          <5>4. Held(d)' = <<>>
            <6>1. buffer_len'[d] = 0
              BY <1>4, <2>6, <3>1, <5>2
            <6> QED
              BY <6>1, SubSeqEmpty DEF Held
          <5>5. /\ got[c] \in Seq(Nat) /\ outq[c] \in Seq(Nat) /\ inq[c] \in Seq(Nat) /\ Held(c) \in Seq(Nat)
            BY <1>2, HeldType
          <5>6. Chain(got[c], outq[c] \o Held(c), <<>>, inq[c]) = Chain(got[c], outq[c], Held(c), inq[c])
            BY <5>5, ChainWrite
          <5>7. Upper(Letters(sent[c])) = Chain(got[c], outq[c], Held(c), inq[c])
            BY <1>2, <5>1, EchoIs DEF Echoes, Undisturbed
          <5> QED
            BY <1>1, <3>1, <4>1, <5>1, <5>3, <5>4, <5>6, <5>7 DEF Echoes
        <4>2. CASE c \notin short' /\ peer'[c] # "connected"
          <5>1. peer'[c] # "cut"
            BY <1>2, <1>7, <2>7, <4>2, EchoIs DEF Echoes
          <5> QED
            BY <3>1, <4>2, <5>1 DEF Echoes
        <4>3. CASE c \in short'
          BY <3>1, <4>3 DEF Echoes
        <4> QED
          BY <4>1, <4>2, <4>3
      <3>2. CASE d # c
        BY <1>1, <1>7, <2>6, <3>2, EchoIs DEF Echoes, Held
      <3> QED
        BY <3>1, <3>2
    <2> QED
      BY <2>8, <2>10, <2>11, <2>12, <2>14, <2>15
  <1> QED
    BY <1>8, <1>9

LEMMA StutterIInv == IInv /\ UNCHANGED vars => IInv'
  <1> SUFFICES ASSUME IInv, UNCHANGED vars PROVE IInv'
    OBVIOUS
  <1> USE DEF IInv, vars, server, units, clients
  <1>1. TypeOK' /\ NoStaleEvent' /\ AcceptedOnce' /\ CountAgrees'
    BY DEF TypeOK, NoStaleEvent, AcceptedOnce, CountAgrees
  <1>2. WholeTurns'
    BY DEF WholeTurns, Undisturbed, Writing
  <1>3. EchoIntact'
    BY EchoIs DEF Echoes, Held
  <1> QED
    BY <1>1, <1>2, <1>3

LEMMA NextIInv == IInv /\ [Next]_vars => IInv'
  <1> SUFFICES ASSUME IInv, [Next]_vars PROVE IInv'
    OBVIOUS
  <1>1. CASE main \/ signal_handler \/ epoll_pwait
    BY <1>1, WaitStep
  <1>2. CASE next_event
    BY <1>2, EventStep
  <1>3. CASE read_event
    BY <1>3, ReadStep
  <1>4. CASE write_event
    BY <1>4, WriteStep
  <1>5. ASSUME NEW c \in Clients,
               \/ accept_client(c) \/ client_connect(c) \/ client_send(c)
               \/ client_receive(c) \/ client_close(c)
        PROVE  IInv'
    BY <1>5, AcceptStep, ConnectStep, SendStep, ReceiveStep, CloseStep
  <1>6. CASE UNCHANGED vars
    BY <1>6, StutterIInv
  <1> QED
    BY <1>1, <1>2, <1>3, <1>4, <1>5, <1>6, Zenon DEF Next, run_server

-----------------------------------------------------------------------------
(* The results *)

\* Every step of run_server and of its clients keeps the inductive invariant.
THEOREM Inductive == Spec => []IInv
  BY InitIInv, NextIInv, PTL DEF Spec

\* current_connection_count, which is raised before the result of accept is
\* known and lowered in free_client, is the number of client_units plus the
\* failed accepts, and never passes CONNECTIONS_LIMIT: no connection is counted
\* twice or released twice, however its events, its requests and its end
\* interleave with those of others.
THEOREM CounterIsExact == Spec => []CountAgrees
  <1>1. IInv => CountAgrees
    BY DEF IInv
  <1> QED
    BY <1>1, Inductive, PTL

\* What handle_read and handle_write do with a buffer that is shared by two
\* branches of one turn loses, repeats and reorders nothing as long as each
\* write finds the room it needs, for every size of buffers and sockets.
THEOREM EchoIsIntact == Spec => []EchoIntact
  <1>1. IInv => EchoIntact
    BY DEF IInv
  <1> QED
    BY <1>1, Inductive, PTL
=============================================================================
