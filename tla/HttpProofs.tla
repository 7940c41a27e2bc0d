----------------------------- MODULE HttpProofs -----------------------------
(***************************************************************************)
(* What is proved of the two HTTP servers, for every value of their        *)
(* constants.                                                              *)
(*                                                                         *)
(* The server with CGI keeps its types, leaks no descriptor, and reports   *)
(* success only for the four answers that Answered lists: a program's      *)
(* output is never cut short in them, and an empty answer is one of them   *)
(* when fork has failed.  Its invariant (IInv in HttpServer) is an account *)
(* of the pieces of each answer: what the client got, what the server has  *)
(* read and not yet written, what is in the pipe and what the child has    *)
(* written agree at every call, wherever a signal cuts it short; and a     *)
(* connection is shared by nobody but a second server that does nothing    *)
(* else than close it as an error.  Most steps change one server, and      *)
(* leave the children as they are or end them: OneServer and StepWithin    *)
(* say once what such steps preserve.                                      *)
(*                                                                         *)
(* The log of the file server without CGI is honest.  Its invariant (IInv  *)
(* in FileServer) follows one request through the calls: the pieces of it  *)
(* that exist, what was promised of its answer and what has been written,  *)
(* and the descriptors that the answers before it have cost.               *)
(***************************************************************************)
EXTENDS HttpServer, TLAPS

-----------------------------------------------------------------------------
(* HttpServer: facts about a step *)

LEMMA SizesAreNat ==
    /\ MaxConns \in Nat /\ MaxForks \in Nat /\ MaxPieces \in Nat /\ FileLen \in Nat
    /\ Outputs \subseteq Nat /\ PipeCap \in Nat \ {0} /\ SockCap \in Nat \ {0}
  BY HttpAssumption

LEMMA Counting ==
    /\ 0 \in 0 .. MaxPieces /\ 0 \in 0 .. FileLen /\ 0 \in 0 .. SockCap /\ 0 \in 0 .. MaxForks
    /\ \A n \in 0 .. MaxPieces : n < MaxPieces => n + 1 \in 0 .. MaxPieces
    /\ \A n \in 0 .. SockCap : n < SockCap => n + 1 \in 0 .. SockCap
    /\ \A n \in 0 .. PipeCap : n < PipeCap => n + 1 \in 0 .. PipeCap
    /\ \A n \in 0 .. FileLen : n # 0 => n - 1 \in 0 .. FileLen
    /\ \A n \in 0 .. PipeCap : n # 0 => n - 1 \in 0 .. PipeCap
    /\ \A n \in 0 .. SockCap : n > 0 => n - 1 \in 0 .. SockCap
  BY SizesAreNat

\* The numbers of pieces are closed downwards.
LEMMA PiecesFacts ==
    /\ Pieces \subseteq Nat /\ {0, 1} \subseteq Pieces /\ Outputs \subseteq Pieces
    /\ \A n \in 0 .. FileLen : n \in Pieces
    /\ \A n \in Pieces, m \in Nat : m <= n => m \in Pieces
  <1> DEFINE Sizes == Outputs \cup {FileLen, 1}
  <1>1. Sizes \subseteq Nat
    BY HttpAssumption
  <1>2. \A n : n \in Pieces <=> \E s \in Sizes : n \in 0 .. s
    BY DEF Pieces
  <1>3. \A s \in Sizes : s \in 0 .. s /\ 0 \in 0 .. s
    BY <1>1
  <1>4. {FileLen, 1} \cup Outputs \subseteq Sizes
    OBVIOUS
  <1>5. ASSUME NEW n \in Pieces, NEW m \in Nat, m <= n
        PROVE  m \in Pieces
    <2>1. PICK s \in Sizes : n \in 0 .. s
      BY <1>2
    <2>2. m \in 0 .. s
      BY <1>1, <1>5, <2>1
    <2> QED
      BY <1>2, <2>2
  <1> QED
    BY <1>1, <1>2, <1>3, <1>4, <1>5

LEMMA PiecesAreInts == \A n \in Pieces : n \in Nat /\ n \in Int
  BY PiecesFacts

\* What may still be sent to c is what it was before.
SameAnswer(c) ==
    /\ client'[c].request = client[c].request /\ client'[c].body = client[c].body
    /\ client'[c].changed = client[c].changed /\ client'[c].script = client[c].script

\* A child that will never write again never does.
Lasting ==
    \A k \in Children : Silent(k) => Silent(k)' /\ child'[k].written = child[k].written

LEMMA AnsweredKept ==
    ASSUME TypeOK, NEW c \in Conns, SameAnswer(c), Lasting, Answered(c)
    PROVE  Answered(c)'
  <1>1. client[c].script \in 0 .. MaxForks
    BY DEF TypeOK, ClientRecords
  <1>2. client[c].script # 0 => client[c].script \in Children
    BY <1>1, HttpAssumption DEF Children
  <1>3. client'[c].script = client[c].script
    BY DEF SameAnswer
  <1>4. ASSUME NEW k \in Children, Silent(k)
        PROVE  /\ child'[k].todo = 0 /\ child'[k].state \notin {"unused", "fresh"}
               /\ child'[k].written = child[k].written
    <2>1. Silent(k)' /\ child'[k].written = child[k].written
      BY <1>4 DEF Lasting
    <2> QED
      BY <2>1 DEF Silent
  <1> QED
    BY <1>2, <1>3, <1>4 DEF Answered, SameAnswer, Silent

\* The pipe between child k and the server that reads it holds what it held.
SamePipe(k) ==
    /\ child'[k].parent = child[k].parent /\ child'[k].state # "unused"
    /\ child'[k].written - child'[k].pipe = child[k].written - child[k].pipe

LEMMA ServingKept ==
    ASSUME TypeOK, NEW q \in Servers, Serving(q), server'[q] = server[q],
           server[q].pc \in Active =>
             /\ SameAnswer(server[q].conn)
             /\ \/ client'[server[q].conn].result = client[server[q].conn].result
                \/ /\ server[q].pc \notin Early
                   /\ server[q].pc # "close" => client'[server[q].conn].result # "ok",
           Lasting, TypeOK',
           \A k \in Children : child[k].parent = q /\ child[k].state # "unused" => SamePipe(k)
    PROVE  Serving(q)'
  <1> SUFFICES ASSUME server[q].pc \in Active
               PROVE  Serving(q)'
    BY DEF Serving
  <1>1. PICK c \in Conns : c = server[q].conn
    BY DEF Serving
  <1>2. SameAnswer(c)
    BY <1>1
  <1>3. Request(q)' = Request(q)
    BY <1>1, <1>2 DEF SameAnswer, Request
  <1>4. \/ client'[c].result = client[c].result
        \/ /\ server[q].pc \notin Early
           /\ server[q].pc # "close" => client'[c].result # "ok"
    BY <1>1
  <1>5. Untouched(c) /\ server[q].pc \in Early => Untouched(c)'
    BY <1>2, <1>4 DEF SameAnswer, Untouched
  <1>6. FromFile(q) => FromFile(q)'
    BY <1>1, <1>2 DEF SameAnswer, FromFile, InHand
  <1>7. FromNothing(q) => FromNothing(q)'
    BY <1>1, <1>2 DEF SameAnswer, FromNothing
  <1>8. ASSUME server[q].source \in Children, FromChild(q)
        PROVE  FromChild(q)'
    <2>1. PICK k \in Children : k = server[q].source
      BY <1>8
    <2>2. child[k].parent = q /\ child[k].state # "unused"
      BY <1>8, <2>1 DEF FromChild
    <2>3. SamePipe(k)
      BY <2>2
    <2>4. /\ child[k].written \in Int /\ child[k].pipe \in Int
          /\ child'[k].written \in Int /\ child'[k].pipe \in Int /\ client[c].body \in Int
      <3>1. child[k] \in ChildRecords /\ child'[k] \in ChildRecords /\ client[c] \in ClientRecords
        BY DEF TypeOK
      <3>2. child[k].written \in Pieces /\ child'[k].written \in Pieces /\ client[c].body \in Pieces
        BY <3>1 DEF ChildRecords, ClientRecords
      <3>3. child[k].pipe \in Int /\ child'[k].pipe \in Int
        BY <3>1 DEF ChildRecords
      <3> QED
        BY <3>2, <3>3, PiecesAreInts
    <2>5. client[c].body + child[k].pipe + InHand(q) = child[k].written
      BY <1>1, <1>8, <2>1 DEF FromChild
    <2>6. InHand(q)' = InHand(q) /\ InHand(q) \in Int
      BY DEF InHand
    <2>7. client[c].body + child'[k].pipe + InHand(q) = child'[k].written
      BY <2>3, <2>4, <2>5, <2>6 DEF SamePipe
    <2>8. client'[c].body + child'[k].pipe + InHand(q)' = child'[k].written
      BY <1>2, <2>6, <2>7 DEF SameAnswer
    <2>9. /\ client'[c].request \in {"cgi", "badexec"} /\ client'[c].script = k
          /\ child'[k].parent = q /\ child'[k].state # "unused"
      BY <1>1, <1>2, <1>8, <2>1, <2>2, <2>3 DEF FromChild, SamePipe, SameAnswer
    <2> QED
      BY <1>1, <2>1, <2>8, <2>9 DEF FromChild
  <1>9. Answered(c) => Answered(c)'
    BY <1>2, AnsweredKept
  <1> QED
    BY <1>1, <1>3, <1>4, <1>5, <1>6, <1>7, <1>8, <1>9 DEF Serving

\* A step leaves server q where it is in its request, or takes it on within it.
Stays(q) ==
    /\ server'[q].conn = server[q].conn
    /\ server'[q].pc \in Early => server[q].pc \in Early
    /\ server'[q].pc \in Active =>
         /\ server[q].pc \in Active
         /\ server[q].pc = "close" =>
              server'[q].pc = "close" /\ server'[q].result = server[q].result
    /\ server[q].pc = "off" => server'[q].pc = "off" /\ server'[q].result = server[q].result

\* A step adds nothing to what child k writes; it may end it.
Calm(k) ==
    /\ child'[k].parent = child[k].parent /\ child'[k].written = child[k].written
    /\ child'[k].todo \in {0, child[k].todo}
    /\ \/ child'[k].state = child[k].state
       \/ child'[k].state \in {"zombie", "reaped"} /\ child'[k].todo = 0
    /\ \/ child'[k].holds = child[k].holds
       \/ child'[k].todo = 0 /\ child'[k].state # "fresh"
    /\ child'[k].pipe <= child[k].pipe

FullPipes(q) == \A k \in Children : child[k].parent = q => child'[k].pipe = child[k].pipe

LEMMA CalmLasts == ASSUME \A k \in Children : Calm(k) PROVE Lasting
  BY DEF Calm, Lasting, Silent

LEMMA ChildrenAreServers == Children \subseteq Servers /\ 0 \in Servers /\ 0 \notin Children
  BY HttpAssumption DEF Children, Servers

LEMMA FamilyKept ==
    ASSUME TypeOK, TypeOK', NEW k \in Children, Family(k), Calm(k), Stays(k),
           child'[k].state = "fresh" =>
             client'[server[k].conn].request = client[server[k].conn].request
    PROVE  Family(k)'
  <1>1. child[k] \in ChildRecords /\ child'[k] \in ChildRecords
    BY DEF TypeOK
  <1>2. /\ child[k].todo \in Pieces /\ child[k].written \in Pieces
        /\ child'[k].todo \in Pieces /\ child'[k].written \in Pieces
        /\ child[k].pipe \in 0 .. PipeCap /\ child'[k].pipe \in 0 .. PipeCap
    BY <1>1 DEF ChildRecords
  <1>3. /\ child[k].todo \in Nat /\ child[k].written \in Nat
        /\ child'[k].todo \in Nat /\ child'[k].written \in Nat
    BY <1>2, PiecesAreInts
  <1>4. child'[k].written + child'[k].todo \in Pieces
    <2>1. CASE child'[k].todo = child[k].todo
      BY <2>1 DEF Calm, Family
    <2>2. CASE child'[k].todo = 0
      <3>1. child'[k].written + child'[k].todo = child'[k].written
        BY <1>3, <2>2
      <3> QED
        BY <1>2, <3>1
    <2> QED
      BY <2>1, <2>2 DEF Calm
  <1>5. child'[k].state \in {"unused", "fresh"} =>
          child'[k].todo = 0 /\ child'[k].written = 0 /\ child'[k].pipe = 0
    <2> SUFFICES ASSUME child'[k].state \in {"unused", "fresh"}
                 PROVE  child'[k].todo = 0 /\ child'[k].written = 0 /\ child'[k].pipe = 0
      OBVIOUS
    <2>1. child'[k].state = child[k].state
      BY DEF Calm
    <2>2. child[k].todo = 0 /\ child[k].written = 0 /\ child[k].pipe = 0
      BY <2>1 DEF Family
    <2> QED
      BY <1>2, <2>2 DEF Calm
  <1>6. child'[k].state = "fresh" =>
          /\ server'[k].conn \in Conns /\ server'[k].result = "error"
          /\ Request(k)' \in {"cgi", "badexec"}
    <2> SUFFICES ASSUME child'[k].state = "fresh"
                 PROVE  /\ server'[k].conn \in Conns /\ server'[k].result = "error"
                        /\ Request(k)' \in {"cgi", "badexec"}
      OBVIOUS
    <2>1. child[k].state = "fresh"
      BY DEF Calm
    <2> QED
      BY <2>1 DEF Family, Stays, Request
  <1>7. child'[k].state \in {"unused", "fresh", "running"} => server'[k].pc = "off"
    BY DEF Calm, Family, Stays
  <1>8. child'[k].todo > 0 => child'[k].state \in {"running", "server"}
    BY <1>3 DEF Calm, Family
  <1>9. child'[k].state = "fresh" \/ child'[k].todo > 0 => k \in child'[k].holds
    BY <1>3 DEF Calm, Family
  <1> QED
    BY <1>4, <1>5, <1>6, <1>7, <1>8, <1>9 DEF Family

LEMMA AloneKept ==
    ASSUME Alone, \A q \in Servers : Stays(q)
    PROVE  Alone'
  <1> SUFFICES ASSUME NEW p \in Servers, NEW q \in Servers,
                      p # q, server'[p].conn = server'[q].conn
               PROVE  /\ server'[p].pc \notin Early
                      /\ server'[p].pc \in Active /\ server'[q].pc \in Active =>
                           \E e \in {p, q} :
                              server'[e].pc = "close" /\ server'[e].result = "error"
    BY DEF Alone
  <1>1. Stays(p) /\ Stays(q)
    OBVIOUS
  <1>2. server[p].conn = server[q].conn /\ server'[p].conn = server[p].conn
    BY <1>1 DEF Stays
  <1>3. /\ server[p].pc \notin Early
        /\ server[p].pc \in Active /\ server[q].pc \in Active =>
             \E e \in {p, q} : server[e].pc = "close" /\ server[e].result = "error"
    BY <1>2 DEF Alone
  <1> QED
    BY <1>1, <1>2, <1>3 DEF Stays

\* A step of servers, within their requests, and the end of children.
LEMMA StepWithin ==
    ASSUME IInv, TypeOK', UNCHANGED client,
           \A q \in Servers : Stays(q),
           \A q \in Servers : \/ server'[q] = server[q] /\ FullPipes(q)
                              \/ Serving(q)' /\ OwnFds(q)',
           \A k \in Children : Calm(k)
    PROVE  IInv'
  <1>1. TypeOK /\ NewConns /\ Alone /\ HonestSuccess
    BY DEF IInv
  <1>2. Lasting
    BY CalmLasts
  <1>3. \A c \in Conns : SameAnswer(c)
    BY DEF SameAnswer
  <1>4. NewConns'
    BY <1>1 DEF NewConns, Untouched, Stays
  <1>5. Alone'
    BY <1>1, AloneKept
  <1>6. HonestSuccess'
    <2> SUFFICES ASSUME NEW c \in Conns, client'[c].result = "ok"
                 PROVE  Answered(c)'
      BY DEF HonestSuccess
    <2>1. Answered(c)
      BY <1>1 DEF HonestSuccess
    <2> QED
      BY <1>1, <1>2, <1>3, <2>1, AnsweredKept
  <1>7. ASSUME NEW q \in Servers
        PROVE  Serving(q)' /\ OwnFds(q)'
    <2>1. Serving(q) /\ OwnFds(q)
      BY DEF IInv
    <2>2. CASE server'[q] = server[q] /\ FullPipes(q)
      <3>1. OwnFds(q)'
        BY <2>1, <2>2 DEF OwnFds
      <3>2. server[q].pc \in Active =>
              /\ SameAnswer(server[q].conn)
              /\ client'[server[q].conn].result = client[server[q].conn].result
        BY <1>3, <2>1 DEF Serving
      <3>3. ASSUME NEW k \in Children, child[k].parent = q, child[k].state # "unused"
            PROVE  SamePipe(k)
        BY <2>2, <3>3 DEF FullPipes, Calm, SamePipe
      <3> QED
        BY <1>1, <1>2, <2>1, <2>2, <3>1, <3>2, <3>3, ServingKept
    <2> QED
      BY <2>2
  <1>8. ASSUME NEW k \in Children
        PROVE  Family(k)'
    <2>1. Family(k) /\ Calm(k)
      BY DEF IInv
    <2>2. Stays(k)
      BY ChildrenAreServers
    <2> QED
      BY <1>1, <2>1, <2>2, FamilyKept
  <1> QED
    BY <1>4, <1>5, <1>6, <1>7, <1>8 DEF IInv

\* The same for a step of one server, and of the pipe it reads.
LEMMA OneServer ==
    ASSUME IInv, TypeOK', UNCHANGED client, NEW p \in Servers,
           \A q \in Servers \ {p} : server'[q] = server[q],
           Stays(p), Serving(p)', OwnFds(p)',
           \A k \in Children : Calm(k),
           \A k \in Children : child[k].parent # p => child'[k].pipe = child[k].pipe
    PROVE  IInv'
  <1>1. ASSUME NEW q \in Servers, q # p
        PROVE  Stays(q) /\ server'[q] = server[q] /\ FullPipes(q)
    BY <1>1 DEF Stays, FullPipes
  <1>2. \A q \in Servers : Stays(q)
    BY <1>1
  <1>3. \A q \in Servers : \/ server'[q] = server[q] /\ FullPipes(q)
                           \/ Serving(q)' /\ OwnFds(q)'
    <2> TAKE q \in Servers
    <2>1. CASE q = p
      BY <2>1
    <2>2. CASE q # p
      BY <1>1, <2>2
    <2> QED
      BY <2>1, <2>2
  <1> QED
    BY <1>2, <1>3, StepWithin

\* Children that are left alone are calm.
LEMMA CalmChildren ==
    ASSUME UNCHANGED child, TypeOK
    PROVE  \A k \in Children : Calm(k) /\ child'[k].pipe = child[k].pipe
  <1> SUFFICES ASSUME NEW k \in Children PROVE Calm(k) /\ child'[k].pipe = child[k].pipe
    OBVIOUS
  <1>1. child[k].pipe \in Int
    BY DEF TypeOK, ChildRecords
  <1> QED
    BY <1>1 DEF Calm

\* Whether its pipe is read does not matter to a child's account.
LEMMA RopenCalm ==
    ASSUME TypeOK, NEW s,
           child' = IF s \in Children THEN [child EXCEPT ![s].ropen = FALSE] ELSE child
    PROVE  /\ child' \in [Children -> ChildRecords]
           /\ \A k \in Children : Calm(k) /\ child'[k].pipe = child[k].pipe
  <1>1. CASE s \in Children
    <2>1. child[s] \in ChildRecords
      BY <1>1 DEF TypeOK
    <2> DEFINE ch == [child[s] EXCEPT !.ropen = FALSE]
    <2>2. /\ ch \in ChildRecords /\ ch.parent = child[s].parent /\ ch.written = child[s].written
          /\ ch.todo = child[s].todo /\ ch.state = child[s].state /\ ch.holds = child[s].holds
          /\ ch.pipe = child[s].pipe
      BY <2>1 DEF ChildRecords
    <2>3. child' = [child EXCEPT ![s] = ch]
      BY <1>1 DEF TypeOK
    <2> HIDE DEF ch
    <2>4. /\ child' \in [Children -> ChildRecords] /\ child'[s] = ch
          /\ \A k \in Children \ {s} : child'[k] = child[k]
      BY <1>1, <2>2, <2>3 DEF TypeOK
    <2>5. ASSUME NEW k \in Children
          PROVE  Calm(k) /\ child'[k].pipe = child[k].pipe
      <3>1. child[k].pipe \in Int
        BY DEF TypeOK, ChildRecords
      <3> QED
        BY <2>2, <2>4, <3>1 DEF Calm
    <2> QED
      BY <2>4, <2>5
  <1>2. CASE s \notin Children
    BY <1>2, CalmChildren DEF TypeOK
  <1> QED
    BY <1>1, <1>2

\* p gives its request up, or is done with it.
LEMMA Closing ==
    ASSUME NEW p \in Servers, Serving(p), server[p].pc \in Active, UNCHANGED client,
           server'[p].conn = server[p].conn, server'[p].pc = "close",
           server[p].pc = "close" => server'[p].result = server[p].result,
           \A c \in Conns : c = server[p].conn /\ server'[p].result = "ok" => Answered(c)'
    PROVE  Stays(p) /\ Serving(p)'
  <1>1. Stays(p)
    BY DEF Stays, Active, Early, Copying
  <1>2. PICK c \in Conns : c = server[p].conn
    BY DEF Serving
  <1>3. server'[p].result = "ok" => Answered(c)'
    BY <1>2
  <1>4. Serving(p)'
    BY <1>2, <1>3 DEF Serving, Early, Copying
  <1> QED
    BY <1>1, <1>4

LEMMA InitIInv == Init => IInv
  <1> SUFFICES ASSUME Init PROVE IInv
    OBVIOUS
  <1>1. TypeOK
    <2>0. FreshServer \in ServerRecords
      BY Counting DEF FreshServer, ServerRecords
    <2>1. FreshServer \in ServerRecords /\ [FreshServer EXCEPT !.pc = "off"] \in ServerRecords
      BY <2>0 DEF ServerRecords
    <2>2. server \in [Servers -> ServerRecords]
      BY <2>1 DEF Init
    <2>3. client \in [Conns -> ClientRecords]
      BY HttpAssumption, PiecesFacts DEF Init, ClientRecords
    <2>4. child \in [Children -> ChildRecords]
      BY HttpAssumption, PiecesFacts, ChildrenAreServers DEF Init, ChildRecords
    <2> QED
      BY <2>2, <2>3, <2>4 DEF Init, TypeOK
  <1>2. NewConns
    BY DEF Init, NewConns, Untouched, FreshServer, Conns, NoConn
  <1>3. \A p \in Servers : server[p].pc \in {"check", "off"} /\ server[p].fds = {}
    BY DEF Init, FreshServer
  <1>4. Alone
    BY <1>3 DEF Alone, Early, Active, Copying
  <1>5. HonestSuccess
    BY DEF Init, HonestSuccess
  <1>6. \A p \in Servers : Serving(p) /\ OwnFds(p)
    BY <1>3 DEF Serving, OwnFds, Active, Early, Copying
  <1>7. \A k \in Children : Family(k)
    BY PiecesFacts, ChildrenAreServers DEF Init, Family
  <1> QED
    BY <1>1, <1>2, <1>4, <1>5, <1>6, <1>7 DEF IInv

-----------------------------------------------------------------------------
(* The steps of a server *)

LEMMA FailedFacts ==
    ASSUME NEW r \in ServerRecords
    PROVE  /\ Failed(r) \in ServerRecords
           /\ Failed(r).pc = "close" /\ Failed(r).result = "error"
           /\ Failed(r).conn = r.conn /\ Failed(r).fds = r.fds /\ Failed(r).source = r.source
  <1>1. Failed(r) \in ServerRecords
    BY Counting DEF ServerRecords, Failed
  <1> QED
    BY <1>1 DEF ServerRecords, Failed

LEMMA PutServer ==
    ASSUME TypeOK, NEW p \in Servers, NEW r \in ServerRecords, server' = [server EXCEPT ![p] = r]
    PROVE  /\ server' \in [Servers -> ServerRecords] /\ server'[p] = r
           /\ \A q \in Servers \ {p} : server'[q] = server[q]
  BY DEF TypeOK

LEMMA PutChild ==
    ASSUME TypeOK, NEW k \in Children, NEW r \in ChildRecords, child' = [child EXCEPT ![k] = r]
    PROVE  /\ child'[k] = r /\ child' \in [Children -> ChildRecords]
           /\ \A j \in Children \ {k} : child'[j] = child[j]
  BY DEF TypeOK

LEMMA PutClient ==
    ASSUME TypeOK, NEW c \in Conns, NEW r \in ClientRecords, client' = [client EXCEPT ![c] = r]
    PROVE  /\ client'[c] = r /\ client' \in [Conns -> ClientRecords]
           /\ \A d \in Conns \ {c} : client'[d] = client[d]
  BY DEF TypeOK

\* A step in which only p's own state changes.
LEMMA Moves ==
    ASSUME IInv, NEW p \in Servers, NEW r \in ServerRecords, server' = [server EXCEPT ![p] = r],
           UNCHANGED <<client, child, pending>>, Stays(p), Serving(p)', OwnFds(p)'
    PROVE  IInv'
  <1>1. TypeOK
    BY DEF IInv
  <1>2. TypeOK' /\ \A q \in Servers \ {p} : server'[q] = server[q]
    BY <1>1, PutServer DEF TypeOK
  <1>3. \A k \in Children : Calm(k) /\ child'[k].pipe = child[k].pipe
    BY <1>1, CalmChildren
  <1> QED
    BY <1>2, <1>3, OneServer

LEMMA Fails ==
    ASSUME IInv, NEW p \in Servers, server[p].pc \in Early,
           server' = [server EXCEPT ![p] = Failed(@)], UNCHANGED <<client, child, pending>>
    PROVE  IInv'
  <1>1. TypeOK /\ Serving(p) /\ OwnFds(p)
    BY DEF IInv
  <1>2. server[p] \in ServerRecords
    BY <1>1 DEF TypeOK
  <1> DEFINE r == Failed(server[p])
  <1>3. /\ r \in ServerRecords /\ r.pc = "close" /\ r.result = "error"
        /\ r.conn = server[p].conn /\ r.fds = server[p].fds
    BY <1>2, FailedFacts
  <1>4. server' = [server EXCEPT ![p] = r]
    BY <1>1 DEF TypeOK
  <1> HIDE DEF r
  <1>5. server'[p] = r
    BY <1>1, <1>3, <1>4, PutServer
  <1>6. Stays(p) /\ Serving(p)'
    BY <1>1, <1>3, <1>5, Closing DEF Active, Early
  <1>7. OwnFds(p)'
    BY <1>1, <1>3, <1>5 DEF OwnFds, Active, Early, Copying
  <1> QED
    BY <1>3, <1>4, <1>6, <1>7, Moves

LEMMA ReadRequest ==
    ASSUME IInv, NEW p \in Servers, read_request(p)
    PROVE  IInv'
  <1>1. TypeOK /\ Serving(p) /\ OwnFds(p)
    BY DEF IInv
  <1>2. /\ server[p].pc \in {"recv", "drained"} /\ server[p] \in ServerRecords
        /\ UNCHANGED <<client, child, pending>>
    BY <1>1 DEF read_request, At, TypeOK
  <1>3. ASSUME NEW r \in ServerRecords, server' = [server EXCEPT ![p] = r],
               r.conn = server[p].conn, r.fds = server[p].fds,
               r.pc = "recv" \/ (r.pc \in {"head", "drained"} /\ Request(p) # "none")
        PROVE  IInv'
    <2>1. server'[p] = r
      BY <1>1, <1>3, PutServer
    <2>2. Stays(p) /\ Serving(p)'
      BY <1>1, <1>2, <1>3, <2>1 DEF Stays, Serving, Active, Early, Copying, Untouched, Request
    <2>3. OwnFds(p)'
      BY <1>1, <1>2, <1>3, <2>1 DEF OwnFds, Active, Early, Copying
    <2> QED
      BY <1>2, <1>3, <2>2, <2>3, Moves
  <1>4. CASE /\ server[p].pc = "recv" /\ server[p].got < MaxPieces
             /\ server' = [server EXCEPT ![p].got = @ + 1]
    <2> DEFINE r == [server[p] EXCEPT !.got = @ + 1]
    <2>1. r \in ServerRecords /\ r.pc = "recv" /\ r.conn = server[p].conn /\ r.fds = server[p].fds
      BY <1>2, <1>4, Counting DEF ServerRecords
    <2>2. server' = [server EXCEPT ![p] = r]
      BY <1>1, <1>4 DEF TypeOK
    <2> HIDE DEF r
    <2> QED
      BY <1>3, <2>1, <2>2
  <1>5. ASSUME NEW next \in {"head", "drained"}, Request(p) # "none",
               server' = [server EXCEPT ![p].pc = next, ![p].got = 0]
        PROVE  IInv'
    <2> DEFINE r == [server[p] EXCEPT !.pc = next, !.got = 0]
    <2>1. r \in ServerRecords /\ r.pc = next /\ r.conn = server[p].conn /\ r.fds = server[p].fds
      BY <1>2, Counting DEF ServerRecords
    <2>2. server' = [server EXCEPT ![p] = r]
      BY <1>1, <1>5 DEF TypeOK, ServerRecords
    <2> HIDE DEF r
    <2> QED
      BY <1>3, <1>5, <2>1, <2>2
  <1>6. CASE server[p].pc = "drained" /\ server' = [server EXCEPT ![p].pc = "head"]
    <2> DEFINE r == [server[p] EXCEPT !.pc = "head"]
    <2>1. r \in ServerRecords /\ r.pc = "head" /\ r.conn = server[p].conn /\ r.fds = server[p].fds
      BY <1>2 DEF ServerRecords
    <2>2. server' = [server EXCEPT ![p] = r]
      BY <1>1, <1>6 DEF TypeOK
    <2>3. Request(p) # "none"
      BY <1>1, <1>6 DEF Serving, Active, Early
    <2> HIDE DEF r
    <2> QED
      BY <1>3, <2>1, <2>2, <2>3
  <1>7. CASE server' = [server EXCEPT ![p] = Failed(@)]
    BY <1>2, <1>7, Fails DEF Early
  <1> QED
    BY <1>4, <1>5, <1>6, <1>7 DEF read_request, At

LEMMA ReadRequestHead ==
    ASSUME IInv, NEW p \in Servers, read_request_head(p)
    PROVE  IInv'
  <1>1. TypeOK /\ Serving(p) /\ OwnFds(p)
    BY DEF IInv
  <1>2. server[p].pc = "head" /\ server[p] \in ServerRecords
    BY <1>1 DEF read_request_head, At, TypeOK
  <1>3. CASE server' = [server EXCEPT ![p] = Failed(@)]
    BY <1>2, <1>3, Fails DEF read_request_head, Early
  <1>4. CASE Request(p) # "bad" /\ server' = [server EXCEPT ![p].pc = "stat"]
    <2> DEFINE r == [server[p] EXCEPT !.pc = "stat"]
    <2>1. /\ r \in ServerRecords /\ r.pc = "stat" /\ r.conn = server[p].conn
          /\ r.fds = server[p].fds
      BY <1>2 DEF ServerRecords
    <2>2. server' = [server EXCEPT ![p] = r]
      BY <1>1, <1>4 DEF TypeOK
    <2> HIDE DEF r
    <2>3. server'[p] = r /\ UNCHANGED client
      BY <1>1, <2>1, <2>2, PutServer DEF read_request_head
    <2>4. Stays(p) /\ Serving(p)'
      BY <1>1, <1>2, <1>4, <2>1, <2>3
         DEF Stays, Serving, Active, Early, Copying, Untouched, Request
    <2>5. OwnFds(p)'
      BY <1>1, <1>2, <2>1, <2>3 DEF OwnFds, Active, Early, Copying
    <2> QED
      BY <2>1, <2>2, <2>4, <2>5, Moves DEF read_request_head
  <1> QED
    BY <1>3, <1>4 DEF read_request_head

LEMMA MakeResponse ==
    ASSUME IInv, NEW p \in Servers, make_response(p)
    PROVE  IInv'
  <1>1. TypeOK /\ Serving(p) /\ OwnFds(p)
    BY DEF IInv
  <1>2. server[p].pc = "stat" /\ server[p] \in ServerRecords
    BY <1>1 DEF make_response, At, TypeOK
  <1> DEFINE at == CASE Request(p) = "static" -> "open"
                     [] Request(p) \in {"cgi", "badexec"} -> "fork"
                     [] OTHER -> "close"
             r  == [server[p] EXCEPT !.result = "ok", !.pc = at]
  <1>3. \/ at = "open" /\ Request(p) = "static"
        \/ at = "fork" /\ Request(p) \in {"cgi", "badexec"}
        \/ at = "close" /\ Request(p) \notin {"static", "cgi", "badexec"}
    OBVIOUS
  <1>4. server' = [server EXCEPT ![p].result = "ok", ![p].pc = at]
    BY DEF make_response
  <1> HIDE DEF at
  <1>5. /\ r \in ServerRecords /\ r.pc = at /\ r.conn = server[p].conn
        /\ r.fds = server[p].fds
    BY <1>2, <1>3 DEF ServerRecords
  <1>6. server' = [server EXCEPT ![p] = r]
    BY <1>1, <1>4 DEF TypeOK, ServerRecords
  <1> HIDE DEF r
  <1>7. server'[p] = r /\ UNCHANGED client
    BY <1>1, <1>5, <1>6, PutServer DEF make_response
  <1>8. OwnFds(p)'
    BY <1>1, <1>2, <1>3, <1>5, <1>7 DEF OwnFds, Active, Early, Copying
  <1>9. Stays(p) /\ Serving(p)'
    <2>1. CASE at = "close"
      <3>1. server[p].conn \in Conns /\ client[server[p].conn] \in ClientRecords
        BY <1>1, <1>2 DEF Serving, Active, Early, TypeOK
      <3>2. Request(p) = "refused" /\ client[server[p].conn].body = 0
        BY <1>1, <1>2, <1>3, <2>1, <3>1
           DEF Serving, Active, Early, Untouched, Request, ClientRecords, AllKinds
      <3>3. \A c \in Conns : c = server[p].conn => Answered(c)'
        BY <1>7, <3>2 DEF Answered, Request
      <3> QED
        BY <1>1, <1>2, <1>5, <1>7, <2>1, <3>3, Closing DEF Active, Early
    <2>2. CASE at # "close"
      BY <1>1, <1>2, <1>3, <1>5, <1>7, <2>2
         DEF Stays, Serving, Active, Early, Copying, Untouched, Request
    <2> QED
      BY <2>1, <2>2
  <1> QED
    BY <1>5, <1>6, <1>8, <1>9, Moves DEF make_response

LEMMA ExecuteFileAssign ==
    ASSUME IInv, NEW p \in Servers, execute_file_assign(p)
    PROVE  IInv'
  <1>1. TypeOK /\ Serving(p) /\ OwnFds(p)
    BY DEF IInv
  <1>2. server[p].pc = "assign" /\ server[p] \in ServerRecords
    BY <1>1 DEF execute_file_assign, At, TypeOK
  <1>3. server[p].source \in Children
    BY <1>1, <1>2 DEF Serving, FromFile, FromNothing, Active, Early, Copying, ServerRecords
  <1> DEFINE r == [server[p] EXCEPT !.pc = "read", !.current = server[p].source]
  <1>4. /\ r \in ServerRecords /\ r.pc = "read" /\ r.conn = server[p].conn
        /\ r.fds = server[p].fds /\ r.source = server[p].source
    BY <1>2, <1>3 DEF ServerRecords
  <1>5. server' = [server EXCEPT ![p] = r]
    BY <1>1 DEF execute_file_assign, TypeOK, ServerRecords
  <1> HIDE DEF r
  <1>6. server'[p] = r /\ UNCHANGED <<client, child>>
    BY <1>1, <1>4, <1>5, PutServer DEF execute_file_assign
  <1>7. FromChild(p)'
    <2>1. FromChild(p)
      BY <1>1, <1>2, <1>3 DEF Serving, Active, Copying
    <2> QED
      BY <1>2, <1>4, <1>6, <2>1 DEF FromChild, InHand
  <1>8. Stays(p) /\ Serving(p)'
    <2>1. r.source # File /\ r.source # NoSource
      BY <1>3, <1>4 DEF Children, File, NoSource
    <2> QED
      BY <1>1, <1>2, <1>4, <1>6, <1>7, <2>1 DEF Stays, Serving, Active, Early, Copying, Request
  <1>9. OwnFds(p)'
    BY <1>1, <1>2, <1>4, <1>6 DEF OwnFds, Active, Early, Copying
  <1> QED
    BY <1>4, <1>5, <1>8, <1>9, Moves DEF execute_file_assign

LEMMA MustStopStep ==
    ASSUME IInv, NEW p \in Servers, must_stop(p)
    PROVE  IInv'
  <1>1. TypeOK /\ Serving(p) /\ OwnFds(p)
    BY DEF IInv
  <1>2. server[p].pc = "check" /\ server[p] \in ServerRecords
    BY <1>1 DEF must_stop, At, TypeOK
  <1>3. CASE server' = [server EXCEPT ![p].pc = "accept"] /\ UNCHANGED <<child, pending>>
    <2> DEFINE r == [server[p] EXCEPT !.pc = "accept"]
    <2>1. /\ r \in ServerRecords /\ r.pc = "accept" /\ r.conn = server[p].conn
          /\ r.fds = server[p].fds
      BY <1>2 DEF ServerRecords
    <2>2. server' = [server EXCEPT ![p] = r]
      BY <1>1, <1>3 DEF TypeOK
    <2> HIDE DEF r
    <2>3. server'[p] = r /\ UNCHANGED client
      BY <1>1, <2>1, <2>2, PutServer DEF must_stop
    <2>4. Stays(p) /\ Serving(p)' /\ OwnFds(p)'
      BY <1>1, <1>2, <2>1, <2>3 DEF Stays, Serving, OwnFds, Active, Early, Copying
    <2> QED
      BY <1>3, <2>1, <2>2, <2>3, <2>4, Moves
  <1>4. CASE /\ server' = [server EXCEPT ![p].pc = "end", ![p].fds = {}]
             /\ p # 0 => child[p].todo = 0
             /\ IF p = 0
                THEN UNCHANGED <<child, pending>>
                ELSE /\ child' = [child EXCEPT ![p].state = "zombie", ![p].holds = {},
                                      ![p].missed = server[child[p].parent].current # p]
                     /\ pending' = pending \cup {<<child[p].parent, "CHLD">>}
    <2> DEFINE r == [server[p] EXCEPT !.pc = "end", !.fds = {}]
    <2>1. /\ r \in ServerRecords /\ r.pc = "end" /\ r.conn = server[p].conn
          /\ r.fds = {}
      BY <1>2 DEF ServerRecords
    <2>2. server' = [server EXCEPT ![p] = r]
      BY <1>1, <1>4 DEF TypeOK, ServerRecords
    <2> HIDE DEF r
    <2>3. /\ server'[p] = r /\ UNCHANGED client /\ server' \in [Servers -> ServerRecords]
          /\ \A q \in Servers \ {p} : server'[q] = server[q]
      BY <1>1, <2>1, <2>2, PutServer DEF must_stop
    <2>4. Stays(p) /\ Serving(p)' /\ OwnFds(p)'
      BY <1>1, <1>2, <2>1, <2>3 DEF Stays, Serving, OwnFds, Active, Early, Copying
    <2>5. CASE p = 0
      <3>1. TypeOK' /\ UNCHANGED child
        BY <1>1, <1>4, <2>3, <2>5 DEF TypeOK
      <3>2. \A k \in Children : Calm(k) /\ child'[k].pipe = child[k].pipe
        BY <1>1, <3>1, CalmChildren
      <3> QED
        BY <2>3, <2>4, <3>1, <3>2, OneServer
    <2>6. CASE p # 0
      <3>1. p \in Children
        BY <2>6 DEF Children, Servers
      <3>2. child[p] \in ChildRecords
        BY <1>1, <3>1 DEF TypeOK
      <3> DEFINE unseen == server[child[p].parent].current # p
                 ch     == [child[p] EXCEPT !.state = "zombie", !.holds = {}, !.missed = unseen]
      <3>3. child' = [child EXCEPT ![p].state = "zombie", ![p].holds = {}, ![p].missed = unseen]
        BY <1>4, <2>6
      <3>4. unseen \in BOOLEAN
        OBVIOUS
      <3> HIDE DEF unseen
      <3>5. child' = [child EXCEPT ![p] = ch]
        BY <1>1, <3>1, <3>3 DEF TypeOK, ChildRecords
      <3>6. /\ ch \in ChildRecords /\ ch.state = "zombie" /\ ch.holds = {}
            /\ ch.parent = child[p].parent /\ ch.written = child[p].written
            /\ ch.todo = child[p].todo /\ ch.pipe = child[p].pipe
        BY <3>2, <3>4 DEF ChildRecords
      <3> HIDE DEF ch
      <3>7. /\ child' \in [Children -> ChildRecords] /\ child'[p] = ch
            /\ \A k \in Children \ {p} : child'[k] = child[k]
        BY <1>1, <3>1, <3>5, <3>6 DEF TypeOK
      <3>8. TypeOK'
        <4>1. child[p].parent \in Servers
          BY <3>2 DEF ChildRecords
        <4> QED
          BY <1>1, <1>4, <2>3, <2>6, <3>7, <4>1 DEF TypeOK
      <3>9. child[p].todo = 0
        BY <1>4, <2>6
      <3>10. ASSUME NEW k \in Children
             PROVE  Calm(k) /\ child'[k].pipe = child[k].pipe
        <4>1. child[k].pipe \in Int
          BY <1>1 DEF TypeOK, ChildRecords
        <4> QED
          BY <3>6, <3>7, <3>9, <4>1 DEF Calm
      <3> QED
        BY <2>3, <2>4, <3>8, <3>10, OneServer
    <2> QED
      BY <2>5, <2>6
  <1> QED
    BY <1>3, <1>4 DEF must_stop

\* What execute_file does when there is no child.
LEMMA ExecuteFileFails ==
    ASSUME IInv, NEW p \in Servers, server[p].pc = "fork", UNCHANGED <<client, child, pending>>,
           server' = [server EXCEPT ![p].pc = "read", ![p].source = NoSource,
                                    ![p].current = NoPid, ![p].fds = @ \cup {"pipe_r"}]
    PROVE  IInv'
  <1>1. TypeOK /\ Serving(p) /\ OwnFds(p)
    BY DEF IInv
  <1>2. server[p] \in ServerRecords
    BY <1>1 DEF TypeOK
  <1> DEFINE r == [server[p] EXCEPT !.pc = "read", !.source = NoSource, !.current = NoPid,
                                    !.fds = @ \cup {"pipe_r"}]
  <1>3. /\ r \in ServerRecords /\ r.pc = "read" /\ r.conn = server[p].conn
        /\ r.source = NoSource /\ r.fds = server[p].fds \cup {"pipe_r"}
    BY <1>2 DEF ServerRecords
  <1>4. server' = [server EXCEPT ![p] = r]
    BY <1>1 DEF TypeOK, ServerRecords
  <1> HIDE DEF r
  <1>5. server'[p] = r
    BY <1>1, <1>3, <1>4, PutServer
  <1>6. FromNothing(p)'
    BY <1>1, <1>3, <1>5 DEF Serving, FromNothing, Untouched, Request, Active, Early
  <1>7. NoSource # File /\ NoSource \notin Children
    BY DEF NoSource, File, Children
  <1>8. Stays(p) /\ Serving(p)'
    BY <1>1, <1>3, <1>5, <1>6, <1>7 DEF Stays, Serving, Active, Early, Copying, Request
  <1>9. OwnFds(p)'
    BY <1>1, <1>3, <1>5 DEF OwnFds, Active, Early, Copying
  <1> QED
    BY <1>3, <1>4, <1>8, <1>9, Moves

\* copy_file has returned, and did so with success at the end of its source only.
LEMMA FinishStep ==
    ASSUME IInv, NEW p \in Servers, server[p].pc \in {"read", "write"},
           NEW res \in {"ok", "error"}, Finish(p, res), UNCHANGED <<client, pending>>,
           res = "ok" => Answered(server[p].conn)
    PROVE  IInv'
  <1>1. TypeOK /\ Serving(p) /\ OwnFds(p)
    BY DEF IInv
  <1>2. server[p] \in ServerRecords
    BY <1>1 DEF TypeOK
  <1> DEFINE r == [server[p] EXCEPT !.pc = "close", !.result = res,
                                    !.fds = @ \ {"file", "pipe_r"}]
  <1>3. /\ r \in ServerRecords /\ r.pc = "close" /\ r.result = res
        /\ r.conn = server[p].conn /\ r.fds = server[p].fds \ {"file", "pipe_r"}
    BY <1>2 DEF ServerRecords
  <1>4. server' = [server EXCEPT ![p] = r]
    BY <1>1 DEF Finish, TypeOK, ServerRecords
  <1> HIDE DEF r
  <1>5. /\ server'[p] = r /\ server' \in [Servers -> ServerRecords]
        /\ \A q \in Servers \ {p} : server'[q] = server[q]
    BY <1>1, <1>3, <1>4, PutServer
  <1>6. /\ child' \in [Children -> ChildRecords]
        /\ \A k \in Children : Calm(k) /\ child'[k].pipe = child[k].pipe
    BY <1>1, RopenCalm DEF Finish
  <1>7. TypeOK'
    BY <1>1, <1>5, <1>6 DEF TypeOK
  <1>8. Lasting
    BY <1>6, CalmLasts
  <1>9. \A c \in Conns : c = server[p].conn /\ server'[p].result = "ok" => Answered(c)'
    <2> TAKE c \in Conns
    <2> SUFFICES ASSUME c = server[p].conn, server'[p].result = "ok"
                 PROVE  Answered(c)'
      OBVIOUS
    <2>1. Answered(c) /\ SameAnswer(c)
      BY <1>3, <1>5 DEF SameAnswer
    <2> QED
      BY <1>1, <1>8, <2>1, AnsweredKept
  <1>10. Stays(p) /\ Serving(p)'
    BY <1>1, <1>3, <1>5, <1>9, Closing DEF Active, Copying
  <1>11. OwnFds(p)'
    BY <1>1, <1>3, <1>5 DEF OwnFds, Active, Early, Copying
  <1> QED
    BY <1>5, <1>6, <1>7, <1>10, <1>11, OneServer

LEMMA CopyFileRead ==
    ASSUME IInv, NEW p \in Servers, copy_file_read(p)
    PROVE  IInv'
  <1>1. TypeOK /\ Serving(p) /\ OwnFds(p)
    BY DEF IInv
  <1>2. server[p].pc = "read" /\ server[p] \in ServerRecords /\ UNCHANGED <<client, pending>>
    BY <1>1 DEF copy_file_read, At, TypeOK
  <1>3. PICK c \in Conns : c = server[p].conn
    BY <1>1, <1>2 DEF Serving, Active, Copying
  <1>4. /\ server[p].source = File => FromFile(p)
        /\ server[p].source \in Children => FromChild(p)
        /\ server[p].source = NoSource => FromNothing(p)
    BY <1>1, <1>2 DEF Serving, Active, Copying
  <1>5. NoSource # File /\ NoSource \notin Children /\ File \notin Children
    BY DEF NoSource, File, Children
  <1>6. client[c] \in ClientRecords /\ client[c].body \in Nat
    BY <1>1, PiecesAreInts DEF TypeOK, ClientRecords
  <1>7. server[p].left \in 0 .. FileLen
    BY <1>2 DEF ServerRecords
  <1>8. InHand(p) = 0
    BY <1>2 DEF InHand
  <1>9. CASE Empty(p) /\ ~HasWriter(p) /\ Finish(p, "ok")
    <2>1. CASE server[p].source = File
      <3>1. FromFile(p) /\ server[p].left = 0
        BY <1>4, <1>5, <1>9, <2>1 DEF Empty
      <3>2. client[c].request = "static" /\ (~client[c].changed => client[c].body = FileLen)
        BY <1>3, <1>6, <1>8, <3>1 DEF FromFile
      <3>3. Answered(c)
        BY <3>2 DEF Answered
      <3> QED
        BY <1>2, <1>3, <1>9, <3>3, FinishStep
    <2>2. CASE server[p].source \in Children
      <3>1. PICK k \in Children : k = server[p].source
        BY <2>2
      <3>2. child[k] \in ChildRecords
        BY <1>1 DEF TypeOK
      <3>3. child[k].todo \in Nat /\ child[k].written \in Nat
        BY <3>2, PiecesAreInts DEF ChildRecords
      <3>4. child[k].pipe = 0
        BY <1>5, <1>9, <3>1 DEF Empty
      <3>5. /\ client[c].request \in {"cgi", "badexec"} /\ client[c].script = k
            /\ child[k].state # "unused"
            /\ client[c].body + child[k].pipe + InHand(p) = child[k].written
        BY <1>3, <1>4, <3>1 DEF FromChild
      <3>6. client[c].body = child[k].written
        BY <1>6, <1>8, <3>3, <3>4, <3>5
      <3>7. k \notin child[k].holds
        BY <1>9, <3>1 DEF HasWriter
      <3>8. Silent(k)
        BY <3>3, <3>5, <3>7 DEF IInv, Family, Silent
      <3>9. Answered(c)
        BY <3>5, <3>6, <3>8, ChildrenAreServers DEF Answered
      <3> QED
        BY <1>2, <1>3, <1>9, <3>9, FinishStep
    <2>3. CASE server[p].source = NoSource
      <3>1. client[c].request \in {"cgi", "badexec"} /\ client[c].script = 0 /\ client[c].body = 0
        BY <1>3, <1>4, <2>3 DEF FromNothing
      <3>2. Answered(c)
        BY <3>1 DEF Answered
      <3> QED
        BY <1>2, <1>3, <1>9, <3>2, FinishStep
    <2> QED
      BY <1>2, <2>1, <2>2, <2>3 DEF ServerRecords
  <1>10. CASE /\ ~Empty(p) /\ server[p].source = File
              /\ server' = [server EXCEPT ![p].pc = "write", ![p].left = @ - 1]
              /\ UNCHANGED child
    <2>1. server[p].left # 0 /\ FromFile(p)
      BY <1>4, <1>5, <1>10 DEF Empty
    <2> DEFINE r == [server[p] EXCEPT !.pc = "write", !.left = @ - 1]
    <2>2. server[p].left - 1 \in 0 .. FileLen
      BY <1>7, <2>1, Counting
    <2>3. /\ r \in ServerRecords /\ r.pc = "write" /\ r.conn = server[p].conn
          /\ r.left = server[p].left - 1 /\ r.source = File /\ r.fds = server[p].fds
      BY <1>2, <1>10, <2>2 DEF ServerRecords
    <2>4. server' = [server EXCEPT ![p] = r]
      BY <1>1, <1>10 DEF TypeOK, ServerRecords
    <2> HIDE DEF r
    <2>5. server'[p] = r
      BY <1>1, <2>3, <2>4, PutServer
    <2>6. FromFile(p)'
      <3>1. /\ client[c].request = "static"
            /\ client[c].body + server[p].left + InHand(p) <= FileLen
            /\ ~client[c].changed => client[c].body + server[p].left + InHand(p) = FileLen
        BY <1>3, <2>1 DEF FromFile
      <3>2. InHand(p)' = 1
        BY <2>3, <2>5 DEF InHand
      <3>3. client[c].body + r.left + 1 = client[c].body + server[p].left + InHand(p)
        BY <1>6, <1>7, <1>8, <2>3
      <3> QED
        BY <1>2, <1>3, <2>3, <2>5, <3>1, <3>2, <3>3 DEF FromFile
    <2>7. Stays(p) /\ Serving(p)'
      BY <1>1, <1>2, <1>5, <2>3, <2>5, <2>6 DEF Stays, Serving, Active, Early, Copying, Request
    <2>8. OwnFds(p)'
      BY <1>1, <1>2, <2>3, <2>5 DEF OwnFds, Active, Early, Copying
    <2> QED
      BY <1>2, <1>10, <2>3, <2>4, <2>7, <2>8, Moves
  <1>11. CASE /\ ~Empty(p) /\ server[p].source \in Children
              /\ server' = [server EXCEPT ![p].pc = "write"]
              /\ child' = [child EXCEPT ![server[p].source].pipe = @ - 1]
    <2>1. PICK k \in Children : k = server[p].source
      BY <1>11
    <2>2. child[k] \in ChildRecords /\ child[k].pipe \in 0 .. PipeCap /\ child[k].pipe # 0
      BY <1>1, <1>5, <1>11, <2>1 DEF TypeOK, ChildRecords, Empty
    <2> DEFINE r  == [server[p] EXCEPT !.pc = "write"]
               ch == [child[k] EXCEPT !.pipe = @ - 1]
    <2>3. /\ r \in ServerRecords /\ r.pc = "write" /\ r.conn = server[p].conn
          /\ r.source = k /\ r.fds = server[p].fds
      BY <1>2, <2>1 DEF ServerRecords
    <2>4. server' = [server EXCEPT ![p] = r]
      BY <1>1, <1>11 DEF TypeOK
    <2>5. child[k].pipe - 1 \in 0 .. PipeCap
      BY <2>2, Counting
    <2>6. /\ ch \in ChildRecords /\ ch.parent = child[k].parent /\ ch.written = child[k].written
          /\ ch.todo = child[k].todo /\ ch.state = child[k].state /\ ch.holds = child[k].holds
          /\ ch.pipe = child[k].pipe - 1
      BY <2>2, <2>5 DEF ChildRecords
    <2>7. child' = [child EXCEPT ![k] = ch]
      BY <1>1, <1>11, <2>1 DEF TypeOK
    <2> HIDE DEF r, ch
    <2>8. /\ server'[p] = r /\ server' \in [Servers -> ServerRecords]
          /\ \A q \in Servers \ {p} : server'[q] = server[q]
      BY <1>1, <2>3, <2>4, PutServer
    <2>9. /\ child' \in [Children -> ChildRecords] /\ child'[k] = ch
          /\ \A j \in Children \ {k} : child'[j] = child[j]
      BY <1>1, <2>6, <2>7 DEF TypeOK
    <2>10. TypeOK'
      BY <1>1, <1>2, <2>8, <2>9 DEF TypeOK
    <2>11. /\ client[c].request \in {"cgi", "badexec"} /\ client[c].script = k
           /\ child[k].parent = p /\ child[k].state # "unused"
           /\ client[c].body + child[k].pipe + InHand(p) = child[k].written
      BY <1>3, <1>4, <2>1 DEF FromChild
    <2>12. FromChild(p)'
      <3>1. InHand(p)' = 1
        BY <2>3, <2>8 DEF InHand
      <3>2. client[c].body + ch.pipe + 1 = child[k].written
        BY <1>6, <1>8, <2>2, <2>6, <2>11
      <3> QED
        BY <1>2, <1>3, <2>3, <2>6, <2>8, <2>9, <2>11, <3>1, <3>2 DEF FromChild
    <2>13. Stays(p) /\ Serving(p)'
      BY <1>1, <1>2, <1>5, <2>3, <2>8, <2>12 DEF Stays, Serving, Active, Early, Copying, Request
    <2>14. OwnFds(p)'
      BY <1>1, <1>2, <2>3, <2>8 DEF OwnFds, Active, Early, Copying
    <2>15. ASSUME NEW j \in Children
           PROVE  Calm(j) /\ (child[j].parent # p => child'[j].pipe = child[j].pipe)
      <3>1. child[j].pipe \in Int
        BY <1>1 DEF TypeOK, ChildRecords
      <3> QED
        BY <2>6, <2>9, <2>11, <3>1 DEF Calm
    <2> QED
      BY <1>2, <2>8, <2>10, <2>13, <2>14, <2>15, OneServer
  <1>12. CASE server[p].source = File /\ Finish(p, "error")
    BY <1>2, <1>12, FinishStep
  <1> QED
    BY <1>9, <1>10, <1>11, <1>12 DEF copy_file_read

\* A server that has its connection c for itself, or shares it with one that
\* only closes it, changes what has been sent to c.
LEMMA Sending ==
    ASSUME IInv, TypeOK', UNCHANGED child, NEW p \in Servers, NEW c \in Conns,
           server[p].conn = c, server[p].pc \in {"open", "write"},
           \A q \in Servers \ {p} : server'[q] = server[q],
           \A d \in Conns \ {c} : client'[d] = client[d],
           client'[c].state = client[c].state, client'[c].request = client[c].request,
           client'[c].result = client[c].result,
           Stays(p), Serving(p)', OwnFds(p)'
    PROVE  IInv'
  <1>1. TypeOK /\ NewConns /\ Alone /\ HonestSuccess /\ Serving(p)
    BY DEF IInv
  <1>2. Lasting /\ \A k \in Children : Calm(k) /\ child'[k].pipe = child[k].pipe
    BY <1>1, CalmChildren, CalmLasts
  <1>3. \A d \in Conns \ {c} : SameAnswer(d) /\ client'[d].result = client[d].result
    BY DEF SameAnswer
  <1>4. \A d \in Conns : client'[d].request = client[d].request
    BY <1>3 DEF SameAnswer
  <1>5. \A q \in Servers : Stays(q)
    BY DEF Stays
  <1>6. NewConns'
    <2> SUFFICES ASSUME NEW d \in Conns, client'[d].state \in {"new", "queued"}
                 PROVE  Untouched(d)' /\ \A q \in Servers : server'[q].conn # d
      BY DEF NewConns
    <2>1. d # c
      BY <1>1 DEF NewConns
    <2>2. client'[d] = client[d]
      BY <2>1
    <2>3. Untouched(d) /\ \A q \in Servers : server[q].conn # d
      BY <1>1, <2>2 DEF NewConns
    <2> QED
      BY <1>5, <2>2, <2>3 DEF Untouched, Stays
  <1>7. Alone'
    BY <1>1, <1>5, AloneKept
  <1>8. client[c].result # "ok"
    BY <1>1 DEF Serving, Active, Early, Copying
  <1>9. HonestSuccess'
    <2> SUFFICES ASSUME NEW d \in Conns, client'[d].result = "ok"
                 PROVE  Answered(d)'
      BY DEF HonestSuccess
    <2>1. CASE d = c
      BY <1>8, <2>1
    <2>2. CASE d # c
      <3>1. Answered(d)
        BY <1>1, <1>3, <2>2 DEF HonestSuccess
      <3> QED
        BY <1>1, <1>2, <1>3, <2>2, <3>1, AnsweredKept
    <2> QED
      BY <2>1, <2>2
  <1>10. ASSUME NEW q \in Servers, q # p
         PROVE  Serving(q)' /\ OwnFds(q)'
    <2>1. server'[q] = server[q] /\ Serving(q) /\ OwnFds(q)
      BY <1>10 DEF IInv
    <2>2. OwnFds(q)'
      BY <2>1 DEF OwnFds
    <2>3. CASE server[q].conn = c /\ server[q].pc \in Active
      <3>1. server[q].pc = "close" /\ server[q].result = "error"
        BY <1>1, <1>10, <2>3 DEF Alone, Active, Early, Copying
      <3>2. Serving(q)'
        BY <2>1, <2>3, <3>1 DEF Serving, Early, Copying
      <3> QED
        BY <2>2, <3>2
    <2>4. CASE ~(server[q].conn = c /\ server[q].pc \in Active)
      <3>1. server[q].pc \in Active =>
              /\ SameAnswer(server[q].conn)
              /\ client'[server[q].conn].result = client[server[q].conn].result
        BY <1>3, <2>1, <2>4 DEF Serving
      <3>2. \A k \in Children : child[k].parent = q /\ child[k].state # "unused" => SamePipe(k)
        BY DEF SamePipe
      <3> QED
        BY <1>1, <1>2, <2>1, <2>2, <3>1, <3>2, ServingKept
    <2> QED
      BY <2>3, <2>4
  <1>11. ASSUME NEW k \in Children
         PROVE  Family(k)'
    <2>1. Family(k) /\ Calm(k)
      BY <1>2 DEF IInv
    <2>2. Stays(k)
      BY <1>5, ChildrenAreServers
    <2>3. child'[k].state = "fresh" =>
            client'[server[k].conn].request = client[server[k].conn].request
      BY <1>4, <2>1 DEF Family
    <2> QED
      BY <1>1, <2>1, <2>2, <2>3, FamilyKept
  <1> QED
    BY <1>6, <1>7, <1>9, <1>10, <1>11 DEF IInv

LEMMA WriteAll ==
    ASSUME IInv, NEW p \in Servers, write_all(p)
    PROVE  IInv'
  <1>1. TypeOK /\ Serving(p) /\ OwnFds(p)
    BY DEF IInv
  <1>2. server[p].pc = "write" /\ server[p] \in ServerRecords /\ UNCHANGED pending
    BY <1>1 DEF write_all, At, TypeOK
  <1>3. PICK c \in Conns : c = server[p].conn
    BY <1>1, <1>2 DEF Serving, Active, Copying
  <1>4. CASE Finish(p, "error") /\ UNCHANGED client
    BY <1>2, <1>4, FinishStep
  <1> DEFINE unread == IF client[c].gone THEN client[c].unread ELSE client[c].unread + 1
  <1>5. CASE /\ client[c].gone \/ client[c].unread < SockCap
             /\ client' = [client EXCEPT ![c].unread = unread, ![c].body = @ + 1]
             /\ server' = [server EXCEPT ![p].pc = "read"]
             /\ UNCHANGED child
    <2>1. client[c] \in ClientRecords
      BY <1>1 DEF TypeOK
    <2>2. client[c].unread \in 0 .. SockCap /\ client[c].body \in Pieces
      BY <2>1 DEF ClientRecords
    <2>3. client[c].body \in Nat /\ InHand(p) = 1
      BY <1>2, <2>2, PiecesAreInts DEF InHand
    <2>4. NoSource # File /\ NoSource \notin Children /\ File \notin Children
      BY DEF NoSource, File, Children
    <2>5. /\ server[p].source = File => FromFile(p)
          /\ server[p].source \in Children => FromChild(p)
          /\ server[p].source # NoSource
      BY <1>1, <1>2 DEF Serving, FromNothing, Active, Copying
    <2>6. server[p].left \in Nat
      BY <1>2, SizesAreNat DEF ServerRecords
    <2>7. client[c].body + 1 \in Pieces
      <3>1. CASE server[p].source = File
        <4>1. client[c].body + server[p].left + 1 <= FileLen
          BY <1>3, <2>3, <2>5, <3>1 DEF FromFile
        <4>2. client[c].body + 1 \in 0 .. FileLen
          BY <2>3, <2>6, <4>1, SizesAreNat
        <4> QED
          BY <4>2, PiecesFacts
      <3>2. CASE server[p].source \in Children
        <4>1. PICK k \in Children : k = server[p].source
          BY <3>2
        <4>2. child[k].written \in Pieces /\ child[k].pipe \in Nat
          BY <1>1, SizesAreNat DEF TypeOK, ChildRecords
        <4>3. child[k].written \in Nat
          BY <4>2, PiecesAreInts
        <4>4. client[c].body + child[k].pipe + 1 = child[k].written
          BY <1>3, <2>3, <2>5, <3>2, <4>1 DEF FromChild
        <4>5. client[c].body + 1 \in Nat /\ client[c].body + 1 <= child[k].written
          BY <2>3, <4>2, <4>3, <4>4
        <4> QED
          BY <4>2, <4>5, PiecesFacts
      <3> QED
        BY <1>2, <2>5, <3>1, <3>2 DEF ServerRecords
    <2> DEFINE r  == [server[p] EXCEPT !.pc = "read"]
               cl == [client[c] EXCEPT !.unread = unread, !.body = @ + 1]
    <2>8. /\ r \in ServerRecords /\ r.pc = "read" /\ r.conn = c
          /\ r.left = server[p].left /\ r.source = server[p].source /\ r.fds = server[p].fds
      BY <1>2, <1>3 DEF ServerRecords
    <2>9. server' = [server EXCEPT ![p] = r]
      BY <1>1, <1>5 DEF TypeOK
    <2>10. unread \in 0 .. SockCap
      BY <1>5, <2>2, Counting
    <2> HIDE DEF unread
    <2>11. /\ cl \in ClientRecords /\ cl.body = client[c].body + 1
           /\ cl.state = client[c].state /\ cl.request = client[c].request
           /\ cl.result = client[c].result /\ cl.changed = client[c].changed
           /\ cl.script = client[c].script
      BY <2>1, <2>7, <2>10 DEF ClientRecords
    <2>12. client' = [client EXCEPT ![c] = cl]
      BY <1>1, <1>5 DEF TypeOK, ClientRecords
    <2> HIDE DEF r, cl
    <2>13. /\ server'[p] = r /\ server' \in [Servers -> ServerRecords]
           /\ \A q \in Servers \ {p} : server'[q] = server[q]
      BY <1>1, <2>8, <2>9, PutServer
    <2>14. /\ client'[c] = cl /\ client' \in [Conns -> ClientRecords]
           /\ \A d \in Conns \ {c} : client'[d] = client[d]
      BY <1>1, <2>11, <2>12 DEF TypeOK
    <2>15. TypeOK'
      BY <1>1, <1>2, <1>5, <2>13, <2>14 DEF TypeOK
    <2>16. InHand(p)' = 0
      BY <2>8, <2>13 DEF InHand
    <2>17. server[p].source = File => FromFile(p)'
      <3> SUFFICES ASSUME server[p].source = File PROVE FromFile(p)'
        OBVIOUS
      <3>1. /\ client[c].request = "static"
            /\ client[c].body + server[p].left + 1 <= FileLen
            /\ ~client[c].changed => client[c].body + server[p].left + 1 = FileLen
        BY <1>3, <2>3, <2>5 DEF FromFile
      <3>2. cl.body + r.left + 0 = client[c].body + server[p].left + 1
        BY <2>3, <2>6, <2>8, <2>11
      <3> QED
        BY <2>8, <2>11, <2>13, <2>14, <2>16, <3>1, <3>2 DEF FromFile
    <2>18. server[p].source \in Children => FromChild(p)'
      <3> SUFFICES ASSUME server[p].source \in Children PROVE FromChild(p)'
        OBVIOUS
      <3>1. PICK k \in Children : k = server[p].source
        OBVIOUS
      <3>2. child[k].pipe \in Nat
        BY <1>1, SizesAreNat DEF TypeOK, ChildRecords
      <3>3. /\ client[c].request \in {"cgi", "badexec"} /\ client[c].script = k
            /\ child[k].parent = p /\ child[k].state # "unused"
            /\ client[c].body + child[k].pipe + 1 = child[k].written
        BY <1>3, <2>3, <2>5, <3>1 DEF FromChild
      <3>4. cl.body + child[k].pipe + 0 = child[k].written
        BY <2>3, <2>11, <3>2, <3>3
      <3>5. /\ server'[p].conn = c /\ server'[p].source = k /\ child' = child
            /\ client'[c].request = client[c].request /\ client'[c].script = k
            /\ client'[c].body = cl.body
        BY <1>5, <2>8, <2>11, <2>13, <2>14, <3>1, <3>3
      <3> QED
        BY <2>16, <3>3, <3>4, <3>5 DEF FromChild
    <2>19. client[c].result # "ok"
      BY <1>1, <1>2, <1>3 DEF Serving, Active, Copying
    <2>20. Stays(p) /\ Serving(p)'
      BY <1>2, <1>3, <2>5, <2>8, <2>11, <2>13, <2>14, <2>17, <2>18, <2>19
         DEF Stays, Serving, Active, Early, Copying, Request
    <2>21. OwnFds(p)'
      BY <1>1, <1>2, <2>8, <2>13 DEF OwnFds, Active, Early, Copying
    <2> QED
      BY <1>2, <1>3, <1>5, <2>11, <2>13, <2>14, <2>15, <2>20, <2>21, Sending
  <1>6. \/ Finish(p, "error") /\ UNCHANGED client
        \/ /\ client[c].gone \/ client[c].unread < SockCap
           /\ client' = [client EXCEPT ![c].unread = unread, ![c].body = @ + 1]
           /\ server' = [server EXCEPT ![p].pc = "read"]
           /\ UNCHANGED child
    BY <1>1, <1>3 DEF write_all, TypeOK
  <1> QED
    BY <1>4, <1>5, <1>6

LEMMA OpenFile ==
    ASSUME IInv, NEW p \in Servers, open_file(p)
    PROVE  IInv'
  <1>1. TypeOK /\ Serving(p) /\ OwnFds(p)
    BY DEF IInv
  <1>2. server[p].pc = "open" /\ server[p] \in ServerRecords /\ UNCHANGED <<child, pending>>
    BY <1>1 DEF open_file, At, TypeOK
  <1>3. PICK c \in Conns : c = server[p].conn
    BY <1>1, <1>2 DEF Serving, Active, Early
  <1>4. CASE server' = [server EXCEPT ![p] = Failed(@)] /\ UNCHANGED client
    BY <1>2, <1>4, Fails DEF Early
  <1>5. ASSUME NEW len \in 0 .. FileLen,
               server' = [server EXCEPT ![p].pc = "read", ![p].source = File,
                                        ![p].left = len, ![p].fds = @ \cup {"file"}],
               client' = [client EXCEPT ![c].changed = len # FileLen]
        PROVE  IInv'
    <2>1. client[c] \in ClientRecords
      BY <1>1 DEF TypeOK
    <2>2. /\ client[c].body = 0 /\ ~client[c].changed /\ client[c].result = "none"
          /\ client[c].request = "static"
      BY <1>1, <1>2, <1>3 DEF Serving, Untouched, Active, Early, Request
    <2> DEFINE new == len # FileLen
               r   == [server[p] EXCEPT !.pc = "read", !.source = File, !.left = len,
                                        !.fds = @ \cup {"file"}]
               cl  == [client[c] EXCEPT !.changed = new]
    <2>3. client' = [client EXCEPT ![c].changed = new]
      BY <1>5
    <2>4. new \in BOOLEAN /\ (~new => len = FileLen)
      OBVIOUS
    <2> HIDE DEF new
    <2>5. /\ r \in ServerRecords /\ r.pc = "read" /\ r.conn = c
          /\ r.left = len /\ r.source = File /\ r.fds = server[p].fds \cup {"file"}
      BY <1>2, <1>3 DEF ServerRecords
    <2>6. server' = [server EXCEPT ![p] = r]
      BY <1>1, <1>5 DEF TypeOK, ServerRecords
    <2>7. /\ cl \in ClientRecords /\ cl.body = 0 /\ cl.changed = new
          /\ cl.state = client[c].state /\ cl.request = "static" /\ cl.result = "none"
      BY <2>1, <2>2, <2>4 DEF ClientRecords
    <2>8. client' = [client EXCEPT ![c] = cl]
      BY <1>1, <2>3 DEF TypeOK, ClientRecords
    <2> HIDE DEF r, cl
    <2>9. /\ server'[p] = r /\ server' \in [Servers -> ServerRecords]
          /\ \A q \in Servers \ {p} : server'[q] = server[q]
      BY <1>1, <2>5, <2>6, PutServer
    <2>10. /\ client'[c] = cl /\ client' \in [Conns -> ClientRecords]
           /\ \A d \in Conns \ {c} : client'[d] = client[d]
      BY <1>1, <2>7, <2>8 DEF TypeOK
    <2>11. TypeOK'
      BY <1>1, <1>2, <2>9, <2>10 DEF TypeOK
    <2>12. FromFile(p)'
      <3>1. InHand(p)' = 0
        BY <2>5, <2>9 DEF InHand
      <3>2. cl.body + r.left + 0 = len /\ len <= FileLen
        BY <2>5, <2>7, SizesAreNat
      <3> QED
        BY <2>4, <2>5, <2>7, <2>9, <2>10, <3>1, <3>2 DEF FromFile
    <2>13. File # NoSource /\ File \notin Children
      BY DEF NoSource, File, Children
    <2>14. Stays(p) /\ Serving(p)'
      BY <1>2, <1>3, <2>5, <2>7, <2>9, <2>10, <2>12, <2>13
         DEF Stays, Serving, Active, Early, Copying, Request
    <2>15. OwnFds(p)'
      BY <1>1, <1>2, <2>5, <2>9 DEF OwnFds, Active, Early, Copying
    <2> QED
      BY <1>2, <1>3, <2>2, <2>7, <2>9, <2>10, <2>11, <2>14, <2>15, Sending
  <1> QED
    BY <1>3, <1>4, <1>5 DEF open_file

\* What a server that takes or leaves a connection does to the others.
LEMMA Reconnects ==
    ASSUME IInv, TypeOK', UNCHANGED child, NEW p \in Servers, server[p].pc # "off",
           \A q \in Servers \ {p} : server'[q] = server[q],
           \A d \in Conns : SameAnswer(d),
           \A q \in Servers \ {p} : server[q].pc \in Active =>
              \/ client'[server[q].conn].result = client[server[q].conn].result
              \/ /\ server[q].pc \notin Early
                 /\ server[q].pc # "close" => client'[server[q].conn].result # "ok",
           NewConns', Alone', HonestSuccess', Serving(p)', OwnFds(p)'
    PROVE  IInv'
  <1>1. TypeOK
    BY DEF IInv
  <1>2. Lasting /\ \A k \in Children : Calm(k) /\ child'[k].pipe = child[k].pipe
    BY <1>1, CalmChildren, CalmLasts
  <1>3. ASSUME NEW q \in Servers, q # p
        PROVE  Serving(q)' /\ OwnFds(q)'
    <2>1. server'[q] = server[q] /\ Serving(q) /\ OwnFds(q)
      BY <1>3 DEF IInv
    <2>2. OwnFds(q)'
      BY <2>1 DEF OwnFds
    <2>3. \A k \in Children : child[k].parent = q /\ child[k].state # "unused" => SamePipe(k)
      BY DEF SamePipe
    <2>4. server[q].pc \in Active => SameAnswer(server[q].conn)
      BY <2>1 DEF Serving
    <2> QED
      BY <1>1, <1>2, <1>3, <2>1, <2>2, <2>3, <2>4, ServingKept
  <1>4. ASSUME NEW k \in Children
        PROVE  Family(k)'
    <2>1. Family(k) /\ Calm(k)
      BY <1>2 DEF IInv
    <2>2. CASE k = p
      BY <2>1, <2>2 DEF Family
    <2>3. CASE k # p
      <3>1. Stays(k)
        BY <2>3, ChildrenAreServers DEF Stays
      <3>2. child'[k].state = "fresh" =>
              client'[server[k].conn].request = client[server[k].conn].request
        BY <2>1 DEF Family, SameAnswer
      <3> QED
        BY <1>1, <2>1, <3>1, <3>2, FamilyKept
    <2> QED
      BY <2>2, <2>3
  <1> QED
    BY <1>3, <1>4 DEF IInv

LEMMA Accept ==
    ASSUME IInv, NEW p \in Servers, accept(p)
    PROVE  IInv'
  <1>1. TypeOK /\ NewConns /\ Alone /\ HonestSuccess /\ OwnFds(p)
    BY DEF IInv
  <1>2. server[p].pc = "accept" /\ server[p] \in ServerRecords /\ UNCHANGED <<child, pending>>
    BY <1>1 DEF accept, At, TypeOK
  <1>3. PICK c \in Conns :
          /\ client[c].state = "queued" /\ client' = [client EXCEPT ![c].state = "open"]
          /\ \/ server' = [server EXCEPT ![p].pc = "recv", ![p].conn = c, ![p].got = 0,
                                         ![p].fds = @ \cup {"client"}]
             \/ server' = [server EXCEPT ![p].pc = "check"]
    BY DEF accept
  <1>4. client[c] \in ClientRecords
    BY <1>1 DEF TypeOK
  <1>5. Untouched(c) /\ \A q \in Servers : server[q].conn # c
    BY <1>1, <1>3 DEF NewConns
  <1> DEFINE taken  == [server[p] EXCEPT !.pc = "recv", !.conn = c, !.got = 0,
                                         !.fds = @ \cup {"client"}]
             failed == [server[p] EXCEPT !.pc = "check"]
             cl     == [client[c] EXCEPT !.state = "open"]
  <1>6. /\ taken \in ServerRecords /\ taken.pc = "recv" /\ taken.conn = c
        /\ taken.fds = server[p].fds \cup {"client"}
        /\ failed \in ServerRecords /\ failed.pc = "check" /\ failed.conn = server[p].conn
        /\ failed.fds = server[p].fds
    BY <1>2, Counting DEF ServerRecords
  <1>7. PICK r \in {taken, failed} : server' = [server EXCEPT ![p] = r]
    BY <1>1, <1>3 DEF TypeOK, ServerRecords
  <1>8. /\ cl \in ClientRecords /\ cl.state = "open" /\ cl.body = client[c].body
        /\ cl.request = client[c].request /\ cl.result = client[c].result
        /\ cl.changed = client[c].changed /\ cl.script = client[c].script
        /\ cl.gone = client[c].gone
    BY <1>4 DEF ClientRecords
  <1>9. client' = [client EXCEPT ![c] = cl]
    BY <1>1, <1>3 DEF TypeOK
  <1> HIDE DEF taken, failed, cl
  <1>10. /\ server'[p] = r /\ server' \in [Servers -> ServerRecords]
         /\ \A q \in Servers \ {p} : server'[q] = server[q]
    BY <1>1, <1>6, <1>7, PutServer
  <1>11. /\ client'[c] = cl /\ client' \in [Conns -> ClientRecords]
         /\ \A d \in Conns \ {c} : client'[d] = client[d]
    BY <1>1, <1>8, <1>9 DEF TypeOK
  <1>12. TypeOK'
    BY <1>1, <1>2, <1>10, <1>11 DEF TypeOK
  <1>13. \A d \in Conns : SameAnswer(d) /\ client'[d].result = client[d].result
    BY <1>8, <1>11 DEF SameAnswer
  <1>14. NewConns'
    <2> SUFFICES ASSUME NEW d \in Conns, client'[d].state \in {"new", "queued"}
                 PROVE  Untouched(d)' /\ \A q \in Servers : server'[q].conn # d
      BY DEF NewConns
    <2>1. d # c /\ client'[d] = client[d]
      BY <1>8, <1>11
    <2>2. Untouched(d) /\ \A q \in Servers : server[q].conn # d
      BY <1>1, <2>1 DEF NewConns
    <2>3. ASSUME NEW q \in Servers
          PROVE  server'[q].conn # d
      BY <1>6, <1>10, <2>1, <2>2
    <2> QED
      BY <2>1, <2>2, <2>3 DEF Untouched
  <1>15. Alone'
    <2> SUFFICES ASSUME NEW q1 \in Servers, NEW q2 \in Servers,
                        q1 # q2, server'[q1].conn = server'[q2].conn
                 PROVE  /\ server'[q1].pc \notin Early
                        /\ server'[q1].pc \in Active /\ server'[q2].pc \in Active =>
                             \E e \in {q1, q2} :
                                server'[e].pc = "close" /\ server'[e].result = "error"
      BY DEF Alone
    <2>1. CASE r = taken
      <3>1. q1 # p /\ q2 # p
        BY <1>5, <1>6, <1>10, <2>1
      <3>2. server'[q1] = server[q1] /\ server'[q2] = server[q2]
        BY <1>10, <3>1
      <3>3. Alone /\ server[q1].conn = server[q2].conn
        BY <1>1, <3>2
      <3>4. /\ server[q1].pc \notin Early
            /\ server[q1].pc \in Active /\ server[q2].pc \in Active =>
                 \E e \in {q1, q2} : server[e].pc = "close" /\ server[e].result = "error"
        BY ONLY <3>3, q1 \in Servers, q2 \in Servers, q1 # q2 DEF Alone
      <3> QED
        BY <3>2, <3>4
    <2>2. CASE r = failed
      <3>1. /\ server'[p].pc \notin Active /\ server'[p].conn = server[p].conn
            /\ server[p].pc \notin Active
        BY <1>2, <1>6, <1>10, <2>2 DEF Active, Early, Copying
      <3>2. \A q \in Servers : server'[q].conn = server[q].conn
        BY <1>10, <3>1
      <3>3. \A q \in Servers : server'[q].pc \in Active => server'[q] = server[q]
        BY <1>10, <3>1
      <3>4. \A q \in Servers : server[q].pc \notin Early => server'[q].pc \notin Early
        BY <3>3 DEF Active
      <3>5. server[q1].conn = server[q2].conn
        BY <3>2
      <3> QED
        BY <1>1, <3>3, <3>4, <3>5 DEF Alone
    <2> QED
      BY <2>1, <2>2
  <1>16. HonestSuccess'
    <2> SUFFICES ASSUME NEW d \in Conns, client'[d].result = "ok"
                 PROVE  Answered(d)'
      BY DEF HonestSuccess
    <2>1. Answered(d)
      BY <1>1, <1>13 DEF HonestSuccess
    <2>2. Lasting
      BY <1>1, <1>2, CalmChildren, CalmLasts
    <2> QED
      BY <1>1, <1>13, <2>1, <2>2, AnsweredKept
  <1>17. Serving(p)'
    BY <1>5, <1>6, <1>8, <1>10, <1>11
       DEF Serving, Untouched, Active, Early, Copying
  <1>18. OwnFds(p)'
    BY <1>1, <1>2, <1>6, <1>10 DEF OwnFds, Active, Early, Copying
  <1>19. \A q \in Servers \ {p} : server[q].pc \in Active =>
           client'[server[q].conn].result = client[server[q].conn].result
    BY <1>13 DEF IInv, Serving
  <1> QED
    BY <1>2, <1>10, <1>12, <1>13, <1>14, <1>15, <1>16, <1>17, <1>18, <1>19, Reconnects

LEMMA CloseClient ==
    ASSUME IInv, NEW p \in Servers, close_client(p)
    PROVE  IInv'
  <1>1. TypeOK /\ NewConns /\ Alone /\ HonestSuccess /\ Serving(p) /\ OwnFds(p)
    BY DEF IInv
  <1>2. server[p].pc = "close" /\ server[p] \in ServerRecords /\ UNCHANGED <<child, pending>>
    BY <1>1 DEF close_client, At, TypeOK
  <1>3. PICK c \in Conns : c = server[p].conn
    BY <1>1, <1>2 DEF Serving, Active
  <1>4. client[c] \in ClientRecords /\ server[p].result \in {"ok", "error"}
    BY <1>1, <1>2 DEF TypeOK, ServerRecords
  <1> DEFINE r  == [server[p] EXCEPT !.pc = "check", !.conn = NoConn, !.source = NoSource,
                                     !.fds = @ \ {"client"}]
             cl == [client[c] EXCEPT !.result = server[p].result]
  <1>5. /\ r \in ServerRecords /\ r.pc = "check" /\ r.conn = NoConn
        /\ r.fds = server[p].fds \ {"client"}
    BY <1>2 DEF ServerRecords
  <1>6. server' = [server EXCEPT ![p] = r]
    BY <1>1 DEF close_client, TypeOK, ServerRecords
  <1>7. /\ cl \in ClientRecords /\ cl.state = client[c].state /\ cl.body = client[c].body
        /\ cl.request = client[c].request /\ cl.result = server[p].result
        /\ cl.changed = client[c].changed /\ cl.script = client[c].script
        /\ cl.gone = client[c].gone
    BY <1>4 DEF ClientRecords
  <1>8. client' = [client EXCEPT ![c] = cl]
    BY <1>1, <1>3 DEF close_client, TypeOK
  <1> HIDE DEF r, cl
  <1>9. /\ server'[p] = r /\ server' \in [Servers -> ServerRecords]
        /\ \A q \in Servers \ {p} : server'[q] = server[q]
    BY <1>1, <1>5, <1>6, PutServer
  <1>10. /\ client'[c] = cl /\ client' \in [Conns -> ClientRecords]
         /\ \A d \in Conns \ {c} : client'[d] = client[d]
    BY <1>1, <1>7, <1>8 DEF TypeOK
  <1>11. TypeOK'
    BY <1>1, <1>2, <1>9, <1>10 DEF TypeOK
  <1>12. \A d \in Conns : SameAnswer(d) /\ client'[d].state = client[d].state
    BY <1>7, <1>10 DEF SameAnswer
  <1>13. NewConns'
    <2> SUFFICES ASSUME NEW d \in Conns, client'[d].state \in {"new", "queued"}
                 PROVE  Untouched(d)' /\ \A q \in Servers : server'[q].conn # d
      BY DEF NewConns
    <2>1. Untouched(d) /\ \A q \in Servers : server[q].conn # d
      BY <1>1, <1>12 DEF NewConns
    <2>2. d # c /\ client'[d] = client[d]
      BY <1>3, <1>10, <2>1
    <2>3. NoConn # d
      BY DEF NoConn, Conns
    <2>4. ASSUME NEW q \in Servers
          PROVE  server'[q].conn # d
      BY <1>5, <1>9, <2>1, <2>3
    <2> QED
      BY <2>1, <2>2, <2>4 DEF Untouched
  <1>14. Alone'
    <2> SUFFICES ASSUME NEW q1 \in Servers, NEW q2 \in Servers,
                        q1 # q2, server'[q1].conn = server'[q2].conn
                 PROVE  /\ server'[q1].pc \notin Early
                        /\ server'[q1].pc \in Active /\ server'[q2].pc \in Active =>
                             \E e \in {q1, q2} :
                                server'[e].pc = "close" /\ server'[e].result = "error"
      BY DEF Alone
    <2>1. \A q \in Servers : server[q].pc \in Active => server[q].conn \in Conns
      BY DEF IInv, Serving
    <2>2. NoConn \notin Conns
      BY DEF NoConn, Conns
    <2>3. CASE q1 = p \/ q2 = p
      <3>1. server'[q1].conn = NoConn /\ server'[q2].conn = NoConn
        BY <1>5, <1>9, <2>3
      <3>2. ASSUME NEW q \in Servers, server'[q].conn = NoConn
            PROVE  server'[q].pc \notin Active
        BY <1>5, <1>9, <2>1, <2>2, <3>2 DEF Active, Early, Copying
      <3> QED
        BY <3>1, <3>2 DEF Active
    <2>4. CASE q1 # p /\ q2 # p
      <3>1. server'[q1] = server[q1] /\ server'[q2] = server[q2]
        BY <1>9, <2>4
      <3> QED
        BY <1>1, <3>1 DEF Alone
    <2> QED
      BY <2>3, <2>4
  <1>15. HonestSuccess'
    <2> SUFFICES ASSUME NEW d \in Conns, client'[d].result = "ok"
                 PROVE  Answered(d)'
      BY DEF HonestSuccess
    <2>1. Answered(d)
      <3>1. CASE d = c
        BY <1>1, <1>2, <1>3, <1>7, <1>10, <3>1 DEF Serving, Active
      <3>2. CASE d # c
        BY <1>1, <1>10, <3>2 DEF HonestSuccess
      <3> QED
        BY <3>1, <3>2
    <2>2. Lasting
      BY <1>1, <1>2, CalmChildren, CalmLasts
    <2> QED
      BY <1>1, <1>12, <2>1, <2>2, AnsweredKept
  <1>16. Serving(p)' /\ OwnFds(p)'
    BY <1>1, <1>2, <1>5, <1>9 DEF Serving, OwnFds, Active, Early, Copying
  <1>17. ASSUME NEW q \in Servers \ {p}, server[q].pc \in Active
         PROVE  \/ client'[server[q].conn].result = client[server[q].conn].result
                \/ /\ server[q].pc \notin Early
                   /\ server[q].pc # "close" => client'[server[q].conn].result # "ok"
    <2>1. server[q].conn \in Conns
      BY <1>17 DEF IInv, Serving
    <2>2. CASE server[q].conn = c
      <3>1. server[p].pc \in Active /\ server[q].conn = server[p].conn /\ q # p
        BY <1>2, <1>3, <2>2 DEF Active
      <3>2. /\ server[q].pc \notin Early
            /\ server[q].pc = "close" \/ server[p].result = "error"
        BY <1>1, <1>17, <3>1 DEF Alone
      <3>3. client'[c].result = server[p].result
        BY <1>7, <1>10
      <3> QED
        BY <2>2, <3>2, <3>3
    <2>3. CASE server[q].conn # c
      BY <1>10, <2>1, <2>3
    <2> QED
      BY <2>2, <2>3
  <1> QED
    BY <1>2, <1>9, <1>11, <1>12, <1>13, <1>14, <1>15, <1>16, <1>17, Reconnects

LEMMA Fork ==
    ASSUME IInv, NEW p \in Servers, NEW k \in Children, NEW c \in Conns,
           server[p].pc = "fork", server[p].conn = c, child[k].state = "unused",
           child' = [child EXCEPT ![k].state = "fresh", ![k].parent = p,
                                  ![k].holds = {k} \cup (IF p = 0 THEN {} ELSE child[p].holds),
                                  ![k].ropen = TRUE],
           server' = [server EXCEPT ![p].pc = "assign", ![p].source = k,
                                    ![p].fds = @ \cup {"pipe_r"},
                                    ![k] = [server[p] EXCEPT
                                              !.pc = "off", !.result = "error",
                                              !.fds = {"client", "pipe_w"}]],
           client' = [client EXCEPT ![c].script = k], UNCHANGED pending
    PROVE  IInv'
  <1>1. TypeOK /\ NewConns /\ Alone /\ HonestSuccess /\ Serving(p) /\ OwnFds(p) /\ Family(k)
    BY DEF IInv
  <1>2. server[p] \in ServerRecords /\ child[k] \in ChildRecords /\ client[c] \in ClientRecords
    BY <1>1 DEF TypeOK
  <1>3. k \in Servers /\ k # p /\ k # 0
    BY <1>1, ChildrenAreServers DEF Family
  <1>4. /\ Untouched(c) /\ client[c].request \in {"cgi", "badexec"}
        /\ child[k].todo = 0 /\ child[k].written = 0 /\ child[k].pipe = 0
    BY <1>1 DEF Serving, Family, Active, Early, Request
  <1>5. \A q \in Servers \ {p} : server[q].conn # c
    BY <1>1 DEF Alone, Early
  <1> DEFINE ends == {k} \cup (IF p = 0 THEN {} ELSE child[p].holds)
             r    == [server[p] EXCEPT !.pc = "assign", !.source = k, !.fds = @ \cup {"pipe_r"}]
             rk   == [server[p] EXCEPT !.pc = "off", !.result = "error",
                                       !.fds = {"client", "pipe_w"}]
             ch   == [child[k] EXCEPT !.state = "fresh", !.parent = p, !.holds = ends,
                                      !.ropen = TRUE]
             cl   == [client[c] EXCEPT !.script = k]
  <1>6. ends \in SUBSET Children /\ k \in ends
    <2>1. p # 0 => p \in Children
      BY DEF Servers, Children
    <2>2. p # 0 => child[p].holds \in SUBSET Children
      BY <1>1, <2>1 DEF TypeOK, ChildRecords
    <2> QED
      BY <2>2
  <1>7. child' = [child EXCEPT ![k].state = "fresh", ![k].parent = p, ![k].holds = ends,
                               ![k].ropen = TRUE]
    OBVIOUS
  <1> HIDE DEF ends
  <1>8. /\ r \in ServerRecords /\ r.pc = "assign" /\ r.conn = c /\ r.source = k
        /\ r.fds = server[p].fds \cup {"pipe_r"}
    BY <1>2 DEF ServerRecords
  <1>9. /\ rk \in ServerRecords /\ rk.pc = "off" /\ rk.conn = c /\ rk.result = "error"
        /\ rk.fds = {"client", "pipe_w"}
    BY <1>2 DEF ServerRecords
  <1>10. /\ ch \in ChildRecords /\ ch.state = "fresh" /\ ch.parent = p /\ ch.holds = ends
         /\ ch.todo = 0 /\ ch.written = 0 /\ ch.pipe = 0
    BY <1>2, <1>4, <1>6 DEF ChildRecords
  <1>11. k \in 0 .. MaxForks
    BY SizesAreNat DEF Children
  <1>12. /\ cl \in ClientRecords /\ cl.state = client[c].state /\ cl.body = client[c].body
         /\ cl.request = client[c].request /\ cl.result = client[c].result
         /\ cl.script = k
    BY <1>2, <1>11 DEF ClientRecords
  <1>13. /\ server'[p] = r /\ server'[k] = rk /\ server' \in [Servers -> ServerRecords]
         /\ \A q \in Servers \ {p, k} : server'[q] = server[q]
    <2>1. server' = [server EXCEPT ![p].pc = "assign", ![p].source = k,
                                   ![p].fds = @ \cup {"pipe_r"}, ![k] = rk]
      OBVIOUS
    <2> HIDE DEF rk
    <2> DEFINE f == [server EXCEPT ![p].pc = "assign", ![p].source = k,
                                   ![p].fds = @ \cup {"pipe_r"}]
    <2>2. f = [server EXCEPT ![p] = r]
      BY <1>1, <1>2 DEF TypeOK, ServerRecords
    <2>3. server' = [f EXCEPT ![k] = rk]
      BY <2>1
    <2> HIDE DEF r, f
    <2> QED
      BY <1>1, <1>3, <1>8, <1>9, <2>2, <2>3 DEF TypeOK
  <1>14. child' = [child EXCEPT ![k] = ch]
    BY <1>1, <1>7 DEF TypeOK, ChildRecords
  <1>15. client' = [client EXCEPT ![c] = cl]
    BY <1>1 DEF TypeOK
  <1> HIDE DEF r, rk, ch, cl
  <1>16. /\ child'[k] = ch /\ child' \in [Children -> ChildRecords]
         /\ \A j \in Children \ {k} : child'[j] = child[j]
    BY <1>1, <1>10, <1>14, PutChild
  <1>17. /\ client'[c] = cl /\ client' \in [Conns -> ClientRecords]
         /\ \A d \in Conns \ {c} : client'[d] = client[d]
    BY <1>1, <1>12, <1>15 DEF TypeOK
  <1>18. TypeOK'
    BY <1>1, <1>13, <1>16, <1>17 DEF TypeOK
  <1>19. Lasting
    BY <1>16 DEF Lasting, Silent
  <1>20. \A d \in Conns \ {c} : SameAnswer(d) /\ client'[d].result = client[d].result
    BY <1>17 DEF SameAnswer
  <1>21. NewConns'
    <2> SUFFICES ASSUME NEW d \in Conns, client'[d].state \in {"new", "queued"}
                 PROVE  Untouched(d)' /\ \A q \in Servers : server'[q].conn # d
      BY DEF NewConns
    <2>1. d # c
      BY <1>1, <1>12, <1>17 DEF NewConns
    <2>2. client'[d] = client[d]
      BY <1>17, <2>1
    <2>3. Untouched(d) /\ \A q \in Servers : server[q].conn # d
      BY <1>1, <2>2 DEF NewConns
    <2>4. ASSUME NEW q \in Servers
          PROVE  server'[q].conn # d
      BY <1>8, <1>9, <1>13, <2>1, <2>3
    <2> QED
      BY <2>2, <2>3, <2>4 DEF Untouched
  <1>22. Alone'
    <2> SUFFICES ASSUME NEW q1 \in Servers, NEW q2 \in Servers,
                        q1 # q2, server'[q1].conn = server'[q2].conn
                 PROVE  /\ server'[q1].pc \notin Early
                        /\ server'[q1].pc \in Active /\ server'[q2].pc \in Active =>
                             \E e \in {q1, q2} :
                                server'[e].pc = "close" /\ server'[e].result = "error"
      BY DEF Alone
    <2>1. CASE q1 \in {p, k} \/ q2 \in {p, k}
      <3>1. q1 \in {p, k} /\ q2 \in {p, k}
        BY <1>5, <1>8, <1>9, <1>13, <2>1
      <3>2. r.pc \notin Early /\ rk.pc \notin Active
        BY <1>8, <1>9 DEF Active, Early, Copying
      <3> QED
        BY <1>13, <3>1, <3>2 DEF Active
    <2>2. CASE q1 \notin {p, k} /\ q2 \notin {p, k}
      <3>1. server'[q1] = server[q1] /\ server'[q2] = server[q2]
        BY <1>13, <2>2
      <3>2. Alone /\ server[q1].conn = server[q2].conn
        BY <1>1, <3>1
      <3>3. /\ server[q1].pc \notin Early
            /\ server[q1].pc \in Active /\ server[q2].pc \in Active =>
                 \E e \in {q1, q2} : server[e].pc = "close" /\ server[e].result = "error"
        BY ONLY <3>2, q1 \in Servers, q2 \in Servers, q1 # q2 DEF Alone
      <3> QED
        BY <3>1, <3>3
    <2> QED
      BY <2>1, <2>2
  <1>23. HonestSuccess'
    <2> SUFFICES ASSUME NEW d \in Conns, client'[d].result = "ok"
                 PROVE  Answered(d)'
      BY DEF HonestSuccess
    <2>1. d # c
      BY <1>4, <1>12, <1>17 DEF Untouched
    <2>2. Answered(d) /\ SameAnswer(d)
      BY <1>1, <1>20, <2>1 DEF HonestSuccess
    <2> QED
      BY <1>1, <1>19, <2>2, AnsweredKept
  <1>24. Serving(p)' /\ OwnFds(p)'
    <2>1. InHand(p)' = 0
      BY <1>8, <1>13 DEF InHand
    <2>2. FromChild(p)'
      <3>1. cl.body + ch.pipe + 0 = ch.written
        BY <1>4, <1>10, <1>12 DEF Untouched
      <3>2. /\ server'[p].conn = c /\ server'[p].source = k
            /\ client'[c].request \in {"cgi", "badexec"} /\ client'[c].script = k
            /\ client'[c].body = cl.body /\ child'[k].parent = p /\ child'[k].state = "fresh"
            /\ child'[k].pipe = ch.pipe /\ child'[k].written = ch.written
        BY <1>4, <1>8, <1>10, <1>12, <1>13, <1>16, <1>17
      <3> QED
        BY <2>1, <3>1, <3>2 DEF FromChild
    <2>3. k # File /\ k # NoSource
      BY DEF File, NoSource, Children
    <2>4. Serving(p)'
      BY <1>4, <1>8, <1>12, <1>13, <1>17, <2>2, <2>3
         DEF Serving, Untouched, Active, Early, Copying, Request
    <2>5. OwnFds(p)'
      BY <1>1, <1>8, <1>13 DEF OwnFds, Active, Early, Copying
    <2> QED
      BY <2>4, <2>5
  <1>25. Serving(k)' /\ OwnFds(k)'
    BY <1>3, <1>9, <1>13 DEF Serving, OwnFds, Active, Early, Copying
  <1>26. ASSUME NEW q \in Servers \ {p, k}
         PROVE  Serving(q)' /\ OwnFds(q)'
    <2>1. server'[q] = server[q] /\ Serving(q) /\ OwnFds(q) /\ server[q].conn # c
      BY <1>5, <1>13 DEF IInv
    <2>2. OwnFds(q)'
      BY <2>1 DEF OwnFds
    <2>3. server[q].pc \in Active =>
            /\ SameAnswer(server[q].conn)
            /\ client'[server[q].conn].result = client[server[q].conn].result
      BY <1>20, <2>1 DEF Serving
    <2>4. \A j \in Children : child[j].parent = q /\ child[j].state # "unused" => SamePipe(j)
      BY <1>16 DEF SamePipe
    <2> QED
      BY <1>1, <1>18, <1>19, <2>1, <2>2, <2>3, <2>4, ServingKept
  <1>27. ASSUME NEW j \in Children
         PROVE  Family(j)'
    <2>1. CASE j = k
      <3>1. ch.written + ch.todo = 0 /\ ~(ch.todo > 0)
        BY <1>10
      <3>2. ch.written + ch.todo \in Pieces
        BY <3>1, PiecesFacts
      <3> QED
        BY <1>4, <1>6, <1>9, <1>10, <1>12, <1>13, <1>16, <1>17, <2>1, <3>1, <3>2
           DEF Family, Request
    <2>2. CASE j # k
      <3>1. Family(j) /\ child'[j] = child[j]
        BY <1>16, <2>2 DEF IInv
      <3>2. CASE j = p
        BY <3>1, <3>2 DEF Family
      <3>3. CASE j # p
        <4>1. server'[j] = server[j]
          BY <1>13, <2>2, <3>3, ChildrenAreServers
        <4>2. client'[server[j].conn].request = client[server[j].conn].request
              \/ child[j].state # "fresh"
          BY <1>12, <1>17, <3>1 DEF Family
        <4> QED
          BY <3>1, <4>1, <4>2 DEF Family, Request
      <3> QED
        BY <3>2, <3>3
    <2> QED
      BY <2>1, <2>2
  <1> QED
    BY <1>18, <1>21, <1>22, <1>23, <1>24, <1>25, <1>26, <1>27 DEF IInv

LEMMA ExecuteFile ==
    ASSUME IInv, NEW p \in Servers, execute_file(p)
    PROVE  IInv'
  <1>1. TypeOK /\ Serving(p)
    BY DEF IInv
  <1>2. server[p].pc = "fork"
    BY DEF execute_file, At
  <1>3. PICK c \in Conns : c = server[p].conn
    BY <1>1, <1>2 DEF Serving, Active, Early
  <1>4. CASE server' = [server EXCEPT ![p] = Failed(@)] /\ UNCHANGED <<client, child, pending>>
    BY <1>2, <1>4, Fails DEF Early
  <1>5. CASE /\ server' = [server EXCEPT ![p].pc = "read", ![p].source = NoSource,
                                         ![p].current = NoPid, ![p].fds = @ \cup {"pipe_r"}]
             /\ UNCHANGED <<client, child, pending>>
    BY <1>2, <1>5, ExecuteFileFails
  <1>6. CASE \E k \in Children :
            /\ child[k].state = "unused" /\ \A j \in 1 .. (k - 1) : child[j].state # "unused"
            /\ child' = [child EXCEPT ![k].state = "fresh", ![k].parent = p,
                                      ![k].holds = {k} \cup (IF p = 0 THEN {} ELSE child[p].holds),
                                      ![k].ropen = TRUE]
            /\ server' = [server EXCEPT ![p].pc = "assign", ![p].source = k,
                                        ![p].fds = @ \cup {"pipe_r"},
                                        ![k] = [server[p] EXCEPT
                                                  !.pc = "off", !.result = "error",
                                                  !.fds = {"client", "pipe_w"}]]
            /\ client' = [client EXCEPT ![server[p].conn].script = k]
    <2>1. UNCHANGED pending
      BY DEF execute_file
    <2> QED
      BY <1>2, <1>3, <1>6, <2>1, Fork
  <1> QED
    BY <1>4, <1>5, <1>6 DEF execute_file

LEMMA ServeStep ==
    ASSUME IInv, NEW p \in Servers, Serve(p)
    PROVE  IInv'
  BY MustStopStep, Accept, CloseClient, ReadRequest, ReadRequestHead, MakeResponse, OpenFile,
     ExecuteFile, ExecuteFileAssign, CopyFileRead, WriteAll DEF Serve

-----------------------------------------------------------------------------
(* signal_handler *)

\* The children are what they were, but some zombies have been waited for, and
\* some pipes are not read any more.
Collected(ch) ==
    /\ ch \in [Children -> ChildRecords]
    /\ \A k \in Children :
         /\ ch[k].parent = child[k].parent /\ ch[k].written = child[k].written
         /\ ch[k].todo = child[k].todo /\ ch[k].pipe = child[k].pipe
         /\ ch[k].holds = child[k].holds
         /\ \/ ch[k].state = child[k].state
            \/ child[k].state = "zombie" /\ ch[k].state = "reaped"

LEMMA RopenCollected ==
    ASSUME NEW ch, Collected(ch), NEW s \in Children
    PROVE  Collected([ch EXCEPT ![s].ropen = FALSE])
  <1>1. ch \in [Children -> ChildRecords] /\ ch[s] \in ChildRecords
    BY DEF Collected
  <1> DEFINE new == [ch[s] EXCEPT !.ropen = FALSE]
             all == [ch EXCEPT ![s].ropen = FALSE]
  <1>2. /\ new \in ChildRecords /\ new.parent = ch[s].parent /\ new.written = ch[s].written
        /\ new.todo = ch[s].todo /\ new.state = ch[s].state /\ new.holds = ch[s].holds
        /\ new.pipe = ch[s].pipe
    BY <1>1 DEF ChildRecords
  <1>3. all = [ch EXCEPT ![s] = new]
    BY <1>1
  <1> HIDE DEF new, all
  <1>4. /\ all \in [Children -> ChildRecords] /\ all[s] = new
        /\ \A k \in Children \ {s} : all[k] = ch[k]
    BY <1>1, <1>2, <1>3
  <1>5. Collected(all)
    BY <1>2, <1>4 DEF Collected
  <1> QED
    BY <1>5 DEF all

LEMMA ReapCollected ==
    ASSUME TypeOK, NEW s \in Children, child[s].state = "zombie"
    PROVE  Collected([child EXCEPT ![s].state = "reaped"])
  <1>1. child \in [Children -> ChildRecords] /\ child[s] \in ChildRecords
    BY DEF TypeOK
  <1> DEFINE new == [child[s] EXCEPT !.state = "reaped"]
             all == [child EXCEPT ![s].state = "reaped"]
  <1>2. /\ new \in ChildRecords /\ new.parent = child[s].parent /\ new.written = child[s].written
        /\ new.todo = child[s].todo /\ new.state = "reaped" /\ new.holds = child[s].holds
        /\ new.pipe = child[s].pipe
    BY <1>1 DEF ChildRecords
  <1>3. all = [child EXCEPT ![s] = new]
    BY <1>1
  <1> HIDE DEF new, all
  <1>4. /\ all \in [Children -> ChildRecords] /\ all[s] = new
        /\ \A k \in Children \ {s} : all[k] = child[k]
    BY <1>1, <1>2, <1>3
  <1>5. Collected(all)
    BY <1>2, <1>4 DEF Collected
  <1> QED
    BY <1>5 DEF all

LEMMA CollectedCalm ==
    ASSUME IInv, Collected(child')
    PROVE  \A k \in Children : Calm(k) /\ child'[k].pipe = child[k].pipe
  <1> SUFFICES ASSUME NEW k \in Children
               PROVE  Calm(k) /\ child'[k].pipe = child[k].pipe
    OBVIOUS
  <1>1. Family(k) /\ child[k] \in ChildRecords
    BY DEF IInv, TypeOK
  <1>2. child[k].todo \in Nat /\ child[k].pipe \in Int
    BY <1>1, PiecesAreInts DEF ChildRecords
  <1>3. child[k].state = "zombie" => child[k].todo = 0
    BY <1>1, <1>2 DEF Family
  <1> QED
    BY <1>2, <1>3 DEF Collected, Calm

\* What a handler leaves alone of its server's request.
SameWork(p, r) ==
    /\ r \in ServerRecords /\ r.pc = server[p].pc /\ r.conn = server[p].conn
    /\ r.fds = server[p].fds /\ r.result = server[p].result
    /\ r.source = server[p].source /\ r.left = server[p].left

LEMMA SameWorkServing ==
    ASSUME IInv, TypeOK', NEW p \in Servers, SameWork(p, server'[p]), UNCHANGED client,
           \A k \in Children : Calm(k) /\ child'[k].pipe = child[k].pipe
    PROVE  Stays(p) /\ Serving(p)' /\ OwnFds(p)'
  <1>1. TypeOK /\ Serving(p) /\ OwnFds(p)
    BY DEF IInv
  <1>2. Stays(p) /\ OwnFds(p)'
    BY <1>1 DEF Stays, OwnFds, SameWork
  <1> SUFFICES ASSUME server[p].pc \in Active
               PROVE  Serving(p)'
    BY <1>2 DEF Serving, SameWork
  <1>3. PICK c \in Conns : c = server[p].conn
    BY <1>1 DEF Serving
  <1>4. Answered(c) => Answered(c)'
    <2>1. Lasting /\ SameAnswer(c)
      BY CalmLasts DEF SameAnswer
    <2> QED
      BY <1>1, <2>1, AnsweredKept
  <1>5. InHand(p)' = InHand(p) /\ Request(p)' = Request(p)
    BY DEF InHand, Request, SameWork
  <1>6. FromFile(p) => FromFile(p)'
    BY <1>5 DEF FromFile, SameWork
  <1>7. FromNothing(p) => FromNothing(p)'
    BY <1>5 DEF FromNothing, SameWork
  <1>8. ASSUME server[p].source \in Children, FromChild(p)
        PROVE  FromChild(p)'
    <2>1. PICK k \in Children : k = server[p].source
      BY <1>8
    <2>2. /\ child'[k].parent = child[k].parent /\ child'[k].written = child[k].written
          /\ child'[k].pipe = child[k].pipe
          /\ child[k].state # "unused" => child'[k].state # "unused"
      BY DEF Calm
    <2> QED
      BY <1>5, <1>8, <2>1, <2>2 DEF FromChild, SameWork
  <1> QED
    BY <1>1, <1>3, <1>4, <1>5, <1>6, <1>7, <1>8 DEF Serving, SameWork, Untouched

LEMMA ReturnStep ==
    ASSUME IInv, NEW p \in Servers, server[p].pc \notin {"off", "end"},
           NEW r, SameWork(p, r), NEW ch, Collected(ch), Return(p, r, ch), UNCHANGED client,
           pending' \subseteq Servers \X {"STOP", "CHLD"}
    PROVE  IInv'
  <1>1. TypeOK /\ Serving(p) /\ OwnFds(p)
    BY DEF IInv
  <1>2. r \in ServerRecords
    BY DEF SameWork
  <1>3. ASSUME NEW s \in ServerRecords, server' = [server EXCEPT ![p] = s], Collected(child'),
               TypeOK' => Stays(p) /\ Serving(p)' /\ OwnFds(p)'
        PROVE  IInv'
    <2>1. /\ server'[p] = s /\ server' \in [Servers -> ServerRecords]
          /\ \A q \in Servers \ {p} : server'[q] = server[q]
      BY <1>1, <1>3, PutServer
    <2>2. TypeOK'
      BY <1>1, <1>3, <2>1 DEF TypeOK, Collected
    <2>3. \A k \in Children : Calm(k) /\ child'[k].pipe = child[k].pipe
      BY <1>3, CollectedCalm
    <2> QED
      BY <1>3, <2>1, <2>2, <2>3, OneServer
  <1>4. CASE server' = [server EXCEPT ![p] = r] /\ child' = ch
    <2>1. server'[p] = r
      BY <1>1, <1>2, <1>4, PutServer
    <2>2. \A k \in Children : Calm(k) /\ child'[k].pipe = child[k].pipe
      BY <1>4, CollectedCalm
    <2> QED
      BY <1>2, <1>3, <1>4, <2>1, <2>2, SameWorkServing
  <1>5. CASE /\ Blocked(p) /\ r.pc = "accept"
             /\ server' = [server EXCEPT ![p] = [r EXCEPT !.pc = "check"]] /\ child' = ch
    <2> DEFINE s == [r EXCEPT !.pc = "check"]
    <2>1. /\ s \in ServerRecords /\ s.pc = "check" /\ s.conn = server[p].conn
          /\ s.fds = server[p].fds
      BY <1>2 DEF ServerRecords, SameWork
    <2>2. server' = [server EXCEPT ![p] = s]
      BY <1>5
    <2> HIDE DEF s
    <2>3. server'[p] = s
      BY <1>1, <2>1, <2>2, PutServer
    <2>4. server[p].pc = "accept"
      BY <1>5 DEF SameWork
    <2>5. Stays(p) /\ Serving(p)' /\ OwnFds(p)'
      BY <1>1, <2>1, <2>3, <2>4 DEF Stays, Serving, OwnFds, Active, Early, Copying
    <2> QED
      BY <1>3, <1>5, <2>1, <2>2, <2>5
  <1>6. CASE /\ Blocked(p) /\ r.pc # "accept"
             /\ server' = [server EXCEPT ![p] = [Failed(r) EXCEPT !.fds = @ \ {"file", "pipe_r"}]]
             /\ child' = IF r.source \in Children THEN [ch EXCEPT ![r.source].ropen = FALSE] ELSE ch
    <2> DEFINE s == [Failed(r) EXCEPT !.fds = @ \ {"file", "pipe_r"}]
    <2>1. /\ Failed(r) \in ServerRecords /\ Failed(r).pc = "close" /\ Failed(r).result = "error"
          /\ Failed(r).conn = server[p].conn /\ Failed(r).fds = server[p].fds
      BY <1>2, FailedFacts DEF SameWork
    <2>2. /\ s \in ServerRecords /\ s.pc = "close" /\ s.result = "error"
          /\ s.conn = server[p].conn /\ s.fds = server[p].fds \ {"file", "pipe_r"}
      BY <2>1 DEF ServerRecords
    <2>3. server' = [server EXCEPT ![p] = s]
      BY <1>6
    <2> HIDE DEF s
    <2>4. server'[p] = s
      BY <1>1, <2>2, <2>3, PutServer
    <2>5. server[p].pc \in {"recv", "drained", "read", "write"}
      BY <1>6 DEF Blocked, SameWork
    <2>6. Collected(child')
      BY <1>6, RopenCollected
    <2>7. Stays(p) /\ Serving(p)'
      BY <1>1, <2>2, <2>4, <2>5, Closing DEF Active, Early, Copying
    <2>8. OwnFds(p)'
      BY <1>1, <2>2, <2>4, <2>5 DEF OwnFds, Active, Early, Copying
    <2> QED
      BY <1>3, <2>2, <2>3, <2>6, <2>7, <2>8
  <1> QED
    BY <1>4, <1>5, <1>6 DEF Return

\* A handler that goes on waiting changes nothing of the request.
LEMMA Waits ==
    ASSUME IInv, NEW p \in Servers, NEW r, SameWork(p, r), server' = [server EXCEPT ![p] = r],
           Collected(child'), UNCHANGED client, pending' \subseteq Servers \X {"STOP", "CHLD"}
    PROVE  IInv'
  <1>1. TypeOK /\ r \in ServerRecords
    BY DEF IInv, SameWork
  <1>2. /\ server'[p] = r /\ server' \in [Servers -> ServerRecords]
        /\ \A q \in Servers \ {p} : server'[q] = server[q]
    BY <1>1, PutServer
  <1>3. TypeOK'
    BY <1>1, <1>2 DEF TypeOK, Collected
  <1>4. \A k \in Children : Calm(k) /\ child'[k].pipe = child[k].pipe
    BY CollectedCalm
  <1>5. Stays(p) /\ Serving(p)' /\ OwnFds(p)'
    BY <1>2, <1>3, <1>4, SameWorkServing
  <1> QED
    BY <1>2, <1>3, <1>4, <1>5, OneServer

\* The globals of the handlers are no part of the request.
LEMMA GlobalsSameWork ==
    ASSUME TypeOK, NEW p \in Servers
    PROVE  /\ SameWork(p, [server[p] EXCEPT !.stop = TRUE])
           /\ SameWork(p, Stopped(p))
           /\ SameWork(p, [server[p] EXCEPT !.current = NoPid])
           /\ SameWork(p, [server[p] EXCEPT !.current = NoPid, !.waits = {}])
           /\ SameWork(p, [server[p] EXCEPT !.waits = @ \cup {"pid"}])
           /\ SameWork(p, [server[p] EXCEPT !.waits = @ \cup {"any"}])
  <1>1. server[p] \in ServerRecords
    BY DEF TypeOK
  <1> QED
    BY <1>1 DEF SameWork, Stopped, ServerRecords

LEMMA ReapFacts ==
    ASSUME TypeOK
    PROVE  /\ Collected(child)
           /\ \A p \in Servers : \A k : Collected(Reap(p, k))
  <1>1. Collected(child)
    BY DEF Collected, TypeOK
  <1> QED
    BY <1>1, ReapCollected DEF Reap, Zombies, Mine

LEMMA SignalHandlerWait ==
    ASSUME IInv, NEW p \in Servers, server[p].pc \notin {"off", "end"}, signal_handler_wait(p)
    PROVE  IInv'
  <1>1. TypeOK /\ pending' \subseteq Servers \X {"STOP", "CHLD"} /\ UNCHANGED client
    BY DEF IInv, TypeOK, signal_handler_wait
  <1>2. SameWork(p, Stopped(p))
    BY <1>1, GlobalsSameWork
  <1>3. ASSUME NEW j \in Zombies(p), Return(p, Stopped(p), [child EXCEPT ![j].state = "reaped"])
        PROVE  IInv'
    <2>1. Collected([child EXCEPT ![j].state = "reaped"])
      BY <1>1, ReapCollected DEF Zombies, Mine
    <2> QED
      BY <1>1, <1>2, <1>3, <2>1, ReturnStep
  <1>4. CASE Return(p, Stopped(p), child)
    BY <1>1, <1>2, <1>4, ReapFacts, ReturnStep
  <1> QED
    BY <1>3, <1>4 DEF signal_handler_wait

LEMMA SignalHandlerReaped ==
    ASSUME IInv, NEW p \in Servers, server[p].pc \notin {"off", "end"}, signal_handler_reaped(p)
    PROVE  IInv'
  <1> DEFINE r == [server[p] EXCEPT !.current = NoPid, !.waits = {}]
             ch == Reap(p, server[p].current)
  <1>1. TypeOK /\ pending' \subseteq Servers \X {"STOP", "CHLD"} /\ UNCHANGED client
    BY DEF IInv, TypeOK, signal_handler_reaped
  <1>2. Return(p, r, ch)
    BY DEF signal_handler_reaped
  <1>3. SameWork(p, r) /\ Collected(ch)
    BY <1>1, GlobalsSameWork, ReapFacts
  <1> HIDE DEF r, ch
  <1> QED
    BY <1>1, <1>2, <1>3, ReturnStep

LEMMA SignalHandlerChld ==
    ASSUME IInv, NEW p \in Servers, server[p].pc \notin {"off", "end"}, signal_handler_chld(p)
    PROVE  IInv'
  <1> DEFINE k      == server[p].current
             reaped == Reap(p, k)
             none   == [server[p] EXCEPT !.current = NoPid]
             wait   == [server[p] EXCEPT !.waits = @ \cup {"pid"}]
  <1>1. TypeOK /\ pending' \subseteq Servers \X {"STOP", "CHLD"} /\ UNCHANGED client
    BY DEF IInv, TypeOK, signal_handler_chld
  <1>2. /\ SameWork(p, none) /\ SameWork(p, wait) /\ SameWork(p, Stopped(p))
        /\ Collected(reaped) /\ Collected(child)
    BY <1>1, GlobalsSameWork, ReapFacts
  <1>3. \/ server' = [server EXCEPT ![p] = wait] /\ UNCHANGED child
        \/ Return(p, none, reaped)
        \/ server' = [server EXCEPT ![p] = none] /\ child' = reaped
        \/ Return(p, Stopped(p), reaped)
    BY <1>1 DEF signal_handler_chld, TypeOK
  <1> HIDE DEF k, reaped, none, wait
  <1>4. CASE server' = [server EXCEPT ![p] = wait] /\ UNCHANGED child
    <2>1. Collected(child')
      BY <1>2, <1>4
    <2> QED
      BY <1>1, <1>2, <1>4, <2>1, Waits
  <1>5. CASE server' = [server EXCEPT ![p] = none] /\ child' = reaped
    <2>1. Collected(child')
      BY <1>2, <1>5
    <2> QED
      BY <1>1, <1>2, <1>5, <2>1, Waits
  <1>6. CASE Return(p, none, reaped) \/ Return(p, Stopped(p), reaped)
    BY <1>1, <1>2, <1>6, ReturnStep
  <1> QED
    BY <1>3, <1>4, <1>5, <1>6

LEMMA EndedCalm ==
    ASSUME TypeOK, NEW j \in Children,
           \/ child'[j] = [child[j] EXCEPT !.state = "zombie", !.holds = {}, !.todo = 0]
           \/ child'[j] = [child[j] EXCEPT !.ropen = FALSE]
           \/ child'[j] = child[j]
    PROVE  child'[j] \in ChildRecords /\ Calm(j) /\ child'[j].pipe = child[j].pipe
  <1>1. child[j] \in ChildRecords /\ child[j].pipe \in Int /\ 0 \in Pieces
    BY PiecesFacts DEF TypeOK, ChildRecords
  <1>2. CASE child'[j] = [child[j] EXCEPT !.state = "zombie", !.holds = {}, !.todo = 0]
    <2>1. /\ child'[j] \in ChildRecords /\ child'[j].state = "zombie" /\ child'[j].holds = {}
          /\ child'[j].todo = 0 /\ child'[j].parent = child[j].parent
          /\ child'[j].written = child[j].written /\ child'[j].pipe = child[j].pipe
      BY <1>1, <1>2 DEF ChildRecords
    <2> QED
      BY <1>1, <2>1 DEF Calm
  <1>3. CASE child'[j] = [child[j] EXCEPT !.ropen = FALSE]
    <2>1. /\ child'[j] \in ChildRecords /\ child'[j].state = child[j].state
          /\ child'[j].holds = child[j].holds /\ child'[j].todo = child[j].todo
          /\ child'[j].parent = child[j].parent
          /\ child'[j].written = child[j].written /\ child'[j].pipe = child[j].pipe
      BY <1>1, <1>3 DEF ChildRecords
    <2> QED
      BY <1>1, <2>1 DEF Calm
  <1>4. CASE child'[j] = child[j]
    BY <1>1, <1>4 DEF Calm
  <1> QED
    BY <1>2, <1>3, <1>4

\* Killing child k, which may be a second server, ends its work and nothing else.
LEMMA Kill ==
    ASSUME IInv, NEW p \in Servers, server[p].pc \notin {"off", "end"}, NEW k \in Children,
           server' = [server EXCEPT ![p].waits = @ \cup {"any"},
                                    ![k] = [@ EXCEPT !.pc = "off", !.fds = {}]],
           child' = [j \in Children |->
                CASE j = k -> [child[k] EXCEPT !.state = "zombie", !.holds = {}, !.todo = 0]
                  [] child[j].parent = k -> [child[j] EXCEPT !.ropen = FALSE]
                  [] OTHER -> child[j]],
           UNCHANGED client, pending' \subseteq Servers \X {"STOP", "CHLD"}
    PROVE  IInv'
  <1>1. TypeOK /\ k \in Servers
    BY ChildrenAreServers DEF IInv
  <1>2. server[p] \in ServerRecords /\ server[k] \in ServerRecords
    BY <1>1 DEF TypeOK
  <1>3. /\ server' \in [Servers -> ServerRecords]
        /\ \A q \in Servers \ {p, k} : server'[q] = server[q]
        /\ server'[k].conn = server[k].conn /\ server'[k].result = server[k].result
        /\ server'[k].pc = "off" /\ server'[k].fds = {}
        /\ p # k => SameWork(p, server'[p])
    <2> DEFINE r  == [server[p] EXCEPT !.waits = @ \cup {"any"}]
               f  == [server EXCEPT ![p].waits = @ \cup {"any"}]
               rk == [server[k] EXCEPT !.pc = "off", !.fds = {}]
    <2>1. r \in ServerRecords /\ SameWork(p, r)
      BY <1>1, <1>2, GlobalsSameWork DEF SameWork
    <2>2. /\ rk \in ServerRecords /\ rk.pc = "off" /\ rk.fds = {}
          /\ rk.conn = server[k].conn /\ rk.result = server[k].result
      BY <1>2 DEF ServerRecords
    <2>3. f = [server EXCEPT ![p] = r]
      BY <1>1 DEF TypeOK
    <2>4. server' = [f EXCEPT ![k] = rk]
      OBVIOUS
    <2> HIDE DEF r, f, rk
    <2>5. f \in [Servers -> ServerRecords] /\ f[p] = r /\ \A q \in Servers \ {p} : f[q] = server[q]
      BY <1>1, <2>1, <2>3 DEF TypeOK
    <2>6. /\ server' \in [Servers -> ServerRecords] /\ server'[k] = rk
          /\ \A q \in Servers \ {k} : server'[q] = f[q]
      BY <1>1, <2>2, <2>4, <2>5
    <2> QED
      BY <2>1, <2>2, <2>5, <2>6
  <1>4. ASSUME NEW j \in Children
        PROVE  child'[j] \in ChildRecords /\ Calm(j) /\ child'[j].pipe = child[j].pipe
    <2>1. \/ j = k /\ child'[j] = [child[k] EXCEPT !.state = "zombie", !.holds = {}, !.todo = 0]
          \/ child'[j] = [child[j] EXCEPT !.ropen = FALSE]
          \/ child'[j] = child[j]
      OBVIOUS
    <2> QED
      BY <1>1, <2>1, EndedCalm
  <1>5. TypeOK'
    <2>1. child' \in [Children -> ChildRecords]
      BY <1>4
    <2> QED
      BY <1>1, <1>3, <2>1 DEF TypeOK
  <1>6. Serving(k)' /\ OwnFds(k)' /\ Stays(k)
    BY <1>3 DEF Serving, OwnFds, Stays, Active, Early, Copying
  <1>7. p # k => Serving(p)' /\ OwnFds(p)' /\ Stays(p)
    BY <1>3, <1>4, <1>5, SameWorkServing
  <1>8. \A q \in Servers \ {p, k} : server'[q] = server[q] /\ Stays(q) /\ FullPipes(q)
    BY <1>3, <1>4 DEF Stays, FullPipes
  <1>9. \A q \in Servers : Stays(q)
    BY <1>6, <1>7, <1>8
  <1>10. \A q \in Servers : \/ server'[q] = server[q] /\ FullPipes(q)
                            \/ Serving(q)' /\ OwnFds(q)'
    BY <1>6, <1>7, <1>8
  <1> QED
    BY <1>4, <1>5, <1>9, <1>10, StepWithin

LEMMA SignalHandlerStop ==
    ASSUME IInv, NEW p \in Servers, server[p].pc \notin {"off", "end"}, signal_handler_stop(p)
    PROVE  IInv'
  <1>1. TypeOK /\ pending \subseteq Servers \X {"STOP", "CHLD"} /\ UNCHANGED client
    BY DEF IInv, TypeOK, signal_handler_stop
  <1>2. server[p].current \in Children \cup {NoPid}
    BY <1>1 DEF TypeOK, ServerRecords
  <1>3. CASE server[p].current = NoPid
    <2>1. /\ Return(p, [server[p] EXCEPT !.stop = TRUE], child)
          /\ pending' \subseteq Servers \X {"STOP", "CHLD"}
      BY <1>1, <1>3 DEF signal_handler_stop
    <2>2. SameWork(p, [server[p] EXCEPT !.stop = TRUE]) /\ Collected(child)
      BY <1>1, GlobalsSameWork, ReapFacts
    <2> QED
      BY <1>1, <2>1, <2>2, ReturnStep
  <1>4. CASE server[p].current # NoPid
    <2>1. PICK k \in Children : k = server[p].current
      BY <1>2, <1>4
    <2>2. pending' \subseteq Servers \X {"STOP", "CHLD"}
      BY <1>1, <1>4 DEF signal_handler_stop
    <2> QED
      BY <1>1, <1>4, <2>1, <2>2, Kill DEF signal_handler_stop
  <1> QED
    BY <1>3, <1>4

LEMMA HandleStep ==
    ASSUME IInv, NEW p \in Servers, Handle(p)
    PROVE  IInv'
  BY SignalHandlerStop, SignalHandlerWait, SignalHandlerChld, SignalHandlerReaped DEF Handle

-----------------------------------------------------------------------------
(* The forked processes, the clients and the user *)

\* A step outside the servers, which changes no answer and no pipe's account.
LEMMA Outside ==
    ASSUME IInv, TypeOK', UNCHANGED server, Lasting,
           \A d \in Conns : /\ SameAnswer(d) /\ client'[d].result = client[d].result
                            /\ client'[d].state \in {"new", "queued"} =>
                                 client[d].state \in {"new", "queued"},
           \A k \in Children : child[k].state # "unused" => SamePipe(k),
           \A k \in Children : Family(k)'
    PROVE  IInv'
  <1>1. TypeOK /\ NewConns /\ Alone /\ HonestSuccess
    BY DEF IInv
  <1>2. NewConns'
    <2> SUFFICES ASSUME NEW d \in Conns, client'[d].state \in {"new", "queued"}
                 PROVE  Untouched(d)' /\ \A q \in Servers : server'[q].conn # d
      BY DEF NewConns
    <2>1. Untouched(d) /\ \A q \in Servers : server[q].conn # d
      BY <1>1 DEF NewConns
    <2> QED
      BY <2>1 DEF Untouched, SameAnswer
  <1>3. Alone'
    <2>1. \A q \in Servers : Stays(q)
      BY DEF Stays
    <2> QED
      BY <1>1, <2>1, AloneKept
  <1>4. HonestSuccess'
    <2> SUFFICES ASSUME NEW d \in Conns, client'[d].result = "ok"
                 PROVE  Answered(d)'
      BY DEF HonestSuccess
    <2>1. Answered(d)
      BY <1>1 DEF HonestSuccess
    <2> QED
      BY <1>1, <2>1, AnsweredKept
  <1>5. ASSUME NEW q \in Servers
        PROVE  Serving(q)' /\ OwnFds(q)'
    <2>1. Serving(q) /\ OwnFds(q)
      BY DEF IInv
    <2>2. OwnFds(q)'
      BY <2>1 DEF OwnFds
    <2>3. server[q].pc \in Active => server[q].conn \in Conns
      BY <2>1 DEF Serving
    <2> QED
      BY <1>1, <2>1, <2>2, <2>3, ServingKept
  <1> QED
    BY <1>2, <1>3, <1>4, <1>5 DEF IInv

\* A step of child k alone.
LEMMA ChildMoves ==
    ASSUME IInv, UNCHANGED <<client, server>>, NEW k \in Children, NEW ch \in ChildRecords,
           child' = [child EXCEPT ![k] = ch], pending' \subseteq Servers \X {"STOP", "CHLD"},
           ch.parent = child[k].parent, ch.state \notin {"unused", "fresh"},
           ch.written - ch.pipe = child[k].written - child[k].pipe,
           Silent(k) => ch.todo = 0 /\ ch.written = child[k].written,
           server[k].pc = "off" \/ ch.state # "running",
           ch.todo > 0 => ch.state \in {"running", "server"} /\ k \in ch.holds,
           ch.written + ch.todo \in Pieces
    PROVE  IInv'
  <1>1. TypeOK
    BY DEF IInv
  <1>2. /\ child'[k] = ch /\ child' \in [Children -> ChildRecords]
        /\ \A j \in Children \ {k} : child'[j] = child[j]
    BY <1>1, PutChild
  <1>3. TypeOK'
    BY <1>1, <1>2 DEF TypeOK
  <1>4. Lasting
    BY <1>2 DEF Lasting, Silent
  <1>5. \A j \in Children : child[j].state # "unused" => SamePipe(j)
    BY <1>2 DEF SamePipe
  <1>6. ASSUME NEW j \in Children
        PROVE  Family(j)'
    <2>1. CASE j = k
      BY <1>2, <2>1 DEF Family
    <2>2. CASE j # k
      BY <1>2, <2>2 DEF IInv, Family, Request
    <2> QED
      BY <2>1, <2>2
  <1>7. \A d \in Conns : /\ SameAnswer(d) /\ client'[d].result = client[d].result
                         /\ client'[d].state = client[d].state
    BY DEF SameAnswer
  <1> QED
    BY <1>3, <1>4, <1>5, <1>6, <1>7, Outside

LEMMA ChildWrite ==
    ASSUME IInv, NEW k \in Children, child_write(k)
    PROVE  IInv'
  <1>1. TypeOK /\ Family(k) /\ child[k].state \in {"running", "server"} /\ child[k].todo > 0
    BY DEF IInv, child_write
  <1>2. /\ UNCHANGED <<client, server>> /\ pending' \subseteq Servers \X {"STOP", "CHLD"}
    BY <1>1 DEF child_write, TypeOK
  <1>3. /\ child[k] \in ChildRecords /\ child[k].todo \in Pieces /\ child[k].written \in Pieces
        /\ child[k].pipe \in 0 .. PipeCap
    BY <1>1 DEF TypeOK, ChildRecords
  <1>4. child[k].todo \in Nat /\ child[k].written \in Nat /\ child[k].pipe \in Int
    BY <1>3, PiecesAreInts
  <1>5. /\ child[k].state = "running" => server[k].pc = "off"
        /\ k \in child[k].holds /\ child[k].written + child[k].todo \in Pieces
    BY <1>1 DEF Family
  <1>6. CASE /\ child[k].pipe < PipeCap
             /\ child' = [child EXCEPT ![k].todo = @ - 1, ![k].pipe = @ + 1, ![k].written = @ + 1]
    <2> DEFINE ch == [child[k] EXCEPT !.todo = @ - 1, !.pipe = @ + 1, !.written = @ + 1]
    <2>1. /\ child[k].todo - 1 \in Nat /\ child[k].todo - 1 <= child[k].todo
          /\ child[k].written + 1 \in Nat
          /\ child[k].written + 1 <= child[k].written + child[k].todo
      BY <1>1, <1>4
    <2>2. child[k].todo - 1 \in Pieces /\ child[k].written + 1 \in Pieces
      BY <1>3, <1>5, <2>1, PiecesFacts
    <2>3. child[k].pipe + 1 \in 0 .. PipeCap
      BY <1>3, <1>6, Counting
    <2>4. /\ ch \in ChildRecords /\ ch.parent = child[k].parent /\ ch.state = child[k].state
          /\ ch.todo = child[k].todo - 1 /\ ch.pipe = child[k].pipe + 1
          /\ ch.written = child[k].written + 1 /\ ch.holds = child[k].holds
      BY <1>1, <1>3, <2>2, <2>3 DEF ChildRecords
    <2>5. child' = [child EXCEPT ![k] = ch]
      BY <1>1, <1>6 DEF TypeOK, ChildRecords
    <2> HIDE DEF ch
    <2>6. /\ ch.written - ch.pipe = child[k].written - child[k].pipe
          /\ ch.written + ch.todo = child[k].written + child[k].todo
      BY <1>4, <2>4
    <2>7. ~Silent(k)
      BY <1>1, <1>4 DEF Silent
    <2> QED
      BY <1>1, <1>2, <1>5, <2>4, <2>5, <2>6, <2>7, ChildMoves
  <1>7. CASE child' = [child EXCEPT ![k].todo = 0]
    <2> DEFINE ch == [child[k] EXCEPT !.todo = 0]
    <2>1. /\ ch \in ChildRecords /\ ch.parent = child[k].parent /\ ch.state = child[k].state
          /\ ch.todo = 0 /\ ch.pipe = child[k].pipe
          /\ ch.written = child[k].written /\ ch.holds = child[k].holds
      BY <1>1, <1>3, PiecesFacts DEF ChildRecords
    <2>2. child' = [child EXCEPT ![k] = ch]
      BY <1>1, <1>7 DEF TypeOK
    <2> HIDE DEF ch
    <2>3. ch.written + ch.todo \in Pieces /\ ~(ch.todo > 0)
      BY <1>3, <1>4, <2>1
    <2> QED
      BY <1>1, <1>2, <1>5, <2>1, <2>2, <2>3, ChildMoves
  <1> QED
    BY <1>6, <1>7 DEF child_write

LEMMA ChildClose ==
    ASSUME IInv, NEW k \in Children, child_close(k)
    PROVE  IInv'
  <1>1. /\ TypeOK /\ Family(k) /\ child[k].state = "running" /\ child[k].todo = 0
        /\ k \in Servers /\ UNCHANGED <<client, pending>>
    BY ChildrenAreServers DEF IInv, child_close
  <1>2. child[k] \in ChildRecords /\ server[k] \in ServerRecords /\ server[k].pc = "off"
    BY <1>1 DEF TypeOK, Family
  <1> DEFINE r  == [server[k] EXCEPT !.fds = {}]
             ch == [child[k] EXCEPT !.holds = {}]
  <1>3. /\ r \in ServerRecords /\ r.pc = "off" /\ r.fds = {} /\ r.conn = server[k].conn
        /\ r.result = server[k].result
    BY <1>2 DEF ServerRecords
  <1>4. /\ ch \in ChildRecords /\ ch.parent = child[k].parent /\ ch.state = "running"
        /\ ch.todo = 0 /\ ch.pipe = child[k].pipe /\ ch.written = child[k].written
    BY <1>1, <1>2 DEF ChildRecords
  <1>5. server' = [server EXCEPT ![k] = r] /\ child' = [child EXCEPT ![k] = ch]
    BY <1>1 DEF child_close, TypeOK
  <1> HIDE DEF r, ch
  <1>6. /\ server'[k] = r /\ server' \in [Servers -> ServerRecords]
        /\ \A q \in Servers \ {k} : server'[q] = server[q]
    BY <1>1, <1>3, <1>5, PutServer
  <1>7. /\ child'[k] = ch /\ child' \in [Children -> ChildRecords]
        /\ \A j \in Children \ {k} : child'[j] = child[j]
    BY <1>1, <1>4, <1>5, PutChild
  <1>8. TypeOK'
    BY <1>1, <1>6, <1>7 DEF TypeOK
  <1>9. Stays(k) /\ Serving(k)' /\ OwnFds(k)'
    BY <1>2, <1>3, <1>6 DEF Stays, Serving, OwnFds, Active, Early, Copying
  <1>10. ASSUME NEW j \in Children
         PROVE  Calm(j) /\ child'[j].pipe = child[j].pipe
    <2>1. child[j].pipe \in Int
      BY <1>1 DEF TypeOK, ChildRecords
    <2> QED
      BY <1>1, <1>4, <1>7, <2>1 DEF Calm
  <1> QED
    BY <1>1, <1>6, <1>8, <1>9, <1>10, OneServer

LEMMA ChildExit ==
    ASSUME IInv, NEW k \in Children, child_exit(k)
    PROVE  IInv'
  <1>1. /\ TypeOK /\ Family(k) /\ child[k].state = "running" /\ child[k].holds = {}
        /\ UNCHANGED <<client, server>>
    BY DEF IInv, child_exit
  <1>2. child[k] \in ChildRecords
    BY <1>1 DEF TypeOK
  <1>3. /\ child[k].todo \in Nat /\ child[k].written \in Nat /\ child[k].pipe \in Int
        /\ child[k].parent \in Servers
    BY <1>2, PiecesAreInts DEF ChildRecords
  <1>4. child[k].todo = 0
    BY <1>1, <1>3 DEF Family
  <1> DEFINE unseen == server[child[k].parent].current # k
             ch     == [child[k] EXCEPT !.state = "zombie", !.missed = unseen]
  <1>5. unseen \in BOOLEAN /\ child' = [child EXCEPT ![k].state = "zombie", ![k].missed = unseen]
    BY DEF child_exit
  <1> HIDE DEF unseen
  <1>6. /\ ch \in ChildRecords /\ ch.parent = child[k].parent /\ ch.state = "zombie"
        /\ ch.todo = 0 /\ ch.pipe = child[k].pipe /\ ch.written = child[k].written
    BY <1>2, <1>4, <1>5 DEF ChildRecords
  <1>7. child' = [child EXCEPT ![k] = ch]
    BY <1>1, <1>5 DEF TypeOK, ChildRecords
  <1> HIDE DEF ch
  <1>8. pending' \subseteq Servers \X {"STOP", "CHLD"}
    BY <1>1, <1>3 DEF child_exit, TypeOK
  <1>9. /\ ch.written + ch.todo \in Pieces /\ ~(ch.todo > 0)
        /\ ch.written - ch.pipe = child[k].written - child[k].pipe
    BY <1>1, <1>3, <1>4, <1>6 DEF Family
  <1> QED
    BY <1>1, <1>6, <1>7, <1>8, <1>9, ChildMoves

\* execl has failed: the child is a second server, which closes the connection.
LEMMA SecondServer ==
    ASSUME IInv, NEW k \in Children, child[k].state = "fresh", Request(k) # "cgi",
           child' = [child EXCEPT ![k].state = "server", ![k].todo = 1],
           server' = [server EXCEPT ![k].pc = "close"], UNCHANGED <<client, pending>>
    PROVE  IInv'
  <1>1. /\ TypeOK /\ NewConns /\ Alone /\ HonestSuccess /\ Family(k) /\ OwnFds(k)
        /\ k \in Servers /\ k # 0
    BY ChildrenAreServers DEF IInv
  <1>2. child[k] \in ChildRecords /\ server[k] \in ServerRecords /\ child[k].written \in Nat
    BY <1>1, PiecesAreInts DEF TypeOK, ChildRecords
  <1>3. /\ server[k].pc = "off" /\ server[k].conn \in Conns /\ server[k].result = "error"
        /\ child[k].written = 0 /\ k \in child[k].holds
    BY <1>1 DEF Family
  <1> DEFINE r  == [server[k] EXCEPT !.pc = "close"]
             ch == [child[k] EXCEPT !.state = "server", !.todo = 1]
  <1>4. /\ r \in ServerRecords /\ r.pc = "close" /\ r.fds = server[k].fds
        /\ r.conn = server[k].conn /\ r.result = "error"
    BY <1>2, <1>3 DEF ServerRecords
  <1>5. /\ ch \in ChildRecords /\ ch.parent = child[k].parent /\ ch.state = "server"
        /\ ch.todo = 1 /\ ch.pipe = child[k].pipe /\ ch.written = child[k].written
        /\ ch.holds = child[k].holds
    BY <1>2, PiecesFacts DEF ChildRecords
  <1>6. server' = [server EXCEPT ![k] = r] /\ child' = [child EXCEPT ![k] = ch]
    BY <1>1 DEF TypeOK, ChildRecords
  <1> HIDE DEF r, ch
  <1>7. /\ server'[k] = r /\ server' \in [Servers -> ServerRecords]
        /\ \A q \in Servers \ {k} : server'[q] = server[q]
    BY <1>1, <1>4, <1>6, PutServer
  <1>8. /\ child'[k] = ch /\ child' \in [Children -> ChildRecords]
        /\ \A j \in Children \ {k} : child'[j] = child[j]
    BY <1>1, <1>5, <1>6, PutChild
  <1>9. TypeOK'
    BY <1>1, <1>7, <1>8 DEF TypeOK
  <1>10. Lasting
    BY <1>8 DEF Lasting, Silent
  <1>11. \A d \in Conns : SameAnswer(d)
    BY DEF SameAnswer
  <1>12. NewConns'
    BY <1>1, <1>4, <1>7 DEF NewConns, Untouched
  <1>13. Alone'
    <2> SUFFICES ASSUME NEW q1 \in Servers, NEW q2 \in Servers,
                        q1 # q2, server'[q1].conn = server'[q2].conn
                 PROVE  /\ server'[q1].pc \notin Early
                        /\ server'[q1].pc \in Active /\ server'[q2].pc \in Active =>
                             \E e \in {q1, q2} :
                                server'[e].pc = "close" /\ server'[e].result = "error"
      BY DEF Alone
    <2>1. \A q \in Servers : server'[q].conn = server[q].conn
      BY <1>4, <1>7
    <2>2. /\ server[q1].pc \notin Early
          /\ server[q1].pc \in Active /\ server[q2].pc \in Active =>
               \E e \in {q1, q2} : server[e].pc = "close" /\ server[e].result = "error"
      <3>1. Alone /\ server[q1].conn = server[q2].conn
        BY <1>1, <2>1
      <3> QED
        BY ONLY <3>1, q1 \in Servers, q2 \in Servers, q1 # q2 DEF Alone
    <2>3. CASE q1 = k \/ q2 = k
      <3>1. server'[q1].pc \notin Early
        BY <1>4, <1>7, <2>2 DEF Early
      <3> QED
        BY <1>4, <1>7, <2>3, <3>1
    <2>4. CASE q1 # k /\ q2 # k
      BY <1>7, <2>2, <2>4
    <2> QED
      BY <2>3, <2>4
  <1>14. HonestSuccess'
    <2> SUFFICES ASSUME NEW d \in Conns, client'[d].result = "ok"
                 PROVE  Answered(d)'
      BY DEF HonestSuccess
    <2>1. Answered(d)
      BY <1>1 DEF HonestSuccess
    <2> QED
      BY <1>1, <1>10, <1>11, <2>1, AnsweredKept
  <1>15. Serving(k)' /\ OwnFds(k)'
    BY <1>1, <1>3, <1>4, <1>7 DEF Serving, OwnFds, Request, Active, Early, Copying
  <1>16. ASSUME NEW q \in Servers, q # k
         PROVE  Serving(q)' /\ OwnFds(q)'
    <2>1. server'[q] = server[q] /\ Serving(q) /\ OwnFds(q)
      BY <1>7, <1>16 DEF IInv
    <2>2. OwnFds(q)'
      BY <2>1 DEF OwnFds
    <2>3. \A j \in Children : child[j].parent = q /\ child[j].state # "unused" => SamePipe(j)
      BY <1>5, <1>8 DEF SamePipe
    <2>4. server[q].pc \in Active => SameAnswer(server[q].conn)
      BY <1>11, <2>1 DEF Serving
    <2> QED
      BY <1>1, <1>9, <1>10, <2>1, <2>2, <2>3, <2>4, ServingKept
  <1>17. ASSUME NEW j \in Children
         PROVE  Family(j)'
    <2>1. CASE j = k
      <3>1. ch.written + ch.todo \in Pieces
        BY <1>3, <1>5, PiecesFacts
      <3> QED
        BY <1>3, <1>5, <1>8, <2>1, <3>1 DEF Family
    <2>2. CASE j # k
      <3>1. Family(j) /\ child'[j] = child[j] /\ server'[j] = server[j]
        BY <1>7, <1>8, <2>2, ChildrenAreServers DEF IInv
      <3> QED
        BY <3>1 DEF Family, Request
    <2> QED
      BY <2>1, <2>2
  <1> QED
    BY <1>9, <1>12, <1>13, <1>14, <1>15, <1>16, <1>17 DEF IInv

LEMMA ChildExec ==
    ASSUME IInv, NEW k \in Children, child_exec(k)
    PROVE  IInv'
  <1>1. /\ TypeOK /\ Family(k) /\ child[k].state = "fresh" /\ UNCHANGED <<client, pending>>
    BY DEF IInv, child_exec
  <1>2. CASE Request(k) = "cgi"
    <2>1. PICK out \in Outputs :
            child' = [child EXCEPT ![k].state = "running", ![k].todo = out]
      BY <1>2 DEF child_exec, Request
    <2>2. UNCHANGED server
      BY <1>2 DEF child_exec, Request
    <2> DEFINE ch == [child[k] EXCEPT !.state = "running", !.todo = out]
    <2>3. child[k] \in ChildRecords /\ out \in Pieces /\ out \in Nat
      BY <1>1, PiecesFacts DEF TypeOK
    <2>4. /\ ch \in ChildRecords /\ ch.parent = child[k].parent /\ ch.state = "running"
          /\ ch.todo = out /\ ch.pipe = child[k].pipe /\ ch.written = child[k].written
          /\ ch.holds = child[k].holds
      BY <2>3 DEF ChildRecords
    <2>5. child' = [child EXCEPT ![k] = ch]
      BY <1>1, <2>1 DEF TypeOK, ChildRecords
    <2> HIDE DEF ch
    <2>6. child[k].written = 0 /\ server[k].pc = "off" /\ k \in child[k].holds
      BY <1>1 DEF Family
    <2>7. ch.written + ch.todo \in Pieces /\ ~Silent(k)
      BY <1>1, <2>3, <2>4, <2>6 DEF Silent
    <2>8. ch.written - ch.pipe = child[k].written - child[k].pipe
      BY <2>4
    <2>9. pending' \subseteq Servers \X {"STOP", "CHLD"}
      BY <1>1 DEF TypeOK
    <2> QED
      BY <1>1, <2>2, <2>4, <2>5, <2>6, <2>7, <2>8, <2>9, ChildMoves
  <1>3. CASE Request(k) # "cgi"
    BY <1>1, <1>3, SecondServer DEF child_exec, Request
  <1> QED
    BY <1>2, <1>3

LEMMA ProgramStep ==
    ASSUME IInv, NEW k \in Children, Program(k)
    PROVE  IInv'
  BY ChildExec, ChildWrite, ChildClose, ChildExit DEF Program

\* A client connects, reads or leaves: what it is answered stays the same.
LEMMA ClientMoves ==
    ASSUME IInv, UNCHANGED <<server, child, pending>>, NEW c \in Conns, NEW cl \in ClientRecords,
           client' = [client EXCEPT ![c] = cl], cl.request = client[c].request,
           cl.body = client[c].body, cl.changed = client[c].changed, cl.script = client[c].script,
           cl.result = client[c].result, client[c].gone => cl.gone,
           cl.state \in {"new", "queued"} => client[c].state \in {"new", "queued"}
    PROVE  IInv'
  <1>1. TypeOK
    BY DEF IInv
  <1>2. /\ client'[c] = cl /\ client' \in [Conns -> ClientRecords]
        /\ \A d \in Conns \ {c} : client'[d] = client[d]
    BY <1>1, PutClient
  <1>3. TypeOK'
    BY <1>1, <1>2 DEF TypeOK
  <1>4. \A d \in Conns : /\ SameAnswer(d) /\ client'[d].result = client[d].result
                         /\ client'[d].state \in {"new", "queued"} =>
                              client[d].state \in {"new", "queued"}
    BY <1>2 DEF SameAnswer
  <1>5. Lasting /\ \A k \in Children : SamePipe(k) \/ child[k].state = "unused"
    BY DEF Lasting, Silent, SamePipe
  <1>6. ASSUME NEW k \in Children
        PROVE  Family(k)'
    <2>1. Family(k)
      BY DEF IInv
    <2> QED
      BY <1>4, <2>1 DEF Family, Request, SameAnswer
  <1> QED
    BY <1>3, <1>4, <1>5, <1>6, Outside

LEMMA Connect ==
    ASSUME IInv, NEW c \in Conns, client_connect(c)
    PROVE  IInv'
  <1>1. TypeOK /\ client[c] \in ClientRecords /\ client[c].state = "new"
    BY DEF IInv, TypeOK, client_connect
  <1> DEFINE cl == [client[c] EXCEPT !.state = "queued"]
  <1>2. /\ cl \in ClientRecords /\ cl.body = client[c].body /\ cl.request = client[c].request
        /\ cl.result = client[c].result /\ cl.changed = client[c].changed
        /\ cl.script = client[c].script /\ cl.gone = client[c].gone
    BY <1>1 DEF ClientRecords
  <1>3. client' = [client EXCEPT ![c] = cl] /\ UNCHANGED <<server, child, pending>>
    BY <1>1 DEF client_connect, TypeOK
  <1> HIDE DEF cl
  <1> QED
    BY <1>1, <1>2, <1>3, ClientMoves

LEMMA Read ==
    ASSUME IInv, NEW c \in Conns, client_read(c)
    PROVE  IInv'
  <1>1. TypeOK /\ client[c] \in ClientRecords /\ client[c].unread > 0
    BY DEF IInv, TypeOK, client_read
  <1>2. client[c].unread - 1 \in 0 .. SockCap
    BY <1>1, Counting DEF ClientRecords
  <1> DEFINE cl == [client[c] EXCEPT !.unread = @ - 1]
  <1>3. /\ cl \in ClientRecords /\ cl.body = client[c].body /\ cl.request = client[c].request
        /\ cl.result = client[c].result /\ cl.changed = client[c].changed
        /\ cl.script = client[c].script /\ cl.gone = client[c].gone /\ cl.state = client[c].state
    BY <1>1, <1>2 DEF ClientRecords
  <1>4. client' = [client EXCEPT ![c] = cl] /\ UNCHANGED <<server, child, pending>>
    BY <1>1 DEF client_read, TypeOK
  <1> HIDE DEF cl
  <1> QED
    BY <1>3, <1>4, ClientMoves

LEMMA Leave ==
    ASSUME IInv, NEW c \in Conns, client_leave(c)
    PROVE  IInv'
  <1>1. TypeOK /\ client[c] \in ClientRecords
    BY DEF IInv, TypeOK
  <1> DEFINE cl == [client[c] EXCEPT !.gone = TRUE]
  <1>2. /\ cl \in ClientRecords /\ cl.body = client[c].body /\ cl.request = client[c].request
        /\ cl.result = client[c].result /\ cl.changed = client[c].changed
        /\ cl.script = client[c].script /\ cl.gone /\ cl.state = client[c].state
    BY <1>1 DEF ClientRecords
  <1>3. client' = [client EXCEPT ![c] = cl] /\ UNCHANGED <<server, child, pending>>
    BY <1>1 DEF client_leave, TypeOK
  <1> HIDE DEF cl
  <1> QED
    BY <1>2, <1>3, ClientMoves

\* The request arrives while no answer to it exists, whoever has the connection.
LEMMA Send ==
    ASSUME IInv, NEW c \in Conns, client_send(c)
    PROVE  IInv'
  <1>1. TypeOK /\ NewConns /\ Alone /\ HonestSuccess
    BY DEF IInv
  <1>2. /\ client[c] \in ClientRecords /\ client[c].request = "none"
        /\ UNCHANGED <<server, child, pending>>
    BY <1>1 DEF TypeOK, client_send
  <1>3. PICK kind \in Kinds : client' = [client EXCEPT ![c].request = kind]
    BY DEF client_send
  <1> DEFINE cl == [client[c] EXCEPT !.request = kind]
  <1>4. /\ cl \in ClientRecords /\ cl.body = client[c].body /\ cl.request # "none"
        /\ cl.result = client[c].result /\ cl.changed = client[c].changed
        /\ cl.script = client[c].script /\ cl.gone = client[c].gone /\ cl.state = client[c].state
    BY <1>2, HttpAssumption DEF ClientRecords, AllKinds
  <1>5. client' = [client EXCEPT ![c] = cl]
    BY <1>1, <1>3 DEF TypeOK
  <1> HIDE DEF cl
  <1>6. /\ client'[c] = cl /\ client' \in [Conns -> ClientRecords]
        /\ \A d \in Conns \ {c} : client'[d] = client[d]
    BY <1>1, <1>4, <1>5, PutClient
  <1>7. TypeOK'
    BY <1>1, <1>2, <1>6 DEF TypeOK
  <1>8. Lasting /\ \A d \in Conns \ {c} : SameAnswer(d) /\ client'[d].result = client[d].result
    BY <1>2, <1>6 DEF Lasting, Silent, SameAnswer
  <1>9. ~Answered(c)
    BY <1>2 DEF Answered
  <1>10. NewConns'
    BY <1>1, <1>2, <1>4, <1>6 DEF NewConns, Untouched
  <1>11. ASSUME NEW q \in Servers, server[q].pc \in Active
         PROVE  server[q].conn \in Conns
    BY <1>11 DEF IInv, Serving
  <1>12. Alone'
    <2>1. \A q \in Servers : Stays(q)
      BY <1>2 DEF Stays
    <2> QED
      BY <1>1, <2>1, AloneKept
  <1>13. HonestSuccess'
    <2> SUFFICES ASSUME NEW d \in Conns, client'[d].result = "ok"
                 PROVE  Answered(d)'
      BY DEF HonestSuccess
    <2>1. d # c
      BY <1>1, <1>4, <1>6, <1>9 DEF HonestSuccess
    <2>2. Answered(d)
      BY <1>1, <1>8, <2>1 DEF HonestSuccess
    <2> QED
      BY <1>1, <1>8, <2>1, <2>2, AnsweredKept
  <1>14. ASSUME NEW q \in Servers
         PROVE  Serving(q)' /\ OwnFds(q)'
    <2>1. Serving(q) /\ OwnFds(q) /\ server'[q] = server[q]
      BY <1>2 DEF IInv
    <2>2. OwnFds(q)'
      BY <2>1 DEF OwnFds
    <2>3. CASE server[q].pc \in Active /\ server[q].conn = c
      <3>1. Request(q) = "none"
        BY <1>2, <2>3 DEF Request
      <3>2. server[q].pc \notin Copying
        <4>1. server[q].source \in {NoSource, File} \cup Children
          BY <1>1 DEF TypeOK, ServerRecords
        <4> QED
          BY <2>1, <2>3, <3>1, <4>1 DEF Serving, FromFile, FromChild, FromNothing, Request
      <3>3. server[q].pc # "close" => client[c].result # "ok"
        BY <2>1, <2>3 DEF Serving
      <3>4. server[q].pc = "recv" \/ (server[q].pc = "close" /\ server[q].result # "ok")
        BY <1>9, <2>1, <2>3, <3>1, <3>2 DEF Serving, Active, Early
      <3>5. server[q].pc = "recv" => Untouched(c)
        BY <2>1, <2>3 DEF Serving, Early
      <3> QED
        BY <1>4, <1>6, <2>1, <2>2, <2>3, <3>3, <3>4, <3>5
           DEF Serving, Untouched, Active, Early, Copying
    <2>4. CASE ~(server[q].pc \in Active /\ server[q].conn = c)
      <3>1. server[q].pc \in Active =>
              /\ SameAnswer(server[q].conn)
              /\ client'[server[q].conn].result = client[server[q].conn].result
        BY <1>8, <1>11, <2>4
      <3>2. \A k \in Children : child[k].parent = q /\ child[k].state # "unused" => SamePipe(k)
        BY <1>2 DEF SamePipe
      <3> QED
        BY <1>1, <1>7, <1>8, <2>1, <2>2, <3>1, <3>2, ServingKept
    <2> QED
      BY <2>3, <2>4
  <1>15. ASSUME NEW k \in Children
         PROVE  Family(k)'
    <2>1. Family(k)
      BY DEF IInv
    <2>2. child[k].state = "fresh" => server[k].conn \in Conns /\ server[k].conn # c
      BY <1>2, <2>1 DEF Family, Request
    <2> QED
      BY <1>2, <1>6, <2>1, <2>2 DEF Family, Request
  <1> QED
    BY <1>7, <1>10, <1>12, <1>13, <1>14, <1>15 DEF IInv

LEMMA Signals ==
    ASSUME IInv, UNCHANGED <<client, server, child>>,
           pending' \subseteq Servers \X {"STOP", "CHLD"}
    PROVE  IInv'
  <1>1. TypeOK /\ TypeOK'
    BY DEF IInv, TypeOK
  <1>2. Lasting /\ \A k \in Children : SamePipe(k) \/ child[k].state = "unused"
    BY DEF Lasting, Silent, SamePipe
  <1>3. \A d \in Conns : SameAnswer(d)
    BY DEF SameAnswer
  <1>4. \A k \in Children : Family(k)'
    BY DEF IInv, Family, Request
  <1> QED
    BY <1>1, <1>2, <1>3, <1>4, Outside

LEMMA NextIInv == IInv /\ [Next]_vars => IInv'
  <1> SUFFICES ASSUME IInv, [Next]_vars PROVE IInv'
    OBVIOUS
  <1>1. CASE System
    BY <1>1, ServeStep, HandleStep, ProgramStep, Send, Read DEF System, Client
  <1>2. ASSUME NEW c \in Conns, client_connect(c) \/ client_leave(c)
        PROVE  IInv'
    BY <1>2, Connect, Leave
  <1>3. CASE user_stop
    <2>1. pending' \subseteq Servers \X {"STOP", "CHLD"}
      BY <1>3, ChildrenAreServers DEF user_stop, IInv, TypeOK
    <2> QED
      BY <1>3, <2>1, Signals DEF user_stop
  <1>4. CASE UNCHANGED vars
    BY <1>4, Signals DEF vars, IInv, TypeOK
  <1> QED
    BY <1>1, <1>2, <1>3, <1>4 DEF Next

\* The account of every piece of an answer, and of who may touch a connection,
\* a pipe and a descriptor, is right in every reachable state.
THEOREM Inductive == Spec => []IInv
  <1>1. Init => IInv
    BY InitIInv
  <1>2. IInv /\ [Next]_vars => IInv'
    BY NextIInv
  <1> QED
    BY <1>1, <1>2, PTL DEF Spec

\* Connections, server processes, forked processes and signals keep the shape
\* the code gives them: no buffer, pipe or counter of it leaves its bounds.
THEOREM TypesAreCorrect == Spec => []TypeOK
  <1>1. IInv => TypeOK
    BY DEF IInv
  <1> QED
    BY <1>1, Inductive, PTL

\* Whatever EINTR, the signals and the ends of the CGI programs cut short, a
\* request that the log calls successful (make_response, copy_file) got one of
\* the answers that Answered lists: all of the file or, after a fork, all that the
\* forked process ever writes, but also the empty answer of a refusal and of a
\* failed fork, and the log of the second server that a failed execl leaves.
THEOREM SuccessIsHonest == Spec => []HonestSuccess
  <1>1. IInv => HonestSuccess
    BY DEF IInv
  <1>2. Spec => []IInv
    BY Inductive
  <1> QED
    BY <1>1, <1>2, PTL

\* No path through a request, an interrupted one included, leaves a descriptor
\* of it open when the server goes back to accept (run_file_server).
THEOREM NoDescriptorLeaks == Spec => []NoFdLeak
  <1>1. IInv => NoFdLeak
    BY DEF IInv, OwnFds, NoFdLeak, Active, Early, Copying
  <1>2. Spec => []IInv
    BY Inductive
  <1> QED
    BY <1>1, <1>2, PTL

-----------------------------------------------------------------------------
(* FileServer: its constants and variables, and the invariant               *)

CONSTANTS MaxClients, MaxSignals, FdLimit, MAX_REQUEST_LEN, MaxSize

VARIABLES pc, must_stop_server, made, queued, req, unsent, arrived, gone, bytes_read, size,
          changed, promised, body, unread, status, leaked, answers, signals, late

F == INSTANCE FileServer WITH pending <- queued

LEMMA FileInitIInv == F!SizesAssumption /\ F!Init => F!IInv
  <1> SUFFICES ASSUME F!SizesAssumption, F!Init PROVE F!IInv
    OBVIOUS
  <1>1. F!NoRequest \in F!Requests /\ 0 \in 0 .. SockCap
    BY F!SizesAssumption DEF F!NoRequest, F!Requests
  <1>2. F!TypeOK
    BY <1>1 DEF F!Init, F!TypeOK, F!Calls
  <1>3. /\ F!NoConnection /\ F!NoPieceLost /\ F!FileKnown /\ F!BodyInPromise
        /\ F!HonestLog
    BY DEF F!Init, F!NoConnection, F!NoPieceLost, F!FileKnown, F!NoRequest, F!BodyInPromise,
           F!HonestLog
  <1>4. F!OneLeakPerAnswer
    BY F!SizesAssumption DEF F!Init, F!OneLeakPerAnswer
  <1> QED
    BY <1>2, <1>3, <1>4 DEF F!IInv

\* What clients, writers of files and signals do.
LEMMA FileWorldStep ==
    ASSUME F!SizesAssumption, F!IInv,
           \/ F!client_connect \/ F!client_send \/ F!client_read \/ F!client_close
           \/ F!file_change \/ F!signal_handler
    PROVE  F!IInv'
  <1> USE DEF F!IInv, F!conn, F!answer
  <1>1. CASE F!client_connect
    <2>1. F!TypeOK'
      BY <1>1 DEF F!client_connect, F!TypeOK
    <2>2. F!NoConnection' /\ F!NoPieceLost' /\ F!BodyInPromise'
      BY <1>1 DEF F!client_connect, F!NoConnection, F!NoPieceLost, F!BodyInPromise
    <2>3. F!FileKnown' /\ F!OneLeakPerAnswer' /\ F!HonestLog'
      BY <1>1 DEF F!client_connect, F!FileKnown, F!OneLeakPerAnswer, F!HonestLog
    <2> QED
      BY <2>1, <2>2, <2>3
  <1>2. CASE F!client_send
    <2>1. F!TypeOK'
      BY <1>2 DEF F!client_send, F!TypeOK
    <2>2. F!NoConnection'
      BY <1>2 DEF F!client_send, F!NoConnection
    <2>3. F!NoPieceLost'
      BY <1>2 DEF F!client_send, F!NoPieceLost, F!TypeOK
    <2>4. F!FileKnown' /\ F!BodyInPromise' /\ F!OneLeakPerAnswer' /\ F!HonestLog'
      BY <1>2 DEF F!client_send, F!FileKnown, F!BodyInPromise, F!OneLeakPerAnswer, F!HonestLog
    <2> QED
      BY <2>1, <2>2, <2>3, <2>4
  <1>3. CASE F!client_close
    <2>1. F!TypeOK'
      BY <1>3 DEF F!client_close, F!TypeOK
    <2>2. F!NoConnection' /\ F!NoPieceLost'
      BY <1>3 DEF F!client_close, F!NoConnection, F!NoPieceLost, F!Calls
    <2>3. F!FileKnown' /\ F!BodyInPromise' /\ F!OneLeakPerAnswer' /\ F!HonestLog'
      BY <1>3 DEF F!client_close, F!FileKnown, F!BodyInPromise, F!OneLeakPerAnswer, F!HonestLog
    <2> QED
      BY <2>1, <2>2, <2>3
  <1>4. CASE F!file_change
    <2>1. F!TypeOK'
      BY <1>4, F!SizesAssumption DEF F!file_change, F!TypeOK
    <2>2. F!NoConnection' /\ F!NoPieceLost'
      BY <1>4 DEF F!file_change, F!NoConnection, F!NoPieceLost
    <2>3. F!FileKnown' /\ F!BodyInPromise' /\ F!OneLeakPerAnswer' /\ F!HonestLog'
      BY <1>4 DEF F!file_change, F!FileKnown, F!BodyInPromise, F!OneLeakPerAnswer, F!HonestLog
    <2> QED
      BY <2>1, <2>2, <2>3
  <1>5. CASE F!signal_handler
    <2>1. \/ pc' = pc
          \/ pc = "accept" /\ pc' = "check"
          \/ pc \in {"recv", "copy_write"} /\ pc' = "close" /\ status' = -1
      BY <1>5 DEF F!signal_handler, F!Interrupted, F!Clogged
    <2>2. pc \in F!Calls /\ signals' > 0
      BY <1>5 DEF F!signal_handler, F!TypeOK
    <2>3. pc' = pc => status' = status
      BY <1>5 DEF F!signal_handler
    <2>4. pc = "accept" /\ pc' = "check" => status' = status
      BY <1>5 DEF F!signal_handler
    <2>5. F!TypeOK'
      BY <1>5, <2>1, <2>3, <2>4 DEF F!signal_handler, F!TypeOK, F!Calls
    <2>6. F!NoConnection'
      BY <1>5, <2>1, <2>3, <2>4 DEF F!signal_handler, F!NoConnection
    <2>7. F!NoPieceLost' /\ F!FileKnown' /\ F!BodyInPromise' /\ F!OneLeakPerAnswer'
      BY <1>5, <2>1
         DEF F!signal_handler, F!NoPieceLost, F!FileKnown, F!BodyInPromise, F!OneLeakPerAnswer
    <2>8. F!HonestLog'
      BY <1>5, <2>1, <2>2, <2>3 DEF F!signal_handler, F!HonestLog
    <2> QED
      BY <2>5, <2>6, <2>7, <2>8
  <1>6. CASE F!client_read
    <2>1. /\ unread' \in 0 .. SockCap
          /\ UNCHANGED <<pc, must_stop_server, made, queued, req, unsent, arrived, gone,
                         bytes_read, size, changed, promised, body, status, leaked, answers,
                         signals, late>>
      BY <1>6, F!SizesAssumption DEF F!client_read, F!TypeOK
    <2>2. F!TypeOK' /\ F!NoPieceLost' /\ F!FileKnown'
      BY <2>1 DEF F!TypeOK, F!NoPieceLost, F!FileKnown
    <2>3. F!NoConnection'
      BY <1>6, <2>1 DEF F!client_read, F!NoConnection
    <2>4. F!BodyInPromise' /\ F!OneLeakPerAnswer' /\ F!HonestLog'
      BY <2>1 DEF F!BodyInPromise, F!OneLeakPerAnswer, F!HonestLog
    <2> QED
      BY <2>2, <2>3, <2>4
  <1> QED
    BY <1>1, <1>2, <1>3, <1>4, <1>5, <1>6

LEMMA FileServerStep ==
    ASSUME F!SizesAssumption, F!IInv, F!Server
    PROVE  F!IInv'
  <1> USE DEF F!IInv, F!conn, F!answer
  <1>1. CASE F!main
    <2>1. pc = "start" /\ pc' \in {"check", "ended"}
      BY <1>1 DEF F!main
    <2>2. F!TypeOK' /\ F!NoConnection'
      BY <1>1, <2>1 DEF F!main, F!TypeOK, F!NoConnection, F!Calls
    <2>3. F!NoPieceLost' /\ F!FileKnown' /\ F!BodyInPromise'
      BY <1>1, <2>1 DEF F!main, F!NoPieceLost, F!FileKnown, F!BodyInPromise, F!TypeOK
    <2>4. F!OneLeakPerAnswer' /\ F!HonestLog'
      BY <1>1, <2>1 DEF F!main, F!OneLeakPerAnswer, F!HonestLog
    <2> QED
      BY <2>2, <2>3, <2>4
  <1>2. CASE F!run_file_server
    <2>1. pc = "check" /\ pc' \in {"accept", "ended"}
      BY <1>2 DEF F!run_file_server, F!stop_test
    <2>2. F!TypeOK' /\ F!NoConnection'
      BY <1>2, <2>1 DEF F!run_file_server, F!TypeOK, F!NoConnection, F!Calls
    <2>3. F!NoPieceLost' /\ F!FileKnown' /\ F!BodyInPromise'
      BY <1>2, <2>1 DEF F!run_file_server, F!NoPieceLost, F!FileKnown, F!BodyInPromise, F!TypeOK
    <2>4. F!OneLeakPerAnswer' /\ F!HonestLog'
      BY <1>2, <2>1 DEF F!run_file_server, F!OneLeakPerAnswer, F!HonestLog
    <2> QED
      BY <2>2, <2>3, <2>4
  <1>3. CASE F!accept
    <2>1. CASE pc' = "recv" /\ req' \in F!Requests /\ size' \in 0 .. MaxSize
               /\ unsent' = req'.head + req'.extra
               /\ UNCHANGED <<arrived, gone, bytes_read, changed, promised, body, unread, status>>
      <3>1. req'.head \in Nat /\ req'.extra \in Nat
        BY <2>1, F!SizesAssumption DEF F!Requests
      <3>2. arrived = 0 /\ bytes_read = 0 /\ ~changed /\ promised = 0 /\ body = 0
        BY <1>3 DEF F!accept, F!NoConnection
      <3>3. F!TypeOK'
        BY <1>3, <2>1, <3>1, F!SizesAssumption DEF F!accept, F!TypeOK, F!Calls
      <3>4. F!NoConnection' /\ F!NoPieceLost'
        BY <1>3, <2>1, <3>1, <3>2 DEF F!accept, F!NoConnection, F!NoPieceLost
      <3>5. F!FileKnown' /\ F!BodyInPromise' /\ F!OneLeakPerAnswer' /\ F!HonestLog'
        BY <1>3, <2>1, <3>2
           DEF F!accept, F!FileKnown, F!BodyInPromise, F!OneLeakPerAnswer, F!HonestLog
      <3> QED
        BY <3>3, <3>4, <3>5
    <2>2. CASE pc' = "check" /\ UNCHANGED <<F!conn, F!answer>>
      <3>1. F!TypeOK' /\ F!NoConnection'
        BY <1>3, <2>2 DEF F!accept, F!TypeOK, F!NoConnection, F!Calls
      <3>2. F!NoPieceLost' /\ F!FileKnown' /\ F!BodyInPromise'
        BY <1>3, <2>2 DEF F!accept, F!NoPieceLost, F!FileKnown, F!BodyInPromise, F!TypeOK
      <3>3. F!OneLeakPerAnswer' /\ F!HonestLog'
        BY <1>3, <2>2 DEF F!accept, F!OneLeakPerAnswer, F!HonestLog
      <3> QED
        BY <3>1, <3>2, <3>3
    <2> QED
      BY <1>3, <2>1, <2>2 DEF F!accept
  <1>4. CASE F!read_request
    <2>0. req.head \in Nat /\ req.extra \in Nat
      BY F!SizesAssumption DEF F!TypeOK, F!Requests
    <2>1. ASSUME NEW n \in 1 .. arrived, arrived' = arrived - n,
                 IF bytes_read + n > MAX_REQUEST_LEN
                 THEN F!Return(-1) /\ UNCHANGED bytes_read
                 ELSE /\ bytes_read' = bytes_read + n
                      /\ pc' = IF F!EndsRequest(bytes_read + n) THEN "head" ELSE "recv"
                      /\ UNCHANGED status
          PROVE  F!IInv'
      <3>1. arrived \in Nat /\ bytes_read \in Nat /\ unsent \in Nat /\ n \in Nat
        BY <2>1 DEF F!TypeOK
      <3>2. bytes_read + arrived + unsent = req.head + req.extra
        BY <1>4 DEF F!read_request, F!NoPieceLost
      <3>3. arrived' \in Nat /\ bytes_read' \in Nat
        BY <2>1, <3>1
      <3>4. pc' \in {"close", "head", "recv"} /\ (pc' = "close" => status' = -1)
        BY <2>1 DEF F!Return
      <3>5. pc' # "close" => status' = status
        BY <2>1 DEF F!Return
      <3>6. F!TypeOK' /\ F!NoConnection'
        BY <1>4, <3>3, <3>4, <3>5 DEF F!read_request, F!TypeOK, F!NoConnection, F!Calls
      <3>7. F!NoPieceLost'
        BY <1>4, <2>0, <2>1, <3>1, <3>2 DEF F!read_request, F!NoPieceLost, F!Return, F!EndsRequest
      <3>8. F!FileKnown' /\ F!BodyInPromise' /\ F!OneLeakPerAnswer'
        BY <1>4, <3>4 DEF F!read_request, F!FileKnown, F!BodyInPromise, F!OneLeakPerAnswer
      <3>9. pc' = "close" => req.head + req.extra > MAX_REQUEST_LEN
        BY <2>0, <2>1, <3>1, <3>2, F!SizesAssumption DEF F!Return
      <3>10. F!HonestLog'
        BY <1>4, <3>4, <3>9 DEF F!read_request, F!HonestLog
      <3> QED
        BY <3>6, <3>7, <3>8, <3>10
    <2>2. CASE /\ arrived = 0 /\ gone
               /\ \/ F!Return(-1)
                  \/ bytes_read > 0 /\ pc' = "head" /\ UNCHANGED status
               /\ UNCHANGED <<arrived, bytes_read>>
      <3>1. pc' \in {"close", "head"} /\ status' \in {-1, status}
        BY <2>2 DEF F!Return
      <3>2. F!TypeOK' /\ F!NoConnection' /\ F!NoPieceLost'
        BY <1>4, <2>2, <3>1 DEF F!read_request, F!TypeOK, F!NoConnection, F!NoPieceLost, F!Calls
      <3>3. F!FileKnown' /\ F!BodyInPromise' /\ F!OneLeakPerAnswer'
        BY <1>4, <3>1 DEF F!read_request, F!FileKnown, F!BodyInPromise, F!OneLeakPerAnswer
      <3>4. F!HonestLog'
        BY <1>4, <2>2 DEF F!read_request, F!HonestLog, F!Return
      <3> QED
        BY <3>2, <3>3, <3>4
    <2> QED
      BY <1>4, <2>1, <2>2 DEF F!read_request
  <1>5. CASE F!read_request_head
    <2>1. \/ pc' = "stat" /\ status' = status /\ req.file # "bad"
          \/ pc' = "close" /\ status' = -1 /\ (req.file = "bad" \/ bytes_read < req.head)
      BY <1>5 DEF F!read_request_head, F!Return
    <2>2. req.head \in Nat /\ bytes_read \in Nat
      BY F!SizesAssumption DEF F!TypeOK, F!Requests
    <2>3. pc' = "close" => req.file = "bad" \/ gone
      BY <1>5, <2>1, <2>2 DEF F!read_request_head, F!NoPieceLost
    <2>4. F!TypeOK' /\ F!NoConnection' /\ F!NoPieceLost'
      BY <1>5, <2>1 DEF F!read_request_head, F!TypeOK, F!NoConnection, F!NoPieceLost, F!Calls
    <2>5. F!FileKnown' /\ F!BodyInPromise' /\ F!OneLeakPerAnswer'
      BY <1>5, <2>1 DEF F!read_request_head, F!FileKnown, F!BodyInPromise, F!OneLeakPerAnswer
    <2>6. F!HonestLog'
      BY <1>5, <2>1, <2>3 DEF F!read_request_head, F!HonestLog
    <2> QED
      BY <2>4, <2>5, <2>6
  <1>6. CASE F!make_response
    <2>1. \/ pc' = "open" /\ promised' = size /\ status' = status /\ req.file \in F!Found
          \/ pc' = "close" /\ status' = 0 /\ promised' = promised /\ req.file \notin F!Found
      BY <1>6 DEF F!make_response, F!Return
    <2>2. req.file \notin F!Found => req.file = "refused"
      BY <1>6, F!SizesAssumption DEF F!make_response, F!FileKnown, F!TypeOK, F!Requests
    <2>3. F!TypeOK' /\ F!NoConnection' /\ F!NoPieceLost'
      BY <1>6, <2>1 DEF F!make_response, F!TypeOK, F!NoConnection, F!NoPieceLost, F!Calls
    <2>4. F!FileKnown' /\ F!BodyInPromise' /\ F!OneLeakPerAnswer'
      BY <1>6, <2>1 DEF F!make_response, F!FileKnown, F!BodyInPromise, F!OneLeakPerAnswer
    <2>5. F!HonestLog'
      BY <1>6, <2>1, <2>2 DEF F!make_response, F!BodyInPromise, F!HonestLog
    <2> QED
      BY <2>3, <2>4, <2>5
  <1>7. CASE F!open_file
    <2>0. leaked \in Nat /\ answers \in Nat /\ FdLimit \in Nat /\ size \in Nat
      BY F!SizesAssumption DEF F!TypeOK
    <2>1. CASE /\ leaked + 2 < FdLimit /\ req.file # "denied"
               /\ pc' = "copy_read" /\ leaked' = leaked + 1 /\ answers' = answers + 1
               /\ UNCHANGED status
      <3>1. F!TypeOK'
        BY <1>7, <2>1 DEF F!open_file, F!TypeOK, F!Calls
      <3>2. F!NoConnection' /\ F!NoPieceLost' /\ F!FileKnown' /\ F!HonestLog'
        BY <1>7, <2>1
           DEF F!open_file, F!NoConnection, F!NoPieceLost, F!FileKnown, F!BodyInPromise, F!HonestLog
      <3>3. F!BodyInPromise'
        BY <1>7, <2>0, <2>1 DEF F!open_file, F!BodyInPromise
      <3>4. F!OneLeakPerAnswer'
        BY <2>0, <2>1 DEF F!OneLeakPerAnswer
      <3> QED
        BY <3>1, <3>2, <3>3, <3>4
    <2>2. CASE /\ leaked + 2 = FdLimit \/ changed \/ req.file = "denied"
               /\ F!Return(-1) /\ UNCHANGED <<leaked, answers>>
      <3>1. pc' = "close" /\ status' = -1
        BY <2>2 DEF F!Return
      <3>2. F!TypeOK' /\ F!NoConnection' /\ F!NoPieceLost' /\ F!FileKnown'
        BY <1>7, <2>2, <3>1
           DEF F!open_file, F!TypeOK, F!NoConnection, F!NoPieceLost, F!FileKnown, F!Calls
      <3>3. F!BodyInPromise' /\ F!OneLeakPerAnswer'
        BY <1>7, <2>2, <3>1 DEF F!open_file, F!BodyInPromise, F!OneLeakPerAnswer
      <3>4. body = 0 /\ (leaked = FdLimit - 2 \/ changed \/ req.file = "denied")
        BY <1>7, <2>0, <2>2 DEF F!open_file, F!BodyInPromise
      <3>5. F!HonestLog'
        BY <1>7, <2>2, <3>1, <3>4 DEF F!open_file, F!HonestLog, F!OneLeakPerAnswer
      <3> QED
        BY <3>2, <3>3, <3>5
    <2> QED
      BY <1>7, <2>1, <2>2 DEF F!open_file
  <1>8. CASE F!copy_file
    <2>0. body \in Nat /\ size \in Nat /\ promised \in Nat
      BY DEF F!TypeOK
    <2>1. \/ body < size /\ pc' = "copy_write" /\ status' = status /\ req.file # "directory"
          \/ ~(body < size) /\ pc' = "close" /\ status' = 0 /\ req.file # "directory"
          \/ pc' = "close" /\ status' = -1 /\ req.file \in {"directory", "damaged"}
      BY <1>8, <2>0 DEF F!copy_file, F!AtEnd, F!Return
    <2>2. F!TypeOK' /\ F!NoConnection' /\ F!NoPieceLost'
      BY <1>8, <2>1 DEF F!copy_file, F!TypeOK, F!NoConnection, F!NoPieceLost, F!Calls
    <2>3. F!FileKnown' /\ F!BodyInPromise' /\ F!OneLeakPerAnswer'
      BY <1>8, <2>1 DEF F!copy_file, F!FileKnown, F!BodyInPromise, F!OneLeakPerAnswer
    <2>4. /\ req.file \in F!Found /\ req.file # "denied"
          /\ req.file = "directory" => body = 0
          /\ changed \/ (promised = size /\ body <= size)
      BY <1>8 DEF F!copy_file, F!FileKnown, F!BodyInPromise
    <2>5. status' = 0 /\ pc' = "close" => changed \/ body = promised
      BY <1>8, <2>0, <2>1, <2>4 DEF F!copy_file
    <2>6. F!HonestLog'
      BY <1>8, <2>1, <2>4, <2>5 DEF F!copy_file, F!HonestLog, F!Found
    <2> QED
      BY <2>2, <2>3, <2>6
  <1>9. CASE F!write_all
    <2>0. body \in Nat /\ size \in Nat
      BY DEF F!TypeOK
    <2>1. \/ pc' = "copy_read" /\ body' = body + 1 /\ status' = status
          \/ gone /\ pc' = "close" /\ status' = -1 /\ body' = body
      BY <1>9 DEF F!write_all, F!Return
    <2>2. unread' \in 0 .. SockCap
      BY <1>9, F!SizesAssumption DEF F!write_all, F!Clogged, F!TypeOK
    <2>3. F!TypeOK' /\ F!NoConnection' /\ F!NoPieceLost'
      BY <1>9, <2>1, <2>2 DEF F!write_all, F!TypeOK, F!NoConnection, F!NoPieceLost, F!Calls
    <2>4. F!FileKnown' /\ F!BodyInPromise' /\ F!OneLeakPerAnswer'
      BY <1>9, <2>0, <2>1 DEF F!write_all, F!FileKnown, F!BodyInPromise, F!OneLeakPerAnswer
    <2>5. F!HonestLog'
      BY <1>9, <2>1 DEF F!write_all, F!HonestLog
    <2> QED
      BY <2>3, <2>4, <2>5
  <1>10. CASE F!close_client
    <2>1. F!NoRequest \in F!Requests /\ 0 \in 0 .. SockCap
      BY F!SizesAssumption DEF F!NoRequest, F!Requests
    <2>2. F!TypeOK' /\ F!NoConnection'
      BY <1>10, <2>1 DEF F!close_client, F!TypeOK, F!NoConnection, F!Calls
    <2>3. F!NoPieceLost' /\ F!FileKnown' /\ F!BodyInPromise'
      BY <1>10 DEF F!close_client, F!NoRequest, F!NoPieceLost, F!FileKnown, F!BodyInPromise
    <2>4. F!OneLeakPerAnswer' /\ F!HonestLog'
      BY <1>10 DEF F!close_client, F!OneLeakPerAnswer, F!HonestLog
    <2> QED
      BY <2>2, <2>3, <2>4
  <1> QED
    BY <1>1, <1>2, <1>3, <1>4, <1>5, <1>6, <1>7, <1>8, <1>9, <1>10 DEF F!Server

LEMMA FileStutterIInv ==
    ASSUME F!IInv, UNCHANGED F!vars
    PROVE  F!IInv'
  <1> USE DEF F!IInv, F!vars, F!conn, F!answer
  <1>1. F!TypeOK' /\ F!NoConnection' /\ F!NoPieceLost' /\ F!FileKnown'
    BY DEF F!TypeOK, F!NoConnection, F!NoPieceLost, F!FileKnown
  <1>2. F!BodyInPromise' /\ F!OneLeakPerAnswer' /\ F!HonestLog'
    BY DEF F!BodyInPromise, F!OneLeakPerAnswer, F!HonestLog
  <1> QED
    BY <1>1, <1>2

LEMMA FileNextIInv == F!SizesAssumption /\ F!IInv /\ [F!Next]_(F!vars) => F!IInv'
  BY FileServerStep, FileWorldStep, FileStutterIInv DEF F!Next

\* What is known of a request and its answer at each call of FileServer's main
\* loop holds in every reachable state.
THEOREM FileInductive ==
    ASSUME F!SizesAssumption
    PROVE  F!Spec => []F!IInv
  <1>1. F!Init => F!IInv
    BY FileInitIInv
  <1>2. F!IInv /\ [F!Next]_(F!vars) => F!IInv'
    BY FileNextIInv
  <1> QED
    BY <1>1, <1>2, PTL DEF F!Spec

\* main.c of http-server-1: a request logged as successful was refused, or
\* answered with exactly the Content-Length promised unless its file changed; an
\* error of a patient client's good request means that its file cannot be opened
\* or read, or that the descriptors have leaked away.
THEOREM LogIsHonest ==
    ASSUME F!SizesAssumption
    PROVE  F!Spec => []F!HonestLog
  <1>1. F!IInv => F!HonestLog
    BY DEF F!IInv
  <1> QED
    BY <1>1, FileInductive, PTL
=============================================================================
