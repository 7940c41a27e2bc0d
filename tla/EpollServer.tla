----------------------------- MODULE EpollServer -----------------------------
(***************************************************************************)
(* The echo server of inf17-1_highload_epoll-read-write-socket.  One       *)
(* thread waits in epoll_pwait and serves what is ready: it accepts, reads *)
(* what a client has sent, converts it to upper case and writes it back.   *)
(*                                                                         *)
(* Sockets are byte queues of bounded room.  Each client sends the letters *)
(* 1, 2, ... in this order; the upper case of a letter is another letter.  *)
(***************************************************************************)
EXTENDS Integers, Sequences, SequencesExt, FiniteSets, FiniteSetsExt

CONSTANTS
    Clients,
    MaxBytes,            \* bytes a client sends, at most
    Room,                \* bytes a socket holds in each direction
    REQUEST_BUFFER,      \* bytes of a client's buffer
    MAX_EVENTS,          \* events one epoll_pwait reports, at most
    ConnectionLimits,    \* values of CONNECTIONS_LIMIT
    MaxSignals           \* stop signals that arrive, at most

ASSUME SizesAssumption ==
    /\ {MaxBytes, Room, REQUEST_BUFFER, MAX_EVENTS} \subseteq Nat \ {0}
    /\ MaxSignals \in Nat /\ ConnectionLimits \subseteq Nat

VARIABLES
    CONNECTIONS_LIMIT,
    pc,                          \* where run_server is
    batch,                       \* events reported and not yet looked at
    cur,                         \* the event being handled
    current_connection_count,
    open,                        \* clients with a client_unit and a descriptor
    buffer, buffer_len,          \* their client_units
    interest,                    \* the events epoll watches for
    backlog,                     \* connections waiting to be accepted
    peer,                        \* the client's end of the connection
    inq, outq,                   \* bytes under way to and from the server
    sent, got,                   \* history: bytes sent and received by clients
    short,                       \* history: clients whose socket had too little
                                 \* room for a write
    phantoms,                    \* history: failed accepts that were counted
    signals                      \* history: stop signals delivered

server  == <<CONNECTIONS_LIMIT, pc, batch, cur, current_connection_count>>
units   == <<open, buffer, buffer_len, interest>>
clients == <<backlog, peer, inq, outq, sent, got>>
vars    == <<server, units, clients, short, phantoms, signals>>

Listener == "server_socket"
ASSUME ListenerAssumption == Listener \notin Clients

NoEvent  == [unit |-> Listener, events |-> {}]

Init ==
    /\ CONNECTIONS_LIMIT \in ConnectionLimits
    /\ pc = "start" /\ batch = {} /\ cur = NoEvent
    /\ current_connection_count = 0
    /\ open = {} /\ short = {} /\ phantoms = 0 /\ signals = 0
    /\ buffer = [c \in Clients |-> <<>>] /\ buffer_len = [c \in Clients |-> 0]
    /\ interest = [c \in Clients |-> {}]
    /\ peer = [c \in Clients |-> "none"] /\ backlog = {}
    /\ inq = [c \in Clients |-> <<>>] /\ outq = [c \in Clients |-> <<>>]
    /\ sent = [c \in Clients |-> 0] /\ got = [c \in Clients |-> <<>>]

toupper(letter) == IF letter <= MaxBytes THEN letter + MaxBytes ELSE letter
Upper(bytes)    == [i \in DOMAIN bytes |-> toupper(bytes[i])]
Least(a, b)     == IF a < b THEN a ELSE b

-----------------------------------------------------------------------------
(* The clients *)

client_connect(c) ==
    /\ pc # "start" /\ peer[c] = "none"
    /\ peer' = [peer EXCEPT ![c] = "connected"]
    /\ backlog' = backlog \cup {c}
    /\ UNCHANGED <<server, units, inq, outq, sent, got, short, phantoms, signals>>

\* The system completes the connection, so that a client may send before it
\* is accepted.
client_send(c) ==
    /\ peer[c] = "connected"
    /\ sent[c] < MaxBytes /\ Len(inq[c]) < Room
    /\ sent' = [sent EXCEPT ![c] = @ + 1]
    /\ inq' = [inq EXCEPT ![c] = Append(@, sent[c] + 1)]
    /\ UNCHANGED <<server, units, backlog, peer, outq, got, short, phantoms, signals>>

client_receive(c) ==
    /\ peer[c] = "connected" /\ outq[c] # <<>>
    /\ got' = [got EXCEPT ![c] = Append(@, Head(outq[c]))]
    /\ outq' = [outq EXCEPT ![c] = Tail(@)]
    /\ UNCHANGED <<server, units, backlog, peer, inq, sent, short, phantoms, signals>>

\* Closing a socket with unread data resets the connection.
client_close(c) ==
    /\ peer[c] = "connected"
    /\ peer' = [peer EXCEPT ![c] = IF outq[c] = <<>> THEN "closed" ELSE "reset"]
    /\ outq' = [outq EXCEPT ![c] = <<>>]
    /\ UNCHANGED <<server, units, backlog, inq, sent, got, short, phantoms, signals>>

-----------------------------------------------------------------------------
(* The server.  Operators named bug_ are mutants of the definition that     *)
(* follows them.                                                           *)

\* The name may not resolve.
hostname_to_ip == {-1, 0}

\* bind or listen may fail.
build_server == {"exit", "listening"}

main ==
    /\ pc = "start"
    /\ \E resolved \in hostname_to_ip, built \in build_server :
          pc' = IF resolved = 0 /\ built = "listening" THEN "wait" ELSE "ended"
    /\ UNCHANGED <<CONNECTIONS_LIMIT, batch, cur, current_connection_count>>
    /\ UNCHANGED <<units, clients, short, phantoms, signals>>

\* What epoll reports of a connection: readable with data or at the end of the
\* stream, writable with room left, and a reset whatever is watched for.
Ready(c) ==
    {e \in interest[c] : \/ peer[c] = "reset"
                         \/ e = "IN" /\ (inq[c] # <<>> \/ peer[c] = "closed")
                         \/ e = "OUT" /\ Len(outq[c]) < Room}
      \cup (IF peer[c] = "reset" THEN {"HUP"} ELSE {})

Reported ==
    {[unit |-> c, events |-> Ready(c)] : c \in {d \in open : Ready(d) # {}}}
      \cup (IF backlog # {} THEN {[unit |-> Listener, events |-> {"IN"}]} ELSE {})

epoll_pwait ==
    /\ pc = "wait" /\ Reported # {}
    /\ batch' \in kSubset(Least(MAX_EVENTS, Cardinality(Reported)), Reported)
    /\ pc' = "loop"
    /\ UNCHANGED <<CONNECTIONS_LIMIT, cur, current_connection_count>>
    /\ UNCHANGED <<units, clients, short, phantoms, signals>>

\* The handler sets must_stop_server, which nothing reads.  What ends the
\* server is EINTR: the signal must find it inside epoll_pwait.
signal_handler ==
    /\ pc \notin {"start", "ended"} /\ signals < MaxSignals
    /\ signals' = signals + 1
    /\ pc' \in IF pc = "wait" THEN {"wait", "ended"} ELSE {pc}
    /\ UNCHANGED <<CONNECTIONS_LIMIT, batch, cur, current_connection_count>>
    /\ UNCHANGED <<units, clients, short, phantoms>>

\* The loop over the batch takes the next event.
next_event ==
    /\ pc = "loop"
    /\ \/ \E e \in batch :
             /\ e.unit # Listener
             /\ batch' = batch \ {e} /\ cur' = e
             /\ pc' = IF "IN" \in e.events THEN "read" ELSE "write"
       \/ batch = {} /\ pc' = "wait" /\ UNCHANGED <<batch, cur>>
    /\ UNCHANGED <<CONNECTIONS_LIMIT, current_connection_count>>
    /\ UNCHANGED <<units, clients, short, phantoms, signals>>

\* A new client_unit, calloc'ed, and EPOLL_CTL_ADD with EPOLLIN.
initialize_connection(c) ==
    /\ open' = open \cup {c}
    /\ buffer' = [buffer EXCEPT ![c] = <<>>]
    /\ buffer_len' = [buffer_len EXCEPT ![c] = 0]
    /\ interest' = [interest EXCEPT ![c] = {"IN"}]

\* accept may fail (client_addr_len is never set).  The result is not tested:
\* a failed accept is counted as a connection that nothing will ever close.
accept_client(c) ==
    /\ pc = "loop" /\ c \in backlog
    /\ \E e \in batch : e.unit = Listener /\ batch' = batch \ {e}
    /\ backlog' = backlog \ {c}
    /\ \E accepted \in BOOLEAN :
          IF current_connection_count >= CONNECTIONS_LIMIT
          THEN /\ peer' = [peer EXCEPT ![c] = "dropped"]
               /\ UNCHANGED <<units, current_connection_count, phantoms>>
          ELSE /\ current_connection_count' = current_connection_count + 1
               /\ IF accepted
                  THEN initialize_connection(c) /\ UNCHANGED <<peer, phantoms>>
                  ELSE /\ phantoms' = phantoms + 1
                       /\ peer' = [peer EXCEPT ![c] = "dropped"]
                       /\ UNCHANGED units
    /\ UNCHANGED <<CONNECTIONS_LIMIT, pc, cur, inq, outq, sent, got, short, signals>>

bug_free_client(c) ==
    /\ open' = open \ {c}
    /\ interest' = [interest EXCEPT ![c] = {}]
    /\ peer' = [peer EXCEPT ![c] = IF @ = "connected" THEN "cut" ELSE "dropped"]
    /\ UNCHANGED current_connection_count
    /\ pc' = "loop" /\ cur' = NoEvent

\* close, free, and the counter at the call; on to the next event.
free_client(c) ==
    /\ open' = open \ {c}
    /\ interest' = [interest EXCEPT ![c] = {}]
    /\ peer' = [peer EXCEPT ![c] = IF @ = "connected" THEN "cut" ELSE "dropped"]
    /\ current_connection_count' = current_connection_count - 1
    /\ pc' = "loop" /\ cur' = NoEvent

\* EPOLL_CTL_MOD with the events that were reported, not those watched for.
epoll_add_write(c) ==
    /\ cur' = [cur EXCEPT !.events = @ \cup {"OUT"}]
    /\ interest' = [interest EXCEPT ![c] = cur'.events \ {"HUP"}]

bug_epoll_del_write(c) == interest' = [interest EXCEPT ![c] = {"OUT"}]

epoll_del_write(c) == interest' = [interest EXCEPT ![c] = cur.events \ {"OUT", "HUP"}]

bug_handle_read(c, n) ==
    /\ buffer' = [buffer EXCEPT ![c] = Upper(SubSeq(inq[c], 1, n))]
    /\ buffer_len' = [buffer_len EXCEPT ![c] = n]
    /\ inq' = [inq EXCEPT ![c] = SubSeq(@, n + 1, Len(@))]
    /\ UNCHANGED <<cur, interest>>

\* n bytes are read over whatever the buffer still holds.
handle_read(c, n) ==
    /\ buffer' = [buffer EXCEPT ![c] = Upper(SubSeq(inq[c], 1, n))]
    /\ buffer_len' = [buffer_len EXCEPT ![c] = n]
    /\ inq' = [inq EXCEPT ![c] = SubSeq(@, n + 1, Len(@))]
    /\ epoll_add_write(c)

\* The EPOLLIN branch of run_server.  At the end of the stream read gives 0.
read_event ==
    /\ pc = "read"
    /\ LET c == cur.unit
           n == Least(Len(inq[c]), REQUEST_BUFFER)
       IN  IF peer[c] = "reset"
           THEN free_client(c) /\ UNCHANGED <<buffer, buffer_len, inq>>
           ELSE /\ pc' = "write"
                /\ IF n > 0 THEN handle_read(c, n)
                   ELSE UNCHANGED <<buffer, buffer_len, inq, cur, interest>>
                /\ UNCHANGED <<open, peer, current_connection_count>>
    /\ UNCHANGED <<CONNECTIONS_LIMIT, batch, backlog, outq, sent, got, short, phantoms, signals>>

\* n of the bytes that are left are written, always from the start of the
\* buffer.  Those for a client that has left are lost, and reset the connection.
handle_write(c, n) ==
    /\ buffer_len' = [buffer_len EXCEPT ![c] = @ - n]
    /\ IF peer[c] = "closed" /\ n > 0
       THEN peer' = [peer EXCEPT ![c] = "reset"] /\ UNCHANGED outq
       ELSE outq' = [outq EXCEPT ![c] = @ \o SubSeq(buffer[c], 1, n)] /\ UNCHANGED peer

\* The EPOLLOUT branch, taken in the same turn as a read whether or not there
\* is room; write fails when there is none, as the socket is non-blocking.
write_event ==
    /\ pc = "write"
    /\ LET c == cur.unit
           n == Least(buffer_len[c], Room - Len(outq[c]))
           fails == buffer_len[c] > 0 /\ (peer[c] = "reset" \/ n = 0)
       IN  /\ short' = IF "OUT" \in cur.events /\ n < buffer_len[c] /\ peer[c] # "reset"
                        THEN short \cup {c} ELSE short
           /\ IF "OUT" \notin cur.events \/ fails
              THEN free_client(c) /\ UNCHANGED <<buffer_len, outq>>
              ELSE /\ handle_write(c, n)
                   /\ pc' = "loop" /\ cur' = NoEvent
                   /\ IF buffer_len'[c] = 0 THEN epoll_del_write(c) ELSE UNCHANGED interest
                   /\ UNCHANGED <<open, current_connection_count>>
    /\ UNCHANGED <<CONNECTIONS_LIMIT, batch, buffer, backlog, inq, sent, got, phantoms, signals>>

run_server ==
    \/ epoll_pwait \/ next_event \/ read_event \/ write_event
    \/ \E c \in Clients : accept_client(c)

-----------------------------------------------------------------------------

Next ==
    \/ main \/ signal_handler \/ run_server
    \/ \E c \in Clients : client_connect(c) \/ client_send(c) \/ client_receive(c)
                             \/ client_close(c)

Spec == Init /\ [][Next]_vars

\* The server runs, and clients read what they are sent.
FairSpec ==
    /\ Spec
    /\ WF_vars(main \/ run_server)
    /\ \A c \in Clients : WF_vars(client_receive(c))

-----------------------------------------------------------------------------
(* Properties *)

\* No byte is lost, repeated, reordered or left in lower case: what a client
\* has sent is, in this order, what it has got, what is under way to it, what
\* its buffer holds and what the server has not read.  Such a client is never
\* cut off.  This holds as long as no write met too little room: after that
\* handle_write starts over at the front of the buffer, or drops the client.
EchoIntact ==
    \A c \in Clients :
      c \notin short =>
        /\ peer[c] # "cut"
        /\ peer[c] = "connected" =>
              Upper([i \in 1 .. sent[c] |-> i]) =
                got[c] \o outq[c] \o SubSeq(buffer[c], 1, buffer_len[c]) \o Upper(inq[c])

\* The connection counter is the number of connections that are open plus the
\* failed accepts, and never exceeds CONNECTIONS_LIMIT; so the limit can only
\* be used up by connections that exist or by failed accepts.
CountAgrees ==
    /\ current_connection_count = Cardinality(open) + phantoms
    /\ current_connection_count <= CONNECTIONS_LIMIT

-----------------------------------------------------------------------------
(* The inductive invariant: an event of the batch stays true until it is     *)
(* handled, and a client that never met too little room has its bytes in the *)
(* buffer only between the read and the write of one turn.                   *)

Events == [unit : Clients \cup {Listener}, events : SUBSET {"IN", "OUT", "HUP"}]

TypeOK ==
    /\ CONNECTIONS_LIMIT \in Nat /\ current_connection_count \in Nat
    /\ pc \in {"start", "wait", "loop", "read", "write", "ended"}
    /\ batch \in SUBSET Events /\ cur \in Events
    /\ open \in SUBSET Clients /\ IsFiniteSet(open) /\ backlog \in SUBSET Clients
    /\ buffer \in [Clients -> Seq(Nat)] /\ buffer_len \in [Clients -> Nat]
    /\ \A c \in Clients : buffer_len[c] <= Len(buffer[c]) /\ Len(outq[c]) <= Room
    /\ interest \in [Clients -> SUBSET {"IN", "OUT"}]
    /\ peer \in [Clients -> {"none", "connected", "closed", "reset", "cut", "dropped"}]
    /\ inq \in [Clients -> Seq(Nat)] /\ outq \in [Clients -> Seq(Nat)]
    /\ sent \in [Clients -> Nat] /\ got \in [Clients -> Seq(Nat)]
    /\ short \in SUBSET Clients /\ phantoms \in Nat

\* A client_unit that is freed is in no event that is still to be handled.
NoStaleEvent ==
    /\ \A e \in batch : e.unit \in open \cup {Listener}
    /\ \A e, f \in batch : e.unit = f.unit => e = f
    /\ pc \in {"read", "write"} => cur.unit \in open /\ \A e \in batch : e.unit # cur.unit

\* A connection is in the listen queue or open, never both, and only once.
AcceptedOnce ==
    /\ open \cap backlog = {}
    /\ \A c \in open \cup backlog : peer[c] # "none"
    /\ \A c \in Clients : peer[c] = "none" =>
         buffer_len[c] = 0 /\ sent[c] = 0 /\ got[c] = <<>> /\ outq[c] = <<>> /\ inq[c] = <<>>

\* For a client that is connected and had room for every write, each turn reads
\* something, and writes all of it.
Undisturbed(c) == c \notin short /\ peer[c] = "connected"
Writing(c) == pc = "write" /\ cur.unit = c
WholeTurns ==
    \A c \in Clients : Undisturbed(c) =>
      /\ Writing(c) => cur.events = {"IN", "OUT"}
      /\ ~Writing(c) => buffer_len[c] = 0 /\ (c \in open => interest[c] = {"IN"})
      /\ pc = "read" /\ cur.unit = c => cur.events = {"IN"} /\ inq[c] # <<>>
      /\ \A e \in batch : e.unit = c => e.events = {"IN"} /\ inq[c] # <<>>

IInv == TypeOK /\ NoStaleEvent /\ AcceptedOnce /\ CountAgrees /\ WholeTurns /\ EchoIntact

-----------------------------------------------------------------------------
(* Liveness *)

\* Unless a stop signal ends the server, every client is accepted or turned
\* away, gets all of its answer, and is released after it has left; this
\* again without a short write, after which epoll_del_write can leave the
\* client with nothing watched for.
Attended ==
    \/ <>(pc = "ended")
    \/ <>[](/\ backlog = {}
            /\ \A c \in Clients \ short :
                 /\ peer[c] = "connected" => Len(got[c]) = sent[c]
                 /\ peer[c] \in {"closed", "reset"} => c \notin open)
=============================================================================
