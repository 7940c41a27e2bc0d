------------------------------ MODULE FileServer ------------------------------
(***************************************************************************)
(* The file server of inf16-1_posix_sockets_http-server-1: one thread that *)
(* accepts a connection, reads a request up to its blank line, answers     *)
(* with a status and a file, and closes the connection.                    *)
(*                                                                         *)
(* Requests and files are counted in pieces: what one recv, or one buffer  *)
(* of copy_file, moves at least.  A request is a head of some pieces, the  *)
(* last of which ends with the blank line, and pieces after it (a body, or *)
(* a second request).                                                      *)
(***************************************************************************)
EXTENDS Integers

CONSTANTS
    MaxClients,        \* connections that are made, at most
    MaxSignals,        \* stop signals, at most
    FdLimit,           \* descriptors for the listening socket, connection and files
    MAX_REQUEST_LEN,   \* pieces of a request that are accepted
    MaxSize,           \* pieces of a file, at most
    SockCap            \* pieces of an answer that the socket holds for the client

ASSUME SizesAssumption ==
    /\ {MaxClients, MaxSignals, MaxSize} \subseteq Nat
    /\ FdLimit \in Nat \ {0, 1} /\ MAX_REQUEST_LEN \in Nat \ {0}
    /\ SockCap \in Nat \ {0}

\* The files that get status 200.  Having S_IRUSR in its mode does not mean that
\* the server may open a file ("denied"), nor that it can be read: a "directory"
\* never, a "damaged" file perhaps not to its end.
Found == {"readable", "denied", "directory", "damaged"}

\* "bad" is a head that cannot be parsed; "refused" is a file that is missing
\* (404), cannot be examined (418) or is forbidden (403).
Requests ==
    [head : 1 .. MAX_REQUEST_LEN + 1, extra : 0 .. 1,
     file : {"bad", "refused"} \cup Found]
NoRequest == [head |-> 1, extra |-> 0, file |-> "bad"]

VARIABLES
    pc, must_stop_server,
    made, pending,       \* connections made, and those in the listen queue
    req,                 \* the request of the current connection
    unsent, arrived,     \* its pieces that the client holds, that the socket holds
    gone,                \* the client has closed the connection
    bytes_read,          \* by read_request
    size,                \* of the requested file
    changed,             \* history: size changed since stat
    promised, body,      \* Content-Length and pieces written of the current answer
    unread,              \* its pieces that the client has not read
    status,              \* what handle_request returns
    leaked,              \* descriptors of files that nothing will close
    answers,             \* history: answers with an open file
    signals,             \* history: stop signals delivered
    late                 \* history: one came between the stop test and accept

conn   == <<req, unsent, arrived, gone, bytes_read>>
answer == <<size, changed, promised, body, unread, status>>
vars   == <<pc, must_stop_server, made, pending, conn, answer, leaked, answers, signals, late>>

Calls == {"check", "accept", "recv", "head", "stat", "open",
          "copy_read", "copy_write", "close"}

Init ==
    /\ pc = "start" /\ must_stop_server = FALSE
    /\ made = 0 /\ pending = 0 /\ leaked = 0 /\ answers = 0 /\ signals = 0 /\ late = FALSE
    /\ req = NoRequest /\ unsent = 0 /\ arrived = 0 /\ gone = FALSE /\ bytes_read = 0
    /\ size = 0 /\ changed = FALSE /\ promised = 0 /\ body = 0 /\ unread = 0 /\ status = 0

-----------------------------------------------------------------------------
(* Clients, files and signals *)

client_connect ==
    /\ pc # "start" /\ made < MaxClients
    /\ made' = made + 1 /\ pending' = pending + 1
    /\ UNCHANGED <<pc, must_stop_server, conn, answer, leaked, answers, signals, late>>

client_send ==
    /\ unsent > 0 /\ ~gone
    /\ unsent' = unsent - 1 /\ arrived' = arrived + 1
    /\ UNCHANGED <<pc, must_stop_server, made, pending, req, gone, bytes_read>>
    /\ UNCHANGED <<answer, leaked, answers, signals, late>>

client_read ==
    /\ unread > 0 /\ ~gone
    /\ unread' = unread - 1
    /\ UNCHANGED <<pc, must_stop_server, made, pending, conn, size, changed, promised, body>>
    /\ UNCHANGED <<status, leaked, answers, signals, late>>

client_close ==
    /\ pc \in Calls \ {"check", "accept"} /\ ~gone
    /\ gone' = TRUE
    /\ UNCHANGED <<pc, must_stop_server, made, pending, req, unsent, arrived, bytes_read>>
    /\ UNCHANGED <<answer, leaked, answers, signals, late>>

\* Somebody writes to the file, once, while it is being served.
file_change ==
    /\ pc \in {"open", "copy_read", "copy_write"} /\ ~changed
    /\ size' \in 0 .. MaxSize \ {size} /\ changed' = TRUE
    /\ UNCHANGED <<pc, must_stop_server, made, pending, conn, promised, body, unread, status>>
    /\ UNCHANGED <<leaked, answers, signals, late>>

\* write waits for a client that neither reads nor leaves.
Clogged == pc = "copy_write" /\ unread = SockCap /\ ~gone

\* A signal makes a call fail with EINTR when it is blocked, and is without
\* effect on a call that has not begun or need not wait, or, in a write, has
\* written a part of the piece.
Interrupted ==
    {pc} \cup CASE pc = "accept" /\ pending = 0 -> {"check"}
                [] pc = "recv" /\ arrived = 0 -> {"close"}
                [] Clogged -> {"close"}
                [] OTHER -> {}

signal_handler ==
    /\ pc \in Calls /\ signals < MaxSignals
    /\ signals' = signals + 1 /\ must_stop_server' = TRUE
    /\ pc' \in Interrupted
    /\ late' = (late \/ (pc = "accept" /\ pc' = pc))
    /\ status' = IF pc' = "close" /\ pc # "close" THEN -1 ELSE status
    /\ UNCHANGED <<made, pending, conn, size, changed, promised, body, unread, leaked, answers>>

-----------------------------------------------------------------------------
(* The server.  Operators named bug_ are mutants of the definition that     *)
(* follows them.                                                           *)

\* bind or listen may fail.
build_server == {"exit", "listening"}

\* set_signal_handler, build_server, run_file_server.
main ==
    /\ pc = "start"
    /\ \E built \in build_server : pc' = IF built = "listening" THEN "check" ELSE "ended"
    /\ UNCHANGED <<must_stop_server, made, pending, conn, answer, leaked, answers, signals, late>>

bug_stop_test == pc = "check" /\ pc' = "accept"

stop_test == pc = "check" /\ pc' = IF must_stop_server THEN "ended" ELSE "accept"

run_file_server ==
    /\ stop_test
    /\ UNCHANGED <<must_stop_server, made, pending, conn, answer, leaked, answers, signals, late>>

\* accept may fail when a connection is there, as client_addr_len is never set;
\* the connection is then lost.
accept ==
    /\ pc = "accept" /\ pending > 0
    /\ pending' = pending - 1
    /\ \/ /\ pc' = "recv"
          /\ req' \in Requests /\ size' \in 0 .. MaxSize
          /\ unsent' = req'.head + req'.extra
          /\ UNCHANGED <<arrived, gone, bytes_read, changed, promised, body, unread, status>>
       \/ pc' = "check" /\ UNCHANGED <<conn, answer>>
    /\ UNCHANGED <<must_stop_server, made, leaked, answers, signals, late>>

\* handle_request gives up, or make_response returns.
Return(result) == pc' = "close" /\ status' = result

\* The blank line is looked for at the very end of what has been read.
EndsRequest(n) == n = req.head

\* One recv of read_request.  A reset, or no data at all, is an error; a client
\* that leaves in the middle has its request parsed as far as it came.
read_request ==
    /\ pc = "recv"
    /\ \/ \E n \in 1 .. arrived :
             /\ arrived' = arrived - n
             /\ IF bytes_read + n > MAX_REQUEST_LEN
                THEN Return(-1) /\ UNCHANGED bytes_read
                ELSE /\ bytes_read' = bytes_read + n
                     /\ pc' = IF EndsRequest(bytes_read + n) THEN "head" ELSE "recv"
                     /\ UNCHANGED status
       \/ /\ arrived = 0 /\ gone
          /\ \/ Return(-1)
             \/ bytes_read > 0 /\ pc' = "head" /\ UNCHANGED status
          /\ UNCHANGED <<arrived, bytes_read>>
    /\ UNCHANGED <<must_stop_server, made, pending, req, unsent, gone>>
    /\ UNCHANGED <<size, changed, promised, body, unread, leaked, answers, signals, late>>

\* A head that was cut off may be refused for that.
read_request_head ==
    /\ pc = "head"
    /\ \/ req.file # "bad" /\ pc' = "stat" /\ UNCHANGED status
       \/ (req.file = "bad" \/ bytes_read < req.head) /\ Return(-1)
    /\ UNCHANGED <<must_stop_server, made, pending, conn>>
    /\ UNCHANGED <<size, changed, promised, body, unread, leaked, answers, signals, late>>

\* make_response up to the header.  What append_text returns is not looked at.
make_response ==
    /\ pc = "stat"
    /\ IF req.file \in Found
       THEN pc' = "open" /\ promised' = size /\ UNCHANGED status
       ELSE Return(0) /\ UNCHANGED promised
    /\ UNCHANGED <<must_stop_server, made, pending, conn>>
    /\ UNCHANGED <<size, changed, body, unread, leaked, answers, signals, late>>

\* The file is opened and never closed.  When open fails, for lack of
\* descriptors or of rights or because the file is gone, the status 200 and
\* Content-Length have been sent.
open_file ==
    /\ pc = "open"
    /\ \/ /\ leaked + 2 < FdLimit /\ req.file # "denied"
          /\ pc' = "copy_read" /\ leaked' = leaked + 1 /\ answers' = answers + 1
          /\ UNCHANGED status
       \/ /\ leaked + 2 = FdLimit \/ changed \/ req.file = "denied"
          /\ Return(-1) /\ UNCHANGED <<leaked, answers>>
    /\ UNCHANGED <<must_stop_server, made, pending, conn>>
    /\ UNCHANGED <<size, changed, promised, body, unread, signals, late>>

bug_AtEnd == body + 1 >= size

\* read gives 0.
AtEnd == body >= size

\* read, which may fail on what is no regular file or has an error.
copy_file ==
    /\ pc = "copy_read"
    /\ \/ req.file # "directory" /\ AtEnd /\ Return(0)
       \/ req.file # "directory" /\ ~AtEnd /\ pc' = "copy_write" /\ UNCHANGED status
       \/ req.file \in {"directory", "damaged"} /\ Return(-1)
    /\ UNCHANGED <<must_stop_server, made, pending, conn>>
    /\ UNCHANGED <<size, changed, promised, body, unread, leaked, answers, signals, late>>

\* The first write after the client has left may still succeed.
write_all ==
    /\ pc = "copy_write" /\ ~Clogged
    /\ \/ /\ pc' = "copy_read" /\ body' = body + 1 /\ UNCHANGED status
          /\ unread' = IF gone THEN unread ELSE unread + 1
       \/ gone /\ Return(-1) /\ UNCHANGED <<body, unread>>
    /\ UNCHANGED <<must_stop_server, made, pending, conn, size, changed, promised>>
    /\ UNCHANGED <<leaked, answers, signals, late>>

\* The result is logged, the connection is closed.
close_client ==
    /\ pc = "close" /\ pc' = "check"
    /\ req' = NoRequest /\ unsent' = 0 /\ arrived' = 0 /\ gone' = FALSE /\ bytes_read' = 0
    /\ size' = 0 /\ changed' = FALSE /\ promised' = 0 /\ body' = 0 /\ unread' = 0
    /\ status' = 0
    /\ UNCHANGED <<must_stop_server, made, pending, leaked, answers, signals, late>>

Server ==
    \/ main \/ run_file_server \/ accept \/ read_request \/ read_request_head
    \/ make_response \/ open_file \/ copy_file \/ write_all \/ close_client

-----------------------------------------------------------------------------

Next ==
    \/ Server \/ client_connect \/ client_send \/ client_read \/ client_close
    \/ file_change \/ signal_handler

Spec == Init /\ [][Next]_vars

\* The server runs.  Nothing is assumed of the clients: they may stop sending,
\* not read, and stay.
FairSpec == Spec /\ WF_vars(Server)

-----------------------------------------------------------------------------
(* Properties *)

\* A request that is logged as successful was refused with a status, or was for
\* a file that has been sent with exactly the Content-Length promised, unless
\* the file changed after stat.  One that is logged as an error although its
\* client stayed, sent a good request of legal length and was not interrupted,
\* was for a file that cannot be opened or read, or was refused a descriptor,
\* which takes FdLimit - 2 earlier answers that leaked theirs.
HonestLog ==
    pc = "close" =>
      /\ status = 0 =>
           \/ req.file = "refused" /\ body = 0
           \/ req.file \in {"readable", "damaged"} /\ (changed \/ body = promised)
      /\ status = -1 =>
           \/ gone \/ req.file = "bad" \/ signals > 0 \/ changed
           \/ req.head + req.extra > MAX_REQUEST_LEN
           \/ req.file \in {"denied", "directory"} /\ body = 0
           \/ req.file = "damaged" /\ body <= promised
           \/ leaked = FdLimit - 2 /\ answers = leaked /\ body = 0

\* HonestLog as an inductive invariant: what is known of the request and of
\* its answer at each call.
TypeOK ==
    /\ pc \in Calls \cup {"start", "ended"}
    /\ must_stop_server \in BOOLEAN /\ gone \in BOOLEAN /\ changed \in BOOLEAN /\ late \in BOOLEAN
    /\ made \in Nat /\ pending \in Nat /\ signals \in Nat /\ leaked \in Nat /\ answers \in Nat
    /\ unsent \in Nat /\ arrived \in Nat /\ bytes_read \in Nat
    /\ size \in Nat /\ promised \in Nat /\ body \in Nat /\ unread \in 0 .. SockCap
    /\ req \in Requests /\ status \in {-1, 0}

\* Nothing of one request is left for the next.
NoConnection ==
    pc \in {"start", "check", "accept", "ended"} =>
        /\ unsent = 0 /\ arrived = 0 /\ bytes_read = 0 /\ ~gone
        /\ ~changed /\ promised = 0 /\ body = 0 /\ unread = 0 /\ status = 0

\* No piece of a request is lost between the client, the socket and the buffer,
\* and a head is parsed when it is complete or the client has left.
NoPieceLost ==
    /\ pc = "recv" => bytes_read + arrived + unsent = req.head + req.extra
    /\ pc = "head" => bytes_read = req.head \/ gone

\* Which files get as far as each call.
FileKnown ==
    /\ pc = "stat" => req.file # "bad"
    /\ pc \in {"open", "copy_read", "copy_write"} => req.file \in Found
    /\ pc \in {"copy_read", "copy_write"} => req.file # "denied"
    /\ req.file = "directory" /\ pc # "close" => pc # "copy_write" /\ body = 0

\* The body never outgrows the Content-Length of a file that stays as it is.
BodyInPromise ==
    /\ pc \in {"recv", "head", "stat"} => ~changed /\ promised = 0
    /\ pc \in {"recv", "head", "stat", "open"} => body = 0
    /\ pc \in {"open", "copy_read", "copy_write"} => changed \/ promised = size
    /\ pc = "copy_read" => changed \/ body <= size
    /\ pc = "copy_write" => changed \/ body < size

\* Every answer with a file costs one descriptor, and two are the sockets'.
OneLeakPerAnswer == leaked = answers /\ leaked + 2 <= FdLimit

IInv ==
    /\ TypeOK /\ NoConnection /\ NoPieceLost /\ FileKnown /\ BodyInPromise
    /\ OneLeakPerAnswer /\ HonestLog

\* recv waits for a client that stays and has not sent the whole of its request,
\* or has something in it behind the blank line, which was received in one go
\* with that.  (Of the others the blank line is the last that arrives.)
Starved == pc = "recv" /\ arrived = 0 /\ ~gone /\ (unsent > 0 \/ req.extra > 0)

\* Every connection is taken up, and the server comes back to it from every
\* request, unless it is Starved or Clogged for ever.  After a stop signal it
\* ends, with the same exceptions and unless the signal came between the test
\* and accept, when it waits for one more connection.
Served ==
    /\ pending > 0 ~> (pending = 0 \/ pc = "ended" \/ []Starved \/ []Clogged)
    /\ must_stop_server ~> \/ pc = "ended"
                           \/ late /\ [](pc = "accept" /\ pending = 0)
                           \/ []Starved \/ []Clogged
=============================================================================
