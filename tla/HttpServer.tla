----------------------------- MODULE HttpServer -----------------------------
(***************************************************************************)
(* The file and CGI server of inf16-2_posix_sockets_http-server-2: one     *)
(* connection at a time, a child process per executable file, and signal   *)
(* handlers without SA_RESTART.  A child whose execl fails returns from    *)
(* execute_file and goes on as a second server on the same listening       *)
(* socket, so that servers are a set of processes: 0 is the original, k    *)
(* the k-th child.  Request and response texts are abstracted to what the  *)
(* server does with them: the kind of the request, the number of body      *)
(* pieces of the response.  The header texts fit in a fresh socket's send  *)
(* buffer, body pieces may not.  What a second server prints, into the     *)
(* pipe that is its standard output, is one piece.                         *)
(***************************************************************************)
EXTENDS Integers, FiniteSets

CONSTANTS
    MaxConns,    \* client connections
    Kinds,       \* kinds of requests the clients send
    MaxForks,    \* processes the system lets the servers fork
    MaxPieces,   \* recv calls after which a request is too big
    FileLen,     \* pieces of a static file
    Outputs,     \* numbers of pieces the CGI programs write
    PipeCap,     \* pieces a pipe holds
    SockCap      \* body pieces a socket's send buffer holds

\* "refused" is a file that is missing, forbidden or cannot be examined: the
\* response has no body.  "badexec" is executable, but execl fails.
AllKinds == {"bad", "refused", "static", "cgi", "badexec"}

ASSUME HttpAssumption ==
    /\ Kinds \subseteq AllKinds
    /\ {MaxConns, MaxForks, MaxPieces, FileLen} \cup Outputs \subseteq Nat
    /\ PipeCap \in Nat \ {0} /\ SockCap \in Nat \ {0}

VARIABLES
    client,    \* the connections, with what their clients have received
    server,    \* the server processes
    child,     \* the forked processes and their output pipes
    pending    \* <<server, signal>>: signals not yet delivered

vars == <<client, server, child, pending>>

Conns    == 1 .. MaxConns
Children == 1 .. MaxForks
Servers  == 0 .. MaxForks
NoConn   == 0
NoSource == 0
File     == -1
NoPid    == -1

Pieces == UNION {0 .. n : n \in Outputs \cup {FileLen, 1}}

ClientRecords == [
    state : {"new", "queued", "open"}, request : AllKinds \cup {"none"},
    gone : BOOLEAN, body : Pieces, unread : 0 .. SockCap,
    changed : BOOLEAN, script : 0 .. MaxForks, result : {"none", "ok", "error"}]

ServerRecords == [
    pc : {"off", "check", "accept", "recv", "drained", "head", "stat", "open", "fork", "assign",
          "read", "write", "close", "end"},
    conn : Conns \cup {NoConn}, got : 0 .. MaxPieces,
    source : {NoSource, File} \cup Children, left : 0 .. FileLen,
    fds : SUBSET {"client", "file", "pipe_r", "pipe_w"}, result : {"ok", "error"},
    current : Children \cup {NoPid}, waits : SUBSET {"pid", "any"}, stop : BOOLEAN]

ChildRecords == [
    state : {"unused", "fresh", "running", "server", "zombie", "reaped"},
    parent : Servers, todo : Pieces, written : Pieces,
    pipe : 0 .. PipeCap, holds : SUBSET Children, ropen : BOOLEAN, missed : BOOLEAN]

TypeOK ==
    /\ client \in [Conns -> ClientRecords]
    /\ server \in [Servers -> ServerRecords]
    /\ child \in [Children -> ChildRecords]
    /\ pending \subseteq Servers \X {"STOP", "CHLD"}

FreshServer == [
    pc |-> "check", conn |-> NoConn, got |-> 0, source |-> NoSource, left |-> 0, fds |-> {},
    result |-> "ok", current |-> NoPid, waits |-> {}, stop |-> FALSE]

Init ==
    /\ client = [c \in Conns |-> [
         state |-> "new", request |-> "none", gone |-> FALSE,
         body |-> 0, unread |-> 0, changed |-> FALSE, script |-> 0,
         result |-> "none"]]
    /\ server = [p \in Servers |->
         IF p = 0 THEN FreshServer ELSE [FreshServer EXCEPT !.pc = "off"]]
    /\ child = [k \in Children |-> [
         state |-> "unused", parent |-> 0, todo |-> 0, written |-> 0, pipe |-> 0,
         holds |-> {}, ropen |-> FALSE, missed |-> FALSE]]
    /\ pending = {}

\* Server p is at `at` and runs: a signal is delivered before its next system
\* call returns, and a handler that waits runs nothing else.
At(p, at) ==
    /\ server[p].pc = at
    /\ server[p].waits = {}
    /\ <<p, "STOP">> \notin pending /\ <<p, "CHLD">> \notin pending

Request(p) == client[server[p].conn].request

-----------------------------------------------------------------------------
(* run_file_server: the accept loop *)

bug_MustStop(p) == FALSE

MustStop(p) == server[p].stop

\* A second server that exits writes what it has printed and not yet written.
must_stop(p) ==
    /\ At(p, "check")
    /\ p # 0 /\ MustStop(p) => child[p].todo = 0
    /\ IF MustStop(p)
       THEN /\ server' = [server EXCEPT ![p].pc = "end", ![p].fds = {}]
            /\ IF p = 0
               THEN UNCHANGED <<child, pending>>
               ELSE /\ child' = [child EXCEPT ![p].state = "zombie", ![p].holds = {},
                                              ![p].missed = server[child[p].parent].current # p]
                    /\ pending' = pending \cup {<<child[p].parent, "CHLD">>}
       ELSE /\ server' = [server EXCEPT ![p].pc = "accept"]
            /\ UNCHANGED <<child, pending>>
    /\ UNCHANGED client

\* accept may fail when a connection is there, as client_addr_len is never set;
\* the connection is then closed.
accept(p) ==
    /\ At(p, "accept")
    /\ \E c \in Conns :
         /\ client[c].state = "queued" /\ \A d \in 1 .. (c - 1) : client[d].state = "open"
         /\ client' = [client EXCEPT ![c].state = "open"]
         /\ \/ server' = [server EXCEPT ![p].pc = "recv", ![p].conn = c, ![p].got = 0,
                                        ![p].fds = @ \cup {"client"}]
            \/ server' = [server EXCEPT ![p].pc = "check"]
    /\ UNCHANGED <<child, pending>>

\* The forked processes keep the connection, too: the client sees its end
\* when no process holds it any more.
Closed(c) ==
    /\ client[c].state = "open"
    /\ \A p \in Servers : ~(server[p].conn = c /\ "client" \in server[p].fds)

close_client(p) ==
    /\ At(p, "close")
    /\ client' = [client EXCEPT ![server[p].conn].result = server[p].result]
    /\ server' = [server EXCEPT ![p].pc = "check", ![p].conn = NoConn, ![p].source = NoSource,
                                ![p].fds = @ \ {"client"}]
    /\ UNCHANGED <<child, pending>>

-----------------------------------------------------------------------------
(* read_request, read_request_head *)

bug_Failed(r) == [r EXCEPT !.pc = "close", !.result = "ok", !.got = 0, !.left = 0]

Failed(r) == [r EXCEPT !.pc = "close", !.result = "error", !.got = 0, !.left = 0]

bug_HungUp(p) == FALSE

\* recv gives 0 when the client has left and all it has sent is read, or -1.
HungUp(p) == client[server[p].conn].gone

\* One recv: some of the text, the rest of it with the blank line at its very
\* end, the rest of it when it goes on behind the blank line or has none, or more
\* than the buffer holds.  In the third case (drained) the server waits for more,
\* which does not come: only when the client leaves is the text parsed.
read_request(p) ==
    /\ \/ /\ At(p, "recv") /\ Request(p) # "none" /\ server[p].got < MaxPieces
          /\ server' = [server EXCEPT ![p].got = @ + 1]
       \/ /\ At(p, "recv") /\ Request(p) # "none"
          /\ \E next \in {"head", "drained"} :
                server' = [server EXCEPT ![p].pc = next, ![p].got = 0]
       \/ /\ At(p, "recv") /\ Request(p) # "none" /\ server[p].got = MaxPieces
          /\ server' = [server EXCEPT ![p] = Failed(@)]
       \/ /\ At(p, "drained") /\ HungUp(p)
          /\ server' = [server EXCEPT ![p].pc = "head"]
       \/ /\ At(p, "recv") \/ At(p, "drained")
          /\ HungUp(p)
          /\ server' = [server EXCEPT ![p] = Failed(@)]
    /\ UNCHANGED <<client, child, pending>>

\* A head that a client cut off when it left may be refused for that.
read_request_head(p) ==
    /\ At(p, "head")
    /\ \/ /\ Request(p) # "bad"
          /\ server' = [server EXCEPT ![p].pc = "stat"]
       \/ /\ Request(p) = "bad" \/ HungUp(p)
          /\ server' = [server EXCEPT ![p] = Failed(@)]
    /\ UNCHANGED <<client, child, pending>>

-----------------------------------------------------------------------------
(* make_response *)

\* stat, and the status line and headers, whose failed writes are ignored.
make_response(p) ==
    /\ At(p, "stat")
    /\ server' = [server EXCEPT
         ![p].result = "ok",
         ![p].pc = CASE Request(p) = "static" -> "open"
                     [] Request(p) \in {"cgi", "badexec"} -> "fork"
                     [] OTHER -> "close"]
    /\ UNCHANGED <<client, child, pending>>

\* The file may have been changed or removed since stat.
open_file(p) ==
    /\ At(p, "open")
    /\ \/ \E len \in 0 .. FileLen :
            /\ server' = [server EXCEPT ![p].pc = "read", ![p].source = File,
                                        ![p].left = len, ![p].fds = @ \cup {"file"}]
            /\ client' = [client EXCEPT ![server[p].conn].changed = len # FileLen]
       \/ /\ server' = [server EXCEPT ![p] = Failed(@)]
          /\ UNCHANGED client
    /\ UNCHANGED <<child, pending>>

\* pipe, fork and the parent's close of the writing end.  When fork fails the
\* pipe has no writer left and the response is an empty one.
execute_file(p) ==
    /\ At(p, "fork")
    /\ \/ /\ server' = [server EXCEPT ![p] = Failed(@)]
          /\ UNCHANGED <<client, child>>
       \/ /\ server' = [server EXCEPT ![p].pc = "read", ![p].source = NoSource,
                                      ![p].current = NoPid, ![p].fds = @ \cup {"pipe_r"}]
          /\ UNCHANGED <<client, child>>
       \/ \E k \in Children :
            /\ child[k].state = "unused" /\ \A j \in 1 .. (k - 1) : child[j].state # "unused"
            /\ child' = [child EXCEPT ![k].state = "fresh", ![k].parent = p,
                                      ![k].holds = {k} \cup (IF p = 0 THEN {} ELSE child[p].holds),
                                      ![k].ropen = TRUE]
            /\ server' = [server EXCEPT ![p].pc = "assign", ![p].source = k,
                                        ![p].fds = @ \cup {"pipe_r"},
                                        ![k] = [server[p] EXCEPT
                                                  !.pc = "off", !.result = "error",
                                                  !.fds = {"client", "pipe_w"}]]
            /\ client' = [client EXCEPT ![server[p].conn].script = k]
    /\ UNCHANGED pending

\* current_child_pid is only known to the handlers from here on.
execute_file_assign(p) ==
    /\ At(p, "assign")
    /\ server' = [server EXCEPT ![p].pc = "read", ![p].current = server[p].source]
    /\ UNCHANGED <<client, child, pending>>

bug_Finish(p, r) ==
    /\ server' = [server EXCEPT ![p].pc = "close", ![p].result = r, ![p].fds = @ \ {"file"}]
    /\ UNCHANGED child

\* copy_file returned r: the source is closed.
Finish(p, r) ==
    /\ server' = [server EXCEPT ![p].pc = "close", ![p].result = r,
                                ![p].fds = @ \ {"file", "pipe_r"}]
    /\ child' = IF server[p].source \in Children
                THEN [child EXCEPT ![server[p].source].ropen = FALSE]
                ELSE child

bug_Empty(p) == FALSE

\* child[j].holds: the pipes that process j could write into.  A second server
\* passes the one it inherited on to its own children.
\* What read gives p: nothing yet, the end of its source, a piece, or, from a
\* file, an error.
Empty(p) ==
    LET s == server[p].source
    IN CASE s = File -> server[p].left = 0 [] s \in Children -> child[s].pipe = 0 [] OTHER -> TRUE

HasWriter(p) == \E j \in Children : server[p].source \in child[j].holds

copy_file_read(p) ==
    /\ At(p, "read")
    /\ LET s == server[p].source IN
       \/ Empty(p) /\ ~HasWriter(p) /\ Finish(p, "ok")
       \/ s = File /\ Finish(p, "error")
       \/ /\ ~Empty(p) /\ s = File
          /\ server' = [server EXCEPT ![p].pc = "write", ![p].left = @ - 1]
          /\ UNCHANGED child
       \/ /\ ~Empty(p) /\ s \in Children
          /\ server' = [server EXCEPT ![p].pc = "write"]
          /\ child' = [child EXCEPT ![s].pipe = @ - 1]
    /\ UNCHANGED <<client, pending>>

\* write gives EPIPE: the client has closed the connection.  The first write
\* after that may still succeed.
write_failed(p) == client[server[p].conn].gone

write_all(p) ==
    /\ At(p, "write")
    /\ LET c == server[p].conn IN
       \/ write_failed(p) /\ Finish(p, "error") /\ UNCHANGED client
       \/ /\ client[c].gone \/ client[c].unread < SockCap
          /\ client' = [client EXCEPT ![c].unread = IF client[c].gone THEN @ ELSE @ + 1,
                                      ![c].body = @ + 1]
          /\ server' = [server EXCEPT ![p].pc = "read"]
          /\ UNCHANGED child
    /\ UNCHANGED pending

Serve(p) ==
    \/ must_stop(p) \/ accept(p) \/ close_client(p) \/ read_request(p)
    \/ read_request_head(p) \/ make_response(p) \/ open_file(p) \/ execute_file(p)
    \/ execute_file_assign(p) \/ copy_file_read(p) \/ write_all(p)

-----------------------------------------------------------------------------
(* signal_handler *)

\* The system call p is at would block.
Blocked(p) ==
    LET c == server[p].conn
    IN CASE server[p].pc = "accept" -> \A d \in Conns : client[d].state # "queued"
         [] server[p].pc = "recv"   -> client[c].request = "none" /\ ~client[c].gone
         [] server[p].pc = "drained" -> ~client[c].gone
         [] server[p].pc = "read"   -> Empty(p) /\ HasWriter(p)
         [] server[p].pc = "write"  -> ~client[c].gone /\ client[c].unread = SockCap
         [] OTHER -> FALSE

\* The outermost handler returns with p's new globals in r, and the child
\* processes in ch: a blocked call fails with EINTR, unless the signal came
\* just before the call was entered.
Return(p, r, ch) ==
    \/ /\ server' = [server EXCEPT ![p] = r]
       /\ child' = ch
    \/ /\ Blocked(p) /\ r.pc = "accept"
       /\ server' = [server EXCEPT ![p] = [r EXCEPT !.pc = "check"]]
       /\ child' = ch
    \/ /\ Blocked(p) /\ r.pc # "accept"
       /\ server' = [server EXCEPT ![p] = [Failed(r) EXCEPT !.fds = @ \ {"file", "pipe_r"}]]
       /\ child' = IF r.source \in Children THEN [ch EXCEPT ![r.source].ropen = FALSE] ELSE ch

Mine(p) == {k \in Children : child[k].parent = p /\ child[k].state \notin {"unused", "reaped"}}
Zombies(p) == {k \in Mine(p) : child[k].state = "zombie"}

\* SIGINT, SIGTERM, SIGABRT: kill the current child, then wait for any child.
signal_handler_stop(p) ==
    /\ <<p, "STOP">> \in pending
    /\ LET k == server[p].current IN
       IF k = NoPid
       THEN /\ Return(p, [server[p] EXCEPT !.stop = TRUE], child)
            /\ pending' = pending \ {<<p, "STOP">>}
       ELSE /\ server' = [server EXCEPT ![p].waits = @ \cup {"any"},
                                        ![k] = [@ EXCEPT !.pc = "off", !.fds = {}]]
            /\ child' = [j \in Children |->
                 CASE j = k -> [child[k] EXCEPT !.state = "zombie", !.holds = {}, !.todo = 0]
                   [] child[j].parent = k -> [child[j] EXCEPT !.ropen = FALSE]
                   [] OTHER -> child[j]]
            /\ pending' = (pending \ {<<p, "STOP">>, <<k, "CHLD">>}) \cup
                           (IF child[k].state = "zombie" THEN {} ELSE {<<p, "CHLD">>})
    /\ UNCHANGED client

\* wait has returned: must_stop_server is set, and the wait of an interrupted
\* SIGCHLD handler has no child any more.
Stopped(p) == [server[p] EXCEPT !.stop = TRUE, !.current = NoPid, !.waits = {}]

signal_handler_wait(p) ==
    /\ "any" \in server[p].waits
    /\ \/ \E j \in Zombies(p) : Return(p, Stopped(p), [child EXCEPT ![j].state = "reaped"])
       \/ Mine(p) = {} /\ Return(p, Stopped(p), child)
    /\ UNCHANGED <<client, pending>>

bug_Reap(p, k) == child

Reap(p, k) == IF k \in Zombies(p) THEN [child EXCEPT ![k].state = "reaped"] ELSE child

\* SIGCHLD: waitpid for the current child, which may be another one than the
\* child that has exited and may still be running.  In the handler of another
\* signal it may interrupt that one's wait.
signal_handler_chld(p) ==
    /\ <<p, "CHLD">> \in pending /\ "pid" \notin server[p].waits
    /\ pending' = pending \ {<<p, "CHLD">>}
    /\ LET k == server[p].current
           reaped == Reap(p, k)
       IN \/ /\ k \in Mine(p) \ Zombies(p)
             /\ server' = [server EXCEPT ![p].waits = @ \cup {"pid"}]
             /\ UNCHANGED child
          \/ /\ k \notin Mine(p) \ Zombies(p) /\ server[p].waits = {}
             /\ Return(p, [server[p] EXCEPT !.current = NoPid], reaped)
          \/ /\ k \notin Mine(p) \ Zombies(p) /\ "any" \in server[p].waits
             /\ \/ /\ server' = [server EXCEPT ![p].current = NoPid]
                   /\ child' = reaped
                \/ Return(p, Stopped(p), reaped)
    /\ UNCHANGED client

\* waitpid returns.
signal_handler_reaped(p) ==
    /\ server[p].waits = {"pid"} /\ server[p].current \in Zombies(p)
    /\ Return(p, [server[p] EXCEPT !.current = NoPid, !.waits = {}],
              Reap(p, server[p].current))
    /\ UNCHANGED <<client, pending>>

Handle(p) ==
    /\ server[p].pc \notin {"off", "end"}
    /\ \/ signal_handler_stop(p) \/ signal_handler_wait(p)
       \/ signal_handler_chld(p) \/ signal_handler_reaped(p)

-----------------------------------------------------------------------------
(* The forked processes: execl, then the CGI program *)

child_exec(k) ==
    /\ child[k].state = "fresh"
    /\ IF client[server[k].conn].request = "cgi"
       THEN /\ \E out \in Outputs :
                 child' = [child EXCEPT ![k].state = "running", ![k].todo = out]
            /\ UNCHANGED server
       ELSE \* execl failed: execute_file, make_response, handle_request return -1,
            \* and that is printed
            /\ child' = [child EXCEPT ![k].state = "server", ![k].todo = 1]
            /\ server' = [server EXCEPT ![k].pc = "close"]
    /\ UNCHANGED <<client, pending>>

\* A write into a pipe nobody reads kills the program.  (A second server handles
\* SIGPIPE.)  Standard output is buffered by line or until exit.
child_write(k) ==
    /\ child[k].state \in {"running", "server"} /\ child[k].todo > 0
    /\ IF child[k].ropen
       THEN /\ child[k].pipe < PipeCap
            /\ child' = [child EXCEPT ![k].todo = @ - 1, ![k].pipe = @ + 1,
                                      ![k].written = @ + 1]
       ELSE child' = [child EXCEPT ![k].todo = 0]
    /\ UNCHANGED <<client, server, pending>>

\* exit closes the files, the pipe and the connection among them, before the
\* parent is told.
child_close(k) ==
    /\ child[k].state = "running" /\ child[k].todo = 0 /\ child[k].holds # {}
    /\ child' = [child EXCEPT ![k].holds = {}]
    /\ server' = [server EXCEPT ![k].fds = {}]
    /\ UNCHANGED <<client, pending>>

child_exit(k) ==
    /\ child[k].state = "running" /\ child[k].holds = {}
    /\ child' = [child EXCEPT ![k].state = "zombie",
                              ![k].missed = server[child[k].parent].current # k]
    /\ pending' = pending \cup {<<child[k].parent, "CHLD">>}
    /\ UNCHANGED <<client, server>>

Program(k) == child_exec(k) \/ child_write(k) \/ child_close(k) \/ child_exit(k)

-----------------------------------------------------------------------------
(* The clients, and the user who stops the server *)

\* The listen queue is first in, first out; connections are numbered in the
\* order they are made.
client_connect(c) ==
    /\ client[c].state = "new" /\ \A d \in 1 .. (c - 1) : client[d].state # "new"
    /\ client' = [client EXCEPT ![c].state = "queued"]
    /\ UNCHANGED <<server, child, pending>>

client_send(c) ==
    /\ client[c].state \in {"queued", "open"} /\ client[c].request = "none" /\ ~client[c].gone
    /\ \E kind \in Kinds : client' = [client EXCEPT ![c].request = kind]
    /\ UNCHANGED <<server, child, pending>>

client_read(c) ==
    /\ client[c].unread > 0 /\ ~client[c].gone
    /\ client' = [client EXCEPT ![c].unread = @ - 1]
    /\ UNCHANGED <<server, child, pending>>

client_leave(c) ==
    /\ client[c].state \in {"queued", "open"} /\ ~client[c].gone
    /\ client' = [client EXCEPT ![c].gone = TRUE]
    /\ UNCHANGED <<server, child, pending>>

\* One stop signal, sent to the original process; a signal is blocked in its
\* own handler.
user_stop ==
    /\ server[0].pc # "end" /\ ~server[0].stop /\ "any" \notin server[0].waits
    /\ pending' = pending \cup {<<0, "STOP">>}
    /\ UNCHANGED <<client, server, child>>

Client(c) == client_send(c) \/ client_read(c)

\* What goes on by itself; connecting, leaving and stopping are choices.
System ==
    \/ \E p \in Servers : Serve(p) \/ Handle(p)
    \/ \E k \in Children : Program(k)
    \/ \E c \in Conns : Client(c)

Next ==
    \/ System
    \/ \E c \in Conns : client_connect(c) \/ client_leave(c)
    \/ user_stop

Spec == Init /\ [][Next]_vars

\* Processes run, signals are delivered, and clients send and read or leave.
\* Every process has finitely many steps to take, so that it is enough that
\* the system as a whole does not stop while one of them can go on.
FairSpec == Spec /\ WF_vars(System)

-----------------------------------------------------------------------------
(* Properties *)

\* Process k will never write again.
Silent(k) == child[k].todo = 0 /\ child[k].state \notin {"unused", "fresh"}

\* The whole of what c can be given has been written to it: the empty body of a
\* refusal; the pieces of the file, as many as Content-Length announced unless it
\* changed after stat; nothing for an executable file when fork failed; all that
\* the forked process ever writes, which is the CGI program or, when execl failed,
\* a second server, so that the client of a "badexec" gets a server's log.
Answered(c) ==
    LET cl == client[c] IN
    \/ cl.request = "refused" /\ cl.body = 0
    \/ cl.request = "static" /\ (cl.changed \/ cl.body = FileLen)
    \/ cl.request \in {"cgi", "badexec"} /\ cl.script = 0 /\ cl.body = 0
    \/ /\ cl.request \in {"cgi", "badexec"} /\ cl.script # 0
       /\ cl.body = child[cl.script].written /\ Silent(cl.script)

\* What "Successful request" in the log means (make_response, copy_file): the
\* answer is one of the four that Answered lists.  So a program's output is never
\* cut short unnoticed, and a failed fork or execl is not noticed at all.
HonestSuccess == \A c \in Conns : client[c].result = "ok" => Answered(c)

\* Between two requests the server holds no descriptor of the last one, on
\* whichever path, EINTR in a signal handler included, it left the request;
\* a child whose execl failed keeps the pipe it never closes.
NoFdLeak ==
    \A p \in Servers :
        server[p].pc \in {"check", "accept"} =>
            server[p].fds \subseteq (IF p = 0 THEN {} ELSE {"pipe_w"})

\* A CGI child that exits while it is current_child_pid is reaped, even when
\* SIGCHLD comes in the middle of a request; the other ones stay zombies.
Reaped ==
    \A k \in Children :
        (child[k].state = "zombie" /\ ~child[k].missed) ~>
            \/ child[k].state = "reaped"
            \/ server[child[k].parent].stop \/ server[child[k].parent].pc = "off"

\* p waits, perhaps forever, for a process that cannot go on without p or
\* never ends: a second server that is its child or has inherited the pipe it
\* reads, or a program whose output fills the pipe while p is in
\* signal_handler.
HeldUp(p) ==
    \/ \E k \in Children : /\ child[k].state = "server"
                           /\ k \in Mine(p) \/ server[p].source \in child[k].holds
    \/ \E k \in Mine(p) : server[p].waits # {} /\ child[k].pipe = PipeCap

\* p waits in recv, the client having sent a text that has no blank line at its
\* end, or something behind it that was received with it.
Stalled(p) == server[p].pc = "drained" /\ ~client[server[p].conn].gone

\* A stop signal is handled, and ends the server once it has left accept,
\* which a signal that comes between the test of must_stop_server and the
\* call does not interrupt; the server can be held up for good by a child, and
\* by a client in a recv that was entered after the signal had been handled.
StopHonoured ==
    /\ (<<0, "STOP">> \in pending) ~> (server[0].stop \/ server[0].pc = "end" \/ []HeldUp(0))
    /\ (server[0].stop /\ server[0].pc # "accept") ~>
           (server[0].pc = "end" \/ [](HeldUp(0) \/ Stalled(0)))

\* A client that connects has its connection closed in the end, whatever
\* other clients, programs and signals do, unless the server is stopped, or
\* a server is held up for good by a child or by a client's request.
Served ==
    \A c \in Conns :
        (client[c].state = "queued") ~>
            (Closed(c) \/ server[0].stop \/ [](\E p \in Servers : HeldUp(p) \/ Stalled(p)))

-----------------------------------------------------------------------------
(* The inductive invariant: what has become of each piece of an answer, and *)
(* who may touch a connection, a pipe and a descriptor.                      *)

Early   == {"recv", "drained", "head", "stat", "open", "fork"}
Copying == {"assign", "read", "write"}
Active  == Early \cup Copying \cup {"close"}

\* Nothing of the answer to c exists yet.
Untouched(c) ==
    client[c].body = 0 /\ client[c].script = 0 /\ ~client[c].changed /\ client[c].result = "none"

NewConns ==
    \A c \in Conns : client[c].state \in {"new", "queued"} =>
        Untouched(c) /\ \A p \in Servers : server[p].conn # c

\* Until a server forks no other process has its connection, and afterwards
\* only a second server has, which does nothing but close it as an error.
Alone ==
    \A p, q \in Servers :
      p # q /\ server[p].conn = server[q].conn =>
        /\ server[p].pc \notin Early
        /\ server[p].pc \in Active /\ server[q].pc \in Active =>
             \E e \in {p, q} : server[e].pc = "close" /\ server[e].result = "error"

\* The piece that has been read and not yet been written.
InHand(p) == IF server[p].pc = "write" THEN 1 ELSE 0

FromFile(p) ==
    LET cl  == client[server[p].conn]
        sum == cl.body + server[p].left + InHand(p)
    IN  /\ server[p].pc # "assign" /\ cl.request = "static"
        /\ sum <= FileLen /\ (~cl.changed => sum = FileLen)

FromChild(p) ==
    LET cl == client[server[p].conn]
        k  == server[p].source
    IN  /\ cl.request \in {"cgi", "badexec"} /\ cl.script = k
        /\ child[k].parent = p /\ child[k].state # "unused"
        /\ cl.body + child[k].pipe + InHand(p) = child[k].written

\* fork has failed.
FromNothing(p) ==
    LET cl == client[server[p].conn]
    IN  /\ server[p].pc = "read" /\ cl.request \in {"cgi", "badexec"}
        /\ cl.script = 0 /\ cl.body = 0

\* What a server at work knows of its request.
Serving(p) ==
    server[p].pc \in Active =>
      /\ server[p].conn \in Conns
      /\ server[p].pc # "close" => client[server[p].conn].result # "ok"
      /\ server[p].pc \in Early =>
           /\ Untouched(server[p].conn)
           /\ server[p].pc # "recv" => Request(p) # "none"
           /\ server[p].pc = "stat" => Request(p) # "bad"
           /\ server[p].pc = "open" => Request(p) = "static"
           /\ server[p].pc = "fork" => Request(p) \in {"cgi", "badexec"}
      /\ server[p].pc \in Copying =>
           /\ server[p].source = File => FromFile(p)
           /\ server[p].source \in Children => FromChild(p)
           /\ server[p].source = NoSource => FromNothing(p)
      /\ server[p].pc = "close" /\ server[p].result = "ok" => Answered(server[p].conn)

OwnFds(p) ==
    server[p].fds \subseteq
      (IF p = 0 THEN {} ELSE {"pipe_w"}) \cup
      (IF server[p].pc \in Active \cup {"off"} THEN {"client"} ELSE {}) \cup
      (IF server[p].pc \in Copying THEN {"file", "pipe_r"} ELSE {})

\* A child that has something left to write holds the end of its pipe.
Family(k) ==
    /\ child[k].state \in {"unused", "fresh"} =>
         child[k].todo = 0 /\ child[k].written = 0 /\ child[k].pipe = 0
    /\ child[k].state = "fresh" =>
         /\ server[k].conn \in Conns /\ server[k].result = "error"
         /\ Request(k) \in {"cgi", "badexec"}
    /\ child[k].state \in {"unused", "fresh", "running"} => server[k].pc = "off"
    /\ child[k].todo > 0 => child[k].state \in {"running", "server"}
    /\ child[k].state = "fresh" \/ child[k].todo > 0 => k \in child[k].holds
    /\ child[k].written + child[k].todo \in Pieces

IInv ==
    /\ TypeOK /\ NewConns /\ Alone /\ HonestSuccess
    /\ \A p \in Servers : Serving(p) /\ OwnFds(p)
    /\ \A k \in Children : Family(k)
=============================================================================
