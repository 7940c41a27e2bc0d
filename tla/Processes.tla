------------------------------ MODULE Processes ------------------------------
(***************************************************************************)
(* Three programs about processes, signals and pipes.                      *)
(*   timeout   inf14-2: runs a program and ends it when its time is up;    *)
(*   count     inf13-0: counts SIGINT until SIGTERM;                       *)
(*   pipeline  inf15-4: runs programs one after the other, each with its   *)
(*             input connected to the output of the one before it.         *)
(* A standard signal that is pending is not queued a second time, so the   *)
(* pending signals of a process are a set.                                 *)
(***************************************************************************)
EXTENDS Integers, FiniteSets, FiniteSetsExt, Functions

CONSTANTS
    MaxSignals,     \* signals sent to the program, stops and continuations of its child
    MaxPrograms,    \* programs of a pipeline
    PipeCapacity,   \* units of output a pipe holds
    MaxOutput       \* units of output of one program

ASSUME BoundsAssumption ==
    {MaxSignals, MaxPrograms, PipeCapacity, MaxOutput} \subseteq Nat \ {0}

\* Open files: the terminal, and the two ends of the k-th pipe.
Free  == <<"free", 0>>
In    == <<"in", 0>>
Out   == <<"out", 0>>
Err   == <<"err", 0>>
R(k)  == <<"r", k>>
W(k)  == <<"w", k>>
Fds   == 0 .. 2 * MaxPrograms + 4

VARIABLES
    program, pc,
    pending, signals,            \* signals pending, and how many were made
    child,                       \* timeout: the state of the child
    ignores_term,                \* timeout: the child ignores SIGTERM
    handling, masked,            \* timeout: handle_signal is set, all signals are blocked
    verdict,                     \* timeout: what was printed
    ended_at, killed,            \* history: where main was when the child ended; kill was called
    sigint_count, should_exit,   \* count
    late,                        \* history: SIGTERM came between the test and pause
    n, i, output,                \* pipeline: programs, the current one, units each writes
    fds, read_fd, right_pipe,    \* the descriptors of main, and its variables
    kid, level, written          \* the running program, units in and through each pipe

timeoutVars  == <<child, ignores_term, handling, masked, verdict, ended_at, killed>>
countVars    == <<sigint_count, should_exit, late>>
pipelineVars == <<n, i, output, fds, read_fd, right_pipe, kid, level, written>>
vars == <<program, pc, pending, signals, timeoutVars, countVars, pipelineVars>>

NoKid == [state |-> "none", fds |-> [f \in Fds |-> Free], left |-> 0, eof |-> FALSE, got |-> 0]

Init ==
    /\ program \in {"timeout", "count", "pipeline"} /\ pc = "start"
    /\ pending = {} /\ signals = 0
    /\ child = "none" /\ ignores_term \in (IF program = "timeout" THEN BOOLEAN ELSE {FALSE})
    /\ handling = FALSE /\ masked = FALSE /\ verdict = "none"
    /\ ended_at = "none" /\ killed = FALSE
    /\ sigint_count = 0 /\ should_exit = FALSE /\ late = FALSE
    /\ n \in (IF program = "pipeline" THEN 1 .. MaxPrograms ELSE {1})
    /\ output \in [1 .. n -> IF program = "pipeline" THEN 0 .. MaxOutput ELSE {0}]
    /\ i = 0 /\ read_fd = 0 /\ right_pipe = <<0, 0>> /\ kid = NoKid
    /\ fds = [f \in Fds |-> CASE f = 0 -> In [] f = 1 -> Out [] f = 2 -> Err [] OTHER -> Free]
    /\ level = [k \in 0 .. MaxPrograms |-> 0] /\ written = level

-----------------------------------------------------------------------------
(* timeout.  Operators named bug_ are mutants of the definition that follows *)
(* them.                                                                     *)

Alive == child \in {"running", "stopped"}

\* main up to fork, which may fail.
fork ==
    /\ program = "timeout" /\ pc = "start"
    /\ \/ pc' = "forked" /\ child' = "running"
       \/ pc' = "done" /\ UNCHANGED child
    /\ UNCHANGED <<program, pending, signals, ignores_term, handling, masked, verdict, ended_at,
                   killed, countVars, pipelineVars>>

\* A change of the child's state is signalled to main, which drops SIGCHLD while
\* it has no handler for it.
Sigchld == pending' = IF handling THEN pending \cup {"SIGCHLD"} ELSE pending

\* The child, or its exec that failed, ends, or a signal of another process ends it.
child_end ==
    /\ child = "running" /\ child' \in {"exited", "signaled"}
    /\ ended_at' = pc /\ Sigchld
    /\ UNCHANGED <<program, pc, signals, ignores_term, handling, masked, verdict, killed,
                   countVars, pipelineVars>>

\* Another process stops the child or lets it continue; a stopped child dies of a
\* SIGTERM once it continues.
child_stop ==
    /\ Alive /\ signals < MaxSignals /\ signals' = signals + 1
    /\ child' = CASE child = "running" -> "stopped"
                  [] child = "stopped" /\ killed /\ ~ignores_term -> "signaled"
                  [] OTHER -> "running"
    /\ ended_at' = (IF child' = "signaled" THEN pc ELSE ended_at)
    /\ Sigchld
    /\ UNCHANGED <<program, pc, ignores_term, handling, masked, verdict, killed,
                   countVars, pipelineVars>>

set_signals_handler ==
    /\ pc = "forked" /\ pc' = "sleep" /\ handling' = TRUE
    /\ UNCHANGED <<program, pending, signals, child, ignores_term, masked, verdict, ended_at,
                   killed, countVars, pipelineVars>>

\* A signal is taken when sleep returns to main, at the latest.
sleep ==
    /\ pc = "sleep" /\ pending = {} /\ pc' = "over"
    /\ UNCHANGED <<program, pending, signals, timeoutVars, countVars, pipelineVars>>

bug_prohibit_all_signals ==
    /\ pc = "over" /\ pc' = "kill"
    /\ UNCHANGED <<program, pending, signals, timeoutVars, countVars, pipelineVars>>

prohibit_all_signals ==
    /\ pc = "over" /\ pc' = "kill" /\ masked' = TRUE
    /\ UNCHANGED <<program, pending, signals, child, ignores_term, handling, verdict, ended_at,
                   killed, countVars, pipelineVars>>

kill ==
    /\ pc = "kill" /\ pc' = "wait" /\ killed' = TRUE
    /\ IF child = "running" /\ ~ignores_term
       THEN child' = "signaled" /\ ended_at' = pc /\ Sigchld
       ELSE UNCHANGED <<child, ended_at, pending>>
    /\ UNCHANGED <<program, signals, ignores_term, handling, masked, verdict,
                   countVars, pipelineVars>>

\* wait(NULL) takes no notice of a child that is stopped.
wait ==
    /\ pc = "wait" /\ ~Alive /\ pc' = "done" /\ verdict' = "timeout"
    /\ UNCHANGED <<program, pending, signals, child, ignores_term, handling, masked, ended_at,
                   killed, countVars, pipelineVars>>

\* The handler begins, wherever main is.
sigchld ==
    /\ "SIGCHLD" \in pending /\ ~masked /\ pc \notin {"handler", "done"}
    /\ pending' = {} /\ pc' = "handler"
    /\ UNCHANGED <<program, signals, timeoutVars, countVars, pipelineVars>>

\* The handler waits for the end of the child, and ends the program.
handle_signal ==
    /\ pc = "handler" /\ ~Alive /\ pc' = "done"
    /\ verdict' = IF child = "exited" THEN "ok" ELSE "signaled"
    /\ UNCHANGED <<program, pending, signals, child, ignores_term, handling, masked, ended_at,
                   killed, countVars, pipelineVars>>

timeout_step == \/ set_signals_handler \/ sleep \/ prohibit_all_signals \/ kill \/ wait
                \/ sigchld \/ handle_signal

-----------------------------------------------------------------------------
(* count *)

\* main sets the handler of SIGINT, then that of SIGTERM.
sigaction ==
    /\ program = "count" /\ pc \in {"start", "sigint_set"}
    /\ pc' = IF pc = "start" THEN "sigint_set" ELSE "test"
    /\ UNCHANGED <<program, pending, signals, timeoutVars, countVars, pipelineVars>>

\* The loop: the test, and the call of pause.
main_loop ==
    /\ program = "count"
    /\ \/ pc = "test" /\ pc' = IF should_exit THEN "done" ELSE "before_pause"
       \/ pc = "before_pause" /\ pc' = "pause"
    /\ UNCHANGED <<program, pending, signals, timeoutVars, countVars, pipelineVars>>

\* Anybody sends a signal.
send ==
    /\ program = "count" /\ pc # "done" /\ signals < MaxSignals /\ signals' = signals + 1
    /\ \E sig \in {"SIGINT", "SIGTERM"} : pending' = pending \cup {sig}
    /\ UNCHANGED <<program, pc, timeoutVars, countVars, pipelineVars>>

\* A signal that has no handler yet ends the program.  The handler returns to
\* where main was, and pause returns after it.
take_signal ==
    /\ program = "count" /\ pc # "done"
    /\ \E sig \in pending :
         LET handled == pc \notin {"start", "sigint_set"} \/ (pc = "sigint_set" /\ sig = "SIGINT")
         IN  /\ pending' = pending \ {sig}
             /\ sigint_count' = sigint_count + (IF handled /\ sig = "SIGINT" THEN 1 ELSE 0)
             /\ should_exit' = (should_exit \/ (handled /\ sig = "SIGTERM"))
             /\ late' = (pc = "before_pause" /\ should_exit')
             /\ pc' = CASE ~handled -> "done" [] pc = "pause" -> "test" [] OTHER -> pc
    /\ UNCHANGED <<program, signals, timeoutVars, pipelineVars>>

-----------------------------------------------------------------------------
(* pipeline *)

\* The two lowest descriptors that are free become the ends of the k-th pipe.
NewPipe(table, k) ==
    LET a == Min({f \in Fds : table[f] = Free})
        b == Min({f \in Fds \ {a} : table[f] = Free})
    IN  [table |-> [table EXCEPT ![a] = R(k), ![b] = W(k)], ends |-> <<a, b>>]

\* main before its loop.
pipeline_start ==
    /\ program = "pipeline" /\ pc = "start" /\ pc' = "loop" /\ i' = 1
    /\ LET made == NewPipe(fds, 1) IN fds' = made.table /\ right_pipe' = made.ends
    /\ UNCHANGED <<program, pending, signals, timeoutVars, countVars, n, output, read_fd,
                   kid, level, written>>

bug_child_fds(table, in_fd, ends) ==
    LET input == [table EXCEPT ![0] = table[in_fd]]
        both  == [input EXCEPT ![1] = input[ends[2]]]
    IN  [both EXCEPT ![ends[1]] = Free]

\* The child: close(right_pipe[0]), dup2(in_fd, 0), dup2(out_fd, 1).
child_fds(table, in_fd, ends) ==
    LET closed == [table EXCEPT ![ends[1]] = Free]
        input  == [closed EXCEPT ![0] = closed[in_fd]]
    IN  [input EXCEPT ![1] = input[ends[2]]]

\* The loop up to waitpid: the last program keeps the output of main.  When
\* fork fails the loop ends.
launch_program ==
    /\ program = "pipeline" /\ pc = "loop" /\ i <= n
    /\ LET last  == i = n
           table == IF last THEN [fds EXCEPT ![right_pipe[2]] = Free] ELSE fds
           ends  == IF last THEN <<right_pipe[1], 1>> ELSE right_pipe
       IN  /\ right_pipe' = ends
           /\ \/ /\ pc' = "waitpid" /\ fds' = [table EXCEPT ![read_fd] = Free]
                 /\ kid' = [NoKid EXCEPT !.state = "exec", !.left = output[i],
                                         !.fds = child_fds(table, read_fd, ends)]
              \/ pc' = "done" /\ fds' = table /\ UNCHANGED kid
    /\ UNCHANGED <<program, pending, signals, timeoutVars, countVars, n, i, output, read_fd,
                   level, written>>

bug_close_out(table) == table

close_out(table) == [table EXCEPT ![right_pipe[2]] = Free]

\* The rest of launch_program and of the turn of the loop.
waitpid ==
    /\ pc = "waitpid" /\ kid.state = "ended" /\ pc' = "loop" /\ i' = i + 1
    /\ read_fd' = right_pipe[1]
    /\ LET made == NewPipe(close_out(fds), i')
       IN  fds' = made.table /\ right_pipe' = made.ends
    /\ UNCHANGED <<program, pending, signals, timeoutVars, countVars, n, output, kid,
                   level, written>>

pipeline_return ==
    /\ program = "pipeline" /\ pc = "loop" /\ i > n /\ pc' = "done"
    /\ UNCHANGED <<program, pending, signals, timeoutVars, countVars, pipelineVars>>

\* exec, or exit(1) when there is no such program.
execlp ==
    /\ kid.state = "exec" /\ kid' \in {[kid EXCEPT !.state = s] : s \in {"running", "ended"}}
    /\ UNCHANGED <<program, pc, pending, signals, timeoutVars, countVars, n, i, output, fds,
                   read_fd, right_pipe, level, written>>

\* The programs: they read to the end of their input, write what they have to, in
\* any order, and end.  The end of a pipe is seen when nobody can write into it.
Writers(k) == {table \in {fds, kid.fds} : W(k) \in Range(table)}

kid_read ==
    /\ kid.state = "running" /\ ~kid.eof
    /\ LET k == kid.fds[0][2]
       IN  \/ /\ kid.fds[0] = R(k) /\ level[k] > 0
              /\ level' = [level EXCEPT ![k] = @ - 1] /\ kid' = [kid EXCEPT !.got = @ + 1]
           \/ /\ kid.fds[0] = R(k) => level[k] = 0 /\ Writers(k) = {}
              /\ kid' = [kid EXCEPT !.eof = TRUE] /\ UNCHANGED level
    /\ UNCHANGED <<program, pc, pending, signals, timeoutVars, countVars, n, i, output, fds,
                   read_fd, right_pipe, written>>

kid_write ==
    /\ kid.state = "running" /\ kid.left > 0
    /\ LET k == kid.fds[1][2]
       IN  /\ kid.fds[1] = W(k) => level[k] < PipeCapacity
           /\ IF kid.fds[1] = W(k)
              THEN level' = [level EXCEPT ![k] = @ + 1] /\ written' = [written EXCEPT ![k] = @ + 1]
              ELSE UNCHANGED <<level, written>>
    /\ kid' = [kid EXCEPT !.left = @ - 1]
    /\ UNCHANGED <<program, pc, pending, signals, timeoutVars, countVars, n, i, output, fds,
                   read_fd, right_pipe>>

kid_exit ==
    /\ kid.state = "running" /\ kid.eof /\ kid.left = 0
    /\ kid' = [NoKid EXCEPT !.state = "ended"]
    /\ UNCHANGED <<program, pc, pending, signals, timeoutVars, countVars, n, i, output, fds,
                   read_fd, right_pipe, level, written>>

kid_step == execlp \/ kid_read \/ kid_write \/ kid_exit

-----------------------------------------------------------------------------

Main == \/ fork \/ timeout_step \/ sigaction \/ main_loop
        \/ pipeline_start \/ launch_program \/ waitpid \/ pipeline_return

Next == Main \/ child_end \/ child_stop \/ send \/ take_signal \/ kid_step

Spec == Init /\ [][Next]_vars

\* The programs are scheduled, pending signals are taken, and the programs of a
\* pipeline run; the child of timeout may do what it likes.
FairSpec == Spec /\ WF_vars(Main) /\ WF_vars(take_signal) /\ WF_vars(kid_step)

-----------------------------------------------------------------------------
(* Properties *)

\* timeout says what happened: "ok" of a child that ended by itself, "signaled" of
\* one that another process killed and never of one that timeout killed, and
\* "timeout" never of a child that ended while timeout slept.  A child that ends
\* before the handler is set is reported as "timeout": its SIGCHLD is lost.
HonestVerdict ==
    /\ verdict = "ok" => child = "exited" /\ ~killed
    /\ verdict = "signaled" => child = "signaled" /\ ~killed
    /\ verdict = "timeout" => ended_at \in {"forked", "over", "kill", "wait"}

\* The programs of a pipeline are connected in order, although descriptors are
\* used again as soon as they are closed: each reads what the one before it wrote,
\* all of it, and its output is held for the one after it.  Nobody keeps the
\* writing end of the pipe it reads, so it sees the end of its input.
ConnectedInOrder ==
    kid.state = "running" =>
      /\ kid.fds[0] = IF i = 1 THEN In ELSE R(i - 1)
      /\ kid.fds[1] = IF i = n THEN Out ELSE W(i)
      /\ i > 1 => Writers(i - 1) = {}
      /\ i < n => R(i) \in Range(fds)
      /\ kid.eof => kid.got = written[i - 1]

-----------------------------------------------------------------------------
(* The inductive invariant: what SIGCHLD and the mask leave possible, where  *)
(* the pipes of a turn are, and what each of them has carried.               *)

TimeoutPcs == {"forked", "sleep", "over", "kill", "wait", "handler"}
Signals == {"SIGCHLD", "SIGINT", "SIGTERM"}
Files == {"free", "in", "out", "err", "r", "w"} \X Nat
Kids == [state : {"none", "exec", "running", "ended"}, fds : [Fds -> Files],
         left : Nat, eof : BOOLEAN, got : Nat]

TypeOK ==
    /\ program \in {"timeout", "count", "pipeline"}
    /\ pc \in CASE program = "timeout"  -> TimeoutPcs \cup {"start", "done"}
              [] program = "count"    -> {"start", "sigint_set", "test", "before_pause", "pause", "done"}
              [] program = "pipeline" -> {"start", "loop", "waitpid", "done"}
    /\ pending \in SUBSET Signals
    /\ child \in {"none", "running", "stopped", "exited", "signaled"}
    /\ verdict \in {"none", "ok", "signaled", "timeout"}
    /\ ended_at \in TimeoutPcs \cup {"none"}
    /\ ignores_term \in BOOLEAN /\ handling \in BOOLEAN /\ masked \in BOOLEAN /\ killed \in BOOLEAN
    /\ should_exit \in BOOLEAN /\ late \in BOOLEAN /\ signals \in Nat /\ sigint_count \in Nat
    /\ n \in 1 .. MaxPrograms /\ i \in 0 .. n + 1 /\ output \in [1 .. n -> Nat]
    /\ fds \in [Fds -> Files] /\ read_fd \in Fds /\ right_pipe \in Fds \X Fds
    /\ kid \in Kids
    /\ level \in [0 .. MaxPrograms -> Nat] /\ written \in [0 .. MaxPrograms -> Nat]

\* Only timeout has a child, handles SIGCHLD and says what became of the child.
TimeoutOnly ==
    program # "timeout" =>
        /\ child = "none" /\ verdict = "none" /\ ended_at = "none" /\ ~handling /\ ~killed
        /\ "SIGCHLD" \notin pending

\* main does not end before the child, and each end of a child has its place.
ChildOutlived ==
    program = "timeout" =>
        /\ pc = "start" => child = "none" /\ "SIGCHLD" \notin pending
        /\ pc \in TimeoutPcs => child # "none"
        /\ pc = "done" => ~Alive
        /\ child \in {"exited", "signaled"} => ended_at # "none"

\* A child that ends while main sleeps is not missed: its SIGCHLD keeps main from
\* going on to kill it.
NotMissed ==
    /\ pc = "sleep" => handling
    /\ ended_at = "sleep" =>
         \/ pc = "sleep" /\ "SIGCHLD" \in pending
         \/ pc = "handler" \/ (pc = "done" /\ verdict # "timeout")
    /\ ended_at = "handler" => pc = "handler" \/ (pc = "done" /\ verdict # "timeout")

\* After kill no signal leads to the handler.
KillMasked ==
    /\ pc \in {"kill", "wait"} => masked
    /\ killed => pc = "wait" \/ (pc = "done" /\ verdict = "timeout")
    /\ verdict # "none" => pc = "done"

\* The end of the pipe that the current program is to read, or the terminal.
Input == IF i = 1 THEN In ELSE R(i - 1)

\* The programs other than the pipeline run no program and have no pipes.
PipelineOnly == program # "pipeline" => kid.state = "none"

\* The reading ends of the pipes before and after a program take turns in the
\* descriptors 0 and 3, and every writing end is in 4.
MainTable ==
    /\ pc = "start" => /\ i = 0 /\ read_fd = 0 /\ fds[0] = In /\ fds[1] = Out /\ fds[2] = Err
                       /\ \A f \in Fds : f > 2 => fds[f] = Free
    /\ (pc = "loop" /\ i <= n) \/ pc = "waitpid" =>
         /\ i \in 1 .. n /\ read_fd \in {0, 3} /\ right_pipe[1] = 3 - read_fd
         /\ fds[3 - read_fd] = R(i) /\ fds[1] = Out /\ fds[2] = Err
         /\ \A f \in Fds : f > 4 => fds[f] = Free
    /\ pc = "loop" /\ i <= n => right_pipe[2] = 4 /\ fds[read_fd] = Input /\ fds[4] = W(i)
    /\ pc = "waitpid" =>
         /\ right_pipe[2] = (IF i = n THEN 1 ELSE 4)
         /\ fds[read_fd] = Free /\ fds[4] = (IF i = n THEN Free ELSE W(i))

\* A program has its input and its output, and no way to write into its input.
KidTable ==
    kid.state \in {"exec", "running"} =>
        /\ pc = "waitpid"
        /\ kid.fds[0] = Input /\ kid.fds[1] = (IF i = n THEN Out ELSE W(i))
        /\ \A f \in Fds : kid.fds[f] # W(i - 1)

\* A pipe holds what was written into it until its reader is started, and then
\* what the reader has not got yet.
Flow ==
    /\ pc \in {"start", "loop", "waitpid"} =>
         \A k \in 0 .. MaxPrograms : k >= i => level[k] = written[k]
    /\ pc = "loop" /\ i <= n => level[i - 1] = written[i - 1]
    /\ kid.state \in {"exec", "running"} =>
         level[i - 1] + kid.got = written[i - 1] /\ (kid.eof => level[i - 1] = 0)
    /\ level[0] = 0 /\ written[0] = 0

TimeoutInv  == TimeoutOnly /\ ChildOutlived /\ NotMissed /\ KillMasked /\ HonestVerdict
PipelineInv == PipelineOnly /\ MainTable /\ KidTable /\ Flow

IInv == TypeOK /\ TimeoutInv /\ PipelineInv

-----------------------------------------------------------------------------
(* Liveness *)

\* The child keeps timeout waiting: it is stopped, or does not die of SIGTERM; or it
\* was stopped before its time was up, and the handler waits for it without limit.
KeptWaiting ==
    \/ pc = "wait" /\ (child = "stopped" \/ ignores_term)
    \/ pc = "handler" /\ Alive

\* A program that is followed by another writes more than a pipe holds, and waits
\* for ever: the next one is only started when it has ended.
Overfull == \E p \in 1 .. n - 1 : output[p] > PipeCapacity

\* Every program ends: timeout unless its child keeps it waiting, count after a
\* SIGTERM unless that came between its test and pause and no signal follows,
\* and a pipeline unless it is overfull.
Ends ==
    /\ (program = "timeout") ~> (pc = "done" \/ KeptWaiting)
    /\ (should_exit /\ ~late) ~> (pc = "done" \/ late)
    /\ (program = "pipeline" /\ ~Overfull) ~> (pc = "done")
=============================================================================
