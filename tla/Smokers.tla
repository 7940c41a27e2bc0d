------------------------------- MODULE Smokers -------------------------------
(***************************************************************************)
(* The cigarette smokers of inf20-2-posix_shm_sem_smokers: a parent reads  *)
(* commands and hands resources to three child processes through pairs of  *)
(* shared semaphores; at the end of the input it sends each SIGTERM and    *)
(* waits for it.                                                           *)
(*   main.c  the handler sets kick_out, which the smoker tests around      *)
(*           sem_wait; all smokers are killed, then all are waited for;    *)
(*   file.c  the handler calls _exit; each smoker is killed and waited for *)
(*           in turn; commands other than t and p hand out the last        *)
(*           resource, where main.c ignores what it does not know.         *)
(***************************************************************************)
EXTENDS Integers, Sequences, SequencesExt

CONSTANT MaxInput   \* commands in the input, at most

ASSUME MaxInputAssumption == MaxInput \in Nat

Commands == {"t", "p", "m", "newline"}
Smoker   == 0 .. 2

VARIABLES
    program, input,       \* the program and the commands it has still to read
    given,                \* history: smokers served, in the order of the commands
    resource, smoked,     \* the semaphores of each smoker
    ppc, turn,            \* the parent and its loop index / the smoker it serves
    pc, kick_out,         \* the smokers
    sigterm,              \* smokers with a pending SIGTERM
    out                   \* the output: the smoker of each line

children == <<pc, kick_out, sigterm>>
vars == <<program, input, given, resource, smoked, ppc, turn, children, out>>

TypeOK ==
    /\ program \in {"main.c", "file.c"}
    /\ input \in BoundedSeq(Commands, MaxInput)
    /\ given \in BoundedSeq(Smoker, MaxInput) /\ out \in BoundedSeq(Smoker, MaxInput)
    /\ resource \in [Smoker -> 0 .. 1] /\ smoked \in [Smoker -> 0 .. 1]
    /\ ppc \in {"fork", "read", "done_wait", "kill", "waitpid", "end"}
    /\ turn \in 0 .. 3
    /\ pc \in [Smoker -> {"unborn", "start", "check", "enter", "blocked", "got",
                          "smoke", "post", "dead"}]
    /\ kick_out \in [Smoker -> BOOLEAN]
    /\ sigterm \subseteq Smoker

Init ==
    /\ program \in {"main.c", "file.c"}
    /\ input \in UNION {[1 .. len -> Commands] : len \in 0 .. MaxInput}
    /\ given = <<>> /\ out = <<>>
    /\ resource = [s \in Smoker |-> 0] /\ smoked = [s \in Smoker |-> 0]
    /\ ppc = "fork" /\ turn = 0
    /\ pc = [s \in Smoker |-> "unborn"]
    /\ kick_out = [s \in Smoker |-> FALSE]
    /\ sigterm = {}

-----------------------------------------------------------------------------
(* The parent.  Operators named bug_ are mutants of the definition that     *)
(* follows them.                                                           *)

\* The smoker a command is for; 3 for none.
Addressee(command) ==
    CASE command = "t" -> 0
      [] command = "p" -> 1
      [] command = "m" -> 2
      [] OTHER -> IF program = "file.c" THEN 2 ELSE 3

parent_fork ==
    /\ ppc = "fork"
    /\ IF turn < 3
       THEN /\ pc' = [pc EXCEPT ![turn] = "start"]
            /\ turn' = turn + 1 /\ UNCHANGED ppc
       ELSE ppc' = "read" /\ turn' = 0 /\ UNCHANGED pc
    /\ UNCHANGED <<program, input, given, resource, smoked, kick_out, sigterm, out>>

\* scanf, then sem_post of the resource.
parent_read ==
    /\ ppc = "read" /\ input # <<>>
    /\ input' = Tail(input)
    /\ LET s == Addressee(Head(input)) IN
       IF s \in Smoker
       THEN /\ resource' = [resource EXCEPT ![s] = @ + 1]
            /\ given' = Append(given, s)
            /\ turn' = s /\ ppc' = "done_wait"
       ELSE UNCHANGED <<resource, given, turn, ppc>>
    /\ UNCHANGED <<program, smoked, children, out>>

bug_parent_done ==
    /\ ppc = "done_wait"
    /\ smoked' = [smoked EXCEPT ![turn] = 0]
    /\ ppc' = "read" /\ turn' = 0
    /\ UNCHANGED <<program, input, given, resource, children, out>>

parent_done ==
    /\ ppc = "done_wait" /\ smoked[turn] > 0
    /\ smoked' = [smoked EXCEPT ![turn] = @ - 1]
    /\ ppc' = "read" /\ turn' = 0
    /\ UNCHANGED <<program, input, given, resource, children, out>>

parent_eof ==
    /\ ppc = "read" /\ input = <<>>
    /\ ppc' = "kill" /\ turn' = 0
    /\ UNCHANGED <<program, input, given, resource, smoked, children, out>>

\* main.c goes on to the next smoker, file.c waits for this one first.
parent_kill ==
    /\ ppc = "kill"
    /\ sigterm' = sigterm \cup {turn}
    /\ IF program = "main.c" /\ turn < 2
       THEN turn' = turn + 1 /\ UNCHANGED ppc
       ELSE ppc' = "waitpid" /\ turn' = IF program = "main.c" THEN 0 ELSE turn
    /\ UNCHANGED <<program, input, given, resource, smoked, pc, kick_out, out>>

parent_waitpid ==
    /\ ppc = "waitpid" /\ pc[turn] = "dead"
    /\ turn' = turn + 1
    /\ ppc' = IF turn = 2 THEN "end" ELSE IF program = "main.c" THEN "waitpid" ELSE "kill"
    /\ UNCHANGED <<program, input, given, resource, smoked, children, out>>

Parent == parent_fork \/ parent_read \/ parent_done \/ parent_eof \/ parent_kill
            \/ parent_waitpid

-----------------------------------------------------------------------------
(* A smoker *)

Goto(s, from, to) == pc[s] = from /\ pc' = [pc EXCEPT ![s] = to]

\* sigaction: until then SIGTERM has its default action.
set_sigterm_handler(s) ==
    /\ Goto(s, "start", "check")
    /\ UNCHANGED <<program, input, given, resource, smoked, ppc, turn, kick_out, sigterm, out>>

\* The loop condition; file.c loops for ever.
smoker_check(s) ==
    /\ Goto(s, "check", IF kick_out[s] THEN "dead" ELSE "enter")
    /\ UNCHANGED <<program, input, given, resource, smoked, ppc, turn, kick_out, sigterm, out>>

\* sem_wait takes the resource or blocks.
smoker_sem_wait(s) ==
    /\ \/ /\ resource[s] > 0
          /\ Goto(s, "enter", "got") \/ Goto(s, "blocked", "got")
          /\ resource' = [resource EXCEPT ![s] = @ - 1]
       \/ /\ resource[s] = 0
          /\ Goto(s, "enter", "blocked")
          /\ UNCHANGED resource
    /\ UNCHANGED <<program, input, given, smoked, ppc, turn, kick_out, sigterm, out>>

smoker_got(s) ==
    /\ Goto(s, "got", IF kick_out[s] THEN "dead" ELSE "smoke")
    /\ UNCHANGED <<program, input, given, resource, smoked, ppc, turn, kick_out, sigterm, out>>

\* printf and fflush.
smoker_print(s) ==
    /\ Goto(s, "smoke", "post")
    /\ out' = Append(out, s)
    /\ UNCHANGED <<program, input, given, resource, smoked, ppc, turn, kick_out, sigterm>>

smoker_post(s) ==
    /\ Goto(s, "post", "check")
    /\ smoked' = [smoked EXCEPT ![s] = @ + 1]
    /\ UNCHANGED <<program, input, given, resource, ppc, turn, kick_out, sigterm, out>>

run_smoker(s) ==
    set_sigterm_handler(s) \/ smoker_check(s) \/ smoker_sem_wait(s) \/ smoker_got(s)
        \/ smoker_print(s) \/ smoker_post(s)

bug_Killed(s) == FALSE

\* SIGTERM ends the smoker at once: no handler yet, or the handler of file.c.
Killed(s) == pc[s] = "start" \/ program = "file.c"

\* Delivery of SIGTERM.  The handler of main.c sets kick_out; a smoker that is
\* blocked in sem_wait returns from it with EINTR, one that is about to call
\* sem_wait goes on to call it.
signal_handler(s) ==
    /\ s \in sigterm /\ pc[s] # "unborn"
    /\ sigterm' = sigterm \ {s}
    /\ IF Killed(s) \/ pc[s] = "dead"
       THEN pc' = [pc EXCEPT ![s] = "dead"] /\ UNCHANGED kick_out
       ELSE /\ kick_out' = [kick_out EXCEPT ![s] = TRUE]
            /\ pc' = [pc EXCEPT ![s] = IF @ = "blocked" THEN "got" ELSE @]
    /\ UNCHANGED <<program, input, given, resource, smoked, ppc, turn, out>>

-----------------------------------------------------------------------------

Next == Parent \/ \E s \in Smoker : run_smoker(s) \/ signal_handler(s)

Spec == Init /\ [][Next]_vars

\* The system schedules every process and delivers every signal.
FairSpec ==
    /\ Spec
    /\ WF_vars(Parent)
    /\ \A s \in Smoker : WF_vars(run_smoker(s)) /\ WF_vars(signal_handler(s))

-----------------------------------------------------------------------------
(* Properties *)

\* The output is the input's order: the k-th line comes from the smoker the
\* k-th resource was given to, and at most the resource just handed out has
\* not been smoked.
OutputFollowsInput ==
    /\ IsPrefix(out, given)
    /\ Len(given) - Len(out) \in {0, 1}
    /\ Len(out) < Len(given) => ppc = "done_wait" /\ turn = Last(given)

\* A smoker is killed only when nothing is under way: no resource is waiting
\* for it, and no line it owes or acknowledgement is cut off.
KilledAtRest ==
    \A s \in Smoker :
      s \in sigterm \/ kick_out[s] \/ pc[s] = "dead" =>
        /\ resource[s] = 0 /\ smoked[s] = 0
        /\ pc[s] \notin {"smoke", "post"}
        /\ Len(out) = Len(given)

-----------------------------------------------------------------------------
(* The inductive invariant: one resource is under way at a time, and only   *)
(* while the parent waits for the smoker it gave it to.                     *)

Serving(s) == ppc = "done_wait" /\ turn = s
\* A smoker whose sem_wait was interrupted has no resource.
InHand(s)  == pc[s] \in {"smoke", "post"} \/ (pc[s] = "got" /\ ~kick_out[s])
Rest(s)    == resource[s] = 0 /\ smoked[s] = 0 /\ ~InHand(s)

OneUnderWay ==
    \A s \in Smoker :
      IF Serving(s)
      THEN \/ resource[s] = 1 /\ smoked[s] = 0 /\ ~InHand(s)
           \/ resource[s] = 0 /\ smoked[s] = 0 /\ InHand(s)
           \/ resource[s] = 0 /\ smoked[s] = 1 /\ ~InHand(s)
      ELSE Rest(s)

\* The line is printed between got and post.
Printed(s) == pc[s] = "post" \/ smoked[s] = 1
OutputIsGiven ==
    given = IF ppc = "done_wait" /\ ~Printed(turn) THEN Append(out, turn) ELSE out

KilledAtTheEnd ==
    \A s \in Smoker :
      s \in sigterm \/ kick_out[s] \/ pc[s] = "dead" => ppc \in {"kill", "waitpid", "end"}

Bounded ==
    /\ Len(given) + Len(input) <= MaxInput
    /\ ppc \in {"done_wait", "kill", "waitpid"} => turn \in Smoker

IInv == TypeOK /\ OneUnderWay /\ OutputIsGiven /\ KilledAtTheEnd /\ Bounded

-----------------------------------------------------------------------------
(* Liveness *)

\* A smoker that missed its SIGTERM: kick_out was set after the loop tested it
\* and before sem_wait was entered, which nothing will interrupt again.
MissedSigterm(s) == pc[s] = "blocked" /\ kick_out[s]

\* The parent ends after having reaped every smoker, unless one of main.c's
\* smokers has missed its SIGTERM; then it waits for ever.
EndsUnlessMissed ==
    <>(\/ ppc = "end" /\ \A s \in Smoker : pc[s] = "dead"
       \/ program = "main.c" /\ \E s \in Smoker : [](MissedSigterm(s) /\ ppc = "waitpid"))
=============================================================================
