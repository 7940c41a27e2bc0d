------------------------------- MODULE Primes -------------------------------
(***************************************************************************)
(* The two prime generators of inf19-1_posix_threads_condvar: a generator  *)
(* thread hands primes one at a time to the main thread, through one cell, *)
(* one mutex and one condition variable used in both directions.           *)
(*   main.c  hands over with the flag done and keeps the mutex when the    *)
(*           generator returns;                                            *)
(*   file.c  hands over with the value of the cell itself (Empty, a prime, *)
(*           or End once the generator is through) and signals outside the *)
(*           critical section.                                             *)
(***************************************************************************)
EXTENDS Integers, Sequences, FiniteSets

CONSTANT Args   \* command lines: <<A, B, N>>

ASSUME ArgsAssumption == Args \subseteq Nat \X Nat \X Nat

VARIABLES
    program, A, B, N,
    mutex,         \* the thread that holds the mutex, or "none"
    waiting,       \* threads blocked in pthread_cond_wait
    pc,            \* program counter of each thread
    cell, done,    \* num / prime_number, and the flag of main.c
    index, found,  \* locals of the generator
    out            \* what main has printed; its length is main's counter

args == <<program, A, B, N>>
vars == <<args, mutex, waiting, pc, cell, done, index, found, out>>

Threads == {"generator", "main"}
Empty   == -1
End     == -2

TypeOK ==
    /\ program \in {"main.c", "file.c"} /\ <<A, B, N>> \in Args
    /\ mutex \in Threads \cup {"none"}
    /\ waiting \subseteq Threads
    /\ pc \in [Threads -> {"lock", "loop", "signal", "relock", "check", "wait",
                           "last", "join", "end"}]
    /\ cell \in (A .. B) \cup {Empty, End}
    /\ done \in BOOLEAN
    /\ index \in Nat /\ found \in 0 .. N + 1
    /\ out \in Seq(A .. B) /\ Len(out) <= N

Init ==
    /\ program \in {"main.c", "file.c"}
    /\ \E a \in Args : A = a[1] /\ B = a[2] /\ N = a[3]
    /\ mutex = "none" /\ waiting = {}
    /\ pc = [t \in Threads |-> "lock"]
    /\ cell = Empty /\ done = FALSE
    /\ index = A /\ found = 0 /\ out = <<>>

-----------------------------------------------------------------------------
(* is_prime and prime.  Operators named bug_ are mutants of the definition  *)
(* that follows them.                                                      *)

bug_is_prime(num) ==
    num > 1 /\ \A div \in 2 .. num : div * div < num => num % div # 0

is_prime(num) ==
    num > 1 /\ \A div \in 2 .. num : div * div <= num => num % div # 0

prime(number) ==
    /\ number > 1
    /\ IF number % 2 = 0
       THEN number = 2
       ELSE \A i \in 2 .. (number \div 2) : number % i # 0

-----------------------------------------------------------------------------
(* The mutex and the condition variable (POSIX threads) *)

Goto(t, to) == pc' = [pc EXCEPT ![t] = to]

\* Lock the mutex and go on.
lock(t, from, to) ==
    /\ pc[t] = from /\ mutex = "none"
    /\ mutex' = t
    /\ Goto(t, to)
    /\ UNCHANGED <<args, waiting, cell, done, index, found, out>>

\* One of the waiting threads, if any, is woken.
Signal ==
    \/ waiting = {} /\ UNCHANGED waiting
    \/ \E t \in waiting : waiting' = waiting \ {t}

\* pthread_cond_wait gives the mutex up and blocks ...
cond_wait(t) ==
    /\ mutex' = "none"
    /\ waiting' = waiting \cup {t}
    /\ Goto(t, "wait")
    /\ UNCHANGED <<args, cell, done, index, found, out>>

bug_cond_wake(t) ==
    /\ pc[t] = "wait" /\ t \notin waiting
    /\ Goto(t, "check")
    /\ UNCHANGED <<args, mutex, waiting, cell, done, index, found, out>>

\* ... and takes it again after a wake-up, which may be spurious.
cond_wake(t) ==
    /\ pc[t] = "wait" /\ t \notin waiting /\ mutex = "none"
    /\ mutex' = t
    /\ Goto(t, "check")
    /\ UNCHANGED <<args, waiting, cell, done, index, found, out>>

spurious(t) ==
    /\ t \in waiting
    /\ waiting' = waiting \ {t}
    /\ UNCHANGED <<args, mutex, pc, cell, done, index, found, out>>

-----------------------------------------------------------------------------
(* main.c *)

bug_WantsMore == Len(out) <= N

\* The condition of main's loop.
WantsMore == Len(out) < N

routine ==
    LET t == "generator" IN
    \/ lock(t, "lock", "loop")
    \/ \* one iteration of the for loop, up to the wait
       /\ pc[t] = "loop"
       /\ IF index > B
          THEN Goto(t, "end") /\ UNCHANGED <<waiting, cell, done, index>>
          ELSE IF is_prime(index)
          THEN /\ cell' = index /\ done' = TRUE
               /\ Signal
               /\ Goto(t, "check") /\ UNCHANGED index
          ELSE index' = index + 1 /\ UNCHANGED <<pc, waiting, cell, done>>
       /\ UNCHANGED <<args, mutex, found, out>>
    \/ pc[t] = "check" /\ done /\ cond_wait(t)
    \/ \* the number was taken; returning keeps the mutex
       /\ pc[t] = "check" /\ ~done
       /\ found' = found + 1
       /\ IF N = found + 1
          THEN Goto(t, "end") /\ UNCHANGED index
          ELSE Goto(t, "loop") /\ index' = index + 1
       /\ UNCHANGED <<args, mutex, waiting, cell, done, out>>

main_c ==
    LET t == "main" IN
    \/ lock(t, "lock", "loop")
    \/ /\ pc[t] = "loop"
       /\ IF WantsMore
          THEN Goto(t, "check") /\ UNCHANGED mutex
          ELSE Goto(t, "join") /\ mutex' = "none"
       /\ UNCHANGED <<args, waiting, cell, done, index, found, out>>
    \/ pc[t] = "check" /\ ~done /\ cond_wait(t)
    \/ /\ pc[t] = "check" /\ done
       /\ out' = Append(out, cell)
       /\ done' = FALSE
       /\ Signal
       /\ Goto(t, "loop")
       /\ UNCHANGED <<args, mutex, cell, index, found>>

-----------------------------------------------------------------------------
(* file.c *)

\* Unlock, then signal with the mutex free.
unlock(t, to) == mutex' = "none" /\ Goto(t, to)

signal(t, from, to) ==
    /\ pc[t] = from
    /\ Signal
    /\ Goto(t, to)
    /\ UNCHANGED <<args, mutex, cell, done, index, found, out>>

find_primes ==
    LET t == "generator" IN
    \/ lock(t, "lock", "loop")
    \/ /\ pc[t] = "loop"
       /\ IF index > B
          THEN cell' = End /\ unlock(t, "last") /\ UNCHANGED index
          ELSE IF prime(index)
          THEN cell' = index /\ unlock(t, "signal") /\ UNCHANGED index
          ELSE index' = index + 1 /\ UNCHANGED <<pc, mutex, cell>>
       /\ UNCHANGED <<args, waiting, done, found, out>>
    \/ signal(t, "signal", "relock")
    \/ lock(t, "relock", "check")
    \/ pc[t] = "check" /\ cell # Empty /\ cond_wait(t)
    \/ /\ pc[t] = "check" /\ cell = Empty
       /\ found' = found + 1
       /\ IF found + 1 = N
          THEN cell' = End /\ unlock(t, "last") /\ UNCHANGED index
          ELSE Goto(t, "loop") /\ index' = index + 1 /\ UNCHANGED <<cell, mutex>>
       /\ UNCHANGED <<args, waiting, done, out>>
    \/ signal(t, "last", "end")

bug_MainHasToWait == cell \in {Empty, End}

MainHasToWait == cell = Empty

main_file ==
    LET t == "main" IN
    \/ lock(t, "lock", "loop")
    \/ /\ pc[t] = "loop"
       /\ unlock(t, IF WantsMore THEN "signal" ELSE "last")
       /\ UNCHANGED <<args, waiting, cell, done, index, found, out>>
    \/ signal(t, "signal", "relock")
    \/ lock(t, "relock", "check")
    \/ pc[t] = "check" /\ MainHasToWait /\ cond_wait(t)
    \/ /\ pc[t] = "check" /\ ~MainHasToWait
       /\ IF cell = End
          THEN unlock(t, "last") /\ UNCHANGED <<cell, out>>
          ELSE /\ out' = Append(out, cell)
               /\ cell' = Empty
               /\ Goto(t, "loop") /\ UNCHANGED mutex
       /\ UNCHANGED <<args, waiting, done, index, found>>
    \/ signal(t, "last", "join")

-----------------------------------------------------------------------------

main_join ==
    /\ pc["main"] = "join" /\ pc["generator"] = "end"
    /\ Goto("main", "end")
    /\ UNCHANGED <<args, mutex, waiting, cell, done, index, found, out>>

Generator ==
    \/ program = "main.c" /\ routine
    \/ program = "file.c" /\ find_primes
    \/ cond_wake("generator")

Main ==
    \/ program = "main.c" /\ main_c
    \/ program = "file.c" /\ main_file
    \/ cond_wake("main")
    \/ main_join

Next == Generator \/ Main \/ \E t \in Threads : spurious(t)

Spec == Init /\ [][Next]_vars

\* The system schedules both threads, and spurious wake-ups are not so
\* frequent that one thread keeps the mutex from the other by them alone.
FairSpec ==
    /\ Spec
    /\ WF_vars(Generator) /\ WF_vars(Main)
    /\ <>[][~\E t \in Threads : spurious(t)]_vars

-----------------------------------------------------------------------------
(* Properties *)

Stream == INSTANCE PrimeStream

\* Every number printed is the next prime of the interval, and no more than N
\* are: no prime is overwritten before main took it, none is printed twice.
StreamsPrimes == Stream!Spec

PrimesIn == {x \in A .. B : Stream!IsPrime(x)}

\* The arguments with which the programs are sure to end.  main.c has no sign
\* for "no more primes" and returns from the generator with the mutex locked;
\* with N = 0 a generator that finds a prime waits for a main thread that
\* takes none.
Answerable ==
    \/ program = "main.c" /\ N > 0 /\ Cardinality(PrimesIn) >= N
    \/ program = "file.c" /\ (N > 0 \/ PrimesIn = {})

\* No wake-up is lost: with such arguments the program ends, having printed
\* N primes or all there are.
Ends ==
    Answerable =>
      <>(pc["main"] = "end" /\ (Len(out) = N \/ Len(out) = Cardinality(PrimesIn)))

\* main.c has the flag done for a number in the cell, file.c the cell itself.
Full      == IF program = "main.c" THEN done ELSE cell \notin {Empty, End}
Inside(t) == pc[t] \in {"loop", "check"}

\* The generator has put index into the cell and has not seen it taken.
Offered == pc["generator"] \in {"check", "signal", "relock", "wait"}

\* The hand-over protocol: the generator is at most one number ahead, a
\* number it waits for is in the cell, a thread in its critical section holds
\* the mutex, and the two threads never wait for each other.
HandOver ==
    /\ ~(Inside("generator") /\ Inside("main"))
    /\ \A t \in Threads : Inside(t) => mutex = t
    /\ Full => Offered /\ cell = index /\ Len(out) = found
    /\ ~Full => Len(out) - found \in {0, 1}
    /\ waiting # Threads

-----------------------------------------------------------------------------
(* The inductive invariant: what main has printed is exactly the primes     *)
(* below the number the generator is at, and a thread only sleeps while the *)
(* other one has still to change what it waits for, or to signal it.        *)

Covered(bound) ==
    /\ \A i \in 1 .. Len(out) : out[i] < bound
    /\ \A x \in PrimesIn : x < bound => \E i \in 1 .. Len(out) : out[i] = x

Locked == \A t \in Threads : Inside(t) => mutex = t

Wanted == pc["main"] \in {"signal", "relock", "check", "wait"} => Len(out) < N

Offer ==
    /\ A <= index
    /\ Offered => index \in PrimesIn
    /\ Full => Offered /\ cell = index /\ Len(out) = found /\ Covered(index)
    /\ Offered /\ ~Full => Len(out) = found + 1 /\ Covered(index + 1)
    /\ ~Offered => Len(out) = found
    /\ pc["generator"] \in {"lock", "loop"} => Covered(index)

\* file.c signals after the critical section, main.c inside it.
Sleepers ==
    /\ \A t \in waiting : pc[t] = "wait"
    /\ "main" \in waiting =>
         IF program = "main.c" THEN ~done
         ELSE cell = Empty \/ pc["generator"] \in {"signal", "last"}
    /\ "generator" \in waiting =>
         IF program = "main.c" THEN done
         ELSE cell # Empty \/ pc["main"] \in {"loop", "signal", "last"}

IInv == TypeOK /\ Locked /\ Wanted /\ Offer /\ Sleepers
=============================================================================
