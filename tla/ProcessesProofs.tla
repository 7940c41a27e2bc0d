---------------------------- MODULE ProcessesProofs ----------------------------
(***************************************************************************)
(* timeout's verdict is honest, and the programs of a pipeline of any      *)
(* length are connected in order, whatever they write and in whatever      *)
(* order signals come.  For timeout the invariant says when a SIGCHLD can  *)
(* still be taken; for the pipeline it says which file is behind each      *)
(* descriptor at each turn, although dup2 and pipe keep using the same     *)
(* three of them, and what each pipe has carried.                          *)
(***************************************************************************)
EXTENDS Processes, TLAPS

-----------------------------------------------------------------------------
(* Facts about the descriptors *)

LEMMA Bounds ==
    /\ MaxPrograms \in Nat /\ MaxPrograms >= 1
    /\ Fds = 0 .. 2 * MaxPrograms + 4 /\ {0, 1, 2, 3, 4} \subseteq Fds
  BY BoundsAssumption DEF Fds

\* Files are told apart by what they are, and pipes by their number.
LEMMA FilesDiffer ==
    ASSUME NEW k \in Nat
    PROVE  /\ {Free, In, Out, Err, R(k), W(k)} \subseteq Files
           /\ R(k)[2] = k /\ W(k)[2] = k /\ In[2] = 0 /\ Out[2] = 0
           /\ \A j \in Nat : /\ R(k) = R(j) => k = j
                             /\ W(k) = W(j) => k = j
                             /\ R(k) # W(j)
           /\ R(k) \notin {Free, In, Out, Err} /\ W(k) \notin {Free, In, Out, Err}
           /\ Free \notin {In, Out, Err}
  <1> USE DEF Free, In, Out, Err, R, W
  <1>1. {Free, In, Out, Err, R(k), W(k)} \subseteq Files
    BY DEF Files
  <1>2. R(k)[2] = k /\ W(k)[2] = k /\ In[2] = 0 /\ Out[2] = 0
    OBVIOUS
  <1>3. ASSUME NEW j \in Nat
        PROVE  (R(k) = R(j) => k = j) /\ (W(k) = W(j) => k = j)
    OBVIOUS
  <1>4. ASSUME NEW j \in Nat
        PROVE  R(k) # W(j)
    OBVIOUS
  <1>5. R(k) \notin {Free, In, Out, Err} /\ W(k) \notin {Free, In, Out, Err}
    OBVIOUS
  <1>6. Free \notin {In, Out, Err}
    OBVIOUS
  <1> QED
    BY <1>1, <1>2, <1>3, <1>4, <1>5, <1>6

LEMMA MinIs ==
    ASSUME NEW S \in SUBSET Int, NEW m \in S, \A y \in S : m <= y
    PROVE  Min(S) = m
  <1>1. \A x \in S : (\A y \in S : x <= y) => x = m
    OBVIOUS
  <1>2. Min(S) \in S /\ \A y \in S : Min(S) <= y
    BY Zenon DEF Min
  <1> QED
    BY <1>1, <1>2


\* The ends of the k-th pipe are in the descriptors a and b.
Piped(table, k, a, b) ==
    [table |-> [table EXCEPT ![a] = R(k), ![b] = W(k)], ends |-> <<a, b>>]

\* pipe takes the two lowest descriptors that are free.
LEMMA NewPipeTakes ==
    ASSUME NEW table \in [Fds -> Files], NEW k \in Nat, NEW a \in Fds, NEW b \in Fds,
           a < b, table[a] = Free, table[b] = Free,
           \A f \in Fds : f < b /\ f # a => table[f] # Free
    PROVE  NewPipe(table, k) = Piped(table, k, a, b)
  <1> USE Bounds
  <1>1. Min({f \in Fds : table[f] = Free}) = a
    <2>1. {f \in Fds : table[f] = Free} \in SUBSET Int /\ a \in {f \in Fds : table[f] = Free}
      OBVIOUS
    <2>2. \A y \in {f \in Fds : table[f] = Free} : a <= y
      OBVIOUS
    <2> QED
      BY <2>1, <2>2, MinIs
  <1>2. Min({f \in Fds \ {a} : table[f] = Free}) = b
    <2>1. /\ {f \in Fds \ {a} : table[f] = Free} \in SUBSET Int
          /\ b \in {f \in Fds \ {a} : table[f] = Free}
      OBVIOUS
    <2>2. \A y \in {f \in Fds \ {a} : table[f] = Free} : b <= y
      OBVIOUS
    <2> QED
      BY <2>1, <2>2, MinIs
  <1> QED
    BY <1>1, <1>2 DEF NewPipe, Piped

-----------------------------------------------------------------------------
(* What the steps of one program leave alone in the invariant of another *)

LEMMA PipelineFrame ==
    ASSUME IInv, UNCHANGED <<program, pipelineVars>>,
           \/ pc' = pc
           \/ program # "pipeline" /\ pc' \notin {"start", "loop", "waitpid"}
    PROVE  PipelineInv'
  <1> USE DEF pipelineVars, IInv, PipelineInv
  <1>1. PipelineOnly' /\ MainTable'
    BY DEF PipelineOnly, MainTable, Input
  <1>2. KidTable' /\ Flow'
    BY DEF PipelineOnly, KidTable, Flow, Input
  <1> QED
    BY <1>1, <1>2

LEMMA TimeoutFrame ==
    ASSUME IInv, UNCHANGED <<program, timeoutVars>>,
           pc' = pc \/ (program # "timeout" /\ pc' \notin TimeoutPcs),
           "SIGCHLD" \in pending' <=> "SIGCHLD" \in pending
    PROVE  TimeoutInv'
  <1> USE DEF timeoutVars, IInv, TimeoutInv
  <1>1. TimeoutOnly' /\ HonestVerdict'
    BY DEF TimeoutOnly, HonestVerdict
  <1>2. ChildOutlived'
    BY DEF ChildOutlived, Alive
  <1>3. NotMissed' /\ KillMasked'
    BY DEF TimeoutOnly, NotMissed, KillMasked, TimeoutPcs
  <1> QED
    BY <1>1, <1>2, <1>3

-----------------------------------------------------------------------------
(* The invariant is inductive *)

LEMMA InitIInv == Init => IInv
  <1> SUFFICES ASSUME Init PROVE IInv
    OBVIOUS
  <1> USE Bounds
  <1>0. {Free, In, Out, Err} \subseteq Files
    BY FilesDiffer
  <1>1. fds \in [Fds -> Files] /\ fds[0] = In /\ fds[1] = Out /\ fds[2] = Err
        /\ \A f \in Fds : f > 2 => fds[f] = Free
    BY <1>0 DEF Init
  <1>2. NoKid \in Kids
    BY <1>0 DEF NoKid, Kids
  <1>3. output \in [1 .. n -> Nat] /\ n \in 1 .. MaxPrograms
    BY BoundsAssumption DEF Init
  <1>4. TypeOK
    <2>1. level \in [0 .. MaxPrograms -> Nat] /\ written \in [0 .. MaxPrograms -> Nat]
      BY DEF Init
    <2>2. /\ pc \in CASE program = "timeout"  -> TimeoutPcs \cup {"start", "done"}
                   [] program = "count"    -> {"start", "sigint_set", "test", "before_pause", "pause", "done"}
                   [] program = "pipeline" -> {"start", "loop", "waitpid", "done"}
          /\ program \in {"timeout", "count", "pipeline"}
      BY DEF Init
    <2>3. i \in 0 .. n + 1 /\ read_fd \in Fds /\ right_pipe \in Fds \X Fds
      BY <1>3 DEF Init
    <2>4. ignores_term \in BOOLEAN
      BY DEF Init
    <2> QED
      BY <1>1, <1>2, <1>3, <2>1, <2>2, <2>3, <2>4 DEF Init, TypeOK
  <1>5. TimeoutInv
    BY DEF Init, TimeoutInv, TimeoutOnly, ChildOutlived, NotMissed, KillMasked, HonestVerdict,
           Alive, TimeoutPcs
  <1>6. PipelineOnly /\ KidTable
    BY DEF Init, PipelineOnly, KidTable, NoKid
  <1>7. MainTable /\ Flow
    BY <1>1 DEF Init, MainTable, Flow, NoKid
  <1> QED
    BY <1>4, <1>5, <1>6, <1>7 DEF IInv, PipelineInv

\* timeout and its child.
LEMMA TimeoutStep ==
    ASSUME IInv, fork \/ timeout_step \/ child_end \/ child_stop
    PROVE  IInv'
  <1> USE DEF IInv, countVars, TimeoutInv
  <1>1. UNCHANGED <<program, pipelineVars>>
    BY DEF fork, timeout_step, child_end, child_stop, set_signals_handler, sleep,
           prohibit_all_signals, kill, wait, sigchld, handle_signal, timeoutVars
  <1>2. CASE fork
    <2>0. program = "timeout" /\ pc' \in {"forked", "done"}
      BY <1>2 DEF fork
    <2>1. TypeOK'
      BY <1>1, <1>2, <2>0 DEF fork, TypeOK, TimeoutPcs, pipelineVars
    <2>2. TimeoutOnly' /\ ChildOutlived'
      BY <1>1, <1>2 DEF fork, TimeoutOnly, ChildOutlived, Alive, TimeoutPcs
    <2>3. NotMissed' /\ KillMasked' /\ HonestVerdict'
      BY <1>2 DEF fork, NotMissed, KillMasked, HonestVerdict
    <2>4. PipelineInv'
      BY <1>1, <2>0, PipelineFrame
    <2> QED
      BY <2>1, <2>2, <2>3, <2>4
  <1>3. CASE timeout_step
    <2>0. program = "timeout"
      BY <1>3 DEF timeout_step, set_signals_handler, sleep, prohibit_all_signals, kill, wait,
                  sigchld, handle_signal, TypeOK, TimeoutOnly, TimeoutPcs
    <2>1. pc' \in TimeoutPcs \cup {"done"}
      BY <1>3 DEF timeout_step, set_signals_handler, sleep, prohibit_all_signals, kill, wait,
                  sigchld, handle_signal, TimeoutPcs
    <2>2. PipelineInv'
      BY <1>1, <2>0, <2>1, PipelineFrame DEF TimeoutPcs
    <2>3. TypeOK'
      <3>1. UNCHANGED <<signals, ignores_term, sigint_count, should_exit, late>>
        BY <1>3 DEF timeout_step, set_signals_handler, sleep, prohibit_all_signals, kill, wait,
                    sigchld, handle_signal, timeoutVars
      <3>2. /\ handling' \in BOOLEAN /\ masked' \in BOOLEAN /\ killed' \in BOOLEAN
            /\ verdict' \in {"none", "ok", "signaled", "timeout"}
            /\ child' \in {"none", "running", "stopped", "exited", "signaled"}
        BY <1>3 DEF timeout_step, set_signals_handler, sleep, prohibit_all_signals, kill, wait,
                    sigchld, handle_signal, timeoutVars, TypeOK
      <3>3. ended_at' \in TimeoutPcs \cup {"none"} /\ pending' \in SUBSET Signals
        BY <1>3 DEF timeout_step, set_signals_handler, sleep, prohibit_all_signals, kill, wait,
                    sigchld, handle_signal, timeoutVars, TypeOK, Sigchld, Signals, TimeoutPcs
      <3> QED
        BY <1>1, <2>0, <2>1, <3>1, <3>2, <3>3 DEF TypeOK, pipelineVars
    <2>4. CASE set_signals_handler
      <3>1. TimeoutOnly' /\ ChildOutlived' /\ HonestVerdict'
        BY <1>1, <2>0, <2>4 DEF set_signals_handler, TimeoutOnly, ChildOutlived, Alive, HonestVerdict,
                                TimeoutPcs
      <3>2. NotMissed' /\ KillMasked'
        BY <2>4 DEF set_signals_handler, NotMissed, KillMasked
      <3> QED
        BY <2>2, <2>3, <3>1, <3>2
    <2>5. CASE sleep
      <3>1. TimeoutOnly' /\ ChildOutlived' /\ HonestVerdict'
        BY <1>1, <2>0, <2>5 DEF sleep, timeoutVars, TimeoutOnly, ChildOutlived, Alive, HonestVerdict,
                                TimeoutPcs
      <3>2. NotMissed' /\ KillMasked'
        BY <2>5 DEF sleep, timeoutVars, NotMissed, KillMasked
      <3> QED
        BY <2>2, <2>3, <3>1, <3>2
    <2>6. CASE prohibit_all_signals
      <3>1. TimeoutOnly' /\ ChildOutlived' /\ HonestVerdict'
        BY <1>1, <2>0, <2>6 DEF prohibit_all_signals, TimeoutOnly, ChildOutlived, Alive, HonestVerdict,
                                TimeoutPcs
      <3>2. NotMissed' /\ KillMasked'
        BY <2>6 DEF prohibit_all_signals, NotMissed, KillMasked
      <3> QED
        BY <2>2, <2>3, <3>1, <3>2
    <2>7. CASE kill
      <3>0. verdict = "none"
        BY <2>7 DEF kill, KillMasked, TypeOK
      <3>1. TimeoutOnly' /\ ChildOutlived'
        BY <1>1, <2>0, <2>7 DEF kill, TimeoutOnly, ChildOutlived, Alive, TimeoutPcs
      <3>2. NotMissed'
        BY <2>7 DEF kill, NotMissed
      <3>3. KillMasked' /\ HonestVerdict'
        BY <2>7, <3>0 DEF kill, KillMasked, HonestVerdict
      <3> QED
        BY <2>2, <2>3, <3>1, <3>2, <3>3
    <2>8. CASE wait
      <3>0. ended_at \in {"forked", "over", "kill", "wait"}
        BY <2>0, <2>8 DEF wait, ChildOutlived, NotMissed, Alive, TypeOK, TimeoutPcs
      <3>1. TimeoutOnly' /\ ChildOutlived'
        BY <1>1, <2>0, <2>8 DEF wait, TimeoutOnly, ChildOutlived, Alive, TimeoutPcs
      <3>2. NotMissed' /\ KillMasked' /\ HonestVerdict'
        BY <2>8, <3>0 DEF wait, NotMissed, KillMasked, HonestVerdict
      <3> QED
        BY <2>2, <2>3, <3>1, <3>2
    <2>9. CASE sigchld
      <3>0. verdict = "none" /\ ~killed
        BY <2>9 DEF sigchld, KillMasked, TypeOK
      <3>1. pc \in TimeoutPcs
        BY <2>0, <2>9 DEF sigchld, ChildOutlived, TypeOK
      <3>2. TimeoutOnly' /\ ChildOutlived'
        BY <1>1, <2>0, <2>9, <3>1 DEF sigchld, timeoutVars, TimeoutOnly, ChildOutlived, Alive,
                                TimeoutPcs, TypeOK
      <3>3. NotMissed' /\ KillMasked' /\ HonestVerdict'
        BY <2>9, <3>0 DEF sigchld, timeoutVars, NotMissed, KillMasked, HonestVerdict
      <3> QED
        BY <2>2, <2>3, <3>2, <3>3
    <2>10. CASE handle_signal
      <3>0. ~killed /\ child \in {"exited", "signaled"}
        BY <2>0, <2>10 DEF handle_signal, KillMasked, ChildOutlived, Alive, TypeOK, TimeoutPcs
      <3>1. TimeoutOnly' /\ ChildOutlived'
        BY <1>1, <2>0, <2>10 DEF handle_signal, TimeoutOnly, ChildOutlived, Alive, TimeoutPcs
      <3>2. NotMissed' /\ KillMasked' /\ HonestVerdict'
        BY <2>10, <3>0 DEF handle_signal, NotMissed, KillMasked, HonestVerdict
      <3> QED
        BY <2>2, <2>3, <3>1, <3>2
    <2> QED
      BY <1>3, <2>4, <2>5, <2>6, <2>7, <2>8, <2>9, <2>10 DEF timeout_step
  <1>4. CASE child_end
    <2>0. program = "timeout" /\ pc \in TimeoutPcs /\ verdict = "none"
      BY <1>4 DEF child_end, TimeoutOnly, ChildOutlived, Alive, TypeOK, KillMasked
    <2>1. TypeOK'
      BY <1>1, <1>4, <2>0 DEF child_end, TypeOK, Sigchld, Signals, pipelineVars
    <2>2. TimeoutOnly' /\ ChildOutlived' /\ HonestVerdict'
      BY <1>1, <1>4, <2>0 DEF child_end, TimeoutOnly, ChildOutlived, Alive, HonestVerdict, TimeoutPcs
    <2>3. NotMissed' /\ KillMasked'
      BY <1>4, <2>0 DEF child_end, Sigchld, NotMissed, KillMasked
    <2>4. PipelineInv'
      BY <1>1, <1>4, PipelineFrame DEF child_end
    <2> QED
      BY <2>1, <2>2, <2>3, <2>4
  <1>5. CASE child_stop
    <2>0. program = "timeout" /\ pc \in TimeoutPcs /\ verdict = "none"
      BY <1>5 DEF child_stop, TimeoutOnly, ChildOutlived, Alive, TypeOK, KillMasked
    <2>1. TypeOK'
      BY <1>1, <1>5, <2>0 DEF child_stop, TypeOK, Sigchld, Signals, pipelineVars
    <2>2. TimeoutOnly' /\ ChildOutlived' /\ HonestVerdict'
      BY <1>1, <1>5, <2>0 DEF child_stop, TimeoutOnly, ChildOutlived, Alive, HonestVerdict, TimeoutPcs
    <2>3. child' = "signaled" => killed
      BY <1>5 DEF child_stop, Alive
    <2>4. NotMissed' /\ KillMasked'
      BY <1>5, <2>0, <2>3 DEF child_stop, Sigchld, NotMissed, KillMasked
    <2>5. PipelineInv'
      BY <1>1, <1>5, PipelineFrame DEF child_stop
    <2> QED
      BY <2>1, <2>2, <2>4, <2>5
  <1> QED
    BY <1>2, <1>3, <1>4, <1>5

LEMMA CountStep ==
    ASSUME IInv, sigaction \/ main_loop \/ send \/ take_signal
    PROVE  IInv'
  <1>1. program = "count" /\ UNCHANGED <<program, timeoutVars, pipelineVars>>
    BY DEF sigaction, main_loop, send, take_signal, countVars
  <1>2. pc' \in {"start", "sigint_set", "test", "before_pause", "pause", "done"}
        /\ (pc' = "start" => pc = "start")
    BY <1>1 DEF sigaction, main_loop, send, take_signal, IInv, TypeOK
  <1>3. /\ pending' \in SUBSET Signals /\ signals' \in Nat
        /\ "SIGCHLD" \in pending' <=> "SIGCHLD" \in pending
    <2>1. CASE sigaction \/ main_loop
      BY <2>1 DEF sigaction, main_loop, IInv, TypeOK
    <2>2. CASE send
      BY <2>2 DEF send, IInv, TypeOK, Signals
    <2>3. CASE take_signal
      <3>1. "SIGCHLD" \notin pending
        BY <1>1 DEF IInv, TimeoutInv, TimeoutOnly
      <3> QED
        BY <2>3, <3>1 DEF take_signal, IInv, TypeOK
    <2> QED
      BY <2>1, <2>2, <2>3
  <1>4. sigint_count' \in Nat /\ should_exit' \in BOOLEAN /\ late' \in BOOLEAN
    <2>1. CASE sigaction \/ main_loop \/ send
      BY <2>1 DEF sigaction, main_loop, send, countVars, IInv, TypeOK
    <2>2. CASE take_signal
      BY <2>2 DEF take_signal, IInv, TypeOK
    <2> QED
      BY <2>1, <2>2
  <1>5. TypeOK'
    BY <1>1, <1>2, <1>3, <1>4 DEF IInv, TypeOK, timeoutVars, pipelineVars
  <1>6. TimeoutInv'
    BY <1>1, <1>2, <1>3, TimeoutFrame DEF TimeoutPcs
  <1>7. PipelineInv'
    BY <1>1, <1>2, PipelineFrame
  <1> QED
    BY <1>5, <1>6, <1>7 DEF IInv

\* The programs that the pipeline runs.
LEMMA KidStep ==
    ASSUME IInv, kid_step
    PROVE  IInv'
  <1> USE DEF IInv, PipelineInv
  <1>0. /\ UNCHANGED <<program, pc, pending, signals, timeoutVars, countVars>>
        /\ UNCHANGED <<n, i, output, fds, read_fd, right_pipe>>
    BY DEF kid_step, execlp, kid_read, kid_write, kid_exit
  <1>1. kid.state \in {"exec", "running"} /\ pc = "waitpid" /\ i \in 1 .. n /\ n \in 1 .. MaxPrograms
    BY DEF kid_step, execlp, kid_read, kid_write, kid_exit, KidTable, MainTable, TypeOK
  <1>2. program = "pipeline"
    BY <1>1 DEF PipelineOnly
  <1>3. TimeoutInv' /\ MainTable' /\ PipelineOnly'
    <2>1. TimeoutInv'
      BY <1>0, TimeoutFrame
    <2> QED
      BY <1>0, <1>2, <2>1 DEF MainTable, Input, PipelineOnly
  <1>4. /\ kid \in Kids /\ i - 1 \in 0 .. MaxPrograms /\ i \in 0 .. MaxPrograms /\ i \in Nat
        /\ i - 1 \in Nat /\ i # i - 1
        /\ level \in [0 .. MaxPrograms -> Nat] /\ written \in [0 .. MaxPrograms -> Nat]
    <2>1. kid \in Kids
      BY DEF TypeOK
    <2>2. level \in [0 .. MaxPrograms -> Nat] /\ written \in [0 .. MaxPrograms -> Nat]
      BY DEF TypeOK
    <2>3. /\ i - 1 \in 0 .. MaxPrograms /\ i \in 0 .. MaxPrograms /\ i \in Nat
          /\ i - 1 \in Nat /\ i # i - 1
      BY <1>1, Bounds
    <2> QED
      BY <2>1, <2>2, <2>3
  <1>5. ASSUME kid' \in Kids, level' \in [0 .. MaxPrograms -> Nat], written' \in [0 .. MaxPrograms -> Nat]
        PROVE  TypeOK'
    BY <1>0, <1>5 DEF TypeOK, timeoutVars, countVars
  <1>6. ASSUME kid'.fds = kid.fds
        PROVE  KidTable'
    BY <1>0, <1>1, <1>6 DEF KidTable, Input
  <1>7. kid.fds[0] = Input /\ kid.fds[1] = (IF i = n THEN Out ELSE W(i))
    BY <1>1 DEF KidTable
  <1>8. CASE execlp
    <2>1. PICK st \in {"running", "ended"} : kid' = [kid EXCEPT !.state = st]
      BY <1>8 DEF execlp
    <2>2. kid' \in Kids /\ kid'.fds = kid.fds /\ kid'.got = kid.got /\ kid'.eof = kid.eof
      BY <1>4, <2>1 DEF Kids
    <2>3. UNCHANGED <<level, written>>
      BY <1>8 DEF execlp
    <2>4. TypeOK' /\ KidTable'
      BY <1>4, <1>5, <1>6, <2>2, <2>3
    <2>5. Flow'
      BY <1>0, <1>1, <2>2, <2>3 DEF Flow
    <2> QED
      BY <1>3, <2>4, <2>5
  <1>9. CASE kid_read
    <2>1. CASE /\ kid.fds[0] = R(kid.fds[0][2]) /\ level[kid.fds[0][2]] > 0
               /\ level' = [level EXCEPT ![kid.fds[0][2]] = @ - 1]
               /\ kid' = [kid EXCEPT !.got = @ + 1]
      <3>1. kid.fds[0][2] = i - 1 /\ i # 1
        BY <1>4, <1>7, <2>1, FilesDiffer DEF Input
      <3>2. kid' \in Kids /\ kid'.fds = kid.fds /\ kid'.got = kid.got + 1 /\ kid'.eof = kid.eof
        BY <1>4, <2>1 DEF Kids
      <3>3. level' = [level EXCEPT ![i - 1] = @ - 1] /\ level[i - 1] > 0
        BY <2>1, <3>1
      <3>4. level' \in [0 .. MaxPrograms -> Nat] /\ written' = written
        BY <1>4, <1>9, <3>3 DEF kid_read
      <3>5. TypeOK' /\ KidTable'
        BY <1>4, <1>5, <1>6, <3>2, <3>4
      <3>6. Flow'
        <4>1. ~kid.eof /\ level[i - 1] + kid.got = written[i - 1] /\ kid.got \in Nat
          BY <1>1, <1>4, <1>9 DEF Flow, Kids, kid_read
        <4>2. level'[i - 1] = level[i - 1] - 1 /\ \A k \in 0 .. MaxPrograms : k # i - 1 => level'[k] = level[k]
          BY <1>4, <3>3
        <4>3. level'[i - 1] + kid'.got = written'[i - 1] /\ ~kid'.eof
          BY <1>4, <3>2, <3>4, <4>1, <4>2
        <4> QED
          BY Bounds, <1>0, <1>1, <1>4, <3>1, <3>4, <4>2, <4>3 DEF Flow
      <3> QED
        BY <1>3, <3>5, <3>6
    <2>2. CASE /\ kid.fds[0] = R(kid.fds[0][2]) =>
                    level[kid.fds[0][2]] = 0 /\ Writers(kid.fds[0][2]) = {}
               /\ kid' = [kid EXCEPT !.eof = TRUE] /\ UNCHANGED level
      <3>1. level[i - 1] = 0
        <4>1. CASE i = 1
          BY <1>4, <4>1 DEF Flow
        <4>2. CASE i # 1
          <5>1. kid.fds[0] = R(i - 1) /\ kid.fds[0][2] = i - 1
            BY <1>4, <1>7, <4>2, FilesDiffer DEF Input
          <5> QED
            BY <2>2, <5>1
        <4> QED
          BY <4>1, <4>2
      <3>2. kid' \in Kids /\ kid'.fds = kid.fds /\ kid'.got = kid.got /\ kid'.eof = TRUE
        BY <1>4, <2>2 DEF Kids
      <3>3. UNCHANGED <<level, written>>
        BY <1>9, <2>2 DEF kid_read
      <3>4. TypeOK' /\ KidTable'
        BY <1>4, <1>5, <1>6, <3>2, <3>3
      <3>5. Flow'
        BY <1>0, <1>1, <3>1, <3>2, <3>3 DEF Flow
      <3> QED
        BY <1>3, <3>4, <3>5
    <2> QED
      BY <1>9, <2>1, <2>2 DEF kid_read
  <1>10. CASE kid_write
    <2>1. kid.left > 0 /\ kid' = [kid EXCEPT !.left = @ - 1]
      BY <1>10 DEF kid_write
    <2>2. kid' \in Kids /\ kid'.fds = kid.fds /\ kid'.got = kid.got /\ kid'.eof = kid.eof
      BY <1>4, <2>1 DEF Kids
    <2>3. CASE i = n
      <3>1. kid.fds[1] # W(kid.fds[1][2])
        BY <1>7, <2>3, FilesDiffer DEF Out, W
      <3>2. UNCHANGED <<level, written>>
        BY <1>10, <3>1 DEF kid_write
      <3>3. TypeOK' /\ KidTable'
        BY <1>4, <1>5, <1>6, <2>2, <3>2
      <3>4. Flow'
        BY <1>0, <1>1, <2>2, <3>2 DEF Flow
      <3> QED
        BY <1>3, <3>3, <3>4
    <2>4. CASE i # n
      <3>1. kid.fds[1] = W(i) /\ kid.fds[1][2] = i
        BY <1>4, <1>7, <2>4, FilesDiffer
      <3>2. level' = [level EXCEPT ![i] = @ + 1] /\ written' = [written EXCEPT ![i] = @ + 1]
        BY <1>10, <3>1 DEF kid_write
      <3>3. level' \in [0 .. MaxPrograms -> Nat] /\ written' \in [0 .. MaxPrograms -> Nat]
        BY <1>4, <3>2
      <3>4. TypeOK' /\ KidTable'
        BY <1>5, <1>6, <2>2, <3>3
      <3>5. /\ level'[i] = level[i] + 1 /\ written'[i] = written[i] + 1
            /\ \A k \in 0 .. MaxPrograms : k # i => level'[k] = level[k] /\ written'[k] = written[k]
        BY <1>4, <3>2
      <3>6. /\ level'[0] = 0 /\ written'[0] = 0
            /\ level'[i - 1] = level[i - 1] /\ written'[i - 1] = written[i - 1]
        BY Bounds, <1>1, <1>4, <3>5 DEF Flow
      <3>7. \A k \in 0 .. MaxPrograms : k >= i => level'[k] = written'[k]
        BY <1>1, <1>4, <3>5 DEF Flow
      <3>8. Flow'
        BY <1>0, <1>1, <2>2, <3>6, <3>7 DEF Flow
      <3> QED
        BY <1>3, <3>4, <3>8
    <2> QED
      BY <2>3, <2>4
  <1>11. CASE kid_exit
    <2>1. kid' = [NoKid EXCEPT !.state = "ended"] /\ UNCHANGED <<level, written>>
      BY <1>11 DEF kid_exit
    <2>2. Free \in Files
      BY FilesDiffer
    <2>3. kid' \in Kids /\ kid'.state = "ended"
      BY <2>1, <2>2 DEF NoKid, Kids
    <2>4. TypeOK' /\ KidTable'
      BY <1>4, <1>5, <2>1, <2>3 DEF KidTable
    <2>5. Flow'
      BY <1>0, <1>1, <2>1, <2>3 DEF Flow
    <2> QED
      BY <1>3, <2>4, <2>5
  <1> QED
    BY <1>8, <1>9, <1>10, <1>11 DEF kid_step

\* main of the pipeline.
LEMMA PipelineStep ==
    ASSUME IInv, pipeline_start \/ launch_program \/ waitpid \/ pipeline_return
    PROVE  IInv'
  <1> USE DEF IInv, PipelineInv
  <1>0. /\ program = "pipeline" /\ UNCHANGED <<program, pending, signals, timeoutVars, countVars>>
        /\ UNCHANGED <<n, output, level, written>>
        /\ pc' \in {"loop", "waitpid", "done"}
    BY DEF pipeline_start, launch_program, waitpid, pipeline_return, pipelineVars, TypeOK, TimeoutPcs
  <1>1. TimeoutInv'
    BY <1>0, TimeoutFrame DEF TimeoutPcs
  <1>2. /\ n \in 1 .. MaxPrograms /\ n \in Nat /\ i \in Nat /\ fds \in [Fds -> Files] /\ kid \in Kids
        /\ level \in [0 .. MaxPrograms -> Nat] /\ written \in [0 .. MaxPrograms -> Nat]
    <2>1. n \in 1 .. MaxPrograms /\ i \in 0 .. n + 1
      BY DEF TypeOK
    <2>2. /\ fds \in [Fds -> Files] /\ kid \in Kids
          /\ level \in [0 .. MaxPrograms -> Nat] /\ written \in [0 .. MaxPrograms -> Nat]
      BY DEF TypeOK
    <2> QED
      BY <2>1, <2>2, Bounds
  <1>3. ASSUME i' \in 0 .. n + 1, fds' \in [Fds -> Files], read_fd' \in Fds,
               right_pipe' \in Fds \X Fds, kid' \in Kids
        PROVE  TypeOK'
    BY <1>0, <1>3 DEF TypeOK, timeoutVars, countVars
  <1>4. PipelineOnly'
    BY <1>0 DEF PipelineOnly
  <1>5. {0, 1, 2, 3, 4} \subseteq Fds /\ \A f \in Fds : f \in Nat
    BY Bounds
  <1>6. CASE pipeline_start
    <2>1. /\ i = 0 /\ read_fd = 0 /\ fds[0] = In /\ fds[1] = Out /\ fds[2] = Err
          /\ \A f \in Fds : f > 2 => fds[f] = Free
      BY <1>6 DEF pipeline_start, MainTable
    <2>2. \A f \in Fds : f < 4 /\ f # 3 => fds[f] # Free
      BY <1>5, <2>1, FilesDiffer
    <2>3. NewPipe(fds, 1) = Piped(fds, 1, 3, 4)
      <3>1. 3 \in Fds /\ 4 \in Fds /\ 3 < 4 /\ fds[3] = Free /\ fds[4] = Free /\ 1 \in Nat
        BY <1>5, <2>1
      <3>2. fds \in [Fds -> Files]
        BY <1>2
      <3> QED
        BY <2>2, <3>1, <3>2, NewPipeTakes
    <2>4. /\ fds' = [fds EXCEPT ![3] = R(1), ![4] = W(1)] /\ right_pipe' = <<3, 4>>
          /\ i' = 1 /\ pc' = "loop" /\ read_fd' = 0 /\ kid' = kid
      <3>1. /\ Piped(fds, 1, 3, 4).table = [fds EXCEPT ![3] = R(1), ![4] = W(1)]
            /\ Piped(fds, 1, 3, 4).ends = <<3, 4>>
        BY DEF Piped
      <3>2. /\ fds' = Piped(fds, 1, 3, 4).table /\ right_pipe' = Piped(fds, 1, 3, 4).ends
            /\ i' = 1 /\ pc' = "loop" /\ read_fd' = read_fd /\ kid' = kid
        BY <1>6, <2>3 DEF pipeline_start
      <3> QED
        BY <2>1, <3>1, <3>2
    <2>5. R(1) \in Files /\ W(1) \in Files
      BY FilesDiffer
    <2>6. TypeOK'
      <3>1. fds' \in [Fds -> Files]
        BY <1>2, <2>4, <2>5
      <3> QED
        BY <1>2, <1>3, <1>5, <2>4, <3>1
    <2>7. MainTable'
      BY <1>0, <1>2, <1>5, <2>1, <2>4 DEF MainTable, Input
    <2>8. KidTable'
      BY <1>6, <2>4 DEF KidTable, pipeline_start
    <2>9. Flow'
      <3>1. kid.state \notin {"exec", "running"}
        BY <1>6 DEF KidTable, pipeline_start
      <3>2. \A k \in 0 .. MaxPrograms : level[k] = written[k]
        BY <1>6, <2>1 DEF Flow, pipeline_start
      <3> QED
        BY <1>0, <2>4, <3>1, <3>2, Bounds DEF Flow
    <2> QED
      BY <1>1, <1>4, <2>6, <2>7, <2>8, <2>9
  <1>7. CASE launch_program
    <2> DEFINE table == IF i = n THEN [fds EXCEPT ![right_pipe[2]] = Free] ELSE fds
               ends  == IF i = n THEN <<right_pipe[1], 1>> ELSE right_pipe
               a     == read_fd
               b     == 3 - read_fd
    <2>1. /\ pc = "loop" /\ i \in 1 .. n /\ a \in {0, 3} /\ b \in {0, 3} /\ a # b
          /\ right_pipe[1] = b /\ right_pipe[2] = 4
          /\ fds[a] = Input /\ fds[b] = R(i) /\ fds[4] = W(i) /\ fds[1] = Out /\ fds[2] = Err
          /\ \A f \in Fds : f > 4 => fds[f] = Free
      BY <1>7 DEF launch_program, MainTable
    <2>2. right_pipe' = ends /\ UNCHANGED <<i, read_fd>>
      BY <1>7 DEF launch_program
    <2>3. \/ /\ pc' = "waitpid" /\ fds' = [table EXCEPT ![read_fd] = Free]
             /\ kid' = [NoKid EXCEPT !.state = "exec", !.left = output[i],
                                     !.fds = child_fds(table, read_fd, ends)]
          \/ pc' = "done" /\ fds' = table /\ UNCHANGED kid
      BY <1>7 DEF launch_program
    <2>4. Free \in Files /\ a \in Fds /\ b \in Fds
      BY <1>5, <2>1, FilesDiffer
    <2>5. /\ table \in [Fds -> Files] /\ table[4] = (IF i = n THEN Free ELSE W(i))
          /\ \A f \in Fds : f # 4 => table[f] = fds[f]
      BY <1>2, <1>5, <2>1, <2>4
    <2>6. ends[1] = b /\ ends[2] = (IF i = n THEN 1 ELSE 4) /\ ends \in Fds \X Fds
      BY <1>5, <2>1, <2>4 DEF TypeOK
    <2> HIDE DEF table, ends
    <2>7. KidTable' /\ kid' \in Kids /\ (pc' = "waitpid" => kid'.eof = FALSE /\ kid'.got = 0)
      <3>1. CASE pc' = "done"
        <4>1. kid' = kid
          BY <2>3, <3>1
        <4> QED
          BY <1>2, <2>1, <3>1, <4>1 DEF KidTable
      <3>2. CASE pc' = "waitpid"
        <4> DEFINE cfds == child_fds(table, read_fd, ends)
        <4>1. cfds \in [Fds -> Files]
          BY <1>5, <2>4, <2>5, <2>6 DEF child_fds
        <4>2. cfds[0] = Input
          BY <1>5, <2>1, <2>4, <2>5, <2>6 DEF child_fds
        <4>3. cfds[1] = (IF i = n THEN Out ELSE W(i))
          BY <1>5, <2>1, <2>4, <2>5, <2>6 DEF child_fds
        <4>4. \A f \in Fds : cfds[f] \in {Free, Input, Out, Err, R(i), W(i)}
          <5>1. \A f \in Fds : table[f] \in {Free, Input, Out, Err, R(i), W(i)}
            <6>1. \A f \in Fds : f \in {0, 1, 2, 3, 4} \/ f > 4
              BY <1>5
            <6> QED
              BY <2>1, <2>5, <6>1
          <5> QED
            BY <1>5, <2>4, <2>5, <2>6, <5>1 DEF child_fds
        <4>5. W(i - 1) \notin {Free, Input, Out, Err, R(i), W(i)}
          <5>1. i \in Nat /\ i - 1 \in Nat /\ i - 1 # i
            BY <1>2, <2>1
          <5> QED
            BY <5>1, FilesDiffer DEF Input
        <4> HIDE DEF cfds
        <4>6. output[i] \in Nat
          BY <1>2, <2>1 DEF TypeOK
        <4>7. kid' = [NoKid EXCEPT !.state = "exec", !.left = output[i], !.fds = cfds]
          BY <2>3, <3>2 DEF cfds
        <4>8. kid' = [state |-> "exec", fds |-> cfds, left |-> output[i], eof |-> FALSE, got |-> 0]
          BY <4>7 DEF NoKid
        <4>9. kid' \in Kids
          BY <4>1, <4>6, <4>8 DEF Kids
        <4>10. KidTable'
          BY <1>0, <2>2, <3>2, <4>2, <4>3, <4>4, <4>5, <4>8 DEF KidTable, Input
        <4> QED
          BY <4>8, <4>9, <4>10
      <3> QED
        BY <2>3, <3>1, <3>2
    <2>8. fds' \in [Fds -> Files]
      BY <2>3, <2>4, <2>5
    <2>9. TypeOK'
      BY <1>2, <1>3, <2>2, <2>4, <2>6, <2>7, <2>8 DEF TypeOK
    <2>10. MainTable'
      <3>1. CASE pc' = "done"
        BY <3>1 DEF MainTable
      <3>2. CASE pc' = "waitpid"
        <4>1. fds' = [table EXCEPT ![read_fd] = Free]
          BY <2>3, <3>2
        <4>2. /\ fds'[a] = Free /\ fds'[b] = R(i) /\ fds'[1] = Out /\ fds'[2] = Err
              /\ fds'[4] = (IF i = n THEN Free ELSE W(i))
              /\ \A f \in Fds : f > 4 => fds'[f] = Free
          BY <1>5, <2>1, <2>4, <2>5, <4>1
        <4> QED
          BY <1>0, <2>1, <2>2, <2>6, <3>2, <4>2 DEF MainTable
      <3> QED
        BY <2>3, <3>1, <3>2
    <2>11. Flow'
      <3>1. /\ \A k \in 0 .. MaxPrograms : k >= i => level[k] = written[k]
            /\ level[i - 1] = written[i - 1] /\ level[0] = 0 /\ written[0] = 0
        BY <1>7, <2>1 DEF Flow, launch_program
      <3>2. level[i - 1] \in Nat
        BY <1>2, <2>1, Bounds
      <3>3. CASE pc' = "done"
        BY <1>0, <2>1, <2>3, <3>1, <3>3 DEF Flow, KidTable
      <3>4. CASE pc' = "waitpid"
        BY <1>0, <2>2, <2>7, <3>1, <3>2, <3>4 DEF Flow
      <3> QED
        BY <2>3, <3>3, <3>4
    <2> QED
      BY <1>1, <1>4, <2>7, <2>9, <2>10, <2>11
  <1>8. CASE waitpid
    <2> DEFINE a == read_fd
               b == 3 - read_fd
               c == IF i = n THEN 1 ELSE 4
               table == close_out(fds)
    <2>1. /\ pc = "waitpid" /\ i \in 1 .. n /\ a \in {0, 3} /\ b \in {0, 3} /\ a # b
          /\ right_pipe[1] = b /\ right_pipe[2] = c
          /\ fds[a] = Free /\ fds[b] = R(i) /\ fds[4] = (IF i = n THEN Free ELSE W(i))
          /\ fds[1] = Out /\ fds[2] = Err /\ \A f \in Fds : f > 4 => fds[f] = Free
      BY <1>8 DEF waitpid, MainTable
    <2>2. /\ pc' = "loop" /\ i' = i + 1 /\ read_fd' = b /\ kid' = kid /\ kid.state = "ended"
          /\ fds' = NewPipe(table, i + 1).table /\ right_pipe' = NewPipe(table, i + 1).ends
      BY <1>8, <2>1 DEF waitpid
    <2>3. i + 1 \in Nat /\ i + 1 \in 0 .. n + 1 /\ Free \in Files /\ a \in Fds /\ b \in Fds /\ c \in Fds
      BY <1>2, <1>5, <2>1, FilesDiffer
    <2>4. R(i + 1) \in Files /\ W(i + 1) \in Files
      BY <2>3, FilesDiffer
    <2>5. R(i) # Free /\ Out # Free /\ Err # Free
      BY <1>2, FilesDiffer
    <2>6. /\ table \in [Fds -> Files] /\ table[c] = Free
          /\ \A f \in Fds : f # c => table[f] = fds[f]
      BY <1>2, <2>1, <2>3 DEF close_out
    <2>7. KidTable'
      BY <2>2 DEF KidTable
    <2>8. Flow'
      <3>1. \A k \in 0 .. MaxPrograms : k >= i => level[k] = written[k]
        BY <2>1 DEF Flow
      <3>2. i + 1 - 1 = i /\ i \in 0 .. MaxPrograms
        BY <1>2, <2>1, Bounds
      <3>3. level[0] = 0 /\ written[0] = 0
        BY DEF Flow
      <3> QED
        BY <1>0, <1>2, <2>2, <3>1, <3>2, <3>3 DEF Flow
    <2> HIDE DEF table
    <2>9. CASE i # n
      <3>1. \A f \in Fds : f < 4 /\ f # a => table[f] # Free
        <4>1. \A f \in Fds : f < 4 /\ f # a => f \in {1, 2, b}
          BY <1>5, <2>1
        <4>2. table[1] = Out /\ table[2] = Err /\ table[b] = R(i)
          BY <1>5, <2>1, <2>3, <2>6, <2>9
        <4> QED
          BY <2>5, <4>1, <4>2
      <3>2. table[a] = Free /\ table[4] = Free /\ a < 4 /\ 4 \in Fds
        BY <1>5, <2>1, <2>3, <2>6, <2>9
      <3>3. /\ fds' = [table EXCEPT ![a] = R(i + 1), ![4] = W(i + 1)] /\ right_pipe' = <<a, 4>>
        <4>1. i + 1 \in Nat /\ a \in Fds /\ table \in [Fds -> Files]
          BY <2>3, <2>6
        <4>2. NewPipe(table, i + 1) = Piped(table, i + 1, a, 4)
          BY <3>1, <3>2, <4>1, NewPipeTakes
        <4> QED
          <5>1. /\ Piped(table, i + 1, a, 4).table = [table EXCEPT ![a] = R(i + 1), ![4] = W(i + 1)]
                /\ Piped(table, i + 1, a, 4).ends = <<a, 4>>
            BY DEF Piped
          <5> QED
            BY <2>2, <4>2, <5>1
      <3>4. fds' \in [Fds -> Files] /\ right_pipe' \in Fds \X Fds
        BY <1>5, <2>3, <2>4, <2>6, <3>3
      <3>5. TypeOK'
        BY <1>2, <1>3, <2>2, <2>3, <3>4
      <3>6. MainTable'
        <4>1. 3 - b = a /\ i + 1 \in 1 .. n /\ i + 1 - 1 = i /\ i + 1 # 1
          BY <1>2, <2>1, <2>9
        <4>2. /\ fds'[a] = R(i + 1) /\ fds'[4] = W(i + 1) /\ fds'[b] = R(i)
              /\ fds'[1] = Out /\ fds'[2] = Err
              /\ \A f \in Fds : f > 4 => fds'[f] = Free
          BY <1>5, <2>1, <2>3, <2>6, <2>9, <3>3
        <4>3. right_pipe'[1] = a /\ right_pipe'[2] = 4
          BY <3>3
        <4> QED
          BY <1>0, <2>1, <2>2, <4>1, <4>2, <4>3 DEF MainTable, Input
      <3> QED
        BY <1>1, <1>4, <2>7, <2>8, <3>5, <3>6
    <2>10. CASE i = n
      <3>1. /\ table[a] = Free /\ table[1] = Free /\ table[2] = Err /\ table[b] = R(i)
        BY <1>5, <2>1, <2>3, <2>6, <2>10
      <3>2. ASSUME NEW x \in Fds, NEW y \in Fds,
                   fds' = [table EXCEPT ![x] = R(i + 1), ![y] = W(i + 1)], right_pipe' = <<x, y>>
            PROVE  TypeOK'
        <4>1. fds' \in [Fds -> Files] /\ right_pipe' \in Fds \X Fds
          BY <2>4, <2>6, <3>2
        <4> QED
          BY <1>2, <1>3, <2>2, <2>3, <4>1
      <3>6. MainTable'
        BY <1>0, <1>2, <2>2, <2>10 DEF MainTable
      <3>3. table \in [Fds -> Files] /\ i + 1 \in Nat /\ {0, 1, 3} \subseteq Fds
        BY <1>5, <2>3, <2>6
      <3>4. CASE a = 0
        <4>1. \A f \in Fds : f < 1 /\ f # 0 => table[f] # Free
          BY <1>5
        <4>2. 0 \in Fds /\ 1 \in Fds /\ 0 < 1 /\ table[0] = Free /\ table[1] = Free
          BY <3>1, <3>3, <3>4
        <4>3. NewPipe(table, i + 1) = Piped(table, i + 1, 0, 1)
          BY <3>3, <4>1, <4>2, NewPipeTakes
        <4>4. TypeOK'
          BY <2>2, <3>2, <4>2, <4>3 DEF Piped
        <4> QED
          BY <1>1, <1>4, <2>7, <2>8, <3>6, <4>4
      <3>5. CASE a = 3
        <4>1. \A f \in Fds : f < 3 /\ f # 1 => table[f] # Free
          <5>1. \A f \in Fds : f < 3 /\ f # 1 => f \in {0, 2}
            BY <1>5
          <5>2. b = 0
            BY <3>5
          <5> QED
            BY <2>5, <3>1, <5>1, <5>2
        <4>2. 1 \in Fds /\ 3 \in Fds /\ 1 < 3 /\ table[1] = Free /\ table[3] = Free
          BY <3>1, <3>3, <3>5
        <4>3. NewPipe(table, i + 1) = Piped(table, i + 1, 1, 3)
          BY <3>3, <4>1, <4>2, NewPipeTakes
        <4>4. TypeOK'
          BY <2>2, <3>2, <4>2, <4>3 DEF Piped
        <4> QED
          BY <1>1, <1>4, <2>7, <2>8, <3>6, <4>4
      <3> QED
        BY <2>1, <3>4, <3>5
    <2> QED
      BY <2>9, <2>10
  <1>9. CASE pipeline_return
    <2>1. pc = "loop" /\ pc' = "done" /\ UNCHANGED <<i, fds, read_fd, right_pipe, kid>>
      BY <1>9 DEF pipeline_return, pipelineVars
    <2>2. TypeOK'
      BY <1>0, <2>1 DEF TypeOK, timeoutVars, countVars
    <2>3. MainTable' /\ KidTable' /\ Flow'
      BY <1>0, <2>1 DEF MainTable, KidTable, Flow
    <2> QED
      BY <1>1, <1>4, <2>2, <2>3
  <1> QED
    BY <1>6, <1>7, <1>8, <1>9

LEMMA StutterIInv ==
    ASSUME IInv, UNCHANGED vars
    PROVE  IInv'
  <1> USE DEF vars
  <1>1. TypeOK'
    BY DEF IInv, TypeOK, timeoutVars, countVars, pipelineVars
  <1>2. TimeoutInv' /\ PipelineInv'
    BY TimeoutFrame, PipelineFrame
  <1> QED
    BY <1>1, <1>2 DEF IInv

LEMMA NextIInv == IInv /\ [Next]_vars => IInv'
  BY TimeoutStep, CountStep, KidStep, PipelineStep, StutterIInv DEF Next, Main

-----------------------------------------------------------------------------
(* Theorems *)

\* The invariant holds of every state of the three programs.
THEOREM Inductive == Spec => []IInv
  BY InitIInv, NextIInv, PTL DEF Spec

\* main.c of run-with-timeout: the message that is printed says how the child
\* ended, and no child that ended while main slept is said to have been killed.
THEOREM VerdictIsHonest == Spec => []HonestVerdict
  <1>1. IInv => HonestVerdict
    BY DEF IInv, TimeoutInv
  <1> QED
    BY <1>1, Inductive, PTL

\* The invariant says where every pipe is, and so how the programs are connected.
LEMMA Connected ==
    ASSUME IInv
    PROVE  ConnectedInOrder
  <1> USE DEF IInv, PipelineInv
  <1> SUFFICES ASSUME kid.state = "running" PROVE ConnectedInOrder
    BY DEF ConnectedInOrder
  <1>0. pc = "waitpid" /\ i \in 1 .. n /\ i \in Nat /\ i - 1 \in Nat /\ i - 1 # i
    BY DEF KidTable, MainTable
  <1>1. {0, 1, 2, 3, 4} \subseteq Fds /\ \A f \in Fds : f \in Nat
    BY Bounds
  <1>2. fds \in [Fds -> Files] /\ kid.fds \in [Fds -> Files] /\ kid.got \in Nat
    BY DEF TypeOK, Kids
  <1>3. kid.fds[0] = Input /\ kid.fds[1] = (IF i = n THEN Out ELSE W(i))
        /\ \A f \in Fds : kid.fds[f] # W(i - 1)
    BY DEF KidTable
  <1>4. \A f \in Fds : fds[f] # W(i - 1)
    <2>1. \A f \in Fds : f \in {0, 1, 2, 3, 4} \/ f > 4
      BY <1>1
    <2>2. \A f \in Fds : fds[f] \in {Free, Out, Err, R(i), W(i)}
      BY <1>0, <2>1 DEF MainTable
    <2>3. W(i - 1) \notin {Free, Out, Err, R(i), W(i)}
      BY <1>0, FilesDiffer
    <2> QED
      BY <2>2, <2>3
  <1>5. Writers(i - 1) = {}
    BY <1>2, <1>3, <1>4 DEF Writers, Range
  <1>6. R(i) \in Range(fds)
    <2>1. 3 - read_fd \in Fds /\ fds[3 - read_fd] = R(i)
      BY <1>0, <1>1 DEF MainTable
    <2> QED
      BY <1>2, <2>1 DEF Range
  <1>7. kid.eof => kid.got = written[i - 1]
    BY <1>2 DEF Flow
  <1> QED
    BY <1>3, <1>5, <1>6, <1>7 DEF ConnectedInOrder, Input

\* launch_program and main of the pipeline: every program reads all that the one
\* before it wrote, sees its end, and writes for the one after it.
THEOREM ProgramsConnected == Spec => []ConnectedInOrder
  BY Connected, Inductive, PTL
=============================================================================
