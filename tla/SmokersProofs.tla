---------------------------- MODULE SmokersProofs ----------------------------
(***************************************************************************)
(* The cigarette smokers for inputs of every length: the output follows    *)
(* the input, and a smoker is killed only when nothing is under way.       *)
(***************************************************************************)
EXTENDS Smokers, SequenceTheorems, TLAPS

-----------------------------------------------------------------------------
(* Facts about sequences *)

LEMMA Bound ==
    ASSUME NEW S, NEW m \in Nat
    PROVE  \A s : s \in BoundedSeq(S, m) <=> s \in Seq(S) /\ Len(s) <= m
  <1> SUFFICES ASSUME NEW s PROVE s \in BoundedSeq(S, m) <=> s \in Seq(S) /\ Len(s) <= m
    OBVIOUS
  <1>1. s \in BoundedSeq(S, m) <=> \E k \in 0 .. m : s \in [1 .. k -> S]
    BY DEF BoundedSeq, SeqOf
  <1>2. ASSUME NEW k \in 0 .. m, s \in [1 .. k -> S]
        PROVE  s \in Seq(S) /\ Len(s) <= m
    BY <1>2
  <1>3. ASSUME s \in Seq(S), Len(s) <= m
        PROVE  Len(s) \in 0 .. m /\ s \in [1 .. Len(s) -> S]
    BY <1>3
  <1> QED
    BY <1>1, <1>2, <1>3

LEMMA SequenceTypes ==
    ASSUME TypeOK
    PROVE  /\ input \in Seq(Commands) /\ given \in Seq(Smoker) /\ out \in Seq(Smoker)
           /\ Len(input) \in Nat /\ Len(given) \in Nat /\ Len(out) \in Nat
           /\ Len(out) <= MaxInput
  BY Bound, MaxInputAssumption DEF TypeOK

\* What a history may hold, and what is given is what is out, or one more.
Promised(g, o, s, owed) == g = IF owed THEN Append(o, s) ELSE o

LEMMA PromisedIs ==
    ASSUME NEW g \in Seq(Smoker), NEW o \in Seq(Smoker), NEW s, NEW owed \in BOOLEAN,
           Promised(g, o, s, owed)
    PROVE  /\ IsPrefix(o, g)
           /\ ~owed => Len(g) = Len(o)
           /\ owed => Len(g) = Len(o) + 1 /\ Last(g) = s
  <1>1. CASE ~owed
    BY <1>1, SubSeqFull DEF Promised, IsPrefix
  <1>2. CASE owed
    <2>1. g = Append(o, s) /\ Len(o) \in Nat
      BY <1>2 DEF Promised
    <2>2. Len(g) = Len(o) + 1 /\ Last(g) = s
      BY <2>1 DEF Last
    <2>3. SubSeq(g, 1, Len(o)) = SubSeq(o, 1, Len(o))
      <3>1. SubSeq(o, 1, Len(o)) = o /\ SubSeq(g, 1, Len(o)) \in Seq(Smoker) /\ Len(SubSeq(g, 1, Len(o))) = Len(o)
        BY <2>1, <2>2, SubSeqFull, SubSeqProperties
      <3>2. ASSUME NEW j \in 1 .. Len(o)
            PROVE  SubSeq(g, 1, Len(o))[j] = o[j]
        <4>1. g[j] = o[j]
          BY <2>1
        <4> QED
          BY <2>1, <2>2, <4>1
      <3> QED
        BY <3>1, <3>2, SeqEqual
    <2> QED
      BY <1>2, <2>1, <2>2, <2>3 DEF IsPrefix
  <1> QED
    BY <1>1, <1>2

-----------------------------------------------------------------------------
(* The invariant is inductive *)

LEMMA InitIInv == Init => IInv
  <1> SUFFICES ASSUME Init PROVE IInv
    OBVIOUS
  <1>1. input \in Seq(Commands) /\ Len(input) <= MaxInput
    BY Bound, MaxInputAssumption DEF Init, BoundedSeq, SeqOf
  <1>2. input \in BoundedSeq(Commands, MaxInput) /\ <<>> \in BoundedSeq(Smoker, MaxInput)
    <2>1. <<>> \in Seq(Smoker) /\ Len(<<>>) <= MaxInput
      BY MaxInputAssumption
    <2>2. \A s : s \in BoundedSeq(Commands, MaxInput) <=> s \in Seq(Commands) /\ Len(s) <= MaxInput
      BY Bound, MaxInputAssumption
    <2>3. \A s : s \in BoundedSeq(Smoker, MaxInput) <=> s \in Seq(Smoker) /\ Len(s) <= MaxInput
      BY Bound, MaxInputAssumption
    <2> QED
      BY <1>1, <2>1, <2>2, <2>3, Zenon
  <1>3. TypeOK
    BY <1>2 DEF Init, TypeOK, Smoker
  <1>4. OneUnderWay /\ OutputIsGiven /\ KilledAtTheEnd
    BY DEF Init, OneUnderWay, OutputIsGiven, KilledAtTheEnd, Serving, Rest, InHand
  <1>5. Bounded
    BY <1>1, MaxInputAssumption DEF Init, Bounded
  <1> QED
    BY <1>3, <1>4, <1>5 DEF IInv

LEMMA ForkStep ==
    ASSUME IInv, parent_fork
    PROVE  IInv'
  <1> USE DEF IInv, children
  <1>1. /\ ppc = "fork" /\ ppc' \in {"fork", "read"} /\ turn' \in 0 .. 3
        /\ pc' = pc \/ pc' = [pc EXCEPT ![turn] = "start"]
        /\ UNCHANGED <<program, input, given, resource, smoked, kick_out, sigterm, out>>
    BY DEF parent_fork, TypeOK
  <1>2. \A s \in Smoker : pc'[s] = pc[s] \/ pc'[s] = "start"
    BY <1>1 DEF TypeOK
  <1>3. TypeOK'
    BY <1>1 DEF TypeOK
  <1>4. OneUnderWay' /\ OutputIsGiven' /\ KilledAtTheEnd' /\ Bounded'
    BY <1>1, <1>2 DEF OneUnderWay, OutputIsGiven, KilledAtTheEnd, Bounded, Serving, Rest, InHand
  <1> QED
    BY <1>3, <1>4

LEMMA ReadStep ==
    ASSUME IInv, parent_read
    PROVE  IInv'
  <1> USE DEF IInv, children
  <1> DEFINE s == Addressee(Head(input))
  <1>1. /\ ppc = "read" /\ input # <<>> /\ input' = Tail(input)
        /\ UNCHANGED <<program, smoked, pc, kick_out, sigterm, out>>
    BY DEF parent_read
  <1>2. given = out /\ \A d \in Smoker : Rest(d) /\ d \notin sigterm /\ ~kick_out[d] /\ pc[d] # "dead"
    BY <1>1 DEF OutputIsGiven, OneUnderWay, Serving, KilledAtTheEnd
  <1>3. /\ input \in Seq(Commands) /\ Len(input) \in Nat /\ given \in Seq(Smoker) /\ Len(given) \in Nat
        /\ Tail(input) \in Seq(Commands) /\ Len(Tail(input)) = Len(input) - 1 /\ Len(input) > 0
    BY <1>1, SequenceTypes, HeadTailProperties, EmptySeq
  <1>4. Len(given) + Len(input) <= MaxInput /\ MaxInput \in Nat
    BY MaxInputAssumption DEF Bounded
  <1>5. input' \in BoundedSeq(Commands, MaxInput)
    <2>1. Len(input') <= MaxInput
      BY <1>1, <1>3, <1>4
    <2> QED
      BY <1>1, <1>3, <1>4, <2>1, Bound
  <1>6. CASE s \notin Smoker
    <2>1. UNCHANGED <<resource, given, turn, ppc>>
      BY <1>6 DEF parent_read
    <2>2. TypeOK'
      BY <1>1, <1>5, <2>1 DEF TypeOK
    <2>3. OneUnderWay' /\ OutputIsGiven' /\ KilledAtTheEnd'
      BY <1>1, <2>1 DEF OneUnderWay, OutputIsGiven, KilledAtTheEnd, Serving, Rest, InHand, Printed
    <2>4. Bounded'
      BY <1>1, <1>3, <1>4, <2>1 DEF Bounded
    <2> QED
      BY <2>2, <2>3, <2>4
  <1>7. CASE s \in Smoker
    <2>1. /\ resource' = [resource EXCEPT ![s] = @ + 1] /\ given' = Append(given, s)
          /\ turn' = s /\ ppc' = "done_wait"
      BY <1>7 DEF parent_read
    <2> HIDE DEF s
    <2>2. /\ resource'[s] = 1 /\ \A d \in Smoker : d # s => resource'[d] = resource[d]
          /\ resource' \in [Smoker -> 0 .. 1]
      BY <1>2, <1>7, <2>1 DEF Rest, TypeOK
    <2>3. Append(given, s) \in Seq(Smoker) /\ Len(Append(given, s)) = Len(given) + 1
      BY <1>3, <1>7
    <2>4. given' \in BoundedSeq(Smoker, MaxInput)
      <3>1. Len(given') <= MaxInput
        BY <1>3, <1>4, <2>1, <2>3
      <3> QED
        BY <1>4, <2>1, <2>3, <3>1, Bound
    <2>5. TypeOK'
      <3>1. s \in 0 .. 3
        BY <1>7 DEF Smoker
      <3> QED
        BY <1>1, <1>5, <2>1, <2>2, <2>4, <3>1 DEF TypeOK
    <2>6. OneUnderWay'
      <3> SUFFICES ASSUME NEW d \in Smoker
                   PROVE  IF Serving(d)'
                          THEN resource'[d] = 1 /\ smoked'[d] = 0 /\ ~InHand(d)'
                          ELSE Rest(d)'
        BY DEF OneUnderWay
      <3>1. Rest(d) /\ InHand(d)' = InHand(d)
        BY <1>1, <1>2 DEF InHand
      <3>2. Serving(d)' <=> d = s
        BY <2>1 DEF Serving
      <3> QED
        BY <1>1, <2>2, <3>1, <3>2 DEF Rest
    <2>7. OutputIsGiven'
      <3>1. ~Printed(turn)'
        BY <1>1, <1>2, <1>7, <2>1 DEF Printed, Rest, InHand
      <3> QED
        BY <1>1, <1>2, <2>1, <3>1 DEF OutputIsGiven
    <2>8. KilledAtTheEnd'
      BY <1>1, <1>2 DEF KilledAtTheEnd
    <2>9. Bounded'
      BY <1>1, <1>3, <1>4, <1>7, <2>1, <2>3 DEF Bounded
    <2> QED
      BY <2>5, <2>6, <2>7, <2>8, <2>9
  <1> QED
    BY <1>6, <1>7

LEMMA DoneStep ==
    ASSUME IInv, parent_done
    PROVE  IInv'
  <1> USE DEF IInv, children
  <1>1. /\ ppc = "done_wait" /\ smoked[turn] > 0 /\ smoked' = [smoked EXCEPT ![turn] = @ - 1]
        /\ ppc' = "read" /\ turn' = 0
        /\ UNCHANGED <<program, input, given, resource, pc, kick_out, sigterm, out>>
    BY DEF parent_done
  <1>2. turn \in Smoker
    BY <1>1 DEF Bounded
  <1>3. smoked[turn] = 1 /\ resource[turn] = 0 /\ ~InHand(turn)
    BY <1>1, <1>2 DEF OneUnderWay, Serving
  <1>4. smoked'[turn] = 0 /\ \A d \in Smoker : d # turn => smoked'[d] = smoked[d] /\ Rest(d)
    BY <1>1, <1>2, <1>3 DEF TypeOK, OneUnderWay, Serving
  <1>5. smoked' \in [Smoker -> 0 .. 1]
    BY <1>1, <1>2, <1>3 DEF TypeOK
  <1>6. TypeOK'
    BY <1>1, <1>5 DEF TypeOK
  <1>7. OneUnderWay'
    <2> SUFFICES ASSUME NEW d \in Smoker PROVE Rest(d)'
      BY <1>1 DEF OneUnderWay, Serving
    <2>1. InHand(d)' = InHand(d)
      BY <1>1 DEF InHand
    <2> QED
      BY <1>1, <1>3, <1>4, <2>1 DEF Rest
  <1>8. OutputIsGiven' /\ KilledAtTheEnd' /\ Bounded'
    BY <1>1, <1>3 DEF OutputIsGiven, Printed, KilledAtTheEnd, Bounded
  <1> QED
    BY <1>6, <1>7, <1>8

\* The parent stops reading, kills and reaps: nothing is under way.
LEMMA EndStep ==
    ASSUME IInv, parent_eof \/ parent_kill \/ parent_waitpid
    PROVE  IInv'
  <1> USE DEF IInv, children
  <1>1. /\ ppc \in {"read", "kill", "waitpid"} /\ ppc' \in {"kill", "waitpid", "end"}
        /\ UNCHANGED <<program, input, given, resource, smoked, pc, kick_out, out>>
    BY DEF parent_eof, parent_kill, parent_waitpid
  <1>2. turn' \in 0 .. 3 /\ (ppc' \in {"kill", "waitpid"} => turn' \in Smoker)
    <2>1. CASE parent_eof
      BY <2>1 DEF parent_eof, Smoker
    <2>2. CASE parent_kill
      BY <2>2 DEF parent_kill, Bounded, Smoker
    <2>3. CASE parent_waitpid
      <3>1. turn \in 0 .. 2
        BY <2>3 DEF parent_waitpid, Bounded, Smoker
      <3>2. turn' = turn + 1 /\ (turn = 2 => ppc' = "end")
        BY <2>3 DEF parent_waitpid
      <3> QED
        BY <3>1, <3>2 DEF Smoker
    <2> QED
      BY <2>1, <2>2, <2>3
  <1>3. sigterm' \subseteq Smoker
    BY DEF parent_eof, parent_kill, parent_waitpid, TypeOK, Bounded
  <1>4. TypeOK'
    BY <1>1, <1>2, <1>3 DEF TypeOK
  <1>5. OneUnderWay'
    BY <1>1 DEF OneUnderWay, Serving, Rest, InHand
  <1>6. OutputIsGiven' /\ KilledAtTheEnd' /\ Bounded'
    BY <1>1, <1>2 DEF OutputIsGiven, KilledAtTheEnd, Bounded
  <1> QED
    BY <1>4, <1>5, <1>6

\* What a step from one place of run_smoker to another changes.
LEMMA GotoIs ==
    ASSUME TypeOK, NEW s \in Smoker, NEW from, NEW to, Goto(s, from, to)
    PROVE  pc[s] = from /\ pc'[s] = to /\ \A d \in Smoker : d # s => pc'[d] = pc[d]
  BY DEF Goto, TypeOK

\* Steps that neither take nor pass on a resource.
LEMMA LocalStep ==
    ASSUME IInv, NEW s \in Smoker,
           set_sigterm_handler(s) \/ smoker_check(s) \/ smoker_got(s)
    PROVE  IInv'
  <1> USE DEF IInv, children
  <1>1. UNCHANGED <<program, input, given, resource, smoked, ppc, turn, kick_out, sigterm, out>>
    BY DEF set_sigterm_handler, smoker_check, smoker_got
  <1>2. PICK from, to \in {"start", "check", "enter", "got", "smoke", "dead"} :
           /\ pc[s] = from /\ pc' = [pc EXCEPT ![s] = to]
           /\ to = "dead" => kick_out[s]
           /\ from = "got" => to = IF kick_out[s] THEN "dead" ELSE "smoke"
           /\ from # "got" => from # "smoke" /\ to \in {"check", "enter", "dead"}
    BY DEF set_sigterm_handler, smoker_check, smoker_got, Goto
  <1>3. pc'[s] = to /\ \A d \in Smoker : d # s => pc'[d] = pc[d]
    BY <1>2 DEF TypeOK
  <1>4. TypeOK'
    BY <1>1, <1>2 DEF TypeOK
  <1>5. \A d \in Smoker : (InHand(d)' <=> InHand(d)) /\ (Printed(d)' <=> Printed(d))
    <2>1. CASE from = "got"
      BY <1>1, <1>2, <1>3, <2>1 DEF InHand, Printed
    <2>2. CASE from # "got" /\ from # "smoke"
      BY <1>1, <1>2, <1>3, <2>2 DEF InHand, Printed
    <2> QED
      BY <1>2, <2>1, <2>2
  <1>6. OneUnderWay'
    BY <1>1, <1>5 DEF OneUnderWay, Serving, Rest
  <1>7. OutputIsGiven'
    <2>1. ppc = "done_wait" => (Printed(turn)' <=> Printed(turn))
      BY <1>1, <1>5 DEF Bounded, Printed
    <2> QED
      BY <1>1, <2>1 DEF OutputIsGiven
  <1>8. KilledAtTheEnd' /\ Bounded'
    BY <1>1, <1>2, <1>3 DEF KilledAtTheEnd, Bounded
  <1> QED
    BY <1>4, <1>6, <1>7, <1>8

LEMMA SemWaitStep ==
    ASSUME IInv, NEW s \in Smoker, smoker_sem_wait(s)
    PROVE  IInv'
  <1> USE DEF IInv, children
  <1>1. UNCHANGED <<program, input, given, smoked, ppc, turn, kick_out, sigterm, out>>
    BY DEF smoker_sem_wait
  <1>2. CASE resource[s] > 0 /\ (Goto(s, "enter", "got") \/ Goto(s, "blocked", "got"))
             /\ resource' = [resource EXCEPT ![s] = @ - 1]
    <2>1. /\ pc' = [pc EXCEPT ![s] = "got"] /\ pc[s] \in {"enter", "blocked"} /\ pc'[s] = "got"
          /\ \A d \in Smoker : d # s => pc'[d] = pc[d]
      BY <1>2 DEF Goto, TypeOK
    <2>2. resource[s] = 1 /\ smoked[s] = 0 /\ Serving(s) /\ ~kick_out[s]
      <3>1. resource[s] # 0
        BY <1>2 DEF TypeOK
      <3>2. Serving(s) /\ resource[s] = 1 /\ smoked[s] = 0
        BY <3>1 DEF OneUnderWay, Rest
      <3> QED
        BY <3>2 DEF KilledAtTheEnd, Serving
    <2>3. /\ resource' \in [Smoker -> 0 .. 1] /\ resource'[s] = 0
          /\ \A d \in Smoker : d # s => resource'[d] = resource[d]
      BY <1>2, <2>2 DEF TypeOK
    <2>4. TypeOK'
      BY <1>1, <2>1, <2>3 DEF TypeOK
    <2>5. OneUnderWay'
      <3>1. InHand(s)' /\ Serving(s)'
        BY <1>1, <2>1, <2>2 DEF InHand, Serving
      <3>2. \A d \in Smoker : d # s => InHand(d)' = InHand(d) /\ Serving(d)' = Serving(d)
        BY <1>1, <2>1 DEF InHand, Serving
      <3> QED
        BY <1>1, <2>2, <2>3, <3>1, <3>2 DEF OneUnderWay, Rest
    <2>6. OutputIsGiven'
      <3>1. ~Printed(turn) /\ ~Printed(turn)'
        BY <1>1, <2>1, <2>2 DEF Printed, Serving
      <3> QED
        BY <1>1, <3>1 DEF OutputIsGiven
    <2>7. KilledAtTheEnd' /\ Bounded'
      BY <1>1, <2>1 DEF KilledAtTheEnd, Bounded
    <2> QED
      BY <2>4, <2>5, <2>6, <2>7
  <1>3. CASE Goto(s, "enter", "blocked") /\ UNCHANGED resource
    <2>1. /\ pc' = [pc EXCEPT ![s] = "blocked"] /\ pc[s] = "enter" /\ pc'[s] = "blocked"
          /\ \A d \in Smoker : d # s => pc'[d] = pc[d]
      BY <1>3 DEF Goto, TypeOK
    <2>2. TypeOK'
      BY <1>1, <1>3, <2>1 DEF TypeOK
    <2>3. \A d \in Smoker : InHand(d)' = InHand(d) /\ Printed(d)' = Printed(d)
      BY <1>1, <2>1 DEF InHand, Printed
    <2>4. OneUnderWay'
      BY <1>1, <1>3, <2>3 DEF OneUnderWay, Serving, Rest
    <2>5. OutputIsGiven'
      <3>1. ppc = "done_wait" => (Printed(turn)' <=> Printed(turn))
        BY <1>1, <2>3 DEF Bounded, Printed
      <3> QED
        BY <1>1, <3>1 DEF OutputIsGiven
    <2>6. KilledAtTheEnd' /\ Bounded'
      BY <1>1, <2>1 DEF KilledAtTheEnd, Bounded
    <2> QED
      BY <2>2, <2>4, <2>5, <2>6
  <1> QED
    BY <1>2, <1>3 DEF smoker_sem_wait

\* A smoker that prints is the one the parent waits for.
LEMMA PrintStep ==
    ASSUME IInv, NEW s \in Smoker, smoker_print(s)
    PROVE  IInv'
  <1> USE DEF IInv, children
  <1>1. /\ out' = Append(out, s)
        /\ UNCHANGED <<program, input, given, resource, smoked, ppc, turn, kick_out, sigterm>>
    BY DEF smoker_print
  <1>2. /\ pc' = [pc EXCEPT ![s] = "post"] /\ pc[s] = "smoke" /\ pc'[s] = "post"
        /\ \A d \in Smoker : d # s => pc'[d] = pc[d]
    BY DEF smoker_print, Goto, TypeOK
  <1>3. InHand(s) /\ Serving(s) /\ resource[s] = 0 /\ smoked[s] = 0
    BY <1>2 DEF InHand, OneUnderWay, Rest
  <1>4. turn = s /\ ppc = "done_wait" /\ ~Printed(turn) /\ Printed(turn)'
    BY <1>1, <1>2, <1>3 DEF Serving, Printed
  <1>5. out' = given
    BY <1>1, <1>4 DEF OutputIsGiven
  <1>6. TypeOK'
    BY <1>1, <1>2, <1>5 DEF TypeOK
  <1>7. OneUnderWay'
    <2>1. \A d \in Smoker : InHand(d)' = InHand(d)
      BY <1>1, <1>2 DEF InHand
    <2> QED
      BY <1>1, <2>1 DEF OneUnderWay, Serving, Rest
  <1>8. OutputIsGiven'
    BY <1>1, <1>4, <1>5 DEF OutputIsGiven
  <1>9. KilledAtTheEnd' /\ Bounded'
    BY <1>1, <1>2 DEF KilledAtTheEnd, Bounded
  <1> QED
    BY <1>6, <1>7, <1>8, <1>9

LEMMA PostStep ==
    ASSUME IInv, NEW s \in Smoker, smoker_post(s)
    PROVE  IInv'
  <1> USE DEF IInv, children
  <1>1. /\ smoked' = [smoked EXCEPT ![s] = @ + 1]
        /\ UNCHANGED <<program, input, given, resource, ppc, turn, kick_out, sigterm, out>>
    BY DEF smoker_post
  <1>2. /\ pc' = [pc EXCEPT ![s] = "check"] /\ pc[s] = "post" /\ pc'[s] = "check"
        /\ \A d \in Smoker : d # s => pc'[d] = pc[d]
    BY DEF smoker_post, Goto, TypeOK
  <1>3. InHand(s) /\ Serving(s) /\ resource[s] = 0 /\ smoked[s] = 0
    BY <1>2 DEF InHand, OneUnderWay, Rest
  <1>4. /\ smoked' \in [Smoker -> 0 .. 1] /\ smoked'[s] = 1
        /\ \A d \in Smoker : d # s => smoked'[d] = smoked[d]
    BY <1>1, <1>3 DEF TypeOK
  <1>5. turn = s /\ ppc = "done_wait" /\ Printed(turn) /\ Printed(turn)'
    BY <1>1, <1>2, <1>3, <1>4 DEF Serving, Printed
  <1>6. TypeOK'
    BY <1>1, <1>2, <1>4 DEF TypeOK
  <1>7. OneUnderWay'
    <2>1. \A d \in Smoker : d # s => InHand(d)' = InHand(d)
      BY <1>1, <1>2 DEF InHand
    <2>2. ~InHand(s)'
      BY <1>2 DEF InHand
    <2> QED
      BY <1>1, <1>3, <1>4, <2>1, <2>2 DEF OneUnderWay, Serving, Rest
  <1>8. OutputIsGiven'
    BY <1>1, <1>5 DEF OutputIsGiven
  <1>9. KilledAtTheEnd' /\ Bounded'
    BY <1>1, <1>2 DEF KilledAtTheEnd, Bounded
  <1> QED
    BY <1>6, <1>7, <1>8, <1>9

\* SIGTERM comes when the parent has stopped handing out resources.
LEMMA SignalStep ==
    ASSUME IInv, NEW s \in Smoker, signal_handler(s)
    PROVE  IInv'
  <1> USE DEF IInv, children
  <1>1. /\ s \in sigterm /\ sigterm' = sigterm \ {s}
        /\ UNCHANGED <<program, input, given, resource, smoked, ppc, turn, out>>
    BY DEF signal_handler
  <1>2. ppc \in {"kill", "waitpid", "end"}
    BY <1>1 DEF KilledAtTheEnd
  <1>3. \A d \in Smoker : Rest(d) /\ ~Serving(d)
    BY <1>2 DEF OneUnderWay, Serving
  <1>4. /\ pc' \in [Smoker -> {"unborn", "start", "check", "enter", "blocked", "got", "smoke", "post", "dead"}]
        /\ kick_out' \in [Smoker -> BOOLEAN]
        /\ \A d \in Smoker : d # s => pc'[d] = pc[d] /\ kick_out'[d] = kick_out[d]
    BY DEF signal_handler, TypeOK
  <1>5. ~InHand(s)'
    <2>1. CASE Killed(s) \/ pc[s] = "dead"
      <3>1. pc'[s] = "dead"
        BY <2>1 DEF signal_handler, TypeOK
      <3> QED
        BY <3>1 DEF InHand
    <2>2. CASE ~(Killed(s) \/ pc[s] = "dead")
      <3>1. kick_out'[s] = TRUE /\ pc'[s] = IF pc[s] = "blocked" THEN "got" ELSE pc[s]
        BY <2>2 DEF signal_handler, TypeOK
      <3> QED
        BY <1>3, <3>1 DEF Rest, InHand
    <2> QED
      BY <2>1, <2>2
  <1>6. TypeOK'
    BY <1>1, <1>4 DEF TypeOK
  <1>7. OneUnderWay'
    <2>1. \A d \in Smoker : d # s => InHand(d)' = InHand(d)
      BY <1>4 DEF InHand
    <2> QED
      BY <1>1, <1>3, <1>5, <2>1 DEF OneUnderWay, Serving, Rest
  <1>8. OutputIsGiven' /\ KilledAtTheEnd' /\ Bounded'
    BY <1>1, <1>2 DEF OutputIsGiven, KilledAtTheEnd, Bounded
  <1> QED
    BY <1>6, <1>7, <1>8

LEMMA NextIInv == IInv /\ [Next]_vars => IInv'
  <1> SUFFICES ASSUME IInv, [Next]_vars PROVE IInv'
    OBVIOUS
  <1>1. CASE Parent
    BY <1>1, ForkStep, ReadStep, DoneStep, EndStep DEF Parent
  <1>2. ASSUME NEW s \in Smoker, run_smoker(s) PROVE IInv'
    BY <1>2, LocalStep, SemWaitStep, PrintStep, PostStep DEF run_smoker
  <1>3. ASSUME NEW s \in Smoker, signal_handler(s) PROVE IInv'
    BY <1>3, SignalStep
  <1>4. CASE UNCHANGED vars
    BY <1>4 DEF IInv, vars, children, TypeOK, OneUnderWay, OutputIsGiven, KilledAtTheEnd, Bounded,
                Serving, Rest, InHand, Printed
  <1> QED
    BY <1>1, <1>2, <1>3, <1>4 DEF Next

LEMMA IInvImpliesOutput == IInv => OutputFollowsInput
  <1> SUFFICES ASSUME IInv PROVE OutputFollowsInput
    OBVIOUS
  <1> DEFINE owed == ppc = "done_wait" /\ ~Printed(turn)
  <1>1. given \in Seq(Smoker) /\ out \in Seq(Smoker) /\ Len(out) \in Nat
    BY SequenceTypes DEF IInv
  <1>2. Promised(given, out, turn, owed) /\ owed \in BOOLEAN
    BY DEF IInv, OutputIsGiven, Promised
  <1> HIDE DEF owed
  <1>3. /\ IsPrefix(out, given)
        /\ ~owed => Len(given) = Len(out)
        /\ owed => Len(given) = Len(out) + 1 /\ Last(given) = turn
    BY <1>1, <1>2, PromisedIs
  <1>4. CASE owed
    BY <1>1, <1>3, <1>4 DEF OutputFollowsInput, owed
  <1>5. CASE ~owed
    BY <1>1, <1>3, <1>5 DEF OutputFollowsInput
  <1> QED
    BY <1>4, <1>5

-----------------------------------------------------------------------------
(* The results *)

\* At every step of the parent, the smokers and their signals at most one
\* resource is under way, and only while the parent waits for it.
THEOREM Inductive == Spec => []IInv
  BY InitIInv, NextIInv, PTL DEF Spec

\* Three processes print into one file, and the semaphores of main and
\* run_smoker order them: the lines come in the order of the commands, and only
\* the line of the command just read may be missing.
THEOREM OutputIsOrdered == Spec => []OutputFollowsInput
  BY Inductive, IInvImpliesOutput, PTL

\* The parent sends SIGTERM after its last sem_wait only, so the handlers of
\* both programs interrupt a smoker that holds no resource and owes no line,
\* wherever they find it.
THEOREM KillsAtRest == Spec => []KilledAtRest
  <1>1. IInv => KilledAtRest
    <2> SUFFICES ASSUME IInv, NEW s \in Smoker, s \in sigterm \/ kick_out[s] \/ pc[s] = "dead"
                 PROVE  /\ resource[s] = 0 /\ smoked[s] = 0
                        /\ pc[s] \notin {"smoke", "post"}
                        /\ Len(out) = Len(given)
      BY DEF KilledAtRest
    <2>1. ppc \in {"kill", "waitpid", "end"}
      BY DEF IInv, KilledAtTheEnd
    <2>2. Rest(s)
      BY <2>1 DEF IInv, OneUnderWay, Serving
    <2> QED
      BY <2>1, <2>2 DEF IInv, OutputIsGiven, Rest, InHand
  <1> QED
    BY <1>1, Inductive, PTL

\* The semaphores are 0 or 1, the indices in range, the histories no longer
\* than the input.
THEOREM TypesAreCorrect == Spec => []TypeOK
  <1>1. IInv => TypeOK
    BY DEF IInv
  <1> QED
    BY <1>1, Inductive, PTL
=============================================================================
