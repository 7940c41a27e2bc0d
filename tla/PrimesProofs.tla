---------------------------- MODULE PrimesProofs ----------------------------
(***************************************************************************)
(* The two prime generators for every interval and number of primes: the   *)
(* hand-over protocol, and that what main prints is the stream of primes.  *)
(***************************************************************************)
EXTENDS Primes, TLAPS

-----------------------------------------------------------------------------
(* Trial division up to the root, or up to the half, decides primality      *)

LEMMA Product ==
    ASSUME NEW a \in Nat, NEW b \in Nat, NEW c \in Nat, a <= b
    PROVE  a * c <= b * c /\ c * a <= c * b /\ a * c \in Nat /\ b * c \in Nat
  <1>1. (b - a) * c >= 0 /\ (b - a) * c = b * c - a * c
    OBVIOUS
  <1> QED
    BY <1>1

LEMMA Multiple ==
    ASSUME NEW d \in Nat \ {0}, NEW e \in Nat
    PROVE  (d * e) % d = 0
  OBVIOUS

\* A proper divisor of num comes with a second one.
LEMMA Codivisor ==
    ASSUME NEW num \in Nat, NEW d \in 2 .. (num - 1), num % d = 0
    PROVE  \E e \in 2 .. (num - 1) : d * e = num /\ num % e = 0
  <1> DEFINE e == num \div d
  <1>1. e \in Nat /\ d \in Nat \ {0} /\ d * e = num
    OBVIOUS
  <1>2. e # 0 /\ e # 1
    BY <1>1
  <1>3. 2 <= e
    BY <1>1, <1>2
  <1>4. 2 * e <= num
    BY <1>1, Product
  <1>5. e \in 2 .. (num - 1)
    BY <1>3, <1>4
  <1>6. (e * d) % e = 0 /\ e * d = d * e
    <2>1. e \in Nat \ {0} /\ d \in Nat
      BY <1>1, <1>2
    <2> HIDE DEF e
    <2>2. (e * d) % e = 0
      BY <2>1, Multiple
    <2> QED
      BY <2>1, <2>2
  <1> QED
    BY <1>1, <1>5, <1>6

LEMMA TrialDivision ==
    ASSUME NEW num \in Nat
    PROVE  is_prime(num) <=> Stream!IsPrime(num)
  <1>1. ASSUME is_prime(num) PROVE Stream!IsPrime(num)
    <2> SUFFICES ASSUME NEW d \in 2 .. (num - 1), num % d = 0 PROVE FALSE
      BY <1>1 DEF is_prime, Stream!IsPrime
    <2>1. PICK e \in 2 .. (num - 1) : d * e = num /\ num % e = 0
      BY Codivisor
    <2>2. d \in Nat /\ e \in Nat /\ d \in 2 .. num /\ e \in 2 .. num
      OBVIOUS
    <2>3. d * d <= num \/ e * e <= num
      <3>1. d <= e => d * d <= d * e
        BY <2>2, Product
      <3>2. e <= d => e * e <= d * e
        BY <2>2, Product
      <3> QED
        BY <2>1, <2>2, <3>1, <3>2
    <2> QED
      BY <1>1, <2>1, <2>2, <2>3 DEF is_prime
  <1>2. ASSUME Stream!IsPrime(num) PROVE is_prime(num)
    <2> SUFFICES ASSUME NEW d \in 2 .. num, d * d <= num PROVE num % d # 0
      BY <1>2 DEF is_prime, Stream!IsPrime
    <2>1. 2 * d <= d * d
      BY Product
    <2>2. d \in 2 .. (num - 1)
      BY <2>1
    <2> QED
      BY <1>2, <2>2 DEF Stream!IsPrime
  <1> QED
    BY <1>1, <1>2

LEMMA HalfDivision ==
    ASSUME NEW num \in Nat
    PROVE  prime(num) <=> Stream!IsPrime(num)
  <1>1. CASE num <= 2
    BY <1>1 DEF prime, Stream!IsPrime
  <1>2. CASE num > 2 /\ num % 2 = 0
    <2>1. 2 \in 2 .. (num - 1)
      BY <1>2
    <2> QED
      BY <1>2, <2>1 DEF prime, Stream!IsPrime
  <1>3. CASE num > 2 /\ num % 2 # 0
    <2>1. ASSUME NEW d \in 2 .. (num - 1), num % d = 0
          PROVE  d \in 2 .. (num \div 2)
      <3>1. PICK e \in 2 .. (num - 1) : d * e = num
        BY <2>1, Codivisor
      <3>2. d * 2 <= num
        BY <3>1, Product
      <3> QED
        BY <3>2
    <2>2. \A d \in 2 .. (num \div 2) : d \in 2 .. (num - 1)
      BY <1>3
    <2> QED
      BY <1>3, <2>1, <2>2 DEF prime, Stream!IsPrime
  <1> QED
    BY <1>1, <1>2, <1>3

-----------------------------------------------------------------------------
(* Steps that only move a thread on                                         *)

Places == {"lock", "loop", "signal", "relock", "check", "wait", "last", "join", "end"}

LEMMA Basics ==
    ASSUME TypeOK
    PROVE  /\ A \in Nat /\ B \in Nat /\ N \in Nat /\ Len(out) \in Nat
           /\ \A i \in 1 .. Len(out) : out[i] \in A .. B
           /\ Empty \notin A .. B /\ End \notin A .. B /\ Empty # End
  <1>1. A \in Nat /\ B \in Nat /\ N \in Nat
    BY ArgsAssumption DEF TypeOK
  <1>2. out \in Seq(A .. B)
    BY DEF TypeOK
  <1>3. Len(out) \in Nat /\ \A i \in 1 .. Len(out) : out[i] \in A .. B
    BY <1>1, <1>2
  <1> QED
    BY <1>1, <1>3 DEF Empty, End

LEMMA GotoIs ==
    ASSUME TypeOK, NEW t \in Threads, NEW to \in Places, Goto(t, to)
    PROVE  /\ pc' \in [Threads -> Places] /\ pc'[t] = to
           /\ \A u \in Threads : u # t => pc'[u] = pc[u]
  BY DEF TypeOK, Goto, Places

LEMMA CoveredKept ==
    ASSUME UNCHANGED <<A, B, out>>
    PROVE  PrimesIn' = PrimesIn /\ \A b : Covered(b)' <=> Covered(b)
  BY DEF Covered, PrimesIn

\* A thread that is neither the generator taking up or giving up an offer nor
\* main starting an iteration changes nothing the other one relies on.
LEMMA Moves ==
    ASSUME IInv, NEW t \in Threads, NEW to \in Places, Goto(t, to),
           UNCHANGED <<args, cell, done, index, found, out>>,
           mutex' \in Threads \cup {"none"}, waiting' \subseteq Threads,
           t = "generator" =>
               /\ to \in {"check", "signal", "relock", "wait"} <=> Offered
               /\ to \in {"lock", "loop"} => pc[t] \in {"lock", "loop"},
           t = "main" /\ to \in {"signal", "relock", "check", "wait"} => Len(out) < N
    PROVE  TypeOK' /\ Wanted' /\ Offer'
  <1> USE DEF IInv
  <1>1. /\ pc' \in [Threads -> Places] /\ pc'[t] = to
        /\ \A u \in Threads : u # t => pc'[u] = pc[u]
    BY GotoIs
  <1>2. /\ UNCHANGED <<program, A, B, N, cell, done, index, found, out>>
        /\ "generator" \in Threads /\ "main" \in Threads
    BY DEF args, Threads
  <1>3. PrimesIn' = PrimesIn /\ \A b : Covered(b)' <=> Covered(b)
    BY <1>2, CoveredKept
  <1>4. TypeOK'
    BY <1>1, <1>2 DEF TypeOK, Places
  <1>5. Wanted'
    BY <1>1, <1>2 DEF Wanted
  <1>6. Offer'
    <2>1. (Offered' <=> Offered) /\ (Full' <=> Full)
      BY <1>1, <1>2 DEF Offered, Full
    <2>2. pc'["generator"] \in {"lock", "loop"} => pc["generator"] \in {"lock", "loop"}
      BY <1>1, <1>2
    <2>3. /\ index \in PrimesIn => index' \in PrimesIn'
          /\ Covered(index) => Covered(index)'
          /\ Covered(index + 1) => Covered(index + 1)'
      BY <1>2, <1>3
    <2> QED
      BY <1>2, <2>1, <2>2, <2>3 DEF Offer
  <1> QED
    BY <1>4, <1>5, <1>6

LEMMA LockStep ==
    ASSUME IInv, NEW t \in Threads, NEW from \in Places, NEW to \in Places, lock(t, from, to),
           \/ from = "lock" /\ to = "loop"
           \/ from = "relock" /\ to = "check"
    PROVE  IInv'
  <1> USE DEF IInv
  <1>1. /\ pc[t] = from /\ mutex = "none" /\ mutex' = t /\ Goto(t, to) /\ to \in Places
        /\ UNCHANGED <<args, program, waiting, cell, done, index, found, out>>
    BY DEF lock, args, Places
  <1>2. /\ pc'[t] = to /\ \A u \in Threads : u # t => pc'[u] = pc[u]
    BY <1>1, GotoIs
  <1>3. TypeOK' /\ Wanted' /\ Offer'
    BY <1>1, Moves DEF TypeOK, Offered, Wanted
  <1>4. Locked'
    BY <1>1, <1>2 DEF Locked, Inside, Threads
  <1>5. Sleepers'
    <2>1. waiting \subseteq Threads /\ t \notin waiting
      BY <1>1 DEF TypeOK, Sleepers
    <2>2. /\ \A u \in {"signal", "last"} : pc["generator"] = u => pc'["generator"] = u
          /\ \A u \in {"loop", "signal", "last"} : pc["main"] = u => pc'["main"] = u
      BY <1>1, <1>2 DEF Threads
    <2> QED
      BY <1>1, <1>2, <2>1, <2>2 DEF Sleepers
  <1> QED
    BY <1>3, <1>4, <1>5

\* pthread_cond_wait, entered while there is something to wait for.
LEMMA WaitStep ==
    ASSUME IInv, NEW t \in Threads, pc[t] = "check", cond_wait(t),
           program = "main.c" => (done <=> t = "generator"),
           program = "file.c" => (cell # Empty <=> t = "generator")
    PROVE  IInv'
  <1> USE DEF IInv
  <1>1. /\ mutex' = "none" /\ waiting' = waiting \cup {t} /\ Goto(t, "wait") /\ "wait" \in Places
        /\ UNCHANGED <<args, program, cell, done, index, found, out>>
    BY DEF cond_wait, args, Places
  <1>2. /\ pc'[t] = "wait" /\ \A u \in Threads : u # t => pc'[u] = pc[u]
    BY <1>1, GotoIs
  <1>3. waiting \subseteq Threads /\ program \in {"main.c", "file.c"}
    BY DEF TypeOK
  <1>4. TypeOK' /\ Wanted' /\ Offer'
    BY <1>1, <1>3, Moves DEF Offered, Wanted
  <1>5. Locked'
    BY <1>1, <1>2 DEF Locked, Inside, Threads
  <1>6. Sleepers'
    <2>1. /\ \A u \in {"signal", "last"} : pc["generator"] = u => pc'["generator"] = u
          /\ \A u \in {"loop", "signal", "last"} : pc["main"] = u => pc'["main"] = u
      BY <1>1, <1>2 DEF Threads
    <2>2. \A u \in waiting' : pc'[u] = "wait"
      BY <1>1, <1>2, <1>3 DEF Sleepers
    <2>3. "main" \in waiting' =>
            IF program = "main.c" THEN ~done
            ELSE cell = Empty \/ pc["generator"] \in {"signal", "last"}
      BY <1>1, <1>3 DEF Sleepers
    <2>4. "generator" \in waiting' =>
            IF program = "main.c" THEN done
            ELSE cell # Empty \/ pc["main"] \in {"loop", "signal", "last"}
      BY <1>1, <1>3 DEF Sleepers
    <2> QED
      BY <1>1, <2>1, <2>2, <2>3, <2>4 DEF Sleepers
  <1> QED
    BY <1>4, <1>5, <1>6

LEMMA WakeStep ==
    ASSUME IInv, NEW t \in Threads, cond_wake(t)
    PROVE  IInv'
  <1> USE DEF IInv
  <1>1. /\ pc[t] = "wait" /\ t \notin waiting /\ mutex = "none" /\ mutex' = t
        /\ Goto(t, "check") /\ "check" \in Places
        /\ UNCHANGED <<args, program, waiting, cell, done, index, found, out>>
    BY DEF cond_wake, args, Places
  <1>2. /\ pc'[t] = "check" /\ \A u \in Threads : u # t => pc'[u] = pc[u]
    BY <1>1, GotoIs
  <1>3. TypeOK' /\ Wanted' /\ Offer'
    BY <1>1, Moves DEF TypeOK, Offered, Wanted
  <1>4. Locked'
    BY <1>1, <1>2 DEF Locked, Inside, Threads
  <1>5. Sleepers'
    <2>1. waiting \subseteq Threads
      BY DEF TypeOK
    <2>2. /\ \A u \in {"signal", "last"} : pc["generator"] = u => pc'["generator"] = u
          /\ \A u \in {"loop", "signal", "last"} : pc["main"] = u => pc'["main"] = u
      BY <1>1, <1>2 DEF Threads
    <2> QED
      BY <1>1, <1>2, <2>1, <2>2 DEF Sleepers
  <1> QED
    BY <1>3, <1>4, <1>5

LEMMA SpuriousStep ==
    ASSUME IInv, NEW t \in Threads, spurious(t)
    PROVE  IInv'
  <1> USE DEF IInv
  <1>1. /\ waiting' = waiting \ {t}
        /\ UNCHANGED <<program, A, B, N, mutex, pc, cell, done, index, found, out>>
    BY DEF spurious, args
  <1>2. PrimesIn' = PrimesIn /\ \A b : Covered(b)' <=> Covered(b)
    BY <1>1, CoveredKept
  <1>3. TypeOK' /\ Locked' /\ Wanted' /\ Sleepers'
    BY <1>1 DEF TypeOK, Locked, Inside, Wanted, Sleepers
  <1>4. Offer'
    <2>1. /\ (Offered' <=> Offered) /\ (Full' <=> Full)
          /\ Covered(index) => Covered(index)'
          /\ Covered(index + 1) => Covered(index + 1)'
      BY <1>1, <1>2 DEF Offered, Full
    <2> QED
      BY <1>1, <1>2, <2>1 DEF Offer
  <1> QED
    BY <1>3, <1>4

LEMMA NeverBothWait == IInv => waiting # Threads
  <1> SUFFICES ASSUME IInv, waiting = Threads PROVE FALSE
    OBVIOUS
  <1>1. pc["generator"] = "wait" /\ pc["main"] = "wait"
    BY DEF IInv, Sleepers, Threads
  <1> QED
    BY <1>1 DEF IInv, Sleepers, Threads

\* A signal by one thread leaves the other one awake.
LEMMA SignalWakes ==
    ASSUME IInv, NEW t \in Threads, pc[t] # "wait", Signal
    PROVE  waiting' = {}
  <1>1. waiting \subseteq Threads \ {t}
    BY DEF IInv, TypeOK, Sleepers
  <1> QED
    BY <1>1 DEF Signal, Threads

LEMMA SignalStep ==
    ASSUME IInv, NEW t \in Threads, NEW from \in Places, NEW to \in Places, signal(t, from, to),
           \/ from = "signal" /\ to = "relock"
           \/ from = "last" /\ to \in {"join", "end"}
    PROVE  IInv'
  <1> USE DEF IInv
  <1>1. /\ pc[t] = from /\ Signal /\ Goto(t, to) /\ to \in Places
        /\ UNCHANGED <<args, program, mutex, cell, done, index, found, out>>
    BY DEF signal, args, Places
  <1>2. /\ pc'[t] = to /\ \A u \in Threads : u # t => pc'[u] = pc[u]
    BY <1>1, GotoIs
  <1>3. waiting' = {}
    BY <1>1, SignalWakes
  <1>4. TypeOK' /\ Wanted' /\ Offer'
    BY <1>1, <1>3, Moves DEF TypeOK, Offered, Wanted
  <1>5. Locked'
    BY <1>1, <1>2 DEF Locked, Inside
  <1>6. Sleepers'
    BY <1>3 DEF Sleepers
  <1> QED
    BY <1>4, <1>5, <1>6

\* main goes on to an iteration, or leaves its loop.
LEMMA MainMoves ==
    ASSUME IInv, NEW from, NEW to \in Places, pc["main"] = from, Goto("main", to),
           UNCHANGED <<args, waiting, cell, done, index, found, out>>,
           \/ from = "loop" /\ to = "check" /\ program = "main.c" /\ mutex' = mutex
           \/ from = "loop" /\ to \in {"signal", "last"} /\ mutex' = "none"
           \/ from = "loop" /\ to = "join" /\ program = "main.c" /\ mutex' = "none"
           \/ from = "check" /\ to = "last" /\ mutex' = "none"
           \/ from = "join" /\ to = "end" /\ mutex' = mutex,
           to \in {"check", "signal"} => Len(out) < N
    PROVE  IInv'
  <1> USE DEF IInv
  <1>1. UNCHANGED <<program, cell, done, waiting>> /\ "main" \in Threads
    BY DEF args, Threads
  <1>2. /\ pc'["main"] = to /\ pc'["generator"] = pc["generator"]
    BY GotoIs DEF Threads
  <1>3. mutex' \in Threads \cup {"none"} /\ waiting' \subseteq Threads
    BY DEF TypeOK
  <1>4. TypeOK' /\ Wanted' /\ Offer'
    BY <1>1, <1>3, Moves
  <1>5. Locked'
    BY <1>1, <1>2 DEF Locked, Inside, Threads
  <1>6. Sleepers'
    BY <1>1, <1>2, <1>3 DEF Sleepers, Threads
  <1> QED
    BY <1>4, <1>5, <1>6

-----------------------------------------------------------------------------
(* The generator                                                            *)

\* Going on to the next number is right when index is no prime, or is out.
LEMMA CoveredNext ==
    ASSUME TypeOK, A <= index, index \notin PrimesIn, Covered(index)
    PROVE  Covered(index + 1)
  <1>1. index \in Nat /\ PrimesIn \subseteq Nat
    BY Basics DEF TypeOK, PrimesIn
  <1>2. \A i \in 1 .. Len(out) : out[i] < index + 1
    <2>1. \A i \in 1 .. Len(out) : out[i] \in Nat
      BY Basics
    <2> QED
      BY <1>1, <2>1 DEF Covered
  <1>3. \A x \in PrimesIn : x < index + 1 => x < index
    BY <1>1
  <1> QED
    BY <1>2, <1>3 DEF Covered

LEMMA SkipStep ==
    ASSUME IInv, pc["generator"] = "loop", index \notin PrimesIn, index' = index + 1,
           UNCHANGED <<args, mutex, waiting, pc, cell, done, found, out>>
    PROVE  IInv'
  <1> USE DEF IInv
  <1>1. UNCHANGED <<program, A, B, N>>
    BY DEF args
  <1>2. PrimesIn' = PrimesIn /\ \A b : Covered(b)' <=> Covered(b)
    BY <1>1, CoveredKept
  <1>3. ~Offered /\ ~Offered' /\ (Full' <=> Full)
    BY <1>1 DEF Offered, Full
  <1>4. Covered(index + 1)
    BY CoveredNext DEF Offer
  <1>5. \A b : b = index + 1 => Covered(b)'
    BY <1>2, <1>4
  <1>6. Covered(index)'
    BY <1>5
  <1>7. A' <= index' /\ index' \in Nat
    BY <1>1, Basics DEF TypeOK, Offer
  <1>8. Offer'
    BY <1>1, <1>3, <1>6, <1>7 DEF Offer
  <1>9. TypeOK' /\ Locked' /\ Wanted' /\ Sleepers'
    BY <1>1, <1>7 DEF TypeOK, Locked, Inside, Wanted, Sleepers
  <1> QED
    BY <1>8, <1>9

\* main.c signals inside the critical section, file.c after it.
LEMMA OfferStep ==
    ASSUME IInv, pc["generator"] = "loop", index \in PrimesIn, cell' = index,
           NEW to, Goto("generator", to),
           IF program = "main.c"
           THEN to = "check" /\ done' = TRUE /\ Signal /\ mutex' = mutex
           ELSE to = "signal" /\ UNCHANGED <<done, waiting>> /\ mutex' = "none",
           UNCHANGED <<args, index, found, out>>
    PROVE  IInv'
  <1> USE DEF IInv
  <1>1. /\ UNCHANGED <<program, A, B, N>> /\ program \in {"main.c", "file.c"}
        /\ to \in Places /\ "generator" \in Threads /\ "main" \in Threads
    BY DEF args, TypeOK, Places, Threads
  <1>2. /\ pc' \in [Threads -> Places] /\ pc'["generator"] = to /\ pc'["main"] = pc["main"]
    BY <1>1, GotoIs DEF Threads
  <1>3. PrimesIn' = PrimesIn /\ \A b : Covered(b)' <=> Covered(b)
    BY <1>1, CoveredKept
  <1>4. waiting' \subseteq Threads /\ (program = "main.c" => waiting' = {})
    BY SignalWakes, <1>1 DEF TypeOK
  <1>5. index \in A .. B /\ cell' \in A .. B /\ cell' # Empty /\ cell' # End
    BY Basics DEF PrimesIn
  <1>6. TypeOK'
    <2>1. mutex' \in Threads \cup {"none"} /\ done' \in BOOLEAN
      BY DEF TypeOK
    <2> QED
      BY <1>1, <1>2, <1>4, <1>5, <2>1 DEF TypeOK, Places
  <1>7. Locked'
    BY <1>1, <1>2 DEF Locked, Inside, Threads
  <1>8. Wanted'
    BY <1>1, <1>2 DEF Wanted
  <1>9. Offer'
    <2>1. Full' /\ Offered'
      BY <1>1, <1>2, <1>5 DEF Full, Offered
    <2>2. ~Offered /\ Covered(index)
      BY <1>1 DEF Offered, Offer
    <2>3. \A b : b = index => Covered(b)'
      BY <1>3, <2>2
    <2>4. Covered(index)'
      BY <2>3
    <2> QED
      BY <1>1, <1>2, <1>3, <2>1, <2>2, <2>4 DEF Offer
  <1>10. Sleepers'
    <2>1. CASE program = "main.c"
      BY <1>4, <2>1 DEF Sleepers
    <2>2. CASE program = "file.c"
      <3>1. waiting' = waiting /\ waiting \subseteq Threads
        BY <2>2 DEF TypeOK
      <3> QED
        BY <1>1, <1>2, <1>5, <2>2, <3>1 DEF Sleepers, Threads
    <2> QED
      BY <1>1, <2>1, <2>2
  <1> QED
    BY <1>6, <1>7, <1>8, <1>9, <1>10

\* Its number was taken and it looks for the next one.
LEMMA GoOnStep ==
    ASSUME IInv, pc["generator"] = "check", ~Full, found' = found + 1, index' = index + 1,
           Goto("generator", "loop"),
           UNCHANGED <<args, mutex, waiting, cell, done, out>>
    PROVE  IInv'
  <1> USE DEF IInv
  <1>1. /\ UNCHANGED <<program, A, B, N>> /\ "loop" \in Places
        /\ "generator" \in Threads /\ "main" \in Threads
    BY DEF args, Places, Threads
  <1>2. /\ pc' \in [Threads -> Places] /\ pc'["generator"] = "loop" /\ pc'["main"] = pc["main"]
    BY <1>1, GotoIs DEF Threads
  <1>3. PrimesIn' = PrimesIn /\ \A b : Covered(b)' <=> Covered(b)
    BY <1>1, CoveredKept
  <1>4. /\ Len(out) = found + 1 /\ Covered(index + 1) /\ index' \in Nat /\ A' <= index'
        /\ found' \in 0 .. N + 1
    <2>1. Len(out) = found + 1 /\ Covered(index + 1) /\ A <= index
      BY DEF Offer, Offered
    <2>2. /\ Len(out) \in Nat /\ Len(out) <= N /\ N \in Nat /\ A \in Nat
          /\ index \in Nat
      BY Basics DEF TypeOK
    <2> QED
      BY <1>1, <2>1, <2>2
  <1>5. TypeOK'
    BY <1>1, <1>2, <1>4 DEF TypeOK, Places
  <1>6. Locked'
    BY <1>1, <1>2 DEF Locked, Inside, Threads
  <1>7. Wanted'
    BY <1>1, <1>2 DEF Wanted
  <1>8. Offer'
    <2>1. ~Full' /\ ~Offered'
      BY <1>1, <1>2 DEF Full, Offered
    <2>2. \A b : b = index + 1 => Covered(b)'
      BY <1>3, <1>4
    <2>3. Covered(index)'
      BY <2>2
    <2> QED
      BY <1>1, <1>4, <2>1, <2>3 DEF Offer
  <1>9. Sleepers'
    <2>1. waiting \subseteq Threads
      BY DEF TypeOK
    <2> QED
      BY <1>1, <1>2, <2>1 DEF Sleepers, Threads
  <1> QED
    BY <1>5, <1>6, <1>7, <1>8, <1>9

\* It has come to the end of the interval, or its last number was taken.
LEMMA StopStep ==
    ASSUME IInv,
           \/ pc["generator"] = "loop" /\ found' = found
           \/ pc["generator"] = "check" /\ ~Full /\ found' = found + 1,
           NEW to, Goto("generator", to),
           IF program = "main.c" THEN to = "end" /\ UNCHANGED <<cell, mutex>>
                                 ELSE to = "last" /\ cell' = End /\ mutex' = "none",
           UNCHANGED <<args, waiting, done, index, out>>
    PROVE  IInv'
  <1> USE DEF IInv
  <1>1. /\ UNCHANGED <<program, A, B, N>> /\ program \in {"main.c", "file.c"} /\ to \in Places
        /\ "generator" \in Threads /\ "main" \in Threads
    BY DEF args, TypeOK, Places, Threads
  <1>2. /\ pc' \in [Threads -> Places] /\ pc'["generator"] = to /\ pc'["main"] = pc["main"]
    BY <1>1, GotoIs DEF Threads
  <1>3. ~Full
    BY DEF Offer, Offered
  <1>4. Len(out) = found' /\ found' \in 0 .. N + 1
    <2>1. Len(out) = found'
      BY <1>3 DEF Offer, Offered
    <2>2. Len(out) \in Nat /\ Len(out) <= N /\ N \in Nat
      BY Basics DEF TypeOK
    <2> QED
      BY <2>1, <2>2
  <1>5. TypeOK'
    <2>1. mutex' \in Threads \cup {"none"} /\ cell' \in (A .. B) \cup {Empty, End}
      BY DEF TypeOK
    <2> QED
      BY <1>1, <1>2, <1>4, <2>1 DEF TypeOK, Places
  <1>6. Locked'
    BY <1>1, <1>2 DEF Locked, Inside, Threads
  <1>7. Wanted'
    BY <1>1, <1>2 DEF Wanted
  <1>8. Offer'
    <2>1. ~Full' /\ ~Offered' /\ pc'["generator"] \notin {"lock", "loop"}
      BY <1>1, <1>2, <1>3 DEF Full, Offered
    <2> QED
      BY <1>1, <1>4, <2>1 DEF Offer
  <1>9. Sleepers'
    <2>1. waiting \subseteq Threads
      BY DEF TypeOK
    <2> QED
      BY <1>1, <1>2, <2>1 DEF Sleepers, Threads
  <1> QED
    BY <1>5, <1>6, <1>7, <1>8, <1>9

-----------------------------------------------------------------------------
(* main takes a number                                                      *)

Takes ==
    /\ pc["main"] = "check" /\ Full
    /\ out' = Append(out, cell)
    /\ Goto("main", "loop")
    /\ IF program = "main.c" THEN done' = FALSE /\ Signal /\ UNCHANGED cell
                             ELSE cell' = Empty /\ UNCHANGED <<done, waiting>>
    /\ UNCHANGED <<args, mutex, index, found>>

LEMMA TakesIs ==
    ASSUME IInv, Takes
    PROVE  /\ UNCHANGED <<program, A, B, N, mutex, index, found>>
           /\ cell = index /\ index \in PrimesIn /\ Len(out) = found /\ Len(out) < N /\ Covered(index)
           /\ out' \in Seq(A .. B) /\ Len(out') = Len(out) + 1 /\ out'[Len(out) + 1] = index
           /\ \A i \in 1 .. Len(out) : out'[i] = out[i]
           /\ PrimesIn' = PrimesIn
  <1>1. UNCHANGED <<program, A, B, N, mutex, index, found>> /\ out' = Append(out, cell)
    BY DEF Takes, args
  <1>2. Offered /\ cell = index /\ index \in PrimesIn /\ Len(out) = found /\ Len(out) < N /\ Covered(index)
    BY DEF IInv, Takes, Offer, Wanted
  <1>3. index \in A .. B /\ out \in Seq(A .. B)
    BY <1>2 DEF PrimesIn, IInv, TypeOK
  <1>4. PrimesIn' = PrimesIn
    BY <1>1 DEF PrimesIn
  <1>5. Append(out, index) \in Seq(A .. B) /\ Len(Append(out, index)) = Len(out) + 1
        /\ Append(out, index)[Len(out) + 1] = index
        /\ \A i \in 1 .. Len(out) : Append(out, index)[i] = out[i]
    BY <1>3
  <1> QED
    BY <1>1, <1>2, <1>4, <1>5

LEMMA TakeStep == IInv /\ Takes => IInv'
  <1> SUFFICES ASSUME IInv, Takes PROVE IInv'
    OBVIOUS
  <1> USE DEF IInv
  <1>1. /\ UNCHANGED <<program, A, B, N, mutex, index, found>>
        /\ cell = index /\ index \in PrimesIn /\ Len(out) = found /\ Len(out) < N /\ Covered(index)
        /\ out' \in Seq(A .. B) /\ Len(out') = Len(out) + 1 /\ out'[Len(out) + 1] = index
        /\ \A i \in 1 .. Len(out) : out'[i] = out[i]
        /\ PrimesIn' = PrimesIn
    BY TakesIs
  <1>2. /\ "main" \in Threads /\ "generator" \in Threads /\ program \in {"main.c", "file.c"}
        /\ "loop" \in Places /\ Len(out) \in Nat /\ N \in Nat
    BY Basics DEF Threads, TypeOK, Places
  <1>3. /\ pc["main"] = "check" /\ pc' \in [Threads -> Places] /\ pc'["main"] = "loop"
        /\ pc'["generator"] = pc["generator"]
    BY <1>2, GotoIs DEF Takes, Threads
  <1>4. waiting' \subseteq Threads /\ (program = "main.c" => waiting' = {})
    BY <1>2, <1>3, SignalWakes DEF TypeOK, Takes
  <1>5. TypeOK'
    <2>1. done' \in BOOLEAN /\ cell' \in (A .. B) \cup {Empty, End}
      BY DEF TypeOK, Takes
    <2> QED
      BY <1>1, <1>2, <1>3, <1>4, <2>1 DEF TypeOK, Places
  <1>6. Locked'
    BY <1>1, <1>2, <1>3 DEF Locked, Inside, Threads
  <1>7. Wanted'
    BY <1>3 DEF Wanted
  <1>8. Offer'
    <2>1. ~Full' /\ Offered' /\ Offered
      BY <1>1, <1>2, <1>3 DEF Takes, Full, Offered, Offer
    <2>2. index \in Nat /\ \A i \in 1 .. Len(out) : out[i] \in Nat
      BY <1>2, Basics DEF TypeOK
    <2>3. \A i \in 1 .. Len(out') : out'[i] < index + 1
      <3> SUFFICES ASSUME NEW i \in 1 .. Len(out') PROVE out'[i] < index + 1
        OBVIOUS
      <3>1. CASE i = Len(out) + 1
        BY <1>1, <2>2, <3>1
      <3>2. CASE i # Len(out) + 1
        <4>1. i \in 1 .. Len(out)
          BY <1>1, <1>2, <3>2
        <4> QED
          BY <1>1, <2>2, <4>1 DEF Covered
      <3> QED
        BY <3>1, <3>2
    <2>4. \A x \in PrimesIn : x < index + 1 => \E i \in 1 .. Len(out') : out'[i] = x
      <3> SUFFICES ASSUME NEW x \in PrimesIn, x < index + 1 PROVE \E i \in 1 .. Len(out') : out'[i] = x
        OBVIOUS
      <3>1. x \in Nat
        BY Basics DEF PrimesIn
      <3>2. CASE x = index
        BY <1>1, <1>2, <3>2
      <3>3. CASE x # index
        <4>1. PICK i \in 1 .. Len(out) : out[i] = x
          BY <2>2, <3>1, <3>3, <1>1 DEF Covered
        <4> QED
          BY <1>1, <1>2, <4>1
      <3> QED
        BY <3>2, <3>3
    <2>5. \A b : b = index + 1 => Covered(b)'
      BY <1>1, <2>3, <2>4 DEF Covered
    <2>6. Covered(index + 1)'
      BY <1>1, <2>5
    <2> QED
      BY <1>1, <1>3, <2>1, <2>6 DEF Offer, Offered
  <1>9. Sleepers'
    <2>1. CASE program = "main.c"
      BY <1>4, <2>1 DEF Sleepers
    <2>2. CASE program = "file.c"
      <3>1. waiting' = waiting /\ waiting \subseteq Threads
        BY <2>2 DEF TypeOK, Takes
      <3> QED
        BY <1>1, <1>2, <1>3, <2>2, <3>1 DEF Sleepers, Threads
    <2> QED
      BY <1>2, <2>1, <2>2
  <1> QED
    BY <1>5, <1>6, <1>7, <1>8, <1>9

-----------------------------------------------------------------------------
(* The programs                                                             *)

LEMMA InitIInv == Init => IInv
  <1> SUFFICES ASSUME Init PROVE IInv
    OBVIOUS
  <1>1. PICK a \in Args : A = a[1] /\ B = a[2] /\ N = a[3]
    BY DEF Init
  <1>2. <<A, B, N>> \in Args /\ A \in Nat /\ B \in Nat /\ N \in Nat
    BY <1>1, ArgsAssumption
  <1>3. pc["generator"] = "lock" /\ pc["main"] = "lock" /\ out = <<>> /\ Len(out) = 0
    BY DEF Init, Threads
  <1>4. TypeOK
    <2>1. out \in Seq(A .. B) /\ Len(out) <= N /\ found \in 0 .. N + 1 /\ index \in Nat
      BY <1>2, <1>3 DEF Init
    <2>2. pc \in [Threads -> Places]
      BY DEF Init, Places
    <2> QED
      BY <1>2, <2>1, <2>2 DEF Init, TypeOK, Places
  <1>5. Locked /\ Wanted /\ Sleepers
    BY <1>3 DEF Init, Locked, Inside, Wanted, Sleepers, Threads
  <1>6. Offer
    <2>1. ~Full /\ ~Offered
      BY <1>3 DEF Init, Full, Offered
    <2>2. Covered(index)
      BY <1>2, <1>3 DEF Init, Covered, PrimesIn
    <2> QED
      BY <1>2, <1>3, <2>1, <2>2 DEF Init, Offer
  <1> QED
    BY <1>4, <1>5, <1>6 DEF IInv

LEMMA IndexIsPrime ==
    ASSUME IInv
    PROVE  /\ index > B => index \notin PrimesIn
           /\ index <= B => (index \in PrimesIn <=> is_prime(index))
           /\ index <= B => (index \in PrimesIn <=> prime(index))
  <1>1. index \in Nat /\ A \in Nat /\ B \in Nat /\ A <= index
    BY Basics DEF IInv, TypeOK, Offer
  <1>2. index \in PrimesIn <=> index <= B /\ Stream!IsPrime(index)
    BY <1>1 DEF PrimesIn
  <1> QED
    BY <1>1, <1>2, TrialDivision, HalfDivision

LEMMA RoutineStep ==
    ASSUME IInv, program = "main.c", routine
    PROVE  IInv'
  <1> DEFINE t == "generator"
  <1>1. t \in Threads /\ "lock" \in Places /\ "loop" \in Places
    BY DEF Threads, Places
  <1>2. CASE lock(t, "lock", "loop")
    BY <1>1, <1>2, LockStep
  <1>3. CASE /\ pc[t] = "loop"
             /\ IF index > B
                THEN Goto(t, "end") /\ UNCHANGED <<waiting, cell, done, index>>
                ELSE IF is_prime(index)
                THEN /\ cell' = index /\ done' = TRUE
                     /\ Signal
                     /\ Goto(t, "check") /\ UNCHANGED index
                ELSE index' = index + 1 /\ UNCHANGED <<pc, waiting, cell, done>>
             /\ UNCHANGED <<args, mutex, found, out>>
    <2>1. CASE index > B
      BY <1>3, <2>1, StopStep
    <2>2. CASE ~(index > B) /\ is_prime(index)
      <3>1. index \in PrimesIn
        BY <2>2, IndexIsPrime, Basics DEF IInv, TypeOK
      <3> QED
        BY <1>3, <2>2, <3>1, OfferStep
    <2>3. CASE ~(index > B) /\ ~is_prime(index)
      <3>1. index \notin PrimesIn
        BY <2>3, IndexIsPrime, Basics DEF IInv, TypeOK
      <3> QED
        BY <1>3, <2>3, <3>1, SkipStep
    <2> QED
      BY <2>1, <2>2, <2>3
  <1>4. CASE pc[t] = "check" /\ done /\ cond_wait(t)
    BY <1>1, <1>4, WaitStep
  <1>5. CASE /\ pc[t] = "check" /\ ~done
             /\ found' = found + 1
             /\ IF N = found + 1
                THEN Goto(t, "end") /\ UNCHANGED index
                ELSE Goto(t, "loop") /\ index' = index + 1
             /\ UNCHANGED <<args, mutex, waiting, cell, done, out>>
    BY <1>5, StopStep, GoOnStep DEF Full
  <1> QED
    BY <1>2, <1>3, <1>4, <1>5 DEF routine

LEMMA MainCStep ==
    ASSUME IInv, program = "main.c", main_c
    PROVE  \/ IInv' /\ UNCHANGED <<A, B, N, out>>
           \/ Takes
  <1> DEFINE t == "main"
  <1>1. t \in Threads /\ \A u \in {"lock", "loop", "check", "join"} : u \in Places
    BY DEF Threads, Places
  <1>2. CASE lock(t, "lock", "loop")
    <2>1. IInv'
      BY <1>1, <1>2, LockStep
    <2> QED
      BY <1>2, <2>1 DEF lock, args
  <1>3. CASE /\ pc[t] = "loop"
             /\ IF WantsMore
                THEN Goto(t, "check") /\ UNCHANGED mutex
                ELSE Goto(t, "join") /\ mutex' = "none"
             /\ UNCHANGED <<args, waiting, cell, done, index, found, out>>
    <2>1. IInv'
      BY <1>1, <1>3, MainMoves DEF WantsMore
    <2> QED
      BY <1>3, <2>1 DEF args
  <1>4. CASE pc[t] = "check" /\ ~done /\ cond_wait(t)
    <2>1. IInv'
      BY <1>1, <1>4, WaitStep
    <2> QED
      BY <1>4, <2>1 DEF cond_wait, args
  <1>5. CASE /\ pc[t] = "check" /\ done
             /\ out' = Append(out, cell)
             /\ done' = FALSE
             /\ Signal
             /\ Goto(t, "loop")
             /\ UNCHANGED <<args, mutex, cell, index, found>>
    BY <1>5 DEF Takes, Full
  <1> QED
    BY <1>2, <1>3, <1>4, <1>5 DEF main_c

LEMMA FindPrimesStep ==
    ASSUME IInv, program = "file.c", find_primes
    PROVE  IInv'
  <1> DEFINE t == "generator"
  <1>1. t \in Threads
        /\ \A u \in {"lock", "loop", "signal", "relock", "check", "last", "end"} : u \in Places
    BY DEF Threads, Places
  <1>2. CASE lock(t, "lock", "loop") \/ lock(t, "relock", "check")
    BY <1>1, <1>2, LockStep
  <1>3. CASE signal(t, "signal", "relock") \/ signal(t, "last", "end")
    BY <1>1, <1>3, SignalStep
  <1>4. CASE /\ pc[t] = "loop"
             /\ IF index > B
                THEN cell' = End /\ unlock(t, "last") /\ UNCHANGED index
                ELSE IF prime(index)
                THEN cell' = index /\ unlock(t, "signal") /\ UNCHANGED index
                ELSE index' = index + 1 /\ UNCHANGED <<pc, mutex, cell>>
             /\ UNCHANGED <<args, waiting, done, found, out>>
    <2>1. CASE index > B
      BY <1>4, <2>1, StopStep DEF unlock
    <2>2. CASE ~(index > B) /\ prime(index)
      <3>1. index \in PrimesIn
        BY <2>2, IndexIsPrime, Basics DEF IInv, TypeOK
      <3> QED
        BY <1>4, <2>2, <3>1, OfferStep DEF unlock
    <2>3. CASE ~(index > B) /\ ~prime(index)
      <3>1. index \notin PrimesIn
        BY <2>3, IndexIsPrime, Basics DEF IInv, TypeOK
      <3> QED
        BY <1>4, <2>3, <3>1, SkipStep
    <2> QED
      BY <2>1, <2>2, <2>3
  <1>5. CASE pc[t] = "check" /\ cell # Empty /\ cond_wait(t)
    BY <1>1, <1>5, WaitStep
  <1>6. CASE /\ pc[t] = "check" /\ cell = Empty
             /\ found' = found + 1
             /\ IF found + 1 = N
                THEN cell' = End /\ unlock(t, "last") /\ UNCHANGED index
                ELSE Goto(t, "loop") /\ index' = index + 1 /\ UNCHANGED <<cell, mutex>>
             /\ UNCHANGED <<args, waiting, done, out>>
    BY <1>6, StopStep, GoOnStep DEF Full, unlock
  <1> QED
    BY <1>2, <1>3, <1>4, <1>5, <1>6 DEF find_primes

LEMMA MainFileStep ==
    ASSUME IInv, program = "file.c", main_file
    PROVE  \/ IInv' /\ UNCHANGED <<A, B, N, out>>
           \/ Takes
  <1> DEFINE t == "main"
  <1>1. t \in Threads
        /\ \A u \in {"lock", "loop", "signal", "relock", "check", "last", "join"} : u \in Places
    BY DEF Threads, Places
  <1>2. CASE lock(t, "lock", "loop") \/ lock(t, "relock", "check")
    <2>1. IInv'
      BY <1>1, <1>2, LockStep
    <2> QED
      BY <1>2, <2>1 DEF lock, args
  <1>3. CASE signal(t, "signal", "relock") \/ signal(t, "last", "join")
    <2>1. IInv'
      BY <1>1, <1>3, SignalStep
    <2> QED
      BY <1>3, <2>1 DEF signal, args
  <1>4. CASE /\ pc[t] = "loop"
             /\ unlock(t, IF WantsMore THEN "signal" ELSE "last")
             /\ UNCHANGED <<args, waiting, cell, done, index, found, out>>
    <2>1. CASE WantsMore
      <3>1. IInv'
        BY <1>1, <1>4, <2>1, MainMoves DEF WantsMore, unlock
      <3> QED
        BY <1>4, <3>1 DEF args
    <2>2. CASE ~WantsMore
      <3>1. IInv'
        BY <1>1, <1>4, <2>2, MainMoves DEF unlock
      <3> QED
        BY <1>4, <3>1 DEF args
    <2> QED
      BY <2>1, <2>2
  <1>5. CASE pc[t] = "check" /\ MainHasToWait /\ cond_wait(t)
    <2>1. IInv'
      BY <1>1, <1>5, WaitStep DEF MainHasToWait
    <2> QED
      BY <1>5, <2>1 DEF cond_wait, args
  <1>6. CASE /\ pc[t] = "check" /\ ~MainHasToWait
             /\ IF cell = End
                THEN unlock(t, "last") /\ UNCHANGED <<cell, out>>
                ELSE /\ out' = Append(out, cell)
                     /\ cell' = Empty
                     /\ Goto(t, "loop") /\ UNCHANGED mutex
             /\ UNCHANGED <<args, waiting, done, index, found>>
    <2>1. CASE cell = End
      <3>1. IInv'
        BY <1>1, <1>6, <2>1, MainMoves DEF unlock
      <3> QED
        BY <1>6, <2>1, <3>1 DEF args
    <2>2. CASE cell # End
      BY <1>6, <2>2 DEF Takes, Full, MainHasToWait
    <2> QED
      BY <2>1, <2>2
  <1> QED
    BY <1>2, <1>3, <1>4, <1>5, <1>6 DEF main_file

\* Every step keeps the invariant, and only taking a number prints.
LEMMA NextStep ==
    ASSUME IInv, [Next]_vars
    PROVE  /\ IInv'
           /\ UNCHANGED <<A, B, N, out>> \/ Takes
  <1> SUFFICES \/ IInv' /\ UNCHANGED <<A, B, N, out>>
               \/ Takes
    BY TakeStep
  <1>1. /\ "generator" \in Threads /\ "main" \in Threads
        /\ "join" \in Places /\ "end" \in Places
    BY DEF Threads, Places
  <1>2. ASSUME program = "main.c", routine PROVE IInv' /\ UNCHANGED <<A, B, N, out>>
    BY <1>2, RoutineStep DEF routine, lock, cond_wait, args
  <1>3. ASSUME program = "file.c", find_primes PROVE IInv' /\ UNCHANGED <<A, B, N, out>>
    BY <1>3, FindPrimesStep DEF find_primes, lock, signal, cond_wait, args
  <1>4. ASSUME NEW t \in Threads, cond_wake(t) PROVE IInv' /\ UNCHANGED <<A, B, N, out>>
    BY <1>4, WakeStep DEF cond_wake, args
  <1>5. ASSUME NEW t \in Threads, spurious(t) PROVE IInv' /\ UNCHANGED <<A, B, N, out>>
    BY <1>5, SpuriousStep DEF spurious, args
  <1>6. ASSUME main_join PROVE IInv' /\ UNCHANGED <<A, B, N, out>>
    <2>1. IInv'
      BY <1>1, <1>6, MainMoves DEF main_join
    <2> QED
      BY <1>6, <2>1 DEF main_join, args
  <1>7. ASSUME UNCHANGED vars PROVE IInv' /\ UNCHANGED <<A, B, N, out>>
    <2>1. UNCHANGED <<program, A, B, N, mutex, waiting, pc, cell, done, index, found, out>>
      BY <1>7 DEF vars, args
    <2>2. PrimesIn' = PrimesIn /\ \A b : Covered(b)' <=> Covered(b)
      BY <2>1, CoveredKept
    <2>3. TypeOK' /\ Locked' /\ Wanted' /\ Sleepers'
      BY <2>1 DEF IInv, TypeOK, Locked, Inside, Wanted, Sleepers
    <2>4. Offer'
      <3>1. /\ (Offered' <=> Offered) /\ (Full' <=> Full)
            /\ Covered(index) => Covered(index)'
            /\ Covered(index + 1) => Covered(index + 1)'
        BY <2>1, <2>2 DEF Offered, Full
      <3> QED
        BY <2>1, <2>2, <3>1 DEF IInv, Offer
    <2> QED
      BY <2>1, <2>3, <2>4 DEF IInv
  <1> QED
    BY <1>1, <1>2, <1>3, <1>4, <1>5, <1>6, <1>7, MainCStep, MainFileStep
       DEF Next, Generator, Main

-----------------------------------------------------------------------------
(* The results                                                              *)

\* What main has printed is the primes below the generator's number, and
\* neither routine, find_primes nor main sleeps without a signal to come.
THEOREM Inductive == Spec => []IInv
  BY InitIInv, NextStep, PTL DEF Spec

\* The one cell, mutex and condition variable of main.c and file.c hand a
\* number over before the next one is put there, and never leave both threads
\* asleep, whichever arguments and spurious wake-ups.
THEOREM HandsOver == Spec => []HandOver
  <1>1. IInv => HandOver
    <2> SUFFICES ASSUME IInv PROVE HandOver
      OBVIOUS
    <2>1. waiting # Threads /\ Len(out) \in Nat /\ found \in Nat
      BY NeverBothWait, Basics DEF IInv, TypeOK
    <2>2. ~Full => Len(out) = found \/ Len(out) = found + 1
      BY DEF IInv, Offer
    <2>3. ~(Inside("generator") /\ Inside("main"))
      BY DEF IInv, Locked, Threads
    <2> QED
      BY <2>1, <2>2, <2>3 DEF IInv, HandOver, Locked, Offer
  <1> QED
    BY <1>1, Inductive, PTL

\* The cell, the indices and the counters stay in their ranges.
THEOREM TypesAreCorrect == Spec => []TypeOK
  <1>1. IInv => TypeOK
    BY DEF IInv
  <1> QED
    BY <1>1, Inductive, PTL

LEMMA StreamInit == Init => Stream!Init
  <1> SUFFICES ASSUME Init PROVE Stream!Init
    OBVIOUS
  <1>1. PICK a \in Args : A = a[1] /\ B = a[2] /\ N = a[3]
    BY DEF Init
  <1> QED
    BY <1>1, ArgsAssumption DEF Init, Stream!Init

\* The number main takes is the next prime of the interval.
LEMMA TakeEmits == IInv /\ Takes => Stream!Emit
  <1> SUFFICES ASSUME IInv, Takes PROVE Stream!Emit
    OBVIOUS
  <1>1. /\ UNCHANGED <<A, B, N>> /\ index \in PrimesIn /\ Len(out) < N /\ Covered(index)
        /\ out' = Append(out, index)
    BY TakesIs DEF Takes
  <1>2. index \in Stream!Left
    BY <1>1 DEF PrimesIn, Covered, Stream!Left
  <1>3. ASSUME NEW y \in Stream!Left PROVE index <= y
    <2>1. y \in PrimesIn /\ y \in Nat /\ index \in Nat /\ \A i \in 1 .. Len(out) : out[i] < y
      BY Basics DEF PrimesIn, Stream!Left, IInv, TypeOK
    <2>2. \A i \in 1 .. Len(out) : out[i] # y
      BY <2>1
    <2> QED
      BY <1>1, <2>1, <2>2 DEF Covered
  <1> QED
    BY <1>1, <1>2, <1>3 DEF Stream!Emit

\* Whatever the two threads do, main prints the primes of A .. B one after
\* the other from the smallest on, none left out or repeated, at most N.
THEOREM PrintsTheStream == Spec => StreamsPrimes
  <1>1. IInv /\ [Next]_vars => [Stream!Emit]_(Stream!vars)
    BY NextStep, TakeEmits DEF Stream!vars
  <1> QED
    BY <1>1, Inductive, StreamInit, PTL DEF Spec, StreamsPrimes, Stream!Spec
=============================================================================
