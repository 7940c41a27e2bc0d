------------------------------ MODULE FileTools ------------------------------
(***************************************************************************)
(* Two programs that transform their input in place.                       *)
(*   sort       inf08-2: merge sort of a file of integers; segments are    *)
(*              sorted in memory, and merged from two temporary files      *)
(*              through buffers;                                           *)
(*   normalize  inf09-0: normalize_path, which removes ".", "name/.." and  *)
(*              repeated slashes from a path.                              *)
(***************************************************************************)
EXTENDS Integers, Sequences, SequencesExt, FiniteSets

CONSTANTS
    Values, Width,        \* integers of the file, all of Width bits
    MaxLength,            \* integers of a file, at most
    Segments, Buffers,    \* values of segment_size and buffer_size
    MaxPath               \* characters of a path, at most

ASSUME SizesAssumption ==
    /\ Values \subseteq -(2 ^ (Width - 1)) .. 2 ^ (Width - 1) - 1
    /\ MaxLength \in Nat /\ MaxPath \in Nat
    /\ Segments \subseteq Nat \ {0} /\ Buffers \subseteq Nat \ {0}

Characters == {"/", ".", "a"}
Strings(S, n) == UNION {[1 .. len -> S] : len \in 0 .. n}
Drop(s, n)    == SubSeq(s, n + 1, Len(s))
min(a, b)     == IF a < b THEN a ELSE b

VARIABLES
    program, input,               \* the program and what it is given
    segment_size, buffer_size,
    file, temp1, temp2,           \* sort: the contents of the three files
    tasks,                        \* the calls of merge_sort under way, innermost last
    merging,                      \* the call of merge_files: sizes and positions
    path, begin                   \* normalize: the string, and the start of its rest

vars == <<program, input, segment_size, buffer_size, file, temp1, temp2, tasks, merging,
          path, begin>>

Idle == [active |-> FALSE, size1 |-> 0, size2 |-> 0, pos1 |-> 0, pos2 |-> 0, out |-> 0]
Task(op, left, mid, right) == [op |-> op, left |-> left, mid |-> mid, right |-> right]

\* main of sort: the whole of the file, with empty temporary files.
Init ==
    /\ program \in {"sort", "normalize"}
    /\ input \in IF program = "sort" THEN Strings(Values, MaxLength)
                 ELSE Strings(Characters, MaxPath)
    /\ segment_size \in IF program = "sort" THEN Segments ELSE {1}
    /\ buffer_size \in IF program = "sort" THEN Buffers ELSE {1}
    /\ file = (IF program = "sort" THEN input ELSE <<>>)
    /\ temp1 = <<>> /\ temp2 = <<>> /\ merging = Idle
    /\ tasks = (IF program = "sort" THEN <<Task("sort", 0, 0, Len(input))>> ELSE <<>>)
    /\ path = (IF program = "normalize" THEN input ELSE <<>>)
    /\ begin = (IF program = "normalize" THEN 0 ELSE -1)

-----------------------------------------------------------------------------
(* sort.  Operators named bug_ are mutants of the definition that follows   *)
(* them.                                                                   *)

\* Writes words over those of the file from position on.
write_bytes(contents, position, words) ==
    SubSeq(contents, 1, position) \o words \o Drop(contents, position + Len(words))

\* Up to the end of the file.
read_bytes(contents, position, n) ==
    SubSeq(contents, position + 1, min(position + n, Len(contents)))

\* The difference as an int of Width bits.
cmp(a, b) ==
    LET d == (a - b) % 2 ^ Width
    IN  IF d >= 2 ^ (Width - 1) THEN d - 2 ^ Width ELSE d

Comparable(words) ==
    \A i, j \in DOMAIN words : cmp(words[i], words[j]) > 0 <=> words[i] > words[j]

Arrangements(words) ==
    {[i \in DOMAIN words |-> words[f[i]]] :
        f \in {g \in [DOMAIN words -> DOMAIN words] : IsInjective(g)}}

Sorted(words) == \A i \in 1 .. Len(words) - 1 : words[i] <= words[i + 1]

\* qsort; when cmp overflows it is no order, and the result is any arrangement.
qsort(words) ==
    {w \in Arrangements(words) : Comparable(words) => Sorted(w)}

\* merge stops when one of its inputs is used up: [left, right, arr].
RECURSIVE merge(_, _, _, _, _)
merge(L, R, i, j, arr) ==
    IF i = Len(L) \/ j = Len(R) THEN [left |-> i, right |-> j, arr |-> arr]
    ELSE IF L[i + 1] <= R[j + 1] THEN merge(L, R, i + 1, j, Append(arr, L[i + 1]))
                                 ELSE merge(L, R, i, j + 1, Append(arr, R[j + 1]))

sort_file_segment(task) ==
    LET segment == read_bytes(file, task.left, task.right - task.left)
    IN  /\ \E words \in qsort(segment) : file' = write_bytes(file, task.left, words)
        /\ tasks' = Front(tasks)

merge_sort ==
    /\ tasks # <<>> /\ Last(tasks).op = "sort"
    /\ LET task == Last(tasks)
           mid == task.left + (task.right - task.left) \div 2
       IN  IF task.right - task.left <= segment_size
           THEN sort_file_segment(task)
           ELSE /\ tasks' = Front(tasks) \o <<Task("merge", task.left, mid, task.right),
                                              Task("sort", mid, 0, task.right),
                                              Task("sort", task.left, 0, mid)>>
                /\ UNCHANGED file
    /\ UNCHANGED <<program, input, segment_size, buffer_size, temp1, temp2, merging, path, begin>>

\* Both halves are copied to the temporary files, whose older contents stay
\* behind them.
copy_file_segment ==
    /\ tasks # <<>> /\ Last(tasks).op = "merge" /\ ~merging.active
    /\ LET task == Last(tasks)
       IN  /\ temp1' = write_bytes(temp1, 0, read_bytes(file, task.left, task.mid - task.left))
           /\ temp2' = write_bytes(temp2, 0, read_bytes(file, task.mid, task.right - task.mid))
           /\ merging' = [Idle EXCEPT !.active = TRUE, !.out = task.left,
                              !.size1 = task.mid - task.left, !.size2 = task.right - task.mid]
    /\ UNCHANGED <<program, input, segment_size, buffer_size, file, tasks, path, begin>>

bug_Reposition(pos, p, used) == pos + p

\* lseek back over what was read and not used.
Reposition(pos, p, used) == pos + p - (p - used)

\* One turn of the loop of merge_files, or the rest of one file at its end.
merge_files ==
    /\ merging.active
    /\ LET m  == merging
           p1 == min(m.size1, buffer_size)
           p2 == min(m.size2, buffer_size)
           merged == merge(read_bytes(temp1, m.pos1, p1), read_bytes(temp2, m.pos2, p2), 0, 0, <<>>)
           rest == IF m.size2 > 0 THEN read_bytes(temp2, m.pos2, m.size2)
                                  ELSE read_bytes(temp1, m.pos1, m.size1)
       IN  IF m.size1 > 0 /\ m.size2 > 0
           THEN /\ file' = write_bytes(file, m.out, merged.arr)
                /\ merging' = [m EXCEPT !.size1 = @ - merged.left, !.size2 = @ - merged.right,
                                        !.pos1 = Reposition(@, p1, merged.left),
                                        !.pos2 = Reposition(@, p2, merged.right),
                                        !.out = @ + Len(merged.arr)]
                /\ UNCHANGED tasks
           ELSE /\ file' = write_bytes(file, m.out, rest)
                /\ merging' = Idle /\ tasks' = Front(tasks)
    /\ UNCHANGED <<program, input, segment_size, buffer_size, temp1, temp2, path, begin>>

-----------------------------------------------------------------------------
(* normalize *)

\* The length of the part of s, from its start, of which Has holds.
Span(s, Has(_)) ==
    CHOOSE n \in 0 .. Len(s) :
      (\A i \in 1 .. n : Has(s[i])) /\ (n < Len(s) => ~Has(s[n + 1]))

read_name(s) == Span(s, LAMBDA c : c # "/")

\* Slashes at the start become one.
restore_coupler(s) ==
    LET n == Span(s, LAMBDA c : c = "/") IN IF n > 1 THEN Drop(s, n - 1) ELSE s

Coupler(s) == IF s # <<>> /\ s[1] = "/" THEN 1 ELSE 0

bug_strncmp_(s, prefix) == s = prefix

\* strncmp_ with the length of the second string: only a prefix is compared.
strncmp_(s, prefix) == IsPrefix(prefix, s)

\* [s, up]: the string that takes the place of s, and whether it began with a
\* ".." that its parent must pay for.
RECURSIVE normalize_relative_path(_)
normalize_relative_path(s) ==
    LET whole == restore_coupler(s)
        lead  == SubSeq(whole, 1, Coupler(whole))
        here  == Drop(whole, Coupler(whole))
        name  == SubSeq(here, 1, read_name(here))
        after == restore_coupler(Drop(here, Len(name)))
        slash == SubSeq(after, 1, Coupler(after))
        tail  == Drop(after, Coupler(after))
        Behind(front, result) == [result EXCEPT !.s = front \o @]
        inner == normalize_relative_path(tail)
    IN  CASE s = <<>> -> [s |-> s, up |-> FALSE]
          [] s # <<>> /\ strncmp_(here, <<".", ".">>) -> [s |-> lead \o tail, up |-> TRUE]
          [] s # <<>> /\ ~strncmp_(here, <<".", ".">>) /\ strncmp_(here, <<".">>) ->
               Behind(lead, inner)
          [] OTHER -> IF inner.up THEN Behind(lead, normalize_relative_path(inner.s))
                                  ELSE Behind(lead \o name \o slash, inner)

\* One turn of the loop: "../" is put in front and the rest looked at again.
normalize_path ==
    /\ begin >= 0
    /\ LET result == normalize_relative_path(Drop(path, begin))
           front  == SubSeq(path, 1, begin)
       IN  IF result.up
           THEN /\ path' = front \o <<".", ".", "/">> \o result.s
                /\ begin' = begin + 3
           ELSE /\ path' = IF front \o result.s = <<>> THEN <<".", "/">> ELSE front \o result.s
                /\ begin' = -1
    /\ UNCHANGED <<program, input, segment_size, buffer_size, file, temp1, temp2, tasks, merging>>

-----------------------------------------------------------------------------

Next == merge_sort \/ copy_file_segment \/ merge_files \/ normalize_path

Spec == Init /\ [][Next]_vars

-----------------------------------------------------------------------------
(* Properties *)

Count(words, v) == Cardinality({i \in DOMAIN words : words[i] = v})

\* No integer is lost or doubled at any time: those of the file outside of the
\* part that is being merged into, and those still to be read of the
\* temporary files, are those of the input.  At the end the file is sorted,
\* unless two of its integers differ by more than an int can hold.
SortsTheFile ==
    program = "sort" =>
      /\ LET m == merging
             kept == IF m.active
                     THEN SubSeq(file, 1, m.out)
                            \o read_bytes(temp1, m.pos1, m.size1)
                            \o read_bytes(temp2, m.pos2, m.size2)
                            \o Drop(file, Last(tasks).right)
                     ELSE file
         IN  \A v \in Values : Count(kept, v) = Count(input, v)
      /\ tasks = <<>> /\ Comparable(input) => Sorted(file)

\* The names of a path, in their order.
RECURSIVE NamesOf(_)
NamesOf(s) ==
    LET n == read_name(s)
    IN  IF s = <<>> THEN <<>>
        ELSE IF n = 0 THEN NamesOf(Tail(s)) ELSE <<SubSeq(s, 1, n)>> \o NamesOf(Drop(s, n))

Dot    == <<".">>
DotDot == <<".", ".">>

\* Where a path leads: how far up, and then which names down.
Walk(place, name) ==
    CASE name = Dot -> place
      [] name = DotDot /\ place.down = <<>> -> [place EXCEPT !.up = @ + 1]
      [] name = DotDot /\ place.down # <<>> -> [place EXCEPT !.down = Front(@)]
      [] OTHER -> [place EXCEPT !.down = Append(@, name)]

RECURSIVE Place(_, _)
Place(place, names) == IF names = <<>> THEN place ELSE Place(Walk(place, Head(names)), Tail(names))
Destination(s) == Place([up |-> 0, down |-> <<>>], NamesOf(s))

\* normalize_path takes every name that begins with a dot for "." or "..", and
\* puts "../" in front of an absolute path that leads above the root.
Regular(s) ==
    /\ \A i \in DOMAIN NamesOf(s) : NamesOf(s)[i][1] = "." => NamesOf(s)[i] \in {Dot, DotDot}
    /\ Coupler(s) = 1 => Destination(s).up = 0

\* A regular path is normalised: it leads where it led, from the root if it did,
\* and nothing is left to remove: no doubled slash, no "." (except "./" alone)
\* and no ".." behind a name.
NormalizesThePath ==
    program = "normalize" /\ begin = -1 /\ Regular(input) =>
      /\ Destination(path) = Destination(input)
      /\ input # <<>> => Coupler(path) = Coupler(input)
      /\ \A i \in 1 .. Len(path) - 1 : ~(path[i] = "/" /\ path[i + 1] = "/")
      /\ path = <<".", "/">> \/ Len(NamesOf(path)) = Destination(path).up + Len(Destination(path).down)
=============================================================================
