# TLA+ models of the acos programs

This directory holds TLA+ specifications of programs of this repository, TLC
configurations that check them on small instances, and TLAPS proofs of the
results that matter most. The repository is a collection of some ninety small,
independent programs on computer architecture and operating systems. There is
no common system: each program is a component of its own. What they share is
the kind of trouble they can get into: threads that interleave between two
instructions, signals that arrive between a test and a blocking call, children
that exit early, pipes that fill up, calls that fail half way.

## Inventory

| Part | Sources | State | Operations | What is hard | Module |
|---|---|---|---|---|---|
| Swap-file allocator | `inf10-3` | words of a mapped file, with signed lengths as headers | `myalloc_initialize`, `my_malloc`, `my_free`, `myalloc_finalize` | long call sequences; headers and user data share one array | `SwapAlloc`, `HeapContract` |
| Lock-free lists | `inf19-2` (`main.c`, `file.c`) | head, tail, next pointers | push by n threads, join, print, destroy | the list is torn between exchange and link | `AtomicList` |
| Prime generators | `inf19-1` (`main.c`, `file.c`) | one cell, mutex, condition variable | generator, main | lost and spurious wake-ups; one condition variable for two conditions | `Primes`, `PrimeStream` |
| Smokers | `inf20-2` (`main.c`, `file.c`) | six shared semaphores, signal flag | read command, hand out, smoke, kill, wait | a signal between test and `sem_wait`; order of output of three processes | `Smokers` |
| HTTP server with CGI | `inf16-2` | listening socket, `must_stop_server`, `current_child_pid`, pipes | accept, read, respond, execute, signal handlers | handlers that wait; EINTR; children that outlive or overtake; failed `execl` | `HttpServer` |
| Parallel map | `inf20-1` | semaphore of permits, result array | create, drain, destroy, join; worker | semaphore destroyed while workers post; failed `pthread_create` | `Pmap` |
| epoll socket server | `inf17-1` | one buffer, length and interest per client, connection counter | `epoll_pwait`, accept, read, write, close, signals | short writes, stale interest, failed `accept`, reset connections | `EpollServer` |
| File HTTP server | `inf16-1` | listening socket, `must_stop_server`, descriptors | accept, read, answer, close, signals | descriptors never closed, files that change, requests that come in pieces | `FileServer` |
| Expression compiler | `asm-arm_codegen_compileexpr-1` | sorting stack, Polish notation, commands and data | parse, generate, write, run | precedence, calls, offsets relative to pc | `JitCompiler` |
| FUSE file systems | `inf24-0`, `inf24-1` | table of files; list of directories; names already listed | getattr, readdir, open, read, release | unsigned offsets, uninitialised table, precedence of directories | `Fuse` |
| Sorting a file, normalising a path | `inf08-2`, `inf09-0` | the file and two temporary files; the string | merge sort; normalise | buffers that run empty, repositioning, `..` | `FileTools` |
| Time limit, counting signals, pipeline | `inf14-2`, `inf13-0`, `inf15-4` | flags set by handlers, pending signals, descriptors | fork, sleep, kill, wait; pause; launch | a child that ends too early, check-then-pause, descriptors used again, full pipes | `Processes` |
| Other signal programs and pipes, fork and exec, epoll reader | `inf13-1`, `inf13-2`, `inf14-0`, `inf14-1`, `inf15-0` to `inf15-3`, `inf11-*`, `inf12-*`, `inf17-0` | flags, pipe ends | | the same as above | not modelled |
| Mutex ring, socket pair, shared memory | `inf19-0`, `inf18-*`, `inf20-0`, `inf21-1` | locks, last message | | lock order, the end of the exchange | not modelled yet |
| Files, network clients, `dlopen`, OpenSSL, numeric and assembly exercises, Python glue | the rest | none to speak of | | | not modelled, see below |

The components do not call each other. Within one, the interaction is: shared
memory (`inf19-*`, `inf20-*`), pipes and `fork` (`inf16-2`, `inf15-4`), signals
(`inf16-*`, `inf20-2`, `inf13-0`, `inf14-2`), sockets (`inf16-*`, `inf17-1`), and
calls in sequence (`inf10-3`, `inf24-*`).

`PROJECT.json` lists every component, maps definitions to source lines, and
lists the main hazards, each at the line where it bites.

## Modules and how they correspond to the code

A definition has the name of the function it models; a function that is cut
into several steps has several actions with a common prefix or its own names
for the steps. Operators named `bug_...` are plausible errors in the definition
that follows them; they are used in no specification and serve to show that
each property can fail.

**SwapAlloc** keeps the file as `mem`, a function from word numbers, where the
header of a block is its length, positive when used and negative when free. The
scan of `find_first_empty_gap` and the coalescing of `my_free` take one
iteration per step. `live` and `stale` are history: what the client holds and
what it has freed. The client stores anything in words it owns, so that
remains of user data are read as headers as soon as a scan leaves the chain.
`HeapContract` is what the allocator promises: a block that is granted was
vacant and is large enough, contents stay until the owner changes them, a
request is answered. `HeapPromise` is the refinement.

**AtomicList** holds both programs. The exchange, the link and the counter of
`list_push` are separate steps, as are the exchange, `next` and `value` of
`add_item`. Items are named by the value they are to carry. `order` records the
exchanges. `pthread_create` may fail, unnoticed. What `pthread_join` then does with
a `pthread_t` that was never written is undefined, and the model follows the main
thread no further.

**Primes** holds both programs. The POSIX mutex and condition variable are
modelled from their use: waiting gives the mutex up atomically, a signal wakes
at most one waiter and is lost when there is none, and wake-ups may be
spurious. `PrimeStream` is the promise: each number printed is the next prime.

**Smokers** holds both programs. Commands are characters; the newline stands
for any other character, which `main.c` ignores and `file.c` takes for the last
resource. Delivery of SIGTERM is a step of its own. A smoker blocked in
`sem_wait` is woken by the handler, one about to enter it is not.

**HttpServer** models the whole life of a request. Requests have a kind: not
parseable (`bad`), refused with a status and no body, a static file, a CGI
program, an executable file that cannot be executed (`badexec`). Bodies are
counted in pieces, one buffer of `copy_file` each. The blank line is looked for at
the end of what has been read only: a request that has none there, or goes on
behind it, is read up and then waited for (`drained`), until the client leaves.
`accept` may fail although a connection is there, `read` of a file may fail, and so
may `pipe`, `fork`, `open` and `execl`. Signals are pending until
delivered; At(p, ...) lets no system call return before. `Return` gives EINTR to
a call that was blocked, because the handlers are installed without
SA_RESTART, or lets the call start after the handler. `waits` holds the waits
a process is in inside its handlers: `pid` for the `waitpid` of SIGCHLD, `any`
for the `wait` of the stop signals, which can be nested. A child whose `execl`
fails goes on as a second server, with what it inherited: the connection, the
writing end of the pipe (`holds`) and the value of `current_child_pid`. What
that server prints goes to its standard output, which is the pipe, and so to the
client: it is one piece, written at any time, or when it exits. Status lines and headers are left out, as is start-up before the first
`accept`.

**Pmap** has the caller's three loops and the four steps of a worker. Values
are abstracted to whether `out[n]` was written.

**EpollServer** has one action per phase of a turn of `run_server`: waiting,
taking an event of the batch, accepting, the EPOLLIN branch, the EPOLLOUT
branch. epoll is level-triggered and external: `Ready` says what it reports of
a connection. A connection has the bytes on their way to the server (`inq`) and
back (`outq`, at most `Room`). Bytes are numbers in the order in which they are
sent, and `toupper` moves them to a second range, so that an echo that is
reordered, repeated or not converted shows. `CONNECTIONS_LIMIT` is chosen at the
start, to have runs that reach it.

**FileServer** counts requests and files in pieces. A request has a head, whose
last piece ends with the blank line, and pieces behind it. `recv` takes any
number of the pieces that have arrived. A descriptor that is not closed stays in
`leaked`. The file may change once between `stat` and the end of the copy. A file
that got status 200 may be one that the server cannot open (`denied`: `S_IRUSR`
is its owner's right), a `directory`, which opens and cannot be read, or a `damaged`
file, whose read fails at any point. The socket holds `SockCap` pieces for a client,
and `write` waits while it is full (`Clogged`).

**JitCompiler** takes an expression as a tree, which `TextOf` turns into the tokens
of its text. The tokenizer (`ReadToken`, `ReadName`, `ReadNumber`) is not modelled. The
parser takes a token per step, the generator an operand per step, and then a
machine executes the words of the buffer. A word is tagged, so that a machine
that adds an address or executes data has crashed. Functions weigh their
arguments differently, and spoil the registers they may spoil.

**Fuse** holds both file systems. A file's content is its place in the image, or
the directory it comes from; `reply` is the last answer. The kernel is external:
it reads from offsets within the file. In `inf24-1` a request is a `task` that takes
the directories one after another, in `find_file` as in `custom_readdir`, and other
processes change them at any time between; `touched` is what they changed during the
request. A listing passes over the names that begin with a dot (`Hidden`), and
`files_dict` begins either empty or with what the previous listing left on the stack.

**FileTools** holds two algorithms. The recursion of `merge_sort` is the stack
`tasks`; one turn of the loop of `merge_files` is a step, so that the sum of
what is in the file and in the temporary files can be stated at each. `cmp` has
the width of an `int` and overflows. `normalize_path` takes a turn of its loop
per step; the recursion inside it is an operator on strings over `/`, `.` and a
letter.

**Processes** holds three programs. In `timeout` the child may end, be killed,
be stopped or go on at any time, and SIGCHLD is dropped before its handler is
set. In `count` a signal may come between the test and `pause`. In `pipeline`
the descriptor tables of main and of the running program are explicit: `pipe`
takes the lowest free numbers, and `child_fds` is what the child does before
`execlp`. The programs that are run read all of their input and write a given
number of units, in any order.

## Runs

All twelve runs use `MC<module>.cfg`; all are exhaustive.

| Run | Instance | What it shows |
|---|---|---|
| `swap_alloc` | files of 0, 4, 6 and 10 words, requests from 0 to 60 bytes, three data words (negative, zero, positive) | `HeapIntact` (the chain of headers), `HeapPromise` (refinement), `CallsReturn` |
| `atomic_list` | up to 3 threads of up to 2 values, any of which may fail to be created | `Chained`, `PrintsEveryPush`, `CrashOnlyOnEmptyList`, `Terminates` |
| `primes` | intervals with no, one and several primes; N below, at and above their number, and 0 | `HandOver`, `StreamsPrimes`, `Ends` |
| `smokers` | every input of up to 2 commands | `OutputFollowsInput`, `KilledAtRest`, `EndsUnlessMissed` |
| `http_server` | 2 connections, 2 forks, programs that write 0 or 2 pieces, files, pipes and sockets of 1 piece | `HonestSuccess`, `NoFdLeak`, `Reaped`, `StopHonoured`, `Served` |
| `pmap` | 4 elements, 2 permits | `Throttled`, `SafeDestroy`, `ResultsComplete`, `Returns` |
| `epoll_server` | 2 clients of up to 3 bytes, buffers of 2, limits below and at the number of clients, 1 signal | `EchoIntact`, `CountAgrees`, `Attended` |
| `file_server` | 2 connections, 2 signals, 3 descriptors, requests of up to 4 pieces, files of up to 2, sockets of 1 | `HonestLog`, `Served` |
| `jit_compiler` | all expressions of two levels over +, -, * and calls with 0, 1 and 2 arguments, some with 4; written with few and with all brackets; a buffer that the largest overrun | `ComputesExpression`, `Returns` |
| `fuse` | images of up to 2 files of up to 4 bytes; 2 directories with 2 interchangeable names and one with a dot, 1 change at any step of a request, tables of 1 and 2 names | `ReadsTheFile`, `ShowsTheUnion` |
| `file_tools` | all files of up to 5 integers and all paths of up to 7 characters, several sizes of segments and buffers | `SortsTheFile`, `NormalizesThePath` |
| `processes` | 3 signals, pipelines of up to 4 programs, outputs below, at and above the capacity of a pipe | `HonestVerdict`, `ConnectedInOrder`, `Ends` |

Why the bounds are enough for the cases of interest: three threads give a push
behind a gap that another thread has not closed; a file of six words holds
three blocks, so that freeing the middle one meets free, used and no neighbours
(the file of ten words is larger than a page, and faults in `myalloc_initialize`);
two commands put one smoker to work after another; two connections are needed
for an earlier child to end while a later one is current, and a program with
two pieces for a pipe of one blocks. With two permits and four elements the
caller waits in each of its loops. Three bytes for a buffer of two give a read
that does not take all, and an output with room for two gives a short write;
two clients give batches in which one event's handling precedes the other's.
Three descriptors are used up by the first file that is served, with another
connection to come; a file of two pieces for a socket of one stops in `write`. One
change in two directories hides a name in one that was passed over or is yet to
come, and makes the file that `find_file` has settled on disappear. Five integers split unevenly, with buffers that run empty on
either side; seven characters hold `a/../../`, with a letter or a slash before
it or behind. Four programs use descriptor 0 again for a pipe that is read and
for one that is not.

What the runs show about the code beyond "it holds":

* `file.c` of `inf19-2` crashes on an empty list, and only then.
* `main.c` of `inf19-1` ends for sure only when the interval has N primes and
  N > 0; the generator returns with the mutex locked. The precondition is
  `Answerable`.
* `main.c` of `inf20-2` can hang at its end: SIGTERM between the test of
  `kick_out` and `sem_wait` is lost (`MissedSigterm`). `file.c` cannot.
* In `inf16-2` a child that exits before `current_child_pid` is set is never
  reaped by the SIGCHLD handler (`missed`); a stop signal between the test and
  `accept` waits for the next client; a SIGCHLD that comes late makes the
  handler wait for the wrong child, for ever if that child's pipe is full;
  a failed `execl` holds the server up for good (`HeldUp`), and a request with
  anything behind its blank line, or without one, does until its client leaves
  (`Stalled`; after a stop signal, too, if that was handled just before `recv`). In
  the model these are all the exceptions to `Reaped`, `StopHonoured` and `Served`.
* In `inf16-2` "Successful request" is logged after a refusal, after a file (sent
  with the length announced unless it changed after `stat`), after all that a CGI
  program ever writes, and in two cases in which nothing was answered: an empty body
  when `fork` failed, and, when `execl` failed, what the second server prints
  (`Answered`). `HonestSuccess` shows that it is logged after nothing else. So an
  answer that EINTR, a client or a failed `read` cuts short is not reported as a
  success.
* `pmap_process` hangs after a failed `pthread_create`, and never returns an
  incomplete array.
* In `inf17-1` a short write garbles the echo (`short`), a failed `accept` is
  counted for ever (`phantoms`), a client that reads slowly is cut off. The stop
  signal only works inside `epoll_pwait`.
* In `inf16-1` each file served costs a descriptor until there is none left,
  after which answers are status 200 with no content; so are those for directories
  and for files that the server may not open. All are logged as errors, as is an
  answer in whose middle `read` fails. A client that sends less than a request or
  something behind its blank line holds the server in `recv` (`Starved`), one that
  does not read holds it in `write` (`Clogged`), as long as it stays.
* The compiler takes `f()` for a call with one argument; the code then pops what
  is not its own. Everything else in the set of expressions is compiled
  correctly if it fits in the buffer (`Compilable`).
* `inf24-0` compares `size - off` with the length minus `off`: `Misjudged` is
  exactly the set of requests that get too many bytes. `inf24-1` ignores the
  offset, leaves out of its listings names that begin with a dot although they can be
  opened, and forgets names when its table is full or was left filled. While the
  directories change, a file that is removed between `stat` and `open` cannot be
  opened although another directory has one of that name, and a name may be listed
  that is no longer there; a name that one directory has all the time is found.
* `sort` is correct as long as no difference of two integers overflows
  (`Comparable`). `normalize_path` takes each name that begins with a dot for `.`
  or `..`, and a path above the root for a relative one (`Regular`).
* `timeout` reports a child that ended too early as timed out, and waits without
  limit for one that was stopped (`KeptWaiting`). The pipeline waits for each
  program before it starts the next, so that more output than a pipe holds
  blocks it (`Overfull`).

`CHECK_DEADLOCK FALSE` stands where the program may come to rest: all processes
have ended, or one of the hangs above.

## Fairness

* `SwapAlloc`: a call that has been entered goes on; nothing in it blocks.
* `AtomicList`, `Smokers`, `Pmap`: the scheduler runs every thread or process
  that can go on, and delivers signals (weak fairness of each).
* `Primes`: the same, and spurious wake-ups are finitely many.
* `HttpServer`: weak fairness of the system as a whole, which is enough since
  every process has finitely many steps. It contains two assumptions about the
  environment: CGI programs end, and clients send some text or leave, and read
  what they are sent or leave. The code has no timeout, and without the second
  assumption a silent client holds the server for ever. That the text is a complete
  request is not assumed (`Stalled`).
* `EpollServer`: the server runs, and clients read what has been sent to them.
* `FileServer`: the server runs. Nothing is assumed of the clients: one that does
  not send or read appears in `Served` as an exception, `[]Starved` and `[]Clogged`.
* `JitCompiler`: nothing blocks, the next step is taken.
* `Processes`: the programs run, pending signals are taken, and the programs of a
  pipeline run. The child of `timeout` is under no fairness: it may run for ever.
* `Fuse` and `FileTools` state no liveness.

## Proofs

`SwapAllocProofs` proves, for every page size, word size, set of files,
requests and data that satisfies `SizesAssumption` (no conversion to the 32-bit
`pointer_t` wraps):

* `HeapStaysIntact`: `TypeOK /\ HeapIntact` is an invariant. `HeapIntact` is
  inductive as it stands: there is a set H of headers, starting at 0, in which
  each word's absolute value leads to the next and the last to the end of the
  file, that agrees with `live`; the scan and the coalescing stand on elements
  of H, the words of the gap under consideration are free, and no place that is
  large enough has been passed over. One lemma per action; each gives the new
  set of headers (a header added when a gap is split, those of the gap's inner
  blocks removed, those a free swallows removed).
* `ImplementsContract`: initial states map to initial states, and every step is
  a step of `HeapContract` or a stutter.

`PmapProofs` proves, for every N and every T > 0, `AlwaysThrottled`,
`DestroyIsSafe` and `ReturnsComplete`. None of the three is inductive. The
invariant `IInv` adds the balance of permits (semaphore's value + elements that
hold a permit + permits taken back = T), how far each loop has come, and that a
worker past its store has written. When all T permits are back, no element
holds one, so that every thread is past its `sem_post`; a failed
`pthread_create` keeps its permit, which is why the caller never gets that far.

`AtomicListProofs` proves, for every number of threads and of values per thread
(up to `MaxN` and `MaxK`, which are arbitrary), `ListIsChained`,
`EveryPushIsPrinted`, `CrashesOnEmptyListOnly` and `TypesAreCorrect`. Its `IInv`
ties the history `order` to the workers: an item is in `order` exactly when its
worker has exchanged it (`OrderIsPushed`), the items of one worker are a block of
the numbers, so that no two workers meet, and the counter of `main.c` is behind
`order` by the number of workers between exchange and increment (`Counted`, by
cardinalities). Without `Counted` the loop of `main.c`, which prints `size` items,
could stop early; `NotYetPushed` says that what is not exchanged is not linked,
from which the chain begins. `Walk` follows the main thread through the finished list.

`PrimesProofs` proves, for every set of arguments, `HandsOver`,
`TypesAreCorrect` and the refinement `PrintsTheStream`. `Offer` says that what is
printed is exactly the primes below the number the generator is at, or up to it
once main has taken it; `Sleepers` says that a thread in the wait set has
something to wait for, or its signal is still to come, which in `file.c` may be
after the critical section. Taking a number is the only step that prints, and it
is an `Emit` of `PrimeStream`. That both trial divisions, up to the root
(`is_prime`) and up to the half (`prime`), decide primality is proved as
`TrialDivision` and `HalfDivision`, from the codivisor of a divisor.

`SmokersProofs` proves, for inputs of any length, `OutputIsOrdered`,
`KillsAtRest` and `TypesAreCorrect`. `OneUnderWay` is the argument: a resource, a
smoker that has one in hand and a `smoked` posted add up to one for the smoker the
parent waits for, and to nothing for the others.

`EpollServerProofs` proves, for every set of clients, every limit and all sizes,
from `SizesAssumption` and `ListenerAssumption` (the listening socket is no
client), `CounterIsExact` and `EchoIsIntact`. Neither is inductive alone: that a
client is counted down once needs `NoStaleEvent` (no event of a freed
`client_unit` is still in the batch) and `AcceptedOnce`, and the echo needs
`WholeTurns`: what a turn reads it writes before the next read, as long as the
client met no short write.

`HttpProofs` proves of `HttpServer`, for any number of connections, children and
pieces and any capacity of sockets and pipes that satisfy `HttpAssumption`,
`SuccessIsHonest`, `NoDescriptorLeaks` and `TypesAreCorrect`. What is proved of a
success is `Answered`, with its four cases, not that the client got a page: after a
failed `fork` it got none (`FromNothing`), after a failed `execl` a server's log.
`HonestSuccess` speaks of a finished request only, so `IInv` keeps the account that ends in it: of a file,
body + piece in hand + pieces left are its length (`FromFile`); of a program, body +
piece in hand + pieces in the pipe are what the child has written (`FromChild`), and
a child with something left to write holds the end of its pipe (`Family`), so that
the end of the pipe means the end of the output; a second server that inherited that
end can only delay it. A successful answer stays right after the request is over because a
child that is silent stays so (`Lasting`). The account would be worth nothing if two
servers answered on one connection: `Alone` says that only a second server shares
one, after a failed `execl`, and does nothing but log it as an error and close it. `OwnFds` bounds the
descriptors at each call; it is inductive, unlike `NoFdLeak`, which looks only at
`check` and `accept`. The handlers (`ReturnStep`, `Kill`) may come at every call:
they change nothing of a request, or end it with an error.

It also proves, through an instance `F` of `FileServer`, `LogIsHonest`: `F!HonestLog`
holds for every limit of descriptors, of the request's length and of the file's size
that `F!SizesAssumption` allows. `F!IInv` accounts for the pieces of a request (held
by the client, in the socket, in the buffer), keeps the body within the
Content-Length of an unchanged file (`BodyInPromise`), says which files get as far as
each call (`FileKnown`), and has one leaked descriptor per answer with a file, which is
why a file that may be opened is refused only after `FdLimit - 2` of them.

`ProcessesProofs` proves `VerdictIsHonest` and `ProgramsConnected`, for pipelines of
every length and any output. For `timeout`, `NotMissed` and `KillMasked` say where
a SIGCHLD can still be taken. For `pipeline`, `MainTable` and `KidTable` give the
file behind each descriptor at each turn (the reading ends take turns in 0 and 3,
every writing end is 4), and `Flow` what each pipe has carried.

Every `IInv` was first checked by TLC as an invariant of its module's run, and is
proved in three parts: the initial states, one lemma per action (several where
the action has phases), and that it implies the property. `TypeOK` is part of
each.

Only model-checked: all liveness, which is outside the reach of the prover, as are
`ENABLED` and induction over data; `JitCompiler` and `FileTools`, whose properties
are about what RECURSIVE operators compute; and `Fuse`, whose offsets and listings
are folds over the files. Every other invariant and every refinement that a run
checks is a theorem.

## Plan

What the model could be extended by: the ring of locks (`inf19-0`), the ping-pongs
(`inf18-2`, `inf21-1`, `inf14-1`) and the remaining programs with handlers (`inf13-1`,
`inf13-2`, `inf14-0`), in a module of their own.

## Not modelled

Programs that make one or two system calls or wrap a library (`dlopen`,
OpenSSL, libcurl, Python objects) have no state to go wrong. Floating-point and
SSE exercises are outside TLC's reach. In `inf15-3` `main` returns before the code
of its pipeline. Within the modelled programs, left out are: failing `fork` in
`inf20-2`, 32-bit truncation in `align_bytes`, the texts of responses, what
`printf` writes apart from its order, the tokenizer and the tests of the compiler,
malformed images in `inf24-0`, and reads and writes that fail in `inf08-2`. In
`inf24-1` a file is replaced as a whole, and permissions are not modelled.
