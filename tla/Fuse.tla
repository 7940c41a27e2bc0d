--------------------------------- MODULE Fuse ---------------------------------
(***************************************************************************)
(* The two FUSE file systems, as sequences of requests of the kernel.      *)
(*   simplefs  inf24-0: an image with a table of names and sizes, a blank  *)
(*             line, and the files one behind the other, mapped to memory; *)
(*   mergefs   inf24-1: the union of directories, where the most recently  *)
(*             modified file of a name hides the others.  The directories  *)
(*             go on changing under it, between the calls of one request,  *)
(*             too: find_file and custom_readdir take a directory a step.  *)
(* What a read returns is given by where its bytes come from.              *)
(***************************************************************************)
EXTENDS Integers, Sequences, SequencesExt, FiniteSets, FiniteSetsExt

CONSTANTS
    Names,
    Hidden,               \* the names that begin with a dot
    MaxFiles,             \* files of an image
    MaxSize,              \* bytes of a file and of a request, at most
    HeaderSize,           \* bytes of the table of an image
    Width,                \* bits of size_t
    Directories,          \* merged directories, 1 .. n
    MaxTime,              \* modification times of files
    MergeSize,            \* bytes of a file in a merged directory
    Capacities,           \* values of max_number_of_files
    MaxChanges            \* changes in the directories, at most

ASSUME SizesAssumption ==
    /\ {MaxFiles, MaxSize, MergeSize, HeaderSize, MaxTime, MaxChanges} \subseteq Nat
    /\ Hidden \subseteq Names /\ Capacities \subseteq Nat \ {0}
    /\ Directories \in Nat /\ 2 ^ Width > 4 * MaxSize

NoHandle  == [file |-> 0, pos |-> 0, sought |-> FALSE]
Absent    == [mtime |-> 0, size |-> 0]
DirFiles  == [mtime : 1 .. MaxTime, size : {MergeSize}] \cup {Absent}
\* next: the directory that comes next; my_file, mtime: the directory that
\* find_file has settled on so far, and what stat said of its file.
NoTask == [op |-> "none", name |-> "none", next |-> 0, my_file |-> 0, mtime |-> 0,
           names |-> <<>>, clean |-> TRUE]
Least(a, b) == IF a < b THEN a ELSE b

VARIABLES
    program, mounted,
    image, memory,        \* simplefs: [name, size] not yet read; bytes of the image
    files,                \* FS.files: [name, offset, size]
    dirs,                 \* mergefs: the file of each name in each directory
    changes,
    max_number_of_files,  \* names that check_new_file remembers
    fh,                   \* the open file: its table entry or directory, its position,
                          \* and whether it was ever read elsewhere
    files_dict,           \* what the last custom_readdir left on the stack
    task,                 \* mergefs: the request under way
    touched,              \* history: <<directory, name>> changed during the last request
    reply                 \* the last request and its answer

work == <<task, touched>>
vars == <<program, mounted, image, memory, files, dirs, changes, max_number_of_files,
          fh, files_dict, work, reply>>

NoReply == [op |-> "none"]

Init ==
    /\ program \in {"simplefs", "mergefs"} /\ mounted = "no"
    /\ image \in IF program = "simplefs"
                 THEN UNION {[1 .. n -> [name : Names, size : 0 .. MaxSize]] : n \in 0 .. MaxFiles}
                 ELSE {<<>>}
    /\ memory = HeaderSize + FoldLeft(LAMBDA sum, f : sum + f.size, 0, image)
    /\ files = <<>> /\ changes = 0
    /\ dirs \in IF program = "mergefs" THEN [1 .. Directories -> [Names -> DirFiles]] ELSE {<<>>}
    /\ max_number_of_files \in IF program = "mergefs" THEN Capacities ELSE {1}
    /\ fh = NoHandle /\ files_dict = <<>> /\ reply = NoReply
    /\ task = NoTask /\ touched = {}

-----------------------------------------------------------------------------
(* simplefs.  Operators named bug_ are mutants of the definition that       *)
(* follows them.                                                           *)

\* The loop of open_filesystem: the file starts where the one before it ends.
open_filesystem ==
    /\ program = "simplefs" /\ mounted = "no"
    /\ IF image = <<>>
       THEN mounted' = "yes" /\ UNCHANGED <<image, files>>
       ELSE /\ files' = Append(files,
                 [name   |-> Head(image).name, size |-> Head(image).size,
                  offset |-> IF files = <<>> THEN HeaderSize
                             ELSE Last(files).offset + Last(files).size])
            /\ image' = Tail(image) /\ UNCHANGED mounted
    /\ UNCHANGED <<program, memory, dirs, changes, max_number_of_files, fh, files_dict, work, reply>>

\* After fuse_main: the table is freed, the image unmapped.
close_filesystem ==
    /\ program = "simplefs" /\ mounted = "yes"
    /\ mounted' = "done" /\ files' = <<>> /\ memory' = 0
    /\ fh' = NoHandle /\ reply' = NoReply
    /\ UNCHANGED <<program, image, dirs, changes, max_number_of_files, files_dict, work>>

\* 0 when there is none.
find_file(name) ==
    LET found == {i \in DOMAIN files : files[i].name = name}
    IN  IF found = {} THEN 0 ELSE Min(found)

my_stat(name) ==
    /\ reply' = [op |-> "stat", name |-> name, file |-> find_file(name)]
    /\ UNCHANGED fh

my_readdir ==
    /\ reply' = [op |-> "readdir", clean |-> TRUE, names |-> [i \in DOMAIN files |-> files[i].name]]
    /\ UNCHANGED <<fh, files_dict>>

my_open(name) ==
    /\ find_file(name) # 0
    /\ fh' = [NoHandle EXCEPT !.file = find_file(name)]
    /\ reply' = NoReply

bug_my_read_size(size, off, length) == size

\* The number of bytes that are copied; size_t wraps.
my_read_size(size, off, length) ==
    IF (size - off) % 2 ^ Width > (length - off) % 2 ^ Width THEN length - off ELSE size

\* The kernel asks for the bytes from off on, off being inside of the file.
my_read(size, off) ==
    /\ fh # NoHandle
    /\ LET target == files[fh.file]
       IN  /\ off < target.size
           /\ reply' = [op |-> "read", size |-> size, off |-> off, from |-> target.offset + off,
                        count |-> my_read_size(size, off, target.size)]
    /\ UNCHANGED fh

-----------------------------------------------------------------------------
(* mergefs *)

\* A request begins.
Begin(op, name) ==
    /\ task' = [NoTask EXCEPT !.op = op, !.name = name, !.next = 1]
    /\ touched' = {} /\ reply' = NoReply

\* It ends.
Reply(r) == reply' = r /\ task' = NoTask /\ UNCHANGED touched

\* A file that is found is taken when it is the first one or was modified later.
Newer(f) == f # Absent /\ (task.my_file = 0 \/ f.mtime > task.mtime)

\* One directory in the loop of find_file.
merge_find_file ==
    /\ task.op \in {"stat", "open"} /\ task.next <= Directories
    /\ LET f == dirs[task.next][task.name]
       IN  task' = IF Newer(f)
                   THEN [task EXCEPT !.next = @ + 1, !.my_file = task.next, !.mtime = f.mtime]
                   ELSE [task EXCEPT !.next = @ + 1]
    /\ UNCHANGED <<fh, files_dict, touched, reply>>

custom_stat ==
    /\ task.op = "stat" /\ task.next > Directories
    /\ Reply([op |-> "stat", name |-> task.name, file |-> task.my_file,
              found |-> task.my_file, mtime |-> task.mtime])
    /\ UNCHANGED <<fh, files_dict>>

\* The file may be gone since stat.
custom_open ==
    /\ task.op = "open" /\ task.next > Directories
    /\ fh' = IF task.my_file # 0 /\ dirs[task.my_file][task.name] # Absent
             THEN [NoHandle EXCEPT !.file = task.my_file] ELSE NoHandle
    /\ Reply([op |-> "open", name |-> task.name, file |-> fh'.file,
              found |-> task.my_file, mtime |-> task.mtime])
    /\ UNCHANGED files_dict

bug_check_new_file(dict, name) ==
    IF Len(dict) < max_number_of_files THEN Append(dict, name) ELSE dict

\* A name that is found in a slot before the first empty one is not new.  With
\* all slots in use a name is not new either.
check_new_file(dict, name) ==
    IF Len(dict) < max_number_of_files /\ ~Contains(dict, name) THEN Append(dict, name) ELSE dict

Listable(name) == name \notin Hidden

\* files_dict is not initialised: it is empty, or holds what an earlier call
\* left there.
custom_readdir_begin ==
    /\ files_dict' \in {<<>>, files_dict}
    /\ task' = [NoTask EXCEPT !.op = "readdir", !.next = 1, !.clean = files_dict' = <<>>]
    /\ touched' = {} /\ reply' = NoReply
    /\ UNCHANGED fh

\* One directory, its names in some order.
custom_readdir ==
    /\ task.op = "readdir" /\ task.next <= Directories
    /\ \E entries \in SetToSeqs({n \in Names : dirs[task.next][n] # Absent}) :
          /\ files_dict' = FoldLeft(check_new_file, files_dict, SelectSeq(entries, Listable))
          /\ task' = [task EXCEPT !.next = @ + 1,
                        !.names = @ \o SubSeq(files_dict', Len(files_dict) + 1, Len(files_dict'))]
    /\ UNCHANGED <<fh, touched, reply>>

custom_readdir_return ==
    /\ task.op = "readdir" /\ task.next > Directories
    /\ Reply([op |-> "readdir", clean |-> task.clean, names |-> task.names])
    /\ UNCHANGED <<fh, files_dict>>

\* The descriptor is gone when the release is done.
custom_close ==
    /\ fh # NoHandle
    /\ fh' = NoHandle /\ reply' = NoReply /\ touched' = {}
    /\ UNCHANGED <<files_dict, task>>

\* read starts at the position of the descriptor, wherever the kernel asks.
custom_read(size, off) ==
    LET count == Least(size, MergeSize - fh.pos)
    IN  /\ fh # NoHandle /\ off < MergeSize
        /\ fh' = [fh EXCEPT !.pos = @ + count, !.sought = @ \/ off # fh.pos]
        /\ reply' = [op |-> "read", size |-> size, off |-> off, from |-> fh.pos, count |-> count]
        /\ touched' = {}
        /\ UNCHANGED <<files_dict, task>>

\* main: the directories are split at the colons and mounted, until fuse_main
\* returns.
main ==
    /\ program = "mergefs" /\ task = NoTask
    /\ \/ mounted = "no" /\ mounted' = "yes"
       \/ mounted = "yes" /\ mounted' = "done"
    /\ fh' = NoHandle /\ reply' = NoReply
    /\ UNCHANGED <<program, image, memory, files, dirs, changes, max_number_of_files>>
    /\ UNCHANGED <<files_dict, work>>

\* Someone writes a file, or removes it, in one of the directories.
directory_change ==
    /\ program = "mergefs" /\ mounted = "yes" /\ changes < MaxChanges
    /\ \E d \in 1 .. Directories, n \in Names : \E f \in DirFiles \ {dirs[d][n]} :
          /\ dirs' = [dirs EXCEPT ![d][n] = f]
          /\ touched' = IF task = NoTask THEN {} ELSE touched \cup {<<d, n>>}
    /\ changes' = changes + 1 /\ reply' = NoReply
    /\ UNCHANGED <<program, mounted, image, memory, files, max_number_of_files>>
    /\ UNCHANGED <<fh, files_dict, task>>

-----------------------------------------------------------------------------

\* A kernel asks for any part of an open file that begins inside of it.
simplefs_request ==
    /\ program = "simplefs"
    /\ \/ my_readdir
       \/ (\E n \in Names : my_stat(n) \/ my_open(n)) /\ UNCHANGED files_dict
       \/ (\E size, off \in 0 .. MaxSize : my_read(size, off)) /\ UNCHANGED files_dict
    /\ UNCHANGED work

mergefs_begin ==
    /\ task = NoTask
    /\ \/ custom_readdir_begin
       \/ (\E n \in Names : Begin("stat", n)) /\ UNCHANGED <<fh, files_dict>>
       \/ (\E n \in Names : Begin("open", n)) /\ fh = NoHandle /\ UNCHANGED <<fh, files_dict>>
       \/ \E size, off \in 0 .. MergeSize : custom_read(size, off)
       \/ custom_close

mergefs_request ==
    /\ program = "mergefs"
    /\ \/ mergefs_begin \/ merge_find_file \/ custom_stat \/ custom_open
       \/ custom_readdir \/ custom_readdir_return

fuse_request ==
    /\ mounted = "yes"
    /\ simplefs_request \/ mergefs_request
    /\ UNCHANGED <<program, mounted, image, memory, files, dirs, changes, max_number_of_files>>

Next == open_filesystem \/ close_filesystem \/ main \/ directory_change \/ fuse_request

Spec == Init /\ [][Next]_vars

-----------------------------------------------------------------------------
(* Properties *)

\* my_read compares size - off with length - off where off + size with length
\* is meant: it copies the whole of a request that runs over the end of the
\* file but is not larger than it, and the rest of the file, however long, for a
\* request smaller than its own offset.
Misjudged(size, off, length) ==
    \/ off <= size /\ size <= length /\ off + size > length
    \/ size < off /\ off + size < length

\* A read returns the bytes of the file it is for, from the offset that was
\* asked for, as many as are there and asked for.  In simplefs the table's
\* offsets put every file in the image behind the one before it, and it is the
\* misjudged requests and no others that get too many bytes; in mergefs this
\* holds as long as the open file is read in sequence.
ReadsTheFile ==
    reply.op = "read" =>
      /\ program = "simplefs" =>
           LET before == SubSeq(files, 1, fh.file - 1)
               start  == HeaderSize + FoldLeft(LAMBDA sum, f : sum + f.size, 0, before)
               length == files[fh.file].size
               right  == Least(reply.size, length - reply.off)
           IN  /\ reply.from = start + reply.off /\ start + length <= memory
               /\ IF Misjudged(reply.size, reply.off, length)
                  THEN reply.count > right
                  ELSE reply.count = right
      /\ program = "mergefs" /\ ~fh.sought =>
           reply.from = reply.off /\ reply.count = Least(reply.size, MergeSize - reply.off)

\* Names that were in some directory during the last request, at some time and
\* all the time.
Sometime ==
    {n \in Names : \E d \in 1 .. Directories : dirs[d][n] # Absent \/ <<d, n>> \in touched}
Always ==
    {n \in Names : \E d \in 1 .. Directories : dirs[d][n] # Absent /\ <<d, n>> \notin touched}

\* mergefs shows the union of its directories, as far as that can be said of
\* directories that change during the request.  A name is found if one of them
\* has it all the time, only if one has it at some time, and stands for a file
\* that is as recent as any other of this name that stayed as it was; to open it
\* fails only if it is gone since.  A listing names no file twice, no hidden one,
\* and none that was in no directory; it names all the others that stayed where
\* they were, unless check_new_file is out of slots, or found in them what an
\* earlier listing had left on the stack.
ShowsTheUnion ==
    program = "mergefs" =>
      /\ reply.op \in {"stat", "open"} =>
           /\ reply.name \in Always => reply.found # 0
           /\ reply.found # 0 =>
                /\ reply.name \in Sometime
                /\ \/ <<reply.found, reply.name>> \in touched
                   \/ dirs[reply.found][reply.name].mtime = reply.mtime
                /\ \A d \in 1 .. Directories :
                     <<d, reply.name>> \notin touched => dirs[d][reply.name].mtime <= reply.mtime
           /\ reply.file # reply.found =>
                /\ reply.op = "open" /\ reply.file = 0
                /\ <<reply.found, reply.name>> \in touched
      /\ reply.op = "readdir" =>
           /\ IsInjective(reply.names) /\ ToSet(reply.names) \subseteq Sometime \ Hidden
           /\ \/ Always \ Hidden \subseteq ToSet(reply.names)
              \/ ~reply.clean
              \/ Len(reply.names) = max_number_of_files
=============================================================================
