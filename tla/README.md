# A TLA+ model of the aesd character device and socket server

This directory models the programs of this repository that keep state: the
circular buffer and the character device driver built on it
(`aesd-char-driver/`), the TCP server on port 9000 in both its variants
(`server/`), and the thread and process examples (`examples/`).  TLC
model-checks the modules on small instances; TLAPS proves theorems about them
for every value of their constants.

To check: `tlc -config <cfg> <module>` for the runs in the table below,
`tlapm` on each `...Proofs.tla` for the proofs.

## 1. The system

### Parts, their state and how they interact

| part | source | state | operations |
|---|---|---|---|
| circular buffer | `aesd-char-driver/aesd-circular-buffer.{c,h}` | `entry[10]`, `in_offs`, `out_offs`, `full`, and a `size` the driver uses as file size | `add_entry`, `find_entry_offset_for_fpos`, `init` |
| character device | `aesd-char-driver/main.c`, `aesdchar.h`, `aesd_ioctl.h` | the ring, the unfinished command (`dev_buffer`, `buffer_size`), one mutex, the heap blocks | open, release, read, write, llseek, ioctl, module load and unload |
| server, connections | `server/aesdsocket-simple.c:129-226` | the data file, the global `file_fd`, `fileMutex`, the descriptor table, each thread's buffers | receive, append, reply |
| server, threads | `server/aesdsocket-simple.c:30-126, 228-349` | the thread list, `listMutex`, `isError`, the heap blocks of the nodes | accept, create, insert, join, shut down, signal handler |
| server on the device | `server/aesdsocket.c` | as the two above, with `/dev/aesdchar` for the file | the same, and `AESDCHAR_IOCSEEKTO:x,y` |
| threading example | `examples/threading` | `thread_data` of a thread | start a thread that sleeps, locks, sleeps, unlocks |
| system call examples | `examples/systemcalls` | processes, descriptors | `system`, `fork`/`exec`/`wait`, redirection |
| utilities, scripts, tests | `finder-app`, `capture`, start/stop and load scripts, `student-test`, `autotest-validate` | none worth a model | |

The ring does no locking: the driver calls it under `dev->lock`.  The driver owns
the memory the ring points to.  The server is a user of the driver only in the
`aesdsocket.c` variant, where a command `AESDCHAR_IOCSEEKTO:x,y` sent by a client
becomes the driver's ioctl; `server/Makefile` builds `aesdsocket-simple.c`, which
uses `/var/tmp/aesdsocketdata`.  Inside the server, main and the client threads
share the list through `listMutex` and the `isComplete` flags; client threads share
one `file_fd` through `fileMutex`; a signal handler runs on top of main, or on a
client thread when main is already in a handler, and calls the same `do_shutdown`
main calls.  The two examples use none of this.

### What is hard

* ring: two indices and a flag that must agree across every wrap; `size` is
  updated from `buffer->buffer[out_offs].size`, which indexes the ring
  structure and not its array (`aesd-circular-buffer.c:73`);
* driver: calls of many tasks interleave, on one file or several; every error
  return has to unlock and free on its own; a failed `krealloc` loses
  `dev_buffer` but not `buffer_size`; the block of a committed command changes
  owner; unloading and loading again;
* connections: `fileMutex` is unlocked after the first read of the reply and
  again at its end, so unlocks are made for others and `file_fd` is replaced
  under a thread that uses it; descriptor numbers are reused; packets come in
  pieces; the table fills up;
* threads: a signal at any moment, in particular before the mutexes are
  initialised, while main holds `listMutex`, between `pthread_create` and
  `insertNode`, or while another signal is handled; `do_shutdown` runs
  twice; the mutexes are destroyed the first time; a `pthread_join` that fails is
  not noticed;
* device variant: a piece of an ioctl command keeps `fileMutex` for the next
  piece, whose `lock` then waits for the thread itself; `strstr` sees what
  earlier receptions left in the buffer; a stray unlock by another thread may
  let all of that go on;
* examples: `start_thread_obtaining_mutex` returns a flag its thread is already
  changing; a child whose `execv` fails comes back from `do_exec_redirect`, and its
  end is taken for the command's.

`PROJECT.json` lists each hazard with its line and the properties on it.

### What makes each part correct

* ring: it remembers the most recent writes, in order, and the search answers a
  position with the byte at that place of their concatenation;
* driver: the device is a log of whole commands; a read returns bytes of that
  log from its position on; the mutex excludes; every heap block has one owner;
  calls return;
* connections: the file holds what was received and nothing twice; a client
  served alone gets the whole file and nothing else; nothing stays open behind
  it; every thread ends;
* threads: no freed node on the list; no thread's data freed before its end and
  no thread left when main exits, as far as `pthread_join` works; a signal ends
  the program;
* device variant: what is on the device was received, once, and in order for a
  connection served alone, whose reply starts at the byte its command named;
  sockets are closed; only a client that does not do its part, or a thread that
  waits for itself, delays the exit;
* examples: the flag tells whether the thread had the mutex, and the function's
  result whether it could be started; TRUE means that a command ended with 0;
  every call returns.

## 2. The modules

| module | models | note |
|---|---|---|
| `RecentWrites` | what the ring promises | a bounded sequence of writes and its concatenation |
| `CircularBuffer` | `aesd-circular-buffer.c` | one action per function; refines `RecentWrites` |
| `CircularBufferProofs` | | theorems about `CircularBuffer` |
| `CommandLog` | what `/dev/aesdchar` promises | complete commands and the pending bytes |
| `AesdChar` | `main.c` of the driver | instantiates `CircularBuffer`; refines `CommandLog` |
| `AesdCharProofs` | | `AesdChar`: the mutex and the heap |
| `AesdCharLogProofs` | | `AesdChar`: types, positions, reads, seeks, `CommandLog` |
| `Mutex` | a default pthread mutex | owner, nobody or destroyed |
| `ClientHandler` | `client_handler`, as far as both server variants share it | descriptors, `file_fd`, `fileMutex`, pieces, SIGPIPE |
| `AesdSocketSimple` | the connections of `aesdsocket-simple.c` | `ClientHandler` on an ordinary file |
| `AesdSocketSimpleProofs` | | theorems about `AesdSocketSimple` |
| `AesdSocketThreads` | `main`, the list, `do_shutdown`, the signal handler | `client_handler` is reduced to running, complete, ended, or the SIGPIPE that ends the program |
| `AesdSocketThreadsProofs` | | theorems about `AesdSocketThreads` |
| `AesdSocket` | `aesdsocket.c` as a whole | extends `ClientHandler`, instantiates `AesdSocketThreads` and `CommandLog` |
| `AesdSocketProofs` | | theorems about `AesdSocket`, on top of those about `AesdSocketThreads` |
| `Threading` | `examples/threading/threading.c` | the calls that start a thread and their threads |
| `SystemCalls` | `examples/systemcalls/systemcalls.c` | the processes of a program that calls the three functions |
| `ThreadingProofs`, `SystemCallsProofs` | | theorems about the examples |
| `MC...` | | inputs of the runs; `MCExamples` extends both examples (hence the long names in `Threading`) and runs either |

**CircularBuffer.**  The variables are the fields of `struct
aesd_circular_buffer`.  Each function runs under its caller's lock, so it is one
action.  `FindEntry` is the search loop: it visits all slots from `out_offs` on,
used or not, and takes the first that ends behind the position.  Line 73
subtracts a word that is not an entry: with `out_offs = 0` it is the `size` that
has just been increased, so the result is 0; with any other index it lies
behind the structure, and the model takes any value of `StrayWords`.  `size` is
computed modulo `SizeMod`, for the width of `size_t`.  The null checks of
`add_entry` are left out: the driver passes no null.

**AesdChar.**  A task's system call is cut into steps where others can
intervene: the entry (with `kmalloc` and `copy_from_user`, before the lock),
`MutexLock`, the body under the lock, the return.  A body that allocates or
copies is two steps, because the copy to the user and the commit to the ring are
worth an intermediate state.  `frame[t]` holds the locals.  The kernel's part is
modelled as the driver sees it: read and write get a copy of the file position,
which is stored back after the call; `aesd_release` comes when no call on the
file is under way; the module cannot be unloaded while a file is open;
`fixed_size_llseek` accepts 0 to `size`.  `heap` maps a block to its bytes or
`FREE`; krealloc may move the block or not.  After a failed krealloc the next
write starts with `buffer_size` bytes nobody has written (`JUNK`).
`dev->circ_buffer.entry[10]` lies on the ring's own indices and `size`;
`EntrySize` reads it as laid out for 64-bit targets, where the word is `size`.
Writes of zero bytes and reads through a null pointer are left out.

**ClientHandler.**  What one `recv` returns is a piece, `<<connection, number>>`;
`Script` gives its kind (`"part"`, `"packet"`, `"packet+part"`, `"packets"`,
`"seek"`, `"seek part"`), which is all the code looks at: whether the last byte is
the newline and whether the command is in it.  A client can leave after any piece;
the thread notices it in `recv` or `read` (`left`), and a thread that sends or
writes to its socket may get SIGPIPE whether it has been noticed or not, which ends
every thread (`"killed"`).  Whether the client sends, hangs up or reads what it is
sent is up to the client: `WaitsForClient` says that the thread is in a system call
that depends on it.  Descriptors are numbers with an object behind them, allocated
lowest first, so that a stale `file_fd` may reach another file, a socket or nothing;
a write through a descriptor opened read-only fails.  A default mutex does not check
its owner: an unlock frees it for whoever holds it.  Opening and the assignment to
the global are separate steps, and so are the unlock and the `send` in the reply.
`close` and `unlock` are one step, after a write and at the end of a reply: nobody
else's step in between could not as well come before or after both.
**AesdSocketSimple** adds the file: appended to by the writes, created by the first
`open`, read `BufLen` pieces at a time from the descriptor's position.

**AesdSocketThreads.**  A context is something that runs code on the list: main, a
handler on top of it, a handler of the other signal number nested in that, and a
handler on a client thread.  A context stands still while one runs on top of it.
The kernel gives a signal to main unless main is handling the same number.
`listMutex` is free, owned by a context, or destroyed; a destroyed mutex returns
`EINVAL`, which nobody checks, and a context that locks a mutex it holds, or that
what it interrupted holds, waits.  A walk whose node was freed under it may crash or
find a null pointer.  `pthread_join` waits for the thread's end, but fails at once,
with nobody looking at the result, when a thread joins itself (`EDEADLK`) or one
that somebody is already joining, be it what the caller interrupted (`EINVAL`).
Then the data of a running thread is freed.  A thread that sends to a client that
has gone may raise SIGPIPE, and the whole program ends with it (`Sigpipe`).  The
model begins when the signal handlers are installed: `socket`, `bind` and `listen`
may fail, and a signal may come before the mutexes are initialised.

**AesdSocket** puts the two halves together, thread by thread: `Accept` takes
the connection's descriptor, `CreateThread` starts its `client_handler`,
`Leave` sets `isComplete` and closes, `ShutdownDone` destroys `fileMutex` and
closes `file_fd`, SIGPIPE ends main too.  The device is `CommandLog`, which
`AesdChar` implements; `SoughtPositions` is what its ioctl may do to the
position (anything once the ring is full, and the word behind the array for
`write_cmd = Capacity`, as the runs of the driver show).  A piece without the
command may still be taken for one when an earlier piece of its connection had
it (`StrstrFinds`): the buffer is never cleared.  What `sscanf` leaves in
`seekto` is a member of `Asks`.  At most one signal comes, so the contexts for a
second one are not composed.

**Threading.**  `malloc` is assumed to work; `pthread_create` may fail; the
caller may destroy the mutex while it is free.  Waiting times are left out: any
interleaving is possible.

**SystemCalls.**  A process is in one of the functions, in the program's code
(`"user"`), or has become the command.  A forked child copies its parent.
`fork`, `open`, `dup2`, `execv` and `waitpid` may fail, `abort` ends a process by
a signal.  Because a child can come back into the program's code, every process
may call all three functions.

## 3. The runs

| run | cfg | what it shows |
|---|---|---|
| `ring` | `MCCircularBuffer` | type, which slots are in use, `size` until the ring is full, search against concatenation, refinement of `RecentWrites` |
| `driver_data` | `MCAesdCharData` | two tasks read and write: mutual exclusion, heap ownership, where blocks are lost, what a read returns, refinement of `CommandLog` |
| `driver_calls` | `MCAesdCharCalls` | seeks among reads and writes: who keeps the mutex, where a seek ends up before the ring has wrapped; every call returns unless a failed llseek abandons the mutex |
| `driver_seekto_wrap` | `MCAesdCharSeekTo` | counterexample: after a wrap the ioctl counts slots, not commands |
| `server` | `MCAesdSocketSimple` | two clients, in turn or at once: types; alone, the whole file and nothing left open; together, nothing invented and nothing twice in the file, the mutex never left with a thread that is gone, and nobody waits for ever but for his own client |
| `server_file_fd` | `MCAesdSocketSimpleProtected` | counterexample: a thread uses the descriptor of another |
| `threads` | `MCAesdSocketThreads` | two signals at any moment: no freed node on the list, all data freed at exit; up to the second signal nothing freed before its thread's end and no thread left at exit; signals end the program except on list work or on another handler |
| `threads_signal` | `MCAesdSocketThreadsSignal` | counterexample: a signal while main holds `listMutex` |
| `device_server` | `MCAesdSocket` | two clients and one signal on the device: pieces of both in one command, on a ring that gets full; start of the reply, the only self-wait, sockets closed, what delays the exit |
| `examples` | `MCExamples` | threading: what the flag tells, every thread ends; system calls: who comes back, what TRUE of `do_exec` means, every call returns |
| `threading_started` | `MCExamplesThreading` | counterexample: true for a thread that could not be started, false for one that runs |
| `exec_redirect` | `MCExamplesExec` | counterexample: TRUE of `do_exec_redirect` although `execv` failed |

**Bounds.**  `MaxWriteOps` is 4 for the ring, so that both indices take every
relative position and wrap many times (the state space is finite without further
bounds, `size` being taken modulo 8).  For the driver it is 2, the least with an
oldest entry that is not the newest: three commands wrap the ring and `MaxCalls = 4`
leaves one call to observe the result.  `driver_calls` takes 3 slots, so that two
commands fit before the ring is full and `size` differs from the length of the last
one; its three calls are two writes and a seek.  Write lengths 1 and 2 tell slots
apart.  Two tasks on one file suffice for the driver's mutex, a third would wait
like the second.  Five blocks are the entries, the pending command and two
`write_data`; with fewer, allocation fails more often, which the model has anyway.
`server` has two clients with two pieces each, one of which has the newline in both
and the other two lines in the last, and one piece a read, so that a reply goes
through its loop several times; with the four descriptors a thread closes the file
the other one has just opened, and files stay open.  (680,070 states.)  What takes
more is not in the runs.  With three threads a stray unlock lets two in at once,
packets are written to a descriptor opened for reading, and `file_fd` ends on a
socket.  With four or five connections, two at a time, a stray close can free a
number that a later connection gets while the first thread still uses it: two
threads receive from one socket, so that pieces of one client may be written in the
other order, and a client may be sent another's packet.  The theorems hold there
too: the last case came up in the proofs, as the one that kept the stronger
properties from being inductive.  So `FileIsMergeOfChunks` claims order, and
`RepliesComeFromFile` and the properties of replies claim anything at all, only of a
connection served alone: not in `shared`, into which two connections come when one
is accepted while the other is served.  Two signals are the least that interrupt
main after the mutexes are destroyed, or a handler.  In `device_server` two clients
and one signal reach a kept mutex, a stray unlock and a shutdown in combination.
The device holds a command and the start of another, in a ring of two.  One client
writes a part and then asks for a position, the other begins with a part of an ioctl
command and then writes a packet, so that one command on the device has pieces of
both, whether they are served beside each other or one after the other, and ends
with a full ring; a seek has a byte to find before.  With three descriptors the
table fills up and `open` fails.  (988,263 states.)  Two pieces of one client on the
device need longer scripts: `DeviceMerges` has the order of those.  Three calls and
three processes let a second copy of the program call again and fork.  The counters
capped by a bound are `calls` (`MaxCalls`), the open connections (`MaxActive`) and
`signals` (`MaxSignals`, 1 in `AesdSocket`); processes, connections and threads are
as many as the constants name, and everything else is finite by its inputs.
`CHECK_DEADLOCK FALSE` is set where the bound, the end of the clients or the
program's exit stops the system.

**Symmetry** is used for blocks and tasks, and for clients with equal scripts,
only in runs without liveness.

**Fairness.**  The kernel runs every task that can run (weak fairness of a
call's steps) and hands a mutex to its waiters in turn (strong fairness of
`MutexLock` in the driver); users owe nothing: no fairness on entering a call.
In `AesdSocketSimple` and `AesdSocket` the clients owe nothing either: there is no
fairness of a thread while `WaitsForClient`, in `recv` as in a `send` whose
client does not read, since the sockets have no timeout.  `HandlersComplete` and
`OnlyStuckClientsDelayExit` say what that costs: in `AesdSocketSimple` the thread
itself and, in the runs' bounds, nobody else.  (With more connections, where
`file_fd` can stand for a socket, a thread may wait for a client in `read`
or `write` with `fileMutex` locked; then others wait with it.)  Weak fairness is enough
for the rest, since each handler locks a bounded number of times.
`AesdSocketThreads`, which knows nothing of what a thread does, assumes that
every client does its part in the end.  Nobody has to connect, and no signal
has to come.  In `Threading` the mutex is handed to its waiters in turn; in
`SystemCalls` commands end, processes run, and `waitpid` need not fail.

**Liveness conditions.**  `CallsReturn` excludes exactly the behaviours with a
failed llseek, which keeps the mutex (`main.c:43`): the whole device stops then.
`SignalEndsProgram` excludes a signal on top of main's own list work, as
`threads_signal` shows why, and one that comes while another is handled.
`OnlyStuckClientsDelayExit` excludes the same list work, a client that is waited for
for ever (it neither sends nor hangs up, or does not read), and a thread that kept
`fileMutex` after a piece of a command.  In `SystemCalls`, a call may wait for ever
only for a second copy of the program.

## 4. What is proved

Every safety property that a passing run checks is also a theorem, for all values
of the constants that the assumptions below allow: any number of tasks, files,
blocks, clients, threads, processes, descriptors and slots, any script, any
bytes.  `PROJECT.json` lists the theorems.  Model-checked only are the liveness
properties (`CallsReturn` of the driver and of the examples, `HandlersComplete`,
`SignalEndsProgram`, `ThreadsEnd`, `OnlyStuckClientsDelayExit`), for which the
prover has no rules, and the five counterexamples.

### Assumptions

They say what the C types and the environment give, and TLC evaluates each.

* `CircularBufferAssumption`: 1 to 255 slots (the indices are `uint8_t`), null is
  no pointer to a write, a write is not empty.
* `AesdCharAssumption`: the same of the driver's ring; null is no block; user data
  is not empty; freed memory is told from bytes.
* `ClientHandlerAssumption`, `AesdSocketThreadsAssumption`,
  `ThreadingAssumption`: a mutex's states "nobody" and "destroyed" and the
  contexts of main and its handlers are not threads; descriptors are numbers; a
  read takes at least one byte.
* `AesdSocketAssumption`: what is on the device when the server starts fits its
  capacity, and can be told from what clients send; `sscanf` leaves natural
  numbers.

`SystemCallsProofs` needs none.  One theorem has a hypothesis of its own:
`SeeksStayInText` assumes that the text is shorter than half the range of
`size_t` (`TextFits`), as no kernel memory can be otherwise; without it `size`
itself wraps.

### How the proofs go

Induction over data is out of the prover's reach.  Where a sum over slots or a
concatenation is recursive, the proofs take the least element of a set of natural
numbers instead (from `WellFoundedInduction`), and
show once that a function with the recursive equations exists, after which its
equations are all they use.

**`CircularBufferProofs`.**  `RingInv` is types and the statement that the ring
fills from slot 0 on (`out_offs = 0` until `full`, then `in_offs = out_offs`).
`SlotsInUse` alone is not inductive: adding to a ring with `in_offs = out_offs`
could be adding to a full or an empty one.  From it follow `TypeCorrect`,
`SlotsInUseCorrect`, and `RingRefinesRecentWrites`: each `add_entry` appends to
the log and drops its head exactly when the ring is full.  `SearchAnswers` says
that the loop of `find_entry_offset_for_fpos` finds the byte the
concatenation of all writes has at that place, or null behind its end: the
least slot that ends behind the position is the one before which all others end.
`SizeIsLength` needs `SizeCounts`, the sum modulo the width.

**`AesdCharProofs`.**  `LockInv` gives `MutexExcludes` and `NoCallWhileUnloaded`.
The mutex alone does not: `aesd_init_module` sets it free, so the invariant
also says that a call under way has its file open, and that no file is open
while the module is out.  With `StepOfCall` (which function a step belongs to) it
gives `OnlyFailedSeekKeepsLock`.  `HeapInv` adds that the blocks of the ring, of
the pending command and of the copies in the calls' hands are live, as long as
the device says, and distinct; `OwnershipHolds` is a consequence, and
`LeaksNowhereElse` compares the owners before and after each step that
allocates or frees.

**`AesdCharLogProofs`.**  `DriverImplementsCommandLog` is the refinement of
`CommandLog`.  Its invariant `LogInv` is `HeapInv` and `CommitKnows`: between the
two steps of a write that ends a command, the pending block ends with exactly this
call's bytes.  `PositionInv` follows what a call has read (position, entry, offset)
through its steps; `TypesOfDevice`, `ReadsAnswer` (a read returns the device's
bytes at its position, whatever others do in between), `SeekToRightUnwrapped` and
`SeeksStayInText` come from it, by the lemmas on where a position falls in a
concatenation.

**`AesdSocketThreadsProofs`.**  `ThreadsInv` says who may be at the list, main, a
handler on it, one nested in that, or one on a client thread.  Until
`listMutex` is destroyed only its owner is, and a shutdown takes node after node
from the front.  The first shutdown empties the list before it destroys the
mutex, and main, which accepts no more, inserts at most one node after that, so
that nothing is left to race for.  It speaks of the list only and holds for any
number of signals; that the list has no freed node and that all data is freed when main
exits is in it.  Whether a freed thread has ended is another question, because
`pthread_join` may fail.  `OneSignal` says that up to the second signal
(`SignalsInv`: no nested handler, none on a client thread, none left once the mutex
is destroyed) nobody joins a thread that another joins or that is himself, so that every
`pthread_join` waits and what is freed has ended (`JoinedInv`).
`FreedOnlyWhenJoined` and `NoThreadLeftAtExit` combine the two.

**`AesdSocketSimpleProofs`.**  `MutexNotAbandoned` is inductive once `pc` is known
to be a function: a step leaves the mutex alone and stays where its thread
may own it, unlocks for whomever, or locks.  `ServiceInv` holds whatever threads
close for each other: a socket is only behind the number its own connection was
accepted with, and two connections served at once are both in `shared`.
`ChunksInv` follows each received piece from its reception to the file
(`NothingInventedNorTwice`).  `AloneInv` says what a connection that is not in
`shared` has in hand at each step: which descriptor `file_fd` is, what has been
read and what sent, and that nobody else's step touches these; `AloneIsPrefix`,
`AloneIsWhole` and `NothingStaysOpen` follow.

**`AesdSocketProofs`.**  Every step of the whole program is one of
`AesdSocketThreads` with at most one signal (`NextThreads`), so the theorems on
threads carry over (`ServerJoinsThreads`).  `ServerInv` has four parts: sockets and
numbers (`TableInv`, which gives `NoSocketStaysBehind`), who runs beside whom
(`ServedInv`), what a thread holds (`LocalsInv`) and how it can come to own the
mutex it waits for (`SelfWaitInv`, which gives `SelfWaitOnlyAfterPart`).  `MergeInv`
follows the pieces to the device (`DeviceMerges`); a command that is forgotten or
turned to junk takes its pieces along.  `AloneInv` is as above, up to the first
signal, whose `do_shutdown` closes `file_fd` under the thread; `ReplyAnswers` needs
besides that the reads keep to the text from the position the ioctl set on.  On a
full ring, where `SoughtPositions` allows any position, what remains is that the
reply is the text from some byte to its end.

**`ThreadingProofs`.**  `FlagTells`: the invariant says what
the flag is at each place of a thread, false while it waits for the mutex, which
is what a lock that fails leaves, and true with the mutex its own.

**`SystemCallsProofs`.**  `OnlyRedirectComesBack` strengthens by: a child of
`do_exec_redirect` at its `execv` has its output in the file, the first process is
never a child, and a process that became the command never runs the program
again.  `TrueTellsSuccess`, of `do_exec`, adds what a parent knows of its child
(`KidsInv`), in particular that a child is waited for by one parent only.

## 5. Where code and documentation differ

The five counterexample runs above, each with the quoted line in `PROJECT.json`.
Besides these the model shows, without a sentence in the repository that says
otherwise: a failed llseek keeps the mutex; the block of an overwritten entry, of
the pending command at unload, and of a failed krealloc is lost (`LeaksOnlyAt`,
proved, says these are the only ones); `size` is 0 or arbitrary after the first
overwrite, so lseek is meaningless then; after a second signal a `pthread_join` may
fail, and `do_shutdown` frees the data of a thread that is still running and main
may exit beside it (`NoUseAfterFree` and `ExitLeavesNoThread` say of the threads'
ends what holds up to then); a client that does not read its reply keeps its thread,
and with it the exit, waiting.

Some sentences are not kept that no run is about.  `aesd_ioctl.h:31` calls
`write_cmd_offset` "The zero referenced offset within the write"; the tests of
`main.c:60` and `:65` also let through `write_cmd` equal to the array's length, an
offset equal to the write's length, and offset 0 of a command that does not
exist (`SeekToBody` has all three).  `systemcalls.c:10-12` wants `do_system` to
return false for a command with a non-zero result; it returns true whenever
`system` could run something (`System` allows both).  `systemcalls.c:119` wants
the output file closed; the parent returns before its `close`.  In both servers the
connection stays open when `pthread_create` fails (`SocketsClosed` says that it is
the only one).

## 6. What is not modelled

* In `AesdSocketThreads`: library functions that are not safe in a handler
  (`free`, `syslog`).
* In `AesdSocket`: a second signal (see `AesdSocketThreads`); a device node that
  does not exist; zero bytes inside a command, and a command put together by
  `strstr` from the end of one reception and the rest of an earlier one;
  pieces cut at 1024 bytes.  The bytes behind the first newline of a piece never
  reach the device, which takes one command a write while the server ignores the
  count (`Bytes`); no property forbids it.
* In both servers: a `send` that fails with an error other than SIGPIPE, or sends
  only part of what was read; `replies` is what was handed to it.  The
  `lseek(..., 0, SEEK_CUR)` of `aesdsocket.c:246` only reports the position and is left out.
* In `AesdSocketSimple`: shutdown.  A thread that is not yet on the list when
  a signal comes goes on with `fileMutex` destroyed; that is in `AesdSocket`.
* `timestamp` and `make_Daemon` of both servers: nothing calls them in the code
  as it is built.  Socket options and logging: no state the properties look at.
* Character device registration failures: the module is not loaded then.
* Argument lists and file names of `SystemCalls`; failing `malloc` in the
  user-space programs, whose results are used unchecked.
* Utilities, scripts, generated files, test stubs, the capture example:
  sequential or stateless.

## 7. Plan

1. From commands to bytes: `DriverImplementsCommandLog` speaks of the log, not of
   file positions.  `AesdSocket` reads text from a position and lets the ioctl
   end in `SoughtPositions`; that `aesd_read` and `aesd_ioctl` do just that, as a
   function of `CommandLog`'s state, is to be proved of `AesdChar`, to
   which `ReadsAnswer` and `SeekToRightUnwrapped` are the first half.
2. What the server guarantees of a connection in `shared`: that a piece whose
   write succeeded is on the device until commands push it out.
3. A second signal in `AesdSocket`; its threads already carry the
   contexts for it, `NextThreads` does not depend on `MaxSignals = 1`.
