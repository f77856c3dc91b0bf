# A TLA+ verification of mprof

mprof profiles how a program uses memory. `libmprof.so` is loaded into the program
with `LD_PRELOAD`; it intercepts `malloc`, `free`, `calloc` and `realloc`, passes
them on to the allocator behind it, and either counts them (module `Count`) or
logs each of them (module `LogMmap`) in a file mapped into the process. The tool
`mprof` runs a command twice, to count and then to log, and analyses the log.

This directory holds TLA+ modules that model this code, configurations for the
model checker TLC, and proofs for the proof system TLAPS. Paths below are relative
to the repository.

## 1. Inventory

| part | source | state | operations | hard because |
|---|---|---|---|---|
| dispatch table, start and end | `src/libmprof.c`, `src/Personality.c`, `include/Personality.h` | `mprofVtable`, `postInitVtable`, `defaultVtable` | the four entry points, `libmprofInit`, `libmprofDestruct` | the init is started by the first call and itself calls `malloc`; all threads read the table while one replaces it |
| init module LD_NEXT | `src/mprofLDInit.c` | the four functions of `defaultVtable` | `mprofLDInit`, handlers that report a race | `dlsym` calls `calloc`; several threads may start the init |
| temporary allocator | `src/TmpAlloc.c` | `tmpBuf`, `tmpRemaining` | four functions | unsigned arithmetic, no lock, blocks nobody can free |
| mapped file | `src/mprofRecord.c` | `struct mmapArea`, the mapping, the file | `mmapOpen`, `mmapSize`, `mmapClose` | a resize is three steps that other threads see one by one |
| LogMmap | `src/mprofLogMmap.c` | `area`, `mmapSem`, `areaIndex`, per thread `cache`, `cacheRemaining` | construct, four handlers, `populateCache`, destruct | lock-free claims, size tested outside the lock, the process may die at any step |
| Count | `src/mprofCount.c` | `countsArea`, `mmapSem`, `threadID`, per thread `mprofLocalCounts` | construct, four handlers, `mprofCountThreadInit`, destruct | slots claimed before they exist, unprotected counters |
| LogFD | `src/mprofLogFD.c` | `logFD`, per thread `textBuf` and `externalCall` | `mprofLogFDSet`, four handlers that print a line with `snprintf` and `write` | `snprintf` may call `malloc`, which is intercepted again on the same thread |
| analysis | `src/mprofProfile.cpp`, `include/mprofProfile.h` | `allocationMap`, `vmPagesImplicit`, totals, `retryList` | `countSizes`, `sortChrono`, `build`, `addRecord`, `setCompactness` | records of several threads arrive in an order in which nothing happened |
| tool | `src/mprof.c`, `src/main.c` | options, `struct mmapArea`, the environment of the command, two files | `mprofMain`, `mprofCountsDumpFile`, `mprofTestProgram`, `mprofCountsTotal` | shell, command and tool share files; files of earlier tests; one way out for every failure |
| configuration parser | `src/ParseEnv.c`, `lookupVtable` in `src/libmprof.c` | `confValue` | `getConfStr`, `findKey`, `getValue`, `findArg` | a key is searched for in the whole string, quoted values included |
| test program, benchmark | `src/test.c`, `src/latencyBench.c` | - | - | programs to run under the profiler, no part of it |

How they interact. The four entry points call through `mprofVtable`. It leads to
`libmprofInit` first; that makes it lead to TmpAlloc, constructs the MODE (Count,
LogMmap or LogFD), makes it lead to the race detectors of LD_NEXT and runs the
INIT, which makes it lead to TmpAlloc again, fills in `defaultVtable`, and last
makes it lead to the MODE. From then on every call runs a handler of the MODE on
the calling thread. Handlers share the mapped file, its size, one atomic counter
and one semaphore. At exit `libmprofDestruct` closes the file and makes the table
lead to TmpAlloc, while other threads go on calling. The analysis works on the
file alone, after `system` has returned. The tool tells the library what to do
through `MPROF_CONF` alone, which it composes and the library parses; the
processes of a command (the shell of `system` is one of them) all read the same
string and so open the same file.

What makes each part correct:

* **start and end**: no handler runs before the MODE is constructed and all
  backing functions are known; the init does not start again inside itself; no
  temporary block reaches the backing allocator; the table never leads back to an
  earlier stage; one construction and one destruction, if the first call is made
  alone; every call returns.
* **TmpAlloc**: what it has handed out is the front of the buffer, each byte once,
  and `tmpRemaining` says how much.
* **LogMmap**: no store outside mapping or file; every call that returned has one
  record, also when the process dies, until a resize fails; sorting keeps each
  thread's order.
* **Count**: no store outside mapping or file; the file has the exact numbers.
* **LogFD**: one line per call that returned, whole, in the order of the thread's
  calls; calls made while a line is printed print none.
* **tool**: what it analyses is the command's second run, all of it and nothing
  else, if the shell becomes the command; the log is large enough from the start;
  the library finds in `MPROF_CONF` what the tool meant; a test fails only for a
  cause, and files are closed whatever happened.
* **analysis**: every record is placed, the heap at the end is the program's,
  totals are those of the open blocks, the loop ends.

`PROJECT.json` lists under `hazards` what of this is hard to test, each with its
line and the properties that would show it going wrong.

## 2. Modules

| module | models | used by |
|---|---|---|
| `Chrono` | time stamps and `olderThan` | LogMmap, Trace |
| `MmapArea` | `struct mmapArea`, `mmapOpen`/`mmapSize`/`mmapClose`, file and mapping | LogMmap, Count (`INSTANCE`, the empty record a parameter) |
| `LogMmap` | `mprofLogMmap.c` | |
| `CallLog` | abstract: an append-only log of calls, and how its promise ends | refined by LogMmap and LogFD |
| `LogMmapInv`, `LogMmap_proofs` | inductive invariant, module of the runs; proofs | |
| `Count` | `mprofCount.c` | |
| `Tally` | abstract: exact counters per thread and kind | refined by Count |
| `CountInv`, `Count_proofs` | inductive invariant, module of the runs; proofs | |
| `TmpAlloc` | `TmpAlloc.c` | composed into Bootstrap |
| `Bootstrap` | `libmprof.c`, `mprofLDInit.c` with TmpAlloc | |
| `BootstrapInv` | inductive invariant, module of the runs | |
| `BootstrapLife` | stronger invariant of a process whose main thread calls first | |
| `MCBootstrap` | Bootstrap for TLC when any thread may be first: the threads are symmetric | |
| `Bootstrap_proofs` | proofs with both invariants | |
| `LogFD`, `LogFD_proofs` | `mprofLogFD.c`; its inductive invariant and proofs | |
| `ParseEnv` | `ParseEnv.c` and the choice of a module by name, as operators | Processes |
| `Processes` | the processes of a command under libmprof, the files they share, what their constructors make of `MPROF_CONF` | composed into TestRun |
| `TestRun` | `mprof.c`: options, dump, the two runs of a command | |
| `MCTestRun` | instances of TestRun for TLC: argument lists and commands | |
| `TestRunInv`, `TestRun_proofs` | inductive invariant of tool, processes and files, whatever the shell does; proofs | |
| `TestRunAlone`, `TestRunAlone_proofs` | stronger invariant for a command the shell becomes; proofs | |
| `Trace` | the records a correct program's calls leave, and its real heap | composed into Compactness |
| `Compactness` | `countSizes`, `sortChrono` and `CompactnessAnalysis` | |
| `MCCompactness` | programs too long for all interleavings, their calls in a given order | |
| `CompactnessInv` | inductive invariants of Compactness, in layers | |
| `Compactness_proofs`, `CompactnessCount_proofs` | proofs for any log; proofs for a log that has every call | |

### LogMmap and Count

A thread's place in a handler is `pc[t]`. A handler is cut at every point where it
reads or writes something other threads see: claim of a block (the atomic add),
first test of `fileSize`, `sem_wait`, second test, `ftruncate`, `mremap`,
assignment of `fileSize`, `sem_post`, take, store, stamp. What lies between two
such points touches thread-local state only and belongs to the action before it.
The four handlers have the same control; in LogMmap a record is the identity of
its call (thread and number), in Count the kind of call selects a counter. `area`,
`mapping`, `disk` are what the struct says, what is mapped, what the file holds; a
store to a slot that is not mapped or behind the end of the file is the action
`Fault`.

A failing `ftruncate` or `mremap` is not the end yet: `mmapSize` calls `perror`,
the assert prints a message, and both may call `malloc`, which comes back to the
handler on the same thread with the semaphore in its hand. In Count the nested
call has no slot, claims one and waits for that semaphore (`PerrorHangs`). In
LogMmap the thread is in `failing` from then on and makes up to `MaxNested` more
calls before `Abort`. They are ordinary calls (`Call`, `Store`, `Stamp`, perhaps
`Fault`), but `cacheRemaining` is 0: the decrement wraps, no block is claimed, and
the records go where the thread's last block ended, maybe over those of another
thread, or to NULL if it never had one. The other threads go on meanwhile; those
that need a larger file wait for ever, until the abort.

The destructor runs on one thread at any moment and the others continue, so a
fault after it is possible and is not excluded (`NoFault` says "while the log is
open").

Sizes are counted in records. The kernel maps whole pages; that a store just
behind the end may survive is left out, which can only add faults.

### Bootstrap

`vtable` says for each entry of `mprofVtable` where it leads. `pc[t]` is the step
of the init, of a handler or of the destructor a thread is at, `outer[t]` the
point a nested call returns to. Functions outside the library that call `malloc`
and `free` (the MODE's construct, `dlopen`, `dlsym`, `fprintf`) do so any number
of times up to `MaxNested`, with blocks they were given. `held` and `lib` remember
whether program or libraries hold temporary or real blocks; a temporary block
given to a handler is the phase `foreign`. TmpAlloc's test, address and
subtraction are separate steps; in the subtraction `tmpRemaining` is read once
more, or the value in the register is used: both outcomes are allowed.

The library is built with `-O0`, and a structure assignment copies word by word.
So do `Detach` and the four assignments of the init (`Assign`, `word`): threads
that race to be first write over each other's words and read half a table. Only
the assignment to `postInitVtable` is one step: every thread that reads it has
written all of it before.

`perror` calls `malloc` if it has to allocate a buffer. In TmpAlloc, which calls
it when the buffer is full and in every `realloc`, that is a nested call which
TmpAlloc serves (`TmpPerror`); if not even that fits, `perror` is called again,
and so on until the stack ends (phase `overflow`). The handlers that report a race
call it before `exit` (place `race`).

### LogFD

A handler of the program is at "print" while it is in `snprintf`, where
`NestedCall` is the same handler once more on the same thread; `depth` counts the
handlers that print. A line is the identity of its call. `handed` are the lines
given to `write`, in this order, and `text` what each descriptor has accepted: the
code does not look at the result. A line is one `write`, which the kernel does not
interleave with others (lines are far below the size of a pipe's buffer).

### ParseEnv, Processes and TestRun

A string is a sequence of pieces (a key, a name, a number, a quote, a space, `=`),
so that searching, quoting and taking a value apart are done on sequences as the
code does them on characters. `TestRun` composes `MPROF_CONF` from the tool's
arguments, `Processes` parses it, and the two are checked against each other. What
`printf` makes of a number and `strtol` of a string are the constants `Decimal`
and `Strtol` of `Processes`.

In `Processes` a handler is the atomic add (`Claim`), the growth of the file by
the thread that holds the semaphore (`Extend`), the new size and the post
(`Publish`), and the stores (`Handle`); a call that claims nothing is `Handle`
alone. Other threads run between these, and the process may be killed there: with
a slot claimed that the file does not have, or a file longer than any thread
knows. What else happens inside is the matter of Count and LogMmap. A resize that
fails ends the process in an abort or a hang, as a kill does; what `perror` calls
before it is in Count and LogMmap. A process is its program (shell or command),
how far libmprof has come in it, its size, counter and places in the file; `fork`
copies it, `exec` clears it, both as the kernel does with a mapping. The shell has
one thread, which forks between two of its own calls and has called `malloc`
before; a command may have any number. What the calls of a command ask for is part
of the job (`Asks`: some bytes, none, more than there is, or to free), as far as
the analysis can die of it: of sizes that add up to 0 (`DividesByZero`), and of no
block at all (`NoCompactness`). `TestRun` has one step between two system calls of
the tool. Any of these may fail; a shell may fail to start; the command may be
killed at any point, end with threads in a claim, or be left running by a shell
that does not wait. `stray` remembers a `close` and `munmap` of a `struct
mmapArea` that was never initialised.

### Trace and Compactness

`Trace` is a program that uses its blocks correctly, with a backing allocator that
hands out any free address. A call has taken effect, and its thread holds the
result, when its record is still to be stamped; so stamps of different threads
come in another order than the effects. `Clock` says whether the clock advances
between two stamps, may stand still, or may be set back; with `Dies` the process
ends with threads in calls, whose records have a mode and no stamp, or are empty.
`Compactness` counts the sizes, sorts what is logged and replays it step by step:
each call of `addRecord` is one action, with `retryList` and its passes.
`addRecord` itself is a function of the replayed heap: free, allocate, and put
back if only the first was possible. The list of allocations the code keeps per
address is modelled by its last entry, the only one it reads.

## 3. Runs

All runs have deadlock checking on; a process that has ended stutters.

| run | instance | shows |
|---|---|---|
| `LogMmap_safety` | 2 threads, blocks of 2, growth 1, 3 calls each and one more after a failed resize, clock over two seconds of 2 microseconds, fair | inductive invariant (`IInv`, with the types), `NoFault`, `EachCallLogged`, `ProgramOrder`, `SizeNeverShrinks`, refinement of `CallLog`, `CallsReturn` |
| `Count_safety` | 3 threads, 2 kinds, one call of each kind, fair | inductive invariant, `NoFault`, `CountsExact`, `SizeNeverShrinks`, refinement of `Tally`, `CallsReturn` |
| `Bootstrap_first` | 2 threads, buffer of 2 bytes, `size_t` modulo 3, 2 nested calls per thread, the main thread first, fair | `NoCrash`, `ConstructedOnce`, `TmpFrontOnce`, `StagesInOrder`, `CallsReturn` |
| `Bootstrap_races` | both threads free to be first, and symmetric (`Racers`), buffer of 1 byte, 1 nested call (3.5 million states) | `HandlersReady` and the inductive invariant |
| `Bootstrap_torn` | main thread first | **violated**: `ExitsCleanly`, see 5 |
| `LogFD_lines` | 2 threads, 2 descriptors, 2 calls and 2 nested calls each, fair | `TypeOK`, `NoRecursion`, `OneLinePerCall`, refinement of `CallLog`, `CallsReturn` |
| `TestRun_exec` | 2 processes, 2 threads, `CACHE_QTY` 2, up to 4 calls; 8 argument lists, library found or not, files of an earlier test or none; a shell that becomes the command, forks for it, or leaves it running; each pair of things two threads can ask for (314,000 states) | `TypeOK`, `AnalysesCommand`, `SizedByCounts`, `LogNeverGrows`, `OpensToolsFile`, `Released`, `FailsForCause` |
| `TestRun_shell` | a shell that forks for the command and waits for it | **violated**: `LogsEachCall`, see 5 |
| `Compactness_threads` | 2 threads, 2 addresses, sizes 1 and 3, pages of 2 bytes, 4 calls, failing calls, fine clock | `TypeOK`, `AllPlaced`, `HeapRebuilt`, `SizesRebuilt`, `AtMostCompact` |
| `Compactness_anylog` | 2 threads, clock that may stand still or be set back, the process may end in calls, sizes 0 and 3, `realloc( p, 0 )`, 3 calls, fair | `Accounted`, `RatioReported`, `BuildEnds` |
| `Compactness_zero` | 1 thread, `realloc( p, 0 )` | **violated**: `AllPlaced`, see 5 |
| `Compactness_moves` | 3 threads, 3 addresses, one program of 8 calls (`Moves`) | **violated**: `AllPlaced`, see 5 |

Why the bounds are enough. *LogMmap*: three calls with blocks of two make a thread
leave its first block; growth 1 makes the file grow several times, by each thread,
with slots to spare or not; two threads are in every pair of places. One nested
call after a failed resize is enough to store behind the thread's last block, over
another's record, or to NULL. Proofs cover all other numbers. *Clock*: two
microseconds per second let stamps be equal, differ in either part, and carry.
*Count*: three threads claim slots in one order and find them too small in
another; `LabelRange` 2 makes the labels repeat. *Bootstrap*: a buffer of two
bytes and requests of one and two are enough to fill it, to fail, and to have
`calloc`'s product wrap; two nested calls let a library allocate and free during
the init. Where threads race every word of the table matters, and buffer and
nested calls are as small as they can be for a block to be handed out, refused and
freed. *LogFD*: a nested call before and after another thread's, and a second line
of each thread, show each way of mixing two; proofs cover all numbers. *TestRun*:
blocks of two and three calls of one thread and one of the other leave a block
unfinished in the second run and make a thread claim twice, and two threads be
between claim and growth at once; each argument list is one mode, or one piece of
`MPROF_CONF` inside a path, equal paths, or a quote. `MaxNumber` (of `MCTestRun`,
where `strtol` is a table) is above the largest `LOG_QTY` these can lead to, so
that no number is cut. *Compactness*: `Retry` and `PutBack` need three and four
calls (a `realloc` that could free and not allocate, stamped before the `free`
that made room). With any order of stamps and any loss of them,
`Compactness_anylog` stops at three calls, as it checks liveness too. What breaks
`AllPlaced` for a program that moves blocks takes eight calls of three threads,
too many for all interleavings: `Compactness_moves` fixes the order in which they
begin and end, and leaves the addresses open. A block of 3 bytes crosses a page of
2; the address 4 is on the page the block at 1 ends on.

Every property of a passing run has a mutant in `PROJECT.json`: a definition of
the code with a plausible bug (operators named `X_Bug` next to the `X` they
replace) that makes the run fail.

### Fairness

`FairSpec` has weak fairness of `Step(t)` for each thread: the operating system
runs every thread that can run. It does not require the program to make calls, to
exit, or the clock to advance. `sem_wait` promises no order among waiters; weak
fairness of a waiter is enough since each thread takes the semaphore once per
block and the number of calls is bounded, so the semaphore is free for good in the
end. A thread of Count that hangs in `perror` with the semaphore in its hand has
no step left, and the threads without a slot wait for it for ever: `CallsReturn`
says so (`Hung`). In LogFD fairness also says that `snprintf` and `write` return.
TestRun has no liveness property: the command decides when it ends. Nested calls
in Bootstrap are bounded by `MaxNested` for the same reason: a library that never
returns hangs whatever libmprof does. The analysis is single-threaded and runs
until it ends: weak fairness of `Build`.

## 4. Proofs

For every set of threads, every number of calls, and all sizes:

| theorem | says |
|---|---|
| `LogMmap_proofs` `TypeCorrect`, `SizeNeverShrinksCorrect` | for every `CacheQty`, 0 included |
| `Invariance`, `NoFaultCorrect`, `EachCallLoggedCorrect`, `ProgramOrderCorrect`, `Refinement` | assuming `CacheQty > 0`, which is needed (section 5); records, order and `CallLog` until a resize fails, the rest after it too, for any number of calls of `perror` |
| `Count_proofs` `Invariance`, `TypeCorrect`, `NoFaultCorrect`, `CountsExactCorrect`, `SizeNeverShrinksCorrect`, `Refinement` | without further assumption |
| `LogFD_proofs` `Invariance`, `TypeCorrect`, `NoRecursionCorrect`, `OneLinePerCallCorrect`, `Refinement` | without further assumption, for any number of nested calls |
| `Bootstrap_proofs` `Invariance`, `TypeCorrect`, `HandlersReadyCorrect` | for `MainFirst` true or false: however many threads race |
| `LifeInvariance`, `ConstructedOnceCorrect`, `StagesInOrderCorrect`, `NoCrashCorrect`, `TmpFrontOnceCorrect` | assuming `MainFirst`, which is needed (section 5), for any buffer, any width of `size_t`, any number of threads and nested calls |
| `Compactness_proofs` `Invariance`, `TypeCorrect`, `AccountedCorrect`, `AtMostCompactCorrect`, `RatioReportedCorrect` | for any log: any clock, records missing, `realloc( p, 0 )` |
| `CompactnessCount_proofs` `HeapRebuiltCorrect` | assuming every call is logged (`EveryCallLogged`), any clock |
| `UnmovedPlacedCorrect` | assuming also a clock that advances between two stamps; for programs whose reallocs move no block |
| `OneThreadPlacedCorrect`, `OneThreadSizesCorrect` | assuming one thread, every call logged, a clock that is not set back (`OneByOne`) |
| `TestRun_proofs` `TypeCorrect`, `ReleasedAlways`, `OpensToolsFileAlways` | assuming that `printf` and `strtol` are each other's inverse (`Decimals`), for any argument lists, shells, processes, threads and calls |
| `TestRunAlone_proofs` `Invariance`, `AnalysesCommandAlways`, `SizedByCountsAlways`, `LogNeverGrowsAlways`, `FailsForCauseAlways` | assuming `Decimals`, for any command the shell becomes, any number of threads and calls and any `CACHE_QTY`, whatever system calls fail and wherever a run is killed |

They rest on the named assumptions on constants (`LogMmapAssumption`,
`CountAssumption`, `LogFDAssumption`, `TmpAssumption`, `BootstrapAssumption`,
`UsecPerSecAssumption`, those of Trace, Compactness, Processes and TestRun), which
TLC evaluates in the runs.

**LogMmap.** None of the properties is inductive. The invariant has layers, and
each is proved from those before it:

1. `LockInv`: types, and the semaphore is a lock: at most one thread is between
   `sem_wait` and `sem_post`. A thread whose resize failed holds it for good, so
   there is at most one such thread.
2. `SizeInv`: `fileSize <= mapping <= file`, with equality except for the one
   thread that is between the steps of `mmapSize`, and that thread grows; after an
   `mremap` that failed the file stays longer.
3. `BlockInv`: the slots a thread may still write (`Owned`) are its own, below
   `areaIndex`, and in the file once the thread has stopped asking. This is why
   the test outside the semaphore is sound: `fileSize` only grows. A thread whose
   resize failed owns nothing, and nothing is said of what it writes.
4. `NoInvention`: only calls that have begun are in the file, whatever becomes of
   it.
5. `RecordInv`: until a resize fails, slots still to be written are empty, the
   others hold each call once. It contains `EachCallLogged`.
6. `OrderInv`: until then too, a thread uses and stamps its slots in ascending
   order. With the address comparison of `olderThan` it gives `ProgramOrder`.

`Refinement` maps each step to a step of `CallLog` or to a stutter: `Call` begins,
`Store` enters, `Stamp` returns, the ends of the process die. `GrowFails` is
`Break`: from then on `CallLog` says only that calls do not come undone and that
no entry is of a call never begun (`Spoil`). The code promises no more, as the
calls of `perror` and `assert` may write over any record behind the thread's
block.

**Count.** `LockInv` and `SizeInv` as above; `SlotInv` says that slots are claimed
once and lie in the file when used; `CountsExact` then is preserved, as a counter
that belongs to one thread needs no lock. The refinement has `Label` and all
resizing as stutters and `Bump` as `Tell`.

A failing resize changes nothing the file has to say: the thread that hangs in
`perror` stays in `Growing`, where its slot need not be in the file.

**LogFD.** `FlagInv` says that the flag is clear exactly while the thread's
handler prints, and `depth` is 1 then; at "write" the buffer has the line of the
call that is being made. `OneLinePerCall` is then preserved, as `Write` appends
the one line of its thread that is missing, and nested calls touch neither buffer
nor lines. The refinement has `Format` and nested calls as stutters.

**Bootstrap.** `Boot(t)` says of one thread what it has itself done at its place:
past the MODE's construct the MODE is constructed, at turn `n` of the loop `n`
functions are resolved, and at the end of it all four. The table leads to the MODE
only after some thread got there, and nothing is ever taken back, so `ToMode =>
Ready` is preserved although other threads may be in any place of an init of their
own.

The other four properties need `MainFirst`. Added to `Bootstrap_races.cfg`,
`ConstructedOnce` is violated after 9 states (a second thread's call is answered
by TmpAlloc before the MODE is constructed) and its part `constructs <= 1` after
19. `BootstrapLife` strengthens the invariant in three layers. `LifeInv`: until a
call has returned, `Main` is alone and its place tells what every entry of the
table is, a half copied one too (`Half`); afterwards nobody is in the init, and
the table leads to the MODE until the destructor, of which there is one, replaces
it entry by entry. `BlockInv`: until the table is being replaced, a temporary
block is held by nobody but the libraries, and is freed only while `free` leads to
TmpAlloc. `FrontInv`: what TmpAlloc has handed out is the front of the buffer; the
subtraction in two reads is harmless, as one thread is in TmpAlloc at a time, and
the product of `calloc` may wrap, as only the wrapped number is compared and
subtracted.

**Compactness.** `IInv` holds of any log. `HeapOK` says of the replayed heap that
its totals are those of its open blocks; `RefPages` and `UnrefPages` are lemmas of
their own, and so is what `AddRecord` does when it frees and cannot allocate: the
put back restores map and totals. For `RatioReported` the log must hold a `malloc`
that returned before a `realloc` that did (`FirstInv`); that one then fits, as
nothing is in use before it.

`CountInv` adds how often each address was allocated and freed: in the program's
log and calls as often, but for the block in use; in the replay likewise, over the
records placed. If all are placed the two agree on what is in use: `HeapRebuilt`.
Every call must be logged, with its effect on the heap. The order by age does not
matter.

`AllPlaced` needs an order. Suppose nothing put aside fits (`QuietOK`: a pass
without progress has tried them all in the same heap). Counting at one address
gives a record that does: what is left either frees a block that is open or
allocates where none is. A `realloc` that moves a block does both, at two
addresses, and may wait for another `realloc` that waits for it; without such ones
the argument is complete (`UnmovedPlaced`). That a `realloc` in place is never put
aside uses the stamps: it is stamped after the call that allocated its block, if
the clock advances between two stamps. With one thread the log is in the order in
which things happened (`InTurn`), and nothing is ever put aside.

`SizesRebuilt` relates two heaps at two times: the program's when it made a call,
the replay's when it comes to the record. What they have in common is the log, so
both are compared with `OpenAfter( log, k )`, the records among the first `k`
whose block none of these frees. `CalledInv` says that the program's heap is what
its records make of an empty one, the record of the call that is open included
(`Whole`), and that `peak` is the greatest of the sizes after 0, 1, 2, ... records
(`MostBytes`); `ReplayedTo(k)` says the same of `allocationMap` and
`clientHighWaterMark` when `k` records are placed. At the end `k` is the length of
the log, and the two agree (`OneThreadSizesCorrect`). `Compactness_one.cfg` is the
configuration with which TLC checks these invariants (one thread, four calls, a
clock that may stand still; two minutes).

`Compactness_moves` shows that the remaining case, several threads and blocks that
move, is not provable in general; `Compactness_threads` checks it for two threads.

**TestRun.** `SafeInv` holds of every process, file and stage, whatever the shell
does. `StageOK` says which files the tool has open and has seen opened at each of
its stages. `ProcOK` says that a process of run `k` has parsed what the tool
composed for run `k`, and that what a thread has claimed is within what its
process has mapped (`PlaceOK`). `FileOK` says that a file holds one record for
each of its slots. The lemmas `ParsedCount` and `ParsedLog` are what
`OpensToolsFile` says: `findKey` searches the whole of the composed string, the
user's path included, and finds the tool's key first, because the path stands
last, and in quotes; the lemmas go through the string piece by piece. That digits
hold none of the pieces searched for, and that `strtol` reads back what `printf`
wrote, is the hypothesis `Decimals`. It is a hypothesis and no assumption of the
module because it is true only as long as numbers fit a `long`.

The other four properties are about a command that the shell becomes (`Alone`) and
paths without a quote; for other paths no run is `Profiled`, and nothing is
claimed. `TestRunAlone` adds `AloneInv` to `SafeInv`. As there is one process per
run, `Main(k)`, its file is its own as long as the tool has the run in hand:
`RunOK` says so, and the tool's own step from one run to the next is what ends it,
as the user may give one path for both files. Of the first run, `CountSlots` and
`CountFile` say that each slot below `next` is one thread's, that the file never
reaches beyond `next` and has the slot of each thread that has counted, with that
thread's calls. It may end before a slot that is claimed: its thread was killed on
the way to the growth. So `SizedByCounts` is about the slots the file has. Of the
second, `LogSlots` says that the slots claimed and not used yet are disjoint and
`next` counts all ever claimed, `LogFile` that each call that returned is in one
record and unused slots are empty. `QtyOK` is what the tool has made of the
counts, one block for each slot of the file. The totals it adds up slot by slot
are the calls of all threads, as no two threads share a slot (`CountTotal`).

`LogNeverGrows` is a count. `BlocksOf` gives each slot claimed in the second run a
name: its thread and its number with that thread. A thread that begins no more
calls than it made in the first run has claimed slots for these, and at most
`CACHE_QTY` more; and a thread that claims at all made a call in the first run, so
it has a slot there and the log was made one block longer for it. The names thus
map one to one into the calls of the first run and `CACHE_QTY` places per slot of
the counts file (`EnoughSlots`), `next` never exceeds `LOG_QTY`, and the test for
growth fails each time.

`TestRun_alone.cfg` is the configuration with which TLC checks `IInv` of
`TestRunAlone` (186,000 states, two minutes; fewer calls per thread); it takes ten
times as long per state as the properties of `TestRun_exec`, which follow from it.

Only model-checked, and why:

* liveness (`CallsReturn`, `BuildEnds`) is out of the prover's reach;
* `SizesRebuilt` is proved for a program with one thread; the run also has
  programs with a second thread that makes no call;
* `AllPlaced` for several threads whose reallocs move blocks, see above;
* what `Options` makes of an argument list is a fold over it: the proofs use only
  that its result has the type of options.

## 5. Where code and documentation part

* **The exit may abort** (`Bootstrap_torn`). While the destructor replaces the
  table, a thread can allocate through the new `malloc` and free through the old
  `free`. The block of TmpAlloc then reaches the backing allocator.
* **`realloc( p, 0 )`** (`Compactness_zero`). glibc frees `p` and returns NULL;
  `getFree` takes a NULL result for a failure. The next `malloc` at that address
  is reported as "double alloc" though the program has none.
* **Reallocs that move blocks** (`Compactness_moves`). Thread 2 frees a block and
  is slow to stamp its record; meanwhile other threads' reallocs move blocks to
  the address and on. Sorted by stamps, a later `realloc` fits where an earlier
  one belongs, and what is put aside never fits: `build` warns of "unmatched free"
  or "double alloc" (`mprofProfile.cpp:149`, 152) for a program that has neither.
  The comment at line 121 ("FIXME: handle realloc better") suspects it.
* **The shell's calls are in the log, and the command's may be lost**
  (`TestRun_shell`). `system` runs `sh -c` under the `LD_PRELOAD` and `MPROF_CONF`
  meant for the command. If the shell becomes the command (one simple command) the
  second `open` with `O_TRUNC` removes what the shell wrote, and `AnalysesCommand`
  holds. If it forks, both write the same slots of one file, against
  `README.txt:46` ("logs each call ..."). `LogsEachCall` is about a command that
  has ended before the analysis begins (`Awaited`). In the trace the shell opens
  the log, claims a block and logs a call, and forks; the child becomes the
  command, opens the log once more with `O_TRUNC`, logs two calls in the slots 0 and 1; the shell, whose mapping is
  still there, logs its next call in slot 1; the command ends, then the shell, then
  the tool analyses. (The first run is skipped in this trace, which is the shortest:
  `system` could not start its shell, and the tool goes on with the counts file of
  an earlier test.)

Observations without a run of their own:

* With `CACHE_QTY=0`, which nothing excludes, `populateCache` gives every thread a
  block of no slots at one index, `--cacheRemaining` wraps, and threads overwrite
  each other's records. `LogMmap_cache0.cfg` is the configuration that shows it:
  `EachCallLogged` is violated.
* A shell that forks may open the counts file after the command has, and truncate
  it: what the command counted till then is lost and the log may be too small for
  the second run. `LogNeverGrows` is about a command that is `Alone`, as
  `SizedByCounts` and `AnalysesCommand` are.
* No handler of LogMmap sets the field `thread`, which stays 0 in every record;
  `README.txt:46` names it among what is logged.
* Two threads that both find the first table both run the init and construct the
  MODE, which truncates its file twice; a call of one may be answered by TmpAlloc
  before the other has constructed anything. `ConstructedOnce` is therefore about
  a first call made alone, and no property that holds excludes the double
  construction. The handlers with the message "race condition detected during LD
  init!" (`mprofLDInit.c:82`) are reached by a call between `libmprof.c:71` and
  `mprofLDInit.c:37` only.
* A resize that fails in Count may hang the thread in `perror` instead of ending
  in the assert of `mprofCount.c:71` (`PerrorHangs`).
* A resize that fails in LogMmap may end in a fault instead of the assert of
  `mprofLogMmap.c:50`, or write over records of other threads before it: the calls
  of `perror` and of the assert find no slot left. `NoFault`, `SizeNeverShrinks`
  and `NoInvention` say what does not happen even then.
* `perror` in a full TmpAlloc asks TmpAlloc for a buffer, and calls itself without
  end if it has none (phase `overflow` of Bootstrap).
* A process killed between the atomic add of `mprofCount.c:64` and the growth of
  the file leaves a claimed slot that is not in the file; the tool then reserves
  no block for it, which is enough, as its thread has not counted a call
  (`SizedByCounts`, `LogNeverGrows`).
* `mprofTestProgram` returns false whatever happened (`ret`, `mprof.c:119`, is
  never set), so `mprof -t` always exits with -1.
* The loops over the headers (`mprof.c:88`, 152) look at the first record each
  time. `FailsForCause` says what follows: a file is rejected as a whole if the
  thread with the first slot had not labelled it, and other slots do not matter.
* The search for a mode (`mprof.c:242`) has no entry with a NULL name to stop at.
* If `asprintf` or `setenv` fails first, `mmapClose` is called on an uninitialised
  `struct mmapArea`; `Released` allows this case and no other.
* A log whose requests are all of 0 bytes divides by 0 in `mprofSizeAnalysis`
  (`mprofProfile.cpp:73`; phase "crashed"), and one without a block that was
  handed out makes `min` and `max` look behind the end of an empty list (297):
  `mprof -t` of such a command may end in a crash. `FailsForCause` names both
  causes.
* A path with a quote in it ends at the quote (`getValue` knows no escape, and the
  tool composes none); the properties of TestRun are about the others (`Plain`).
* A library that is not found leaves the tool with the files of an earlier test,
  which it analyses as if they were new.
* Of records with equal stamps `olderThan` takes the one at the lower address for
  the older. If `free` and the next `malloc` of the address, by two threads, fall
  into one microsecond, the warning "unmatched free" can follow for a correct
  program. A clock that advances between two stamps (`Clock = "fine"`) is
  therefore a condition of `AllPlaced`, and `Accounted`, `RatioReported` and
  `BuildEnds` are checked without it.

## 6. Assumptions on the environment

* aligned words are read and written atomically (x86-64); atomic adds are atomic;
* `sem_destroy` does nothing (glibc), so a thread that waits afterwards works on
  the same counter;
* `gettimeofday` does not run backwards in LogMmap (in Trace it may);
* `asprintf` that fails leaves NULL behind, as the tool expects;
* the shell's own `malloc` can be intercepted, as with a dynamically linked shell;
* with `MainFirst`, a second thread is created after a first call has returned:
  creating one allocates, so a program must behave so unless it creates threads by
  other means;
* libraries free what they got during the init only through calls made then, and
  keep no temporary block that they free later;
* a program's failing `exit( -1 )` inside the init runs the destructor, as `exit`
  does; a second thread that exits waits;
* the destructor's `munmap` and `close` are one step.

## 7. Not modelled

* in Processes, what `perror` calls before a failing resize ends the process, and
  the hang it may be in Count: a resize that fails is a kill there (both are in
  Count and LogMmap);
* the call of `perror` in a race detector reached from the destructor's message,
  and its call in the MODE's construct when a file cannot be opened;
* the resize modes GROW and SHRINK, which have no caller (GROW would return false
  always, as `ret` is not set in its branch); `mmapOpen`'s modes other than those
  of the library and the tool;
* temporary blocks a library frees after the init (`TmpAlloc.c:44`), and
  `calloc`'s overflowing product being taken for the whole block by its caller;
* `mean`, which is arithmetic on the list `min` and `max` read;
* printed text, `test.c`, `latencyBench.c`, the Makefile: no behaviour of the
  profiler's own.

## 8. Plan

Done, in this order: Chrono, MmapArea, LogMmap with CallLog; its proofs; Count
with Tally and its proofs; TmpAlloc and Bootstrap, its first proofs; Trace and
Compactness; LogFD with its proofs; ParseEnv, Processes and TestRun; `perror` in
Count's failing resize; clock and unfinished calls in Trace; the size analysis and
the ratios in Compactness; the proofs of Bootstrap's life; those of Compactness
for any log, of what it places, and of one thread's sizes; those of TestRun for
any shell, and then for a command the shell becomes; `perror` and the assert in
LogMmap's failing resize, and in TmpAlloc and the race detectors; the init's table
word by word; claim and growth apart in Processes; what the analysis can die of in
TestRun.

What is left:

* processes of a command that share a file while one of them resizes it: Processes
  has them, and only `TestRun_shell` is about them;
* a property of threads that race to be first which bounds what two constructions
  of the MODE can cost.
