------------------------------ MODULE LogMmap ------------------------------
(***************************************************************************)
(* The LogMmap profile module (mprofLogMmap.c).  Every intercepted call    *)
(* writes one fixed-size record into a file mapped into the process.  A    *)
(* thread owns a block ("cache") of CacheQty consecutive slots at a time,  *)
(* claims the next block with an atomic add on areaIndex, and grows file   *)
(* and mapping under a semaphore when its block does not fit.              *)
(*                                                                         *)
(* The four handlers (malloc, free, calloc, realloc) have the same control *)
(* and differ in the arguments they store, so they are one handler here    *)
(* and a record carries the identity of the call it belongs to: the n-th   *)
(* call by thread `by`.  A handler is cut wherever it reads or writes      *)
(* something another thread can see.                                       *)
(***************************************************************************)
EXTENDS Integers, Chrono

CONSTANTS
  Threads,                 \* every thread of the profiled program
  NoThread,                \* "by" of a slot nobody has written
  CacheQty,                \* option CACHE_QTY, any number strtol returns
  GrowthQty,               \* option LOG_QTY
  SizeMax,                 \* largest size_t
  MaxCalls,                \* bound: intercepted calls per thread
  MaxNested,               \* bound: so many more while a thread's resize fails
  MaxSec                   \* bound: the clock stops after this second

ASSUME LogMmapAssumption ==
  /\ NoThread \notin Threads
  /\ {CacheQty, GrowthQty, SizeMax, MaxCalls, MaxNested, MaxSec} \subseteq Nat

VARIABLES
  phase,                   \* of the process, see Phases
  area, mapping, disk,     \* the log file, see MmapArea
  sem,                     \* mmapSem
  areaIndex,               \* first slot no block contains yet
  clock,                   \* what gettimeofday returns
  pc,                      \* where each thread is in its handler
  cacheRemaining, cache,   \* the two __thread variables
  index,                   \* populateCache's local
  calls,                   \* calls each thread has begun
  failing                  \* threads that could not grow the log

areaVars   == <<area, mapping, disk>>
threadVars == <<pc, cacheRemaining, cache, index, calls, failing>>
vars == <<phase, areaVars, sem, areaIndex, clock, threadVars>>

NULL == -1

EmptyRecord == [by |-> NoThread, n |-> 0, thread |-> 0, stamp |-> NoStamp]

Records ==
  [by : Threads \union {NoThread}, n : Nat, thread : {0}, stamp : Stamps]

INSTANCE MmapArea WITH Empty <- EmptyRecord

\* "closed": the destructor has run, the dispatch table still leads here.
\* "detached": the dispatch table has been switched to the tmp allocator.
Running == {"running", "closed", "detached"}
Ended   == {"exited", "aborted", "faulted"}
Phases  == {"loading"} \union Running \union Ended

Growing  == {"truncate", "remap", "publish"}
Critical == {"recheck", "post"} \union Growing
Labels   == {"app", "claim", "check", "wait", "take", "store", "stamp",
             "exit", "failed"} \union Critical

Goto(t, l) == pc' = [pc EXCEPT ![t] = l]
At(t, l)   == phase \in Running /\ pc[t] = l

\* What a handler returns to: the program, or the perror or assert that called
\* malloc in a thread whose resize failed.
Caller(t) == IF t \in failing THEN "failed" ELSE "app"

\* sem_init( &mmapSem, 0, 1 )
SemInit == 1

Init ==
  /\ phase = "loading"
  /\ AreaInit
  /\ sem = 0
  /\ areaIndex = 0
  /\ clock = [sec |-> 1, usec |-> 0]
  /\ pc             = [t \in Threads |-> "app"]
  /\ cacheRemaining = [t \in Threads |-> 1]
  /\ cache          = [t \in Threads |-> NULL]
  /\ index          = [t \in Threads |-> 0]
  /\ calls          = [t \in Threads |-> 0]
  /\ failing        = {}

-----------------------------------------------------------------------------
(* mprofLogMmapConstruct: open with O_TRUNC and size, each under an assert. *)
Construct ==
  /\ phase = "loading"
  /\ \/ /\ OpenAndSize(GrowthQty)
        /\ sem' = SemInit
        /\ phase' = "running"
     \/ /\ phase' = "aborted"
        /\ UNCHANGED <<area, mapping, disk, sem>>
  /\ UNCHANGED <<areaIndex, clock, threadVars>>

\* --cacheRemaining on a size_t.
Decremented(n) == IF n = 0 THEN SizeMax ELSE n - 1

\* A handler up to the test of cacheRemaining: the backing allocator's call
\* and a decrement nobody else sees.
Call(t) ==
  /\ phase \in {"running", "closed"} /\ pc[t] = Caller(t)
  /\ calls[t] < MaxCalls + (IF t \in failing THEN MaxNested ELSE 0)
  /\ calls' = [calls EXCEPT ![t] = @ + 1]
  /\ LET left == Decremented(cacheRemaining[t])
     IN  /\ cacheRemaining' = [cacheRemaining EXCEPT ![t] = left]
         /\ Goto(t, IF left = 0 THEN "claim" ELSE "store")
  /\ UNCHANGED <<phase, areaVars, sem, areaIndex, clock, cache, index, failing>>

\* __sync_fetch_and_add( &areaIndex, cacheQty )
Claim(t) ==
  /\ At(t, "claim")
  /\ index' = [index EXCEPT ![t] = areaIndex]
  /\ areaIndex' = areaIndex + CacheQty
  /\ Goto(t, "check")
  /\ UNCHANGED <<phase, areaVars, sem, clock, cacheRemaining, cache, calls,
                 failing>>

RequiredSize(t) == index[t] + CacheQty

\* A mutated size test: off by one.
TooSmall_OffByOne(t) == RequiredSize(t) > area.fileSize + 1

TooSmall(t) == RequiredSize(t) > area.fileSize

\* The first size test, outside the semaphore.
Check(t) ==
  /\ At(t, "check")
  /\ Goto(t, IF TooSmall(t) THEN "wait" ELSE "take")
  /\ UNCHANGED <<phase, areaVars, sem, areaIndex, clock,
                 cacheRemaining, cache, index, calls, failing>>

\* sem_wait.  After sem_destroy it still works on the same counter.
Wait(t) ==
  /\ At(t, "wait")
  /\ sem > 0
  /\ sem' = sem - 1
  /\ Goto(t, "recheck")
  /\ UNCHANGED <<phase, areaVars, areaIndex, clock,
                 cacheRemaining, cache, index, calls, failing>>

\* A mutated critical section without its second size test.
Recheck_Dropped(t) ==
  /\ At(t, "recheck")
  /\ Goto(t, "truncate")
  /\ UNCHANGED <<phase, areaVars, sem, areaIndex, clock,
                 cacheRemaining, cache, index, calls, failing>>

\* The second size test, inside the semaphore.
Recheck(t) ==
  /\ At(t, "recheck")
  /\ Goto(t, IF TooSmall(t) THEN "truncate" ELSE "post")
  /\ UNCHANGED <<phase, areaVars, sem, areaIndex, clock,
                 cacheRemaining, cache, index, calls, failing>>

GrownSize(t) == RequiredSize(t) + GrowthQty

\* mmapSize( &area, GrownSize, MMAP_AREA_SET ), one step per system call.
Grow(t) ==
  /\ \/ At(t, "truncate") /\ Ftruncate(GrownSize(t)) /\ Goto(t, "remap")
     \/ At(t, "remap")    /\ Mremap(GrownSize(t))    /\ Goto(t, "publish")
     \/ At(t, "publish")  /\ SetFileSize(GrownSize(t)) /\ Goto(t, "post")
  /\ UNCHANGED <<phase, sem, areaIndex, clock,
                 cacheRemaining, cache, index, calls, failing>>

\* ftruncate or mremap fails; the semaphore is held and stays so.  Before the
\* assert aborts, perror and the assert's own message may call malloc: these
\* are calls like any other (Call), with no slot left, so that cacheRemaining
\* wraps around and their records go where the last block ended, or to NULL.
GrowFails(t) ==
  /\ At(t, "truncate") \/ At(t, "remap")
  /\ failing' = failing \union {t}
  /\ Goto(t, "failed")
  /\ UNCHANGED <<phase, areaVars, sem, areaIndex, clock,
                 cacheRemaining, cache, index, calls>>

\* The assert on mmapSize.
Abort(t) ==
  /\ At(t, "failed")
  /\ phase' = "aborted"
  /\ UNCHANGED <<areaVars, sem, areaIndex, clock, threadVars>>

\* A mutated end of the critical section: sem_post is forgotten.
Post_Forgotten(t) ==
  /\ At(t, "post")
  /\ Goto(t, "take")
  /\ UNCHANGED <<phase, areaVars, sem, areaIndex, clock,
                 cacheRemaining, cache, index, calls, failing>>

\* sem_post
Post(t) ==
  /\ At(t, "post")
  /\ sem' = sem + 1
  /\ Goto(t, "take")
  /\ UNCHANGED <<phase, areaVars, areaIndex, clock,
                 cacheRemaining, cache, index, calls, failing>>

\* A mutated block size: one slot more than was claimed.
BlockSize_OffByOne == CacheQty + 1

\* What populateCache leaves in cacheRemaining.
BlockSize == CacheQty

\* The end of populateCache: the block becomes the thread's cache.
Take(t) ==
  /\ At(t, "take")
  /\ cache' = [cache EXCEPT ![t] = index[t]]
  /\ cacheRemaining' = [cacheRemaining EXCEPT ![t] = BlockSize]
  /\ Goto(t, "store")
  /\ UNCHANGED <<phase, areaVars, sem, areaIndex, clock, index, calls, failing>>

\* The record a handler stores over r: its field `thread` stays as it was.
NewRecord(t, r) ==
  [by |-> t, n |-> calls[t], thread |-> r.thread, stamp |-> r.stamp]

\* The stores of arguments, result and mode.
Store(t) ==
  /\ At(t, "store")
  /\ Reachable(cache[t])
  /\ disk' = Written(cache[t], NewRecord(t, disk.at[cache[t]]))
  /\ Goto(t, "stamp")
  /\ UNCHANGED <<phase, area, mapping, sem, areaIndex, clock,
                 cacheRemaining, cache, index, calls, failing>>

\* A mutated next slot: cache is not advanced.
NextSlot_Same(s) == s

NextSlot(s) == s + 1

\* mprofRecordTimeStamp
Stamped(r) == [by |-> r.by, n |-> r.n, thread |-> r.thread, stamp |-> clock]

\* mprofRecordTimeStamp( cache++ ) and the return to the caller.
Stamp(t) ==
  /\ At(t, "stamp")
  /\ Reachable(cache[t])
  /\ disk' = Written(cache[t], Stamped(disk.at[cache[t]]))
  /\ cache' = [cache EXCEPT ![t] = NextSlot(@)]
  /\ Goto(t, Caller(t))
  /\ UNCHANGED <<phase, area, mapping, sem, areaIndex, clock,
                 cacheRemaining, index, calls, failing>>

\* A store outside the mapping or behind the end of the file: SIGSEGV, SIGBUS.
Fault(t) ==
  /\ At(t, "store") \/ At(t, "stamp")
  /\ ~ Reachable(cache[t])
  /\ phase' = "faulted"
  /\ UNCHANGED <<areaVars, sem, areaIndex, clock, threadVars>>

-----------------------------------------------------------------------------
(* mprofLogMmapDestruct, called by libmprofDestruct on the thread that      *)
(* exits while the other threads keep running.                              *)
Destruct(t) ==
  /\ phase = "running" /\ pc[t] = "app"
  /\ MmapClose
  /\ phase' = "closed"
  /\ Goto(t, "exit")
  /\ UNCHANGED <<sem, areaIndex, clock, cacheRemaining, cache, index, calls, failing>>

\* libmprofDestruct: mprofVtable = tmpAllocVtable; then the process exits.
Detach ==
  /\ \/ phase = "closed"   /\ phase' = "detached"
     \/ phase = "detached" /\ phase' = "exited"
  /\ UNCHANGED <<areaVars, sem, areaIndex, clock, threadVars>>

\* Time passes; gettimeofday is taken not to run backwards.
Tick ==
  /\ phase \in Running
  /\ clock.sec <= MaxSec
  /\ clock' = NextStamp(clock)
  /\ UNCHANGED <<phase, areaVars, sem, areaIndex, threadVars>>

Terminated == phase \in Ended /\ UNCHANGED vars

\* The part of a handler that needs nothing but its thread being scheduled.
Step(t) ==
  \/ Claim(t) \/ Check(t) \/ Wait(t) \/ Recheck(t) \/ Grow(t) \/ GrowFails(t)
  \/ Abort(t) \/ Post(t) \/ Take(t) \/ Store(t) \/ Stamp(t) \/ Fault(t)

Next ==
  \/ Construct \/ Detach \/ Tick \/ Terminated
  \/ \E t \in Threads : Call(t) \/ Step(t) \/ Destruct(t)

Spec == Init /\ [][Next]_vars

\* The scheduler runs every thread that can run.
FairSpec == Spec /\ \A t \in Threads : WF_vars(Step(t))

-----------------------------------------------------------------------------
(* Properties.                                                              *)

DiskOK ==
  /\ disk.len \in Nat /\ disk = [len |-> disk.len, at |-> disk.at]
  /\ disk.at \in [0 .. disk.len - 1 -> Records]

TypeOK ==
  /\ phase \in Phases
  /\ area \in Areas /\ mapping \in Mappings
  /\ DiskOK
  /\ sem \in 0 .. 1
  /\ areaIndex \in Nat
  /\ clock \in Stamps
  /\ pc \in [Threads -> Labels]
  /\ cacheRemaining \in [Threads -> Nat]
  /\ cache \in [Threads -> Nat \union {NULL}]
  /\ index \in [Threads -> Nat]
  /\ calls \in [Threads -> Nat]
  /\ failing \in SUBSET Threads

\* No resize has failed so far.
Intact == failing = {}

\* Thread t is about to store outside the mapping or behind the end of the file.
Faulting(t) == pc[t] \in {"store", "stamp"} /\ ~ Reachable(cache[t])

\* As long as the destructor has not closed the log, no handler stores
\* outside the mapping or behind the end of the file: the block a thread
\* took is there although it read fileSize without the semaphore, maybe
\* while another thread was between two system calls of mmapSize.  A resize
\* that fails half way lets nobody fault but the thread that tried it.
NoFault == area.fd => \A t \in Threads : Faulting(t) => t \in failing

Slots         == 0 .. disk.len - 1
Holds(s, t, n) == disk.at[s].by = t /\ disk.at[s].n = n
Returned(t)   == IF pc[t] \in {"app", "exit"} THEN calls[t] ELSE calls[t] - 1

\* Until a resize fails every call that returned has its stamped record in
\* the file, in exactly one slot, at every moment and so also when the
\* process is killed or exits: no thread writes over another's record and no
\* resize loses one.  (After one has failed the calls of perror and assert
\* may write over records of other threads.)
EachCallLogged ==
  Intact =>
    \A t \in Threads : \A n \in 1 .. Returned(t) :
      \E s \in Slots :
        /\ Holds(s, t, n) /\ disk.at[s].stamp # NoStamp
        /\ \A r \in Slots : Holds(r, t, n) => r = s

\* Sorting by olderThan keeps the calls of one thread in program order, also
\* across blocks and when the clock did not advance between two calls: the
\* address comparison agrees with the order in which a thread uses slots.
\* Stated until a resize fails, like EachCallLogged.
ProgramOrder ==
  Intact => \A s, r \in Slots :
    LET a == disk.at[s]
        b == disk.at[r]
    IN  (a.by \in Threads /\ a.by = b.by /\ a.n < b.n /\ b.n <= Returned(b.by))
          => OlderThan(a.stamp, s, b.stamp, r)

\* While the log is open neither the size the threads read, nor the mapping,
\* nor the file ever shrinks: a thread that lost the race to grow finds its
\* block covered and does not truncate to its own, smaller, size.  This goes
\* on after a resize that failed, with the file longer or not.
SizeNeverShrinks ==
  [][ area.fd /\ area'.fd =>
        /\ area'.fileSize >= area.fileSize
        /\ mapping'.hi >= mapping.hi
        /\ disk'.len >= disk.len ]_vars

Busy == {t \in Threads : pc[t] \notin {"app", "exit"}}

\* The log implements CallLog: its entries are the calls some slot holds.
LoggedCalls ==
  {<<disk.at[s].by, disk.at[s].n>> : s \in {r \in Slots : disk.at[r].by # NoThread}}

Abstract ==
  INSTANCE CallLog WITH
    alive   <- phase \notin Ended,
    intact  <- Intact,
    busy    <- Busy,
    begun   <- calls,
    entries <- LoggedCalls

ImplementsCallLog == Abstract!Spec

\* Every intercepted call returns, unless the process ends first: no handler
\* waits for ever on the semaphore.
CallsReturn ==
  \A t \in Threads :
    t \in Busy ~> (t \notin Busy \/ phase \in Ended)
=============================================================================
