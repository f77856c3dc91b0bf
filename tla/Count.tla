------------------------------- MODULE Count -------------------------------
(***************************************************************************)
(* The Count profile module (mprofCount.c).  A thread's first intercepted  *)
(* call claims the next slot of a mapped file with an atomic add on        *)
(* threadID, growing file and mapping under a semaphore when the slot does *)
(* not fit, and labels it; each call then adds one to a counter in the     *)
(* thread's slot, which nobody protects.                                   *)
(*                                                                         *)
(* The four handlers differ only in the counter they add to, so they are   *)
(* one handler here, for a kind of call.                                   *)
(***************************************************************************)
EXTENDS Integers

CONSTANTS
  Threads,                 \* every thread the program ever creates
  Kinds,                   \* malloc, free, calloc, realloc
  NoKind,                  \* of a thread outside the handlers
  LabelRange,              \* values of the 16 bit field `thread`
  MaxCalls                 \* bound: calls per thread and kind

ASSUME CountAssumption ==
  /\ NoKind \notin Kinds
  /\ LabelRange \in Nat \ {0} /\ MaxCalls \in Nat

VARIABLES
  phase,                   \* of the process, see Phases
  area, mapping, disk,     \* the counts file, see MmapArea
  sem,                     \* mmapSem
  threadID,                \* first slot no thread has claimed
  pc,                      \* where each thread is in its handler
  mmapIndex,               \* mprofCountThreadInit's local
  mprofLocalCounts,        \* the __thread pointer: a slot or NULL
  kind,                    \* the call a thread is in and has not counted
  calls                    \* calls begun, per thread and kind

areaVars   == <<area, mapping, disk>>
threadVars == <<pc, mmapIndex, mprofLocalCounts, kind, calls>>
vars       == <<phase, areaVars, sem, threadID, threadVars>>

NULL == -1

ZeroCounts  == [k \in Kinds |-> 0]
EmptyCounts == [mode |-> "empty", thread |-> 0, n |-> ZeroCounts]
Records     == [mode : {"empty", "counts"}, thread : 0 .. LabelRange - 1,
                n : [Kinds -> Nat]]

INSTANCE MmapArea WITH Empty <- EmptyCounts

\* "closed": the destructor has run, the dispatch table still leads here.
\* "detached": the dispatch table has been switched to the tmp allocator.
Running == {"running", "closed", "detached"}
Ended   == {"exited", "aborted", "faulted"}
Phases  == {"loading"} \union Running \union Ended

Growing  == {"truncate", "remap", "publish", "perror"}
Critical == {"recheck", "post"} \union Growing
Labels   == {"app", "claim", "check", "wait", "label", "bump", "exit"}
              \union Critical

Goto(t, l) == pc' = [pc EXCEPT ![t] = l]
At(t, l)   == phase \in Running /\ pc[t] = l

\* sem_init( &mmapSem, 0, 1 )
SemInit == 1

Init ==
  /\ phase = "loading"
  /\ AreaInit
  /\ sem = 0
  /\ threadID = 0
  /\ pc               = [t \in Threads |-> "app"]
  /\ mmapIndex        = [t \in Threads |-> 0]
  /\ mprofLocalCounts = [t \in Threads |-> NULL]
  /\ kind             = [t \in Threads |-> NoKind]
  /\ calls            = [t \in Threads |-> ZeroCounts]

-----------------------------------------------------------------------------
(* mprofCountConstruct: the semaphore first, then open and size for one     *)
(* record, each under an assert.                                            *)
Construct ==
  /\ phase = "loading"
  /\ sem' = SemInit
  /\ \/ OpenAndSize(1) /\ phase' = "running"
     \/ phase' = "aborted" /\ UNCHANGED areaVars
  /\ UNCHANGED <<threadID, threadVars>>

\* Tallies n with one more call of kind k.
OneMore(n, k) == [n EXCEPT ![k] = n[k] + 1]

\* A handler up to the test of the thread's pointer.
Call(t, k) ==
  /\ phase \in {"running", "closed"} /\ pc[t] = "app"
  /\ calls[t][k] < MaxCalls
  /\ kind' = [kind EXCEPT ![t] = k]
  /\ calls' = [calls EXCEPT ![t] = OneMore(calls[t], k)]
  /\ Goto(t, IF mprofLocalCounts[t] = NULL THEN "claim" ELSE "bump")
  /\ UNCHANGED <<phase, areaVars, sem, threadID, mmapIndex, mprofLocalCounts>>

\* A mutated claim: the counter is advanced once only.
NextThreadID_Stuck == IF threadID = 0 THEN 1 ELSE threadID

NextThreadID == threadID + 1

\* __sync_fetch_and_add( &threadID, 1 )
Claim(t) ==
  /\ At(t, "claim")
  /\ mmapIndex' = [mmapIndex EXCEPT ![t] = threadID]
  /\ threadID' = NextThreadID
  /\ Goto(t, "check")
  /\ UNCHANGED <<phase, areaVars, sem, mprofLocalCounts, kind, calls>>

\* A mutated minimum: the slot itself is left out.
MinSize_NoSlot(t) == mmapIndex[t]

MinSize(t) == 1 + mmapIndex[t]

TooSmall(t) == MinSize(t) > area.fileSize

\* The first size test, outside the semaphore.
Check(t) ==
  /\ At(t, "check")
  /\ Goto(t, IF TooSmall(t) THEN "wait" ELSE "label")
  /\ UNCHANGED <<phase, areaVars, sem, threadID,
                 mmapIndex, mprofLocalCounts, kind, calls>>

\* sem_wait
Wait(t) ==
  /\ At(t, "wait")
  /\ sem > 0
  /\ sem' = sem - 1
  /\ Goto(t, "recheck")
  /\ UNCHANGED <<phase, areaVars, threadID,
                 mmapIndex, mprofLocalCounts, kind, calls>>

\* A mutated critical section without its second size test.
Recheck_Dropped(t) ==
  /\ At(t, "recheck")
  /\ Goto(t, "truncate")
  /\ UNCHANGED <<phase, areaVars, sem, threadID,
                 mmapIndex, mprofLocalCounts, kind, calls>>

\* The second size test, inside the semaphore.
Recheck(t) ==
  /\ At(t, "recheck")
  /\ Goto(t, IF TooSmall(t) THEN "truncate" ELSE "post")
  /\ UNCHANGED <<phase, areaVars, sem, threadID,
                 mmapIndex, mprofLocalCounts, kind, calls>>

\* mmapSize( &countsArea, minSize, MMAP_AREA_SET ), a step per system call.
Grow(t) ==
  /\ \/ At(t, "truncate") /\ Ftruncate(MinSize(t)) /\ Goto(t, "remap")
     \/ At(t, "remap")    /\ Mremap(MinSize(t))    /\ Goto(t, "publish")
     \/ At(t, "publish")  /\ SetFileSize(MinSize(t)) /\ Goto(t, "post")
  /\ UNCHANGED <<phase, sem, threadID,
                 mmapIndex, mprofLocalCounts, kind, calls>>

\* ftruncate or mremap fails, mmapSize returns false and the assert aborts.
GrowFails(t) ==
  /\ At(t, "truncate") \/ At(t, "remap")
  /\ phase' = "aborted"
  /\ UNCHANGED <<areaVars, sem, threadID, threadVars>>

\* ... but first mmapSize calls perror, which may call malloc.  The thread has
\* no slot yet, so its nested call claims one more, finds it too small as
\* well, and waits for the semaphore the thread itself holds.
PerrorHangs(t) ==
  /\ At(t, "truncate") \/ At(t, "remap")
  /\ phase # "detached"
  /\ threadID' = NextThreadID
  /\ Goto(t, "perror")
  /\ UNCHANGED <<phase, areaVars, sem, mmapIndex, mprofLocalCounts, kind, calls>>

Hung == \E t \in Threads : pc[t] = "perror"

\* A mutated end of the critical section: sem_post is forgotten.
Post_Forgotten(t) ==
  /\ At(t, "post")
  /\ Goto(t, "label")
  /\ UNCHANGED <<phase, areaVars, sem, threadID,
                 mmapIndex, mprofLocalCounts, kind, calls>>

\* sem_post
Post(t) ==
  /\ At(t, "post")
  /\ sem' = sem + 1
  /\ Goto(t, "label")
  /\ UNCHANGED <<phase, areaVars, threadID,
                 mmapIndex, mprofLocalCounts, kind, calls>>

\* Record r with the mode and the label of thread t, its counters kept.
Labelled(t, r) ==
  [mode |-> "counts", thread |-> mmapIndex[t] % LabelRange, n |-> r.n]

\* The end of mprofCountThreadInit: the pointer is set, the slot labelled.
Label(t) ==
  /\ At(t, "label")
  /\ Reachable(mmapIndex[t])
  /\ mprofLocalCounts' = [mprofLocalCounts EXCEPT ![t] = mmapIndex[t]]
  /\ disk' = Written(mmapIndex[t], Labelled(t, disk.at[mmapIndex[t]]))
  /\ Goto(t, "bump")
  /\ UNCHANGED <<phase, area, mapping, sem, threadID, mmapIndex, kind, calls>>

\* Record r with one more call of kind k.
Added(r, k) ==
  [mode |-> r.mode, thread |-> r.thread, n |-> OneMore(r.n, k)]

\* The handler's counter, then the backing allocator and the return.
Bump(t) ==
  /\ At(t, "bump")
  /\ Reachable(mprofLocalCounts[t])
  /\ disk' = Written(mprofLocalCounts[t],
                     Added(disk.at[mprofLocalCounts[t]], kind[t]))
  /\ kind' = [kind EXCEPT ![t] = NoKind]
  /\ Goto(t, "app")
  /\ UNCHANGED <<phase, area, mapping, sem, threadID,
                 mmapIndex, mprofLocalCounts, calls>>

\* A store outside the mapping or behind the end of the file: SIGSEGV, SIGBUS.
Fault(t) ==
  /\ \/ At(t, "label") /\ ~ Reachable(mmapIndex[t])
     \/ At(t, "bump")  /\ ~ Reachable(mprofLocalCounts[t])
  /\ phase' = "faulted"
  /\ UNCHANGED <<areaVars, sem, threadID, threadVars>>

-----------------------------------------------------------------------------
(* mprofCountDestruct, called by libmprofDestruct on the thread that exits  *)
(* while the other threads keep running.                                    *)
Destruct(t) ==
  /\ phase = "running" /\ pc[t] = "app"
  /\ MmapClose
  /\ phase' = "closed"
  /\ Goto(t, "exit")
  /\ UNCHANGED <<sem, threadID, mmapIndex, mprofLocalCounts, kind, calls>>

\* libmprofDestruct: mprofVtable = tmpAllocVtable; then the process exits.
Detach ==
  /\ \/ phase = "closed"   /\ phase' = "detached"
     \/ phase = "detached" /\ phase' = "exited"
  /\ UNCHANGED <<areaVars, sem, threadID, threadVars>>

\* Nothing need happen any more: the process has ended, or waits for ever.
Terminated == (phase \in Ended \/ Hung) /\ UNCHANGED vars

\* The part of a handler that needs nothing but its thread being scheduled.
Step(t) ==
  \/ Claim(t) \/ Check(t) \/ Wait(t) \/ Recheck(t)
  \/ Grow(t) \/ GrowFails(t) \/ PerrorHangs(t)
  \/ Post(t) \/ Label(t) \/ Bump(t) \/ Fault(t)

Next ==
  \/ Construct \/ Detach \/ Terminated
  \/ \E t \in Threads :
       Step(t) \/ Destruct(t) \/ \E k \in Kinds : Call(t, k)

Spec == Init /\ [][Next]_vars

\* The scheduler runs every thread that can run.
FairSpec == Spec /\ \A t \in Threads : WF_vars(Step(t))

-----------------------------------------------------------------------------
(* Properties.                                                              *)

DiskOK ==
  /\ disk.len \in Nat /\ disk = [len |-> disk.len, at |-> disk.at]
  /\ disk.at \in [0 .. disk.len - 1 -> Records]

TypeOK ==
  /\ phase \in Phases
  /\ area \in Areas /\ mapping \in Mappings
  /\ DiskOK
  /\ sem \in 0 .. 1
  /\ threadID \in Nat
  /\ pc \in [Threads -> Labels]
  /\ mmapIndex \in [Threads -> Nat]
  /\ mprofLocalCounts \in [Threads -> Nat \union {NULL}]
  /\ kind \in [Threads -> Kinds \union {NoKind}]
  /\ calls \in [Threads -> [Kinds -> Nat]]

\* As long as the destructor has not closed the file, no handler stores
\* outside the mapping or behind the end of the file, although fileSize was
\* read without the semaphore while another thread was inside mmapSize.
NoFault == phase = "faulted" => ~ area.fd

Slots == 0 .. disk.len - 1

\* The calls of kind k thread t has been through, or died in.
Counted(t, k) == calls[t][k] - (IF kind[t] = k THEN 1 ELSE 0)

\* What the file says thread t has called.
Tallied(t) ==
  IF mprofLocalCounts[t] = NULL THEN ZeroCounts
  ELSE disk.at[mprofLocalCounts[t]].n

\* The file has, at every moment, the exact number of calls of every thread
\* and kind: no slot is shared, no add is lost, no resize drops a slot, and
\* a slot nobody has taken counts nothing.
CountsExact ==
  /\ \A t \in Threads : \A k \in Kinds : Tallied(t)[k] = Counted(t, k)
  /\ \A t, u \in Threads :
       mprofLocalCounts[t] = mprofLocalCounts[u] /\ t # u
         => mprofLocalCounts[t] = NULL
  /\ \A s \in Slots :
       (\A t \in Threads : mprofLocalCounts[t] # s) => disk.at[s].n = ZeroCounts

\* While the file is open neither the size the threads read, nor the mapping,
\* nor the file ever shrinks: a thread with a lower slot that lost the race to
\* grow does not truncate the slots of the threads that won it.
SizeNeverShrinks ==
  [][ area.fd /\ area'.fd =>
        /\ area'.fileSize >= area.fileSize
        /\ mapping'.hi >= mapping.hi
        /\ disk'.len >= disk.len ]_vars

\* Count implements Tally: the file is the tally.
Abstract ==
  INSTANCE Tally WITH
    alive <- phase \notin Ended,
    doing <- kind,
    tally <- [t \in Threads |-> Tallied(t)]

ImplementsTally == Abstract!Spec

\* Every intercepted call returns, unless the process ends first, or a resize
\* has failed and its thread hangs in the critical section.  Threads that have
\* their slot are not even stopped by that one.
CallsReturn ==
  \A t \in Threads :
    LET stopped == Hung /\ mprofLocalCounts[t] = NULL
    IN  kind[t] # NoKind ~> (kind[t] = NoKind \/ phase \in Ended \/ stopped)
=============================================================================
