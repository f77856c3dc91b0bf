--------------------------- MODULE LogMmap_proofs ---------------------------
(***************************************************************************)
(* Proofs about LogMmap, for every set of threads, every block size, growth *)
(* step and bound.  The lemmas prove the layers of IInv one by one.         *)
(***************************************************************************)
EXTENDS LogMmapInv, TLAPS

\* The places in a handler, written out for the provers.
LEMMA LabelFacts ==
  {"app", "claim", "check", "wait", "take", "store", "stamp", "exit",
   "recheck", "post", "truncate", "remap", "publish", "failed"} = Labels
BY DEF Labels, Critical, Growing

\* The phases of the process, written out for the provers.
LEMMA PhaseFacts ==
  {"loading", "running", "closed", "detached", "exited", "aborted", "faulted"}
    = Phases
BY DEF Phases, Running, Ended

\* The initial state is well typed.
LEMMA InitType == Init => TypeOK
<1> SUFFICES ASSUME Init PROVE TypeOK
  OBVIOUS
<1>1. DiskOK
  BY DEF Init, AreaInit, DiskOK
<1>2. area \in Areas /\ mapping \in Mappings
  BY DEF Init, AreaInit, Areas, Mappings
<1>3. clock \in Stamps /\ "app" \in Labels /\ "loading" \in Phases
  BY LabelFacts, PhaseFacts DEF Init, Stamps
<1> QED
  BY <1>1, <1>2, <1>3 DEF Init, TypeOK, NULL

\* A store and a resize leave the file well formed.
LEMMA StoreTypes ==
  ASSUME DiskOK, NEW s \in Slots, NEW r \in Records, disk' = Written(s, r)
  PROVE  DiskOK'
BY DEF DiskOK, Written, Slots

\* A resize leaves the file well formed.
LEMMA ResizeTypes ==
  ASSUME DiskOK, NEW n \in Nat, disk' = TruncatedTo(n)
  PROVE  DiskOK'
<1>1. EmptyRecord \in Records
  BY DEF Records, EmptyRecord, NoStamp, Stamps
<1>2. disk'.at = [i \in 0 .. n-1 |-> IF i < disk.len THEN disk.at[i] ELSE EmptyRecord]
  BY DEF TruncatedTo
<1>3. \A i \in 0 .. n-1 : i < disk.len => disk.at[i] \in Records
  BY DEF DiskOK
<1> QED
  BY <1>1, <1>2, <1>3 DEF DiskOK, TruncatedTo

\* The record a handler builds is a record, with and without its stamp.
LEMMA RecordTypes ==
  ASSUME TypeOK, NEW t \in Threads, NEW r \in Records
  PROVE  NewRecord(t, r) \in Records /\ Stamped(r) \in Records
BY DEF TypeOK, NewRecord, Stamped, Records

\* Every step keeps the types; that sem stays below two needs the lock.
LEMMA StepType == LockInv /\ [Next]_vars => TypeOK'
<1> SUFFICES ASSUME LockInv, [Next]_vars PROVE TypeOK'
  OBVIOUS
<1> USE DEF TypeOK
<1>0. TypeOK /\ Untouched /\ Mutex
  BY DEF LockInv
<1>1. CASE Construct
  <2>1. CASE OpenAndSize(GrowthQty) /\ sem' = SemInit /\ phase' = "running"
    <3>1. DiskOK'
      BY <2>1, LogMmapAssumption
      DEF OpenAndSize, DiskOK, Records, EmptyRecord, NoStamp, Stamps
    <3>2. area' \in Areas /\ mapping' \in Mappings
      BY <2>1, LogMmapAssumption DEF OpenAndSize, Areas, Mappings
    <3> QED
      BY <1>0, <1>1, <2>1, <3>1, <3>2, PhaseFacts
      DEF Construct, threadVars, SemInit
  <2>2. CASE phase' = "aborted" /\ UNCHANGED <<areaVars, sem>>
    BY <1>0, <1>1, <2>2, PhaseFacts
    DEF Construct, areaVars, threadVars, DiskOK
  <2> QED
    BY <1>1, <2>1, <2>2 DEF Construct, areaVars
<1>2. CASE Detach
  BY <1>0, <1>2, PhaseFacts DEF Detach, areaVars, threadVars, DiskOK
<1>3. CASE Tick
  <2>1. clock' \in Stamps
    BY <1>0, <1>3, UsecPerSecAssumption DEF Tick, NextStamp, Stamps
  <2> QED
    BY <1>0, <1>3, <2>1 DEF Tick, areaVars, threadVars, DiskOK
<1>4. CASE UNCHANGED vars
  BY <1>0, <1>4 DEF vars, areaVars, threadVars, DiskOK
<1>5. ASSUME NEW t \in Threads, Call(t) PROVE TypeOK'
  <2>1. Decremented(cacheRemaining[t]) \in Nat
    BY <1>0, LogMmapAssumption DEF Decremented
  <2> QED
    BY <1>0, <1>5, <2>1, LabelFacts DEF Call, areaVars, Goto, DiskOK
<1>6. ASSUME NEW t \in Threads, Destruct(t) PROVE TypeOK'
  <2>1. area' \in Areas /\ mapping' \in Mappings
    BY <1>0, <1>6 DEF Destruct, MmapClose, Areas, Mappings
  <2> QED
    BY <1>0, <1>6, <2>1, LabelFacts, PhaseFacts
    DEF Destruct, MmapClose, Goto, DiskOK
<1>7. ASSUME NEW t \in Threads, Claim(t) PROVE TypeOK'
  <2>1. index' \in [Threads -> Nat] /\ areaIndex' \in Nat
    BY <1>0, <1>7, LogMmapAssumption DEF Claim
  <2>2. pc' \in [Threads -> Labels]
    BY <1>0, <1>7, LabelFacts DEF Claim, Goto
  <2> QED
    BY <1>0, <1>7, <2>1, <2>2 DEF Claim, areaVars, DiskOK
<1>8. ASSUME NEW t \in Threads, Check(t) PROVE TypeOK'
  BY <1>0, <1>8, LabelFacts DEF Check, areaVars, Goto, DiskOK
<1>9. ASSUME NEW t \in Threads, Wait(t) PROVE TypeOK'
  BY <1>0, <1>9, LabelFacts DEF Wait, areaVars, Goto, DiskOK
<1>10. ASSUME NEW t \in Threads, Recheck(t) PROVE TypeOK'
  BY <1>0, <1>10, LabelFacts DEF Recheck, areaVars, Goto, DiskOK
<1>11. ASSUME NEW t \in Threads, Grow(t) PROVE TypeOK'
  <2>1. GrownSize(t) \in Nat
    BY <1>0, LogMmapAssumption DEF GrownSize, RequiredSize
  <2>2. CASE Ftruncate(GrownSize(t)) /\ Goto(t, "remap")
    <3>1. DiskOK'
      BY <1>0, <2>1, <2>2, ResizeTypes DEF Ftruncate
    <3> QED
      BY <1>0, <1>11, <2>2, <3>1, LabelFacts DEF Grow, Goto, Ftruncate
  <2>3. CASE Mremap(GrownSize(t)) /\ Goto(t, "publish")
    <3>1. mapping' \in Mappings
      BY <1>0, <2>1, <2>3 DEF Mremap, Mappings
    <3> QED
      BY <1>0, <1>11, <2>3, <3>1, LabelFacts DEF Grow, Goto, Mremap, DiskOK
  <2>4. CASE SetFileSize(GrownSize(t)) /\ Goto(t, "post")
    <3>1. area' \in Areas
      BY <1>0, <2>1, <2>4 DEF SetFileSize, Areas
    <3> QED
      BY <1>0, <1>11, <2>4, <3>1, LabelFacts DEF Grow, Goto, SetFileSize, DiskOK
  <2> QED
    BY <1>11, <2>2, <2>3, <2>4 DEF Grow
<1>12. ASSUME NEW t \in Threads, GrowFails(t) PROVE TypeOK'
  BY <1>0, <1>12, LabelFacts DEF GrowFails, areaVars, Goto, DiskOK
<1>18. ASSUME NEW t \in Threads, Abort(t) PROVE TypeOK'
  BY <1>0, <1>18, PhaseFacts DEF Abort, areaVars, threadVars, DiskOK
<1>13. ASSUME NEW t \in Threads, Post(t) PROVE TypeOK'
  <2>1. sem' \in 0 .. 1
    BY <1>0, <1>13 DEF Post, At, Mutex, Critical, Holding
  <2> QED
    BY <1>0, <1>13, <2>1, LabelFacts DEF Post, areaVars, Goto, DiskOK
<1>14. ASSUME NEW t \in Threads, Take(t) PROVE TypeOK'
  BY <1>0, <1>14, LabelFacts, LogMmapAssumption
  DEF Take, areaVars, Goto, DiskOK, BlockSize
<1>15. ASSUME NEW t \in Threads, Store(t) PROVE TypeOK'
  <2>1. cache[t] \in Slots /\ disk.at[cache[t]] \in Records
    BY <1>0, <1>15 DEF Store, Reachable, Slots, DiskOK, Mappings, NULL
  <2>2. DiskOK'
    BY <1>0, <1>15, <2>1, StoreTypes, RecordTypes DEF Store
  <2> QED
    BY <1>0, <1>15, <2>2, LabelFacts DEF Store, Goto
<1>16. ASSUME NEW t \in Threads, Stamp(t) PROVE TypeOK'
  <2>1. cache[t] \in Slots /\ disk.at[cache[t]] \in Records
    BY <1>0, <1>16 DEF Stamp, Reachable, Slots, DiskOK, Mappings, NULL
  <2>2. DiskOK'
    BY <1>0, <1>16, <2>1, StoreTypes, RecordTypes DEF Stamp
  <2> QED
    BY <1>0, <1>16, <2>1, <2>2, LabelFacts DEF Stamp, Goto, NextSlot, Slots, Caller
<1>17. ASSUME NEW t \in Threads, Fault(t) PROVE TypeOK'
  BY <1>0, <1>17, PhaseFacts DEF Fault, areaVars, threadVars, DiskOK
<1> QED
  BY <1>1, <1>2, <1>3, <1>4, <1>5, <1>6, <1>7, <1>8, <1>9, <1>10, <1>11,
     <1>12, <1>13, <1>14, <1>15, <1>16, <1>17, <1>18
  DEF Next, Step, Terminated

\* No handler, and nothing else but the constructor, runs while loading.
LEMMA StepUntouched == LockInv /\ [Next]_vars => Untouched'
<1> SUFFICES ASSUME LockInv, [Next]_vars PROVE Untouched'
  OBVIOUS
<1>1. CASE UNCHANGED vars
  BY <1>1 DEF vars, areaVars, threadVars, LockInv, Untouched
<1>2. CASE Next
  <2>1. phase' # "loading"
    <3>1. phase # "loading" /\ phase' = phase => phase' # "loading"
      OBVIOUS
    <3>2. CASE \E t \in Threads : Step(t)
      BY <3>2 DEF Step, Claim, Check, Wait, Recheck, Grow, GrowFails, Abort, Post,
                  Take, Store, Stamp, Fault, At, Running
    <3>3. CASE \E t \in Threads : Call(t) \/ Destruct(t)
      BY <3>3 DEF Call, Destruct
    <3> QED
      BY <1>2, <3>2, <3>3
      DEF Next, Construct, Detach, Tick, Terminated, Running, Ended, vars
  <2> QED
    BY <2>1 DEF Untouched
<1> QED
  BY <1>1, <1>2

\* sem_wait and sem_post keep the critical section to one thread.
LEMMA StepMutex == LockInv /\ [Next]_vars => Mutex'
<1> SUFFICES ASSUME LockInv, [Next]_vars PROVE Mutex'
  OBVIOUS
<1> USE DEF Mutex, Holding, Critical, Growing
<1>0. /\ pc \in [Threads -> Labels] /\ sem \in 0 .. 1
      /\ Untouched /\ Mutex /\ failing \in SUBSET Threads
  BY DEF LockInv, TypeOK
<1>1. CASE Construct
  BY <1>0, <1>1 DEF Construct, threadVars, Untouched
<1>2. CASE Detach \/ Tick \/ UNCHANGED vars
  BY <1>0, <1>2 DEF Detach, Tick, vars, threadVars
<1>3. ASSUME NEW t \in Threads, Call(t) \/ Destruct(t) \/ Claim(t) \/ Check(t) \/ Take(t)
      PROVE  Mutex'
  BY <1>0, <1>3 DEF Call, Destruct, Claim, Check, Take, Goto, At, Caller
<1>4. ASSUME NEW t \in Threads, Store(t) \/ Stamp(t) \/ Fault(t) \/ Abort(t)
      PROVE  Mutex'
  BY <1>0, <1>4 DEF Store, Stamp, Fault, Abort, Goto, At, Caller, threadVars
<1>9. ASSUME NEW t \in Threads, GrowFails(t) PROVE Mutex'
  BY <1>0, <1>9 DEF GrowFails, Goto, At
<1>5. ASSUME NEW t \in Threads, Wait(t) PROVE Mutex'
  BY <1>0, <1>5 DEF Wait, Goto, At
<1>6. ASSUME NEW t \in Threads, Recheck(t) PROVE Mutex'
  BY <1>0, <1>6 DEF Recheck, Goto, At
<1>7. ASSUME NEW t \in Threads, Grow(t) PROVE Mutex'
  BY <1>0, <1>7 DEF Grow, Goto, At
<1>8. ASSUME NEW t \in Threads, Post(t) PROVE Mutex'
  BY <1>0, <1>8 DEF Post, Goto, At
<1> QED
  BY <1>1, <1>2, <1>3, <1>4, <1>5, <1>6, <1>7, <1>8, <1>9
  DEF Next, Step, Terminated

\* The lock's layer of the invariant is inductive by itself.
LEMMA StepLock == LockInv /\ [Next]_vars => LockInv'
BY StepType, StepUntouched, StepMutex DEF LockInv

-----------------------------------------------------------------------------
(* The sizes of the open log.                                               *)

\* A resize keeps file, mapping and fileSize in step, the others leave them.
LEMMA StepSize == LockInv /\ SizeInv /\ [Next]_vars => SizeInv'
<1> SUFFICES ASSUME LockInv, SizeInv, [Next]_vars, area'.fd PROVE SizeInv'
  BY DEF SizeInv
<1> USE DEF TooSmall, RequiredSize, GrownSize, Intact
<1>0. /\ TypeOK /\ Untouched /\ Mutex
      /\ area \in Areas /\ mapping \in Mappings /\ disk.len \in Nat
      /\ pc \in [Threads -> Labels] /\ index \in [Threads -> Nat]
      /\ CacheQty \in Nat /\ GrowthQty \in Nat
  BY LogMmapAssumption DEF LockInv, TypeOK, DiskOK
<1>1. CASE Construct
  BY <1>0, <1>1 DEF Construct, OpenAndSize, Untouched, SizeInv, threadVars, Growing
<1>2. CASE Detach \/ Tick \/ UNCHANGED vars
  BY <1>2 DEF Detach, Tick, vars, areaVars, threadVars, SizeInv
<1>3. ASSUME NEW t \in Threads,
             Call(t) \/ Claim(t) \/ Check(t) \/ Wait(t) \/ Post(t) \/ Take(t)
      PROVE  SizeInv'
  BY <1>0, <1>3
  DEF Call, Claim, Check, Wait, Post, Take, Goto, At, areaVars, SizeInv, Growing, Caller
<1>4. ASSUME NEW t \in Threads, Abort(t) \/ Fault(t) PROVE SizeInv'
  BY <1>4 DEF Abort, Fault, areaVars, threadVars, SizeInv
<1>9. ASSUME NEW t \in Threads, GrowFails(t) PROVE SizeInv'
  <2>1. /\ \A u \in Threads : u # t => pc[u] \notin Growing
        /\ t \in failing' /\ pc[t] # "publish"
    BY <1>0, <1>9 DEF GrowFails, At, Mutex, Holding, Critical, Growing
  <2> QED
    BY <1>0, <1>9, <2>1 DEF GrowFails, Goto, areaVars, SizeInv, Growing
<1>5. ASSUME NEW t \in Threads, Recheck(t) PROVE SizeInv'
  BY <1>0, <1>5
  DEF Recheck, Goto, At, areaVars, SizeInv, Growing
<1>6. ASSUME NEW t \in Threads, Store(t) \/ Stamp(t) PROVE SizeInv'
  <2>1. disk'.len = disk.len /\ UNCHANGED <<area, mapping, index>>
    BY <1>6 DEF Store, Stamp, Written
  <2> QED
    BY <1>0, <1>6, <2>1 DEF Store, Stamp, Goto, At, SizeInv, Growing, Caller
<1>7. ASSUME NEW t \in Threads, Destruct(t) PROVE SizeInv'
  <2>1. ~ area'.fd
    BY <1>0, <1>7 DEF Destruct, MmapClose, Areas
  <2> QED
    BY <2>1
<1>8. ASSUME NEW t \in Threads, Grow(t) PROVE SizeInv'
  <2>1. pc[t] \in Growing /\ \A u \in Threads : pc[u] \in Critical => u = t
    BY <1>0, <1>8 DEF Grow, At, Mutex, Holding, Critical, Growing
  <2>2. \A u \in Threads : u # t => pc'[u] \notin Growing
    BY <1>0, <1>8, <2>1 DEF Grow, Goto, Critical, Growing
  <2>3. CASE At(t, "truncate") /\ Ftruncate(GrownSize(t)) /\ Goto(t, "remap")
    BY <1>0, <1>8, <2>1, <2>2, <2>3
    DEF Grow, At, Ftruncate, Goto, TruncatedTo, SizeInv, Critical, Growing, Areas, Mappings
  <2>4. CASE At(t, "remap") /\ Mremap(GrownSize(t)) /\ Goto(t, "publish")
    <3>1. mapping'.lo = mapping.lo /\ mapping'.hi = GrownSize(t)
      BY <1>0, <2>4 DEF Mremap, Mappings
    <3> QED
      BY <1>0, <1>8, <2>1, <2>2, <2>4, <3>1
      DEF Grow, At, Mremap, Goto, SizeInv, Critical, Growing, Areas, Mappings
  <2>5. CASE At(t, "publish") /\ SetFileSize(GrownSize(t)) /\ Goto(t, "post")
    <3>1. /\ area'.fd = area.fd /\ area'.base = area.base
          /\ area'.fileSize = GrownSize(t)
      BY <1>0, <2>5 DEF SetFileSize, Areas
    <3> QED
      BY <1>0, <1>8, <2>1, <2>2, <2>5, <3>1
      DEF Grow, At, SetFileSize, Goto, SizeInv, Critical, Growing, Areas, Mappings
  <2> QED
    BY <1>8, <2>3, <2>4, <2>5 DEF Grow
<1> QED
  BY <1>1, <1>2, <1>3, <1>4, <1>5, <1>6, <1>7, <1>8, <1>9
  DEF Next, Step, Terminated

-----------------------------------------------------------------------------
(* Who owns which slots.                                                    *)

\* Blocks are claimed once and stored to only when they fit.
LEMMA StepBlock ==
  ASSUME CacheQty > 0
  PROVE  LockInv /\ SizeInv /\ BlockInv /\ [Next]_vars => BlockInv'
<1> SUFFICES ASSUME LockInv, SizeInv, BlockInv, [Next]_vars PROVE BlockInv'
  OBVIOUS
<1> USE DEF Unsure, Claiming, Critical, Growing
<1>0. /\ TypeOK /\ Untouched /\ Mutex
      /\ area \in Areas /\ areaIndex \in Nat
      /\ pc \in [Threads -> Labels] /\ index \in [Threads -> Nat]
      /\ cache \in [Threads -> Nat \union {NULL}]
      /\ cacheRemaining \in [Threads -> Nat]
      /\ CacheQty \in Nat /\ GrowthQty \in Nat
      /\ failing \in SUBSET Threads
  BY LogMmapAssumption DEF LockInv, TypeOK
<1>1. CASE Construct
  BY <1>0, <1>1
  DEF Construct, OpenAndSize, Untouched, BlockInv, Owned, threadVars
<1>2. CASE Detach \/ Tick \/ UNCHANGED vars
  BY <1>2 DEF Detach, Tick, vars, areaVars, threadVars, BlockInv, Owned
<1>3. ASSUME NEW t \in Threads, Abort(t) \/ Fault(t) PROVE BlockInv'
  BY <1>3 DEF Abort, Fault, areaVars, threadVars, BlockInv, Owned
<1>13. ASSUME NEW t \in Threads, GrowFails(t) PROVE BlockInv'
  <2>1. /\ \A u \in Threads : u # t => Owned(u)' = Owned(u)
        /\ Owned(t)' = {}
    BY <1>0, <1>13 DEF GrowFails, Goto, At, Owned
  <2> QED
    BY <1>0, <1>13, <2>1 DEF GrowFails, Goto, At, areaVars, BlockInv
<1>4. ASSUME NEW t \in Threads, Call(t) PROVE BlockInv'
  <2>1. t \notin failing =>
          /\ pc[t] = "app" /\ cacheRemaining[t] > 0
          /\ Decremented(cacheRemaining[t]) = cacheRemaining[t] - 1
    BY <1>0, <1>4 DEF Call, Caller, BlockInv, Decremented
  <2>2. \A u \in Threads : u # t => Owned(u)' = Owned(u)
    BY <1>0, <1>4 DEF Call, Goto, Owned
  <2>3. Owned(t)' \subseteq Owned(t)
    BY <1>0, <1>4, <2>1 DEF Call, Goto, Owned, NULL
  <2>4. /\ UNCHANGED <<area, areaIndex, failing>> /\ pc[t] \in {"app", "failed"}
        /\ t \notin failing =>
             /\ pc'[t] = IF cacheRemaining[t] = 1 THEN "claim" ELSE "store"
             /\ cacheRemaining'[t] = cacheRemaining[t] - 1
        /\ \A u \in Threads \ {t} : pc'[u] = pc[u] /\ cacheRemaining'[u] = cacheRemaining[u]
    BY <1>0, <1>4, <2>1 DEF Call, Caller, Goto, areaVars
  <2>5. ASSUME NEW u \in Threads \ failing
        PROVE  /\ pc'[u] \in {"app", "exit", "store", "stamp"} => cacheRemaining'[u] > 0
               /\ pc'[u] = "claim" => cacheRemaining'[u] = 0
               /\ pc'[u] # "failed"
    <3>1. CASE u = t
      BY <1>0, <2>1, <2>4, <3>1
    <3>2. CASE u # t
      BY <2>4, <3>2 DEF BlockInv
    <3> QED
      BY <3>1, <3>2
  <2>6. \A u \in Threads : Owned(u)' \subseteq Owned(u)
    BY <2>2, <2>3
  <2>7. area.fd => \A u \in Threads :
          pc'[u] \notin Unsure => \A s \in Owned(u)' : s < area.fileSize
    BY <2>4, <2>6 DEF BlockInv
  <2> QED
    BY <2>4, <2>5, <2>6, <2>7 DEF BlockInv
<1>5. ASSUME NEW t \in Threads, Claim(t) PROVE BlockInv'
  <2>1. \/ Owned(t)' = areaIndex .. areaIndex + CacheQty - 1
        \/ Owned(t)' = {}
    BY <1>0, <1>5 DEF Claim, Goto, At, Owned
  <2>2. \A u \in Threads : u # t => Owned(u)' = Owned(u)
    BY <1>0, <1>5 DEF Claim, Goto, At, Owned
  <2>3. \A u \in Threads : u # t => \A s \in Owned(u) : s \notin Owned(t)'
    BY <1>0, <2>1 DEF BlockInv
  <2>4. \A s \in Owned(t)' : 0 <= s /\ s < areaIndex'
    BY <1>0, <1>5, <2>1 DEF Claim
  <2>5. \A u \in Threads : u # t => \A s \in Owned(u)' : 0 <= s /\ s < areaIndex'
    <3>1. areaIndex' = areaIndex + CacheQty
      BY <1>5 DEF Claim
    <3>2. \A u \in Threads : \A s \in Owned(u) : s \in Int
      BY <1>0 DEF Owned, NULL
    <3> QED
      BY <1>0, <2>2, <3>1, <3>2 DEF BlockInv
  <2> QED
    BY <1>0, <1>5, <2>2, <2>3, <2>4, <2>5
    DEF Claim, Goto, At, areaVars, BlockInv
<1>6. ASSUME NEW t \in Threads, Check(t) \/ Recheck(t) PROVE BlockInv'
  <2>1. \A u \in Threads : Owned(u)' = Owned(u)
    BY <1>0, <1>6 DEF Check, Recheck, Goto, At, Owned
  <2>2. ~ TooSmall(t) => \A s \in Owned(t) : s < area.fileSize
    BY <1>0, <1>6 DEF Check, Recheck, At, Owned, TooSmall, RequiredSize, Areas
  <2> QED
    BY <1>0, <1>6, <2>1, <2>2 DEF Check, Recheck, Goto, At, areaVars, BlockInv
<1>7. ASSUME NEW t \in Threads, Wait(t) \/ Post(t) PROVE BlockInv'
  <2>1. \A u \in Threads : Owned(u)' = Owned(u)
    BY <1>0, <1>7 DEF Wait, Post, Goto, At, Owned
  <2> QED
    BY <1>0, <1>7, <2>1 DEF Wait, Post, Goto, At, areaVars, BlockInv
<1>8. ASSUME NEW t \in Threads, Take(t) PROVE BlockInv'
  <2>1. \A u \in Threads : Owned(u)' = Owned(u)
    BY <1>0, <1>8 DEF Take, Goto, At, Owned, BlockSize
  <2> QED
    BY <1>0, <1>8, <2>1 DEF Take, Goto, At, areaVars, BlockInv, BlockSize
<1>9. ASSUME NEW t \in Threads, Store(t) PROVE BlockInv'
  <2>1. \A u \in Threads : Owned(u)' = Owned(u)
    BY <1>0, <1>9 DEF Store, Goto, At, Owned
  <2> QED
    BY <1>0, <1>9, <2>1 DEF Store, Goto, At, BlockInv
<1>10. ASSUME NEW t \in Threads, Stamp(t) PROVE BlockInv'
  <2>1. /\ Owned(t)' \subseteq Owned(t)
        /\ \A u \in Threads : u # t => Owned(u)' = Owned(u)
    BY <1>0, <1>10 DEF Stamp, Goto, At, Owned, NextSlot, NULL, Caller
  <2> QED
    BY <1>0, <1>10, <2>1 DEF Stamp, Goto, At, BlockInv, Caller
<1>11. ASSUME NEW t \in Threads, Destruct(t) PROVE BlockInv'
  <2>1. ~ area'.fd
    BY <1>0, <1>11 DEF Destruct, MmapClose, Areas
  <2>2. \A u \in Threads : Owned(u)' = Owned(u)
    BY <1>0, <1>11 DEF Destruct, Goto, Owned
  <2> QED
    BY <1>0, <1>11, <2>1, <2>2 DEF Destruct, Goto, BlockInv
<1>12. ASSUME NEW t \in Threads, Grow(t) PROVE BlockInv'
  <2>1. \A u \in Threads : Owned(u)' = Owned(u)
    BY <1>0, <1>12 DEF Grow, Goto, At, Owned
  <2>2. UNCHANGED <<areaIndex, cacheRemaining, failing>>
    BY <1>12 DEF Grow
  <2>3. CASE Ftruncate(GrownSize(t)) /\ At(t, "truncate") /\ Goto(t, "remap")
    BY <1>0, <2>1, <2>2, <2>3 DEF At, Ftruncate, Goto, BlockInv
  <2>4. CASE Mremap(GrownSize(t)) /\ At(t, "remap") /\ Goto(t, "publish")
    BY <1>0, <2>1, <2>2, <2>4 DEF At, Mremap, Goto, BlockInv
  <2>5. CASE SetFileSize(GrownSize(t)) /\ At(t, "publish") /\ Goto(t, "post")
    <3>1. area'.fd = area.fd /\ area'.fileSize = GrownSize(t)
      BY <1>0, <2>5 DEF SetFileSize, Areas
    <3>2. area.fd => area.fileSize < GrownSize(t)
      BY <1>0, <2>5
      DEF At, SizeInv, TooSmall, GrownSize, RequiredSize, Areas
    <3>3. \A s \in Owned(t) : s < GrownSize(t)
      BY <1>0, <2>5 DEF At, Owned, GrownSize, RequiredSize
    <3>4. GrownSize(t) \in Nat /\ area.fileSize \in Nat
      BY <1>0 DEF GrownSize, RequiredSize, Areas
    <3>5. \A u \in Threads : Owned(u) \subseteq Int
      BY <1>0 DEF Owned, NULL
    <3> QED
      BY <1>0, <2>1, <2>2, <2>5, <3>1, <3>2, <3>3, <3>4, <3>5
      DEF At, Goto, BlockInv
  <2> QED
    BY <1>12, <2>3, <2>4, <2>5 DEF Grow
<1> QED
  BY <1>1, <1>2, <1>3, <1>4, <1>5, <1>6, <1>7, <1>8, <1>9, <1>10, <1>11, <1>12, <1>13
  DEF Next, Step, Terminated

\* Where a handler of an open log stores is in the mapping and in the file.
LEMMA StoresReachable ==
  ASSUME LockInv, SizeInv, BlockInv, area.fd,
         NEW t \in Threads \ failing, pc[t] \in {"store", "stamp"}
  PROVE  Reachable(cache[t])
<1>1. /\ area \in Areas /\ mapping \in Mappings /\ disk.len \in Nat
      /\ cache[t] \in Int /\ cacheRemaining[t] \in Nat
  BY DEF LockInv, TypeOK, DiskOK, NULL
<1>2. cache[t] \in Owned(t)
  BY <1>1 DEF BlockInv, Owned, Claiming, Critical, Growing
<1>3. 0 <= cache[t] /\ cache[t] < area.fileSize
  BY <1>2 DEF BlockInv, Unsure, Growing
<1> QED
  BY <1>1, <1>3 DEF SizeInv, Reachable, Areas, Mappings

-----------------------------------------------------------------------------
(* What the slots hold.                                                     *)

\* A resize of the open log only appends empty slots.
LEMMA GrowAppends ==
  ASSUME LockInv, SizeInv, NEW t \in Threads, Grow(t)
  PROVE  /\ Slots \subseteq Slots'
         /\ \A s \in Slots : disk'.at[s] = disk.at[s]
         /\ \A s \in Slots' \ Slots : disk'.at[s] = EmptyRecord
<1>1. CASE At(t, "truncate") /\ Ftruncate(GrownSize(t))
  <2>1. disk.len \in Nat /\ GrownSize(t) \in Nat /\ GrownSize(t) >= disk.len
    <3>1. /\ area \in Areas /\ disk.len \in Nat /\ CacheQty \in Nat
          /\ GrowthQty \in Nat /\ index[t] \in Nat
      BY LogMmapAssumption DEF LockInv, TypeOK, DiskOK
    <3>2. pc[t] = "truncate" /\ area.fd
      BY <1>1 DEF At, Ftruncate
    <3>3. Intact /\ \A u \in Threads : pc[u] \notin {"remap", "publish"}
      BY <3>2 DEF LockInv, TypeOK, Mutex, Holding, Critical, Growing, Intact
    <3>4. disk.len = area.fileSize /\ TooSmall(t)
      BY <3>2, <3>3 DEF SizeInv, Growing
    <3> QED
      BY <3>1, <3>4 DEF TooSmall, GrownSize, RequiredSize, Areas
  <2>2. disk' = TruncatedTo(GrownSize(t))
    BY <1>1 DEF Ftruncate
  <2> QED
    BY <2>1, <2>2 DEF TruncatedTo, Slots
<1>2. CASE UNCHANGED disk
  BY <1>2 DEF Slots
<1> QED
  BY <1>1, <1>2 DEF Grow, Mremap, SetFileSize

\* A resize that failed cannot be undone.
LEMMA StaysIntact == [Next]_vars => (Intact' => Intact)
<1> SUFFICES ASSUME [Next]_vars PROVE Intact' => Intact
  OBVIOUS
<1>1. ASSUME NEW t \in Threads, GrowFails(t) PROVE ~ Intact'
  BY <1>1 DEF GrowFails, Intact
<1>2. ASSUME NEW t \in Threads, Step(t), ~ GrowFails(t) PROVE failing' = failing
  BY <1>2
  DEF Step, Claim, Check, Wait, Recheck, Grow, Abort, Post, Take, Store, Stamp,
      Fault, threadVars
<1>3. CASE Construct \/ Detach \/ Tick \/ UNCHANGED vars
  BY <1>3 DEF Construct, Detach, Tick, vars, threadVars, Intact
<1>4. ASSUME NEW t \in Threads, Call(t) \/ Destruct(t) PROVE failing' = failing
  BY <1>4 DEF Call, Destruct
<1> QED
  BY <1>1, <1>2, <1>3, <1>4 DEF Next, Terminated, Intact

\* The parts of RecordsOK, for one step that leaves the file and the clock
\* alone and does not give a thread slots that are in use.
LEMMA QuietRecord ==
  ASSUME LockInv, RecordsOK, Intact, Intact', UNCHANGED <<disk, clock>>,
         areaIndex' >= areaIndex, areaIndex' \in Nat,
         \A t \in Threads :
           /\ Returned(t)' = Returned(t)
           /\ pc'[t] = "stamp" <=> pc[t] = "stamp"
           /\ pc[t] = "stamp" => cache'[t] = cache[t] /\ calls'[t] = calls[t]
           /\ \A s \in Owned(t)' : s \in Owned(t) \/ areaIndex <= s
  PROVE  RecordsOK'
<1>1. /\ areaIndex \in Nat /\ Slots' = Slots /\ Slots \subseteq Nat
      /\ \A s \in Slots : disk.at[s].by \in Threads \union {NoThread}
  BY DEF LockInv, TypeOK, DiskOK, Slots, Records
<1>2. /\ \A t \in Threads, s \in Slots : Half(t, s)' <=> Half(t, s)
      /\ \A t \in Threads, s \in Slots, n \in Nat :
           Holds(s, t, n)' <=> Holds(s, t, n)
  BY DEF Half, Holds
<1>3. EachCallLogged'
  BY <1>1 DEF RecordsOK, EachCallLogged, Holds, Intact
<1>4. \A t \in Threads : \A s \in Owned(t)' :
        s \in Slots' => disk'.at[s].by = NoThread \/ Half(t, s)'
  BY <1>1, <1>2 DEF RecordsOK
<1>5. \A s \in Slots' : disk'.at[s].by \in Threads => s < areaIndex'
  BY <1>1 DEF RecordsOK
<1>6. \A t \in Threads :
        pc'[t] = "stamp" => cache'[t] \in Slots' /\ Holds(cache[t], t, calls[t])'
  BY <1>1 DEF RecordsOK, Holds
<1> QED
  BY <1>1, <1>2, <1>3, <1>4, <1>5, <1>6 DEF RecordsOK, Holds

\* No step loses, overwrites or doubles the record of a call.
LEMMA StepRecord ==
  ASSUME CacheQty > 0
  PROVE  LockInv /\ SizeInv /\ BlockInv /\ RecordInv /\ [Next]_vars => RecordInv'
<1> SUFFICES ASSUME LockInv, SizeInv, BlockInv, RecordsOK, [Next]_vars,
                    failing = {}, failing' = {}
             PROVE  RecordsOK'
  BY StaysIntact DEF RecordInv, Intact
<1> USE DEF Claiming, Critical, Growing, Intact
<1>0. /\ TypeOK /\ Untouched /\ Mutex /\ DiskOK
      /\ areaIndex \in Nat /\ Slots \subseteq Nat /\ clock \in Stamps
      /\ pc \in [Threads -> Labels] /\ index \in [Threads -> Nat]
      /\ cache \in [Threads -> Nat \union {NULL}]
      /\ cacheRemaining \in [Threads -> Nat]
      /\ calls \in [Threads -> Nat]
      /\ CacheQty \in Nat /\ GrowthQty \in Nat
      /\ \A s \in Slots : disk.at[s].by \in Threads \union {NoThread}
      /\ NoThread \notin Threads
  <2>1. Slots \subseteq Nat /\ \A s \in Slots : disk.at[s].by \in Threads \union {NoThread}
    BY DEF LockInv, TypeOK, DiskOK, Slots, Records
  <2> QED
    BY <2>1, LogMmapAssumption DEF LockInv, TypeOK
<1>1. CASE Construct
  <2>1. CASE OpenAndSize(GrowthQty)
    <3>1. /\ \A s \in Slots' : disk'.at[s] = EmptyRecord
          /\ \A t \in Threads : pc'[t] = "app" /\ calls'[t] = 0
          /\ clock' = clock
      BY <1>0, <1>1, <2>1 DEF Construct, OpenAndSize, Slots, Untouched, threadVars
    <3> QED
      BY <1>0, <3>1
      DEF RecordsOK, EachCallLogged, Returned, EmptyRecord, Half
  <2>2. CASE UNCHANGED areaVars
    BY <1>0, <1>1, <2>2, QuietRecord
    DEF Construct, areaVars, threadVars, Returned, Owned
  <2> QED
    BY <1>1, <2>1, <2>2 DEF Construct, areaVars
<1>2. CASE Detach \/ UNCHANGED vars
  BY <1>0, <1>2, QuietRecord DEF Detach, vars, areaVars, threadVars, Returned, Owned
<1>3. CASE Tick
  <2>1. clock'.sec > 0
    BY <1>0, <1>3 DEF Tick, NextStamp, Stamps, RecordsOK
  <2> QED
    BY <1>3, <2>1
    DEF Tick, areaVars, threadVars, RecordsOK, Returned, Owned, Half, Holds,
        EachCallLogged, Slots
<1>4. ASSUME NEW t \in Threads, Abort(t) \/ Fault(t) PROVE RecordsOK'
  BY <1>0, <1>4, QuietRecord
  DEF Abort, Fault, areaVars, threadVars, Returned, Owned
<1>b. ~ \E t \in Threads : GrowFails(t)
  BY DEF GrowFails
<1>5. ASSUME NEW t \in Threads, Call(t) PROVE RecordsOK'
  <2>1. /\ cacheRemaining[t] > 0
        /\ Decremented(cacheRemaining[t]) = cacheRemaining[t] - 1
    BY <1>0, <1>5 DEF Call, Caller, BlockInv, Decremented
  <2>2. \A u \in Threads : Owned(u)' \subseteq Owned(u)
    BY <1>0, <1>5, <2>1 DEF Call, Caller, Goto, Owned, NULL
  <2>3. \A u \in Threads : Returned(u)' = Returned(u)
    BY <1>0, <1>5 DEF Call, Caller, Goto, Returned
  <2> QED
    BY <1>0, <1>5, <2>2, <2>3, QuietRecord DEF Call, Caller, Goto, areaVars
<1>6. ASSUME NEW t \in Threads, Claim(t) PROVE RecordsOK'
  <2>1. Owned(t)' = areaIndex .. areaIndex + CacheQty - 1
    BY <1>0, <1>6 DEF Claim, Goto, At, Owned
  <2>2. \A u \in Threads : u # t => Owned(u)' = Owned(u)
    BY <1>0, <1>6 DEF Claim, Goto, At, Owned
  <2>3. \A u \in Threads : Returned(u)' = Returned(u)
    BY <1>0, <1>6 DEF Claim, Goto, At, Returned
  <2>4. ASSUME NEW u \in Threads, NEW s \in Owned(u)'
        PROVE  s \in Owned(u) \/ areaIndex <= s
    <3>1. CASE u = t
      BY <1>0, <2>1, <3>1
    <3> QED
      BY <2>2, <3>1
  <2> QED
    BY <1>0, <1>6, <2>3, <2>4, QuietRecord DEF Claim, Goto, At, areaVars
<1>7. ASSUME NEW t \in Threads, Check(t) \/ Recheck(t) \/ Wait(t) \/ Post(t)
      PROVE  RecordsOK'
  <2>1. \A u \in Threads : Owned(u)' = Owned(u) /\ Returned(u)' = Returned(u)
    BY <1>0, <1>7 DEF Check, Recheck, Wait, Post, Goto, At, Owned, Returned
  <2> QED
    BY <1>0, <1>7, <2>1, QuietRecord
    DEF Check, Recheck, Wait, Post, Goto, At, areaVars
<1>8. ASSUME NEW t \in Threads, Take(t) PROVE RecordsOK'
  <2>1. \A u \in Threads : Owned(u)' = Owned(u) /\ Returned(u)' = Returned(u)
    BY <1>0, <1>8 DEF Take, Goto, At, Owned, Returned, BlockSize
  <2> QED
    BY <1>0, <1>8, <2>1, QuietRecord DEF Take, Goto, At, areaVars
<1>9. ASSUME NEW t \in Threads, Destruct(t) PROVE RecordsOK'
  <2>1. \A u \in Threads : Owned(u)' = Owned(u) /\ Returned(u)' = Returned(u)
    BY <1>0, <1>9 DEF Destruct, Goto, Owned, Returned
  <2> QED
    BY <1>0, <1>9, <2>1, QuietRecord DEF Destruct, Goto, MmapClose
<1>10. ASSUME NEW t \in Threads, Grow(t) PROVE RecordsOK'
  <2>1. \A u \in Threads : Owned(u)' = Owned(u) /\ Returned(u)' = Returned(u)
    BY <1>0, <1>10 DEF Grow, Goto, At, Owned, Returned
  <2>2. /\ UNCHANGED <<areaIndex, clock, cache, calls>>
        /\ \A u \in Threads : pc'[u] = "stamp" <=> pc[u] = "stamp"
    BY <1>0, <1>10 DEF Grow, Goto, At
  <2>3. /\ Slots \subseteq Slots'
        /\ \A s \in Slots : disk'.at[s] = disk.at[s]
        /\ \A s \in Slots' \ Slots : disk'.at[s].by = NoThread
    BY <1>10, GrowAppends DEF EmptyRecord
  <2>4. \A u \in Threads : \A s : Half(u, s)' <=> Half(u, s)
    BY <2>2 DEF Half
  <2>5. EachCallLogged'
    <3> SUFFICES ASSUME NEW u \in Threads, NEW n \in 1 .. Returned(u)
                 PROVE  \E s \in Slots' :
                          /\ Holds(s, u, n)' /\ disk'.at[s].stamp # NoStamp
                          /\ \A r \in Slots' : Holds(r, u, n)' => r = s
      BY <2>1 DEF EachCallLogged
    <3>1. PICK s \in Slots : /\ Holds(s, u, n) /\ disk.at[s].stamp # NoStamp
                             /\ \A r \in Slots : Holds(r, u, n) => r = s
      BY DEF RecordsOK, EachCallLogged
    <3>2. s \in Slots' /\ Holds(s, u, n)' /\ disk'.at[s].stamp # NoStamp
      BY <2>3, <3>1 DEF Holds
    <3>3. ASSUME NEW r \in Slots', Holds(r, u, n)' PROVE r = s
      BY <1>0, <2>3, <3>1, <3>3 DEF Holds
    <3> QED
      BY <3>2, <3>3
  <2>6. \A s \in Slots' : disk'.at[s].by \in Threads =>
          s \in Slots /\ disk'.at[s] = disk.at[s]
    BY <1>0, <2>3
  <2>7. \A u \in Threads : \A s \in Owned(u)' :
          s \in Slots' => disk'.at[s].by = NoThread \/ Half(u, s)'
    BY <2>1, <2>3, <2>4 DEF RecordsOK
  <2>8. \A u \in Threads :
          pc'[u] = "stamp" => cache'[u] \in Slots' /\ Holds(cache[u], u, calls[u])'
    BY <2>2, <2>3 DEF RecordsOK, Holds
  <2>9. \A u \in Threads : \A s \in Slots' : disk'.at[s].by = u =>
          disk'.at[s].n \in 1 .. Returned(u)' \/ Half(u, s)'
    BY <2>1, <2>4, <2>6 DEF RecordsOK
  <2>10. \A s \in Slots' : disk'.at[s].by \in Threads => s < areaIndex'
    BY <2>2, <2>6 DEF RecordsOK
  <2>11. clock'.sec > 0 /\ \A u \in Threads : Returned(u)' >= 0
    BY <2>1, <2>2 DEF RecordsOK
  <2> QED
    BY <2>5, <2>7, <2>8, <2>9, <2>10, <2>11 DEF RecordsOK
<1>11. ASSUME NEW t \in Threads, Store(t) PROVE RecordsOK'
  <2> DEFINE c == cache[t]
  <2>1. /\ c \in Slots /\ c \in Owned(t)
        /\ pc[t] = "store" /\ disk.at[c].by = NoThread
    <3>1. pc[t] = "store" /\ cacheRemaining[t] > 0 /\ c \in Slots
      BY <1>0, <1>11
      DEF Store, At, Reachable, Slots, BlockInv, TypeOK, Mappings, NULL, DiskOK
    <3>2. c \in Nat /\ cacheRemaining[t] \in Nat /\ Owned(t) = c .. c + cacheRemaining[t] - 1
      BY <1>0, <3>1 DEF Owned
    <3>3. c \in Owned(t)
      BY <3>1, <3>2
    <3> QED
      BY <3>1, <3>3 DEF RecordsOK, Half
  <2>2. \A u \in Threads : Owned(u)' = Owned(u) /\ Returned(u)' = Returned(u)
    BY <1>0, <1>11 DEF Store, Goto, At, Owned, Returned
  <2>3. /\ Slots' = Slots /\ UNCHANGED <<areaIndex, clock, cache, calls>>
        /\ pc' = [pc EXCEPT ![t] = "stamp"]
        /\ disk'.at[c].by = t /\ disk'.at[c].n = calls[t]
        /\ \A s \in Slots \ {c} : disk'.at[s] = disk.at[s]
    BY <1>0, <1>11, <2>1
    DEF Store, Goto, Written, NewRecord, Slots, DiskOK
  <2>4. \A u \in Threads, s \in Slots : Half(u, s)' <=> Half(u, s) \/ (u = t /\ s = c)
    BY <1>0, <2>1, <2>3 DEF Half
  <2>5. Returned(t) < calls[t] /\ Returned(t) \in Nat
    BY <1>0, <2>1 DEF Returned, RecordsOK
  <2>6. EachCallLogged'
    <3> SUFFICES ASSUME NEW u \in Threads, NEW n \in 1 .. Returned(u)
                 PROVE  \E s \in Slots :
                          /\ Holds(s, u, n)' /\ disk'.at[s].stamp # NoStamp
                          /\ \A r \in Slots : Holds(r, u, n)' => r = s
      BY <2>2, <2>3 DEF EachCallLogged
    <3>1. PICK s \in Slots : /\ Holds(s, u, n) /\ disk.at[s].stamp # NoStamp
                             /\ \A r \in Slots : Holds(r, u, n) => r = s
      BY DEF RecordsOK, EachCallLogged
    <3>2. s # c
      BY <1>0, <2>1, <3>1 DEF Holds
    <3>3. ~ Holds(c, u, n)'
      BY <1>0, <2>3, <2>5 DEF Holds
    <3> QED
      BY <2>3, <3>1, <3>2, <3>3 DEF Holds
  <2>7. \A s \in Slots : disk'.at[s].by \in Threads => s < areaIndex
    BY <1>0, <2>1, <2>3 DEF RecordsOK, BlockInv
  <2>8. \A u \in Threads : \A s \in Owned(u) :
          s \in Slots => disk'.at[s].by = NoThread \/ Half(u, s)'
    <3> SUFFICES ASSUME NEW u \in Threads, NEW s \in Owned(u), s \in Slots
                 PROVE  disk'.at[s].by = NoThread \/ Half(u, s)'
      OBVIOUS
    <3>1. CASE s = c
      <4>1. u = t
        BY <1>0, <2>1, <3>1 DEF BlockInv
      <4> QED
        BY <2>4, <3>1, <4>1
    <3>2. CASE s # c
      BY <2>3, <2>4, <3>2 DEF RecordsOK
    <3> QED
      BY <3>1, <3>2
  <2>9. \A u \in Threads :
          pc'[u] = "stamp" => cache[u] \in Slots /\ Holds(cache[u], u, calls[u])'
    <3> SUFFICES ASSUME NEW u \in Threads, pc'[u] = "stamp", u # t
                 PROVE  cache[u] \in Slots /\ Holds(cache[u], u, calls[u])'
      BY <2>1, <2>3 DEF Holds
    <3>1. cache[u] \in Slots /\ Holds(cache[u], u, calls[u])
      BY <1>0, <2>3 DEF RecordsOK
    <3> QED
      BY <1>0, <2>1, <2>3, <3>1 DEF Holds
  <2>10. \A u \in Threads : \A s \in Slots : disk'.at[s].by = u =>
           disk'.at[s].n \in 1 .. Returned(u) \/ Half(u, s)'
    BY <1>0, <2>3, <2>4 DEF RecordsOK
  <2> HIDE DEF c
  <2> QED
    BY <2>2, <2>3, <2>6, <2>7, <2>8, <2>9, <2>10 DEF RecordsOK, Holds
<1>12. ASSUME NEW t \in Threads, Stamp(t) PROVE RecordsOK'
  <2> DEFINE c == cache[t]
  <2>1. /\ c \in Slots /\ pc[t] = "stamp" /\ cacheRemaining[t] > 0
        /\ disk.at[c].by = t /\ disk.at[c].n = calls[t]
    BY <1>0, <1>12 DEF Stamp, At, RecordsOK, BlockInv, Holds
  <2>2. /\ \A u \in Threads : u # t => Owned(u)' = Owned(u)
        /\ Owned(t)' = Owned(t) \ {c}
    BY <1>0, <1>12, <2>1 DEF Stamp, Goto, At, Owned, NextSlot, NULL, Caller
  <2>3. /\ \A u \in Threads : u # t => Returned(u)' = Returned(u)
        /\ Returned(t)' = calls[t] /\ Returned(t) = calls[t] - 1
    BY <1>0, <1>12, <2>1 DEF Stamp, Goto, Returned, Caller
  <2>4. /\ Slots' = Slots /\ UNCHANGED <<areaIndex, clock, calls>>
        /\ pc' = [pc EXCEPT ![t] = "app"]
        /\ \A u \in Threads : u # t => cache'[u] = cache[u]
        /\ \A s \in Slots : /\ disk'.at[s].by = disk.at[s].by
                            /\ disk'.at[s].n = disk.at[s].n
        /\ disk'.at[c].stamp = clock
        /\ \A s \in Slots \ {c} : disk'.at[s] = disk.at[s]
    BY <1>0, <1>12, <2>1 DEF Stamp, Goto, Caller, Written, Stamped, Slots, DiskOK
  <2>5. \A u \in Threads, s \in Slots : Half(u, s) <=> Half(u, s)' \/ (u = t /\ s = c)
    BY <1>0, <2>1, <2>4 DEF Half
  <2>6. clock # NoStamp
    BY DEF RecordsOK, NoStamp
  <2>7. calls[t] > 0 /\ calls[t] \in Nat
    BY <1>0, <2>3 DEF RecordsOK
  <2>13. \A r \in Slots : Half(t, r) => r = c
    BY DEF Half
  <2> HIDE DEF c
  <2>8. EachCallLogged'
    <3> SUFFICES ASSUME NEW u \in Threads, NEW n \in 1 .. Returned(u)'
                 PROVE  \E s \in Slots :
                          /\ Holds(s, u, n) /\ disk'.at[s].stamp # NoStamp
                          /\ \A r \in Slots : Holds(r, u, n) => r = s
      BY <2>4 DEF EachCallLogged, Holds
    <3>1. CASE n \in 1 .. Returned(u)
      <4>1. PICK s \in Slots : /\ Holds(s, u, n) /\ disk.at[s].stamp # NoStamp
                               /\ \A r \in Slots : Holds(r, u, n) => r = s
        BY <3>1 DEF RecordsOK, EachCallLogged
      <4> QED
        BY <2>4, <2>6, <4>1
    <3>2. CASE u = t /\ n = calls[t]
      <4>1. Holds(c, u, n) /\ disk'.at[c].stamp # NoStamp
        BY <2>1, <2>4, <2>6, <3>2 DEF Holds
      <4>2. \A r \in Slots : Holds(r, u, n) => r = c
        <5> SUFFICES ASSUME NEW r \in Slots, Holds(r, t, calls[t]) PROVE r = c
          BY <3>2
        <5>1. disk.at[r].n \in 1 .. Returned(t) \/ Half(t, r)
          BY DEF RecordsOK, Holds
        <5> QED
          BY <2>3, <2>7, <2>13, <5>1 DEF Holds
      <4> QED
        BY <2>1, <4>1, <4>2
    <3>3. n \in 1 .. Returned(u) \/ (u = t /\ n = calls[t])
      BY <2>3, <2>7
    <3> QED
      BY <3>1, <3>2, <3>3
  <2>9. \A u \in Threads : \A s \in Owned(u)' :
          s \in Slots => disk'.at[s].by = NoThread \/ Half(u, s)'
    <3> SUFFICES ASSUME NEW u \in Threads, NEW s \in Owned(u)', s \in Slots
                 PROVE  disk'.at[s].by = NoThread \/ Half(u, s)'
      OBVIOUS
    <3>1. s \in Owned(u) /\ ~ (u = t /\ s = c)
      BY <2>2
    <3>2. disk.at[s].by = NoThread \/ Half(u, s)
      BY <3>1 DEF RecordsOK
    <3> QED
      BY <2>4, <2>5, <3>1, <3>2
  <2>10. \A u \in Threads : \A s \in Slots : disk'.at[s].by = u =>
           disk'.at[s].n \in 1 .. Returned(u)' \/ Half(u, s)'
    <3> SUFFICES ASSUME NEW u \in Threads, NEW s \in Slots, disk.at[s].by = u
                 PROVE  disk.at[s].n \in 1 .. Returned(u)' \/ Half(u, s)'
      BY <2>4
    <3>1. disk.at[s].n \in 1 .. Returned(u) \/ Half(u, s)
      BY DEF RecordsOK
    <3> QED
      BY <1>0, <2>1, <2>3, <2>5, <2>7, <3>1
  <2>11. \A u \in Threads :
           pc'[u] = "stamp" => cache'[u] \in Slots /\ Holds(cache'[u], u, calls[u])
    BY <1>0, <2>1, <2>4 DEF RecordsOK
  <2>12. \A u \in Threads : Returned(u)' >= 0
    BY <1>0, <2>3 DEF RecordsOK
  <2> QED
    BY <2>4, <2>8, <2>9, <2>10, <2>11, <2>12 DEF RecordsOK, Holds
<1> QED
  BY <1>1, <1>2, <1>3, <1>4, <1>5, <1>6, <1>7, <1>8, <1>9, <1>10, <1>11, <1>12,
     <1>b
  DEF Next, Step, Terminated

-----------------------------------------------------------------------------
(* In which order.                                                          *)

\* OrderOK for one step that leaves the file and the clock alone and does
\* not give a thread slots below those in use.
LEMMA QuietOrder ==
  ASSUME LockInv, RecordsOK, OrderOK, Intact, Intact', UNCHANGED <<disk, clock>>,
         \A t \in Threads :
           /\ Returned(t)' = Returned(t)
           /\ \A s \in Owned(t)' : s \in Owned(t) \/ (areaIndex <= s /\ s \in Nat)
  PROVE  OrderOK'
<1>1. Slots' = Slots /\ Slots \subseteq Nat /\ areaIndex \in Nat
  BY DEF LockInv, TypeOK, DiskOK, Slots
<1>2. ASSUME NEW t \in Threads, NEW s \in Slots, NEW r \in Owned(t)',
             disk.at[s].by = t
      PROVE  s <= r
  <2>1. s < areaIndex
    BY <1>2 DEF RecordsOK
  <2>2. CASE r \in Owned(t)
    BY <1>2, <2>2 DEF OrderOK
  <2>3. CASE areaIndex <= r /\ r \in Nat
    BY <1>1, <2>1, <2>3
  <2> QED
    BY <2>2, <2>3
<1> QED
  BY <1>1, <1>2 DEF OrderOK

\* A thread's slots and stamps only go up.
LEMMA StepOrder ==
  ASSUME CacheQty > 0
  PROVE  LockInv /\ BlockInv /\ SizeInv /\ RecordInv /\ OrderInv /\ [Next]_vars
           => OrderInv'
<1> SUFFICES ASSUME LockInv, SizeInv, BlockInv, RecordsOK, OrderOK, [Next]_vars,
                    failing = {}, failing' = {}
             PROVE  OrderOK'
  BY StaysIntact DEF RecordInv, OrderInv, Intact
<1> USE DEF Claiming, Critical, Growing, Intact
<1>0. /\ TypeOK /\ Untouched /\ DiskOK
      /\ areaIndex \in Nat /\ Slots \subseteq Nat /\ clock \in Stamps
      /\ pc \in [Threads -> Labels] /\ index \in [Threads -> Nat]
      /\ cache \in [Threads -> Nat \union {NULL}]
      /\ cacheRemaining \in [Threads -> Nat]
      /\ calls \in [Threads -> Nat]
      /\ CacheQty \in Nat /\ GrowthQty \in Nat
      /\ \A s \in Slots : disk.at[s].n \in Nat /\ disk.at[s].stamp \in Stamps
      /\ NoThread \notin Threads
  <2>1. /\ Slots \subseteq Nat
        /\ \A s \in Slots : disk.at[s].n \in Nat /\ disk.at[s].stamp \in Stamps
    BY DEF LockInv, TypeOK, DiskOK, Slots, Records
  <2> QED
    BY <2>1, LogMmapAssumption DEF LockInv, TypeOK
<1>a. NotLater(NoStamp, clock)
  BY <1>0 DEF RecordsOK, NotLater, NoStamp, Stamps
<1>1. CASE Construct
  <2>1. CASE OpenAndSize(GrowthQty)
    <3>1. (\A s \in Slots' : disk'.at[s] = EmptyRecord) /\ clock' = clock
      BY <1>0, <1>1, <2>1 DEF Construct, OpenAndSize, Slots
    <3> QED
      BY <1>0, <1>a, <3>1 DEF OrderOK, EmptyRecord
  <2>2. CASE UNCHANGED areaVars
    BY <1>0, <1>1, <2>2, QuietOrder
    DEF Construct, areaVars, threadVars, Returned, Owned
  <2> QED
    BY <1>1, <2>1, <2>2 DEF Construct, areaVars
<1>2. CASE Detach \/ UNCHANGED vars
  BY <1>0, <1>2, QuietOrder DEF Detach, vars, areaVars, threadVars, Returned, Owned
<1>3. CASE Tick
  <2>1. ASSUME NEW a \in Stamps, NotLater(a, clock) PROVE NotLater(a, clock')
    BY <1>0, <1>3, <2>1, UsecPerSecAssumption DEF Tick, NextStamp, Stamps, NotLater
  <2>2. \A s \in Slots : NotLater(disk.at[s].stamp, clock')
    BY <1>0, <2>1 DEF OrderOK
  <2>3. UNCHANGED <<disk, pc, cacheRemaining, cache, index, calls>>
    BY <1>3 DEF Tick, areaVars, threadVars
  <2> QED
    BY <2>2, <2>3 DEF OrderOK, Returned, Owned, Slots
<1>4. ASSUME NEW t \in Threads, Abort(t) \/ Fault(t) PROVE OrderOK'
  BY <1>0, <1>4, QuietOrder
  DEF Abort, Fault, areaVars, threadVars, Returned, Owned
<1>b. ~ \E t \in Threads : GrowFails(t)
  BY DEF GrowFails
<1>5. ASSUME NEW t \in Threads, Call(t) PROVE OrderOK'
  <2>1. /\ cacheRemaining[t] > 0
        /\ Decremented(cacheRemaining[t]) = cacheRemaining[t] - 1
    BY <1>0, <1>5 DEF Call, Caller, BlockInv, Decremented
  <2>2. \A u \in Threads : Owned(u)' \subseteq Owned(u)
    BY <1>0, <1>5, <2>1 DEF Call, Caller, Goto, Owned, NULL
  <2>3. \A u \in Threads : Returned(u)' = Returned(u)
    BY <1>0, <1>5 DEF Call, Caller, Goto, Returned
  <2> QED
    BY <1>0, <1>5, <2>2, <2>3, QuietOrder DEF Call, areaVars
<1>6. ASSUME NEW t \in Threads, Claim(t) PROVE OrderOK'
  <2>1. Owned(t)' = areaIndex .. areaIndex + CacheQty - 1
    BY <1>0, <1>6 DEF Claim, Goto, At, Owned
  <2>2. \A u \in Threads : u # t => Owned(u)' = Owned(u)
    BY <1>0, <1>6 DEF Claim, Goto, At, Owned
  <2>3. \A u \in Threads : Returned(u)' = Returned(u)
    BY <1>0, <1>6 DEF Claim, Goto, At, Returned
  <2>4. ASSUME NEW u \in Threads, NEW s \in Owned(u)'
        PROVE  s \in Owned(u) \/ (areaIndex <= s /\ s \in Nat)
    <3>1. CASE u = t
      BY <1>0, <2>1, <3>1
    <3> QED
      BY <2>2, <3>1
  <2> QED
    BY <1>0, <1>6, <2>3, <2>4, QuietOrder DEF Claim, areaVars
<1>7. ASSUME NEW t \in Threads, Check(t) \/ Recheck(t) \/ Wait(t) \/ Post(t)
      PROVE  OrderOK'
  <2>1. \A u \in Threads : Owned(u)' = Owned(u) /\ Returned(u)' = Returned(u)
    BY <1>0, <1>7 DEF Check, Recheck, Wait, Post, Goto, At, Owned, Returned
  <2> QED
    BY <1>0, <1>7, <2>1, QuietOrder DEF Check, Recheck, Wait, Post, areaVars
<1>8. ASSUME NEW t \in Threads, Take(t) \/ Destruct(t) PROVE OrderOK'
  <2>1. \A u \in Threads : Owned(u)' = Owned(u) /\ Returned(u)' = Returned(u)
    BY <1>0, <1>8 DEF Take, Destruct, Goto, At, Owned, Returned, BlockSize
  <2> QED
    BY <1>0, <1>8, <2>1, QuietOrder DEF Take, Destruct, areaVars, MmapClose
<1>9. ASSUME NEW t \in Threads, Grow(t) PROVE OrderOK'
  <2>1. \A u \in Threads : Owned(u)' = Owned(u) /\ Returned(u)' = Returned(u)
    BY <1>0, <1>9 DEF Grow, Goto, At, Owned, Returned
  <2>2. /\ Slots \subseteq Slots' /\ clock' = clock
        /\ \A s \in Slots : disk'.at[s] = disk.at[s]
        /\ \A s \in Slots' \ Slots :
             disk'.at[s].by = NoThread /\ disk'.at[s].stamp = NoStamp
    BY <1>9, GrowAppends DEF EmptyRecord, Grow
  <2>3. \A s \in Slots' : disk'.at[s].by \in Threads =>
          s \in Slots /\ disk'.at[s] = disk.at[s]
    BY <1>0, <2>2
  <2>4. \A s \in Slots' : NotLater(disk'.at[s].stamp, clock')
    BY <1>a, <2>2 DEF OrderOK
  <2> QED
    BY <2>1, <2>3, <2>4 DEF OrderOK
<1>10. ASSUME NEW t \in Threads, Store(t) PROVE OrderOK'
  <2> DEFINE c == cache[t]
  <2>1. /\ c \in Slots /\ pc[t] = "store"
        /\ cacheRemaining[t] > 0 /\ Owned(t) = c .. c + cacheRemaining[t] - 1
    BY <1>0, <1>10
    DEF Store, At, Reachable, Slots, BlockInv, TypeOK, Mappings, NULL, DiskOK, Owned
  <2>2. c \in Owned(t) /\ \A r \in Owned(t) : c <= r
    <3>1. c \in Nat /\ cacheRemaining[t] \in Nat
      BY <1>0, <2>1
    <3> HIDE DEF c
    <3> QED
      BY <2>1, <3>1
  <2>3. \A u \in Threads : Owned(u)' = Owned(u) /\ Returned(u)' = Returned(u)
    BY <1>0, <1>10 DEF Store, Goto, At, Owned, Returned
  <2>4. /\ Slots' = Slots /\ clock' = clock
        /\ disk'.at[c].by = t /\ disk'.at[c].n = calls[t]
        /\ disk'.at[c].stamp = disk.at[c].stamp
        /\ \A s \in Slots \ {c} : disk'.at[s] = disk.at[s]
    BY <1>0, <1>10, <2>1 DEF Store, Written, NewRecord, Slots, DiskOK
  <2>5. Returned(t) = calls[t] - 1 /\ calls[t] \in Nat
    BY <1>0, <2>1 DEF Returned
  <2>6. \A s \in Slots : disk.at[s].by = t => disk.at[s].n < calls[t]
    BY <1>0, <2>1, <2>5 DEF RecordsOK, Half
  <2> HIDE DEF c
  <2>7. \A s \in Slots' : NotLater(disk'.at[s].stamp, clock')
    BY <2>4 DEF OrderOK
  <2>8. \A u \in Threads : \A s \in Slots' : \A r \in Owned(u)' :
          disk'.at[s].by = u => s <= r
    BY <2>2, <2>3, <2>4 DEF OrderOK
  <2>9. ASSUME NEW u \in Threads, NEW s \in Slots, NEW r \in Slots,
               disk'.at[s].by = u, disk'.at[r].by = u, disk'.at[s].n < disk'.at[r].n
        PROVE  /\ s < r
               /\ disk'.at[r].n <= Returned(u) =>
                    NotLater(disk'.at[s].stamp, disk'.at[r].stamp)
    <3>1. CASE s = c
      <4>1. r # c /\ u = t
        BY <1>0, <2>4, <2>5, <2>9, <3>1
      <4> QED
        BY <1>0, <2>4, <2>5, <2>6, <2>9, <3>1, <4>1
    <3>2. CASE s # c /\ r = c
      <4>1. u = t /\ disk.at[s].by = t /\ disk'.at[r].n = calls[t]
        BY <2>4, <2>9, <3>2
      <4>2. s <= c
        BY <2>2, <4>1 DEF OrderOK
      <4>3. ~ (disk'.at[r].n <= Returned(u))
        BY <2>5, <4>1
      <4>4. s \in Int /\ c \in Int
        BY <2>1 DEF Slots
      <4>5. s < r
        BY <3>2, <4>2, <4>4
      <4> QED
        BY <4>3, <4>5
    <3>3. CASE s # c /\ r # c
      BY <2>4, <2>9, <3>3 DEF OrderOK
    <3> QED
      BY <3>1, <3>2, <3>3
  <2> QED
    BY <2>3, <2>4, <2>7, <2>8, <2>9 DEF OrderOK
<1>11. ASSUME NEW t \in Threads, Stamp(t) PROVE OrderOK'
  <2> DEFINE c == cache[t]
  <2>1. /\ c \in Slots /\ pc[t] = "stamp" /\ cacheRemaining[t] > 0
        /\ disk.at[c].by = t /\ disk.at[c].n = calls[t]
    BY <1>0, <1>11 DEF Stamp, At, RecordsOK, BlockInv, Holds
  <2>2. \A u \in Threads : Owned(u)' \subseteq Owned(u)
    BY <1>0, <1>11, <2>1 DEF Stamp, Goto, At, Owned, NextSlot, NULL, Caller
  <2>3. /\ \A u \in Threads : u # t => Returned(u)' = Returned(u)
        /\ Returned(t)' = calls[t] /\ Returned(t) = calls[t] - 1
        /\ calls[t] \in Nat
    BY <1>0, <1>11, <2>1 DEF Stamp, Goto, Returned, Caller
  <2>4. /\ Slots' = Slots /\ clock' = clock
        /\ \A s \in Slots : /\ disk'.at[s].by = disk.at[s].by
                            /\ disk'.at[s].n = disk.at[s].n
        /\ disk'.at[c].stamp = clock
        /\ \A s \in Slots \ {c} : disk'.at[s] = disk.at[s]
    BY <1>0, <1>11, <2>1 DEF Stamp, Written, Stamped, Slots, DiskOK
  <2>5. \A s \in Slots : disk.at[s].by = t => s = c \/ disk.at[s].n <= Returned(t)
    BY <1>0, <2>3 DEF RecordsOK, Half
  <2> HIDE DEF c
  <2>6. NotLater(clock, clock)
    BY <1>0 DEF NotLater, Stamps
  <2>7. \A s \in Slots' : NotLater(disk'.at[s].stamp, clock')
    BY <2>4, <2>6 DEF OrderOK
  <2>8. \A u \in Threads : \A s \in Slots' : \A r \in Owned(u)' :
          disk'.at[s].by = u => s <= r
    BY <2>2, <2>4 DEF OrderOK
  <2>9. ASSUME NEW u \in Threads, NEW s \in Slots, NEW r \in Slots,
               disk.at[s].by = u, disk.at[r].by = u, disk.at[s].n < disk.at[r].n
        PROVE  /\ s < r
               /\ disk.at[r].n <= Returned(u)' =>
                    NotLater(disk'.at[s].stamp, disk'.at[r].stamp)
    <3>1. s < r
      BY <2>9 DEF OrderOK
    <3>2. CASE r = c
      <4>1. s # c
        BY <1>0, <2>9, <3>2
      <4> QED
        BY <2>4, <3>1, <3>2, <4>1 DEF OrderOK
    <3>3. CASE r # c
      <4>1. s # c
        BY <1>0, <2>1, <2>3, <2>5, <2>9, <3>3
      <4>2. disk.at[r].n <= Returned(u)' => disk.at[r].n <= Returned(u)
        BY <2>3, <2>5, <2>9, <3>3
      <4> QED
        BY <2>4, <2>9, <3>1, <3>3, <4>1, <4>2 DEF OrderOK
    <3> QED
      BY <3>2, <3>3
  <2> QED
    BY <2>4, <2>7, <2>8, <2>9 DEF OrderOK
<1> QED
  BY <1>1, <1>2, <1>3, <1>4, <1>5, <1>6, <1>7, <1>8, <1>9, <1>10, <1>11,
     <1>b
  DEF Next, Step, Terminated

-----------------------------------------------------------------------------
(* The theorems.                                                            *)

\* What a thread is about to store to stays where it was, in an open log.
LEMMA NoFaultHere == LockInv /\ SizeInv /\ BlockInv => NoFault
BY StoresReachable DEF NoFault, Faulting

\* A step only adds records of calls that have begun.
LEMMA StepNoInvention ==
  LockInv /\ NoInvention /\ [Next]_vars => NoInvention'
<1> SUFFICES ASSUME LockInv, NoInvention, [Next]_vars,
                    NEW s \in Slots', disk'.at[s].by \in Threads
             PROVE  disk'.at[s].n <= calls'[disk'.at[s].by]
  BY DEF NoInvention
<1>0. /\ DiskOK /\ TypeOK /\ Untouched /\ NoThread \notin Threads
      /\ calls \in [Threads -> Nat]
      /\ \A r \in Slots : disk.at[r].n \in Nat
  BY LogMmapAssumption DEF LockInv, TypeOK, DiskOK, Slots, Records
<1>1. \A u \in Threads : calls'[u] >= calls[u] /\ calls'[u] \in Nat
  <2>1. CASE UNCHANGED calls
    BY <1>0, <2>1
  <2>2. ASSUME NEW t \in Threads, Call(t)
        PROVE  \A u \in Threads : calls'[u] >= calls[u] /\ calls'[u] \in Nat
    BY <1>0, <2>2 DEF Call
  <2> QED
    BY <2>1, <2>2
    DEF Next, Step, Construct, Detach, Tick, Terminated, Destruct, Claim, Check,
        Wait, Recheck, Grow, GrowFails, Abort, Post, Take, Store, Stamp, Fault,
        vars, threadVars
<1>2. CASE s \in Slots /\ disk'.at[s].by = disk.at[s].by /\ disk'.at[s].n = disk.at[s].n
  BY <1>0, <1>1, <1>2 DEF NoInvention
<1>3. CASE disk' = disk
  BY <1>2, <1>3 DEF Slots
<1>4. ASSUME NEW n \in Nat, disk' = TruncatedTo(n)
      PROVE  s \in Slots /\ disk'.at[s] = disk.at[s]
  BY <1>0, <1>4 DEF TruncatedTo, Slots, EmptyRecord, DiskOK
<1>5. ASSUME NEW t \in Threads, Grow(t)
      PROVE  disk'.at[s].n <= calls'[disk'.at[s].by]
  <2>1. GrownSize(t) \in Nat
    BY <1>0, LogMmapAssumption DEF TypeOK, GrownSize, RequiredSize
  <2> QED
    BY <1>2, <1>3, <1>4, <1>5, <2>1 DEF Grow, Ftruncate, Mremap, SetFileSize
<1>6. ASSUME NEW t \in Threads, Store(t)
      PROVE  disk'.at[s].n <= calls'[disk'.at[s].by]
  <2>1. s \in Slots /\ (s # cache[t] => disk'.at[s] = disk.at[s])
    BY <1>0, <1>6 DEF Store, Written, Slots, DiskOK
  <2>2. s = cache[t] => disk'.at[s].by = t /\ disk'.at[s].n = calls[t]
    BY <1>0, <1>6, <2>1 DEF Store, Written, NewRecord, Slots, DiskOK
  <2> QED
    BY <1>0, <1>1, <1>2, <2>1, <2>2
<1>7. ASSUME NEW t \in Threads, Stamp(t)
      PROVE  disk'.at[s].n <= calls'[disk'.at[s].by]
  <2>1. s \in Slots /\ disk'.at[s].by = disk.at[s].by /\ disk'.at[s].n = disk.at[s].n
    BY <1>0, <1>7 DEF Stamp, Stamped, Written, Slots, DiskOK
  <2> QED
    BY <1>2, <2>1
<1>8. CASE Construct
  <2>1. CASE OpenAndSize(GrowthQty)
    BY <1>0, <2>1 DEF OpenAndSize, Slots, EmptyRecord
  <2> QED
    BY <1>3, <1>8, <2>1 DEF Construct
<1>9. CASE \E t \in Threads : Step(t) /\ ~ Grow(t) /\ ~ Store(t) /\ ~ Stamp(t)
  BY <1>3, <1>9
  DEF Step, Claim, Check, Wait, Recheck, GrowFails, Abort, Post, Take, Fault, areaVars
<1>10. CASE UNCHANGED vars \/ Detach \/ Tick \/ \E t \in Threads : Call(t) \/ Destruct(t)
  BY <1>3, <1>10 DEF vars, Detach, Tick, Call, Destruct, MmapClose, areaVars
<1> QED
  BY <1>5, <1>6, <1>7, <1>8, <1>9, <1>10 DEF Next, Terminated

\* Every variable keeps its type, whatever the options are.
THEOREM TypeCorrect == Spec => []TypeOK
<1>1. Init => LockInv
  BY InitType DEF Init, AreaInit, LockInv, Untouched, Mutex, Holding, Critical, Growing
<1>2. LockInv /\ [Next]_vars => LockInv'
  BY StepLock
<1>3. LockInv => TypeOK
  BY DEF LockInv
<1> QED
  BY <1>1, <1>2, <1>3, PTL DEF Spec

\* The invariant holds when the process starts.
LEMMA InitIInv == Init => IInv
<1> SUFFICES ASSUME Init PROVE IInv
  OBVIOUS
<1>1. LockInv
  BY InitType DEF Init, AreaInit, LockInv, Untouched, Mutex, Holding, Critical, Growing
<1>2. Slots = {} /\ ~ area.fd
  BY DEF Init, AreaInit, Slots
<1>3. \A t \in Threads : Owned(t) = {}
  BY DEF Init, Owned, NULL, Claiming, Critical, Growing
<1>4. BlockInv
  BY <1>2, <1>3 DEF Init, BlockInv
<1>5. RecordInv /\ OrderInv /\ NoInvention
  BY <1>2, <1>3
  DEF Init, RecordInv, OrderInv, RecordsOK, OrderOK, NoInvention, EachCallLogged, Returned
<1> QED
  BY <1>1, <1>2, <1>4, <1>5 DEF Init, IInv, SizeInv, NoFault

\* The inductive invariant, for blocks of at least one slot.
THEOREM Invariance == ASSUME CacheQty > 0 PROVE Spec => []IInv
<1> DEFINE Layers == LockInv /\ SizeInv /\ BlockInv /\ NoInvention /\ RecordInv /\ OrderInv
<1>1. Init => Layers
  BY InitIInv DEF IInv
<1>2. Layers /\ [Next]_vars => Layers'
  BY StepLock, StepSize, StepBlock, StepNoInvention, StepRecord, StepOrder
<1>3. Layers => IInv
  BY NoFaultHere DEF IInv
<1> QED
  BY <1>1, <1>2, <1>3, PTL DEF Spec

\* No handler of an open log stores outside it, save in a thread whose resize
\* has failed.
THEOREM NoFaultCorrect == ASSUME CacheQty > 0 PROVE Spec => []NoFault
<1>1. IInv => NoFault
  BY DEF IInv
<1> QED
  BY <1>1, Invariance, PTL

\* Every call that returned has exactly one stamped record, until a resize
\* fails.
THEOREM EachCallLoggedCorrect == ASSUME CacheQty > 0 PROVE Spec => []EachCallLogged
<1>1. IInv => EachCallLogged
  BY DEF IInv, RecordInv, RecordsOK, EachCallLogged
<1> QED
  BY <1>1, Invariance, PTL

\* The analysis' sort keeps each thread's calls in program order.
THEOREM ProgramOrderCorrect == ASSUME CacheQty > 0 PROVE Spec => []ProgramOrder
<1>1. IInv => ProgramOrder
  <2> SUFFICES ASSUME IInv, Intact, NEW s \in Slots, NEW r \in Slots,
                      disk.at[s].by \in Threads, disk.at[s].by = disk.at[r].by,
                      disk.at[s].n < disk.at[r].n,
                      disk.at[r].n <= Returned(disk.at[r].by)
               PROVE  OlderThan(disk.at[s].stamp, s, disk.at[r].stamp, r)
    BY DEF ProgramOrder
  <2>1. disk.at[s].stamp \in Stamps /\ disk.at[r].stamp \in Stamps
    BY DEF IInv, LockInv, TypeOK, DiskOK, Records, Slots
  <2>2. s < r /\ NotLater(disk.at[s].stamp, disk.at[r].stamp)
    BY DEF IInv, OrderInv, OrderOK
  <2> QED
    BY <2>1, <2>2 DEF NotLater, OlderThan, Stamps
<1> QED
  BY <1>1, Invariance, PTL

\* The open log never shrinks, whatever the options are.
THEOREM SizeNeverShrinksCorrect == Spec => SizeNeverShrinks
<1> DEFINE Inv == LockInv /\ SizeInv
<1>1. Init => Inv
  BY InitType
  DEF Init, AreaInit, LockInv, Untouched, Mutex, Holding, Critical, Growing, SizeInv
<1>2. Inv /\ [Next]_vars => Inv'
  BY StepLock, StepSize
<1>3. Inv /\ [Next]_vars =>
        [area.fd /\ area'.fd =>
           /\ area'.fileSize >= area.fileSize
           /\ mapping'.hi >= mapping.hi
           /\ disk'.len >= disk.len]_vars
  <2> SUFFICES ASSUME LockInv, SizeInv, Next, area.fd, area'.fd
               PROVE  /\ area'.fileSize >= area.fileSize
                      /\ mapping'.hi >= mapping.hi
                      /\ disk'.len >= disk.len
    OBVIOUS
  <2>1. /\ area \in Areas /\ mapping \in Mappings /\ disk.len \in Nat
        /\ index \in [Threads -> Nat] /\ CacheQty \in Nat /\ GrowthQty \in Nat
    BY LogMmapAssumption DEF LockInv, TypeOK, DiskOK
  <2>2. CASE UNCHANGED <<area, mapping, disk.len>>
    BY <2>1, <2>2 DEF Areas, Mappings
  <2>3. ASSUME NEW t \in Threads, Grow(t)
        PROVE  /\ area'.fileSize >= area.fileSize
               /\ mapping'.hi >= mapping.hi
               /\ disk'.len >= disk.len
    <3>1. pc[t] \in Growing
      BY <2>3 DEF Grow, At, Growing
    <3>2. area.fileSize < GrownSize(t) /\ GrownSize(t) \in Nat
      BY <2>1, <3>1 DEF SizeInv, TooSmall, GrownSize, RequiredSize, Areas
    <3>3. CASE At(t, "truncate") /\ Ftruncate(GrownSize(t))
      <4>1. Intact /\ \A u \in Threads : pc[u] \notin {"remap", "publish"}
        BY <3>3 DEF At, LockInv, TypeOK, Mutex, Holding, Critical, Growing, Intact
      <4>2. disk.len = area.fileSize
        BY <4>1 DEF SizeInv
      <4> QED
        BY <2>1, <3>2, <3>3, <4>2 DEF Ftruncate, TruncatedTo, Areas, Mappings
    <3>4. CASE At(t, "remap") /\ Mremap(GrownSize(t))
      <4>1. \A u \in Threads : pc[u] # "publish"
        BY <3>4 DEF At, LockInv, Mutex, Holding, Critical, Growing
      <4>2. mapping.hi = area.fileSize /\ mapping'.hi = GrownSize(t)
        BY <2>1, <3>4, <4>1 DEF SizeInv, Mremap, Mappings
      <4> QED
        BY <2>1, <3>2, <3>4, <4>2 DEF Mremap, Areas
    <3>5. CASE At(t, "publish") /\ SetFileSize(GrownSize(t))
      <4>1. area'.fileSize = GrownSize(t)
        BY <2>1, <3>5 DEF SetFileSize, Areas
      <4> QED
        BY <2>1, <3>2, <3>5, <4>1 DEF SetFileSize, Areas, Mappings
    <3> QED
      BY <2>3, <3>3, <3>4, <3>5 DEF Grow
  <2>4. ASSUME NEW t \in Threads, Step(t), ~ Grow(t)
        PROVE  UNCHANGED <<area, mapping, disk.len>>
    BY <2>4
    DEF Step, Claim, Check, Wait, Recheck, GrowFails, Abort, Post, Take, Store, Stamp,
        Fault, areaVars, Written
  <2>5. ASSUME NEW t \in Threads, Call(t)
        PROVE  UNCHANGED <<area, mapping, disk.len>>
    BY <2>5 DEF Call, areaVars
  <2>6. ~ Construct /\ ~ \E t \in Threads : Destruct(t)
    BY <2>1 DEF Construct, Destruct, MmapClose, Areas, LockInv, Untouched
  <2>7. CASE Detach \/ Tick \/ Terminated
    BY <2>2, <2>7 DEF Detach, Tick, Terminated, areaVars, vars
  <2> QED
    BY <2>2, <2>3, <2>4, <2>5, <2>6, <2>7 DEF Next
<1> QED
  BY <1>1, <1>2, <1>3, PTL DEF Spec, SizeNeverShrinks

-----------------------------------------------------------------------------
(* LogMmap implements CallLog.                                              *)

\* Membership in the set of logged calls.
LEMMA LoggedCallsDef ==
  \A x : x \in LoggedCalls <=>
    \E s \in Slots : disk.at[s].by # NoThread /\ x = <<disk.at[s].by, disk.at[s].n>>
BY DEF LoggedCalls

\* A step that keeps the records of all slots, or appends empty ones, keeps
\* the entries.
LEMMA SameEntries ==
  ASSUME Slots \subseteq Slots',
         \A s \in Slots : /\ disk'.at[s].by = disk.at[s].by
                          /\ disk'.at[s].n = disk.at[s].n,
         \A s \in Slots' \ Slots : disk'.at[s].by = NoThread
  PROVE  LoggedCalls' = LoggedCalls
<1>1. ASSUME NEW x PROVE x \in LoggedCalls' <=> x \in LoggedCalls
  BY LoggedCallsDef DEF LoggedCalls
<1> QED
  BY <1>1

\* The log starts empty.
LEMMA InitAbstract == Init => Abstract!Init
<1> SUFFICES ASSUME Init PROVE Abstract!Init
  OBVIOUS
<1>1. Slots = {}
  BY DEF Init, AreaInit, Slots
<1> QED
  BY <1>1 DEF Init, Abstract!Init, Ended, LoggedCalls, Busy, Intact

\* Until a resize fails every step of LogMmap is one of CallLog or changes
\* nothing it sees.
LEMMA IntactAbstract ==
  ASSUME CacheQty > 0
  PROVE  IInv /\ Next /\ Intact /\ Intact' => [Abstract!Next]_(Abstract!vars)
<1> SUFFICES ASSUME IInv, Next, failing = {}, failing' = {}
             PROVE  Abstract!Next \/ UNCHANGED Abstract!vars
  BY DEF Intact
<1> USE DEF Abstract!vars, Intact
<1>0. /\ LockInv /\ SizeInv /\ BlockInv /\ RecordsOK /\ Untouched
      /\ pc \in [Threads -> Labels] /\ calls \in [Threads -> Nat]
      /\ Slots \subseteq Nat /\ DiskOK
  BY DEF IInv, RecordInv, LockInv, TypeOK, DiskOK, Slots
<1>1. CASE Construct
  <2>1. LoggedCalls' = LoggedCalls
    <3>1. CASE OpenAndSize(GrowthQty)
      BY <1>0, <1>1, <3>1, SameEntries
      DEF Construct, OpenAndSize, Untouched, Slots, EmptyRecord
    <3>2. CASE UNCHANGED disk
      BY <3>2 DEF LoggedCalls, Slots
    <3> QED
      BY <1>1, <3>1, <3>2 DEF Construct
  <2>2. UNCHANGED <<pc, calls>> /\ phase = "loading" /\ phase' \in {"running", "aborted"}
    BY <1>1 DEF Construct, threadVars
  <2> QED
    BY <2>1, <2>2 DEF Abstract!Next, Abstract!Die, Ended, Busy
<1>2. CASE Detach
  <2>1. UNCHANGED <<LoggedCalls, pc, calls>>
    BY <1>2 DEF Detach, areaVars, threadVars, LoggedCalls, Slots
  <2>2. phase \notin Ended
    BY <1>2 DEF Detach, Ended
  <2> QED
    BY <2>1, <2>2 DEF Abstract!Next, Abstract!Die, Busy
<1>3. CASE Tick \/ UNCHANGED vars
  BY <1>3 DEF Tick, vars, areaVars, threadVars, LoggedCalls, Slots, Busy
<1>b. ~ \E t \in Threads : GrowFails(t)
  BY DEF GrowFails
<1>4. ASSUME NEW t \in Threads, Abort(t) \/ Fault(t)
      PROVE  Abstract!Next \/ UNCHANGED Abstract!vars
  <2>1. UNCHANGED <<LoggedCalls, pc, calls>>
    BY <1>4 DEF Abort, Fault, areaVars, threadVars, LoggedCalls, Slots
  <2>2. phase \notin Ended /\ phase' \in Ended
    BY <1>4 DEF Abort, Fault, At, Running, Ended
  <2> QED
    BY <2>1, <2>2 DEF Abstract!Next, Abstract!Die, Busy
<1>5. ASSUME NEW t \in Threads, Call(t)
      PROVE  Abstract!Next \/ UNCHANGED Abstract!vars
  <2>1. LoggedCalls' = LoggedCalls /\ phase' = phase /\ phase \notin Ended
    BY <1>5 DEF Call, areaVars, LoggedCalls, Slots, Ended
  <2>2. t \notin Busy /\ Busy' = Busy \union {t}
    BY <1>0, <1>5 DEF Call, Caller, Goto, Busy
  <2>3. calls[t] < MaxCalls /\ calls' = [calls EXCEPT ![t] = @ + 1]
    BY <1>0, <1>5, LogMmapAssumption DEF Call
  <2> QED
    BY <2>1, <2>2, <2>3 DEF Abstract!Next, Abstract!Begin, Busy
<1>6. ASSUME NEW t \in Threads,
             Claim(t) \/ Check(t) \/ Wait(t) \/ Recheck(t) \/ Post(t) \/ Take(t)
               \/ Destruct(t)
      PROVE  Abstract!Next \/ UNCHANGED Abstract!vars
  <2>1. LoggedCalls' = LoggedCalls /\ UNCHANGED calls
    BY <1>6
    DEF Claim, Check, Wait, Recheck, Post, Take, Destruct, MmapClose, areaVars,
        LoggedCalls, Slots
  <2>2. (phase \notin Ended)' = (phase \notin Ended)
    BY <1>6
    DEF Claim, Check, Wait, Recheck, Post, Take, Destruct, At, Running, Ended
  <2>3. Busy' = Busy
    BY <1>0, <1>6
    DEF Claim, Check, Wait, Recheck, Post, Take, Destruct, At, Goto, Busy
  <2> QED
    BY <2>1, <2>2, <2>3 DEF Busy
<1>7. ASSUME NEW t \in Threads, Grow(t)
      PROVE  Abstract!Next \/ UNCHANGED Abstract!vars
  <2>1. LoggedCalls' = LoggedCalls
    <3>1. /\ Slots \subseteq Slots'
          /\ \A s \in Slots : disk'.at[s] = disk.at[s]
          /\ \A s \in Slots' \ Slots : disk'.at[s].by = NoThread
      BY <1>0, <1>7, GrowAppends DEF EmptyRecord
    <3> QED
      BY <3>1, SameEntries
  <2>2. UNCHANGED <<phase, calls>> /\ Busy' = Busy
    BY <1>0, <1>7 DEF Grow, At, Goto, Busy
  <2> QED
    BY <2>1, <2>2 DEF Busy
<1>8. ASSUME NEW t \in Threads, Store(t)
      PROVE  Abstract!Next \/ UNCHANGED Abstract!vars
  <2> DEFINE c == cache[t]
  <2>1. /\ c \in Slots /\ pc[t] = "store" /\ disk.at[c].by = NoThread
    <3>1. pc[t] = "store" /\ cacheRemaining[t] > 0 /\ c \in Slots
      BY <1>0, <1>8
      DEF Store, At, Reachable, Slots, BlockInv, LockInv, TypeOK, Mappings, NULL, DiskOK
    <3>2. /\ c \in Nat /\ cacheRemaining[t] \in Nat
          /\ Owned(t) = c .. c + cacheRemaining[t] - 1
      BY <1>0, <3>1 DEF Owned, LockInv, TypeOK, Claiming, Critical, Growing
    <3>3. c \in Owned(t)
      BY <3>1, <3>2
    <3> QED
      BY <1>0, <3>1, <3>3 DEF RecordsOK, Half
  <2>2. /\ Slots' = Slots /\ disk'.at[c].by = t /\ disk'.at[c].n = calls[t]
        /\ \A s \in Slots \ {c} : disk'.at[s] = disk.at[s]
    BY <1>0, <1>8, <2>1 DEF Store, Written, NewRecord, Slots, DiskOK
  <2> HIDE DEF c
  <2>3. LoggedCalls' = LoggedCalls \union {<<t, calls[t]>>}
    <3>1. t # NoThread
      BY LogMmapAssumption
    <3>2. ASSUME NEW x PROVE x \in LoggedCalls' <=> x \in LoggedCalls \/ x = <<t, calls[t]>>
      <4>1. x \in LoggedCalls' <=>
              \E s \in Slots : disk'.at[s].by # NoThread
                               /\ x = <<disk'.at[s].by, disk'.at[s].n>>
        BY <2>2 DEF LoggedCalls
      <4>2. x \in LoggedCalls <=>
              \E s \in Slots : disk.at[s].by # NoThread
                               /\ x = <<disk.at[s].by, disk.at[s].n>>
        BY LoggedCallsDef
      <4> QED
        BY <2>1, <2>2, <3>1, <4>1, <4>2
    <3> QED
      BY <3>2
  <2>4. UNCHANGED <<phase, calls>> /\ phase \notin Ended /\ t \in Busy /\ Busy' = Busy
    BY <1>0, <1>8, <2>1 DEF Store, At, Goto, Busy, Running, Ended
  <2> QED
    BY <2>3, <2>4 DEF Abstract!Next, Abstract!Enter, Abstract!Current, Busy
<1>9. ASSUME NEW t \in Threads, Stamp(t)
      PROVE  Abstract!Next \/ UNCHANGED Abstract!vars
  <2> DEFINE c == cache[t]
  <2>1. /\ c \in Slots /\ pc[t] = "stamp"
        /\ disk.at[c].by = t /\ disk.at[c].n = calls[t]
    BY <1>0, <1>9 DEF Stamp, At, RecordsOK, Holds
  <2>2. /\ Slots' = Slots
        /\ \A s \in Slots : /\ disk'.at[s].by = disk.at[s].by
                            /\ disk'.at[s].n = disk.at[s].n
    BY <1>0, <1>9, <2>1 DEF Stamp, Written, Stamped, Slots, DiskOK
  <2>3. LoggedCalls' = LoggedCalls
    BY <2>2, SameEntries
  <2>4. <<t, calls[t]>> \in LoggedCalls
    BY <2>1, LoggedCallsDef, LogMmapAssumption
  <2>5. /\ UNCHANGED <<phase, calls>> /\ phase \notin Ended
        /\ t \in Busy /\ Busy' = Busy \ {t}
    BY <1>0, <1>9, <2>1 DEF Stamp, At, Goto, Caller, Busy, Running, Ended
  <2> QED
    BY <2>3, <2>4, <2>5 DEF Abstract!Next, Abstract!Return, Abstract!Current, Busy
<1> QED
  BY <1>1, <1>2, <1>3, <1>4, <1>5, <1>6, <1>7, <1>8, <1>9,
     <1>b
  DEF Next, Step, Terminated

\* A resize that fails breaks the promise; nothing else changes with it.
LEMMA BreakAbstract ==
  IInv /\ Next /\ Intact /\ ~ Intact' => Abstract!Next
<1> SUFFICES ASSUME IInv, Next, Intact, ~ Intact'
             PROVE  Abstract!Break
  BY DEF Abstract!Next
<1>1. PICK t \in Threads : GrowFails(t)
  <2>1. CASE \E t \in Threads : Step(t) /\ ~ GrowFails(t)
    BY <2>1
    DEF Step, Claim, Check, Wait, Recheck, Grow, Abort, Post, Take, Store, Stamp,
        Fault, threadVars, Intact
  <2>2. CASE Construct \/ Detach \/ Tick \/ Terminated
    BY <2>2 DEF Construct, Detach, Tick, Terminated, vars, threadVars, Intact
  <2>3. CASE \E t \in Threads : Call(t) \/ Destruct(t)
    BY <2>3 DEF Call, Destruct, Intact
  <2> QED
    BY <2>1, <2>2, <2>3 DEF Next
<1>2. LoggedCalls' = LoggedCalls /\ UNCHANGED <<phase, calls>> /\ phase \notin Ended
  BY <1>1 DEF GrowFails, At, areaVars, LoggedCalls, Slots, Running, Ended
<1>3. Busy' = Busy
  BY <1>1 DEF GrowFails, At, Goto, Busy, IInv, LockInv, TypeOK
<1> QED
  BY <1>2, <1>3 DEF Abstract!Break

\* What calls do while the process is about to abort invents no entry.
LEMMA SpoilAbstract ==
  IInv /\ Next /\ ~ Intact => [Abstract!Next]_(Abstract!vars)
<1> SUFFICES ASSUME IInv, Next, ~ Intact
             PROVE  Abstract!Spoil \/ UNCHANGED Abstract!vars
  BY DEF Abstract!Next
<1>0. LockInv /\ NoInvention /\ calls \in [Threads -> Nat]
  BY DEF IInv, LockInv, TypeOK
<1>1. ~ Intact' /\ NoInvention' /\ TypeOK'
  BY <1>0, StaysIntact, StepNoInvention, StepType
<1>2. CASE phase \in Ended
  <2>1. ~ (Construct \/ Detach \/ Tick \/ \E t \in Threads : Call(t) \/ Destruct(t))
    BY <1>2 DEF Construct, Detach, Tick, Call, Destruct, Ended, Running
  <2>2. ~ \E t \in Threads : Step(t)
    BY <1>2
    DEF Step, Claim, Check, Wait, Recheck, Grow, GrowFails, Abort, Post, Take, Store,
        Stamp, Fault, At, Ended, Running
  <2>3. UNCHANGED vars
    BY <2>1, <2>2 DEF Next, Terminated
  <2> QED
    BY <2>3
    DEF vars, areaVars, threadVars, Abstract!vars, LoggedCalls, Slots, Busy, Intact
<1>3. CASE phase \notin Ended
  <2>1. \A t \in Threads : calls'[t] >= calls[t]
    <3>1. CASE UNCHANGED calls
      BY <1>0, <3>1
    <3>2. ASSUME NEW t \in Threads, Call(t)
          PROVE  \A u \in Threads : calls'[u] >= calls[u]
      BY <1>0, <3>2 DEF Call
    <3> QED
      BY <3>1, <3>2
      DEF Next, Step, Construct, Detach, Tick, Terminated, Destruct, Claim, Check,
          Wait, Recheck, Grow, GrowFails, Abort, Post, Take, Store, Stamp, Fault,
          vars, threadVars
  <2>2. \A e \in LoggedCalls' : e[1] \in Threads /\ e[2] <= calls'[e[1]]
    <3> SUFFICES ASSUME NEW s \in Slots', disk'.at[s].by # NoThread
                 PROVE  disk'.at[s].by \in Threads /\ disk'.at[s].n <= calls'[disk'.at[s].by]
      BY DEF LoggedCalls
    <3>1. disk'.at[s].by \in Threads
      BY <1>1 DEF TypeOK, DiskOK, Slots, Records
    <3> QED
      BY <1>1, <3>1 DEF NoInvention
  <2> QED
    <3>1. (phase' \notin Ended) \in BOOLEAN /\ Intact = FALSE /\ Intact' = FALSE
      BY <1>1
    <3> QED
      BY <1>3, <2>1, <2>2, <3>1 DEF Abstract!Spoil
<1> QED
  BY <1>2, <1>3

\* Every step of LogMmap is one of CallLog or changes nothing it sees.
LEMMA StepAbstract ==
  ASSUME CacheQty > 0
  PROVE  IInv /\ [Next]_vars => [Abstract!Next]_(Abstract!vars)
<1>1. UNCHANGED vars => UNCHANGED Abstract!vars
  BY DEF vars, areaVars, threadVars, Abstract!vars, LoggedCalls, Slots, Busy, Intact
<1> QED
  BY <1>1, IntactAbstract, BreakAbstract, SpoilAbstract

\* The log of slots and blocks implements the append-only log of calls, whose
\* promise ends with the first resize that fails.
THEOREM Refinement == ASSUME CacheQty > 0 PROVE Spec => ImplementsCallLog
<1>1. Init => Abstract!Init
  BY InitAbstract
<1>2. IInv /\ [Next]_vars => [Abstract!Next]_(Abstract!vars)
  BY StepAbstract
<1> QED
  BY <1>1, <1>2, Invariance, PTL DEF Spec, ImplementsCallLog, Abstract!Spec
=============================================================================
