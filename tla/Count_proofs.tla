---------------------------- MODULE Count_proofs ----------------------------
(***************************************************************************)
(* Proofs about Count, for every set of threads and kinds, every range of   *)
(* labels and every bound.  The lemmas prove the layers of IInv one by one. *)
(***************************************************************************)
EXTENDS CountInv, TLAPS

\* The places in a handler, written out for the provers.
LEMMA LabelFacts ==
  {"app", "claim", "check", "wait", "label", "bump", "exit",
   "recheck", "post", "truncate", "remap", "publish", "perror"} = Labels
BY DEF Labels, Critical, Growing

\* The phases of the process, written out for the provers.
LEMMA PhaseFacts ==
  {"loading", "running", "closed", "detached", "exited", "aborted", "faulted"}
    = Phases
BY DEF Phases, Running, Ended

\* An unused slot is a record that counts nothing.
LEMMA EmptyFacts ==
  /\ EmptyCounts \in Records /\ EmptyCounts.n = ZeroCounts
  /\ ZeroCounts \in [Kinds -> Nat]
<1>1. ZeroCounts \in [Kinds -> Nat]
  BY DEF ZeroCounts
<1> QED
  BY <1>1, CountAssumption DEF EmptyCounts, Records

\* A store and a resize leave the file well formed.
LEMMA StoreTypes ==
  ASSUME DiskOK, NEW s \in Slots, NEW r \in Records, disk' = Written(s, r)
  PROVE  DiskOK'
BY DEF DiskOK, Written, Slots

\* A resize leaves the file well formed.
LEMMA ResizeTypes ==
  ASSUME DiskOK, NEW n \in Nat, disk' = TruncatedTo(n)
  PROVE  DiskOK'
<1>1. disk'.at = [i \in 0 .. n-1 |-> IF i < disk.len THEN disk.at[i] ELSE EmptyCounts]
  BY DEF TruncatedTo
<1>2. \A i \in 0 .. n-1 : i < disk.len => disk.at[i] \in Records
  BY DEF DiskOK
<1> QED
  BY <1>1, <1>2, EmptyFacts DEF DiskOK, TruncatedTo

\* One more call makes tallies of tallies.
LEMMA OneMoreType ==
  ASSUME NEW n \in [Kinds -> Nat], NEW k \in Kinds
  PROVE  OneMore(n, k) \in [Kinds -> Nat]
BY DEF OneMore

\* The records a handler builds are records.
LEMMA RecordTypes ==
  ASSUME TypeOK, NEW t \in Threads, NEW r \in Records
  PROVE  /\ Labelled(t, r) \in Records /\ Labelled(t, r).n = r.n
         /\ \A k \in Kinds :
              /\ Added(r, k) \in Records
              /\ Added(r, k).n = OneMore(r.n, k)
<1>1. mmapIndex[t] % LabelRange \in 0 .. LabelRange - 1
  BY CountAssumption DEF TypeOK
<1>2. Labelled(t, r) \in Records /\ Labelled(t, r).n = r.n
  BY <1>1 DEF Labelled, Records
<1>3. ASSUME NEW k \in Kinds
      PROVE  /\ Added(r, k) \in Records
             /\ Added(r, k).n = OneMore(r.n, k)
  <2>1. OneMore(r.n, k) \in [Kinds -> Nat]
    BY OneMoreType DEF Records
  <2> QED
    BY <2>1 DEF Added, Records
<1> QED
  BY <1>2, <1>3

\* The initial state is well typed.
LEMMA InitType == Init => TypeOK
<1> SUFFICES ASSUME Init PROVE TypeOK
  OBVIOUS
<1>1. DiskOK
  BY DEF Init, AreaInit, DiskOK
<1>2. area \in Areas /\ mapping \in Mappings
  BY DEF Init, AreaInit, Areas, Mappings
<1> QED
  BY <1>1, <1>2, LabelFacts, PhaseFacts, EmptyFacts DEF Init, TypeOK, NULL

\* Every step keeps the types; that sem stays below two needs the lock.
LEMMA StepType == LockInv /\ [Next]_vars => TypeOK'
<1> SUFFICES ASSUME LockInv, [Next]_vars PROVE TypeOK'
  OBVIOUS
<1> USE DEF TypeOK
<1>0. TypeOK /\ Untouched /\ Mutex /\ InCall
  BY DEF LockInv
<1>1. CASE Construct
  <2>1. CASE OpenAndSize(1) /\ phase' = "running"
    <3>1. DiskOK'
      BY <2>1, EmptyFacts DEF OpenAndSize, DiskOK
    <3>2. area' \in Areas /\ mapping' \in Mappings
      BY <2>1 DEF OpenAndSize, Areas, Mappings
    <3> QED
      BY <1>0, <1>1, <2>1, <3>1, <3>2, PhaseFacts DEF Construct, SemInit, threadVars
  <2>2. CASE phase' = "aborted" /\ UNCHANGED areaVars
    BY <1>0, <1>1, <2>2, PhaseFacts
    DEF Construct, SemInit, areaVars, threadVars, DiskOK
  <2> QED
    BY <1>1, <2>1, <2>2 DEF Construct
<1>2. CASE Detach
  BY <1>0, <1>2, PhaseFacts DEF Detach, areaVars, threadVars, DiskOK
<1>3. CASE UNCHANGED vars
  BY <1>0, <1>3 DEF vars, areaVars, threadVars, DiskOK
<1>4. ASSUME NEW t \in Threads, NEW k \in Kinds, Call(t, k) PROVE TypeOK'
  <2>1. OneMore(calls[t], k) \in [Kinds -> Nat]
    BY <1>0, OneMoreType
  <2> QED
    <3>1. calls' \in [Threads -> [Kinds -> Nat]]
      BY <1>0, <1>4, <2>1 DEF Call
    <3>2. pc' \in [Threads -> Labels]
      BY <1>0, <1>4, LabelFacts DEF Call, Goto
    <3>3. kind' \in [Threads -> Kinds \union {NoKind}]
      BY <1>0, <1>4 DEF Call
    <3> QED
      BY <1>0, <1>4, <3>1, <3>2, <3>3 DEF Call, areaVars, DiskOK
<1>5. ASSUME NEW t \in Threads, Destruct(t) PROVE TypeOK'
  <2>1. area' \in Areas /\ mapping' \in Mappings
    BY <1>0, <1>5 DEF Destruct, MmapClose, Areas, Mappings
  <2> QED
    BY <1>0, <1>5, <2>1, LabelFacts, PhaseFacts
    DEF Destruct, MmapClose, Goto, DiskOK
<1>6. ASSUME NEW t \in Threads, Claim(t) PROVE TypeOK'
  BY <1>0, <1>6, LabelFacts DEF Claim, areaVars, Goto, DiskOK, NextThreadID
<1>7. ASSUME NEW t \in Threads, Check(t) PROVE TypeOK'
  BY <1>0, <1>7, LabelFacts DEF Check, areaVars, Goto, DiskOK
<1>8. ASSUME NEW t \in Threads, Wait(t) PROVE TypeOK'
  BY <1>0, <1>8, LabelFacts DEF Wait, areaVars, Goto, DiskOK
<1>9. ASSUME NEW t \in Threads, Recheck(t) PROVE TypeOK'
  BY <1>0, <1>9, LabelFacts DEF Recheck, areaVars, Goto, DiskOK
<1>10. ASSUME NEW t \in Threads, Grow(t) PROVE TypeOK'
  <2>1. MinSize(t) \in Nat
    BY <1>0 DEF MinSize
  <2>2. CASE Ftruncate(MinSize(t)) /\ Goto(t, "remap")
    <3>1. DiskOK'
      BY <1>0, <2>1, <2>2, ResizeTypes DEF Ftruncate
    <3> QED
      BY <1>0, <1>10, <2>2, <3>1, LabelFacts DEF Grow, Goto, Ftruncate
  <2>3. CASE Mremap(MinSize(t)) /\ Goto(t, "publish")
    <3>1. mapping' \in Mappings
      BY <1>0, <2>1, <2>3 DEF Mremap, Mappings
    <3> QED
      BY <1>0, <1>10, <2>3, <3>1, LabelFacts DEF Grow, Goto, Mremap, DiskOK
  <2>4. CASE SetFileSize(MinSize(t)) /\ Goto(t, "post")
    <3>1. area' \in Areas
      BY <1>0, <2>1, <2>4 DEF SetFileSize, Areas
    <3> QED
      BY <1>0, <1>10, <2>4, <3>1, LabelFacts DEF Grow, Goto, SetFileSize, DiskOK
  <2> QED
    BY <1>10, <2>2, <2>3, <2>4 DEF Grow
<1>11. ASSUME NEW t \in Threads, GrowFails(t) \/ Fault(t) PROVE TypeOK'
  BY <1>0, <1>11, PhaseFacts DEF GrowFails, Fault, areaVars, threadVars, DiskOK
<1>15. ASSUME NEW t \in Threads, PerrorHangs(t) PROVE TypeOK'
  BY <1>0, <1>15, LabelFacts DEF PerrorHangs, areaVars, Goto, DiskOK, NextThreadID
<1>12. ASSUME NEW t \in Threads, Post(t) PROVE TypeOK'
  <2>1. sem' \in 0 .. 1
    BY <1>0, <1>12 DEF Post, At, Mutex, Critical
  <2> QED
    BY <1>0, <1>12, <2>1, LabelFacts DEF Post, areaVars, Goto, DiskOK
<1>13. ASSUME NEW t \in Threads, Label(t) PROVE TypeOK'
  <2>1. mmapIndex[t] \in Slots /\ disk.at[mmapIndex[t]] \in Records
    BY <1>0, <1>13 DEF Label, Reachable, Slots, DiskOK
  <2>2. DiskOK'
    BY <1>0, <1>13, <2>1, StoreTypes, RecordTypes DEF Label
  <2> QED
    BY <1>0, <1>13, <2>2, LabelFacts DEF Label, Goto
<1>14. ASSUME NEW t \in Threads, Bump(t) PROVE TypeOK'
  <2> DEFINE s == mprofLocalCounts[t]
  <2>1. s \in Slots /\ disk.at[s] \in Records
    BY <1>0, <1>14 DEF Bump, Reachable, Slots, DiskOK, Mappings, NULL
  <2>3. kind[t] \in Kinds
    BY <1>0, <1>14 DEF Bump, At, InCall
  <2>2. DiskOK'
    BY <1>0, <1>14, <2>1, <2>3, StoreTypes, RecordTypes DEF Bump
  <2> QED
    BY <1>0, <1>14, <2>2, LabelFacts DEF Bump, Goto
<1> QED
  BY <1>1, <1>2, <1>3, <1>4, <1>5, <1>6, <1>7, <1>8, <1>9, <1>10, <1>11,
     <1>12, <1>13, <1>14, <1>15
  DEF Next, Step, Terminated

\* No handler, and nothing else but the constructor, runs while loading.
LEMMA StepUntouched == LockInv /\ [Next]_vars => Untouched'
<1> SUFFICES ASSUME LockInv, [Next]_vars PROVE Untouched'
  OBVIOUS
<1>1. CASE UNCHANGED vars
  BY <1>1 DEF vars, areaVars, threadVars, LockInv, Untouched
<1>2. CASE Next /\ ~ UNCHANGED vars
  <2>1. phase' # "loading"
    <3>1. CASE \E t \in Threads : Step(t)
      BY <3>1 DEF Step, Claim, Check, Wait, Recheck, Grow, GrowFails, PerrorHangs, Post,
                  Label, Bump, Fault, At, Running
    <3>2. CASE \E t \in Threads : Destruct(t) \/ \E k \in Kinds : Call(t, k)
      BY <3>2 DEF Call, Destruct
    <3> QED
      BY <1>2, <3>1, <3>2 DEF Next, Construct, Detach, Terminated
  <2> QED
    BY <2>1 DEF Untouched
<1> QED
  BY <1>1, <1>2

\* sem_wait and sem_post keep the critical section to one thread.
LEMMA StepMutex == LockInv /\ [Next]_vars => Mutex' /\ InCall'
<1> SUFFICES ASSUME LockInv, [Next]_vars PROVE Mutex' /\ InCall'
  OBVIOUS
<1> USE CountAssumption DEF Mutex, InCall, Critical, Growing
<1>0. /\ pc \in [Threads -> Labels] /\ sem \in 0 .. 1
      /\ kind \in [Threads -> Kinds \union {NoKind}]
      /\ Untouched /\ Mutex /\ InCall
  BY DEF LockInv, TypeOK
<1>1. CASE Construct
  BY <1>0, <1>1 DEF Construct, threadVars, Untouched, SemInit
<1>2. CASE Detach \/ UNCHANGED vars
  BY <1>0, <1>2 DEF Detach, vars, threadVars
<1>3. ASSUME NEW t \in Threads,
             Destruct(t) \/ Claim(t) \/ Check(t) \/ Label(t) \/ Bump(t)
      PROVE  Mutex' /\ InCall'
  BY <1>0, <1>3 DEF Destruct, Claim, Check, Label, Bump, Goto, At
<1>4. ASSUME NEW t \in Threads, NEW k \in Kinds, Call(t, k)
      PROVE  Mutex' /\ InCall'
  BY <1>0, <1>4 DEF Call, Goto
<1>5. ASSUME NEW t \in Threads, Fault(t) \/ GrowFails(t)
      PROVE  Mutex' /\ InCall'
  BY <1>0, <1>5 DEF Fault, GrowFails, threadVars
<1>10. ASSUME NEW t \in Threads, PerrorHangs(t) PROVE Mutex' /\ InCall'
  BY <1>0, <1>10 DEF PerrorHangs, Goto, At
<1>6. ASSUME NEW t \in Threads, Wait(t) PROVE Mutex' /\ InCall'
  BY <1>0, <1>6 DEF Wait, Goto, At
<1>7. ASSUME NEW t \in Threads, Recheck(t) PROVE Mutex' /\ InCall'
  BY <1>0, <1>7 DEF Recheck, Goto, At
<1>8. ASSUME NEW t \in Threads, Grow(t) PROVE Mutex' /\ InCall'
  BY <1>0, <1>8 DEF Grow, Goto, At
<1>9. ASSUME NEW t \in Threads, Post(t) PROVE Mutex' /\ InCall'
  BY <1>0, <1>9 DEF Post, Goto, At
<1> QED
  BY <1>1, <1>2, <1>3, <1>4, <1>5, <1>6, <1>7, <1>8, <1>9, <1>10
  DEF Next, Step, Terminated

\* The lock's layer of the invariant is inductive by itself.
LEMMA StepLock == LockInv /\ [Next]_vars => LockInv'
BY StepType, StepUntouched, StepMutex DEF LockInv

-----------------------------------------------------------------------------
(* The sizes of the open file.                                              *)

\* A resize keeps file, mapping and fileSize in step, the others leave them.
LEMMA StepSize == LockInv /\ SizeInv /\ [Next]_vars => SizeInv'
<1> SUFFICES ASSUME LockInv, SizeInv, [Next]_vars, area'.fd PROVE SizeInv'
  BY DEF SizeInv
<1> USE DEF TooSmall, MinSize
<1>0. /\ TypeOK /\ Untouched /\ Mutex
      /\ area \in Areas /\ mapping \in Mappings /\ disk.len \in Nat
      /\ pc \in [Threads -> Labels] /\ mmapIndex \in [Threads -> Nat]
  BY DEF LockInv, TypeOK, DiskOK
<1>1. CASE Construct
  <2>1. OpenAndSize(1) /\ \A t \in Threads : pc'[t] = "app"
    BY <1>0, <1>1 DEF Construct, Untouched, threadVars, areaVars
  <2>2. /\ area'.fd /\ area'.base /\ area'.fileSize = 1
        /\ mapping'.lo = 0 /\ mapping'.hi = 1 /\ disk'.len = 1
    BY <2>1 DEF OpenAndSize
  <2> QED
    BY <2>1, <2>2 DEF SizeInv, Growing
<1>2. CASE Detach \/ UNCHANGED vars
  BY <1>2 DEF Detach, vars, areaVars, threadVars, SizeInv
<1>3. ASSUME NEW t \in Threads, Claim(t) \/ Check(t) \/ Wait(t) \/ Post(t)
      PROVE  SizeInv'
  BY <1>0, <1>3 DEF Claim, Check, Wait, Post, Goto, At, areaVars, SizeInv, Growing
<1>4. ASSUME NEW t \in Threads, NEW k \in Kinds, Call(t, k) PROVE SizeInv'
  BY <1>0, <1>4 DEF Call, Goto, areaVars, SizeInv, Growing
<1>5. ASSUME NEW t \in Threads, GrowFails(t) \/ Fault(t) PROVE SizeInv'
  BY <1>5 DEF GrowFails, Fault, areaVars, threadVars, SizeInv
<1>10. ASSUME NEW t \in Threads, PerrorHangs(t) PROVE SizeInv'
  <2>1. pc[t] \in Growing /\ \A u \in Threads : pc[u] \in Critical => u = t
    BY <1>0, <1>10 DEF PerrorHangs, At, Mutex, Critical, Growing
  <2> QED
    BY <1>0, <1>10, <2>1
    DEF PerrorHangs, At, Goto, areaVars, SizeInv, Critical, Growing, Areas, Mappings
<1>6. ASSUME NEW t \in Threads, Recheck(t) PROVE SizeInv'
  BY <1>0, <1>6 DEF Recheck, Goto, At, areaVars, SizeInv, Growing
<1>7. ASSUME NEW t \in Threads, Label(t) \/ Bump(t) PROVE SizeInv'
  <2>1. disk'.len = disk.len /\ UNCHANGED <<area, mapping, mmapIndex>>
    BY <1>7 DEF Label, Bump, Written
  <2> QED
    BY <1>0, <1>7, <2>1 DEF Label, Bump, Goto, At, SizeInv, Growing
<1>8. ASSUME NEW t \in Threads, Destruct(t) PROVE SizeInv'
  <2>1. ~ area'.fd
    BY <1>0, <1>8 DEF Destruct, MmapClose, Areas
  <2> QED
    BY <2>1
<1>9. ASSUME NEW t \in Threads, Grow(t) PROVE SizeInv'
  <2>1. pc[t] \in Growing /\ \A u \in Threads : pc[u] \in Critical => u = t
    BY <1>0, <1>9 DEF Grow, At, Mutex, Critical, Growing
  <2>2. \A u \in Threads : u # t => pc'[u] \notin Growing
    BY <1>0, <1>9, <2>1 DEF Grow, Goto, Critical, Growing
  <2>3. CASE At(t, "truncate") /\ Ftruncate(MinSize(t)) /\ Goto(t, "remap")
    BY <1>0, <1>9, <2>1, <2>2, <2>3
    DEF Grow, At, Ftruncate, Goto, TruncatedTo, SizeInv, Critical, Growing,
        Areas, Mappings
  <2>4. CASE At(t, "remap") /\ Mremap(MinSize(t)) /\ Goto(t, "publish")
    <3>1. mapping'.lo = mapping.lo /\ mapping'.hi = MinSize(t)
      BY <1>0, <2>4 DEF Mremap, Mappings
    <3> QED
      BY <1>0, <1>9, <2>1, <2>2, <2>4, <3>1
      DEF Grow, At, Mremap, Goto, SizeInv, Critical, Growing, Areas, Mappings
  <2>5. CASE At(t, "publish") /\ SetFileSize(MinSize(t)) /\ Goto(t, "post")
    <3>1. /\ area'.fd = area.fd /\ area'.base = area.base
          /\ area'.fileSize = MinSize(t)
      BY <1>0, <2>5 DEF SetFileSize, Areas
    <3> QED
      BY <1>0, <1>9, <2>1, <2>2, <2>5, <3>1
      DEF Grow, At, SetFileSize, Goto, SizeInv, Critical, Growing, Areas, Mappings
  <2> QED
    BY <1>9, <2>3, <2>4, <2>5 DEF Grow
<1> QED
  BY <1>1, <1>2, <1>3, <1>4, <1>5, <1>6, <1>7, <1>8, <1>9, <1>10
  DEF Next, Step, Terminated

\* A resize of the open file only appends empty slots.
LEMMA GrowAppends ==
  ASSUME LockInv, SizeInv, NEW t \in Threads, Grow(t)
  PROVE  /\ Slots \subseteq Slots'
         /\ \A s \in Slots : disk'.at[s] = disk.at[s]
         /\ \A s \in Slots' \ Slots : disk'.at[s] = EmptyCounts
<1>1. CASE At(t, "truncate") /\ Ftruncate(MinSize(t))
  <2>1. disk.len \in Nat /\ MinSize(t) \in Nat /\ MinSize(t) >= disk.len
    <3>1. area \in Areas /\ disk.len \in Nat /\ mmapIndex[t] \in Nat
      BY DEF LockInv, TypeOK, DiskOK
    <3>2. pc[t] = "truncate" /\ area.fd
      BY <1>1 DEF At, Ftruncate
    <3>3. \A u \in Threads : pc[u] \notin {"remap", "publish", "perror"}
      BY <3>2 DEF LockInv, Mutex, Critical, Growing
    <3>4. disk.len = area.fileSize /\ TooSmall(t)
      BY <3>2, <3>3 DEF SizeInv, Growing
    <3> QED
      BY <3>1, <3>4 DEF TooSmall, MinSize, Areas
  <2>2. disk' = TruncatedTo(MinSize(t))
    BY <1>1 DEF Ftruncate
  <2> QED
    BY <2>1, <2>2 DEF TruncatedTo, Slots
<1>2. CASE UNCHANGED disk
  BY <1>2 DEF Slots
<1> QED
  BY <1>1, <1>2 DEF Grow, Mremap, SetFileSize
-----------------------------------------------------------------------------
(* Who claimed which slot.                                                  *)

\* While the file is open, the slot a thread is about to store to is in it.
LEMMA StoresReachable ==
  ASSUME LockInv, SizeInv, SlotInv, area.fd, NEW t \in Threads
  PROVE  /\ pc[t] = "label" => Reachable(mmapIndex[t])
         /\ pc[t] = "bump" => Reachable(mprofLocalCounts[t])
<1>1. /\ area \in Areas /\ mapping \in Mappings /\ disk.len \in Nat
      /\ mmapIndex[t] \in Nat /\ mprofLocalCounts[t] \in Nat \union {NULL}
  BY DEF LockInv, TypeOK, DiskOK
<1>2. area.fileSize <= mapping.hi /\ mapping.hi <= disk.len /\ mapping.lo = 0
  BY DEF SizeInv
<1>3. pc[t] = "label" => mmapIndex[t] < area.fileSize
  BY DEF SlotInv, Mine, Unsure, Claiming, Growing
<1>4. pc[t] = "bump" => /\ mprofLocalCounts[t] < area.fileSize
                        /\ mprofLocalCounts[t] # NULL
  BY DEF SlotInv, Mine, Unsure, Claiming, Critical, Growing
<1> QED
  BY <1>1, <1>2, <1>3, <1>4 DEF Reachable, Areas, Mappings, NULL

\* No step lets two threads hold one slot, or store before a slot fits.
LEMMA StepSlot == LockInv /\ SizeInv /\ SlotInv /\ [Next]_vars => SlotInv'
<1> SUFFICES ASSUME LockInv, SizeInv, SlotInv, [Next]_vars PROVE SlotInv'
  OBVIOUS
<1> USE DEF Claiming, Unsure, Critical, Growing, Mine
<1>0. /\ TypeOK /\ Untouched /\ DiskOK
      /\ area \in Areas /\ disk.len \in Nat /\ threadID \in Nat
      /\ pc \in [Threads -> Labels] /\ mmapIndex \in [Threads -> Nat]
      /\ mprofLocalCounts \in [Threads -> Nat \union {NULL}]
  BY DEF LockInv, TypeOK, DiskOK
<1>a. area.fd => area.fileSize \in Nat /\ area.fileSize > 0
  BY <1>0 DEF Areas, SizeInv
<1>1. CASE Construct
  <2>1. /\ \A t \in Threads : pc'[t] = "app" /\ mprofLocalCounts'[t] = NULL
        /\ threadID' = 0
    BY <1>0, <1>1 DEF Construct, Untouched, threadVars
  <2>2. area'.fd => area'.fileSize = 1
    BY <1>0, <1>1 DEF Construct, Untouched, OpenAndSize, areaVars
  <2> QED
    BY <2>1, <2>2 DEF SlotInv, NULL
<1>2. CASE Detach \/ UNCHANGED vars
  BY <1>2 DEF Detach, vars, areaVars, threadVars, SlotInv, Slots
<1>3. ASSUME NEW t \in Threads, GrowFails(t) \/ Fault(t) PROVE SlotInv'
  BY <1>3 DEF GrowFails, Fault, areaVars, threadVars, SlotInv, Slots
<1>14. ASSUME NEW t \in Threads, PerrorHangs(t) PROVE SlotInv'
  <2>1. /\ pc[t] \in {"truncate", "remap"} /\ pc' = [pc EXCEPT ![t] = "perror"]
        /\ threadID' = threadID + 1
        /\ UNCHANGED <<area, disk, mprofLocalCounts, mmapIndex>>
    BY <1>14 DEF PerrorHangs, At, Goto, areaVars, NextThreadID
  <2>2. \A u \in Threads : Mine(u)' = Mine(u)
    BY <1>0, <2>1
  <2>3. \A u \in Threads : Mine(u)' < threadID'
    BY <1>0, <2>1, <2>2 DEF SlotInv, NULL
  <2> QED
    BY <1>0, <2>1, <2>2, <2>3 DEF SlotInv, Slots
<1>4. ASSUME NEW t \in Threads, NEW k \in Kinds, Call(t, k) PROVE SlotInv'
  BY <1>0, <1>4 DEF Call, Goto, areaVars, SlotInv, Slots
<1>5. ASSUME NEW t \in Threads, Claim(t) PROVE SlotInv'
  <2>1. /\ pc[t] = "claim" /\ pc' = [pc EXCEPT ![t] = "check"]
        /\ mmapIndex' = [mmapIndex EXCEPT ![t] = threadID]
        /\ threadID' = threadID + 1
        /\ UNCHANGED <<area, disk, mprofLocalCounts>>
    BY <1>5 DEF Claim, At, Goto, areaVars, NextThreadID
  <2>2. /\ Mine(t)' = threadID
        /\ \A u \in Threads : u # t => Mine(u)' = Mine(u)
    BY <1>0, <2>1
  <2>3. \A u \in Threads : Mine(u) < threadID /\ Mine(u) \in Nat \union {NULL}
    BY <1>0 DEF SlotInv
  <2> HIDE DEF Mine
  <2>4. \A u \in Threads : Mine(u)' < threadID'
    BY <1>0, <2>1, <2>2, <2>3 DEF NULL
  <2>5. \A u, v \in Threads : Mine(u)' = Mine(v)' /\ u # v => Mine(u)' = NULL
    BY <1>0, <2>2, <2>3 DEF SlotInv, NULL
  <2>6. area'.fd => \A u \in Threads : pc'[u] \notin Unsure => Mine(u)' < area'.fileSize
    BY <1>0, <2>1, <2>2 DEF SlotInv
  <2>7. \A u \in Threads :
          /\ pc'[u] \in {"claim"} \union Claiming => mprofLocalCounts'[u] = NULL
          /\ pc'[u] = "bump" => mprofLocalCounts'[u] # NULL
          /\ mprofLocalCounts'[u] # NULL => mprofLocalCounts'[u] \in Slots'
    BY <1>0, <2>1 DEF SlotInv, Slots
  <2> QED
    BY <2>4, <2>5, <2>6, <2>7 DEF SlotInv
<1>6. ASSUME NEW t \in Threads, Check(t) \/ Recheck(t) PROVE SlotInv'
  <2>1. /\ pc' = [pc EXCEPT ![t] =
                    IF TooSmall(t) THEN pc'[t]
                    ELSE IF pc[t] = "check" THEN "label" ELSE "post"]
        /\ pc[t] \in {"check", "recheck"}
        /\ TooSmall(t) => pc'[t] \in {"wait", "truncate"}
        /\ UNCHANGED <<area, disk, mprofLocalCounts, mmapIndex, threadID>>
    BY <1>0, <1>6 DEF Check, Recheck, At, Goto, areaVars
  <2>2. \A u \in Threads : Mine(u)' = Mine(u)
    BY <1>0, <2>1
  <2>3. ~ TooSmall(t) => Mine(t) < area.fileSize
    BY <1>0, <2>1 DEF TooSmall, MinSize, Areas
  <2> QED
    BY <1>0, <2>1, <2>2, <2>3 DEF SlotInv, Slots
<1>7. ASSUME NEW t \in Threads, Wait(t) \/ Post(t) PROVE SlotInv'
  BY <1>0, <1>7 DEF Wait, Post, At, Goto, areaVars, SlotInv, Slots
<1>8. ASSUME NEW t \in Threads, Destruct(t) PROVE SlotInv'
  <2>1. ~ area'.fd /\ disk' = disk
    BY <1>0, <1>8 DEF Destruct, MmapClose, Areas
  <2> QED
    BY <1>0, <1>8, <2>1 DEF Destruct, Goto, SlotInv, Slots
<1>9. ASSUME NEW t \in Threads, Grow(t) PROVE SlotInv'
  <2>1. /\ pc[t] \in {"truncate", "remap", "publish"}
        /\ pc' = [pc EXCEPT ![t] = pc'[t]]
        /\ pc'[t] \in {"remap", "publish", "post"}
        /\ UNCHANGED <<mprofLocalCounts, mmapIndex, threadID>>
        /\ Slots \subseteq Slots'
    BY <1>0, <1>9, GrowAppends DEF Grow, At, Goto
  <2>2. \A u \in Threads : Mine(u)' = Mine(u)
    BY <1>0, <2>1
  <2>3. area'.fd => /\ area.fd /\ area'.fileSize >= area.fileSize
                    /\ pc'[t] = "post" => Mine(t) < area'.fileSize
    <3>1. area.fd => TooSmall(t)
      BY <2>1 DEF SizeInv
    <3>2. CASE pc'[t] = "post" /\ SetFileSize(MinSize(t))
      BY <1>0, <2>1, <3>1, <3>2 DEF SetFileSize, MinSize, TooSmall, Areas
    <3>3. CASE pc'[t] # "post" /\ UNCHANGED area
      BY <1>a, <3>3
    <3> QED
      BY <1>0, <1>9, <3>2, <3>3 DEF Grow, Goto, Ftruncate, Mremap
  <2>4. area'.fd => area'.fileSize \in Nat
    BY StepType, <1>9 DEF Next, Step, TypeOK, Areas
  <2>5. \A u \in Threads : Mine(u) \in Int
    BY <1>0 DEF NULL
  <2>6. area'.fd => \A u \in Threads : pc'[u] \notin Unsure => Mine(u) < area'.fileSize
    <3> SUFFICES ASSUME area'.fd, NEW u \in Threads, pc'[u] \notin Unsure, u # t
                 PROVE  Mine(u) < area'.fileSize
      BY <1>0, <2>1, <2>3
    <3>1. Mine(u) < area.fileSize
      BY <1>0, <2>1, <2>3 DEF SlotInv
    <3> HIDE DEF Mine
    <3> QED
      BY <1>a, <2>3, <2>4, <2>5, <3>1
  <2> QED
    BY <1>0, <2>1, <2>2, <2>6 DEF SlotInv
<1>10. ASSUME NEW t \in Threads, Label(t) PROVE SlotInv'
  <2>1. /\ pc[t] = "label" /\ pc' = [pc EXCEPT ![t] = "bump"]
        /\ mprofLocalCounts' = [mprofLocalCounts EXCEPT ![t] = mmapIndex[t]]
        /\ UNCHANGED <<area, mmapIndex, threadID>>
        /\ Slots' = Slots /\ mmapIndex[t] \in Slots /\ mmapIndex[t] # NULL
    BY <1>0, <1>10 DEF Label, At, Goto, Reachable, Written, Slots, NULL
  <2>2. \A u \in Threads : Mine(u)' = Mine(u)
    BY <1>0, <2>1
  <2> QED
    BY <1>0, <2>1, <2>2 DEF SlotInv
<1>11. ASSUME NEW t \in Threads, Bump(t) PROVE SlotInv'
  <2>1. /\ pc[t] = "bump" /\ pc' = [pc EXCEPT ![t] = "app"]
        /\ UNCHANGED <<area, mmapIndex, threadID, mprofLocalCounts>>
        /\ Slots' = Slots
    BY <1>0, <1>11 DEF Bump, At, Goto, Written, Slots
  <2>2. \A u \in Threads : Mine(u)' = Mine(u)
    BY <1>0, <2>1
  <2> QED
    BY <1>0, <2>1, <2>2 DEF SlotInv
<1> QED
  BY <1>1, <1>2, <1>3, <1>4, <1>5, <1>6, <1>7, <1>8, <1>9, <1>10, <1>11, <1>14
  DEF Next, Step, Terminated
-----------------------------------------------------------------------------
(* What the slots count.                                                    *)

\* CountsExact for one step that counts nothing: slots are kept, or appended
\* empty, and no thread takes one or has more to show for its calls.
LEMMA QuietCounts ==
  ASSUME LockInv, SlotInv, CountsExact,
         UNCHANGED mprofLocalCounts,
         Slots \subseteq Slots',
         \A s \in Slots : disk'.at[s] = disk.at[s],
         \A s \in Slots' \ Slots : disk'.at[s] = EmptyCounts,
         \A t \in Threads : \A k \in Kinds : Counted(t, k)' = Counted(t, k)
  PROVE  CountsExact'
<1>1. \A t \in Threads : Tallied(t)' = Tallied(t)
  BY DEF Tallied, SlotInv
<1>2. \A s \in Slots' :
        (\A t \in Threads : mprofLocalCounts[t] # s) => disk'.at[s].n = ZeroCounts
  BY EmptyFacts DEF CountsExact
<1> QED
  BY <1>1, <1>2 DEF CountsExact

\* Labelling takes a slot nobody has, and stores nothing but the label.
LEMMA LabelTakes ==
  ASSUME LockInv, SlotInv, NEW t \in Threads, Label(t)
  PROVE  /\ mprofLocalCounts' = [mprofLocalCounts EXCEPT ![t] = mmapIndex[t]]
         /\ Slots' = Slots /\ \A s \in Slots : disk'.at[s].n = disk.at[s].n
         /\ mprofLocalCounts[t] = NULL /\ mmapIndex[t] # NULL
         /\ \A u \in Threads : mprofLocalCounts[u] # mmapIndex[t]
<1> DEFINE m == mmapIndex[t]
<1>1. /\ TypeOK /\ DiskOK /\ disk.len \in Nat /\ m \in Nat
      /\ pc[t] = "label" /\ m \in Slots /\ disk.at[m] \in Records
  BY DEF LockInv, TypeOK, Label, At, Reachable, Slots, DiskOK
<1>2. mprofLocalCounts[t] = NULL /\ Mine(t) = m /\ m # NULL
  BY <1>1 DEF SlotInv, Mine, Claiming, Critical, NULL
<1>3. Slots' = Slots /\ \A s \in Slots : disk'.at[s].n = disk.at[s].n
  BY <1>1, RecordTypes DEF Label, Written, Slots, DiskOK
<1>4. ASSUME NEW u \in Threads PROVE mprofLocalCounts[u] # m
  <2>1. mprofLocalCounts[u] # NULL => Mine(u) = mprofLocalCounts[u]
    BY DEF SlotInv, Mine
  <2>2. mprofLocalCounts[u] # NULL => u # t
    BY <1>2
  <2> QED
    BY <1>2, <2>1, <2>2 DEF SlotInv
<1> QED
  BY <1>2, <1>3, <1>4 DEF Label

\* Labelling a slot changes no tally: the slot has counted nothing.
LEMMA LabelKeepsTallies ==
  ASSUME LockInv, SlotInv, CountsExact, NEW t \in Threads, Label(t)
  PROVE  \A u \in Threads : Tallied(u)' = Tallied(u)
<1>1. mmapIndex[t] \in Slots /\ mprofLocalCounts \in [Threads -> Nat \union {NULL}]
  BY DEF LockInv, TypeOK, DiskOK, Label, Reachable, Slots
<1>2. disk.at[mmapIndex[t]].n = ZeroCounts
  BY <1>1, LabelTakes DEF CountsExact
<1>3. ASSUME NEW u \in Threads, u # t PROVE Tallied(u)' = Tallied(u)
  BY <1>1, <1>3, LabelTakes DEF Tallied, SlotInv
<1>4. Tallied(t)' = Tallied(t)
  BY <1>1, <1>2, LabelTakes DEF Tallied
<1> QED
  BY <1>3, <1>4

\* No step loses a call or counts it twice.
LEMMA StepCounts ==
  LockInv /\ SizeInv /\ SlotInv /\ CountsExact /\ [Next]_vars => CountsExact'
<1> SUFFICES ASSUME LockInv, SizeInv, SlotInv, CountsExact, [Next]_vars
             PROVE  CountsExact'
  OBVIOUS
<1>0. /\ TypeOK /\ Untouched /\ DiskOK /\ InCall
      /\ disk.len \in Nat /\ Slots \subseteq Nat /\ NoKind \notin Kinds
      /\ pc \in [Threads -> Labels] /\ mmapIndex \in [Threads -> Nat]
      /\ mprofLocalCounts \in [Threads -> Nat \union {NULL}]
      /\ kind \in [Threads -> Kinds \union {NoKind}]
      /\ calls \in [Threads -> [Kinds -> Nat]]
  BY CountAssumption DEF LockInv, TypeOK, DiskOK, Slots
<1>1. CASE Construct
  <2>1. /\ Slots = {} /\ UNCHANGED <<mprofLocalCounts, kind, calls>>
        /\ \A s \in Slots' : disk'.at[s] = EmptyCounts
    BY <1>0, <1>1
    DEF Construct, Untouched, OpenAndSize, areaVars, threadVars, Slots
  <2> QED
    BY <2>1, QuietCounts DEF Counted
<1>2. CASE Detach \/ UNCHANGED vars
  BY <1>2, QuietCounts DEF Detach, vars, areaVars, threadVars, Slots, Counted
<1>3. ASSUME NEW t \in Threads,
             \/ GrowFails(t) \/ Fault(t) \/ Claim(t) \/ Check(t) \/ Recheck(t)
             \/ Wait(t) \/ Post(t) \/ Destruct(t) \/ PerrorHangs(t)
      PROVE  CountsExact'
  <2>1. UNCHANGED <<mprofLocalCounts, kind, calls, disk>>
    BY <1>3
    DEF GrowFails, Fault, Claim, Check, Recheck, Wait, Post, Destruct,
        PerrorHangs, MmapClose, areaVars, threadVars
  <2> QED
    BY <2>1, QuietCounts DEF Slots, Counted
<1>4. ASSUME NEW t \in Threads, NEW k \in Kinds, Call(t, k) PROVE CountsExact'
  <2>1. /\ kind[t] = NoKind /\ kind' = [kind EXCEPT ![t] = k]
        /\ calls' = [calls EXCEPT ![t] = OneMore(calls[t], k)]
        /\ UNCHANGED <<mprofLocalCounts, disk>>
    BY <1>0, <1>4 DEF Call, InCall, areaVars
  <2>2. ASSUME NEW u \in Threads, NEW j \in Kinds
        PROVE  Counted(u, j)' = Counted(u, j)
    <3>1. CASE u = t
      BY <1>0, <2>1, <3>1 DEF Counted, OneMore
    <3>2. CASE u # t
      BY <1>0, <2>1, <3>2 DEF Counted
    <3> QED
      BY <3>1, <3>2
  <2> QED
    BY <2>1, <2>2, QuietCounts DEF Slots
<1>5. ASSUME NEW t \in Threads, Grow(t) PROVE CountsExact'
  BY <1>5, GrowAppends, QuietCounts DEF Grow, Counted
<1>6. ASSUME NEW t \in Threads, Label(t) PROVE CountsExact'
  <2> DEFINE m == mmapIndex[t]
  <2>1. m \in Slots /\ UNCHANGED <<kind, calls>>
    BY <1>0, <1>6 DEF Label, Reachable, Slots
  <2>2. /\ mprofLocalCounts' = [mprofLocalCounts EXCEPT ![t] = m]
        /\ Slots' = Slots /\ \A s \in Slots : disk'.at[s].n = disk.at[s].n
        /\ mprofLocalCounts[t] = NULL /\ m # NULL
        /\ \A u \in Threads : mprofLocalCounts[u] # m
    BY <1>0, <1>6, LabelTakes
  <2> HIDE DEF m
  <2>3. \A u \in Threads : \A k \in Kinds : Tallied(u)'[k] = Counted(u, k)'
    BY <1>0, <1>6, <2>1, LabelKeepsTallies DEF CountsExact, Counted
  <2>4. \A u, v \in Threads :
          mprofLocalCounts'[u] = mprofLocalCounts'[v] /\ u # v
            => mprofLocalCounts'[u] = NULL
    BY <1>0, <2>2 DEF CountsExact
  <2>5. ASSUME NEW s \in Slots, \A u \in Threads : mprofLocalCounts'[u] # s
        PROVE  disk'.at[s].n = ZeroCounts
    <3>1. s # m
      BY <1>0, <2>2, <2>5
    <3>2. \A u \in Threads : mprofLocalCounts[u] # s
      BY <1>0, <2>1, <2>2, <2>5 DEF NULL
    <3> QED
      BY <2>2, <3>1, <3>2 DEF CountsExact
  <2> QED
    BY <2>2, <2>3, <2>4, <2>5 DEF CountsExact
<1>7. ASSUME NEW t \in Threads, Bump(t) PROVE CountsExact'
  <2> DEFINE s == mprofLocalCounts[t]
  <2>1. /\ pc[t] = "bump" /\ s \in Slots /\ s # NULL
        /\ disk.at[s] \in Records /\ kind[t] \in Kinds
    <3>1. pc[t] = "bump" /\ Reachable(s) /\ mapping \in Mappings
      BY <1>0, <1>7 DEF Bump, At, TypeOK
    <3>2. s \in Slots /\ s # NULL
      BY <1>0, <3>1 DEF Reachable, Slots, Mappings, NULL
    <3>3. kind[t] \in Kinds
      BY <1>0, <3>1 DEF InCall
    <3> QED
      BY <1>0, <3>1, <3>2, <3>3 DEF DiskOK, Slots
  <2>2. /\ UNCHANGED <<mprofLocalCounts, calls>> /\ Slots' = Slots
        /\ kind' = [kind EXCEPT ![t] = NoKind]
        /\ \A r \in Slots \ {s} : disk'.at[r] = disk.at[r]
        /\ disk'.at[s].n = OneMore(disk.at[s].n, kind[t])
    BY <1>0, <1>7, <2>1, RecordTypes DEF Bump, Written, Slots, DiskOK
  <2>3. \A u \in Threads : u # t => mprofLocalCounts[u] # s
    BY <2>1 DEF CountsExact
  <2>4. ASSUME NEW k \in Kinds PROVE Tallied(t)'[k] = Counted(t, k)'
    <3>1. disk.at[s].n[k] = Counted(t, k) /\ disk.at[s].n \in [Kinds -> Nat]
      BY <2>1 DEF CountsExact, Tallied, Records
    <3>2. Tallied(t)' = OneMore(disk.at[s].n, kind[t])
      BY <2>1, <2>2 DEF Tallied
    <3>3. Tallied(t)'[k] = disk.at[s].n[k] + (IF k = kind[t] THEN 1 ELSE 0)
      BY <2>1, <3>1, <3>2 DEF OneMore
    <3>4. Counted(t, k)' = calls[t][k] /\ calls[t][k] \in Nat
      BY <1>0, <2>2 DEF Counted
    <3> QED
      BY <3>1, <3>3, <3>4 DEF Counted
  <2>5. ASSUME NEW u \in Threads, u # t, NEW k \in Kinds
        PROVE  Tallied(u)'[k] = Counted(u, k)'
    <3>1. Tallied(u)' = Tallied(u)
      BY <2>2, <2>3, <2>5 DEF Tallied, SlotInv
    <3>2. Counted(u, k)' = Counted(u, k)
      BY <1>0, <2>2, <2>5 DEF Counted
    <3> QED
      BY <3>1, <3>2 DEF CountsExact
  <2>6. ASSUME NEW r \in Slots, \A u \in Threads : mprofLocalCounts[u] # r
        PROVE  disk'.at[r].n = ZeroCounts
    BY <2>2, <2>6 DEF CountsExact
  <2> HIDE DEF s
  <2>7. \A u \in Threads : \A k \in Kinds : Tallied(u)'[k] = Counted(u, k)'
    BY <2>4, <2>5
  <2> QED
    BY <2>2, <2>6, <2>7 DEF CountsExact
<1> QED
  BY <1>1, <1>2, <1>3, <1>4, <1>5, <1>6, <1>7 DEF Next, Step, Terminated
-----------------------------------------------------------------------------
(* The theorems.                                                            *)

\* Only a thread that stores faults, and only once the file is closed.
LEMMA StepNoFault ==
  LockInv /\ SizeInv /\ SlotInv /\ NoFault /\ [Next]_vars => NoFault'
<1> SUFFICES ASSUME LockInv, SizeInv, SlotInv, NoFault, [Next]_vars,
                    phase' = "faulted"
             PROVE  ~ area'.fd
  BY DEF NoFault
<1>1. CASE UNCHANGED vars
  BY <1>1 DEF vars, areaVars, NoFault
<1>2. ASSUME NEW t \in Threads, Fault(t) PROVE ~ area'.fd
  <2>1. \/ pc[t] = "label" /\ ~ Reachable(mmapIndex[t])
        \/ pc[t] = "bump" /\ ~ Reachable(mprofLocalCounts[t])
    BY <1>2 DEF Fault, At
  <2>2. ~ area.fd
    BY <2>1, StoresReachable
  <2> QED
    BY <1>2, <2>2 DEF Fault, areaVars
<1>3. ASSUME NEW t \in Threads, Step(t), ~ Fault(t) PROVE FALSE
  BY <1>3
  DEF Step, Claim, Check, Wait, Recheck, Grow, GrowFails, PerrorHangs, Post, Label,
      Bump, At, Running
<1>4. ~ (\/ Construct \/ Detach
         \/ \E t \in Threads : Destruct(t) \/ \E k \in Kinds : Call(t, k))
  BY DEF Construct, Detach, Call, Destruct, Running
<1> QED
  BY <1>1, <1>2, <1>3, <1>4 DEF Next, Terminated

\* Nothing is claimed, sized or counted when the process starts.
LEMMA InitLock == Init => LockInv
BY InitType
DEF Init, AreaInit, LockInv, Untouched, Mutex, InCall, Critical, Growing

\* The invariant holds when the process starts.
LEMMA InitIInv == Init => IInv
<1> SUFFICES ASSUME Init PROVE IInv
  OBVIOUS
<1>1. LockInv /\ Slots = {} /\ ~ area.fd
  BY InitLock DEF Init, AreaInit, Slots
<1>2. SlotInv
  BY <1>1 DEF Init, SlotInv, Mine, Claiming, Critical, Growing, NULL
<1>3. CountsExact
  BY <1>1, CountAssumption DEF Init, CountsExact, Tallied, Counted, ZeroCounts
<1> QED
  BY <1>1, <1>2, <1>3 DEF Init, IInv, SizeInv, NoFault

\* The inductive invariant: lock, sizes, slots and counts.
THEOREM Invariance == Spec => []IInv
<1>1. Init => IInv
  BY InitIInv
<1>2. IInv /\ [Next]_vars => IInv'
  BY StepLock, StepSize, StepSlot, StepCounts, StepNoFault DEF IInv
<1> QED
  BY <1>1, <1>2, PTL DEF Spec

\* Every variable keeps its type.
THEOREM TypeCorrect == Spec => []TypeOK
<1>1. IInv => TypeOK
  BY DEF IInv, LockInv
<1> QED
  BY <1>1, Invariance, PTL

\* No handler of an open counts file stores outside it.
THEOREM NoFaultCorrect == Spec => []NoFault
<1>1. IInv => NoFault
  BY DEF IInv
<1> QED
  BY <1>1, Invariance, PTL

\* The file has the exact number of calls of every thread and kind.
THEOREM CountsExactCorrect == Spec => []CountsExact
<1>1. IInv => CountsExact
  BY DEF IInv
<1> QED
  BY <1>1, Invariance, PTL

\* The open counts file never shrinks.
THEOREM SizeNeverShrinksCorrect == Spec => SizeNeverShrinks
<1>1. IInv /\ [Next]_vars =>
        [area.fd /\ area'.fd =>
           /\ area'.fileSize >= area.fileSize
           /\ mapping'.hi >= mapping.hi
           /\ disk'.len >= disk.len]_vars
  <2> SUFFICES ASSUME LockInv, SizeInv, Next, area.fd, area'.fd
               PROVE  /\ area'.fileSize >= area.fileSize
                      /\ mapping'.hi >= mapping.hi
                      /\ disk'.len >= disk.len
    BY DEF IInv
  <2>1. /\ area \in Areas /\ mapping \in Mappings /\ disk.len \in Nat
        /\ mmapIndex \in [Threads -> Nat]
    BY DEF LockInv, TypeOK, DiskOK
  <2>2. CASE UNCHANGED <<area, mapping, disk.len>>
    BY <2>1, <2>2 DEF Areas, Mappings
  <2>3. ASSUME NEW t \in Threads, Grow(t)
        PROVE  /\ area'.fileSize >= area.fileSize
               /\ mapping'.hi >= mapping.hi
               /\ disk'.len >= disk.len
    <3>1. pc[t] \in Growing
      BY <2>3 DEF Grow, At, Growing
    <3>2. area.fileSize < MinSize(t) /\ MinSize(t) \in Nat
      BY <2>1, <3>1 DEF SizeInv, TooSmall, MinSize, Areas
    <3>3. CASE At(t, "truncate") /\ Ftruncate(MinSize(t))
      <4>1. \A u \in Threads : pc[u] \notin {"remap", "publish", "perror"}
        BY <3>3 DEF At, LockInv, Mutex, Critical, Growing
      <4>2. disk.len = area.fileSize
        BY <4>1 DEF SizeInv
      <4> QED
        BY <2>1, <3>2, <3>3, <4>2 DEF Ftruncate, TruncatedTo, Areas, Mappings
    <3>4. CASE At(t, "remap") /\ Mremap(MinSize(t))
      <4>1. \A u \in Threads : pc[u] # "publish"
        BY <3>4 DEF At, LockInv, Mutex, Critical, Growing
      <4>2. mapping.hi = area.fileSize /\ mapping'.hi = MinSize(t)
        BY <2>1, <3>4, <4>1 DEF SizeInv, Mremap, Mappings
      <4> QED
        BY <2>1, <3>2, <3>4, <4>2 DEF Mremap, Areas
    <3>5. CASE At(t, "publish") /\ SetFileSize(MinSize(t))
      <4>1. area'.fileSize = MinSize(t)
        BY <2>1, <3>5 DEF SetFileSize, Areas
      <4> QED
        BY <2>1, <3>2, <3>5, <4>1 DEF SetFileSize, Areas, Mappings
    <3> QED
      BY <2>3, <3>3, <3>4, <3>5 DEF Grow
  <2>4. ASSUME NEW t \in Threads, Step(t), ~ Grow(t)
        PROVE  UNCHANGED <<area, mapping, disk.len>>
    BY <2>4
    DEF Step, Claim, Check, Wait, Recheck, GrowFails, PerrorHangs, Post, Label, Bump, Fault,
        areaVars, Written
  <2>5. ASSUME NEW t \in Threads, NEW k \in Kinds, Call(t, k)
        PROVE  UNCHANGED <<area, mapping, disk.len>>
    BY <2>5 DEF Call, areaVars
  <2>6. ~ Construct /\ ~ \E t \in Threads : Destruct(t)
    BY <2>1 DEF Construct, Destruct, MmapClose, Areas, LockInv, Untouched
  <2>7. CASE Detach \/ Terminated
    BY <2>2, <2>7 DEF Detach, Terminated, areaVars, vars
  <2> QED
    BY <2>2, <2>3, <2>4, <2>5, <2>6, <2>7 DEF Next
<1> QED
  BY <1>1, Invariance, PTL DEF Spec, SizeNeverShrinks

-----------------------------------------------------------------------------
(* Count implements Tally.                                                  *)

\* A step that takes no slot and keeps the taken ones keeps every tally.
LEMMA SameTallies ==
  ASSUME SlotInv, UNCHANGED mprofLocalCounts,
         \A s \in Slots : disk'.at[s] = disk.at[s]
  PROVE  [t \in Threads |-> Tallied(t)]' = [t \in Threads |-> Tallied(t)]
<1>1. \A t \in Threads : Tallied(t)' = Tallied(t)
  BY DEF Tallied, SlotInv
<1> QED
  BY <1>1

\* Every step of Count is one of Tally or changes nothing Tally sees.
LEMMA StepAbstract == IInv /\ [Next]_vars => [Abstract!Next]_(Abstract!vars)
<1> SUFFICES ASSUME IInv, [Next]_vars
             PROVE  Abstract!Next \/ UNCHANGED Abstract!vars
  OBVIOUS
<1> USE DEF Abstract!vars
<1>0. /\ LockInv /\ SizeInv /\ SlotInv /\ CountsExact /\ InCall /\ Untouched
      /\ DiskOK /\ Slots \subseteq Nat /\ NoKind \notin Kinds
      /\ pc \in [Threads -> Labels] /\ mmapIndex \in [Threads -> Nat]
      /\ mapping \in Mappings
      /\ mprofLocalCounts \in [Threads -> Nat \union {NULL}]
      /\ kind \in [Threads -> Kinds \union {NoKind}]
  BY CountAssumption DEF IInv, LockInv, TypeOK, DiskOK, Slots
<1>1. CASE Construct
  <2>1. UNCHANGED <<kind, mprofLocalCounts>> /\ Slots = {}
    BY <1>0, <1>1 DEF Construct, Untouched, threadVars, Slots, DiskOK
  <2>2. [t \in Threads |-> Tallied(t)]' = [t \in Threads |-> Tallied(t)]
    BY <1>0, <2>1, SameTallies
  <2>3. phase = "loading" /\ phase' \in {"running", "aborted"}
    BY <1>1 DEF Construct
  <2> QED
    BY <2>1, <2>2, <2>3 DEF Abstract!Next, Abstract!Die, Ended
<1>2. CASE Detach \/ UNCHANGED vars
  <2>1. UNCHANGED <<kind, mprofLocalCounts, disk>>
    BY <1>2 DEF Detach, vars, areaVars, threadVars
  <2>2. [t \in Threads |-> Tallied(t)]' = [t \in Threads |-> Tallied(t)]
    BY <1>0, <2>1, SameTallies
  <2>3. phase' = phase \/ phase \notin Ended
    BY <1>2 DEF Detach, Ended, vars
  <2> QED
    BY <2>1, <2>2, <2>3 DEF Abstract!Next, Abstract!Die
<1>3. ASSUME NEW t \in Threads, GrowFails(t) \/ Fault(t)
      PROVE  Abstract!Next \/ UNCHANGED Abstract!vars
  <2>1. UNCHANGED <<kind, mprofLocalCounts, disk>>
    BY <1>3 DEF GrowFails, Fault, areaVars, threadVars
  <2>2. [u \in Threads |-> Tallied(u)]' = [u \in Threads |-> Tallied(u)]
    BY <1>0, <2>1, SameTallies
  <2>3. phase \notin Ended /\ phase' \in Ended
    BY <1>3 DEF GrowFails, Fault, At, Running, Ended
  <2> QED
    BY <2>1, <2>2, <2>3 DEF Abstract!Next, Abstract!Die
<1>4. ASSUME NEW t \in Threads, NEW k \in Kinds, Call(t, k)
      PROVE  Abstract!Next \/ UNCHANGED Abstract!vars
  <2>1. UNCHANGED <<phase, mprofLocalCounts, disk>> /\ phase \notin Ended
    BY <1>4 DEF Call, areaVars, Ended
  <2>2. [u \in Threads |-> Tallied(u)]' = [u \in Threads |-> Tallied(u)]
    BY <1>0, <2>1, SameTallies
  <2>3. kind[t] = NoKind /\ kind' = [kind EXCEPT ![t] = k]
    BY <1>0, <1>4 DEF Call, InCall
  <2> QED
    BY <2>1, <2>2, <2>3 DEF Abstract!Next, Abstract!Begin
<1>5. ASSUME NEW t \in Threads,
             \/ Claim(t) \/ Check(t) \/ Wait(t) \/ Recheck(t) \/ Post(t)
             \/ Destruct(t) \/ PerrorHangs(t)
      PROVE  UNCHANGED Abstract!vars
  <2>1. UNCHANGED <<kind, mprofLocalCounts, disk>>
    BY <1>5
    DEF Claim, Check, Wait, Recheck, Post, Destruct, PerrorHangs, MmapClose, areaVars
  <2>2. [u \in Threads |-> Tallied(u)]' = [u \in Threads |-> Tallied(u)]
    BY <1>0, <2>1, SameTallies
  <2>3. (phase \notin Ended)' = (phase \notin Ended)
    BY <1>5
    DEF Claim, Check, Wait, Recheck, Post, Destruct, PerrorHangs, At, Running, Ended
  <2> QED
    BY <2>1, <2>2, <2>3
<1>6. ASSUME NEW t \in Threads, Grow(t) PROVE UNCHANGED Abstract!vars
  <2>1. UNCHANGED <<phase, kind, mprofLocalCounts>>
    BY <1>6 DEF Grow
  <2>2. [u \in Threads |-> Tallied(u)]' = [u \in Threads |-> Tallied(u)]
    BY <1>0, <1>6, <2>1, GrowAppends, SameTallies
  <2> QED
    BY <2>1, <2>2
<1>7. ASSUME NEW t \in Threads, Label(t) PROVE UNCHANGED Abstract!vars
  <2>1. UNCHANGED <<phase, kind>>
    BY <1>7 DEF Label
  <2>2. \A u \in Threads : Tallied(u)' = Tallied(u)
    BY <1>0, <1>7, LabelKeepsTallies
  <2>3. [u \in Threads |-> Tallied(u)]' = [u \in Threads |-> Tallied(u)]
    BY <2>2
  <2> QED
    BY <2>1, <2>3
<1>8. ASSUME NEW t \in Threads, Bump(t) PROVE Abstract!Next
  <2> DEFINE s == mprofLocalCounts[t]
             k == kind[t]
  <2>1. pc[t] = "bump" /\ Reachable(s) /\ phase \notin Ended /\ UNCHANGED phase
    BY <1>8 DEF Bump, At, Running, Ended
  <2>2. s \in Slots /\ s # NULL
    <3>1. disk.len \in Nat /\ s \in Nat \union {NULL}
      BY <1>0 DEF DiskOK
    <3> QED
      BY <1>0, <2>1, <3>1 DEF Reachable, Slots, Mappings, NULL
  <2>3. k \in Kinds /\ disk.at[s] \in Records
    BY <1>0, <2>1, <2>2 DEF InCall, DiskOK, Slots
  <2>4. /\ UNCHANGED mprofLocalCounts /\ kind' = [kind EXCEPT ![t] = NoKind]
        /\ \A r \in Slots \ {s} : disk'.at[r] = disk.at[r]
        /\ disk'.at[s].n = OneMore(disk.at[s].n, k)
    BY <1>0, <1>8, <2>2, <2>3, RecordTypes
    DEF Bump, Written, Slots, DiskOK, LockInv
  <2>5. \A u \in Threads : u # t => mprofLocalCounts[u] # s
    BY <1>0, <2>2 DEF CountsExact
  <2>6. Tallied(t)' = OneMore(Tallied(t), k)
    BY <2>2, <2>4 DEF Tallied
  <2>7. \A u \in Threads : u # t => Tallied(u)' = Tallied(u)
    BY <1>0, <2>4, <2>5 DEF Tallied, SlotInv
  <2> HIDE DEF s, k
  <2>8. [u \in Threads |-> Tallied(u)]'
          = [[u \in Threads |-> Tallied(u)] EXCEPT ![t] = OneMore(Tallied(t), k)]
    BY <2>6, <2>7
  <2>9. Abstract!Tell(t, k)
    BY <2>1, <2>4, <2>8 DEF Abstract!Tell, OneMore, k
  <2> QED
    BY <2>3, <2>9 DEF Abstract!Next
<1> QED
  BY <1>1, <1>2, <1>3, <1>4, <1>5, <1>6, <1>7, <1>8 DEF Next, Step, Terminated

\* The file of slots implements the tally per thread and kind.
THEOREM Refinement == Spec => ImplementsTally
<1>1. Init => Abstract!Init
  BY DEF Init, Abstract!Init, Ended, Tallied, ZeroCounts
<1>2. IInv /\ [Next]_vars => [Abstract!Next]_(Abstract!vars)
  BY StepAbstract
<1> QED
  BY <1>1, <1>2, Invariance, PTL DEF Spec, ImplementsTally, Abstract!Spec
=============================================================================
