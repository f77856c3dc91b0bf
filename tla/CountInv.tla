------------------------------ MODULE CountInv ------------------------------
(***************************************************************************)
(* The inductive invariant of Count, in the layers its proof is built from *)
(* (Count_proofs), each one resting on those before it.                    *)
(***************************************************************************)
EXTENDS Count

\* While the constructor has not run nothing has happened.
Untouched ==
  phase = "loading" =>
    /\ sem = 0 /\ threadID = 0 /\ disk.len = 0 /\ ~ area.fd
    /\ \A t \in Threads :
         /\ pc[t] = "app" /\ kind[t] = NoKind /\ mprofLocalCounts[t] = NULL
         /\ calls[t] = ZeroCounts

\* The semaphore is a lock: one thread at a time is in the critical section.
Mutex ==
  /\ sem = 1 => \A t \in Threads : pc[t] \notin Critical
  /\ \A t, u \in Threads : pc[t] \in Critical /\ pc[u] \in Critical => t = u

\* A thread has a call to count while it is in a handler.
InCall == \A t \in Threads : kind[t] = NoKind <=> pc[t] \in {"app", "exit"}

LockInv == TypeOK /\ Untouched /\ Mutex /\ InCall

\* The open file: fileSize, the mapping and the file have one size, save that
\* a growing thread has already changed the file, then the mapping.
SizeInv ==
  area.fd =>
    /\ area.base /\ mapping.lo = 0
    /\ area.fileSize <= mapping.hi /\ mapping.hi <= disk.len
    /\ area.fileSize > 0
    /\ \A t \in Threads : pc[t] \in Growing => TooSmall(t)
    /\ \A t \in Threads : pc[t] \in {"remap", "publish"} => disk.len = MinSize(t)
    /\ \A t \in Threads : pc[t] = "publish" => mapping.hi = MinSize(t)
    /\ (\A t \in Threads : pc[t] \notin {"remap", "publish", "perror"})
         => disk.len = area.fileSize
    /\ (\A t \in Threads : pc[t] # "publish") => mapping.hi = area.fileSize

\* Where a thread has claimed a slot and not yet labelled it.
Claiming == {"check", "wait", "label"} \union Critical

\* Where a thread does not know yet that its slot fits.
Unsure == {"check", "wait", "recheck"} \union Growing

\* The slot thread t has claimed, NULL before it has one.
Mine(t) == IF pc[t] \in Claiming THEN mmapIndex[t] ELSE mprofLocalCounts[t]

\* Slots are claimed once, below threadID and, once found to fit, in the file.
SlotInv ==
  /\ \A t \in Threads :
       pc[t] \in {"claim"} \union Claiming => mprofLocalCounts[t] = NULL
  /\ \A t \in Threads : pc[t] = "bump" => mprofLocalCounts[t] # NULL
  /\ \A t \in Threads : Mine(t) < threadID
  /\ \A t, u \in Threads : Mine(t) = Mine(u) /\ t # u => Mine(t) = NULL
  /\ \A t \in Threads :
       mprofLocalCounts[t] # NULL => mprofLocalCounts[t] \in Slots
  /\ area.fd => \A t \in Threads : pc[t] \notin Unsure => Mine(t) < area.fileSize

\* The whole invariant.  Its parts say why concurrent handlers never share a
\* slot: the lock, the sizes during a resize, who claimed which slot, and what
\* the slots count.
IInv == LockInv /\ SizeInv /\ SlotInv /\ CountsExact /\ NoFault
=============================================================================
