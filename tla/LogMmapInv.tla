----------------------------- MODULE LogMmapInv -----------------------------
(***************************************************************************)
(* The inductive invariant of LogMmap, in the layers its proof is built    *)
(* from (LogMmap_proofs), each one resting on those before it.             *)
(***************************************************************************)
EXTENDS LogMmap

\* While the constructor has not run nothing has happened.
Untouched ==
  phase = "loading" =>
    /\ sem = 0 /\ areaIndex = 0 /\ disk.len = 0 /\ ~ area.fd
    /\ failing = {} /\ \A t \in Threads : pc[t] = "app" /\ calls[t] = 0

\* Thread t holds the semaphore; one whose resize failed never gives it back.
Holding(t) == pc[t] \in Critical \/ t \in failing

\* The semaphore is a lock: one thread at a time is in the critical section,
\* and none any more when a resize has failed there.
Mutex ==
  /\ sem = 1 => \A t \in Threads : ~ Holding(t)
  /\ \A t, u \in Threads : Holding(t) /\ Holding(u) => t = u
  /\ \A t \in failing : pc[t] \notin Critical

LockInv == TypeOK /\ Untouched /\ Mutex

\* The open log: fileSize, the mapping and the file have one size, save that
\* a growing thread has already changed the file, then the mapping, or has
\* failed to.
SizeInv ==
  area.fd =>
    /\ area.base /\ mapping.lo = 0
    /\ area.fileSize <= mapping.hi /\ mapping.hi <= disk.len
    /\ area.fileSize > 0
    /\ \A t \in Threads : pc[t] \in Growing => TooSmall(t)
    /\ \A t \in Threads : pc[t] \in {"remap", "publish"} => disk.len = GrownSize(t)
    /\ \A t \in Threads : pc[t] = "publish" => mapping.hi = GrownSize(t)
    /\ Intact /\ (\A t \in Threads : pc[t] \notin {"remap", "publish"})
         => disk.len = area.fileSize
    /\ (\A t \in Threads : pc[t] # "publish") => mapping.hi = area.fileSize

\* Where a thread has claimed a block and not yet made it its cache.
Claiming == {"check", "wait", "take"} \union Critical

\* Where a thread does not know yet that its block fits.
Unsure == {"check", "wait", "recheck"} \union Growing

\* The slots thread t may still write without claiming a block; nothing is
\* said of what a thread writes whose resize failed.
Owned(t) ==
  IF t \in failing THEN {}
  ELSE IF pc[t] \in Claiming THEN index[t] .. index[t] + CacheQty - 1
  ELSE IF pc[t] \in {"store", "stamp"}
  THEN cache[t] .. cache[t] + cacheRemaining[t] - 1
  ELSE cache[t] .. cache[t] + cacheRemaining[t] - 2

\* Blocks are disjoint, below areaIndex and, once found to fit, in the file.
BlockInv ==
  /\ \A t \in Threads \ failing :
       /\ pc[t] \in {"app", "exit", "store", "stamp"} => cacheRemaining[t] > 0
       /\ pc[t] = "claim" => cacheRemaining[t] = 0
       /\ pc[t] # "failed"
  /\ \A t \in Threads : \A s \in Owned(t) : 0 <= s /\ s < areaIndex
  /\ \A t, u \in Threads : \A s \in Owned(t) : s \in Owned(u) => t = u
  /\ area.fd => \A t \in Threads :
       pc[t] \notin Unsure => \A s \in Owned(t) : s < area.fileSize

\* Only calls that have begun are in the log, whatever becomes of it.
NoInvention ==
  \A s \in Slots : LET r == disk.at[s]
                  IN  r.by \in Threads => r.n <= calls[r.by]

\* Thread t is between storing its record and stamping it.
Half(t, s) == pc[t] = "stamp" /\ s = cache[t]

\* Slots still to be written are empty; the others hold each call once.
RecordsOK ==
  /\ clock.sec > 0
  /\ \A t \in Threads : Returned(t) >= 0
  /\ \A s \in Slots : disk.at[s].by \in Threads => s < areaIndex
  /\ \A t \in Threads : \A s \in Owned(t) :
       s \in Slots => disk.at[s].by = NoThread \/ Half(t, s)
  /\ \A t \in Threads :
       pc[t] = "stamp" => cache[t] \in Slots /\ Holds(cache[t], t, calls[t])
  /\ \A t \in Threads : \A s \in Slots : disk.at[s].by = t =>
       disk.at[s].n \in 1 .. Returned(t) \/ Half(t, s)
  /\ EachCallLogged

\* A thread uses slots, and stamps them, in ascending order.
OrderOK ==
  /\ \A s \in Slots : NotLater(disk.at[s].stamp, clock)
  /\ \A t \in Threads : \A s \in Slots : \A r \in Owned(t) :
       disk.at[s].by = t => s <= r
  /\ \A t \in Threads : \A s, r \in Slots :
       disk.at[s].by = t /\ disk.at[r].by = t /\ disk.at[s].n < disk.at[r].n =>
         /\ s < r
         /\ disk.at[r].n <= Returned(t) =>
              NotLater(disk.at[s].stamp, disk.at[r].stamp)

\* Both end with the first resize that fails.
RecordInv == Intact => RecordsOK
OrderInv  == Intact => OrderOK

\* The whole invariant; it holds when a block has at least one slot.  Its
\* parts say why concurrent handlers never share a slot: the lock, the sizes
\* during a resize, who owns which block, what the slots hold, in which order.
IInv ==
  LockInv /\ SizeInv /\ BlockInv /\ NoInvention /\ RecordInv /\ OrderInv /\ NoFault
=============================================================================
