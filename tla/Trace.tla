------------------------------- MODULE Trace -------------------------------
(***************************************************************************)
(* The records LogMmap leaves of a program's calls (the handlers of        *)
(* mprofLogMmap.c): what each stores, and when it is stamped compared with *)
(* the backing allocator's own step.  The log itself, its blocks and its   *)
(* resizing, is in LogMmap; here a thread has one block, in the order of   *)
(* the threads.                                                            *)
(*                                                                         *)
(* The program is one that uses malloc as it should: it passes on and      *)
(* frees what a call has returned, once.                                   *)
(***************************************************************************)
EXTENDS Integers, Sequences, FiniteSetsExt, Chrono

CONSTANTS
  NThreads,                \* threads of the program
  Addresses,               \* where the backing allocator has room for a block
  Sizes,                   \* bytes a call asks for
  Nulls,                   \* calls may fail, and free( NULL ) happen
  ZeroFrees,               \* realloc( p, 0 ) frees p and returns NULL (glibc)
  Clock,                   \* "fine": it advances between two stamps; "coarse":
                           \* or stands still; "set": or is set back
  Dies,                    \* the process may end while threads are in calls
  MaxCalls                 \* bound: calls of the program

ASSUME TraceAssumption ==
  /\ {NThreads, MaxCalls} \subseteq Nat
  /\ Addresses \subseteq Nat \ {0} /\ IsFiniteSet(Addresses)
  /\ \A a, b \in Addresses, n \in Sizes : n \in Nat /\ (a < b => a + n <= b)
  /\ {Nulls, ZeroFrees, Dies} \subseteq BOOLEAN /\ Clock \in {"fine", "coarse", "set"}

VARIABLES
  heap,                    \* size of the block at each address, or Unused
  inCall,                  \* the record each thread has still to stamp
  log,                     \* the records, by slot
  clock,                   \* what gettimeofday returns next
  peak                     \* most bytes the heap has held

traceVars == <<heap, inCall, log, clock, peak>>

Threads == 1 .. NThreads
Unused  == -1
Idle    == [mode |-> "empty"]
Slots   == DOMAIN log

FirstStamp == [sec |-> 1, usec |-> 0]

TraceInit ==
  /\ heap   = [a \in Addresses |-> Unused]
  /\ inCall = [t \in Threads |-> Idle]
  /\ log    = <<>>
  /\ clock  = FirstStamp
  /\ peak   = 0

Highest(a, b) == IF a > b THEN a ELSE b

Room == {a \in Addresses : heap[a] = Unused}

ZeroFreed(n) == n = 0 /\ ZeroFrees

\* The block the program has back only when the call of thread t returns.
Kept(t) ==
  LET r == inCall[t]
  IN  IF r = Idle THEN {}
      ELSE IF r.mode = "realloc" /\ r.result = 0 /\ ~ ZeroFreed(r.size) THEN {r.pointer}
      ELSE {r.result}

\* Where the program has blocks it may use.
Usable == Addresses \ (Room \union UNION {Kept(t) : t \in Threads})

CallsMade == Cardinality(Slots) + Cardinality({t \in Threads : inCall[t] # Idle})

\* The bytes of a block of n bytes at a, and how many those of a heap are.
BytesAt(a, n) == a .. a + n - 1
Bytes(h) == Cardinality(UNION {BytesAt(a, h[a]) : a \in Addresses})

Record(m, n, p, q) == [mode |-> m, size |-> n, pointer |-> p, result |-> q]

\* Thread t is in a call for which the backing allocator has done its work,
\* with the heap h after it, and the arguments and the result are stored.
Calls(t, r, h) ==
  /\ inCall[t] = Idle /\ CallsMade < MaxCalls
  /\ inCall' = [inCall EXCEPT ![t] = r]
  /\ heap' = h
  /\ peak' = Highest(peak, Bytes(h))
  /\ UNCHANGED <<log, clock>>

\* mallocLogMmap, and callocLogMmap for the product of its arguments.
Malloc(t) ==
  \E n \in Sizes :
    \/ \E q \in Room : Calls(t, Record("malloc", n, 0, q), [heap EXCEPT ![q] = n])
    \/ Nulls /\ Calls(t, Record("malloc", n, 0, 0), heap)

\* freeLogMmap
Free(t) ==
  \/ \E p \in Usable : Calls(t, Record("free", 0, p, 0), [heap EXCEPT ![p] = Unused])
  \/ Nulls /\ Calls(t, Record("free", 0, 0, 0), heap)

Moved(p, q, n) == [[heap EXCEPT ![p] = Unused] EXCEPT ![q] = n]

\* reallocLogMmap: in place, to another address, or not at all.  The analysis
\* takes realloc( NULL, n ) for a malloc, and so it is left to Malloc.
Realloc(t) ==
  \E p \in Usable, n \in Sizes :
    \/ /\ ~ ZeroFreed(n)
       /\ \E q \in Room \union {p} : Calls(t, Record("realloc", n, p, q), Moved(p, q, n))
    \/ ~ ZeroFreed(n) /\ Nulls /\ Calls(t, Record("realloc", n, p, 0), heap)
    \/ ZeroFreed(n) /\ Calls(t, Record("realloc", n, p, 0), [heap EXCEPT ![p] = Unused])

\* The first slot of thread t's block, and the next one it uses.
Block(t) == (t - 1) * MaxCalls
NextSlot(t) ==
  Block(t) + Cardinality({s \in Slots : Block(t) <= s /\ s < Block(t) + MaxCalls})

\* What gettimeofday may return after clock.
NextStamps ==
  {NextStamp(clock)} \union (IF Clock = "fine" THEN {} ELSE {clock})
                     \union (IF Clock = "set" THEN {FirstStamp} ELSE {})

Stamped(r, c) ==
  [mode |-> r.mode, size |-> r.size, pointer |-> r.pointer, result |-> r.result, stamp |-> c]

\* mprofRecordTimeStamp( cache++ ) and the return.
Stamp(t) ==
  /\ inCall[t] # Idle
  /\ log' = [s \in Slots \union {NextSlot(t)} |->
               IF s = NextSlot(t) THEN Stamped(inCall[t], clock) ELSE log[s]]
  /\ inCall' = [inCall EXCEPT ![t] = Idle]
  /\ clock' \in NextStamps
  /\ UNCHANGED <<heap, peak>>

InFlight == {t \in Threads : inCall[t] # Idle}

\* The log a process leaves when it ends with threads in calls: those of S
\* have got as far as header.mode, the others' records are still empty.
LeftBehind(S) ==
  [s \in Slots \union {NextSlot(t) : t \in S} |->
     IF s \in Slots THEN log[s]
     ELSE Stamped(inCall[CHOOSE t \in S : NextSlot(t) = s], NoStamp)]

TraceNext == \E t \in Threads : Malloc(t) \/ Free(t) \/ Realloc(t) \/ Stamp(t)
=============================================================================
