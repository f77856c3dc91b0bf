--------------------------- MODULE CompactnessInv ---------------------------
(***************************************************************************)
(* The inductive invariants of Compactness, in layers.                     *)
(*                                                                         *)
(* IInv holds of any log: the types, the slots the threads have filled,    *)
(* and the totals of the replay.  CountInv adds, for a realloc that never  *)
(* frees without a record, how often each address was allocated and freed, *)
(* in the log and in the replay.  OrderInv adds, for a clock that advances *)
(* between two stamps, what the order by age says of a realloc in place.   *)
(* OneInv and SizesInv are of a program with one thread: its log is in the *)
(* order of its calls, and any number of first records has the same blocks *)
(* in the replay as in the program.                                        *)
(***************************************************************************)
EXTENDS Compactness

-----------------------------------------------------------------------------
(* The log.                                                                 *)

Records ==
  [mode : {"malloc", "free", "realloc"}, size : Sizes \union {0},
   pointer : Addresses \union {0}, result : Addresses \union {0}]

\* What the handlers store.
RecordOK(r) ==
  /\ r.mode \in {"malloc", "free", "realloc"}
  /\ r.pointer \in Addresses \union {0} /\ r.result \in Addresses \union {0}
  /\ r.mode = "malloc" => r.size \in Sizes /\ r.pointer = 0
  /\ r.mode = "free" => r.result = 0
  /\ r.mode = "realloc" => r.size \in Sizes /\ r.pointer # 0

LogOK ==
  /\ IsFiniteSet(Slots) /\ Slots \subseteq Nat
  /\ \A s \in Slots : RecordOK(log[s]) /\ log[s].stamp \in Stamps

TraceType ==
  /\ heap \in [Addresses -> Sizes \union {Unused}]
  /\ inCall \in [Threads -> {Idle} \union Records]
  /\ \A t \in InFlight : RecordOK(inCall[t])
  /\ LogOK
  /\ clock \in Stamps

\* The slots of thread t's block that it has filled: a prefix of it.
Filled(t) == {s \in Slots : Block(t) <= s /\ s < Block(t) + MaxCalls}

SlotsInv ==
  /\ CallsMade <= MaxCalls
  /\ \A t \in Threads : \A s \in Filled(t) : s < NextSlot(t)

\* Before the first malloc that returned a block is logged, only mallocs and
\* frees of NULL have been called, and each block is that of a call still open.
MallocLogged == \E s \in Slots : log[s].mode = "malloc" /\ log[s].result # 0

FirstInv ==
  \/ MallocLogged
  \/ /\ \A a \in Addresses :
          heap[a] # Unused => \E t \in Threads : inCall[t].mode = "malloc" /\ inCall[t].result = a
     /\ \A t \in Threads : inCall[t].mode # "realloc"
     /\ \A s \in Slots : log[s].mode # "realloc"

\* The record r allocates, or frees, the address a.
AllocsAt(r, a) == Allocs(r) /\ r.result = a
FreesAt(r, a)  == Frees(r) /\ r.pointer = a

\* No realloc frees its block and returns NULL, which no record tells.
NoZeroFrees == ZeroFrees => 0 \notin Sizes

\* Every call the process made is in the log, with what it did to the heap:
\* moreover it did not end with threads in calls.
EveryCallLogged == NoZeroFrees /\ ~ Dies

\* A step in which thread t begins the call that stores r, whatever it calls.
Begins(t, r) ==
  /\ inCall[t] = Idle /\ CallsMade < MaxCalls
  /\ inCall' = [inCall EXCEPT ![t] = r]
  /\ r \in Records /\ RecordOK(r)
  /\ heap' \in [Addresses -> Sizes \union {Unused}]
  /\ log' = log /\ clock' = clock
  /\ r.mode = "realloc" => r.pointer \in Usable
  /\ \A a \in Addresses :
       /\ FreesAt(r, a) => a \in Usable
       /\ AllocsAt(r, a) => heap[a] = Unused \/ FreesAt(r, a)
       /\ heap'[a] # Unused => heap[a] # Unused \/ AllocsAt(r, a)
       /\ NoZeroFrees =>
            (heap'[a] # Unused <=> AllocsAt(r, a) \/ (heap[a] # Unused /\ ~ FreesAt(r, a)))

RunInv == phase = "run" => TraceType /\ SlotsInv /\ FirstInv

-----------------------------------------------------------------------------
(* The replay.                                                              *)

LiveIn(h)  == {a \in Addresses : Open(h, a)}
BytesIn(h) == UNION {BytesAt(a, SizeAt(h, a)) : a \in LiveIn(h)}
OnPage(h, p) == {a \in LiveIn(h) : p \in PagesOf(a, SizeAt(h, a))}

MapOK(h) ==
  /\ h.map \in [Addresses -> {Never} \union [alloc : Slots, free : Slots \union {nullIndex}]]
  /\ \A a \in Addresses :
       h.map[a] # Never => Allocs(log[h.map[a].alloc]) /\ log[h.map[a].alloc].result = a

SizeOK(h) ==
  IsFiniteSet(BytesIn(h)) /\ h.size = Cardinality(BytesIn(h))

PagesOK(h) ==
  /\ IsFiniteSet(DOMAIN h.pages)
  /\ h.pages = [p \in DOMAIN h.pages |-> Cardinality(OnPage(h, p))]
  /\ DOMAIN h.pages = UNION {PagesOf(a, SizeAt(h, a)) : a \in LiveIn(h)}

HeapOK(h) == MapOK(h) /\ SizeOK(h) /\ PagesOK(h)

\* The records taken from order so far.
Taken == 1 .. (IF phase = "retry" THEN orderItr ELSE orderItr - 1)

\* order holds each slot once, the older before the younger.
OrderOK ==
  /\ order \in [1 .. Cardinality(Slots) -> Slots]
  /\ \A s \in Slots : \E i \in DOMAIN order : order[i] = s
  /\ \A i, j \in DOMAIN order : i < j => Older(order[i], order[j])

ListOK ==
  /\ orderItr \in 1 .. Cardinality(Slots) + 1
  /\ retryList \in Seq(Slots)
  /\ retryItr \in 1 .. Len(retryList) + 1
  /\ phase = "retry" => orderItr <= Cardinality(Slots)
  /\ \A i \in DOMAIN retryList : \E k \in 1 .. orderItr - 1 : retryList[i] = order[k]
  /\ \A i, j \in DOMAIN retryList : retryList[i] = retryList[j] => i = j

MarksOK ==
  /\ progress \in BOOLEAN
  /\ clientHighWaterMark \in Nat /\ serverHighWaterMark \in Nat
  /\ \A r \in compactness : r[1] \in Nat /\ r[2] \in Nat /\ r[1] <= r[2]

\* Before there is a ratio nothing is in use, and each alloc is put aside.
RatioInv ==
  compactness # {} \/
    /\ LiveIn(Heap) = {}
    /\ \A k \in Taken : order[k] \notin Range(retryList) => ~ Allocs(log[order[k]])
    /\ \A k \in Taken : ~ (log[order[k]].mode = "malloc" /\ log[order[k]].result # 0)

Replaying == {"build", "retry", "done"}

\* Before the replay begins its variables are as they were at first.
Untouched ==
  /\ order = <<>> /\ orderItr = 1 /\ retryList = <<>> /\ retryItr = 1 /\ progress = FALSE
  /\ allocationMap = [a \in Addresses |-> Never] /\ vmPagesImplicit = <<>>
  /\ clientSize = 0 /\ clientHighWaterMark = 0 /\ serverHighWaterMark = 0
  /\ compactness = {}

ReplayInv ==
  /\ phase \in {"run", "sizes", "crashed"} => Untouched
  /\ phase \in Replaying =>
       OrderOK /\ ListOK /\ HeapOK(Heap) /\ MarksOK /\ RatioInv
  /\ phase = "done" => orderItr = Cardinality(Slots) + 1

\* A realloc that returned a block is logged only after a malloc that did.
LoggedInv ==
  phase # "run" => LogOK /\ ((\E s \in Slots : Allocs(log[s])) => MallocLogged)

IInv ==
  /\ phase \in {"run", "sizes", "build", "retry", "done", "crashed"}
  /\ RunInv /\ LoggedInv /\ ReplayInv

-----------------------------------------------------------------------------
(* How often an address was allocated and freed.                            *)

AllocSlots(S, a) == {s \in S : AllocsAt(log[s], a)}
FreeSlots(S, a)  == {s \in S : FreesAt(log[s], a)}
Allocating(a)    == {t \in InFlight : AllocsAt(inCall[t], a)}
Freeing(a)       == {t \in InFlight : FreesAt(inCall[t], a)}

InUse(b) == IF b THEN 1 ELSE 0

\* Each address was freed as often as it was allocated, save for the last
\* time if it is in use, by the calls that are logged and those still open.
BalanceOK ==
  \A a \in Addresses :
    /\ Cardinality(AllocSlots(Slots, a)) + Cardinality(Allocating(a))
         = Cardinality(FreeSlots(Slots, a)) + Cardinality(Freeing(a)) + InUse(heap[a] # Unused)
    /\ \A t, u \in Allocating(a) : t = u
    /\ Allocating(a) # {} => heap[a] # Unused

\* The records placed so far.
PlacedSlots == {order[k] : k \in Taken} \ Range(retryList)

ReplayBalance ==
  \A a \in Addresses :
    Cardinality(AllocSlots(PlacedSlots, a))
      = Cardinality(FreeSlots(PlacedSlots, a)) + InUse(Open(Heap, a))

CountInv ==
  /\ phase \in {"run", "sizes", "build", "retry", "done"} => BalanceOK
  /\ phase # "run" => InFlight = {}
  /\ phase \in Replaying => ReplayBalance

-----------------------------------------------------------------------------
(* What a realloc in place finds.                                           *)

\* No realloc of the log has moved its block.
Unmoved == \A s \in Slots : log[s].mode = "realloc" => log[s].result \in {0, log[s].pointer}

InPlace(r) == r.mode = "realloc" /\ r.result # 0

Before(a, b) == a.sec < b.sec \/ (a.sec = b.sec /\ a.usec < b.usec)

OlderThanSlot(s) == {r \in Slots : Older(r, s)}

\* Of the records older than a realloc in place, more allocated its address
\* than freed it.
InUseBefore ==
  \A s \in Slots :
    InPlace(log[s]) /\ log[s].result = log[s].pointer =>
      Cardinality(FreeSlots(OlderThanSlot(s), log[s].result))
        < Cardinality(AllocSlots(OlderThanSlot(s), log[s].result))

ClockOK == phase = "run" => \A s \in Slots : Before(log[s].stamp, clock)

\* What is in retryList does not fit, but for what a pass has not come to.
QuietOK ==
  /\ phase \in {"build", "done"} => \A i \in Range(retryList) : ~ Fits(Heap, i)
  /\ phase = "retry" /\ ~ progress =>
       \A i \in {retryList[k] : k \in 1 .. retryItr - 1} : ~ Fits(Heap, i)

OrderInv ==
  /\ ClockOK
  /\ InUseBefore
  /\ QuietOK
  /\ Unmoved /\ phase \in Replaying => \A i \in Range(retryList) : ~ InPlace(log[i])

\* build leaves no record unplaced for a program whose reallocs never move a
\* block, however many threads it has.
UnmovedPlaced == Unmoved => AllPlaced

-----------------------------------------------------------------------------
(* One thread.                                                              *)

SlotsBefore(s) == {r \in Slots : r < s}

\* The log tells the calls in their order: what is freed was in use, and what
\* is allocated was not.
InTurn ==
  \A s \in Slots, a \in Addresses :
    LET allocs == Cardinality(AllocSlots(SlotsBefore(s), a))
        frees  == Cardinality(FreeSlots(SlotsBefore(s), a))
    IN  /\ FreesAt(log[s], a) => frees < allocs
        /\ AllocsAt(log[s], a) /\ ~ FreesAt(log[s], a) => allocs = frees

\* The stamps never go back.
StampsOK ==
  /\ \A r, s \in Slots : r < s => NotLater(log[r].stamp, log[s].stamp)
  /\ phase = "run" =>
       \A s \in Slots : s < Cardinality(Slots) /\ NotLater(log[s].stamp, clock)

OneInv == InTurn /\ StampsOK /\ retryList = <<>>

\* Every call is logged, by one thread, and the clock is not set back.
OneByOne == EveryCallLogged /\ NThreads = 1 /\ Clock # "set"

-----------------------------------------------------------------------------
(* The sizes of one thread's blocks, from its records.                      *)

\* The log with the record of the call that is open.
Whole ==
  IF InFlight = {} THEN log
  ELSE [s \in Slots \union {Cardinality(Slots)} |-> IF s \in Slots THEN log[s] ELSE inCall[1]]

WholeLength == Cardinality(Slots) + InUse(InFlight # {})

\* Those of the first k records of L whose block none of them frees later.
OpenAfter(L, k) ==
  {s \in 0 .. k - 1 : Allocs(L[s]) /\ \A r \in s + 1 .. k - 1 : ~ FreesAt(L[r], L[s].result)}

BytesAfter(L, k) == UNION {BytesAt(L[s].result, L[s].size) : s \in OpenAfter(L, k)}

\* The most bytes there are after any of the first n records of L.
MostBytes(L, n, most) ==
  /\ \A k \in 0 .. n : Cardinality(BytesAfter(L, k)) <= most
  /\ \E k \in 0 .. n : Cardinality(BytesAfter(L, k)) = most

\* The program's heap is what the first n records of L make of an empty one.
HeapAfter(L, n) ==
  /\ \A s \in OpenAfter(L, n) : heap[L[s].result] = L[s].size
  /\ \A a \in Addresses : heap[a] # Unused => \E s \in OpenAfter(L, n) : L[s].result = a

CalledInv ==
  /\ Slots = 0 .. Cardinality(Slots) - 1
  /\ HeapAfter(Whole, WholeLength) /\ MostBytes(Whole, WholeLength, peak)

\* What allocationMap has open is what the first k records have allocated.
Rebuilt(map, k) ==
  /\ \A s \in OpenAfter(log, k) : map[log[s].result] = [alloc |-> s, free |-> nullIndex]
  /\ \A a \in Addresses :
       map[a] # Never /\ map[a].free = nullIndex => map[a].alloc \in OpenAfter(log, k)

ReplayedTo(k) ==
  /\ PlacedSlots = 0 .. k - 1
  /\ Rebuilt(allocationMap, k)
  /\ MostBytes(log, k, clientHighWaterMark)

SizesInv ==
  /\ CalledInv
  /\ phase \in Replaying => \E k \in 0 .. Cardinality(Slots) : ReplayedTo(k)
=============================================================================
