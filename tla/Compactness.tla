---------------------------- MODULE Compactness ----------------------------
(***************************************************************************)
(* The analysis of a log (mprof::CompactnessAnalysis, mprofProfile.cpp):   *)
(* it replays the records in the order of their stamps, puts aside those   *)
(* that do not fit what it has replayed, and tries them again after each   *)
(* one that did.  The log is one Trace can leave.                          *)
(*                                                                         *)
(* Abstractions: a block list of allocationMap is its last entry, the only *)
(* one the code reads; empty records, which sort first and change nothing, *)
(* are not in the log; the list of ratios is the set of its fractions; the *)
(* messages of build are left out, and lastIndex, which only they use.     *)
(* mprofSizeAnalysis, which runs before it on the same log, is one step.   *)
(***************************************************************************)
EXTENDS Trace, SequencesExt, Functions

CONSTANT VmPageSize

ASSUME VmPageSizeAssumption == VmPageSize \in Nat \ {0}

VARIABLES
  phase,                   \* "run", "sizes", "build", "retry", "done", "crashed"
  order, orderItr,         \* slots by age; the next one
  retryList, retryItr,     \* records put aside; the next one to try
  progress,                \* one was placed in this pass over retryList
  allocationMap,           \* last alloc and free record of each address
  clientSize, clientHighWaterMark,
  vmPagesImplicit,         \* blocks on each page that has any
  serverHighWaterMark,
  compactness              \* least pages and pages, after each record placed

iterVars == <<order, orderItr, retryList, retryItr, progress>>
heapVars == <<allocationMap, clientSize, clientHighWaterMark,
              vmPagesImplicit, serverHighWaterMark, compactness>>
vars     == <<traceVars, phase, iterVars, heapVars>>

nullIndex == -1
Never     == [alloc |-> nullIndex, free |-> 0]   \* no entry for the address

Init ==
  /\ TraceInit
  /\ phase = "run"
  /\ order = <<>> /\ orderItr = 1
  /\ retryList = <<>> /\ retryItr = 1 /\ progress = FALSE
  /\ allocationMap = [a \in Addresses |-> Never]
  /\ clientSize = 0 /\ clientHighWaterMark = 0
  /\ vmPagesImplicit = <<>> /\ serverHighWaterMark = 0 /\ compactness = {}

-----------------------------------------------------------------------------
(* addRecord, on a heap h = [map, size, pages].                             *)

Heap == [map |-> allocationMap, size |-> clientSize, pages |-> vmPagesImplicit]

\* A mutated getFree that takes a failed realloc for a free.
Frees_AnyResult(r) == r.mode \in {"free", "realloc"} /\ r.pointer # 0

\* getFree and getAlloc, with an address that is not NULL.
Frees(r)  == r.pointer # 0 /\ (r.mode = "free" \/ (r.mode = "realloc" /\ r.result # 0))
Allocs(r) == r.mode \in {"malloc", "realloc"} /\ r.result # 0

Open(h, a)   == h.map[a] # Never /\ h.map[a].free = nullIndex
SizeAt(h, a) == log[h.map[a].alloc].size

\* A mutated refPages that looks at the first page only.
PagesOf_First(a, n) == {a \div VmPageSize}

\* refPages, for the block of n bytes at a.
PagesOf(a, n) == a \div VmPageSize .. (a + n) \div VmPageSize

RefPages(pages, a, n) ==
  [p \in DOMAIN pages \union PagesOf(a, n) |->
     (IF p \in DOMAIN pages THEN pages[p] ELSE 0)
       + (IF p \in PagesOf(a, n) THEN 1 ELSE 0)]

UnrefPages(pages, a, n) ==
  LET left == [p \in DOMAIN pages \union PagesOf(a, n) |->
                 IF p \notin DOMAIN pages THEN 0
                 ELSE pages[p] - (IF p \in PagesOf(a, n) THEN 1 ELSE 0)]
  IN  RestrictDomain(left, LAMBDA p : p \notin DOMAIN pages \/ left[p] # 0)

Release(h, a, i) ==
  [map   |-> [h.map EXCEPT ![a].free = i],
   size  |-> h.size - SizeAt(h, a),
   pages |-> UnrefPages(h.pages, a, SizeAt(h, a))]

Acquire(h, a, i) ==
  [map   |-> [h.map EXCEPT ![a] = [alloc |-> i, free |-> nullIndex]],
   size  |-> h.size + log[i].size,
   pages |-> RefPages(h.pages, a, log[i].size)]

\* A mutated correction that forgets the entry of allocationMap.
Restore_KeepEntry(h, a) ==
  [map   |-> h.map,
   size  |-> h.size + SizeAt(h, a),
   pages |-> RefPages(h.pages, a, SizeAt(h, a))]

\* The correction of a realloc that could free and not allocate.
Restore(h, a) ==
  [map   |-> [h.map EXCEPT ![a].free = nullIndex],
   size  |-> h.size + SizeAt(h, a),
   pages |-> RefPages(h.pages, a, SizeAt(h, a))]

CanFree(h, i) == Frees(log[i]) => Open(h, log[i].pointer)
Freed(h, i)   == IF Frees(log[i]) THEN Release(h, log[i].pointer, i) ELSE h

\* A mutated addRecord that takes any alloc.
CanAlloc_Always(h, i) == TRUE

\* A mutated addRecord that takes an address without an entry for one in use.
CanAlloc_NeedsEntry(h, i) ==
  Allocs(log[i]) => ~ Open(h, log[i].result) /\ h.map[log[i].result] # Never

\* The address is not in use.
CanAlloc(h, i) == Allocs(log[i]) => ~ Open(h, log[i].result)

\* addRecord returns true.
Fits(h, i) == CanFree(h, i) /\ CanAlloc(Freed(h, i), i)

\* The heap addRecord leaves if so, and if not.
Placed(h, i) ==
  IF Allocs(log[i]) THEN Acquire(Freed(h, i), log[i].result, i) ELSE Freed(h, i)
PutBack(h, i) ==
  IF Frees(log[i]) /\ CanFree(h, i) THEN Restore(Freed(h, i), log[i].pointer) ELSE h

\* setCompactness: the least pages that hold n bytes.
MinPages(n) == IF n = 0 THEN 0 ELSE (n - 1) \div VmPageSize + 1

\* ... and the ratio it adds, of the pages the blocks are on.
Ratio(h) ==
  LET pages == Cardinality(DOMAIN h.pages)
  IN  IF pages = 0 THEN {} ELSE {<<MinPages(h.size), pages>>}

AddRecord(i) ==
  LET h == IF Fits(Heap, i) THEN Placed(Heap, i) ELSE PutBack(Heap, i)
  IN  /\ allocationMap' = h.map /\ clientSize' = h.size /\ vmPagesImplicit' = h.pages
      /\ clientHighWaterMark' =
           IF Fits(Heap, i) THEN Highest(clientHighWaterMark, h.size) ELSE clientHighWaterMark
      /\ serverHighWaterMark' = Highest(serverHighWaterMark, Cardinality(DOMAIN h.pages))
      /\ compactness' = IF Fits(Heap, i) THEN compactness \union Ratio(h) ELSE compactness

-----------------------------------------------------------------------------
(* The program's calls; then the log is sorted and replayed.                *)

Run ==
  /\ phase = "run"
  /\ TraceNext
  /\ UNCHANGED <<phase, iterVars, heapVars>>

\* The process ends; S are the threads in calls that have stored their mode.
End ==
  /\ phase = "run"
  /\ InFlight # {} => Dies
  /\ \E S \in SUBSET InFlight : log' = LeftBehind(S)
  /\ log' # <<>>
  /\ phase' = "sizes"
  /\ UNCHANGED <<heap, inCall, clock, peak, iterVars, heapVars>>

\* countSizes: the records that ask for n bytes, whatever the result was.
Asking == {s \in Slots : log[s].mode \in {"malloc", "realloc"}}
CountSizes ==
  [n \in {log[s].size : s \in Asking} |-> Cardinality({s \in Asking : log[s].size = n})]
TotalSize == MapThenSumSet(LAMBDA s : log[s].size, Asking)

\* sortChrono: the i-th of the records by age.
Older(r, s) == OlderThan(log[r].stamp, r, log[s].stamp, s)
ByAge ==
  [i \in 1 .. Cardinality(Slots) |->
     CHOOSE s \in Slots : Cardinality({r \in Slots : Older(r, s)}) = i - 1]

\* mprofSizeAnalysis divides by the total for each size there is: SIGFPE.
\* Otherwise the records are sorted, and build begins.
Sort ==
  /\ phase = "sizes"
  /\ IF DOMAIN CountSizes # {} /\ TotalSize = 0
     THEN phase' = "crashed" /\ UNCHANGED order
     ELSE order' = ByAge /\ phase' = "build"
  /\ UNCHANGED <<traceVars, orderItr, retryList, retryItr, progress, heapVars>>

\* The next record: if it fits, what was put aside is tried again.
NextRecord ==
  /\ phase = "build" /\ orderItr <= Len(order)
  /\ AddRecord(order[orderItr])
  /\ IF Fits(Heap, order[orderItr])
     THEN /\ phase' = "retry" /\ retryItr' = 1 /\ progress' = FALSE
          /\ UNCHANGED <<orderItr, retryList>>
     ELSE /\ retryList' = Append(retryList, order[orderItr])
          /\ orderItr' = orderItr + 1
          /\ UNCHANGED <<phase, retryItr, progress>>
  /\ UNCHANGED <<traceVars, order>>

\* A mutated loop that skips what follows an erased record.
Retry_SkipsNext ==
  /\ phase = "retry" /\ retryItr <= Len(retryList)
  /\ AddRecord(retryList[retryItr])
  /\ retryItr' = retryItr + 1
  /\ IF Fits(Heap, retryList[retryItr])
     THEN retryList' = RemoveAt(retryList, retryItr) /\ progress' = TRUE
     ELSE UNCHANGED <<retryList, progress>>
  /\ UNCHANGED <<traceVars, phase, order, orderItr>>

\* One record put aside.
Retry ==
  /\ phase = "retry" /\ retryItr <= Len(retryList)
  /\ AddRecord(retryList[retryItr])
  /\ IF Fits(Heap, retryList[retryItr])
     THEN /\ retryList' = RemoveAt(retryList, retryItr) /\ progress' = TRUE
          /\ UNCHANGED retryItr
     ELSE retryItr' = retryItr + 1 /\ UNCHANGED <<retryList, progress>>
  /\ UNCHANGED <<traceVars, phase, order, orderItr>>

\* A mutated build that forgets to reset progress.
EndPass_Progress ==
  /\ phase = "retry" /\ retryItr > Len(retryList)
  /\ retryItr' = 1
  /\ IF progress THEN UNCHANGED <<phase, orderItr>>
     ELSE phase' = "build" /\ orderItr' = orderItr + 1
  /\ UNCHANGED <<traceVars, order, retryList, progress, heapVars>>

\* The end of a pass: another one if a record was placed in it.
EndPass ==
  /\ phase = "retry" /\ retryItr > Len(retryList)
  /\ retryItr' = 1 /\ progress' = FALSE
  /\ IF progress THEN UNCHANGED <<phase, orderItr>>
     ELSE phase' = "build" /\ orderItr' = orderItr + 1
  /\ UNCHANGED <<traceVars, order, retryList, heapVars>>

\* build warns of what is still in retryList.
Done ==
  /\ phase = "build" /\ orderItr > Len(order)
  /\ phase' = "done"
  /\ UNCHANGED <<traceVars, iterVars, heapVars>>

Terminated == phase \in {"done", "crashed"} /\ UNCHANGED vars

Build == NextRecord \/ Retry \/ EndPass \/ Done
Next == Run \/ End \/ Sort \/ Build \/ Terminated

Spec == Init /\ [][Next]_vars

FairSpec == Spec /\ WF_vars(Build)

-----------------------------------------------------------------------------
(* Properties.                                                              *)

TypeOK ==
  /\ phase \in {"run", "sizes", "build", "retry", "done", "crashed"} /\ progress \in BOOLEAN
  /\ IsInjective(order) /\ Range(order) \subseteq Slots
  /\ IsInjective(retryList) /\ Range(retryList) \subseteq Range(order)
  /\ orderItr \in 1 .. Len(order) + 1 /\ retryItr \in 1 .. Len(retryList) + 1
  /\ \A a \in Addresses :
       allocationMap[a] \in {Never} \union [alloc : Slots, free : Slots \union {nullIndex}]
  /\ \A p \in DOMAIN vmPagesImplicit : p \in Nat /\ vmPagesImplicit[p] \in Nat \ {0}
  /\ {clientSize, clientHighWaterMark, serverHighWaterMark} \subseteq Nat

\* build leaves no record unplaced: its warnings "found double alloc" and
\* "found unmatched free" (149, 152) are never given for a program that has no
\* such call. So it is with one thread; with any number of threads as long as
\* no realloc moves a block; and with two threads in the instances checked.
\* With three, reallocs that move blocks break it (MCCompactness).
AllPlaced == phase = "done" => retryList = <<>>

\* A replay that placed every record has open exactly the addresses that are
\* in use when the program ends, though it may have placed the records in
\* an order in which nothing ever happened.
HeapRebuilt ==
  phase = "done" /\ retryList = <<>> => \A a \in Addresses : Open(Heap, a) <=> heap[a] # Unused

\* All the calls came from one thread.
OneThread == \E t \in Threads : \A s \in Slots : s \in Block(t) .. Block(t) + MaxCalls - 1

\* Of a program with one thread it also knows the size of each, and the most
\* bytes there ever were.  With more threads neither is so: a realloc in
\* place may be taken for one of an earlier block at its address.
SizesRebuilt ==
  phase = "done" /\ OneThread =>
    /\ \A a \in Addresses : Open(Heap, a) => SizeAt(Heap, a) = heap[a]
    /\ clientHighWaterMark = peak

Live == {a \in Addresses : Open(Heap, a)}

\* The running totals are those of the blocks open in allocationMap, at each
\* step and for any log, one with impossible calls included: the frees of
\* reallocs that had to be put back leave nothing behind, and no total ever
\* goes below zero.
Accounted ==
  /\ clientSize = Cardinality(UNION {BytesAt(a, SizeAt(Heap, a)) : a \in Live})
  /\ \A p \in UNION {PagesOf(a, n) : a \in Addresses, n \in Sizes} :
       LET n == Cardinality({a \in Live : p \in PagesOf(a, SizeAt(Heap, a))})
       IN  IF n = 0 THEN p \notin DOMAIN vmPagesImplicit
           ELSE p \in DOMAIN vmPagesImplicit /\ vmPagesImplicit[p] = n

\* No ratio reported as compactness exceeds 1: at no time are the blocks
\* replayed on fewer pages than the least number their bytes need.
AtMostCompact == \A r \in compactness : r[1] <= r[2]

\* min and max are not asked of an empty list, unless no record of the log is
\* of a call that succeeded in allocating.
RatioReported ==
  phase = "done" /\ (\E s \in Slots : Allocs(log[s])) => compactness # {}

\* The loop over retryList ends, though each record placed starts it anew.
BuildEnds == phase = "build" ~> phase = "done"
=============================================================================
