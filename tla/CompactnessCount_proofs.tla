------------------------ MODULE CompactnessCount_proofs ------------------------
(***************************************************************************)
(* What the analysis makes of a whole log: CountInv and OrderInv are       *)
(* invariants, the first of a process that ends with every call logged,    *)
(* the second if moreover the clock advances between two stamps; for one   *)
(* thread OneInv and SizesInv, with a clock that may stand still.          *)
(***************************************************************************)
EXTENDS Compactness_proofs

-----------------------------------------------------------------------------
(* Counting.                                                                *)

\* An element more, or not.
LEMMA CountMore ==
  ASSUME NEW X, IsFiniteSet(X), NEW x, x \notin X, NEW b \in BOOLEAN,
         NEW Y, Y = X \union (IF b THEN {x} ELSE {})
  PROVE  /\ IsFiniteSet(Y) /\ Cardinality(X) \in Nat
         /\ Cardinality(Y) = Cardinality(X) + InUse(b)
<1>1. Cardinality(X) \in Nat
  BY FS_CardinalityType
<1>2. CASE b
  <2>1. Y = X \union {x}
    BY <1>2
  <2> QED
    BY <1>1, <1>2, <2>1, FS_AddElement DEF InUse
<1>3. CASE ~ b
  <2>1. Y = X
    BY <1>3
  <2> QED
    BY <1>1, <1>3, <2>1 DEF InUse
<1> QED
  BY <1>2, <1>3, <1>1

\* An element less, or not.
LEMMA CountLess ==
  ASSUME NEW X, IsFiniteSet(X), NEW x, NEW b \in BOOLEAN, b <=> x \in X,
         NEW Y, Y = X \ {x}
  PROVE  /\ IsFiniteSet(Y) /\ Cardinality(Y) \in Nat
         /\ Cardinality(X) = Cardinality(Y) + InUse(b)
<1>1. Cardinality(X) \in Nat /\ IsFiniteSet(Y) /\ Cardinality(Y) \in Nat
  BY FS_CardinalityType, FS_RemoveElement
<1> QED
  BY <1>1, FS_RemoveElement DEF InUse

\* The records and the calls that are counted.
LEMMA CountFacts ==
  ASSUME IsFiniteSet(Slots)
  PROVE  /\ \A a : \A S \in SUBSET Slots :
              /\ IsFiniteSet(AllocSlots(S, a)) /\ Cardinality(AllocSlots(S, a)) \in Nat
              /\ IsFiniteSet(FreeSlots(S, a)) /\ Cardinality(FreeSlots(S, a)) \in Nat
         /\ \A a : /\ IsFiniteSet(Allocating(a)) /\ Cardinality(Allocating(a)) \in Nat
                   /\ IsFiniteSet(Freeing(a)) /\ Cardinality(Freeing(a)) \in Nat
<1>1. ASSUME NEW S \in SUBSET Slots, NEW a
      PROVE  /\ IsFiniteSet(AllocSlots(S, a)) /\ Cardinality(AllocSlots(S, a)) \in Nat
             /\ IsFiniteSet(FreeSlots(S, a)) /\ Cardinality(FreeSlots(S, a)) \in Nat
  <2>1. AllocSlots(S, a) \subseteq Slots /\ FreeSlots(S, a) \subseteq Slots
    BY DEF AllocSlots, FreeSlots
  <2> QED
    BY <2>1, FS_Subset, FS_CardinalityType
<1>2. ASSUME NEW a
      PROVE  /\ IsFiniteSet(Allocating(a)) /\ Cardinality(Allocating(a)) \in Nat
             /\ IsFiniteSet(Freeing(a)) /\ Cardinality(Freeing(a)) \in Nat
  <2>1. Allocating(a) \subseteq InFlight /\ Freeing(a) \subseteq InFlight
    BY DEF Allocating, Freeing
  <2> QED
    BY <2>1, InFlightFacts, FS_Subset, FS_CardinalityType
<1> QED
  BY <1>1, <1>2

\* A set of records and one more.
LEMMA OneMore ==
  ASSUME IsFiniteSet(Slots), NEW S \in SUBSET Slots, NEW i \in Slots, i \notin S, NEW a
  PROVE  /\ Cardinality(AllocSlots(S \union {i}, a))
              = Cardinality(AllocSlots(S, a)) + InUse(AllocsAt(log[i], a))
         /\ Cardinality(FreeSlots(S \union {i}, a))
              = Cardinality(FreeSlots(S, a)) + InUse(FreesAt(log[i], a))
<1>1. AllocsAt(log[i], a) \in BOOLEAN /\ FreesAt(log[i], a) \in BOOLEAN
  BY DEF AllocsAt, FreesAt, Allocs, Frees
<1>2. AllocSlots(S \union {i}, a)
        = AllocSlots(S, a) \union (IF AllocsAt(log[i], a) THEN {i} ELSE {})
  BY DEF AllocSlots
<1>3. FreeSlots(S \union {i}, a)
        = FreeSlots(S, a) \union (IF FreesAt(log[i], a) THEN {i} ELSE {})
  BY DEF FreeSlots
<1>4. i \notin AllocSlots(S, a) /\ i \notin FreeSlots(S, a)
  BY DEF AllocSlots, FreeSlots
<1>5. IsFiniteSet(AllocSlots(S, a)) /\ IsFiniteSet(FreeSlots(S, a))
  BY CountFacts
<1>6. Cardinality(AllocSlots(S \union {i}, a))
        = Cardinality(AllocSlots(S, a)) + InUse(AllocsAt(log[i], a))
  BY <1>1, <1>2, <1>4, <1>5, CountMore
<1>7. Cardinality(FreeSlots(S \union {i}, a))
        = Cardinality(FreeSlots(S, a)) + InUse(FreesAt(log[i], a))
  BY <1>1, <1>3, <1>4, <1>5, CountMore
<1> QED
  BY <1>6, <1>7

\* Fewer records.
LEMMA FewerRecords ==
  ASSUME IsFiniteSet(Slots), NEW T \in SUBSET Slots, NEW S \in SUBSET T, NEW a
  PROVE  /\ Cardinality(AllocSlots(S, a)) <= Cardinality(AllocSlots(T, a))
         /\ Cardinality(FreeSlots(S, a)) <= Cardinality(FreeSlots(T, a))
<1>1. /\ AllocSlots(S, a) \subseteq AllocSlots(T, a)
      /\ FreeSlots(S, a) \subseteq FreeSlots(T, a)
  BY DEF AllocSlots, FreeSlots
<1> QED
  BY <1>1, CountFacts, FS_Subset

\* A record that allocates or frees an address, in a call or in the log.
LEMMA SameCall ==
  ASSUME NEW r, NEW c, NEW a
  PROVE  /\ AllocsAt(Stamped(r, c), a) <=> AllocsAt(r, a)
         /\ FreesAt(Stamped(r, c), a) <=> FreesAt(r, a)
BY DEF Stamped, AllocsAt, FreesAt, Allocs, Frees

-----------------------------------------------------------------------------
(* The calls, counted.                                                      *)

\* A call that allocates an address keeps it until it returns.
LEMMA AllocatingKept ==
  ASSUME TraceType, NEW a \in Usable, NEW t \in Threads, t \in InFlight
  PROVE  ~ AllocsAt(inCall[t], a)
<1> SUFFICES ASSUME AllocsAt(inCall[t], a) PROVE FALSE
  OBVIOUS
<1>1. inCall[t] # Idle /\ inCall[t].result = a /\ inCall[t].result # 0
  BY DEF InFlight, AllocsAt, Allocs
<1>2. Kept(t) = {a}
  BY <1>1 DEF Kept
<1> QED
  BY <1>2 DEF Usable

\* A call that begins.
LEMMA BeginsBalance ==
  ASSUME TraceType, BalanceOK, NoZeroFrees, NEW t \in Threads, NEW r, Begins(t, r)
  PROVE  BalanceOK'
<1>1. /\ t \notin InFlight /\ InFlight' = InFlight \union {t}
      /\ inCall'[t] = r /\ \A u \in Threads : u # t => inCall'[u] = inCall[u]
      /\ log' = log /\ Slots' = Slots /\ IsFiniteSet(Slots)
  BY BeginsFacts, SameLog DEF Begins, TraceType, LogOK
<1>2. \A a \in Addresses :
        /\ FreesAt(r, a) => a \in Usable /\ heap[a] # Unused
        /\ AllocsAt(r, a) => heap[a] = Unused \/ FreesAt(r, a)
        /\ heap'[a] # Unused <=> AllocsAt(r, a) \/ (heap[a] # Unused /\ ~ FreesAt(r, a))
  BY DEF Begins, Usable, Room
<1>3. \A u \in InFlight : u \in Threads /\ u # t
  BY <1>1 DEF InFlight
<1> SUFFICES ASSUME NEW a \in Addresses
             PROVE  /\ (Cardinality(AllocSlots(Slots, a)) + Cardinality(Allocating(a))
                          = Cardinality(FreeSlots(Slots, a)) + Cardinality(Freeing(a))
                              + InUse(heap[a] # Unused))'
                    /\ (\A u, v \in Allocating(a) : u = v)'
                    /\ (Allocating(a) # {} => heap[a] # Unused)'
  BY DEF BalanceOK
<1>4. AllocsAt(r, a) \in BOOLEAN /\ FreesAt(r, a) \in BOOLEAN
  BY DEF AllocsAt, FreesAt, Allocs, Frees
<1>5. Allocating(a)' = Allocating(a) \union (IF AllocsAt(r, a) THEN {t} ELSE {})
  BY <1>1, <1>3 DEF Allocating, AllocsAt, Allocs
<1>6. Freeing(a)' = Freeing(a) \union (IF FreesAt(r, a) THEN {t} ELSE {})
  BY <1>1, <1>3 DEF Freeing, FreesAt, Frees
<1>7. /\ AllocSlots(Slots, a)' = AllocSlots(Slots, a)
      /\ FreeSlots(Slots, a)' = FreeSlots(Slots, a)
  BY <1>1 DEF AllocSlots, FreeSlots, AllocsAt, FreesAt, Allocs, Frees
<1>8. t \notin Allocating(a) /\ t \notin Freeing(a)
  BY <1>1 DEF Allocating, Freeing
<1>9. /\ Cardinality(Allocating(a))' = Cardinality(Allocating(a)) + InUse(AllocsAt(r, a))
      /\ Cardinality(Freeing(a))' = Cardinality(Freeing(a)) + InUse(FreesAt(r, a))
  <2>1. IsFiniteSet(Allocating(a)) /\ IsFiniteSet(Freeing(a))
    BY <1>1, CountFacts
  <2>2. Cardinality(Allocating(a)') = Cardinality(Allocating(a)) + InUse(AllocsAt(r, a))
    BY <1>4, <1>5, <1>8, <2>1, CountMore
  <2>3. Cardinality(Freeing(a)') = Cardinality(Freeing(a)) + InUse(FreesAt(r, a))
    BY <1>4, <1>6, <1>8, <2>1, CountMore
  <2> QED
    BY <2>2, <2>3
<1>10. /\ Cardinality(AllocSlots(Slots, a)) \in Nat /\ Cardinality(FreeSlots(Slots, a)) \in Nat
       /\ Cardinality(Allocating(a)) \in Nat /\ Cardinality(Freeing(a)) \in Nat
  BY <1>1, CountFacts
<1>11. /\ Cardinality(AllocSlots(Slots, a)) + Cardinality(Allocating(a))
            = Cardinality(FreeSlots(Slots, a)) + Cardinality(Freeing(a)) + InUse(heap[a] # Unused)
       /\ \A u, v \in Allocating(a) : u = v
       /\ Allocating(a) # {} => heap[a] # Unused
  BY DEF BalanceOK
<1>12. InUse(heap[a] # Unused) + InUse(AllocsAt(r, a))
         = InUse(FreesAt(r, a)) + InUse(heap'[a] # Unused)
  BY <1>2, <1>4 DEF InUse
<1>13. (Cardinality(AllocSlots(Slots, a)) + Cardinality(Allocating(a))
          = Cardinality(FreeSlots(Slots, a)) + Cardinality(Freeing(a))
              + InUse(heap[a] # Unused))'
  <2>1. /\ InUse(heap[a] # Unused) \in Nat /\ InUse(AllocsAt(r, a)) \in Nat
        /\ InUse(FreesAt(r, a)) \in Nat /\ InUse(heap'[a] # Unused) \in Nat
    BY DEF InUse
  <2>2. InUse(heap[a] # Unused)' = InUse(heap'[a] # Unused)
    BY DEF InUse
  <2> QED
    BY <1>7, <1>9, <1>10, <1>11, <1>12, <2>1, <2>2
<1>14. FreesAt(r, a) => Allocating(a) = {}
  BY <1>2, <1>3, AllocatingKept DEF Allocating
<1>15. AllocsAt(r, a) => Allocating(a) = {}
  BY <1>2, <1>11, <1>14
<1> QED
  BY <1>2, <1>5, <1>11, <1>13, <1>14, <1>15

\* A call that is logged.
LEMMA StampBalance ==
  ASSUME TraceType, SlotsInv, BalanceOK, NEW t \in Threads, Stamp(t)
  PROVE  BalanceOK'
<1> DEFINE n == NextSlot(t)
           r == inCall[t]
<1>1. /\ t \in InFlight /\ InFlight' = InFlight \ {t}
      /\ \A u \in Threads : u # t => inCall'[u] = inCall[u]
      /\ n \notin Slots /\ Slots' = Slots \union {n}
      /\ log'[n] = Stamped(r, clock)
      /\ \A s \in Slots : log'[s] = log[s]
      /\ heap' = heap /\ IsFiniteSet(Slots)
  BY StampFacts DEF Stamp, TraceType, LogOK
<1> HIDE DEF n, r
<1> SUFFICES ASSUME NEW a \in Addresses
             PROVE  /\ (Cardinality(AllocSlots(Slots, a)) + Cardinality(Allocating(a))
                          = Cardinality(FreeSlots(Slots, a)) + Cardinality(Freeing(a))
                              + InUse(heap[a] # Unused))'
                    /\ (\A u, v \in Allocating(a) : u = v)'
                    /\ (Allocating(a) # {} => heap[a] # Unused)'
  BY DEF BalanceOK
<1>2. AllocsAt(r, a) \in BOOLEAN /\ FreesAt(r, a) \in BOOLEAN
  BY DEF AllocsAt, FreesAt, Allocs, Frees
<1>3. \A u \in InFlight : u \in Threads
  BY DEF InFlight
<1>4. /\ AllocsAt(r, a) <=> t \in Allocating(a)
      /\ FreesAt(r, a) <=> t \in Freeing(a)
  BY <1>1 DEF Allocating, Freeing, r
<1>5. Allocating(a)' = Allocating(a) \ {t} /\ Freeing(a)' = Freeing(a) \ {t}
  BY <1>1, <1>3 DEF Allocating, Freeing, AllocsAt, FreesAt, Allocs, Frees
<1>6. /\ AllocsAt(log'[n], a) <=> AllocsAt(r, a)
      /\ FreesAt(log'[n], a) <=> FreesAt(r, a)
  BY <1>1, SameCall
<1>7. AllocSlots(Slots, a)'
        = AllocSlots(Slots, a) \union (IF AllocsAt(r, a) THEN {n} ELSE {})
  <2>1. AllocSlots(Slots, a)' = {s \in Slots' : AllocsAt(log'[s], a)}
    BY DEF AllocSlots, AllocsAt, Allocs
  <2> QED
    BY <1>1, <1>6, <2>1 DEF AllocSlots
<1>8. FreeSlots(Slots, a)'
        = FreeSlots(Slots, a) \union (IF FreesAt(r, a) THEN {n} ELSE {})
  <2>1. FreeSlots(Slots, a)' = {s \in Slots' : FreesAt(log'[s], a)}
    BY DEF FreeSlots, FreesAt, Frees
  <2> QED
    BY <1>1, <1>6, <2>1 DEF FreeSlots
<1>9. n \notin AllocSlots(Slots, a) /\ n \notin FreeSlots(Slots, a)
  BY <1>1 DEF AllocSlots, FreeSlots
<1>10. /\ IsFiniteSet(AllocSlots(Slots, a)) /\ IsFiniteSet(FreeSlots(Slots, a))
       /\ IsFiniteSet(Allocating(a)) /\ IsFiniteSet(Freeing(a))
  BY <1>1, CountFacts
<1>11. /\ Cardinality(AllocSlots(Slots, a)) \in Nat
       /\ Cardinality(AllocSlots(Slots, a)')
            = Cardinality(AllocSlots(Slots, a)) + InUse(AllocsAt(r, a))
  BY <1>2, <1>7, <1>9, <1>10, CountMore
<1>12. /\ Cardinality(FreeSlots(Slots, a)) \in Nat
       /\ Cardinality(FreeSlots(Slots, a)')
            = Cardinality(FreeSlots(Slots, a)) + InUse(FreesAt(r, a))
  BY <1>2, <1>8, <1>9, <1>10, CountMore
<1>13. /\ Cardinality(Allocating(a)') \in Nat
       /\ Cardinality(Allocating(a)) = Cardinality(Allocating(a)') + InUse(AllocsAt(r, a))
  BY <1>2, <1>4, <1>5, <1>10, CountLess
<1>14. /\ Cardinality(Freeing(a)') \in Nat
       /\ Cardinality(Freeing(a)) = Cardinality(Freeing(a)') + InUse(FreesAt(r, a))
  BY <1>2, <1>4, <1>5, <1>10, CountLess
<1>15. /\ Cardinality(AllocSlots(Slots, a)) + Cardinality(Allocating(a))
            = Cardinality(FreeSlots(Slots, a)) + Cardinality(Freeing(a)) + InUse(heap[a] # Unused)
       /\ \A u, v \in Allocating(a) : u = v
       /\ Allocating(a) # {} => heap[a] # Unused
  BY DEF BalanceOK
<1>16. (Cardinality(AllocSlots(Slots, a)) + Cardinality(Allocating(a))
          = Cardinality(FreeSlots(Slots, a)) + Cardinality(Freeing(a))
              + InUse(heap[a] # Unused))'
  <2>1. /\ InUse(heap[a] # Unused) \in Nat /\ InUse(AllocsAt(r, a)) \in Nat
        /\ InUse(FreesAt(r, a)) \in Nat
    BY DEF InUse
  <2>2. InUse(heap[a] # Unused)' = InUse(heap[a] # Unused)
    BY <1>1 DEF InUse
  <2> QED
    BY <1>11, <1>12, <1>13, <1>14, <1>15, <2>1, <2>2
<1> QED
  BY <1>1, <1>5, <1>15, <1>16

\* A step that leaves the calls and, in what they store, the log.
LEMMA SameBalance ==
  ASSUME heap' = heap, inCall' = inCall, Slots' = Slots, \A s \in Slots : log'[s] = log[s]
  PROVE  /\ BalanceOK => BalanceOK'
         /\ InFlight' = InFlight
         /\ \A a : \A S \in SUBSET Slots :
              AllocSlots(S, a)' = AllocSlots(S, a) /\ FreeSlots(S, a)' = FreeSlots(S, a)
<1>1. InFlight' = InFlight
  BY DEF InFlight
<1>2. ASSUME NEW S \in SUBSET Slots, NEW a
      PROVE  AllocSlots(S, a)' = AllocSlots(S, a) /\ FreeSlots(S, a)' = FreeSlots(S, a)
  BY DEF AllocSlots, FreeSlots, AllocsAt, FreesAt, Allocs, Frees
<1>3. \A a : /\ AllocSlots(Slots, a)' = AllocSlots(Slots, a)
             /\ FreeSlots(Slots, a)' = FreeSlots(Slots, a)
  BY <1>2 DEF AllocSlots, FreeSlots, AllocsAt, FreesAt, Allocs, Frees
<1>4. \A a : Allocating(a)' = Allocating(a) /\ Freeing(a)' = Freeing(a)
  BY <1>1 DEF Allocating, Freeing, AllocsAt, FreesAt, Allocs, Frees
<1>5. BalanceOK => BalanceOK'
  BY <1>3, <1>4 DEF BalanceOK, InUse
<1> QED
  BY <1>1, <1>2, <1>5

-----------------------------------------------------------------------------
(* The replay, counted.                                                     *)

\* The record NextRecord takes, and what has been placed after it.
LEMMA NextRecordPlaces ==
  ASSUME IInv, NextRecord, NEW i, i = order[orderItr]
  PROVE  /\ LogOK /\ HeapOK(Heap) /\ MarksOK /\ log' = log /\ AddRecord(i)
         /\ i \in Slots /\ PlacedSlots \subseteq Slots /\ i \notin PlacedSlots
         /\ i \notin Range(retryList) /\ Range(retryList) \subseteq Slots
         /\ {order[k] : k \in Taken} = OlderThanSlot(i)
         /\ Fits(Heap, i) => PlacedSlots' = PlacedSlots \union {i} /\ phase' = "retry"
                               /\ retryItr' = 1 /\ retryList' = retryList
         /\ ~ Fits(Heap, i) => PlacedSlots' = PlacedSlots /\ phase' = "build"
                                 /\ Range(retryList') = Range(retryList) \union {i}
<1>1. /\ phase = "build" /\ orderItr <= Len(order) /\ AddRecord(i)
      /\ log' = log /\ order' = order
  BY DEF NextRecord, traceVars
<1> DEFINE n == Cardinality(Slots)
<1>2. /\ LogOK /\ OrderOK /\ ListOK /\ HeapOK(Heap) /\ MarksOK
      /\ n \in Nat /\ Len(order) = n /\ DOMAIN order = 1 .. n
      /\ \A j, k \in DOMAIN order : order[j] = order[k] => j = k
  BY <1>1, BuildFacts
<1>3. /\ orderItr \in 1 .. n /\ i \in Slots /\ retryList \in Seq(Slots)
      /\ Taken = 1 .. orderItr - 1 /\ Taken \subseteq DOMAIN order
  BY <1>1, <1>2 DEF OrderOK, ListOK, Taken
<1> HIDE DEF n
<1>4. ASSUME NEW k \in Taken PROVE order[k] # i /\ order[k] \in Slots
  <2>1. k \in DOMAIN order /\ orderItr \in DOMAIN order /\ k # orderItr
    BY <1>2, <1>3
  <2> QED
    BY <1>2, <2>1 DEF OrderOK
<1>5. ASSUME NEW r \in Range(retryList) PROVE r \in Slots /\ \E k \in Taken : r = order[k]
  <2>1. PICK j \in DOMAIN retryList : r = retryList[j]
    BY DEF Range
  <2> QED
    BY <1>2, <1>3, <1>4, <2>1 DEF ListOK
<1>6. /\ PlacedSlots \subseteq Slots /\ i \notin PlacedSlots /\ i \notin Range(retryList)
      /\ Range(retryList) \subseteq Slots
  BY <1>4, <1>5 DEF PlacedSlots
<1>7. {order[k] : k \in Taken} = OlderThanSlot(i)
  <2>1. ASSUME NEW k \in Taken PROVE order[k] \in OlderThanSlot(i)
    <3>1. k \in DOMAIN order /\ orderItr \in DOMAIN order /\ k < orderItr
      BY <1>2, <1>3
    <3>2. Older(order[k], order[orderItr])
      BY <1>2, <3>1 DEF OrderOK
    <3> QED
      BY <1>4, <3>2 DEF OlderThanSlot
  <2>2. ASSUME NEW s \in OlderThanSlot(i) PROVE \E k \in Taken : s = order[k]
    <3>1. s \in Slots /\ Older(s, i)
      BY DEF OlderThanSlot
    <3>2. PICK k \in DOMAIN order : order[k] = s
      BY <1>2, <3>1 DEF OrderOK
    <3>3. orderItr \in DOMAIN order /\ ~ Older(i, s) /\ s # i
      BY <1>2, <1>3, <3>1, OlderOrder
    <3>4. ~ (orderItr < k) /\ k # orderItr
      BY <1>2, <3>2, <3>3 DEF OrderOK
    <3> QED
      BY <1>2, <1>3, <3>2, <3>4
  <2> QED
    BY <2>1, <2>2
<1>8. CASE Fits(Heap, i)
  <2>1. phase' = "retry" /\ retryList' = retryList /\ orderItr' = orderItr /\ retryItr' = 1
    BY <1>8 DEF NextRecord
  <2>2. Taken' = Taken \union {orderItr}
    BY <1>3, <2>1 DEF Taken
  <2>3. {order'[k] : k \in Taken'} = {order[k] : k \in Taken} \union {i}
    BY <1>1, <2>2
  <2>4. PlacedSlots' = PlacedSlots \union {i}
    BY <1>6, <2>1, <2>3 DEF PlacedSlots
  <2> QED
    BY <1>1, <1>2, <1>3, <1>6, <1>7, <1>8, <2>1, <2>4
<1>9. CASE ~ Fits(Heap, i)
  <2>1. /\ phase' = "build" /\ orderItr' = orderItr + 1
        /\ retryList' = Append(retryList, i)
    BY <1>1, <1>9 DEF NextRecord
  <2>2. Taken' = Taken \union {orderItr}
    BY <1>3, <2>1 DEF Taken
  <2>3. {order'[k] : k \in Taken'} = {order[k] : k \in Taken} \union {i}
    BY <1>1, <2>2
  <2>4. Range(retryList') = Range(retryList) \union {i}
    <3>1. /\ DOMAIN retryList = 1 .. Len(retryList) /\ Len(retryList) \in Nat
          /\ DOMAIN retryList' = 1 .. Len(retryList) + 1
          /\ \A k \in 1 .. Len(retryList) : retryList'[k] = retryList[k]
          /\ retryList'[Len(retryList) + 1] = i
      BY <1>3, <2>1
    <3>2. ASSUME NEW r \in Range(retryList') PROVE r \in Range(retryList) \union {i}
      <4>1. PICK k \in DOMAIN retryList' : r = retryList'[k]
        BY DEF Range
      <4>2. k \in 1 .. Len(retryList) \/ k = Len(retryList) + 1
        BY <3>1, <4>1
      <4> QED
        BY <3>1, <4>1, <4>2 DEF Range
    <3>3. Range(retryList) \union {i} \subseteq Range(retryList')
      BY <3>1 DEF Range
    <3> QED
      BY <3>2, <3>3
  <2>5. PlacedSlots' = PlacedSlots
    <3>1. PlacedSlots' = {order'[k] : k \in Taken'} \ Range(retryList')
      BY DEF PlacedSlots
    <3> QED
      BY <1>6, <2>3, <2>4, <3>1 DEF PlacedSlots
  <2> QED
    BY <1>1, <1>2, <1>3, <1>6, <1>7, <1>9, <2>1, <2>4, <2>5
<1> QED
  BY <1>8, <1>9

\* The record Retry takes, and what has been placed after it.
LEMMA RetryPlaces ==
  ASSUME IInv, Retry, NEW i, i = retryList[retryItr]
  PROVE  /\ LogOK /\ HeapOK(Heap) /\ MarksOK /\ log' = log /\ AddRecord(i)
         /\ i \in Slots /\ PlacedSlots \subseteq Slots /\ i \notin PlacedSlots
         /\ phase' = "retry" /\ i \in Range(retryList) /\ retryItr \in Nat \ {0}
         /\ Fits(Heap, i) => /\ PlacedSlots' = PlacedSlots \union {i} /\ progress' = TRUE
                             /\ Range(retryList') = Range(retryList) \ {i}
         /\ ~ Fits(Heap, i) => PlacedSlots' = PlacedSlots /\ retryList' = retryList
                                 /\ retryItr' = retryItr + 1 /\ progress' = progress
<1>1. /\ phase = "retry" /\ retryItr <= Len(retryList) /\ AddRecord(i)
      /\ log' = log /\ order' = order /\ phase' = phase /\ orderItr' = orderItr
  BY DEF Retry, traceVars
<1> DEFINE n == Cardinality(Slots)
<1>2. /\ LogOK /\ OrderOK /\ ListOK /\ HeapOK(Heap) /\ MarksOK
      /\ n \in Nat /\ DOMAIN order = 1 .. n
  BY <1>1, BuildFacts
<1>3. /\ retryList \in Seq(Slots) /\ retryItr \in 1 .. Len(retryList) /\ i \in Slots
      /\ \A j, k \in DOMAIN retryList : retryList[j] = retryList[k] => j = k
      /\ orderItr \in 1 .. n
      /\ Taken' = Taken /\ Taken = 1 .. orderItr
  BY <1>1, <1>2 DEF ListOK, Taken
<1>4. i \in Range(retryList)
  BY <1>3 DEF Range
<1>5. \E k \in Taken : i = order[k]
  <2>1. retryItr \in DOMAIN retryList
    BY <1>3
  <2>2. PICK k \in 1 .. orderItr - 1 : i = order[k]
    BY <1>2, <2>1 DEF ListOK
  <2> QED
    BY <1>3, <2>2
<1>6. {order'[k] : k \in Taken'} = {order[k] : k \in Taken}
  BY <1>1, <1>3
<1>7. PlacedSlots \subseteq Slots /\ i \notin PlacedSlots
  <2>1. ASSUME NEW k \in Taken PROVE order[k] \in Slots
    <3>1. k \in DOMAIN order
      BY <1>2, <1>3
    <3> QED
      BY <1>2, <3>1 DEF OrderOK
  <2> QED
    BY <1>4, <2>1 DEF PlacedSlots
<1>8. CASE Fits(Heap, i)
  <2>1. retryList' = RemoveAt(retryList, retryItr) /\ progress' = TRUE
    BY <1>1, <1>8 DEF Retry
  <2>2. Range(retryList') = Range(retryList) \ {i}
    BY <1>3, <2>1, RemoveAtRange, Zenon
  <2>3. PlacedSlots' = PlacedSlots \union {i}
    BY <1>5, <1>6, <2>2 DEF PlacedSlots
  <2> QED
    BY <1>1, <1>2, <1>3, <1>4, <1>7, <1>8, <2>1, <2>2, <2>3
<1>9. CASE ~ Fits(Heap, i)
  <2>1. retryItr' = retryItr + 1 /\ retryList' = retryList /\ progress' = progress
    BY <1>1, <1>9 DEF Retry
  <2>2. PlacedSlots' = PlacedSlots
    BY <1>6, <2>1 DEF PlacedSlots
  <2> QED
    BY <1>1, <1>2, <1>3, <1>4, <1>7, <1>9, <2>1, <2>2
<1> QED
  BY <1>8, <1>9

\* addRecord keeps the count of what has been placed.
LEMMA AddingBalance ==
  ASSUME LogOK, HeapOK(Heap), MarksOK, log' = log, NEW i \in Slots, AddRecord(i),
         PlacedSlots \subseteq Slots, i \notin PlacedSlots, ReplayBalance,
         Fits(Heap, i) => PlacedSlots' = PlacedSlots \union {i},
         ~ Fits(Heap, i) => PlacedSlots' = PlacedSlots
  PROVE  ReplayBalance'
<1> SUFFICES ASSUME NEW a \in Addresses
             PROVE  (Cardinality(AllocSlots(PlacedSlots, a))
                       = Cardinality(FreeSlots(PlacedSlots, a)) + InUse(Open(Heap, a)))'
  BY DEF ReplayBalance
<1>1. IsFiniteSet(Slots)
  BY DEF LogOK
<1>2. \A x : Open(Heap, x) \in BOOLEAN
  BY DEF Open
<1>3. Open(Heap, a)' \in BOOLEAN
  BY DEF Open
<1>4. /\ Open(Heap, a) <=> a \in LiveIn(Heap)
      /\ Open(Heap, a)' <=> a \in LiveIn(Heap)'
  BY DEF LiveIn
<1>5. Cardinality(AllocSlots(PlacedSlots, a))
        = Cardinality(FreeSlots(PlacedSlots, a)) + InUse(Open(Heap, a))
  BY DEF ReplayBalance
<1>6. \A S \in SUBSET Slots :
        AllocSlots(S, a)' = AllocSlots(S, a) /\ FreeSlots(S, a)' = FreeSlots(S, a)
  BY DEF AllocSlots, FreeSlots, AllocsAt, FreesAt, Allocs, Frees
<1>7. CASE Fits(Heap, i)
  <2>1. /\ LiveIn(Heap)' = (LiveIn(Heap) \ (IF Frees(log[i]) THEN {log[i].pointer} ELSE {}))
                              \union (IF Allocs(log[i]) THEN {log[i].result} ELSE {})
        /\ Frees(log[i]) => log[i].pointer \in LiveIn(Heap)
        /\ Allocs(log[i]) => log[i].result \notin LiveIn(Heap) \/
                               (Frees(log[i]) /\ log[i].pointer = log[i].result)
    BY <1>7, Adding
  <2>2. InUse(Open(Heap, a)) + InUse(AllocsAt(log[i], a))
          = InUse(FreesAt(log[i], a)) + InUse(Open(Heap, a)')
    BY <1>2, <1>3, <1>4, <2>1 DEF InUse, AllocsAt, FreesAt
  <2>3. /\ Cardinality(AllocSlots(PlacedSlots \union {i}, a))
             = Cardinality(AllocSlots(PlacedSlots, a)) + InUse(AllocsAt(log[i], a))
        /\ Cardinality(FreeSlots(PlacedSlots \union {i}, a))
             = Cardinality(FreeSlots(PlacedSlots, a)) + InUse(FreesAt(log[i], a))
    BY <1>1, OneMore
  <2>4. /\ Cardinality(AllocSlots(PlacedSlots, a)) \in Nat
        /\ Cardinality(FreeSlots(PlacedSlots, a)) \in Nat
    BY <1>1, CountFacts
  <2>5. /\ InUse(Open(Heap, a)) \in Nat /\ InUse(AllocsAt(log[i], a)) \in Nat
        /\ InUse(FreesAt(log[i], a)) \in Nat /\ InUse(Open(Heap, a)') \in Nat
    BY DEF InUse
  <2>6. Cardinality(AllocSlots(PlacedSlots \union {i}, a))
          = Cardinality(FreeSlots(PlacedSlots \union {i}, a)) + InUse(Open(Heap, a)')
    BY <1>5, <2>2, <2>3, <2>4, <2>5
  <2>7. /\ AllocSlots(PlacedSlots, a)' = AllocSlots(PlacedSlots \union {i}, a)
        /\ FreeSlots(PlacedSlots, a)' = FreeSlots(PlacedSlots \union {i}, a)
    BY <1>7 DEF AllocSlots, FreeSlots, AllocsAt, FreesAt, Allocs, Frees
  <2>8. InUse(Open(Heap, a))' = InUse(Open(Heap, a)')
    BY DEF InUse
  <2> QED
    BY <2>6, <2>7, <2>8
<1>8. CASE ~ Fits(Heap, i)
  <2>1. LiveIn(Heap)' = LiveIn(Heap)
    BY <1>8, Adding
  <2>2. InUse(Open(Heap, a))' = InUse(Open(Heap, a))
    BY <1>2, <1>3, <1>4, <2>1 DEF InUse
  <2>3. /\ AllocSlots(PlacedSlots, a)' = AllocSlots(PlacedSlots, a)
        /\ FreeSlots(PlacedSlots, a)' = FreeSlots(PlacedSlots, a)
    BY <1>8 DEF AllocSlots, FreeSlots, AllocsAt, FreesAt, Allocs, Frees
  <2> QED
    BY <1>5, <2>2, <2>3
<1> QED
  BY <1>7, <1>8

-----------------------------------------------------------------------------
(* HeapRebuilt.                                                             *)

\* The steps of the program.
LEMMA RunCount == EveryCallLogged /\ IInv /\ CountInv /\ Run => CountInv'
<1> SUFFICES ASSUME EveryCallLogged, IInv, CountInv, Run PROVE CountInv'
  OBVIOUS
<1>1. /\ phase = "run" /\ phase' = "run" /\ TraceType /\ SlotsInv /\ BalanceOK /\ NoZeroFrees
  BY DEF Run, IInv, RunInv, CountInv, EveryCallLogged
<1>2. PICK t \in Threads : Malloc(t) \/ Free(t) \/ Realloc(t) \/ Stamp(t)
  BY DEF Run, TraceNext
<1>3. BalanceOK'
  <2>1. CASE Stamp(t)
    BY <1>1, <2>1, StampBalance
  <2>2. CASE Malloc(t) \/ Free(t) \/ Realloc(t)
    <3>1. PICK r : Begins(t, r)
      BY <1>1, <2>2, MallocBegins, FreeBegins, ReallocBegins
    <3> QED
      BY <1>1, <3>1, BeginsBalance
  <2> QED
    BY <1>2, <2>1, <2>2
<1> QED
  BY <1>1, <1>3 DEF CountInv, Replaying

\* With no thread in a call the process leaves the log as it is.
LEMMA EndKeepsLog ==
  ASSUME EveryCallLogged, IInv, End
  PROVE  /\ phase = "run" /\ phase' = "sizes" /\ InFlight = {}
         /\ heap' = heap /\ inCall' = inCall /\ InFlight' = {}
         /\ Slots' = Slots /\ \A s \in Slots : log'[s] = log[s]
<1>1. /\ phase = "run" /\ phase' = "sizes" /\ InFlight = {}
      /\ heap' = heap /\ inCall' = inCall
      /\ TraceType /\ SlotsInv
  BY DEF End, IInv, RunInv, EveryCallLogged
<1>2. PICK S \in SUBSET InFlight : log' = LeftBehind(S)
  BY DEF End
<1>3. S = {}
  BY <1>1, <1>2
<1>4. Slots' = Slots /\ \A s \in Slots : log'[s] = log[s]
  BY <1>1, <1>2, <1>3, LeftBehindFacts
<1> QED
  BY <1>1, <1>4 DEF InFlight

\* The steps of the analysis before build.
LEMMA EndCount == EveryCallLogged /\ IInv /\ CountInv /\ End => CountInv'
<1> SUFFICES ASSUME EveryCallLogged, IInv, CountInv, End PROVE CountInv'
  OBVIOUS
<1>1. BalanceOK' /\ InFlight' = {} /\ phase' = "sizes"
  BY EndKeepsLog, SameBalance DEF CountInv
<1> QED
  BY <1>1 DEF CountInv, Replaying

LEMMA SortCount == IInv /\ CountInv /\ Sort => CountInv'
<1> SUFFICES ASSUME IInv, CountInv, Sort PROVE CountInv'
  OBVIOUS
<1>1. /\ phase = "sizes" /\ heap' = heap /\ inCall' = inCall /\ log' = log
      /\ UNCHANGED <<orderItr, retryList, retryItr, progress, heapVars>>
      /\ phase' \in {"crashed", "build"} /\ Untouched
  BY DEF Sort, traceVars, IInv, ReplayInv
<1>2. BalanceOK' /\ InFlight' = {}
  BY <1>1, SameLog, SameBalance DEF CountInv
<1>3. CASE phase' = "build"
  <2>1. Taken' = {}
    BY <1>1, <1>3 DEF Taken, Untouched
  <2>2. PlacedSlots' = {}
    BY <2>1 DEF PlacedSlots
  <2>3. \A a : AllocSlots(PlacedSlots, a)' = {} /\ FreeSlots(PlacedSlots, a)' = {}
    BY <2>2 DEF AllocSlots, FreeSlots
  <2>4. \A a \in Addresses : ~ Open(Heap, a)'
    BY <1>1 DEF Untouched, Heap, Open, heapVars
  <2>5. ReplayBalance'
    BY <2>3, <2>4, FS_EmptySet DEF ReplayBalance, InUse
  <2> QED
    BY <1>2, <1>3, <2>5 DEF CountInv
<1>4. CASE phase' = "crashed"
  BY <1>2, <1>4 DEF CountInv, Replaying
<1> QED
  BY <1>1, <1>3, <1>4

\* A step that leaves what the counts are made of.
LEMMA SameCount ==
  ASSUME CountInv, UNCHANGED traceVars, UNCHANGED heapVars, PlacedSlots \subseteq Slots,
         PlacedSlots' = PlacedSlots, phase \in Replaying, phase' \in Replaying
  PROVE  CountInv'
<1>1. /\ heap' = heap /\ inCall' = inCall /\ log' = log /\ allocationMap' = allocationMap
  BY DEF traceVars, heapVars
<1>2. /\ InFlight' = InFlight
      /\ BalanceOK => BalanceOK'
      /\ \A a : \A S \in SUBSET Slots :
           AllocSlots(S, a)' = AllocSlots(S, a) /\ FreeSlots(S, a)' = FreeSlots(S, a)
  BY <1>1, SameLog, SameBalance
<1>3. \A a : /\ AllocSlots(PlacedSlots, a)' = AllocSlots(PlacedSlots, a)
             /\ FreeSlots(PlacedSlots, a)' = FreeSlots(PlacedSlots, a)
  BY <1>1, <1>2 DEF AllocSlots, FreeSlots, AllocsAt, FreesAt, Allocs, Frees
<1>4. \A a : Open(Heap, a)' <=> Open(Heap, a)
  BY <1>1 DEF Open, Heap
<1>5. ReplayBalance => ReplayBalance'
  BY <1>3, <1>4 DEF ReplayBalance, InUse
<1> QED
  BY <1>1, <1>2, <1>5 DEF CountInv, Replaying

\* The steps of build.
LEMMA BuildCount == IInv /\ CountInv /\ Build => CountInv'
<1> SUFFICES ASSUME IInv, CountInv, Build PROVE CountInv'
  OBVIOUS
<1>1. ASSUME phase \in {"build", "retry"}, UNCHANGED traceVars, ReplayBalance',
             phase' \in {"build", "retry"}
      PROVE  CountInv'
  <2>1. heap' = heap /\ inCall' = inCall /\ log' = log
    BY <1>1 DEF traceVars
  <2>2. BalanceOK' /\ InFlight' = {}
    BY <1>1, <2>1, SameLog, SameBalance DEF CountInv
  <2> QED
    BY <1>1, <2>2 DEF CountInv
<1>2. CASE NextRecord
  <2> DEFINE i == order[orderItr]
  <2>1. /\ LogOK /\ HeapOK(Heap) /\ MarksOK /\ log' = log /\ AddRecord(i)
        /\ i \in Slots /\ PlacedSlots \subseteq Slots /\ i \notin PlacedSlots
        /\ Fits(Heap, i) => PlacedSlots' = PlacedSlots \union {i} /\ phase' = "retry"
        /\ ~ Fits(Heap, i) => PlacedSlots' = PlacedSlots /\ phase' = "build"
    BY <1>2, NextRecordPlaces
  <2>2. phase = "build" /\ UNCHANGED traceVars
    BY <1>2 DEF NextRecord
  <2> HIDE DEF i
  <2>3. ReplayBalance'
    BY <2>1, <2>2, AddingBalance DEF CountInv, Replaying
  <2> QED
    BY <1>1, <2>1, <2>2, <2>3
<1>3. CASE Retry
  <2> DEFINE i == retryList[retryItr]
  <2>1. /\ LogOK /\ HeapOK(Heap) /\ MarksOK /\ log' = log /\ AddRecord(i)
        /\ i \in Slots /\ PlacedSlots \subseteq Slots /\ i \notin PlacedSlots
        /\ Fits(Heap, i) => PlacedSlots' = PlacedSlots \union {i}
        /\ ~ Fits(Heap, i) => PlacedSlots' = PlacedSlots
        /\ phase' = "retry"
    BY <1>3, RetryPlaces
  <2>2. phase = "retry" /\ UNCHANGED traceVars
    BY <1>3 DEF Retry
  <2> HIDE DEF i
  <2>3. ReplayBalance'
    BY <2>1, <2>2, AddingBalance DEF CountInv, Replaying
  <2> QED
    BY <1>1, <2>1, <2>2, <2>3
<1>4. CASE EndPass \/ Done
  <2>1. /\ phase \in {"build", "retry"} /\ phase' \in Replaying
        /\ order' = order /\ retryList' = retryList
        /\ UNCHANGED traceVars /\ UNCHANGED heapVars
        /\ phase = "retry" => \/ phase' = "retry" /\ orderItr' = orderItr
                              \/ phase' = "build" /\ orderItr' = orderItr + 1
        /\ phase = "build" => phase' = "done" /\ orderItr' = orderItr
    BY <1>4 DEF EndPass, Done, iterVars, Replaying
  <2>2. /\ OrderOK /\ ListOK /\ Cardinality(Slots) \in Nat
        /\ DOMAIN order = 1 .. Cardinality(Slots)
    BY <2>1, BuildFacts DEF traceVars
  <2>3. orderItr \in Nat
    BY <2>2 DEF ListOK
  <2>4. Taken' = Taken
    BY <2>1, <2>3 DEF Taken
  <2>5. PlacedSlots' = PlacedSlots
    BY <2>1, <2>4 DEF PlacedSlots
  <2>6. PlacedSlots \subseteq Slots
    <3> SUFFICES ASSUME NEW k \in Taken PROVE order[k] \in Slots
      BY DEF PlacedSlots
    <3>1. k \in DOMAIN order
      BY <2>1, <2>2 DEF Taken, ListOK
    <3> QED
      BY <2>2, <3>1 DEF OrderOK
  <2> QED
    BY <2>1, <2>5, <2>6, SameCount DEF Replaying
<1> QED
  BY <1>2, <1>3, <1>4 DEF Build

\* A step that changes nothing.
LEMMA StutterCount == IInv /\ CountInv /\ UNCHANGED vars => CountInv'
<1> SUFFICES ASSUME IInv, CountInv, UNCHANGED vars PROVE CountInv'
  OBVIOUS
<1>1. /\ UNCHANGED traceVars /\ UNCHANGED iterVars /\ UNCHANGED heapVars /\ phase' = phase
  BY DEF vars
<1>2. /\ heap' = heap /\ inCall' = inCall /\ log' = log
      /\ order' = order /\ orderItr' = orderItr /\ retryList' = retryList
      /\ allocationMap' = allocationMap
  BY <1>1 DEF traceVars, iterVars, heapVars
<1>3. /\ InFlight' = InFlight
      /\ BalanceOK => BalanceOK'
  BY <1>2, SameLog, SameBalance
<1>4. PlacedSlots' = PlacedSlots
  BY <1>1, <1>2 DEF PlacedSlots, Taken
<1>5. \A a : Open(Heap, a)' <=> Open(Heap, a)
  BY <1>2 DEF Open, Heap
<1>6. \A a : /\ AllocSlots(PlacedSlots, a)' = AllocSlots(PlacedSlots, a)
             /\ FreeSlots(PlacedSlots, a)' = FreeSlots(PlacedSlots, a)
  BY <1>2, <1>4 DEF AllocSlots, FreeSlots, AllocsAt, FreesAt, Allocs, Frees
<1>7. ReplayBalance => ReplayBalance'
  BY <1>5, <1>6 DEF ReplayBalance, InUse
<1> QED
  BY <1>1, <1>3, <1>7 DEF CountInv

\* The counts are right at every step, if every call is logged.
LEMMA CountInvariance == EveryCallLogged => (Spec => []CountInv)
<1> SUFFICES ASSUME EveryCallLogged PROVE Spec => []CountInv
  OBVIOUS
<1>1. Init => CountInv
  <2> SUFFICES ASSUME Init PROVE CountInv
    OBVIOUS
  <2>1. /\ phase = "run" /\ heap = [a \in Addresses |-> Unused]
        /\ Slots = {} /\ InFlight = {}
    BY DEF Init, TraceInit, Slots, InFlight
  <2>2. \A a : /\ AllocSlots(Slots, a) = {} /\ FreeSlots(Slots, a) = {}
               /\ Allocating(a) = {} /\ Freeing(a) = {}
    BY <2>1 DEF AllocSlots, FreeSlots, Allocating, Freeing
  <2> QED
    BY <2>1, <2>2, FS_EmptySet DEF CountInv, BalanceOK, InUse, Replaying
<1>2. IInv /\ CountInv /\ [Next]_vars => CountInv'
  BY RunCount, EndCount, SortCount, BuildCount, StutterCount DEF Next, Terminated
<1> QED
  BY <1>1, <1>2, Invariance, PTL DEF Spec

\* When build has placed every record, the addresses it has open are those
\* the program has in use, whatever the order it placed them in.
THEOREM HeapRebuiltCorrect == EveryCallLogged => (Spec => []HeapRebuilt)
<1> SUFFICES ASSUME EveryCallLogged PROVE Spec => []HeapRebuilt
  OBVIOUS
<1>1. IInv /\ CountInv => HeapRebuilt
  <2> SUFFICES ASSUME IInv, CountInv, phase = "done", retryList = <<>>, NEW a \in Addresses
               PROVE  Open(Heap, a) <=> heap[a] # Unused
    BY DEF HeapRebuilt
  <2>1. /\ OrderOK /\ LogOK /\ orderItr = Cardinality(Slots) + 1
        /\ BalanceOK /\ ReplayBalance /\ InFlight = {}
    BY DEF IInv, ReplayInv, LoggedInv, Replaying, CountInv
  <2>2. Cardinality(Slots) \in Nat
    BY <2>1, FS_CardinalityType DEF LogOK
  <2>3. Taken = DOMAIN order
    BY <2>1, <2>2 DEF Taken, OrderOK
  <2>4. PlacedSlots = Slots
    <3>1. Range(retryList) = {}
      BY DEF Range
    <3> QED
      BY <2>1, <2>3, <3>1 DEF PlacedSlots, OrderOK
  <2>5. Allocating(a) = {} /\ Freeing(a) = {}
    BY <2>1 DEF Allocating, Freeing
  <2>6. /\ Cardinality(AllocSlots(Slots, a)) = Cardinality(FreeSlots(Slots, a)) + InUse(heap[a] # Unused)
        /\ Cardinality(AllocSlots(Slots, a)) = Cardinality(FreeSlots(Slots, a)) + InUse(Open(Heap, a))
        /\ Cardinality(FreeSlots(Slots, a)) \in Nat /\ Cardinality(AllocSlots(Slots, a)) \in Nat
    <3>1. IsFiniteSet(Slots)
      BY <2>1 DEF LogOK
    <3>2. /\ Cardinality(FreeSlots(Slots, a)) \in Nat
          /\ Cardinality(AllocSlots(Slots, a)) \in Nat
      BY <3>1, CountFacts
    <3>3. InUse(heap[a] # Unused) \in Nat /\ InUse(Open(Heap, a)) \in Nat
      BY DEF InUse
    <3>4. Cardinality(AllocSlots(Slots, a)) + Cardinality(Allocating(a))
            = Cardinality(FreeSlots(Slots, a)) + Cardinality(Freeing(a)) + InUse(heap[a] # Unused)
      BY <2>1 DEF BalanceOK
    <3>5. Cardinality(Allocating(a)) = 0 /\ Cardinality(Freeing(a)) = 0
      BY <2>5, FS_EmptySet
    <3>6. Cardinality(AllocSlots(PlacedSlots, a))
            = Cardinality(FreeSlots(PlacedSlots, a)) + InUse(Open(Heap, a))
      BY <2>1 DEF ReplayBalance
    <3>7. /\ Cardinality(AllocSlots(PlacedSlots, a)) = Cardinality(AllocSlots(Slots, a))
          /\ Cardinality(FreeSlots(PlacedSlots, a)) = Cardinality(FreeSlots(Slots, a))
      BY <2>4
    <3> QED
      BY <3>2, <3>3, <3>4, <3>5, <3>6, <3>7
  <2>7. InUse(heap[a] # Unused) = InUse(Open(Heap, a))
    <3>1. InUse(heap[a] # Unused) \in Nat /\ InUse(Open(Heap, a)) \in Nat
      BY DEF InUse
    <3> QED
      BY <2>6, <3>1
  <2> QED
    BY <2>7 DEF InUse, Open
<1> QED
  BY <1>1, Invariance, CountInvariance, PTL

-----------------------------------------------------------------------------
(* AllPlaced, when no realloc moves its block.                              *)

FineClock == EveryCallLogged /\ Clock = "fine"

\* What addRecord accepts.
LEMMA FitsFacts ==
  ASSUME LogOK, NEW h, HeapOK(h), NEW i \in Slots
  PROVE  Fits(h, i) <=>
           /\ Frees(log[i]) => log[i].pointer \in LiveIn(h)
           /\ Allocs(log[i]) => log[i].result \notin LiveIn(h) \/
                                  (Frees(log[i]) /\ log[i].pointer = log[i].result)
<1>1. /\ Allocs(log[i]) => log[i].result \in Addresses
      /\ Frees(log[i]) => log[i].pointer \in Addresses
  BY RecordFacts
<1>2. CanFree(h, i) <=> (Frees(log[i]) => log[i].pointer \in LiveIn(h))
  BY <1>1 DEF CanFree, LiveIn
<1>3. ASSUME CanFree(h, i)
      PROVE  CanAlloc(Freed(h, i), i) <=>
               (Allocs(log[i]) => log[i].result \notin LiveIn(h) \/
                                    (Frees(log[i]) /\ log[i].pointer = log[i].result))
  <2> DEFINE f == Freed(h, i)
  <2>1. LiveIn(f) = LiveIn(h) \ (IF Frees(log[i]) THEN {log[i].pointer} ELSE {})
    BY <1>3, FreedFacts
  <2> HIDE DEF f
  <2>2. CanAlloc(f, i) <=> (Allocs(log[i]) => log[i].result \notin LiveIn(f))
    BY <1>1 DEF CanAlloc, LiveIn
  <2> QED
    BY <2>1, <2>2 DEF f
<1> QED
  BY <1>2, <1>3 DEF Fits

\* A step that leaves the log and allocationMap.
LEMMA FitsSame ==
  ASSUME log' = log, allocationMap' = allocationMap
  PROVE  \A i : Fits(Heap, i)' <=> Fits(Heap, i)
<1> SUFFICES ASSUME NEW i PROVE Fits(Heap, i)' <=> Fits(Heap, i)
  OBVIOUS
<1>1. Heap'.map = Heap.map
  BY DEF Heap
<1>2. (Frees(log[i]) <=> Frees(log[i])') /\ (Allocs(log[i]) <=> Allocs(log[i])')
  BY DEF Frees, Allocs
<1>3. \A a : Open(Heap, a)' <=> Open(Heap, a)
  BY <1>1 DEF Open
<1>4. CanFree(Heap, i)' <=> CanFree(Heap, i)
  BY <1>2, <1>3 DEF CanFree
<1>5. Freed(Heap, i)'.map = Freed(Heap, i).map
  BY <1>1, <1>2 DEF Freed, Release
<1>6. \A a : Open(Freed(Heap, i), a)' <=> Open(Freed(Heap, i), a)
  BY <1>5 DEF Open
<1>7. CanAlloc(Freed(Heap, i), i)' <=> CanAlloc(Freed(Heap, i), i)
  BY <1>2, <1>6 DEF CanAlloc
<1> QED
  BY <1>4, <1>7 DEF Fits

\* A step that leaves what is in the log.
LEMMA SameBefore ==
  ASSUME Slots' = Slots, \A s \in Slots : log'[s] = log[s]
  PROVE  /\ InUseBefore => InUseBefore'
         /\ Unmoved' <=> Unmoved
<1>1. \A s \in Slots : OlderThanSlot(s)' = OlderThanSlot(s) /\ OlderThanSlot(s) \subseteq Slots
  BY DEF OlderThanSlot, Older
<1>2. \A a : \A s \in Slots :
        /\ AllocSlots(OlderThanSlot(s), a)' = AllocSlots(OlderThanSlot(s), a)
        /\ FreeSlots(OlderThanSlot(s), a)' = FreeSlots(OlderThanSlot(s), a)
  BY <1>1 DEF AllocSlots, FreeSlots, AllocsAt, FreesAt, Allocs, Frees
<1>3. ASSUME InUseBefore, NEW s \in Slots',
             InPlace(log'[s]), log'[s].result = log'[s].pointer
      PROVE  Cardinality(FreeSlots(OlderThanSlot(s), log[s].result)')
               < Cardinality(AllocSlots(OlderThanSlot(s), log[s].result)')
  <2>1. s \in Slots /\ log'[s] = log[s]
    OBVIOUS
  <2>2. /\ AllocSlots(OlderThanSlot(s), log[s].result)' = AllocSlots(OlderThanSlot(s), log[s].result)
        /\ FreeSlots(OlderThanSlot(s), log[s].result)' = FreeSlots(OlderThanSlot(s), log[s].result)
    BY <1>1, <2>1 DEF AllocSlots, FreeSlots, AllocsAt, FreesAt, Allocs, Frees
  <2> QED
    BY <1>3, <2>1, <2>2 DEF InUseBefore, InPlace
<1>4. Unmoved' <=> Unmoved
  BY DEF Unmoved
<1> QED
  BY <1>3, <1>4 DEF InUseBefore, InPlace

\* The record of a realloc in place is younger than more allocs of its
\* address than frees: its own thread has the block.
LEMMA StampBefore ==
  ASSUME FineClock, TraceType, SlotsInv, BalanceOK, phase = "run", ClockOK, InUseBefore,
         NEW t \in Threads, Stamp(t), NEW n, n = NextSlot(t)
  PROVE  InUseBefore' /\ \A s \in Slots' : Before(log'[s].stamp, clock')
<1> DEFINE r == inCall[t]
<1>1. /\ t \in InFlight /\ n \notin Slots /\ Slots' = Slots \union {n}
      /\ log'[n] = Stamped(r, clock) /\ \A s \in Slots : log'[s] = log[s]
      /\ IsFiniteSet(Slots) /\ clock \in Stamps /\ clock' \in NextStamps
      /\ RecordOK(r)
  BY StampFacts DEF Stamp, TraceType, LogOK
<1> HIDE DEF r
<1>2. clock' \in Stamps /\ Before(clock, clock')
  BY <1>1, ClockFacts DEF FineClock
<1>3. /\ log'[n].mode = r.mode /\ log'[n].result = r.result /\ log'[n].pointer = r.pointer
      /\ log'[n].stamp = clock
  BY <1>1, StampedFacts
<1>4. \A s \in Slots : log[s].stamp \in Stamps /\ Before(log[s].stamp, clock)
  BY DEF TraceType, LogOK, ClockOK
<1>5. ASSUME NEW s \in Slots' PROVE Before(log'[s].stamp, clock')
  <2>1. CASE s = n
    BY <1>2, <1>3, <2>1
  <2>2. CASE s \in Slots
    BY <1>1, <1>2, <1>4, <2>2 DEF Before, Stamps
  <2> QED
    BY <1>1, <2>1, <2>2
<1>6. \A s \in Slots :
        /\ ~ OlderThan(clock, n, log[s].stamp, s)
        /\ OlderThan(log[s].stamp, s, clock, n)
  <2> SUFFICES ASSUME NEW s \in Slots
               PROVE  /\ ~ OlderThan(clock, n, log[s].stamp, s)
                      /\ OlderThan(log[s].stamp, s, clock, n)
    OBVIOUS
  <2>1. /\ clock.sec \in Nat /\ clock.usec \in Nat
        /\ log[s].stamp.sec \in Nat /\ log[s].stamp.usec \in Nat
    BY <1>1, <1>4 DEF Stamps
  <2> QED
    BY <1>4, <2>1 DEF OlderThan, Before
<1>7. /\ \A s \in Slots : OlderThanSlot(s)' = OlderThanSlot(s)
      /\ OlderThanSlot(n)' = Slots
  <2>1. \A u, s : Older(u, s)' <=> OlderThan(log'[u].stamp, u, log'[s].stamp, s)
    BY DEF Older
  <2>2. ASSUME NEW s \in Slots
        PROVE  ~ Older(n, s)' /\ Older(s, n)' /\ \A u \in Slots : Older(u, s)' <=> Older(u, s)
    BY <1>1, <1>3, <1>6, <2>1 DEF Older
  <2>3. ~ Older(n, n)'
    <3>1. n \in Nat /\ clock.sec \in Nat /\ clock.usec \in Nat
      BY <1>1, StampFacts DEF Stamps
    <3>2. ~ OlderThan(clock, n, clock, n)
      BY <3>1 DEF OlderThan
    <3> QED
      BY <1>3, <2>1, <3>2
  <2>4. \A s : OlderThanSlot(s)' = {u \in Slots' : Older(u, s)'}
    BY DEF OlderThanSlot
  <2>5. OlderThanSlot(n)' = Slots
    BY <1>1, <2>2, <2>3, <2>4
  <2>6. ASSUME NEW s \in Slots PROVE OlderThanSlot(s)' = OlderThanSlot(s)
    BY <1>1, <2>2, <2>4 DEF OlderThanSlot
  <2> QED
    BY <2>5, <2>6
<1>8. \A a : \A S \in SUBSET Slots :
        /\ {s \in S : AllocsAt(log'[s], a)} = AllocSlots(S, a)
        /\ {s \in S : FreesAt(log'[s], a)} = FreeSlots(S, a)
  BY <1>1 DEF AllocSlots, FreeSlots
<1>9. ASSUME NEW s \in Slots', InPlace(log'[s]), log'[s].result = log'[s].pointer
      PROVE  Cardinality({u \in OlderThanSlot(s)' : FreesAt(log'[u], log'[s].result)})
               < Cardinality({u \in OlderThanSlot(s)' : AllocsAt(log'[u], log'[s].result)})
  <2>1. CASE s \in Slots
    <3> DEFINE O == OlderThanSlot(s)
               a == log[s].result
    <3>1. OlderThanSlot(s)' = O /\ O \subseteq Slots
      BY <1>7, <2>1 DEF OlderThanSlot
    <3>2. log'[s] = log[s] /\ log'[s].result = a
      BY <1>1, <2>1
    <3>3. Cardinality(FreeSlots(O, a)) < Cardinality(AllocSlots(O, a))
      BY <1>9, <2>1, <3>2 DEF InUseBefore
    <3> HIDE DEF O, a
    <3>4. /\ {u \in O : AllocsAt(log'[u], a)} = AllocSlots(O, a)
          /\ {u \in O : FreesAt(log'[u], a)} = FreeSlots(O, a)
      BY <1>8, <3>1
    <3> QED
      BY <3>1, <3>2, <3>3, <3>4
  <2>2. CASE s = n
    <3> DEFINE p == r.result
    <3>1. r.mode = "realloc" /\ r.result # 0 /\ r.pointer = r.result /\ p \in Addresses
      BY <1>1, <1>3, <1>9, <2>2 DEF InPlace, RecordOK
    <3>2. t \in Allocating(p) /\ t \in Freeing(p)
      BY <1>1, <3>1 DEF Allocating, Freeing, AllocsAt, FreesAt, Allocs, Frees, r
    <3> HIDE DEF p
    <3>3. Allocating(p) = {t} /\ heap[p] # Unused
      BY <3>1, <3>2 DEF BalanceOK
    <3>4. Cardinality(Allocating(p)) = 1
      BY <3>3, FS_Singleton
    <3>5. Cardinality(Freeing(p)) \in Nat /\ Cardinality(Freeing(p)) # 0
      BY <1>1, <3>2, CountFacts, FS_EmptySet
    <3>6. /\ Cardinality(AllocSlots(Slots, p)) \in Nat /\ Cardinality(FreeSlots(Slots, p)) \in Nat
      BY <1>1, CountFacts
    <3>7. Cardinality(AllocSlots(Slots, p)) + Cardinality(Allocating(p))
            = Cardinality(FreeSlots(Slots, p)) + Cardinality(Freeing(p)) + InUse(heap[p] # Unused)
      BY <3>1 DEF BalanceOK, p
    <3>8. Cardinality(FreeSlots(Slots, p)) < Cardinality(AllocSlots(Slots, p))
      BY <3>3, <3>4, <3>5, <3>6, <3>7 DEF InUse
    <3>9. log'[s].result = p
      BY <1>3, <2>2 DEF p
    <3>10. /\ {u \in Slots : AllocsAt(log'[u], p)} = AllocSlots(Slots, p)
           /\ {u \in Slots : FreesAt(log'[u], p)} = FreeSlots(Slots, p)
      BY <1>8
    <3> QED
      BY <1>7, <2>2, <3>8, <3>9, <3>10
  <2> QED
    BY <1>1, <2>1, <2>2
<1>10. InUseBefore'
  <2>1. \A s, a : /\ AllocSlots(OlderThanSlot(s), a)' = {u \in OlderThanSlot(s)' : AllocsAt(log'[u], a)}
                  /\ FreeSlots(OlderThanSlot(s), a)' = {u \in OlderThanSlot(s)' : FreesAt(log'[u], a)}
    BY DEF AllocSlots, FreeSlots, AllocsAt, FreesAt, Allocs, Frees
  <2> SUFFICES ASSUME NEW s \in Slots', InPlace(log'[s]), log'[s].result = log'[s].pointer
               PROVE  (Cardinality(FreeSlots(OlderThanSlot(s), log[s].result))
                         < Cardinality(AllocSlots(OlderThanSlot(s), log[s].result)))'
    BY DEF InUseBefore, InPlace
  <2>2. Cardinality({u \in OlderThanSlot(s)' : FreesAt(log'[u], log'[s].result)})
          < Cardinality({u \in OlderThanSlot(s)' : AllocsAt(log'[u], log'[s].result)})
    BY <1>9
  <2> QED
    BY <2>2 DEF AllocSlots, FreeSlots, AllocsAt, FreesAt, Allocs, Frees
<1> QED
  BY <1>5, <1>10

\* A realloc in place, taken from order when no other one is put aside, fits:
\* what would be missing is an alloc of its address, and those in retryList
\* would fit, for the address is not in use.
LEMMA InPlaceFits ==
  ASSUME IInv, CountInv, OrderInv, Unmoved, NextRecord, NEW i, i = order[orderItr],
         InPlace(log[i])
  PROVE  Fits(Heap, i)
<1> SUFFICES ASSUME ~ Fits(Heap, i) PROVE FALSE
  OBVIOUS
<1> DEFINE p == log[i].result
<1>1. /\ LogOK /\ HeapOK(Heap) /\ i \in Slots /\ PlacedSlots \subseteq Slots
      /\ Range(retryList) \subseteq Slots
      /\ {order[k] : k \in Taken} = OlderThanSlot(i)
  BY NextRecordPlaces
<1>2. phase = "build" /\ ReplayBalance /\ InUseBefore /\ QuietOK
      /\ \A r \in Range(retryList) : ~ InPlace(log[r]) /\ ~ Fits(Heap, r)
  BY DEF NextRecord, CountInv, OrderInv, QuietOK, Replaying
<1>3. log[i].pointer = p /\ Frees(log[i]) /\ Allocs(log[i]) /\ p \in Addresses
  BY <1>1, RecordFacts DEF InPlace, Unmoved, Frees, Allocs
<1>4. p \notin LiveIn(Heap)
  BY <1>1, <1>3, FitsFacts
<1>5. ASSUME NEW r \in Range(retryList) PROVE ~ AllocsAt(log[r], p)
  <2> SUFFICES ASSUME AllocsAt(log[r], p) PROVE FALSE
    OBVIOUS
  <2>1. r \in Slots /\ log[r].mode = "malloc" /\ Allocs(log[r]) /\ log[r].result = p
    BY <1>1, <1>2 DEF AllocsAt, Allocs, InPlace
  <2>2. ~ Frees(log[r])
    BY <2>1 DEF Frees
  <2> QED
    BY <1>1, <1>2, <1>4, <2>1, <2>2, FitsFacts
<1>6. PlacedSlots = OlderThanSlot(i) \ Range(retryList) /\ OlderThanSlot(i) \subseteq Slots
  BY <1>1 DEF PlacedSlots, OlderThanSlot
<1>7. AllocSlots(OlderThanSlot(i), p) = AllocSlots(PlacedSlots, p)
  BY <1>5, <1>6 DEF AllocSlots
<1>8. Cardinality(FreeSlots(PlacedSlots, p)) <= Cardinality(FreeSlots(OlderThanSlot(i), p))
  <2>1. IsFiniteSet(Slots) /\ PlacedSlots \subseteq OlderThanSlot(i)
    BY <1>1, <1>6 DEF LogOK
  <2> QED
    BY <1>6, <2>1, FewerRecords
<1>9. Cardinality(FreeSlots(OlderThanSlot(i), p)) < Cardinality(AllocSlots(OlderThanSlot(i), p))
  BY <1>1, <1>2, <1>3 DEF InUseBefore
<1>10. Cardinality(AllocSlots(PlacedSlots, p)) = Cardinality(FreeSlots(PlacedSlots, p))
  <2>1. ~ Open(Heap, p)
    BY <1>3, <1>4 DEF LiveIn
  <2>2. Cardinality(AllocSlots(PlacedSlots, p))
          = Cardinality(FreeSlots(PlacedSlots, p)) + InUse(Open(Heap, p))
    BY <1>2, <1>3 DEF ReplayBalance
  <2>3. Cardinality(FreeSlots(PlacedSlots, p)) \in Nat
    BY <1>1, CountFacts DEF LogOK
  <2> QED
    BY <2>1, <2>2, <2>3 DEF InUse
<1>11. /\ Cardinality(FreeSlots(PlacedSlots, p)) \in Nat
       /\ Cardinality(FreeSlots(OlderThanSlot(i), p)) \in Nat
       /\ Cardinality(AllocSlots(OlderThanSlot(i), p)) \in Nat
  BY <1>1, <1>6, CountFacts DEF LogOK
<1> QED
  BY <1>7, <1>8, <1>9, <1>10, <1>11

\* The steps of the program.
LEMMA RunOrder == FineClock /\ IInv /\ CountInv /\ OrderInv /\ Run => OrderInv'
<1> SUFFICES ASSUME FineClock, IInv, CountInv, OrderInv, Run PROVE OrderInv'
  OBVIOUS
<1>1. /\ phase = "run" /\ phase' = "run" /\ TraceType /\ SlotsInv /\ BalanceOK
      /\ ClockOK /\ InUseBefore
  BY DEF Run, IInv, RunInv, CountInv, OrderInv
<1>2. PICK t \in Threads : Malloc(t) \/ Free(t) \/ Realloc(t) \/ Stamp(t)
  BY DEF Run, TraceNext
<1>3. ClockOK' /\ InUseBefore'
  <2>1. CASE Stamp(t)
    <3>1. InUseBefore' /\ \A s \in Slots' : Before(log'[s].stamp, clock')
      BY <1>1, <2>1, StampBefore
    <3> QED
      BY <3>1 DEF ClockOK, Before
  <2>2. CASE Malloc(t) \/ Free(t) \/ Realloc(t)
    <3>1. PICK r : Begins(t, r)
      BY <1>1, <2>2, MallocBegins, FreeBegins, ReallocBegins
    <3>2. log' = log /\ clock' = clock /\ Slots' = Slots
      BY <3>1, SameLog DEF Begins
    <3> QED
      BY <1>1, <3>2, SameBefore DEF ClockOK, Before
  <2> QED
    BY <1>2, <2>1, <2>2
<1> QED
  BY <1>1, <1>3 DEF OrderInv, QuietOK, Replaying

\* The steps of the analysis before build.
LEMMA EndOrder == FineClock /\ IInv /\ OrderInv /\ End => OrderInv'
<1> SUFFICES ASSUME FineClock, IInv, OrderInv, End PROVE OrderInv'
  OBVIOUS
<1>1. /\ phase' = "sizes" /\ Slots' = Slots /\ \A s \in Slots : log'[s] = log[s]
  BY EndKeepsLog DEF FineClock
<1>2. InUseBefore'
  BY <1>1, SameBefore DEF OrderInv
<1> QED
  BY <1>1, <1>2 DEF OrderInv, ClockOK, QuietOK, Replaying

LEMMA SortOrder == IInv /\ OrderInv /\ Sort => OrderInv'
<1> SUFFICES ASSUME IInv, OrderInv, Sort PROVE OrderInv'
  OBVIOUS
<1>1. /\ log' = log /\ retryList' = retryList /\ phase' \in {"crashed", "build"}
      /\ Untouched
  BY DEF Sort, traceVars, IInv, ReplayInv
<1>2. InUseBefore'
  BY <1>1, SameLog, SameBefore DEF OrderInv
<1>3. Range(retryList)' = {}
  BY <1>1 DEF Untouched, Range
<1> QED
  BY <1>1, <1>2, <1>3 DEF OrderInv, ClockOK, QuietOK, Replaying

\* The steps of build.
LEMMA NextRecordOrder == IInv /\ CountInv /\ OrderInv /\ NextRecord => OrderInv'
<1> SUFFICES ASSUME IInv, CountInv, OrderInv, NextRecord PROVE OrderInv'
  OBVIOUS
<1>1. PICK i : i = order[orderItr]
  OBVIOUS
<1>2. /\ LogOK /\ HeapOK(Heap) /\ MarksOK /\ log' = log /\ AddRecord(i) /\ i \in Slots
      /\ Fits(Heap, i) => phase' = "retry" /\ retryItr' = 1 /\ retryList' = retryList
      /\ ~ Fits(Heap, i) => phase' = "build"
                              /\ Range(retryList') = Range(retryList) \union {i}
  BY <1>1, NextRecordPlaces
<1>3. /\ phase = "build" /\ InUseBefore'
      /\ Unmoved' <=> Unmoved
  BY <1>2, SameLog, SameBefore DEF NextRecord, OrderInv
<1>4. QuietOK'
  <2>1. CASE Fits(Heap, i)
    BY <1>2, <2>1 DEF QuietOK
  <2>2. CASE ~ Fits(Heap, i)
    <3>1. allocationMap' = allocationMap
      BY <1>2, <2>2, Adding
    <3>2. \A r : Fits(Heap, r)' <=> Fits(Heap, r)
      BY <1>2, <3>1, FitsSame
    <3>3. \A r \in Range(retryList') : ~ Fits(Heap, r)'
      BY <1>2, <1>3, <2>2, <3>2 DEF OrderInv, QuietOK
    <3> QED
      BY <1>2, <2>2, <3>3 DEF QuietOK
  <2> QED
    BY <2>1, <2>2
<1>5. ASSUME Unmoved', NEW r \in Range(retryList') PROVE ~ InPlace(log'[r])
  <2>1. \A s \in Range(retryList) : ~ InPlace(log[s])
    BY <1>3, <1>5 DEF OrderInv, Replaying
  <2>2. CASE Fits(Heap, i)
    BY <1>2, <2>1, <2>2
  <2>3. CASE ~ Fits(Heap, i)
    <3>1. ~ InPlace(log[i])
      BY <1>1, <1>3, <1>5, <2>3, InPlaceFits
    <3> QED
      BY <1>2, <2>1, <2>3, <3>1
  <2> QED
    BY <2>2, <2>3
<1>6. phase' # "run"
  BY <1>2
<1>7. Unmoved' => \A r \in Range(retryList)' : ~ InPlace(log[r])'
  BY <1>5 DEF InPlace
<1> QED
  BY <1>3, <1>4, <1>6, <1>7 DEF OrderInv, ClockOK

LEMMA RetryOrder == IInv /\ OrderInv /\ Retry => OrderInv'
<1> SUFFICES ASSUME IInv, OrderInv, Retry PROVE OrderInv'
  OBVIOUS
<1>1. PICK i : i = retryList[retryItr]
  OBVIOUS
<1>2. /\ LogOK /\ HeapOK(Heap) /\ MarksOK /\ log' = log /\ AddRecord(i) /\ i \in Slots
      /\ phase' = "retry" /\ retryItr \in Nat \ {0}
      /\ Fits(Heap, i) => progress' = TRUE /\ Range(retryList') = Range(retryList) \ {i}
      /\ ~ Fits(Heap, i) => retryList' = retryList /\ retryItr' = retryItr + 1
                              /\ progress' = progress
  BY <1>1, RetryPlaces
<1>3. /\ phase = "retry" /\ InUseBefore'
      /\ Unmoved' <=> Unmoved
  BY <1>2, SameLog, SameBefore DEF Retry, OrderInv
<1>4. QuietOK'
  <2>1. CASE Fits(Heap, i)
    BY <1>2, <2>1 DEF QuietOK
  <2>2. CASE ~ Fits(Heap, i)
    <3>1. allocationMap' = allocationMap
      BY <1>2, <2>2, Adding
    <3>2. \A r : Fits(Heap, r)' <=> Fits(Heap, r)
      BY <1>2, <3>1, FitsSame
    <3>3. ASSUME ~ progress' PROVE \A r \in {retryList'[k] : k \in 1 .. retryItr' - 1} : ~ Fits(Heap, r)'
      <4>1. ~ progress /\ retryList' = retryList /\ retryItr' = retryItr + 1
        BY <1>2, <2>2, <3>3
      <4>2. {retryList'[k] : k \in 1 .. retryItr' - 1}
              = {retryList[k] : k \in 1 .. retryItr - 1} \union {i}
        <5>1. 1 .. retryItr' - 1 = (1 .. retryItr - 1) \union {retryItr}
          BY <1>2, <4>1
        <5> QED
          BY <1>1, <4>1, <5>1
      <4>3. \A r \in {retryList[k] : k \in 1 .. retryItr - 1} : ~ Fits(Heap, r)
        BY <1>3, <4>1 DEF OrderInv, QuietOK
      <4> QED
        BY <2>2, <3>2, <4>2, <4>3
    <3> QED
      BY <1>2, <3>3 DEF QuietOK
  <2> QED
    BY <2>1, <2>2
<1>5. ASSUME Unmoved', NEW r \in Range(retryList)' PROVE ~ InPlace(log[r])'
  <2>1. r \in Range(retryList)
    BY <1>2
  <2> QED
    BY <1>2, <1>3, <1>5, <2>1 DEF OrderInv, Replaying, InPlace
<1> QED
  BY <1>2, <1>3, <1>4, <1>5 DEF OrderInv, ClockOK

LEMMA EndPassOrder == IInv /\ OrderInv /\ EndPass => OrderInv'
<1> SUFFICES ASSUME IInv, OrderInv, EndPass PROVE OrderInv'
  OBVIOUS
<1>1. /\ phase = "retry" /\ retryItr > Len(retryList) /\ retryItr' = 1
      /\ log' = log /\ retryList' = retryList /\ allocationMap' = allocationMap
      /\ \/ progress /\ phase' = "retry"
         \/ ~ progress /\ phase' = "build"
  BY DEF EndPass, traceVars, heapVars
<1>2. /\ InUseBefore'
      /\ Unmoved' <=> Unmoved
  BY <1>1, SameLog, SameBefore DEF OrderInv
<1>3. \A r : Fits(Heap, r)' <=> Fits(Heap, r)
  BY <1>1, FitsSame
<1>4. retryList \in Seq(Slots) /\ retryItr \in 1 .. Len(retryList) + 1
  BY <1>1 DEF IInv, ReplayInv, Replaying, ListOK
<1>5. QuietOK'
  <2>1. CASE phase' = "retry"
    BY <1>1, <2>1 DEF QuietOK
  <2>2. CASE phase' = "build"
    <3>1. ~ progress
      BY <1>1, <2>2
    <3>2. \A r \in {retryList[k] : k \in 1 .. retryItr - 1} : ~ Fits(Heap, r)
      BY <1>1, <3>1 DEF OrderInv, QuietOK
    <3>3. DOMAIN retryList = 1 .. retryItr - 1
      BY <1>1, <1>4
    <3>4. \A r \in Range(retryList) : ~ Fits(Heap, r)
      BY <3>2, <3>3 DEF Range
    <3> QED
      BY <1>1, <1>3, <2>2, <3>4 DEF QuietOK
  <2> QED
    BY <1>1, <2>1, <2>2
<1>6. ASSUME Unmoved', NEW r \in Range(retryList)' PROVE ~ InPlace(log[r])'
  BY <1>1, <1>2, <1>6 DEF OrderInv, Replaying, InPlace
<1> QED
  BY <1>1, <1>2, <1>5, <1>6 DEF OrderInv, ClockOK

\* A step that leaves what the analysis has.
LEMMA SameOrder ==
  ASSUME OrderInv, log' = log, clock' = clock, retryList' = retryList,
         allocationMap' = allocationMap, progress' = progress, retryItr' = retryItr,
         phase' = phase \/ (phase = "build" /\ phase' = "done")
  PROVE  OrderInv'
<1>1. /\ Slots' = Slots /\ InUseBefore'
      /\ Unmoved' <=> Unmoved
  BY SameLog, SameBefore DEF OrderInv
<1>2. \A r : Fits(Heap, r)' <=> Fits(Heap, r)
  BY FitsSame
<1>3. QuietOK'
  BY <1>2 DEF OrderInv, QuietOK
<1>4. ClockOK'
  BY <1>1 DEF OrderInv, ClockOK, Before
<1>5. ASSUME Unmoved', phase' \in Replaying, NEW r \in Range(retryList)' PROVE ~ InPlace(log[r])'
  BY <1>1, <1>5 DEF OrderInv, Replaying, InPlace
<1> QED
  BY <1>1, <1>3, <1>4, <1>5 DEF OrderInv

\* What a realloc in place finds, at every step.
LEMMA OrderInvariance == FineClock => (Spec => []OrderInv)
<1> SUFFICES ASSUME FineClock PROVE Spec => []OrderInv
  OBVIOUS
<1>1. Init => OrderInv
  BY DEF Init, TraceInit, OrderInv, ClockOK, InUseBefore, QuietOK, Slots, Replaying
<1>2. IInv /\ CountInv /\ OrderInv /\ [Next]_vars => OrderInv'
  <2> SUFFICES ASSUME IInv, CountInv, OrderInv, [Next]_vars PROVE OrderInv'
    OBVIOUS
  <2>1. ASSUME Done \/ UNCHANGED vars PROVE OrderInv'
    <3>1. /\ log' = log /\ clock' = clock /\ retryList' = retryList
          /\ allocationMap' = allocationMap /\ progress' = progress /\ retryItr' = retryItr
          /\ phase' = phase \/ (phase = "build" /\ phase' = "done")
      BY <2>1 DEF Done, vars, traceVars, iterVars, heapVars
    <3> QED
      BY <3>1, SameOrder
  <2> QED
    BY <2>1, RunOrder, EndOrder, SortOrder, NextRecordOrder, RetryOrder, EndPassOrder
       DEF Next, Build, Terminated
<1>3. Spec => []CountInv
  BY CountInvariance DEF FineClock
<1> QED
  BY <1>1, <1>2, <1>3, Invariance, PTL DEF Spec

\* build leaves no record unplaced if no realloc has moved its block, for any
\* number of threads, whatever the order they stamped their records in.  With
\* a realloc that moves its block that is not so: run Compactness_moves.
THEOREM UnmovedPlacedCorrect == FineClock => (Spec => []UnmovedPlaced)
<1> SUFFICES ASSUME FineClock PROVE Spec => []UnmovedPlaced
  OBVIOUS
<1>1. IInv /\ CountInv /\ OrderInv => UnmovedPlaced
  <2> SUFFICES ASSUME IInv, CountInv, OrderInv, Unmoved, phase = "done", retryList # <<>>
               PROVE  FALSE
    BY DEF UnmovedPlaced, AllPlaced
  <2>1. /\ OrderOK /\ ListOK /\ LogOK /\ HeapOK(Heap) /\ orderItr = Cardinality(Slots) + 1
        /\ BalanceOK /\ ReplayBalance /\ InFlight = {} /\ QuietOK
        /\ \A r \in Range(retryList) : ~ InPlace(log[r]) /\ ~ Fits(Heap, r)
    BY DEF IInv, ReplayInv, LoggedInv, Replaying, CountInv, OrderInv, QuietOK
  <2>2. Cardinality(Slots) \in Nat /\ IsFiniteSet(Slots)
    BY <2>1, FS_CardinalityType DEF LogOK
  <2>3. Taken = DOMAIN order
    BY <2>1, <2>2 DEF Taken, OrderOK
  <2>4. PlacedSlots = Slots \ Range(retryList) /\ Range(retryList) \subseteq Slots
    BY <2>1, <2>3 DEF PlacedSlots, OrderOK, ListOK, Range
  <2>5. PICK i \in Range(retryList) : TRUE
    BY <2>1 DEF ListOK, Range
  <2>6. i \in Slots /\ ~ Fits(Heap, i) /\ ~ InPlace(log[i])
    BY <2>1, <2>4
  <2>7. PICK p \in Addresses :
          \/ AllocsAt(log[i], p) /\ p \in LiveIn(Heap)
          \/ FreesAt(log[i], p) /\ p \notin LiveIn(Heap)
    <3>1. /\ Allocs(log[i]) => log[i].result \in Addresses
          /\ Frees(log[i]) => log[i].pointer \in Addresses
      BY <2>1, <2>6, RecordFacts
    <3> QED
      BY <2>1, <2>6, <3>1, FitsFacts DEF AllocsAt, FreesAt
  <2> DEFINE A(S) == Cardinality(AllocSlots(S, p))
             F(S) == Cardinality(FreeSlots(S, p))
  <2>8. /\ A(Slots) \in Nat /\ F(Slots) \in Nat
        /\ A(PlacedSlots) \in Nat /\ F(PlacedSlots) \in Nat
        /\ A(PlacedSlots) <= A(Slots) /\ F(PlacedSlots) <= F(Slots)
    BY <2>2, <2>4, CountFacts, FewerRecords
  <2>9. A(Slots) = F(Slots) \/ A(Slots) = F(Slots) + 1
    <3>1. Allocating(p) = {} /\ Freeing(p) = {}
      BY <2>1 DEF Allocating, Freeing
    <3>2. Cardinality(Allocating(p)) = 0 /\ Cardinality(Freeing(p)) = 0
      BY <3>1, FS_EmptySet
    <3>3. A(Slots) + Cardinality(Allocating(p))
            = F(Slots) + Cardinality(Freeing(p)) + InUse(heap[p] # Unused)
      BY <2>1 DEF BalanceOK
    <3>4. InUse(heap[p] # Unused) \in {0, 1}
      BY DEF InUse
    <3> QED
      BY <2>8, <3>2, <3>3, <3>4
  <2>10. A(PlacedSlots) = F(PlacedSlots) + InUse(p \in LiveIn(Heap))
    BY <2>1 DEF ReplayBalance, LiveIn, InUse
  <2>11. CASE AllocsAt(log[i], p) /\ p \in LiveIn(Heap)
    <3>1. ASSUME NEW r \in Range(retryList) PROVE ~ FreesAt(log[r], p)
      <4> SUFFICES ASSUME FreesAt(log[r], p) PROVE FALSE
        OBVIOUS
      <4>1. r \in Slots /\ Frees(log[r]) /\ log[r].pointer = p /\ ~ Allocs(log[r])
        BY <2>1, <2>4 DEF FreesAt, Frees, Allocs, InPlace
      <4> QED
        BY <2>1, <2>11, <4>1, FitsFacts
    <3>2. FreeSlots(Slots, p) = FreeSlots(PlacedSlots, p)
      BY <2>4, <3>1 DEF FreeSlots
    <3>3. A(PlacedSlots \union {i}) = A(PlacedSlots) + 1
      BY <2>2, <2>4, <2>5, <2>6, <2>11, OneMore DEF InUse
    <3>4. A(PlacedSlots \union {i}) <= A(Slots)
      BY <2>2, <2>4, <2>6, FewerRecords
    <3> QED
      BY <2>8, <2>9, <2>10, <2>11, <3>2, <3>3, <3>4 DEF InUse
  <2>12. CASE FreesAt(log[i], p) /\ p \notin LiveIn(Heap)
    <3>1. ASSUME NEW r \in Range(retryList) PROVE ~ AllocsAt(log[r], p)
      <4> SUFFICES ASSUME AllocsAt(log[r], p) PROVE FALSE
        OBVIOUS
      <4>1. r \in Slots /\ Allocs(log[r]) /\ log[r].result = p /\ ~ Frees(log[r])
        BY <2>1, <2>4 DEF AllocsAt, Frees, Allocs, InPlace
      <4> QED
        BY <2>1, <2>12, <4>1, FitsFacts
    <3>2. AllocSlots(Slots, p) = AllocSlots(PlacedSlots, p)
      BY <2>4, <3>1 DEF AllocSlots
    <3>3. F(PlacedSlots \union {i}) = F(PlacedSlots) + 1
      BY <2>2, <2>4, <2>5, <2>6, <2>12, OneMore DEF InUse
    <3>4. F(PlacedSlots \union {i}) <= F(Slots)
      BY <2>2, <2>4, <2>6, FewerRecords
    <3> QED
      BY <2>8, <2>9, <2>10, <2>12, <3>2, <3>3, <3>4 DEF InUse
  <2> QED
    BY <2>7, <2>11, <2>12
<1>2. Spec => []CountInv
  BY CountInvariance DEF FineClock
<1> QED
  BY <1>1, <1>2, Invariance, OrderInvariance, PTL

-----------------------------------------------------------------------------
(* AllPlaced, for one thread.                                               *)

\* The clock does not go back.
LEMMA ClockForward ==
  ASSUME Clock # "set", clock \in Stamps, clock' \in NextStamps
  PROVE  NotLater(clock, clock')
<1>1. clock' = clock \/ clock' = NextStamp(clock)
  BY TraceAssumption DEF NextStamps
<1>2. clock.sec \in Nat /\ clock.usec \in Nat
  BY DEF Stamps
<1>3. CASE clock' = NextStamp(clock)
  <2>1. CASE clock.usec + 1 < UsecPerSec
    <3>1. clock'.sec = clock.sec /\ clock'.usec = clock.usec + 1
      BY <1>3, <2>1 DEF NextStamp, Stamps
    <3> QED
      BY <1>2, <3>1 DEF NotLater
  <2>2. CASE ~ (clock.usec + 1 < UsecPerSec)
    <3>1. clock'.sec = clock.sec + 1
      BY <1>3, <2>2 DEF NextStamp
    <3> QED
      BY <1>2, <3>1 DEF NotLater
  <2> QED
    BY <2>1, <2>2
<1> QED
  BY <1>1, <1>2, <1>3 DEF NotLater

\* The slots of the one thread.
LEMMA OneFilled ==
  ASSUME NThreads = 1, TraceType, SlotsInv, NEW t \in Threads,
         \A s \in Slots : s < Cardinality(Slots)
  PROVE  /\ NextSlot(t) = Cardinality(Slots) /\ Cardinality(Slots) \in Nat
         /\ \A u \in Threads : u = t
<1>1. Threads = {1} /\ t = 1
  BY DEF Threads
<1>2. IsFiniteSet(Slots) /\ Slots \subseteq Nat /\ Cardinality(Slots) \in Nat
  BY FS_CardinalityType DEF TraceType, LogOK
<1>3. Cardinality(Slots) <= MaxCalls /\ MaxCalls \in Nat
  <2>1. CallsMade = Cardinality(Slots) + Cardinality(InFlight)
    BY DEF CallsMade, InFlight
  <2> QED
    BY <1>2, <2>1, InFlightFacts, TraceAssumption DEF SlotsInv
<1>4. Block(t) = 0
  BY <1>1, <1>3 DEF Block
<1>5. {s \in Slots : Block(t) <= s /\ s < Block(t) + MaxCalls} = Slots
  <2>1. ASSUME NEW s \in Slots PROVE 0 <= s /\ s < 0 + MaxCalls
    <3>1. s \in Nat /\ s < Cardinality(Slots)
      BY <1>2
    <3> QED
      BY <1>2, <1>3, <3>1
  <2> QED
    BY <1>4, <2>1
<1> QED
  BY <1>1, <1>2, <1>4, <1>5 DEF NextSlot

\* A step that leaves what is in the log.
LEMMA SameTurn ==
  ASSUME Slots' = Slots, \A s \in Slots : log'[s] = log[s]
  PROVE  /\ InTurn => InTurn'
         /\ (\A r, s \in Slots : r < s => NotLater(log[r].stamp, log[s].stamp))
              => (\A r, s \in Slots : r < s => NotLater(log[r].stamp, log[s].stamp))'
<1>1. ASSUME NEW s
      PROVE  /\ SlotsBefore(s)' = SlotsBefore(s) /\ SlotsBefore(s) \subseteq Slots
  BY DEF SlotsBefore
<1>2. ASSUME NEW s, NEW a
      PROVE  /\ AllocSlots(SlotsBefore(s), a)' = AllocSlots(SlotsBefore(s), a)
             /\ FreeSlots(SlotsBefore(s), a)' = FreeSlots(SlotsBefore(s), a)
  BY <1>1 DEF AllocSlots, FreeSlots, AllocsAt, FreesAt, Allocs, Frees
<1>3. ASSUME NEW s \in Slots, NEW a
      PROVE  /\ FreesAt(log[s], a)' <=> FreesAt(log[s], a)
             /\ AllocsAt(log[s], a)' <=> AllocsAt(log[s], a)
  BY DEF AllocsAt, FreesAt, Allocs, Frees
<1>4. InTurn => InTurn'
  BY <1>2, <1>3 DEF InTurn
<1> QED
  BY <1>4 DEF NotLater

\* The record of the one thread is the youngest, and its call found the heap
\* as the calls logged before have left it.
LEMMA StampTurn ==
  ASSUME OneByOne, TraceType, SlotsInv, BalanceOK, phase = "run", InTurn, StampsOK,
         NEW t \in Threads, Stamp(t), NEW n, n = NextSlot(t)
  PROVE  /\ InTurn'
         /\ \A r, s \in Slots' : r < s => NotLater(log'[r].stamp, log'[s].stamp)
         /\ \A s \in Slots' : s < Cardinality(Slots') /\ NotLater(log'[s].stamp, clock')
<1> DEFINE r == inCall[t]
<1>1. /\ t \in InFlight /\ n \notin Slots /\ Slots' = Slots \union {n}
      /\ log'[n] = Stamped(r, clock) /\ \A s \in Slots : log'[s] = log[s]
      /\ IsFiniteSet(Slots) /\ Slots \subseteq Nat
      /\ clock \in Stamps /\ clock' \in NextStamps
  BY StampFacts DEF Stamp, TraceType, LogOK
<1> HIDE DEF r
<1>2. /\ n = Cardinality(Slots) /\ Cardinality(Slots) \in Nat
      /\ \A u \in Threads : u = t
      /\ \A s \in Slots : s < n
  BY OneFilled DEF StampsOK, OneByOne
<1>3. Cardinality(Slots') = n + 1
  BY <1>1, <1>2, FS_AddElement
<1>4. log'[n].stamp = clock
  BY <1>1, StampedFacts
<1>5. clock' \in Stamps /\ NotLater(clock, clock')
  BY <1>1, ClockFacts, ClockForward DEF OneByOne
<1>6. \A s \in Slots : log[s].stamp \in Stamps /\ NotLater(log[s].stamp, clock)
  BY DEF TraceType, LogOK, StampsOK
<1>7. ASSUME NEW s \in Slots'
      PROVE  s < Cardinality(Slots') /\ NotLater(log'[s].stamp, clock')
  <2>1. CASE s = n
    BY <1>2, <1>3, <1>4, <1>5, <2>1
  <2>2. CASE s \in Slots
    <3>1. s \in Nat /\ s < n + 1
      BY <1>1, <1>2, <2>2
    <3>2. /\ log[s].stamp.sec \in Nat /\ log[s].stamp.usec \in Nat
          /\ clock.sec \in Nat /\ clock.usec \in Nat /\ clock'.sec \in Nat /\ clock'.usec \in Nat
      BY <1>1, <1>5, <1>6, <2>2 DEF Stamps
    <3>3. NotLater(log[s].stamp, clock')
      BY <1>5, <1>6, <2>2, <3>2 DEF NotLater
    <3> QED
      BY <1>1, <1>3, <2>2, <3>1, <3>3
  <2> QED
    BY <1>1, <2>1, <2>2
<1>8. ASSUME NEW u \in Slots', NEW s \in Slots', u < s
      PROVE  NotLater(log'[u].stamp, log'[s].stamp)
  <2>1. u \in Slots
    BY <1>1, <1>2, <1>8
  <2>2. CASE s = n
    BY <1>1, <1>4, <1>6, <2>1, <2>2
  <2>3. CASE s \in Slots
    BY <1>1, <1>8, <2>1, <2>3 DEF StampsOK
  <2> QED
    BY <1>1, <2>2, <2>3
<1>9. \A s \in Slots' : SlotsBefore(s)' = (IF s = n THEN Slots ELSE SlotsBefore(s))
  BY <1>1, <1>2 DEF SlotsBefore
<1>10. ASSUME NEW S \in SUBSET Slots, NEW a
       PROVE  /\ {s \in S : AllocsAt(log'[s], a)} = AllocSlots(S, a)
              /\ {s \in S : FreesAt(log'[s], a)} = FreeSlots(S, a)
  BY <1>1 DEF AllocSlots, FreeSlots
<1>11. ASSUME NEW a \in Addresses
       PROVE  LET allocs == Cardinality(AllocSlots(Slots, a))
                  frees  == Cardinality(FreeSlots(Slots, a))
              IN  /\ FreesAt(r, a) => frees < allocs
                  /\ AllocsAt(r, a) /\ ~ FreesAt(r, a) => allocs = frees
  <2>1. /\ Allocating(a) = IF AllocsAt(r, a) THEN {t} ELSE {}
        /\ Freeing(a) = IF FreesAt(r, a) THEN {t} ELSE {}
    BY <1>1, <1>2 DEF Allocating, Freeing, InFlight, r
  <2>2. /\ Cardinality(Allocating(a)) = IF AllocsAt(r, a) THEN 1 ELSE 0
        /\ Cardinality(Freeing(a)) = IF FreesAt(r, a) THEN 1 ELSE 0
    BY <2>1, FS_EmptySet, FS_Singleton
  <2>3. /\ Cardinality(AllocSlots(Slots, a)) + Cardinality(Allocating(a))
             = Cardinality(FreeSlots(Slots, a)) + Cardinality(Freeing(a)) + InUse(heap[a] # Unused)
        /\ AllocsAt(r, a) => heap[a] # Unused
    BY <2>1 DEF BalanceOK
  <2>4. /\ Cardinality(AllocSlots(Slots, a)) \in Nat /\ Cardinality(FreeSlots(Slots, a)) \in Nat
    BY <1>1, CountFacts
  <2>5. CASE AllocsAt(r, a)
    BY <2>2, <2>3, <2>4, <2>5 DEF InUse
  <2>6. CASE ~ AllocsAt(r, a) /\ FreesAt(r, a)
    BY <2>2, <2>3, <2>4, <2>6 DEF InUse
  <2> QED
    BY <2>5, <2>6
<1>12. \A a : /\ AllocsAt(log'[n], a) <=> AllocsAt(r, a)
              /\ FreesAt(log'[n], a) <=> FreesAt(r, a)
  BY <1>1, SameCall
<1>13. ASSUME NEW s \in Slots', NEW a \in Addresses
       PROVE  LET B == SlotsBefore(s)'
                  allocs == Cardinality({u \in B : AllocsAt(log'[u], a)})
                  frees  == Cardinality({u \in B : FreesAt(log'[u], a)})
              IN  /\ FreesAt(log'[s], a) => frees < allocs
                  /\ AllocsAt(log'[s], a) /\ ~ FreesAt(log'[s], a) => allocs = frees
  <2>1. CASE s = n
    <3>1. /\ {u \in Slots : AllocsAt(log'[u], a)} = AllocSlots(Slots, a)
          /\ {u \in Slots : FreesAt(log'[u], a)} = FreeSlots(Slots, a)
      BY <1>10
    <3> QED
      BY <1>9, <1>11, <1>12, <2>1, <3>1
  <2>2. CASE s \in Slots
    <3> DEFINE B == SlotsBefore(s)
    <3>1. SlotsBefore(s)' = B /\ B \subseteq Slots
      BY <1>1, <1>9, <2>2 DEF SlotsBefore
    <3>2. /\ FreesAt(log[s], a) => Cardinality(FreeSlots(B, a)) < Cardinality(AllocSlots(B, a))
          /\ AllocsAt(log[s], a) /\ ~ FreesAt(log[s], a) =>
               Cardinality(AllocSlots(B, a)) = Cardinality(FreeSlots(B, a))
      BY <2>2 DEF InTurn
    <3> HIDE DEF B
    <3>3. /\ {u \in B : AllocsAt(log'[u], a)} = AllocSlots(B, a)
          /\ {u \in B : FreesAt(log'[u], a)} = FreeSlots(B, a)
      BY <1>10, <3>1
    <3>4. log'[s] = log[s]
      BY <1>1, <2>2
    <3> QED
      BY <3>1, <3>2, <3>3, <3>4
  <2> QED
    BY <1>1, <2>1, <2>2
<1>14. InTurn'
  BY <1>13 DEF InTurn, AllocSlots, FreeSlots, AllocsAt, FreesAt, Allocs, Frees
<1> QED
  BY <1>7, <1>8, <1>14

\* The steps of the program.
LEMMA RunOne == OneByOne /\ IInv /\ CountInv /\ OneInv /\ Run => OneInv'
<1> SUFFICES ASSUME OneByOne, IInv, CountInv, OneInv, Run PROVE OneInv'
  OBVIOUS
<1>1. /\ phase = "run" /\ phase' = "run" /\ TraceType /\ SlotsInv /\ BalanceOK
      /\ InTurn /\ StampsOK /\ retryList' = <<>>
  BY DEF Run, IInv, RunInv, CountInv, OneInv, iterVars
<1>2. PICK t \in Threads : Malloc(t) \/ Free(t) \/ Realloc(t) \/ Stamp(t)
  BY DEF Run, TraceNext
<1>3. InTurn' /\ StampsOK'
  <2>1. CASE Stamp(t)
    <3>1. /\ InTurn'
          /\ \A r, s \in Slots' : r < s => NotLater(log'[r].stamp, log'[s].stamp)
          /\ \A s \in Slots' : s < Cardinality(Slots') /\ NotLater(log'[s].stamp, clock')
      BY <1>1, <2>1, StampTurn
    <3> QED
      BY <3>1 DEF StampsOK, NotLater
  <2>2. CASE Malloc(t) \/ Free(t) \/ Realloc(t)
    <3>1. PICK r : Begins(t, r)
      BY <1>1, <2>2, MallocBegins, FreeBegins, ReallocBegins
    <3>2. log' = log /\ clock' = clock /\ Slots' = Slots
      BY <3>1, SameLog DEF Begins
    <3> QED
      BY <1>1, <3>2, SameTurn DEF StampsOK, NotLater
  <2> QED
    BY <1>2, <2>1, <2>2
<1> QED
  BY <1>1, <1>3 DEF OneInv

\* The steps of the analysis.
LEMMA OneSame ==
  ASSUME OneInv, Slots' = Slots, \A s \in Slots : log'[s] = log[s],
         phase' # "run", retryList' = retryList
  PROVE  OneInv'
BY SameTurn DEF OneInv, StampsOK

\* Each record fits when its turn comes, which is after those in the slots
\* before its own.
LEMMA NextRecordOne ==
  ASSUME OneByOne, IInv, CountInv, OneInv, NextRecord, NEW i, i = order[orderItr]
  PROVE  Fits(Heap, i) /\ PlacedSlots = SlotsBefore(i)
<1>1. /\ LogOK /\ HeapOK(Heap) /\ i \in Slots /\ PlacedSlots \subseteq Slots
      /\ {order[k] : k \in Taken} = OlderThanSlot(i)
  BY NextRecordPlaces
<1>2. /\ phase = "build" /\ ReplayBalance /\ InTurn /\ retryList = <<>>
      /\ \A r, s \in Slots : r < s => NotLater(log[r].stamp, log[s].stamp)
  BY DEF NextRecord, CountInv, OneInv, StampsOK, Replaying
<1>3. \A r, s \in Slots : r < s => Older(r, s)
  <2> SUFFICES ASSUME NEW r \in Slots, NEW s \in Slots, r < s PROVE Older(r, s)
    OBVIOUS
  <2>1. /\ log[r].stamp.sec \in Nat /\ log[r].stamp.usec \in Nat
        /\ log[s].stamp.sec \in Nat /\ log[s].stamp.usec \in Nat
    BY <1>1 DEF LogOK, Stamps
  <2> QED
    BY <1>2, <2>1 DEF Older, OlderThan, NotLater
<1>4. OlderThanSlot(i) = SlotsBefore(i)
  <2>1. \A r \in Slots : r \in Nat
    BY <1>1 DEF LogOK
  <2>2. ASSUME NEW r \in Slots PROVE Older(r, i) <=> r < i
    <3>1. r < i \/ r = i \/ i < r
      BY <1>1, <2>1
    <3> QED
      BY <1>1, <1>3, <3>1, OlderOrder
  <2> QED
    BY <2>2 DEF OlderThanSlot, SlotsBefore
<1>5. PlacedSlots = SlotsBefore(i)
  <2>1. Range(retryList) = {}
    BY <1>2 DEF Range
  <2> QED
    BY <1>1, <1>4, <2>1 DEF PlacedSlots
<1>6. ASSUME NEW a \in Addresses
      PROVE  /\ FreesAt(log[i], a) => a \in LiveIn(Heap)
             /\ AllocsAt(log[i], a) /\ ~ FreesAt(log[i], a) => a \notin LiveIn(Heap)
  <2> DEFINE A == Cardinality(AllocSlots(PlacedSlots, a))
             F == Cardinality(FreeSlots(PlacedSlots, a))
  <2>1. A \in Nat /\ F \in Nat
    BY <1>1, CountFacts DEF LogOK
  <2>2. /\ FreesAt(log[i], a) => F < A
        /\ AllocsAt(log[i], a) /\ ~ FreesAt(log[i], a) => A = F
    BY <1>1, <1>2, <1>5 DEF InTurn
  <2>3. A = F + InUse(Open(Heap, a))
    BY <1>2 DEF ReplayBalance
  <2>4. InUse(Open(Heap, a)) = IF a \in LiveIn(Heap) THEN 1 ELSE 0
    BY DEF InUse, LiveIn
  <2> HIDE DEF A, F
  <2> QED
    BY <2>1, <2>2, <2>3, <2>4
<1>7. /\ Allocs(log[i]) => log[i].result \in Addresses
      /\ Frees(log[i]) => log[i].pointer \in Addresses
  BY <1>1, RecordFacts
<1>8. Fits(Heap, i)
  BY <1>1, <1>6, <1>7, FitsFacts DEF AllocsAt, FreesAt
<1> QED
  BY <1>5, <1>8

\* The log of one thread is in the order of its calls, and none is put aside.
LEMMA OneInvariance == OneByOne => (Spec => []OneInv)
<1> SUFFICES ASSUME OneByOne PROVE Spec => []OneInv
  OBVIOUS
<1>1. Init => OneInv
  BY DEF Init, TraceInit, OneInv, InTurn, StampsOK, Slots
<1>2. IInv /\ CountInv /\ OneInv /\ [Next]_vars => OneInv'
  <2> SUFFICES ASSUME IInv, CountInv, OneInv, [Next]_vars PROVE OneInv'
    OBVIOUS
  <2>1. CASE End
    BY <2>1, EndKeepsLog, OneSame DEF OneByOne, End, iterVars
  <2>2. CASE Sort
    <3>1. log' = log /\ retryList' = retryList /\ phase' # "run"
      BY <2>2 DEF Sort, traceVars
    <3> QED
      BY <3>1, SameLog, OneSame
  <2>3. CASE NextRecord
    <3>1. PICK i : i = order[orderItr]
      OBVIOUS
    <3>2. Fits(Heap, i)
      BY <2>3, <3>1, NextRecordOne
    <3>3. log' = log /\ retryList' = retryList /\ phase' # "run"
      BY <2>3, <3>1, <3>2, NextRecordPlaces
    <3> QED
      BY <3>3, SameLog, OneSame
  <2>4. CASE Retry
    <3>1. phase = "retry" /\ retryItr <= Len(retryList) /\ retryList = <<>>
      BY <2>4 DEF Retry, OneInv
    <3>2. retryItr \in 1 .. Len(retryList) + 1
      BY <3>1 DEF IInv, ReplayInv, Replaying, ListOK
    <3> QED
      BY <3>1, <3>2
  <2>5. CASE EndPass \/ Done
    <3>1. log' = log /\ retryList' = retryList /\ phase' # "run"
      BY <2>5 DEF EndPass, Done, traceVars, iterVars
    <3> QED
      BY <3>1, SameLog, OneSame
  <2>6. CASE UNCHANGED vars
    <3>1. /\ log' = log /\ clock' = clock /\ retryList' = retryList /\ phase' = phase
          /\ Slots' = Slots
      BY <2>6, SameLog DEF vars, traceVars, iterVars
    <3> QED
      BY <3>1, SameTurn DEF OneInv, StampsOK, NotLater
  <2> QED
    BY <2>1, <2>2, <2>3, <2>4, <2>5, <2>6, RunOne DEF Next, Build, Terminated
<1>3. Spec => []CountInv
  BY CountInvariance DEF OneByOne
<1> QED
  BY <1>1, <1>2, <1>3, Invariance, PTL DEF Spec

\* build leaves no record unplaced if one thread made all the calls, whatever
\* its reallocs moved and however often the clock stood still: none is even
\* put aside.
THEOREM OneThreadPlacedCorrect == OneByOne => (Spec => []AllPlaced)
<1> SUFFICES ASSUME OneByOne PROVE Spec => []AllPlaced
  OBVIOUS
<1>1. OneInv => AllPlaced
  BY DEF OneInv, AllPlaced
<1>2. Spec => []OneInv
  BY OneInvariance
<1> QED
  BY <1>1, <1>2, PTL


-----------------------------------------------------------------------------
(* The sizes, for one thread.                                               *)

Alike(r, q) ==
  r.mode = q.mode /\ r.size = q.size /\ r.pointer = q.pointer /\ r.result = q.result

\* The first records alone say what is in use after them.
LEMMA SamePrefix ==
  ASSUME NEW n \in Nat, NEW L, NEW M, \A s \in 0 .. n - 1 : Alike(L[s], M[s])
  PROVE  \A k \in 0 .. n : /\ OpenAfter(M, k) = OpenAfter(L, k)
                           /\ BytesAfter(M, k) = BytesAfter(L, k)
<1> SUFFICES ASSUME NEW k \in 0 .. n
             PROVE  OpenAfter(M, k) = OpenAfter(L, k) /\ BytesAfter(M, k) = BytesAfter(L, k)
  OBVIOUS
<1>1. ASSUME NEW s \in 0 .. n - 1
      PROVE  /\ Allocs(M[s]) <=> Allocs(L[s])
             /\ M[s].result = L[s].result /\ M[s].size = L[s].size
             /\ \A a : FreesAt(M[s], a) <=> FreesAt(L[s], a)
  BY DEF Alike, Allocs, FreesAt, Frees
<1>2. OpenAfter(M, k) = OpenAfter(L, k)
  <2>1. ASSUME NEW s \in 0 .. k - 1
        PROVE  s \in 0 .. n - 1 /\ \A r \in s + 1 .. k - 1 : r \in 0 .. n - 1
    OBVIOUS
  <2> QED
    BY <1>1, <2>1 DEF OpenAfter
<1>3. \A s \in OpenAfter(L, k) : BytesAt(M[s].result, M[s].size) = BytesAt(L[s].result, L[s].size)
  BY <1>1 DEF OpenAfter
<1> QED
  BY <1>2, <1>3 DEF BytesAfter

\* One record more.
LEMMA OpenMore ==
  ASSUME NEW n \in Nat, NEW L
  PROVE  \A s : s \in OpenAfter(L, n + 1) <=>
                  \/ s \in OpenAfter(L, n) /\ ~ FreesAt(L[n], L[s].result)
                  \/ s = n /\ Allocs(L[n])
<1> SUFFICES ASSUME NEW s
             PROVE  s \in OpenAfter(L, n + 1) <=>
                      \/ s \in OpenAfter(L, n) /\ ~ FreesAt(L[n], L[s].result)
                      \/ s = n /\ Allocs(L[n])
  OBVIOUS
<1>1. n + 1 - 1 = n /\ (s \in 0 .. n <=> s \in 0 .. n - 1 \/ s = n) /\ n \notin 0 .. n - 1
  OBVIOUS
<1>2. CASE s = n
  <2>1. n + 1 .. n = {}
    OBVIOUS
  <2> QED
    BY <1>1, <1>2, <2>1 DEF OpenAfter
<1>3. CASE s \in 0 .. n - 1
  <2>1. \A r : r \in s + 1 .. n <=> r \in s + 1 .. n - 1 \/ r = n
    BY <1>3
  <2> QED
    BY <1>1, <1>3, <2>1 DEF OpenAfter
<1>4. CASE s \notin 0 .. n
  BY <1>1, <1>4 DEF OpenAfter
<1> QED
  BY <1>1, <1>2, <1>3, <1>4

\* The bytes can be counted.
LEMMA BytesCounted ==
  ASSUME NEW n \in Nat, NEW L, \A s \in 0 .. n - 1 : RecordOK(L[s]), NEW k \in 0 .. n
  PROVE  IsFiniteSet(BytesAfter(L, k)) /\ Cardinality(BytesAfter(L, k)) \in Nat
<1>1. IsFiniteSet(0 .. k - 1)
  <2>1. 0 \in Int /\ k - 1 \in Int
    OBVIOUS
  <2> QED
    BY <2>1, FS_Interval
<1>2. OpenAfter(L, k) \subseteq 0 .. k - 1
  BY DEF OpenAfter
<1>3. IsFiniteSet(OpenAfter(L, k))
  BY <1>1, <1>2, FS_Subset
<1> DEFINE At(s) == BytesAt(L[s].result, L[s].size)
           U == {At(s) : s \in OpenAfter(L, k)}
<1>4. ASSUME NEW s \in OpenAfter(L, k) PROVE IsFiniteSet(At(s))
  <2>1. RecordOK(L[s]) /\ Allocs(L[s])
    BY DEF OpenAfter
  <2>2. L[s].result \in Addresses /\ L[s].size \in Sizes
    BY <2>1 DEF RecordOK, Allocs
  <2> QED
    BY <2>2, BytesOfBlock
<1> HIDE DEF At
<1>5. IsFiniteSet(U)
  <2> DEFINE g == [s \in OpenAfter(L, k) |-> At(s)]
  <2>1. g \in Surjection(OpenAfter(L, k), U)
    BY DEF Surjection
  <2> HIDE DEF g, U
  <2> QED
    BY <1>3, <2>1, FS_Surjection, Zenon
<1>6. \A x \in U : IsFiniteSet(x)
  BY <1>4
<1>7. BytesAfter(L, k) = UNION U
  BY DEF BytesAfter, At
<1> HIDE DEF U
<1>8. IsFiniteSet(UNION U)
  BY <1>5, <1>6, FS_UNION
<1> QED
  BY <1>7, <1>8, FS_CardinalityType

\* The greatest size after one record more.
LEMMA MostMore ==
  ASSUME NEW n \in Nat, NEW L, NEW M, \A s \in 0 .. n - 1 : Alike(L[s], M[s]),
         \A s \in 0 .. n : RecordOK(M[s]), NEW most, MostBytes(L, n, most)
  PROVE  MostBytes(M, n + 1, Highest(most, Cardinality(BytesAfter(M, n + 1))))
<1> DEFINE Size(k) == Cardinality(BytesAfter(M, k))
<1>1. \A k \in 0 .. n : Cardinality(BytesAfter(L, k)) = Size(k)
  BY SamePrefix
<1>2. ASSUME NEW k \in 0 .. n + 1 PROVE Size(k) \in Nat
  <2>1. PICK m \in Nat : m = n + 1
    OBVIOUS
  <2>2. \A s \in 0 .. m - 1 : RecordOK(M[s])
    BY <2>1
  <2> QED
    BY <2>1, <2>2, BytesCounted
<1> HIDE DEF Size
<1>3. (\A k \in 0 .. n : Size(k) <= most) /\ \E k \in 0 .. n : Size(k) = most
  BY <1>1 DEF MostBytes
<1>4. most \in Nat
  BY <1>2, <1>3
<1>5. PICK high : high = Highest(most, Size(n + 1))
  OBVIOUS
<1>6. high \in Nat /\ most <= high /\ Size(n + 1) <= high /\ (high = most \/ high = Size(n + 1))
  BY <1>2, <1>4, <1>5 DEF Highest
<1>7. \A k \in 0 .. n + 1 : Size(k) <= high
  <2> SUFFICES ASSUME NEW k \in 0 .. n + 1 PROVE Size(k) <= high
    OBVIOUS
  <2>1. CASE k = n + 1
    BY <1>6, <2>1
  <2>2. CASE k \in 0 .. n
    <3>1. Size(k) <= most /\ Size(k) \in Nat
      BY <1>2, <1>3, <2>2
    <3> QED
      BY <1>4, <1>6, <3>1
  <2> QED
    BY <2>1, <2>2
<1>8. \E k \in 0 .. n + 1 : Size(k) = high
  BY <1>3, <1>6
<1> QED
  BY <1>5, <1>7, <1>8 DEF MostBytes, Size

\* A greatest size is one only.
LEMMA MostUnique ==
  ASSUME NEW n \in Nat, NEW L, \A s \in 0 .. n - 1 : RecordOK(L[s]),
         NEW x, NEW y, MostBytes(L, n, x), MostBytes(L, n, y)
  PROVE  x = y
<1> DEFINE Size(k) == Cardinality(BytesAfter(L, k))
<1>1. \A k \in 0 .. n : Size(k) \in Nat
  BY BytesCounted
<1>2. /\ \A k \in 0 .. n : Size(k) <= x
      /\ \A k \in 0 .. n : Size(k) <= y
      /\ \E k \in 0 .. n : Size(k) = x
      /\ \E k \in 0 .. n : Size(k) = y
  BY DEF MostBytes
<1> HIDE DEF Size
<1> QED
  BY <1>1, <1>2

\* A heap that records make holds the bytes these have allocated.
LEMMA HeapBytes ==
  ASSUME NEW n \in Nat, NEW L, \A s \in 0 .. n - 1 : RecordOK(L[s]),
         NEW h \in [Addresses -> Sizes \union {Unused}],
         \A s \in OpenAfter(L, n) : h[L[s].result] = L[s].size,
         \A a \in Addresses : h[a] # Unused => \E s \in OpenAfter(L, n) : L[s].result = a
  PROVE  Bytes(h) = Cardinality(BytesAfter(L, n))
<1>1. ASSUME NEW s \in OpenAfter(L, n)
      PROVE  L[s].result \in Addresses /\ h[L[s].result] = L[s].size
  BY DEF OpenAfter, RecordOK, Allocs
<1>2. ASSUME NEW a \in Addresses, h[a] = Unused PROVE BytesAt(a, h[a]) = {}
  <2>1. a \in Nat /\ h[a] = -1
    BY <1>2, TraceAssumption DEF Unused
  <2>2. a + (-1) - 1 < a
    BY <2>1
  <2> QED
    BY <2>1, <2>2 DEF BytesAt
<1>3. ASSUME NEW b, NEW a \in Addresses, b \in BytesAt(a, h[a])
      PROVE  \E s \in OpenAfter(L, n) : b \in BytesAt(L[s].result, L[s].size)
  <2>1. h[a] # Unused
    BY <1>2, <1>3
  <2>2. PICK s \in OpenAfter(L, n) : L[s].result = a
    BY <2>1
  <2> QED
    BY <1>1, <1>3, <2>2
<1>4. UNION {BytesAt(a, h[a]) : a \in Addresses} = BytesAfter(L, n)
  BY <1>1, <1>3 DEF BytesAfter
<1> QED
  BY <1>4 DEF Bytes

\* What a call does to the heap.
Makes(r) ==
  heap' = [a \in Addresses |-> IF AllocsAt(r, a) THEN r.size
                               ELSE IF FreesAt(r, a) THEN Unused ELSE heap[a]]

MakesPeak == peak' = Highest(peak, Bytes(heap'))

\* The heap after one record more.
LEMMA HeapMore ==
  ASSUME NEW n \in Nat, NEW L, HeapAfter(L, n), \A s \in 0 .. n : RecordOK(L[s]),
         Makes(L[n]), \A a \in Addresses : AllocsAt(L[n], a) => heap[a] = Unused \/ FreesAt(L[n], a)
  PROVE  HeapAfter(L, n + 1)'
<1>1. ASSUME NEW s \in OpenAfter(L, n + 1)
      PROVE  heap'[L[s].result] = L[s].size
  <2>1. CASE s = n /\ Allocs(L[n])
    <3>1. L[n].result \in Addresses /\ AllocsAt(L[n], L[n].result)
      BY <2>1 DEF AllocsAt, RecordOK, Allocs
    <3> QED
      BY <2>1, <3>1 DEF Makes
  <2>2. CASE s \in OpenAfter(L, n) /\ ~ FreesAt(L[n], L[s].result)
    <3>1. s \in 0 .. n /\ Allocs(L[s])
      BY <2>2 DEF OpenAfter
    <3>2. L[s].result \in Addresses /\ L[s].size \in Sizes
      BY <3>1 DEF RecordOK, Allocs
    <3>3. heap[L[s].result] = L[s].size /\ L[s].size # Unused
      BY <2>2, <3>2, AddressFacts DEF HeapAfter
    <3>4. ~ AllocsAt(L[n], L[s].result)
      BY <2>2, <3>2, <3>3
    <3> QED
      BY <2>2, <3>2, <3>3, <3>4 DEF Makes
  <2> QED
    BY <2>1, <2>2, OpenMore
<1>2. ASSUME NEW a \in Addresses, heap'[a] # Unused
      PROVE  \E s \in OpenAfter(L, n + 1) : L[s].result = a
  <2>1. CASE AllocsAt(L[n], a)
    <3>1. n \in OpenAfter(L, n + 1) /\ L[n].result = a
      BY <2>1, OpenMore DEF AllocsAt
    <3> QED
      BY <3>1
  <2>2. CASE ~ AllocsAt(L[n], a)
    <3>1. ~ FreesAt(L[n], a) /\ heap[a] # Unused
      BY <1>2, <2>2 DEF Makes
    <3>2. PICK s \in OpenAfter(L, n) : L[s].result = a
      BY <3>1 DEF HeapAfter
    <3>3. s \in OpenAfter(L, n + 1)
      BY <3>1, <3>2, OpenMore
    <3> QED
      BY <3>2, <3>3
  <2> QED
    BY <2>1, <2>2
<1> QED
  BY <1>1, <1>2 DEF HeapAfter

\* The call that begins does to the heap what its record says.
LEMMA CallMakes ==
  ASSUME NoZeroFrees, TraceType, NEW t \in Threads, Malloc(t) \/ Free(t) \/ Realloc(t),
         NEW r, Begins(t, r)
  PROVE  Makes(r) /\ MakesPeak
<1>1. heap \in [Addresses -> Sizes \union {Unused}] /\ inCall'[t] = r
  BY BeginsFacts DEF TraceType
<1>2. ASSUME NEW q, NEW h, Calls(t, q, h)
      PROVE  r = q /\ heap' = h /\ MakesPeak
  <2>1. inCall \in [Threads -> {Idle} \union Records]
    BY DEF TraceType
  <2> QED
    BY <1>1, <1>2, <2>1 DEF Calls, MakesPeak
<1>3. \A a \in Addresses : a # 0
  BY AddressFacts
<1>4. \A n \in Sizes : ~ ZeroFreed(n)
  BY DEF NoZeroFrees, ZeroFreed
<1>5. CASE Malloc(t)
  <2>1. PICK n \in Sizes :
          \/ \E q \in Room : Calls(t, Record("malloc", n, 0, q), [heap EXCEPT ![q] = n])
          \/ Calls(t, Record("malloc", n, 0, 0), heap)
    BY <1>5 DEF Malloc
  <2>2. ASSUME NEW q \in Room, Calls(t, Record("malloc", n, 0, q), [heap EXCEPT ![q] = n])
        PROVE  Makes(r) /\ MakesPeak
    <3>1. /\ r = Record("malloc", n, 0, q) /\ heap' = [heap EXCEPT ![q] = n] /\ MakesPeak
      BY <1>2, <2>2
    <3>2. r.mode = "malloc" /\ r.size = n /\ r.pointer = 0 /\ r.result = q /\ q \in Addresses
      BY <3>1 DEF Record, Room
    <3>3. \A a \in Addresses : (AllocsAt(r, a) <=> a = q) /\ ~ FreesAt(r, a)
      BY <1>3, <3>2 DEF AllocsAt, FreesAt, Allocs, Frees
    <3> QED
      BY <1>1, <3>1, <3>2, <3>3 DEF Makes
  <2>3. ASSUME Calls(t, Record("malloc", n, 0, 0), heap)
        PROVE  Makes(r) /\ MakesPeak
    <3>1. r = Record("malloc", n, 0, 0) /\ heap' = heap /\ MakesPeak
      BY <1>2, <2>3
    <3>2. \A a : ~ AllocsAt(r, a) /\ ~ FreesAt(r, a)
      BY <3>1 DEF Record, AllocsAt, FreesAt, Allocs, Frees
    <3> QED
      BY <1>1, <3>1, <3>2 DEF Makes
  <2> QED
    BY <2>1, <2>2, <2>3
<1>6. CASE Free(t)
  <2>1. ASSUME NEW p \in Usable, Calls(t, Record("free", 0, p, 0), [heap EXCEPT ![p] = Unused])
        PROVE  Makes(r) /\ MakesPeak
    <3>1. r = Record("free", 0, p, 0) /\ heap' = [heap EXCEPT ![p] = Unused] /\ MakesPeak
      BY <1>2, <2>1
    <3>2. r.mode = "free" /\ r.pointer = p /\ r.result = 0 /\ p \in Addresses
      BY <3>1 DEF Record, Usable
    <3>3. \A a \in Addresses : ~ AllocsAt(r, a) /\ (FreesAt(r, a) <=> a = p)
      BY <1>3, <3>2 DEF AllocsAt, FreesAt, Allocs, Frees
    <3> QED
      BY <1>1, <3>1, <3>3 DEF Makes
  <2>2. ASSUME Calls(t, Record("free", 0, 0, 0), heap)
        PROVE  Makes(r) /\ MakesPeak
    <3>1. r = Record("free", 0, 0, 0) /\ heap' = heap /\ MakesPeak
      BY <1>2, <2>2
    <3>2. \A a : ~ AllocsAt(r, a) /\ ~ FreesAt(r, a)
      BY <3>1 DEF Record, AllocsAt, FreesAt, Allocs, Frees
    <3> QED
      BY <1>1, <3>1, <3>2 DEF Makes
  <2> QED
    BY <1>6, <2>1, <2>2 DEF Free
<1>7. CASE Realloc(t)
  <2>1. PICK p \in Usable, n \in Sizes :
          \/ \E q \in Room \union {p} : Calls(t, Record("realloc", n, p, q), Moved(p, q, n))
          \/ Calls(t, Record("realloc", n, p, 0), heap)
    BY <1>4, <1>7 DEF Realloc
  <2>2. ASSUME NEW q \in Room \union {p}, Calls(t, Record("realloc", n, p, q), Moved(p, q, n))
        PROVE  Makes(r) /\ MakesPeak
    <3>1. r = Record("realloc", n, p, q) /\ heap' = Moved(p, q, n) /\ MakesPeak
      BY <1>2, <2>2
    <3>2. /\ r.mode = "realloc" /\ r.size = n /\ r.pointer = p /\ r.result = q
          /\ p \in Addresses /\ q \in Addresses
      BY <3>1 DEF Record, Usable, Room
    <3>3. \A a \in Addresses : (AllocsAt(r, a) <=> a = q) /\ (FreesAt(r, a) <=> a = p)
      BY <1>3, <3>2 DEF AllocsAt, FreesAt, Allocs, Frees
    <3> QED
      BY <1>1, <3>1, <3>2, <3>3 DEF Makes, Moved
  <2>3. ASSUME Calls(t, Record("realloc", n, p, 0), heap)
        PROVE  Makes(r) /\ MakesPeak
    <3>1. r = Record("realloc", n, p, 0) /\ heap' = heap /\ MakesPeak
      BY <1>2, <2>3
    <3>2. \A a : ~ AllocsAt(r, a) /\ ~ FreesAt(r, a)
      BY <3>1 DEF Record, AllocsAt, FreesAt, Allocs, Frees
    <3> QED
      BY <1>1, <3>1, <3>2 DEF Makes
  <2> QED
    BY <2>1, <2>2, <2>3
<1> QED
  BY <1>5, <1>6, <1>7

\* A step after which the records tell the same.
LEMMA SameCalled ==
  ASSUME NEW n \in Nat, n = WholeLength, n = WholeLength', CalledInv,
         \A s \in 0 .. n - 1 : Alike(Whole[s], Whole'[s]),
         (Slots = 0 .. Cardinality(Slots) - 1)', heap' = heap, peak' = peak
  PROVE  CalledInv'
<1>1. PICK L, M : L = Whole /\ M = Whole'
  OBVIOUS
<1>2. \A k \in 0 .. n : OpenAfter(M, k) = OpenAfter(L, k) /\ BytesAfter(M, k) = BytesAfter(L, k)
  BY <1>1, SamePrefix
<1>3. HeapAfter(L, n) /\ MostBytes(L, n, peak)
  BY <1>1 DEF CalledInv
<1>4. MostBytes(M, n, peak')
  BY <1>2, <1>3 DEF MostBytes
<1>5. OpenAfter(M, n) = OpenAfter(L, n)
  BY <1>2
<1>6. \A s \in OpenAfter(L, n) : M[s].result = L[s].result /\ M[s].size = L[s].size
  BY <1>1 DEF OpenAfter, Alike
<1>7. HeapAfter(M, n)'
  BY <1>3, <1>5, <1>6 DEF HeapAfter
<1>8. HeapAfter(Whole, WholeLength)'
  BY <1>1, <1>7 DEF HeapAfter
<1> QED
  BY <1>1, <1>4, <1>8 DEF CalledInv

\* A call begins.
LEMMA BeginSizes ==
  ASSUME OneByOne, TraceType, TraceType', CalledInv, NEW t \in Threads,
         Malloc(t) \/ Free(t) \/ Realloc(t)
  PROVE  CalledInv'
<1>1. PICK r : Begins(t, r)
  BY MallocBegins, FreeBegins, ReallocBegins
<1>2. Makes(r) /\ MakesPeak
  BY <1>1, CallMakes DEF OneByOne, EveryCallLogged
<1>3. /\ t \notin InFlight /\ InFlight' = InFlight \union {t} /\ inCall'[t] = r
      /\ log' = log /\ Slots' = Slots /\ RecordOK(r)
      /\ \A a \in Addresses : AllocsAt(r, a) => heap[a] = Unused \/ FreesAt(r, a)
  BY <1>1, BeginsFacts, SameLog DEF Begins
<1>4. Threads = {1} /\ t = 1
  BY DEF OneByOne, Threads
<1>5. InFlight = {} /\ InFlight' # {}
  BY <1>3, <1>4 DEF InFlight
<1>6. PICK n \in Nat : n = Cardinality(Slots)
  BY FS_CardinalityType DEF TraceType, LogOK
<1>7. PICK L, M : L = Whole /\ M = Whole'
  OBVIOUS
<1>8. L = log /\ WholeLength = n /\ WholeLength' = n + 1 /\ Slots = 0 .. n - 1
  BY <1>3, <1>5, <1>6, <1>7 DEF Whole, WholeLength, InUse, CalledInv
<1>9. M = [s \in Slots \union {n} |-> IF s \in Slots THEN log[s] ELSE r]
  BY <1>3, <1>4, <1>5, <1>6, <1>7 DEF Whole
<1>10. M[n] = r /\ \A s \in 0 .. n - 1 : M[s] = L[s]
  <2>1. n \notin Slots /\ \A s \in 0 .. n - 1 : s \in Slots
    BY <1>8
  <2> QED
    BY <1>8, <1>9, <2>1
<1>11. /\ \A s \in 0 .. n - 1 : Alike(L[s], M[s])
       /\ \A s \in 0 .. n : RecordOK(M[s])
  <2>1. \A s \in 0 .. n - 1 : RecordOK(L[s])
    BY <1>8 DEF TraceType, LogOK
  <2>2. \A s \in 0 .. n : s = n \/ s \in 0 .. n - 1
    OBVIOUS
  <2> QED
    BY <1>3, <1>10, <2>1, <2>2 DEF Alike
<1>12. HeapAfter(L, n) /\ MostBytes(L, n, peak)
  BY <1>7, <1>8 DEF CalledInv
<1>13. HeapAfter(M, n)
  <2>1. OpenAfter(M, n) = OpenAfter(L, n)
    <3>1. n \in 0 .. n
      OBVIOUS
    <3> QED
      BY <1>11, <3>1, SamePrefix
  <2>2. \A s \in OpenAfter(L, n) : M[s] = L[s]
    BY <1>10 DEF OpenAfter
  <2> QED
    BY <1>12, <2>1, <2>2 DEF HeapAfter
<1>14. HeapAfter(M, n + 1)'
  BY <1>2, <1>3, <1>10, <1>11, <1>13, HeapMore
<1>15. Bytes(heap') = Cardinality(BytesAfter(M, n + 1))
  <2>1. PICK m \in Nat : m = n + 1
    OBVIOUS
  <2>2. \A s \in 0 .. m - 1 : RecordOK(M[s])
    BY <1>11, <2>1
  <2>3. PICK h : h = heap'
    OBVIOUS
  <2>4. /\ h \in [Addresses -> Sizes \union {Unused}]
        /\ \A s \in OpenAfter(M, m) : h[M[s].result] = M[s].size
        /\ \A a \in Addresses : h[a] # Unused => \E s \in OpenAfter(M, m) : M[s].result = a
    BY <1>14, <2>1, <2>3 DEF HeapAfter, TraceType
  <2>5. Bytes(h) = Cardinality(BytesAfter(M, m))
    BY <2>2, <2>4, HeapBytes
  <2> QED
    BY <2>1, <2>3, <2>5
<1>16. MostBytes(M, n + 1, peak')
  <2>1. PICK p : p = peak
    OBVIOUS
  <2>2. MostBytes(M, n + 1, Highest(p, Cardinality(BytesAfter(M, n + 1))))
    BY <1>11, <1>12, <2>1, MostMore
  <2> QED
    BY <1>2, <1>15, <2>1, <2>2 DEF MakesPeak
<1>17. HeapAfter(Whole, WholeLength)'
  BY <1>7, <1>8, <1>14 DEF HeapAfter
<1>18. (Slots = 0 .. Cardinality(Slots) - 1)'
  BY <1>3 DEF CalledInv
<1> QED
  BY <1>7, <1>8, <1>16, <1>17, <1>18 DEF CalledInv

\* It returns.
LEMMA StampSizes ==
  ASSUME OneByOne, TraceType, SlotsInv, CalledInv, NEW t \in Threads, Stamp(t)
  PROVE  CalledInv'
<1>1. PICK n \in Nat : n = Cardinality(Slots)
  BY FS_CardinalityType DEF TraceType, LogOK
<1>2. Slots = 0 .. n - 1
  BY <1>1 DEF CalledInv
<1>3. NextSlot(t) = n /\ \A u \in Threads : u = t
  <2>1. ASSUME NEW s \in Slots PROVE s < n
    <3>1. s \in 0 .. n - 1
      BY <1>2
    <3> QED
      BY <3>1
  <2>2. \A s \in Slots : s < Cardinality(Slots)
    BY <1>1, <2>1
  <2> QED
    BY <1>1, <2>2, OneFilled DEF OneByOne
<1>4. /\ t \in InFlight /\ InFlight' = InFlight \ {t}
      /\ Slots' = Slots \union {n} /\ log'[n] = Stamped(inCall[t], clock)
      /\ \A s \in Slots : log'[s] = log[s]
  BY <1>3, StampFacts
<1>5. InFlight # {} /\ InFlight' = {} /\ t = 1
  BY <1>3, <1>4 DEF InFlight, OneByOne, Threads
<1>6. Cardinality(Slots') = n + 1
  <2>1. n \notin Slots /\ IsFiniteSet(Slots)
    BY <1>2 DEF TraceType, LogOK
  <2> QED
    BY <1>1, <1>4, <2>1, FS_AddElement
<1>7. PICK m \in Nat : m = n + 1
  OBVIOUS
<1>8. m = WholeLength /\ m = WholeLength'
  BY <1>1, <1>5, <1>6, <1>7 DEF WholeLength, InUse
<1>9. \A s \in 0 .. m - 1 : Alike(Whole[s], Whole'[s])
  <2> SUFFICES ASSUME NEW s \in 0 .. m - 1 PROVE Alike(Whole[s], Whole'[s])
    OBVIOUS
  <2>1. Whole' = log'
    BY <1>5 DEF Whole
  <2>2. Whole = [i \in Slots \union {n} |-> IF i \in Slots THEN log[i] ELSE inCall[t]]
    BY <1>1, <1>5 DEF Whole
  <2>3. CASE s = n
    <3>1. n \notin Slots
      BY <1>2
    <3>2. Whole[s] = inCall[t] /\ Whole'[s] = Stamped(inCall[t], clock)
      BY <1>4, <2>1, <2>2, <2>3, <3>1
    <3>3. PICK r, x : r = inCall[t] /\ x = Stamped(inCall[t], clock)
      OBVIOUS
    <3> QED
      BY <3>2, <3>3, StampedFacts DEF Alike
  <2>4. CASE s \in Slots
    BY <1>4, <2>1, <2>2, <2>4 DEF Alike
  <2> QED
    BY <1>2, <1>7, <2>3, <2>4
<1>10. (Slots = 0 .. Cardinality(Slots) - 1)'
  <2>1. Slots \union {n} = 0 .. n
    BY <1>2
  <2> QED
    BY <1>4, <1>6, <2>1
<1> QED
  BY <1>8, <1>9, <1>10, SameCalled DEF Stamp

\* What one thread calls.
LEMMA RunSizes == OneByOne /\ IInv /\ IInv' /\ SizesInv /\ Run => CalledInv' /\ phase' = "run"
<1> SUFFICES ASSUME OneByOne, IInv, IInv', SizesInv, Run PROVE CalledInv' /\ phase' = "run"
  OBVIOUS
<1>1. phase = "run" /\ phase' = "run" /\ TraceType /\ TraceType' /\ SlotsInv /\ CalledInv
  BY DEF Run, IInv, RunInv, SizesInv
<1>2. PICK t \in Threads : Malloc(t) \/ Free(t) \/ Realloc(t) \/ Stamp(t)
  BY DEF Run, TraceNext
<1> QED
  BY <1>1, <1>2, BeginSizes, StampSizes

\* A step that leaves the program's heap and what its log says.
LEMMA QuietSizes ==
  ASSUME CalledInv, LogOK, Slots' = Slots, \A s \in Slots : log'[s] = log[s],
         inCall' = inCall, heap' = heap, peak' = peak
  PROVE  CalledInv'
<1>1. PICK c \in Nat : c = Cardinality(Slots)
  BY FS_CardinalityType DEF LogOK
<1>2. InFlight' = InFlight
  BY DEF InFlight
<1>3. WholeLength' = WholeLength
  BY <1>2 DEF WholeLength, InUse
<1>4. PICK n \in Nat : n = WholeLength /\ (n = IF InFlight = {} THEN c ELSE c + 1)
  BY <1>1 DEF WholeLength, InUse
<1>5. Slots = 0 .. c - 1
  BY <1>1 DEF CalledInv
<1>6. \A s \in 0 .. n - 1 : Alike(Whole[s], Whole'[s])
  <2> SUFFICES ASSUME NEW s \in 0 .. n - 1 PROVE Alike(Whole[s], Whole'[s])
    OBVIOUS
  <2>1. CASE InFlight = {}
    <3>1. Whole = log /\ Whole' = log' /\ s \in Slots
      BY <1>2, <1>4, <1>5, <2>1 DEF Whole
    <3> QED
      BY <3>1 DEF Alike
  <2>2. CASE InFlight # {}
    <3>1. /\ Whole = [i \in Slots \union {c} |-> IF i \in Slots THEN log[i] ELSE inCall[1]]
          /\ Whole' = [i \in Slots \union {c} |-> IF i \in Slots THEN log'[i] ELSE inCall[1]]
      BY <1>1, <1>2, <2>2 DEF Whole
    <3>2. s \in Slots \union {c}
      BY <1>4, <1>5, <2>2
    <3> QED
      BY <3>1, <3>2 DEF Alike
  <2> QED
    BY <2>1, <2>2
<1>7. (Slots = 0 .. Cardinality(Slots) - 1)'
  BY DEF CalledInv
<1>8. n = WholeLength'
  BY <1>3, <1>4
<1> QED
  BY <1>4, <1>6, <1>7, <1>8, SameCalled

\* The bytes of the blocks that are open.
LEMMA RebuiltBytes ==
  ASSUME LogOK, NEW h, MapOK(h), NEW k \in Nat, 0 .. k - 1 \subseteq Slots, Rebuilt(h.map, k)
  PROVE  BytesIn(h) = BytesAfter(log, k)
<1>1. ASSUME NEW a \in LiveIn(h)
      PROVE  /\ h.map[a].alloc \in OpenAfter(log, k) /\ log[h.map[a].alloc].result = a
             /\ SizeAt(h, a) = log[h.map[a].alloc].size
  <2>1. a \in Addresses /\ h.map[a] # Never /\ h.map[a].free = nullIndex
    BY DEF LiveIn, Open
  <2> QED
    BY <2>1 DEF Rebuilt, MapOK, SizeAt
<1>2. ASSUME NEW s \in OpenAfter(log, k)
      PROVE  log[s].result \in LiveIn(h) /\ SizeAt(h, log[s].result) = log[s].size
  <2>1. s \in Slots /\ Allocs(log[s]) /\ s # nullIndex
    BY RecordFacts DEF OpenAfter
  <2>2. log[s].result \in Addresses
    BY <2>1, RecordFacts
  <2>3. /\ h.map[log[s].result] = [alloc |-> s, free |-> nullIndex]
        /\ h.map[log[s].result].alloc = s
        /\ h.map[log[s].result].free = nullIndex
    BY DEF Rebuilt
  <2>4. h.map[log[s].result] # Never
    BY <2>1, <2>3 DEF Never
  <2> QED
    BY <2>2, <2>3, <2>4 DEF LiveIn, Open, SizeAt
<1> QED
  BY <1>1, <1>2 DEF BytesIn, BytesAfter

\* What placing a record does to allocationMap.
LEMMA PlacedMap ==
  ASSUME LogOK, NEW h, HeapOK(h), NEW i \in Slots, Fits(h, i), NEW g, g = Placed(h, i)
  PROVE  /\ Allocs(log[i]) => g.map[log[i].result] = [alloc |-> i, free |-> nullIndex]
         /\ \A a \in Addresses :
              ~ AllocsAt(log[i], a) /\ ~ FreesAt(log[i], a) => g.map[a] = h.map[a]
         /\ \A a \in Addresses :
              FreesAt(log[i], a) /\ ~ AllocsAt(log[i], a) => g.map[a].free = i
<1> DEFINE f == Freed(h, i)
<1>1. h.map \in [Addresses -> {Never} \union [alloc : Slots, free : Slots \union {nullIndex}]]
  BY DEF HeapOK, MapOK
<1>2. /\ Allocs(log[i]) => log[i].result \in Addresses
      /\ Frees(log[i]) => log[i].pointer \in Addresses
  BY RecordFacts
<1>3. Frees(log[i]) => log[i].pointer \in LiveIn(h)
  BY Placing
<1>4. /\ f.map = IF Frees(log[i]) THEN [h.map EXCEPT ![log[i].pointer].free = i] ELSE h.map
  BY DEF Freed, Release
<1> HIDE DEF f
<1>5. /\ DOMAIN f.map = Addresses
      /\ \A a \in Addresses : ~ FreesAt(log[i], a) => f.map[a] = h.map[a]
  BY <1>1, <1>4 DEF FreesAt
<1>6. \A a \in Addresses : FreesAt(log[i], a) => f.map[a].free = i
  <2> SUFFICES ASSUME NEW a \in Addresses, FreesAt(log[i], a) PROVE f.map[a].free = i
    OBVIOUS
  <2>1. a \in LiveIn(h) /\ a = log[i].pointer /\ Frees(log[i])
    BY <1>3 DEF FreesAt
  <2>2. h.map[a] = [alloc |-> h.map[a].alloc, free |-> nullIndex]
    BY <2>1, OpenFacts DEF HeapOK
  <2>3. f.map[a] = [h.map[a] EXCEPT !.free = i]
    BY <1>1, <1>4, <2>1
  <2>4. f.map[a] = [alloc |-> h.map[a].alloc, free |-> i]
    BY <2>2, <2>3
  <2> QED
    BY <2>4
<1>7. g.map = IF Allocs(log[i])
              THEN [f.map EXCEPT ![log[i].result] = [alloc |-> i, free |-> nullIndex]]
              ELSE f.map
  BY DEF Placed, Acquire, f
<1> QED
  BY <1>2, <1>5, <1>6, <1>7 DEF AllocsAt

\* After one record more.
LEMMA RebuiltMore ==
  ASSUME LogOK, NEW h, HeapOK(h), NEW k \in Slots, Fits(h, k), NEW g, g = Placed(h, k),
         0 .. k - 1 \subseteq Slots, Rebuilt(h.map, k)
  PROVE  Rebuilt(g.map, k + 1)
<1>1. /\ Allocs(log[k]) => g.map[log[k].result] = [alloc |-> k, free |-> nullIndex]
      /\ \A a \in Addresses :
           ~ AllocsAt(log[k], a) /\ ~ FreesAt(log[k], a) => g.map[a] = h.map[a]
      /\ \A a \in Addresses :
           FreesAt(log[k], a) /\ ~ AllocsAt(log[k], a) => g.map[a].free = k
  BY PlacedMap
<1>2. k \in Nat /\ k # nullIndex
  BY RecordFacts DEF LogOK
<1>3. \A s : s \in OpenAfter(log, k + 1) <=>
               \/ s \in OpenAfter(log, k) /\ ~ FreesAt(log[k], log[s].result)
               \/ s = k /\ Allocs(log[k])
  <2>1. PICK L : L = log
    OBVIOUS
  <2> QED
    BY <1>2, <2>1, OpenMore
<1>4. /\ Frees(log[k]) => log[k].pointer \in LiveIn(h)
      /\ Allocs(log[k]) => log[k].result \notin LiveIn(h) \/
                             (Frees(log[k]) /\ log[k].pointer = log[k].result)
  BY Placing
<1>5. MapOK(h)
  BY DEF HeapOK
<1>6. ASSUME NEW s \in OpenAfter(log, k), ~ FreesAt(log[k], log[s].result)
      PROVE  g.map[log[s].result] = [alloc |-> s, free |-> nullIndex]
  <2>1. /\ h.map[log[s].result] = [alloc |-> s, free |-> nullIndex]
        /\ h.map[log[s].result].alloc = s /\ h.map[log[s].result].free = nullIndex
    BY DEF Rebuilt
  <2>2. s \in 0 .. k - 1 /\ Allocs(log[s])
    BY DEF OpenAfter
  <2>3. log[s].result # 0 /\ s # nullIndex
    BY <1>2, <2>2 DEF Allocs, nullIndex
  <2>4. h.map[log[s].result] # Never
    BY <2>1, <2>3 DEF Never
  <2>5. log[s].result \in Addresses
    <3>1. s \in Slots
      BY <2>2
    <3> QED
      BY <2>2, <3>1, RecordFacts
  <2>6. log[s].result \in LiveIn(h)
    BY <2>1, <2>4, <2>5 DEF LiveIn, Open
  <2>7. ~ AllocsAt(log[k], log[s].result)
    BY <1>4, <1>6, <2>6 DEF AllocsAt, FreesAt
  <2> QED
    BY <1>1, <1>6, <2>1, <2>5, <2>7
<1>7. ASSUME NEW a \in Addresses, g.map[a] # Never, g.map[a].free = nullIndex
      PROVE  g.map[a].alloc \in OpenAfter(log, k + 1)
  <2>1. CASE AllocsAt(log[k], a)
    <3>1. g.map[a].alloc = k /\ Allocs(log[k])
      BY <1>1, <2>1 DEF AllocsAt
    <3> QED
      BY <1>3, <3>1
  <2>2. CASE ~ AllocsAt(log[k], a)
    <3>1. ~ FreesAt(log[k], a) /\ g.map[a] = h.map[a]
      BY <1>1, <1>2, <1>7, <2>2
    <3>2. h.map[a].alloc \in OpenAfter(log, k) /\ log[h.map[a].alloc].result = a
      BY <1>5, <1>7, <3>1 DEF Rebuilt, MapOK
    <3> QED
      BY <1>3, <3>1, <3>2
  <2> QED
    BY <2>1, <2>2
<1> QED
  BY <1>1, <1>3, <1>6, <1>7 DEF Rebuilt

\* The steps of the replay.
LEMMA NextRecordSizes ==
  ASSUME OneByOne, IInv, CountInv, OneInv, SizesInv, NextRecord
  PROVE  SizesInv'
<1>1. PICK i : i = order[orderItr]
  OBVIOUS
<1>2. /\ LogOK /\ HeapOK(Heap) /\ log' = log /\ AddRecord(i) /\ i \in Slots
      /\ Fits(Heap, i) => PlacedSlots' = PlacedSlots \union {i} /\ phase' = "retry"
  BY <1>1, NextRecordPlaces
<1>3. Fits(Heap, i) /\ PlacedSlots = SlotsBefore(i)
  BY <1>1, NextRecordOne
<1>4. PICK c \in Nat : c = Cardinality(Slots)
  BY <1>2, FS_CardinalityType DEF LogOK
<1>5. /\ CalledInv /\ Slots = 0 .. c - 1
      /\ \E k \in 0 .. c : ReplayedTo(k)
  BY <1>4 DEF SizesInv, CalledInv, NextRecord, Replaying
<1>6. PICK k \in 0 .. c : ReplayedTo(k)
  BY <1>5
<1>7. k = i /\ k \in Slots
  <2>1. SlotsBefore(i) = 0 .. i - 1 /\ i \in Nat
    BY <1>2, <1>5 DEF SlotsBefore
  <2>2. 0 .. i - 1 = 0 .. k - 1
    BY <1>3, <1>6, <2>1 DEF ReplayedTo
  <2>3. k = i
    <3>1. i < k => i \in 0 .. k - 1
      BY <2>1
    <3>2. k < i => k \in 0 .. i - 1
      BY <2>1
    <3> QED
      BY <2>1, <2>2, <3>1, <3>2
  <2> QED
    BY <1>2, <2>3
<1>8. PlacedSlots' = 0 .. k + 1 - 1
  <2>1. PlacedSlots' = (0 .. k - 1) \union {k}
    BY <1>2, <1>3, <1>6, <1>7 DEF ReplayedTo
  <2> QED
    BY <2>1
<1>9. PICK h, g : h = Heap /\ g = Placed(h, k)
  OBVIOUS
<1>10. h.map = allocationMap
  BY <1>9 DEF Heap
<1>11. /\ HeapOK(h) /\ Fits(h, k)
       /\ allocationMap' = g.map /\ clientHighWaterMark' = Highest(clientHighWaterMark, g.size)
  BY <1>2, <1>3, <1>7, <1>9 DEF AddRecord
<1>12. 0 .. k - 1 \subseteq Slots /\ 0 .. k + 1 - 1 \subseteq Slots
  BY <1>5, <1>7
<1>13. Rebuilt(h.map, k)
  BY <1>6, <1>10 DEF ReplayedTo
<1>14. Rebuilt(g.map, k + 1)
  BY <1>2, <1>7, <1>9, <1>11, <1>12, <1>13, RebuiltMore
<1>15. HeapOK(g)
  BY <1>2, <1>7, <1>9, <1>11, Placing
<1>16. g.size = Cardinality(BytesAfter(log, k + 1))
  <2>1. PICK n \in Nat : n = k + 1
    OBVIOUS
  <2>2. 0 .. n - 1 \subseteq Slots /\ Rebuilt(g.map, n) /\ MapOK(g)
    BY <1>12, <1>14, <1>15, <2>1 DEF HeapOK
  <2>3. BytesIn(g) = BytesAfter(log, n)
    BY <1>2, <2>2, RebuiltBytes
  <2> QED
    BY <1>15, <2>1, <2>3 DEF HeapOK, SizeOK
<1>17. MostBytes(log, k + 1, clientHighWaterMark')
  <2>1. PICK L, m : L = log /\ m = clientHighWaterMark
    OBVIOUS
  <2>2. /\ \A s \in 0 .. k - 1 : Alike(L[s], L[s])
        /\ \A s \in 0 .. k : RecordOK(L[s])
        /\ MostBytes(L, k, m)
    BY <1>2, <1>6, <1>12, <2>1 DEF Alike, LogOK, ReplayedTo
  <2>3. MostBytes(L, k + 1, Highest(m, Cardinality(BytesAfter(L, k + 1))))
    BY <2>2, MostMore
  <2> QED
    BY <1>11, <1>16, <2>1, <2>3
<1>18. ReplayedTo(k + 1)'
  <2>1. Rebuilt(allocationMap, k + 1)'
    BY <1>2, <1>11, <1>14 DEF Rebuilt
  <2> QED
    BY <1>2, <1>8, <1>17, <2>1 DEF ReplayedTo
<1>19. CalledInv'
  <2>1. inCall' = inCall /\ heap' = heap /\ peak' = peak
    BY DEF NextRecord, traceVars
  <2> QED
    BY <1>2, <1>5, <2>1, SameLog, QuietSizes
<1>20. k + 1 \in 0 .. Cardinality(Slots')
  <2>1. k \in 0 .. c - 1
    BY <1>5, <1>7
  <2>2. Cardinality(Slots') = c
    BY <1>2, <1>4, SameLog
  <2> QED
    BY <2>1, <2>2
<1> QED
  BY <1>18, <1>19, <1>20 DEF SizesInv

\* A step that places nothing.
LEMMA SameSizes ==
  ASSUME SizesInv, LogOK, UNCHANGED traceVars, phase \in Replaying,
         PlacedSlots' = PlacedSlots, UNCHANGED heapVars
  PROVE  SizesInv'
<1>1. log' = log /\ inCall' = inCall /\ heap' = heap /\ peak' = peak /\ Slots' = Slots
  BY SameLog DEF traceVars
<1>2. CalledInv'
  BY <1>1, QuietSizes DEF SizesInv
<1>3. PICK k \in 0 .. Cardinality(Slots) : ReplayedTo(k)
  BY DEF SizesInv
<1>4. Rebuilt(allocationMap, k)'
  BY <1>1, <1>3 DEF ReplayedTo, Rebuilt, heapVars
<1>5. ReplayedTo(k)'
  BY <1>1, <1>3, <1>4 DEF ReplayedTo, heapVars
<1> QED
  BY <1>1, <1>2, <1>3, <1>5 DEF SizesInv

LEMMA InitSizes == Init => SizesInv
<1> SUFFICES ASSUME Init PROVE SizesInv
  OBVIOUS
<1>1. /\ phase = "run" /\ log = <<>> /\ Slots = {} /\ InFlight = {} /\ peak = 0
      /\ heap = [a \in Addresses |-> Unused]
  BY DEF Init, TraceInit, Slots, InFlight
<1>2. Whole = <<>> /\ Cardinality(Slots) = 0 /\ WholeLength = 0
  BY <1>1, FS_EmptySet DEF Whole, WholeLength, InUse
<1>3. \A L : OpenAfter(L, 0) = {} /\ BytesAfter(L, 0) = {}
  BY DEF OpenAfter, BytesAfter
<1>4. HeapAfter(<<>>, 0)
  BY <1>1, <1>3 DEF HeapAfter
<1>5. MostBytes(<<>>, 0, 0)
  BY <1>3, FS_EmptySet DEF MostBytes
<1>6. Slots = 0 .. 0 - 1
  BY <1>1
<1> QED
  BY <1>1, <1>2, <1>4, <1>5, <1>6 DEF SizesInv, CalledInv, Replaying

\* The log is sorted; nothing is replayed yet.
LEMMA SortSizes == IInv /\ SizesInv /\ Sort => SizesInv'
<1> SUFFICES ASSUME IInv, SizesInv, Sort PROVE SizesInv'
  OBVIOUS
<1>1. /\ log' = log /\ inCall' = inCall /\ heap' = heap /\ peak' = peak /\ Slots' = Slots
      /\ LogOK /\ Untouched /\ UNCHANGED <<orderItr, retryList, heapVars>>
      /\ phase' \in {"crashed", "build"}
  BY SameLog DEF Sort, traceVars, IInv, LoggedInv, ReplayInv
<1>2. CalledInv'
  BY <1>1, QuietSizes DEF SizesInv
<1>3. ASSUME phase' = "build" PROVE ReplayedTo(0)'
  <2>1. PlacedSlots' = {}
    BY <1>1, <1>3 DEF PlacedSlots, Taken, Untouched
  <2>2. \A L : OpenAfter(L, 0) = {} /\ BytesAfter(L, 0) = {}
    BY DEF OpenAfter, BytesAfter
  <2>3. /\ allocationMap' = [a \in Addresses |-> Never] /\ clientHighWaterMark' = 0
    BY <1>1 DEF Untouched, heapVars
  <2>4. Rebuilt(allocationMap, 0)'
    BY <2>2, <2>3 DEF Rebuilt
  <2>5. MostBytes(log, 0, clientHighWaterMark)'
    BY <2>2, <2>3, FS_EmptySet DEF MostBytes
  <2>6. PlacedSlots' = 0 .. 0 - 1
    BY <2>1
  <2> QED
    BY <2>4, <2>5, <2>6 DEF ReplayedTo
<1>4. Cardinality(Slots') \in Nat
  BY <1>1, FS_CardinalityType DEF LogOK
<1>5. 0 \in 0 .. Cardinality(Slots')
  BY <1>4
<1> QED
  BY <1>1, <1>2, <1>3, <1>5 DEF SizesInv, Replaying

\* The most bytes that were in use, and their blocks, are those of the log at
\* every step.
LEMMA SizesInvariance == OneByOne => (Spec => []SizesInv)
<1> SUFFICES ASSUME OneByOne PROVE Spec => []SizesInv
  OBVIOUS
<1>1. IInv /\ IInv' /\ CountInv /\ OneInv /\ SizesInv /\ [Next]_vars => SizesInv'
  <2> SUFFICES ASSUME IInv, IInv', CountInv, OneInv, SizesInv, [Next]_vars PROVE SizesInv'
    OBVIOUS
  <2>1. CASE Run
    BY <2>1, RunSizes DEF SizesInv, Replaying
  <2>2. CASE End
    <3>1. /\ phase' = "sizes" /\ heap' = heap /\ inCall' = inCall /\ Slots' = Slots
          /\ \A s \in Slots : log'[s] = log[s]
          /\ peak' = peak
      BY <2>2, EndKeepsLog DEF OneByOne, End
    <3>2. LogOK
      BY <2>2 DEF End, IInv, RunInv, TraceType
    <3>3. CalledInv'
      BY <3>1, <3>2, QuietSizes DEF SizesInv
    <3> QED
      BY <3>1, <3>3 DEF SizesInv, Replaying
  <2>3. CASE Sort
    BY <2>3, SortSizes
  <2>4. CASE NextRecord
    BY <2>4, NextRecordSizes
  <2>5. CASE Retry
    <3>1. phase = "retry" /\ retryItr <= Len(retryList) /\ retryList = <<>>
      BY <2>5 DEF Retry, OneInv
    <3>2. retryItr \in 1 .. Len(retryList) + 1
      BY <3>1 DEF IInv, ReplayInv, Replaying, ListOK
    <3> QED
      BY <3>1, <3>2
  <2>6. CASE EndPass \/ Done
    <3>1. /\ phase \in {"build", "retry"}
          /\ order' = order /\ retryList' = retryList
          /\ UNCHANGED traceVars /\ UNCHANGED heapVars
          /\ phase = "retry" => \/ phase' = "retry" /\ orderItr' = orderItr
                                \/ phase' = "build" /\ orderItr' = orderItr + 1
          /\ phase = "build" => phase' = "done" /\ orderItr' = orderItr
      BY <2>6 DEF EndPass, Done, iterVars
    <3>2. LogOK /\ ListOK /\ Cardinality(Slots) \in Nat
      BY <3>1, BuildFacts DEF traceVars
    <3>3. orderItr \in Nat
      BY <3>2 DEF ListOK
    <3>4. PlacedSlots' = PlacedSlots
      BY <3>1, <3>3 DEF PlacedSlots, Taken
    <3> QED
      BY <3>1, <3>2, <3>4, SameSizes DEF Replaying
  <2>7. CASE UNCHANGED vars
    <3>1. /\ UNCHANGED traceVars /\ UNCHANGED heapVars /\ phase' = phase
          /\ log' = log /\ inCall' = inCall /\ heap' = heap /\ peak' = peak
          /\ order' = order /\ orderItr' = orderItr /\ retryList' = retryList
      BY <2>7 DEF vars, traceVars, iterVars
    <3>2. PlacedSlots' = PlacedSlots
      BY <3>1 DEF PlacedSlots, Taken
    <3>3. LogOK /\ Slots' = Slots
      BY <3>1, SameLog DEF IInv, RunInv, LoggedInv, TraceType
    <3>4. CASE phase \in Replaying
      BY <3>1, <3>2, <3>3, <3>4, SameSizes
    <3>5. CASE phase \notin Replaying
      <4>1. CalledInv'
        BY <3>1, <3>3, QuietSizes DEF SizesInv
      <4> QED
        BY <3>1, <3>5, <4>1 DEF SizesInv
    <3> QED
      BY <3>4, <3>5
  <2> QED
    BY <2>1, <2>2, <2>3, <2>4, <2>5, <2>6, <2>7 DEF Next, Build, Terminated
<1>2. Spec => []CountInv
  BY CountInvariance DEF OneByOne
<1>3. Spec => []OneInv
  BY OneInvariance
<1> QED
  BY <1>1, <1>2, <1>3, InitSizes, Invariance, PTL DEF Spec

\* If one thread made all the calls, the replay ends with each block at the
\* size it has in the program's heap, and clientHighWaterMark is the most
\* bytes that heap ever held.
THEOREM OneThreadSizesCorrect == OneByOne => (Spec => []SizesRebuilt)
<1> SUFFICES ASSUME OneByOne PROVE Spec => []SizesRebuilt
  OBVIOUS
<1>1. IInv /\ CountInv /\ OneInv /\ SizesInv => SizesRebuilt
  <2> SUFFICES ASSUME IInv, CountInv, OneInv, SizesInv, phase = "done"
               PROVE  /\ \A a \in Addresses : Open(Heap, a) => SizeAt(Heap, a) = heap[a]
                      /\ clientHighWaterMark = peak
    BY DEF SizesRebuilt
  <2>1. /\ OrderOK /\ LogOK /\ HeapOK(Heap) /\ orderItr = Cardinality(Slots) + 1
        /\ InFlight = {} /\ retryList = <<>> /\ CalledInv
    BY DEF IInv, ReplayInv, LoggedInv, Replaying, CountInv, OneInv, SizesInv
  <2>2. PICK c \in Nat : c = Cardinality(Slots)
    BY <2>1, FS_CardinalityType DEF LogOK
  <2>3. PlacedSlots = Slots
    <3>1. Taken = DOMAIN order
      BY <2>1, <2>2 DEF Taken, OrderOK
    <3>2. Range(retryList) = {}
      BY <2>1 DEF Range
    <3> QED
      BY <2>1, <3>1, <3>2 DEF PlacedSlots, OrderOK
  <2>4. PICK k \in 0 .. c : ReplayedTo(k)
    BY <2>2 DEF SizesInv, Replaying
  <2>5. Slots = 0 .. c - 1
    BY <2>1, <2>2 DEF CalledInv
  <2>6. k = c
    <3>1. 0 .. k - 1 = 0 .. c - 1
      BY <2>3, <2>4, <2>5 DEF ReplayedTo
    <3>2. k < c => k \in 0 .. c - 1
      OBVIOUS
    <3> QED
      BY <3>1, <3>2
  <2>7. Whole = log /\ WholeLength = c
    BY <2>1, <2>2 DEF Whole, WholeLength, InUse
  <2>8. HeapAfter(log, c) /\ MostBytes(log, c, peak) /\ MostBytes(log, c, clientHighWaterMark)
    BY <2>1, <2>4, <2>6, <2>7 DEF CalledInv, ReplayedTo
  <2>9. clientHighWaterMark = peak
    <3>1. \A s \in 0 .. c - 1 : RecordOK(log[s])
      BY <2>1, <2>5 DEF LogOK
    <3>2. PICK L, x, y : L = log /\ x = clientHighWaterMark /\ y = peak
      OBVIOUS
    <3> QED
      BY <2>8, <3>1, <3>2, MostUnique
  <2>10. ASSUME NEW a \in Addresses, Open(Heap, a) PROVE SizeAt(Heap, a) = heap[a]
    <3>1. Heap.map = allocationMap
      BY DEF Heap
    <3>2. allocationMap[a] # Never /\ allocationMap[a].free = nullIndex
      BY <2>10, <3>1 DEF Open
    <3>3. /\ allocationMap[a].alloc \in OpenAfter(log, c)
          /\ log[allocationMap[a].alloc].result = a
      BY <2>1, <2>4, <2>6, <3>1, <3>2 DEF ReplayedTo, Rebuilt, HeapOK, MapOK
    <3> QED
      BY <2>8, <3>1, <3>3 DEF HeapAfter, SizeAt
  <2> QED
    BY <2>9, <2>10
<1>2. Spec => []CountInv
  BY CountInvariance DEF OneByOne
<1>3. Spec => []OneInv
  BY OneInvariance
<1>4. Spec => []SizesInv
  BY SizesInvariance
<1> QED
  BY <1>1, <1>2, <1>3, <1>4, Invariance, PTL
=============================================================================
