------------------------- MODULE Compactness_proofs -------------------------
(***************************************************************************)
(* Proofs about Compactness, for any number of threads, addresses, sizes   *)
(* and calls, and for any page size: first the heap addRecord works on,    *)
(* then the log the program leaves, then the replay.                       *)
(***************************************************************************)
EXTENDS CompactnessInv, FiniteSetTheorems, FunctionTheorems,
        SequenceTheorems, TLAPS

-----------------------------------------------------------------------------
(* Pages and bytes.                                                         *)

\* A division rounds down, and a larger number to no less.
LEMMA Division ==
  ASSUME NEW a \in Nat, NEW V \in Nat \ {0}
  PROVE  /\ a \div V \in Nat
         /\ V * (a \div V) <= a
         /\ a < V * (a \div V) + V
         /\ \A b \in Nat : a <= b => a \div V <= b \div V
<1>1. /\ a \div V \in Nat
      /\ V * (a \div V) <= a
      /\ a < V * (a \div V) + V
  BY SMT
<1>2. ASSUME NEW b \in Nat, a <= b PROVE a \div V <= b \div V
  BY <1>2, SMT
<1> QED
  BY <1>1, <1>2

\* The least pages for n bytes are no more than any number that holds them.
LEMMA LeastPages ==
  ASSUME NEW n \in Nat, NEW k \in Nat, NEW V \in Nat \ {0}, n <= k * V, n # 0
  PROVE  (n - 1) \div V + 1 \in Nat /\ (n - 1) \div V + 1 <= k
BY SMT

\* A block is on finitely many pages, and on one at least.
LEMMA PagesOfBlock ==
  ASSUME NEW a \in Addresses, NEW n \in Sizes
  PROVE  /\ IsFiniteSet(PagesOf(a, n)) /\ PagesOf(a, n) \subseteq Nat
         /\ a \div VmPageSize \in PagesOf(a, n)
         /\ \A b \in BytesAt(a, n) : b \in Nat /\ b \div VmPageSize \in PagesOf(a, n)
<1> DEFINE V == VmPageSize
<1>1. V \in Nat \ {0} /\ a \in Nat /\ n \in Nat
  BY VmPageSizeAssumption, TraceAssumption
<1>2. a \div V \in Nat /\ (a + n) \div V \in Nat /\ a \div V <= (a + n) \div V
  BY <1>1, Division
<1>3. IsFiniteSet(PagesOf(a, n))
  BY <1>2, FS_Interval DEF PagesOf
<1>4. ASSUME NEW b \in BytesAt(a, n)
      PROVE  b \in Nat /\ b \div V \in PagesOf(a, n)
  <2>1. b \in Nat /\ a <= b /\ b <= a + n
    BY <1>1 DEF BytesAt
  <2>2. b \div V \in Nat /\ a \div V <= b \div V /\ b \div V <= (a + n) \div V
    BY <1>1, <2>1, Division
  <2> QED
    BY <1>2, <2>1, <2>2 DEF PagesOf
<1> QED
  BY <1>2, <1>3, <1>4 DEF PagesOf

\* The bytes of a block, and that two blocks share none.
LEMMA BytesOfBlock ==
  ASSUME NEW a \in Addresses, NEW n \in Sizes
  PROVE  /\ n \in Nat
         /\ IsFiniteSet(BytesAt(a, n)) /\ Cardinality(BytesAt(a, n)) = n
         /\ \A b \in Addresses, m \in Sizes : a # b => BytesAt(a, n) \cap BytesAt(b, m) = {}
<1>1. a \in Nat /\ n \in Nat
  BY TraceAssumption
<1>2. IsFiniteSet(BytesAt(a, n)) /\ Cardinality(BytesAt(a, n)) = n
  <2>1. PICK c \in Int : c = a + n - 1
    BY <1>1
  <2>2. IsFiniteSet(a .. c) /\ Cardinality(a .. c) = IF a > c THEN 0 ELSE c - a + 1
    BY <1>1, FS_Interval
  <2>3. Cardinality(a .. c) = n
    BY <1>1, <2>1, <2>2
  <2> QED
    BY <2>1, <2>2, <2>3 DEF BytesAt
<1>3. ASSUME NEW b \in Addresses, NEW m \in Sizes, a # b
      PROVE  BytesAt(a, n) \cap BytesAt(b, m) = {}
  <2>1. b \in Nat /\ m \in Nat /\ (a + n <= b \/ b + m <= a)
    BY <1>1, <1>3, TraceAssumption
  <2> QED
    BY <1>1, <2>1 DEF BytesAt
<1> QED
  BY <1>1, <1>2, <1>3

-----------------------------------------------------------------------------
(* The heap.                                                                *)

\* A record that allocates asks for one of the sizes, at one of the addresses.
LEMMA RecordFacts ==
  ASSUME LogOK, NEW i \in Slots
  PROVE  /\ Allocs(log[i]) => log[i].size \in Sizes /\ log[i].result \in Addresses
         /\ Frees(log[i]) => log[i].pointer \in Addresses
         /\ i \in Nat /\ i # nullIndex
BY DEF LogOK, RecordOK, Allocs, Frees, nullIndex

\* The block open at an address: its record, and its size.
LEMMA OpenFacts ==
  ASSUME LogOK, NEW h, MapOK(h), NEW a \in LiveIn(h)
  PROVE  /\ a \in Addresses
         /\ h.map[a].alloc \in Slots /\ h.map[a].free = nullIndex
         /\ h.map[a] = [alloc |-> h.map[a].alloc, free |-> nullIndex]
         /\ SizeAt(h, a) \in Sizes
<1>1. a \in Addresses /\ h.map[a] # Never /\ h.map[a].free = nullIndex
  BY DEF LiveIn, Open
<1>2. h.map[a] \in [alloc : Slots, free : Slots \union {nullIndex}]
  BY <1>1 DEF MapOK
<1>3. h.map[a].alloc \in Slots /\ h.map[a] = [alloc |-> h.map[a].alloc, free |-> nullIndex]
  BY <1>1, <1>2
<1>4. Allocs(log[h.map[a].alloc])
  BY <1>1 DEF MapOK
<1> QED
  BY <1>1, <1>3, <1>4, RecordFacts DEF SizeAt

\* The blocks on a page can be counted.
LEMMA OnPageFacts ==
  ASSUME NEW h, NEW p
  PROVE  /\ IsFiniteSet(OnPage(h, p)) /\ Cardinality(OnPage(h, p)) \in Nat
         /\ Cardinality(OnPage(h, p)) = 0 <=> OnPage(h, p) = {}
<1>1. OnPage(h, p) \subseteq Addresses
  BY DEF OnPage, LiveIn
<1>2. IsFiniteSet(OnPage(h, p))
  BY <1>1, TraceAssumption, FS_Subset
<1> QED
  BY <1>2, FS_CardinalityType, FS_EmptySet

\* A release changes the entry of its address only.
LEMMA ReleaseMap ==
  ASSUME LogOK, NEW h, MapOK(h), NEW a \in LiveIn(h), NEW i \in Slots,
         NEW g, g = Release(h, a, i)
  PROVE  /\ MapOK(g) /\ LiveIn(g) = LiveIn(h) \ {a}
         /\ \A b \in LiveIn(g) : SizeAt(g, b) = SizeAt(h, b)
<1>1. /\ a \in Addresses /\ h.map[a].alloc \in Slots
      /\ h.map[a] = [alloc |-> h.map[a].alloc, free |-> nullIndex]
  BY OpenFacts
<1>2. h.map \in [Addresses -> {Never} \union [alloc : Slots, free : Slots \union {nullIndex}]]
  BY DEF MapOK
<1>3. g.map = [h.map EXCEPT ![a].free = i]
  BY DEF Release
<1>4. g.map[a] = [alloc |-> h.map[a].alloc, free |-> i]
  BY <1>1, <1>2, <1>3
<1>5. \A b \in Addresses : b # a => g.map[b] = h.map[b]
  BY <1>2, <1>3
<1>6. g.map \in [Addresses -> {Never} \union [alloc : Slots, free : Slots \union {nullIndex}]]
  <2>1. [h.map EXCEPT ![a].free = i] = [b \in Addresses |-> g.map[b]]
    BY <1>2, <1>3
  <2>2. \A b \in Addresses :
          g.map[b] \in {Never} \union [alloc : Slots, free : Slots \union {nullIndex}]
    BY <1>1, <1>2, <1>4, <1>5
  <2> QED
    BY <1>3, <2>1, <2>2
<1>7. i # nullIndex /\ h.map[a] # Never
  BY RecordFacts DEF LiveIn, Open
<1>8. ASSUME NEW b \in Addresses, g.map[b] # Never
      PROVE  Allocs(log[g.map[b].alloc]) /\ log[g.map[b].alloc].result = b
  BY <1>4, <1>5, <1>7, <1>8 DEF MapOK
<1>9. LiveIn(g) = LiveIn(h) \ {a}
  BY <1>4, <1>5, <1>7 DEF LiveIn, Open
<1> QED
  BY <1>5, <1>6, <1>8, <1>9 DEF MapOK, SizeAt, LiveIn

\* An acquisition changes the entry of its address only.
LEMMA AcquireMap ==
  ASSUME LogOK, NEW h, MapOK(h), NEW i \in Slots, Allocs(log[i]),
         NEW a, a = log[i].result, a \notin LiveIn(h), NEW g, g = Acquire(h, a, i)
  PROVE  /\ MapOK(g) /\ LiveIn(g) = LiveIn(h) \union {a}
         /\ a \in Addresses /\ log[i].size \in Sizes /\ SizeAt(g, a) = log[i].size
         /\ \A b \in LiveIn(h) : SizeAt(g, b) = SizeAt(h, b)
<1>1. a \in Addresses /\ log[i].size \in Sizes /\ i # nullIndex
  BY RecordFacts
<1>2. h.map \in [Addresses -> {Never} \union [alloc : Slots, free : Slots \union {nullIndex}]]
  BY DEF MapOK
<1>3. g.map = [h.map EXCEPT ![a] = [alloc |-> i, free |-> nullIndex]]
  BY DEF Acquire
<1>4. g.map[a] = [alloc |-> i, free |-> nullIndex] /\ g.map[a] # Never
  BY <1>1, <1>2, <1>3 DEF Never
<1>5. \A b \in Addresses : b # a => g.map[b] = h.map[b]
  BY <1>2, <1>3
<1>6. g.map \in [Addresses -> {Never} \union [alloc : Slots, free : Slots \union {nullIndex}]]
  BY <1>1, <1>2, <1>3
<1>7. ASSUME NEW b \in Addresses, g.map[b] # Never
      PROVE  Allocs(log[g.map[b].alloc]) /\ log[g.map[b].alloc].result = b
  BY <1>4, <1>5, <1>7 DEF MapOK
<1>8. LiveIn(g) = LiveIn(h) \union {a}
  BY <1>1, <1>4, <1>5 DEF LiveIn, Open
<1>9. SizeAt(g, a) = log[i].size /\ \A b \in LiveIn(h) : SizeAt(g, b) = SizeAt(h, b)
  BY <1>4, <1>5 DEF SizeAt, LiveIn
<1> QED
  BY <1>1, <1>6, <1>7, <1>8, <1>9 DEF MapOK

\* The bytes left after a release, and their number.
LEMMA ReleaseSize ==
  ASSUME LogOK, NEW h, MapOK(h), SizeOK(h), NEW a \in LiveIn(h), NEW i \in Slots,
         NEW g, g = Release(h, a, i)
  PROVE  SizeOK(g)
<1> DEFINE n == SizeAt(h, a)
<1>1. a \in Addresses /\ n \in Sizes
  BY OpenFacts
<1>2. /\ LiveIn(g) = LiveIn(h) \ {a}
      /\ \A b \in LiveIn(g) : SizeAt(g, b) = SizeAt(h, b)
  BY ReleaseMap
<1>3. ASSUME NEW b \in LiveIn(g)
      PROVE  BytesAt(a, n) \cap BytesAt(b, SizeAt(h, b)) = {}
  BY <1>1, <1>2, OpenFacts, BytesOfBlock
<1>4. BytesIn(g) = BytesIn(h) \ BytesAt(a, n)
  BY <1>2, <1>3 DEF BytesIn
<1>5. BytesAt(a, n) \subseteq BytesIn(h)
  BY DEF BytesIn
<1>6. IsFiniteSet(BytesIn(h)) /\ h.size = Cardinality(BytesIn(h))
  BY DEF SizeOK
<1>7. BytesIn(h) \cap BytesAt(a, n) = BytesAt(a, n)
  BY <1>5
<1>8. IsFiniteSet(BytesIn(g)) /\ Cardinality(BytesIn(g)) = h.size - Cardinality(BytesAt(a, n))
  <2> DEFINE B == BytesIn(h)
             D == BytesAt(a, n)
  <2>1. IsFiniteSet(B \ D) /\ Cardinality(B \ D) = Cardinality(B) - Cardinality(B \cap D)
    <3> HIDE DEF B, D
    <3> QED
      BY <1>6, FS_Difference DEF B
  <2> QED
    BY <1>4, <1>6, <1>7, <2>1
<1>9. Cardinality(BytesAt(a, n)) = n
  BY <1>1, BytesOfBlock
<1>10. g.size = h.size - n
  BY DEF Release
<1> QED
  BY <1>8, <1>9, <1>10 DEF SizeOK

\* The bytes there are after an acquisition, and their number.
LEMMA AcquireSize ==
  ASSUME LogOK, NEW h, MapOK(h), SizeOK(h), NEW i \in Slots, Allocs(log[i]),
         NEW a, a = log[i].result, a \notin LiveIn(h), NEW g, g = Acquire(h, a, i)
  PROVE  SizeOK(g)
<1> DEFINE n == log[i].size
<1>1. /\ LiveIn(g) = LiveIn(h) \union {a}
      /\ a \in Addresses /\ n \in Sizes /\ SizeAt(g, a) = n
      /\ \A b \in LiveIn(h) : SizeAt(g, b) = SizeAt(h, b)
  BY AcquireMap
<1>2. ASSUME NEW b \in LiveIn(h)
      PROVE  BytesAt(a, n) \cap BytesAt(b, SizeAt(h, b)) = {}
  BY <1>1, OpenFacts, BytesOfBlock
<1>3. BytesIn(g) = BytesIn(h) \union BytesAt(a, n)
  BY <1>1 DEF BytesIn
<1>4. BytesIn(h) \cap BytesAt(a, n) = {}
  BY <1>2 DEF BytesIn
<1>5. IsFiniteSet(BytesIn(h)) /\ h.size = Cardinality(BytesIn(h)) /\ h.size \in Nat
  BY FS_CardinalityType DEF SizeOK
<1>6. n \in Nat /\ IsFiniteSet(BytesAt(a, n)) /\ Cardinality(BytesAt(a, n)) = n
  BY <1>1, BytesOfBlock
<1>7. IsFiniteSet(BytesIn(g)) /\ Cardinality(BytesIn(g)) = h.size + n - 0
  BY <1>3, <1>4, <1>5, <1>6, FS_Union, FS_EmptySet
<1>8. g.size = h.size + n
  BY DEF Acquire
<1> QED
  BY <1>5, <1>6, <1>7, <1>8 DEF SizeOK

\* The pages left after a release, and the blocks on each.
LEMMA ReleasePages ==
  ASSUME LogOK, NEW h, MapOK(h), PagesOK(h), NEW a \in LiveIn(h), NEW i \in Slots,
         NEW g, g = Release(h, a, i)
  PROVE  PagesOK(g)
<1> DEFINE n == SizeAt(h, a)
           D == DOMAIN h.pages \union PagesOf(a, n)
           left == [p \in D |->
                     IF p \notin DOMAIN h.pages THEN 0
                     ELSE h.pages[p] - (IF p \in PagesOf(a, n) THEN 1 ELSE 0)]
           E == {p \in D : p \notin DOMAIN h.pages \/ left[p] # 0}
<1>1. a \in Addresses /\ n \in Sizes
  BY OpenFacts
<1>2. /\ LiveIn(g) = LiveIn(h) \ {a}
      /\ \A b \in LiveIn(g) : SizeAt(g, b) = SizeAt(h, b)
  BY ReleaseMap
<1>3. g.pages = [p \in E |-> left[p]]
  BY DEF Release, UnrefPages, RestrictDomain, Restrict
<1>4. D = DOMAIN h.pages
  BY DEF PagesOK
<1>5. ASSUME NEW p
      PROVE  OnPage(g, p) = OnPage(h, p) \ {a} /\ (p \in PagesOf(a, n) <=> a \in OnPage(h, p))
  BY <1>2 DEF OnPage
<1>6. ASSUME NEW p \in D
      PROVE  left[p] = Cardinality(OnPage(g, p))
  <2>1. h.pages[p] = Cardinality(OnPage(h, p))
    BY <1>4, <1>6 DEF PagesOK
  <2>2. IsFiniteSet(OnPage(h, p)) /\ Cardinality(OnPage(h, p)) \in Nat
    BY OnPageFacts
  <2>3. Cardinality(OnPage(g, p))
          = IF a \in OnPage(h, p) THEN Cardinality(OnPage(h, p)) - 1 ELSE Cardinality(OnPage(h, p))
    BY <1>5, <2>2, FS_RemoveElement
  <2> QED
    BY <1>4, <1>5, <1>6, <2>1, <2>2, <2>3
<1>7. E = {p \in D : OnPage(g, p) # {}}
  BY <1>4, <1>6, OnPageFacts
<1>8. IsFiniteSet(E)
  BY <1>4, <1>7, FS_Subset DEF PagesOK
<1>9. g.pages = [p \in E |-> Cardinality(OnPage(g, p))]
  BY <1>3, <1>6
<1>10. E = UNION {PagesOf(b, SizeAt(g, b)) : b \in LiveIn(g)}
  <2>1. ASSUME NEW p \in E PROVE \E b \in LiveIn(g) : p \in PagesOf(b, SizeAt(g, b))
    BY <1>7, <2>1 DEF OnPage
  <2>2. ASSUME NEW b \in LiveIn(g), NEW p \in PagesOf(b, SizeAt(g, b))
        PROVE  p \in E
    <3>1. p \in D
      BY <1>2, <1>4, <2>2 DEF PagesOK
    <3> QED
      BY <1>7, <2>2, <3>1 DEF OnPage
  <2> QED
    BY <2>1, <2>2
<1>11. DOMAIN g.pages = E
  BY <1>9
<1> HIDE DEF E
<1> QED
  BY <1>8, <1>9, <1>10, <1>11 DEF PagesOK

\* The pages there are after an acquisition, and the blocks on each.
LEMMA AcquirePages ==
  ASSUME LogOK, NEW h, MapOK(h), PagesOK(h), NEW i \in Slots, Allocs(log[i]),
         NEW a, a = log[i].result, a \notin LiveIn(h), NEW g, g = Acquire(h, a, i)
  PROVE  PagesOK(g)
<1> DEFINE n == log[i].size
           D == DOMAIN h.pages \union PagesOf(a, n)
<1>1. /\ LiveIn(g) = LiveIn(h) \union {a}
      /\ a \in Addresses /\ n \in Sizes /\ SizeAt(g, a) = n
      /\ \A b \in LiveIn(h) : SizeAt(g, b) = SizeAt(h, b)
  BY AcquireMap
<1>2. g.pages = [p \in D |-> (IF p \in DOMAIN h.pages THEN h.pages[p] ELSE 0)
                             + (IF p \in PagesOf(a, n) THEN 1 ELSE 0)]
  BY DEF Acquire, RefPages
<1>3. IsFiniteSet(D)
  BY <1>1, PagesOfBlock, FS_Union DEF PagesOK
<1>4. ASSUME NEW p \in D
      PROVE  g.pages[p] = Cardinality(OnPage(g, p))
  <2>1. OnPage(g, p) = OnPage(h, p) \union (IF p \in PagesOf(a, n) THEN {a} ELSE {})
    BY <1>1 DEF OnPage
  <2>2. a \notin OnPage(h, p)
    BY DEF OnPage
  <2>3. IsFiniteSet(OnPage(h, p)) /\ Cardinality(OnPage(h, p)) \in Nat
    BY OnPageFacts
  <2>4. (IF p \in DOMAIN h.pages THEN h.pages[p] ELSE 0) = Cardinality(OnPage(h, p))
    <3>1. CASE p \in DOMAIN h.pages
      BY <3>1 DEF PagesOK
    <3>2. CASE p \notin DOMAIN h.pages
      <4>1. OnPage(h, p) = {}
        BY <3>2 DEF PagesOK, OnPage
      <4> QED
        BY <3>2, <4>1, FS_EmptySet
    <3> QED
      BY <3>1, <3>2
  <2>5. CASE p \in PagesOf(a, n)
    <3>1. Cardinality(OnPage(h, p) \union {a}) = Cardinality(OnPage(h, p)) + 1
      BY <2>2, <2>3, FS_AddElement
    <3>2. g.pages[p] = Cardinality(OnPage(h, p)) + 1
      BY <1>2, <2>4, <2>5
    <3> QED
      BY <2>1, <2>5, <3>1, <3>2
  <2>6. CASE p \notin PagesOf(a, n)
    BY <1>2, <2>1, <2>3, <2>4, <2>6
  <2> QED
    BY <2>5, <2>6
<1>5. g.pages = [p \in D |-> Cardinality(OnPage(g, p))] /\ DOMAIN g.pages = D
  BY <1>2, <1>4
<1>6. D = UNION {PagesOf(b, SizeAt(g, b)) : b \in LiveIn(g)}
  BY <1>1 DEF PagesOK
<1> HIDE DEF D
<1> QED
  BY <1>3, <1>5, <1>6 DEF PagesOK

\* A release puts the heap right again.
LEMMA Releasing ==
  ASSUME LogOK, NEW h, HeapOK(h), NEW a \in LiveIn(h), NEW i \in Slots
  PROVE  HeapOK(Release(h, a, i))
BY ReleaseMap, ReleaseSize, ReleasePages DEF HeapOK

\* An acquisition puts the heap right again.
LEMMA Acquiring ==
  ASSUME LogOK, NEW h, HeapOK(h), NEW i \in Slots, Allocs(log[i]),
         log[i].result \notin LiveIn(h)
  PROVE  HeapOK(Acquire(h, log[i].result, i))
BY AcquireMap, AcquireSize, AcquirePages DEF HeapOK

\* The correction of a realloc that could free and not allocate: the map, the
\* size and the pages are exactly what they were before it.
LEMMA Restoring ==
  ASSUME LogOK, NEW h, HeapOK(h), NEW a \in LiveIn(h), NEW i \in Slots,
         NEW g, g = Restore(Release(h, a, i), a)
  PROVE  g.map = h.map /\ g.size = h.size /\ g.pages = h.pages
<1> DEFINE n == SizeAt(h, a)
           f == Release(h, a, i)
<1>1. /\ a \in Addresses /\ n \in Sizes
      /\ h.map[a] = [alloc |-> h.map[a].alloc, free |-> nullIndex]
  BY OpenFacts DEF HeapOK
<1>2. h.map \in [Addresses -> {Never} \union [alloc : Slots, free : Slots \union {nullIndex}]]
  BY DEF HeapOK, MapOK
<1>3. f.map = [h.map EXCEPT ![a].free = i] /\ g.map = [f.map EXCEPT ![a].free = nullIndex]
  BY DEF Release, Restore
<1>4. f.map[a] = [alloc |-> h.map[a].alloc, free |-> i]
  BY <1>1, <1>2, <1>3
<1>5. g.map = h.map
  <2>1. g.map[a] = h.map[a]
    BY <1>1, <1>2, <1>3, <1>4
  <2>2. \A b \in Addresses : b # a => g.map[b] = h.map[b]
    BY <1>2, <1>3
  <2>3. g.map = [b \in Addresses |-> g.map[b]] /\ h.map = [b \in Addresses |-> h.map[b]]
    BY <1>2, <1>3
  <2> QED
    BY <2>1, <2>2, <2>3
<1>6. SizeAt(f, a) = n
  BY <1>4 DEF SizeAt
<1>7. g.size = h.size
  <2>1. h.size \in Nat /\ n \in Nat
    BY <1>1, BytesOfBlock, FS_CardinalityType DEF HeapOK, SizeOK
  <2>2. f.size = h.size - n /\ g.size = f.size + SizeAt(f, a)
    BY DEF Release, Restore
  <2> QED
    BY <1>6, <2>1, <2>2
<1>8. g.pages = h.pages
  <2> DEFINE left == [p \in DOMAIN h.pages \union PagesOf(a, n) |->
                       IF p \notin DOMAIN h.pages THEN 0
                       ELSE h.pages[p] - (IF p \in PagesOf(a, n) THEN 1 ELSE 0)]
             E == {p \in DOMAIN h.pages \union PagesOf(a, n) :
                     p \notin DOMAIN h.pages \/ left[p] # 0}
  <2>1. f.pages = [p \in E |-> left[p]]
    BY DEF Release, UnrefPages, RestrictDomain, Restrict
  <2>2. g.pages = [p \in DOMAIN f.pages \union PagesOf(a, n) |->
                     (IF p \in DOMAIN f.pages THEN f.pages[p] ELSE 0)
                       + (IF p \in PagesOf(a, n) THEN 1 ELSE 0)]
    BY <1>6 DEF Restore, RefPages
  <2>3. PagesOf(a, n) \subseteq DOMAIN h.pages
    BY DEF HeapOK, PagesOK
  <2>4. h.pages = [p \in DOMAIN h.pages |-> h.pages[p]]
        /\ \A p \in DOMAIN h.pages : h.pages[p] \in Nat /\ h.pages[p] # 0
    <3>1. \A p \in DOMAIN h.pages : h.pages[p] = Cardinality(OnPage(h, p)) /\ OnPage(h, p) # {}
      BY DEF HeapOK, PagesOK, OnPage
    <3>2. h.pages = [p \in DOMAIN h.pages |-> h.pages[p]]
      BY DEF HeapOK, PagesOK
    <3> QED
      BY <3>1, <3>2, OnPageFacts
  <2>5. DOMAIN f.pages \union PagesOf(a, n) = DOMAIN h.pages
    BY <2>1, <2>3, <2>4
  <2>6. ASSUME NEW p \in DOMAIN h.pages PROVE g.pages[p] = h.pages[p]
    <3>1. h.pages[p] \in Nat /\ h.pages[p] # 0
      BY <2>4, <2>6
    <3>2. left[p] = h.pages[p] - (IF p \in PagesOf(a, n) THEN 1 ELSE 0)
      BY <2>3, <2>6
    <3>3. /\ p \in DOMAIN f.pages <=> left[p] # 0
          /\ p \in DOMAIN f.pages => f.pages[p] = left[p]
      BY <2>1, <2>3, <2>6
    <3>4. g.pages[p] = (IF p \in DOMAIN f.pages THEN f.pages[p] ELSE 0)
                         + (IF p \in PagesOf(a, n) THEN 1 ELSE 0)
      BY <2>2, <2>5, <2>6
    <3> HIDE DEF left
    <3> QED
      BY <3>1, <3>2, <3>3, <3>4
  <2> QED
    BY <2>2, <2>4, <2>5, <2>6
<1> QED
  BY <1>5, <1>7, <1>8

\* The heap while addRecord has freed and not yet allocated.
LEMMA FreedFacts ==
  ASSUME LogOK, NEW h, HeapOK(h), NEW i \in Slots, CanFree(h, i), NEW f, f = Freed(h, i)
  PROVE  /\ HeapOK(f)
         /\ LiveIn(f) = LiveIn(h) \ (IF Frees(log[i]) THEN {log[i].pointer} ELSE {})
         /\ Frees(log[i]) => log[i].pointer \in LiveIn(h)
<1>1. CASE Frees(log[i])
  <2>1. log[i].pointer \in LiveIn(h)
    BY <1>1, RecordFacts DEF CanFree, LiveIn
  <2>2. f = Release(h, log[i].pointer, i)
    BY <1>1 DEF Freed
  <2> QED
    BY <1>1, <2>1, <2>2, Releasing, ReleaseMap DEF HeapOK
<1>2. CASE ~ Frees(log[i])
  BY <1>2 DEF Freed
<1> QED
  BY <1>1, <1>2

\* What addRecord makes of a heap when it returns true, and which addresses
\* have a block then.
LEMMA Placing ==
  ASSUME LogOK, NEW h, HeapOK(h), NEW i \in Slots, Fits(h, i), NEW g, g = Placed(h, i)
  PROVE  /\ HeapOK(g)
         /\ LiveIn(g) = (LiveIn(h) \ (IF Frees(log[i]) THEN {log[i].pointer} ELSE {}))
                          \union (IF Allocs(log[i]) THEN {log[i].result} ELSE {})
         /\ Frees(log[i]) => log[i].pointer \in LiveIn(h)
         /\ Allocs(log[i]) => log[i].result \notin LiveIn(h) \/
                                (Frees(log[i]) /\ log[i].pointer = log[i].result)
<1> DEFINE f == Freed(h, i)
<1>1. /\ CanFree(h, i) /\ HeapOK(f)
      /\ LiveIn(f) = LiveIn(h) \ (IF Frees(log[i]) THEN {log[i].pointer} ELSE {})
      /\ Frees(log[i]) => log[i].pointer \in LiveIn(h)
  BY FreedFacts DEF Fits
<1>2. CASE Allocs(log[i])
  <2>1. log[i].result \notin LiveIn(f)
    BY <1>2 DEF Fits, CanAlloc, LiveIn
  <2>2. g = Acquire(f, log[i].result, i)
    BY <1>2 DEF Placed
  <2>3. HeapOK(g) /\ LiveIn(g) = LiveIn(f) \union {log[i].result}
    <3> HIDE DEF f
    <3> QED
      BY <1>1, <1>2, <2>1, <2>2, Acquiring, AcquireMap DEF HeapOK
  <2> QED
    BY <1>1, <1>2, <2>1, <2>3
<1>3. CASE ~ Allocs(log[i])
  BY <1>1, <1>3 DEF Placed
<1> QED
  BY <1>2, <1>3

\* What addRecord makes of a heap when it returns false: nothing.
LEMMA PuttingBack ==
  ASSUME LogOK, NEW h, HeapOK(h), NEW i \in Slots, NEW g, g = PutBack(h, i)
  PROVE  g.map = h.map /\ g.size = h.size /\ g.pages = h.pages
<1>1. CASE Frees(log[i]) /\ CanFree(h, i)
  <2>1. log[i].pointer \in LiveIn(h)
    BY <1>1, RecordFacts DEF CanFree, LiveIn
  <2>2. g = Restore(Release(h, log[i].pointer, i), log[i].pointer)
    BY <1>1 DEF PutBack, Freed
  <2> QED
    BY <2>1, <2>2, Restoring
<1>2. CASE ~ (Frees(log[i]) /\ CanFree(h, i))
  BY <1>2 DEF PutBack
<1> QED
  BY <1>1, <1>2

\* The blocks need no more pages than they are on.
LEMMA PagesSuffice ==
  ASSUME LogOK, NEW h, HeapOK(h)
  PROVE  /\ Cardinality(DOMAIN h.pages) \in Nat /\ h.size \in Nat
         /\ MinPages(h.size) \in Nat
         /\ MinPages(h.size) <= Cardinality(DOMAIN h.pages)
<1> DEFINE V == VmPageSize
           B == BytesIn(h)
           P == DOMAIN h.pages
           f == [b \in B |-> <<b \div V, b - V * (b \div V)>>]
<1>1. V \in Nat \ {0}
  BY VmPageSizeAssumption
<1>2. IsFiniteSet(P) /\ Cardinality(P) \in Nat
  BY FS_CardinalityType DEF HeapOK, PagesOK
<1>3. IsFiniteSet(B) /\ h.size = Cardinality(B) /\ h.size \in Nat
  BY FS_CardinalityType DEF HeapOK, SizeOK
<1>4. ASSUME NEW b \in B
      PROVE  b \in Nat /\ b \div V \in P
  <2>1. PICK a \in LiveIn(h) : b \in BytesAt(a, SizeAt(h, a))
    BY DEF BytesIn
  <2>2. a \in Addresses /\ SizeAt(h, a) \in Sizes
    BY OpenFacts DEF HeapOK
  <2>3. b \in Nat /\ b \div V \in PagesOf(a, SizeAt(h, a))
    BY <2>1, <2>2, PagesOfBlock
  <2> QED
    BY <2>3 DEF HeapOK, PagesOK
<1>5. f \in [B -> P \X (0 .. V - 1)]
  <2>1. ASSUME NEW b \in B PROVE b - V * (b \div V) \in 0 .. V - 1
    <3>1. b \in Nat /\ b \div V \in Nat /\ V * (b \div V) <= b /\ b < V * (b \div V) + V
      BY <1>1, <1>4, Division
    <3>2. V * (b \div V) \in Nat
      BY <1>1, <3>1, SMT
    <3> QED
      BY <1>1, <3>1, <3>2
  <2> QED
    BY <1>4, <2>1
<1>6. ASSUME NEW b \in B, NEW c \in B, f[b] = f[c]
      PROVE  b = c
  <2>1. b \div V = c \div V /\ b - V * (b \div V) = c - V * (c \div V)
    BY <1>6
  <2>2. b \in Nat /\ c \in Nat /\ V * (c \div V) \in Int
    <3>1. b \in Nat /\ c \in Nat /\ c \div V \in Nat
      BY <1>1, <1>4, Division
    <3> QED
      BY <1>1, <3>1, SMT
  <2> QED
    BY <2>1, <2>2
<1>7. IsFiniteSet(0 .. V - 1) /\ Cardinality(0 .. V - 1) = V
  <2>1. PICK v \in Int : v = V - 1
    BY <1>1
  <2>2. IsFiniteSet(0 .. v) /\ Cardinality(0 .. v) = IF 0 > v THEN 0 ELSE v - 0 + 1
    BY FS_Interval
  <2> QED
    BY <1>1, <2>1, <2>2
<1>8. /\ IsFiniteSet(P \X (0 .. V - 1))
      /\ Cardinality(P \X (0 .. V - 1)) = Cardinality(P) * V
  BY <1>2, <1>7, FS_Product
<1>9. Cardinality(B) <= Cardinality(P) * V
  <2>1. f \in Injection(B, P \X (0 .. V - 1))
    <3> HIDE DEF f
    <3> QED
      BY <1>5, <1>6, Fun_IsInj
  <2> HIDE DEF f, B, P
  <2> QED
    BY <1>8, <2>1, FS_Injection
<1>10. MinPages(h.size) \in Nat /\ MinPages(h.size) <= Cardinality(P)
  <2>1. CASE h.size = 0
    BY <1>2, <2>1 DEF MinPages
  <2>2. CASE h.size # 0
    <3> HIDE DEF P, B
    <3> QED
      BY <1>1, <1>2, <1>3, <1>9, <2>2, LeastPages DEF MinPages
  <2> QED
    BY <2>1, <2>2
<1> QED
  BY <1>2, <1>3, <1>10

-----------------------------------------------------------------------------
(* The order by age.                                                        *)

\* olderThan orders the records of a log, as std::sort demands of it: no
\* record is older than itself, and of two records one is the older.
LEMMA OlderOrder ==
  ASSUME LogOK
  PROVE  /\ \A s \in Slots : ~ Older(s, s)
         /\ \A r, s, u \in Slots : Older(r, s) /\ Older(s, u) => Older(r, u)
         /\ \A r, s \in Slots : r # s => Older(r, s) \/ Older(s, r)
<1>1. \A s \in Slots : s \in Nat /\ log[s].stamp.sec \in Nat /\ log[s].stamp.usec \in Nat
  BY DEF LogOK, Stamps
<1> QED
  BY <1>1 DEF Older, OlderThan

Rank(s) == Cardinality({r \in Slots : Older(r, s)})

\* The records have ranks from 0, each its own.
LEMMA RankFacts ==
  ASSUME LogOK
  PROVE  /\ Cardinality(Slots) \in Nat
         /\ \A s \in Slots : Rank(s) \in 0 .. Cardinality(Slots) - 1
         /\ \A r, s \in Slots : Older(r, s) <=> Rank(r) < Rank(s)
         /\ \A r, s \in Slots : Rank(r) = Rank(s) => r = s
         /\ \A i \in 0 .. Cardinality(Slots) - 1 : \E s \in Slots : Rank(s) = i
<1> DEFINE n == Cardinality(Slots)
           Elders(s) == {r \in Slots : Older(r, s)}
<1>1. IsFiniteSet(Slots) /\ n \in Nat
  BY FS_CardinalityType DEF LogOK
<1>2. ASSUME NEW s \in Slots
      PROVE  IsFiniteSet(Elders(s)) /\ Rank(s) \in Nat /\ Rank(s) < n
  <2>1. IsFiniteSet(Elders(s)) /\ Cardinality(Elders(s)) <= n
        /\ (Cardinality(Slots) = Cardinality(Elders(s)) => Slots = Elders(s))
    BY <1>1, FS_Subset
  <2>2. s \notin Elders(s)
    BY OlderOrder
  <2>3. Cardinality(Elders(s)) \in Nat
    BY <2>1, FS_CardinalityType
  <2> QED
    BY <1>1, <2>1, <2>2, <2>3 DEF Rank
<1>3. ASSUME NEW r \in Slots, NEW s \in Slots, Older(r, s)
      PROVE  Rank(r) < Rank(s)
  <2>1. Elders(r) \subseteq Elders(s) /\ r \in Elders(s) /\ r \notin Elders(r)
    BY <1>3, OlderOrder
  <2>2. Cardinality(Elders(r)) <= Cardinality(Elders(s))
        /\ (Cardinality(Elders(s)) = Cardinality(Elders(r)) => Elders(s) = Elders(r))
    BY <1>2, <2>1, FS_Subset
  <2> QED
    BY <1>2, <2>1, <2>2 DEF Rank
<1>4. ASSUME NEW r \in Slots, NEW s \in Slots
      PROVE  (Older(r, s) <=> Rank(r) < Rank(s)) /\ (Rank(r) = Rank(s) => r = s)
  <2>1. Rank(r) \in Nat /\ Rank(s) \in Nat
    BY <1>2
  <2>2. r # s => Older(r, s) \/ Older(s, r)
    BY OlderOrder
  <2>3. Older(r, s) => Rank(r) < Rank(s)
    BY <1>3
  <2>4. Older(s, r) => Rank(s) < Rank(r)
    BY <1>3
  <2>5. r = s => ~ Older(r, s)
    BY OlderOrder
  <2> QED
    BY <2>1, <2>2, <2>3, <2>4, <2>5
<1>5. ASSUME NEW s \in Slots PROVE Rank(s) \in 0 .. n - 1
  <2>1. Rank(s) \in Nat /\ Rank(s) < n
    BY <1>2
  <2> HIDE DEF n
  <2> QED
    BY <1>1, <2>1
<1>6. ASSUME NEW i \in 0 .. n - 1 PROVE \E s \in Slots : Rank(s) = i
  <2> DEFINE f == [s \in Slots |-> Rank(s)]
  <2>1. f \in Injection(Slots, 0 .. n - 1)
    <3>1. f \in [Slots -> 0 .. n - 1]
      BY <1>5
    <3>2. \A r, s \in Slots : f[r] = f[s] => r = s
      BY <1>4
    <3> HIDE DEF f
    <3> QED
      BY <3>1, <3>2, Fun_IsInj
  <2>2. PICK m \in Int : m = n - 1
    BY <1>1
  <2>3. IsFiniteSet(0 .. m) /\ Cardinality(0 .. m) = IF 0 > m THEN 0 ELSE m - 0 + 1
    BY FS_Interval
  <2>4. IsFiniteSet(0 .. n - 1) /\ Cardinality(0 .. n - 1) = n
    BY <1>1, <2>2, <2>3
  <2>5. f \in Surjection(Slots, 0 .. n - 1)
    <3> HIDE DEF f
    <3> QED
      BY <2>1, <2>4, FS_Injection
  <2>6. PICK s \in Slots : f[s] = i
    <3> HIDE DEF f, n
    <3>1. \A t \in 0 .. n - 1 : \E s \in Slots : f[s] = t
      BY <2>5 DEF Surjection
    <3> QED
      BY <3>1
  <2> QED
    BY <2>6
<1> QED
  BY <1>1, <1>4, <1>5, <1>6

\* sortChrono returns each record once, the older before the younger.
LEMMA ByAgeFacts ==
  ASSUME LogOK
  PROVE  /\ ByAge \in [1 .. Cardinality(Slots) -> Slots]
         /\ \A s \in Slots : \E i \in DOMAIN ByAge : ByAge[i] = s
         /\ \A i, j \in DOMAIN ByAge : i < j => Older(ByAge[i], ByAge[j])
<1> DEFINE n == Cardinality(Slots)
<1>1. n \in Nat
  BY RankFacts
<1>2. ASSUME NEW i \in 1 .. n PROVE ByAge[i] \in Slots /\ Rank(ByAge[i]) = i - 1
  <2>1. i - 1 \in 0 .. n - 1
    BY <1>1
  <2>2. \E s \in Slots : Cardinality({r \in Slots : Older(r, s)}) = i - 1
    BY <2>1, RankFacts DEF Rank
  <2>3. ByAge[i] = CHOOSE s \in Slots : Cardinality({r \in Slots : Older(r, s)}) = i - 1
    BY DEF ByAge
  <2> QED
    BY <2>2, <2>3 DEF Rank
<1>3. DOMAIN ByAge = 1 .. n /\ ByAge \in [1 .. n -> Slots]
  <2> DEFINE Nth(i) == CHOOSE s \in Slots : Cardinality({r \in Slots : Older(r, s)}) = i - 1
  <2>1. ByAge = [i \in 1 .. n |-> Nth(i)]
    BY DEF ByAge
  <2> HIDE DEF Nth
  <2> QED
    BY <1>2, <2>1
<1>4. ASSUME NEW s \in Slots PROVE \E i \in DOMAIN ByAge : ByAge[i] = s
  <2>1. Rank(s) \in 0 .. n - 1 /\ Rank(s) + 1 \in 1 .. n
    BY <1>1, RankFacts
  <2>2. ByAge[Rank(s) + 1] \in Slots /\ Rank(ByAge[Rank(s) + 1]) = Rank(s)
    BY <1>2, <2>1
  <2> QED
    BY <1>3, <2>1, <2>2, RankFacts
<1>5. ASSUME NEW i \in 1 .. n, NEW j \in 1 .. n, i < j PROVE Older(ByAge[i], ByAge[j])
  BY <1>2, <1>5, RankFacts
<1> QED
  BY <1>3, <1>4, <1>5

-----------------------------------------------------------------------------
(* The calls of the program.                                                *)

\* A thread that has a record to stamp is not idle.
LEMMA RecordsFacts ==
  /\ \A r \in Records : r.mode # "empty" /\ r # Idle
  /\ Idle.mode = "empty" /\ Idle \notin Records
<1>1. Idle.mode = "empty"
  BY DEF Idle
<1>2. ASSUME NEW r \in Records PROVE r.mode # "empty"
  BY DEF Records
<1> QED
  BY <1>1, <1>2

\* What the handlers store is well formed.
LEMMA RecordTypes ==
  ASSUME NEW m \in {"malloc", "free", "realloc"}, NEW n \in Sizes \union {0},
         NEW p \in Addresses \union {0}, NEW q \in Addresses \union {0},
         m = "malloc" => n \in Sizes /\ p = 0, m = "free" => q = 0,
         m = "realloc" => n \in Sizes /\ p # 0,
         NEW r, r = Record(m, n, p, q)
  PROVE  /\ r \in Records /\ RecordOK(r)
         /\ r.mode = m /\ r.size = n /\ r.pointer = p /\ r.result = q
BY DEF Record, Records, RecordOK

\* The sizes are natural numbers and no size is Unused; no address is NULL.
LEMMA AddressFacts ==
  /\ \A n \in Sizes : (Addresses # {} => n \in Nat /\ n # Unused)
  /\ \A a \in Addresses : a \in Nat /\ a # 0
<1>1. ASSUME NEW n \in Sizes, NEW a \in Addresses PROVE n \in Nat
  BY TraceAssumption
<1>2. ASSUME NEW a \in Addresses PROVE a \in Nat /\ a # 0
  BY TraceAssumption
<1> QED
  BY <1>1, <1>2 DEF Unused

\* mallocLogMmap
LEMMA MallocBegins ==
  ASSUME TraceType, NEW t \in Threads, Malloc(t)
  PROVE  \E r : Begins(t, r)
<1>1. PICK n \in Sizes :
        \/ \E q \in Room : Calls(t, Record("malloc", n, 0, q), [heap EXCEPT ![q] = n])
        \/ Calls(t, Record("malloc", n, 0, 0), heap)
  BY DEF Malloc
<1>2. heap \in [Addresses -> Sizes \union {Unused}]
  BY DEF TraceType
<1>3. ASSUME NEW q \in Room,
             Calls(t, Record("malloc", n, 0, q), [heap EXCEPT ![q] = n])
      PROVE  \E r : Begins(t, r)
  <2> DEFINE r == Record("malloc", n, 0, q)
  <2>1. q \in Addresses /\ heap[q] = Unused
    BY DEF Room
  <2>2. /\ r \in Records /\ RecordOK(r)
        /\ r.mode = "malloc" /\ r.pointer = 0 /\ r.result = q
    BY <2>1, RecordTypes
  <2>3. /\ inCall[t] = Idle /\ CallsMade < MaxCalls
        /\ inCall' = [inCall EXCEPT ![t] = r]
        /\ heap' = [heap EXCEPT ![q] = n] /\ log' = log /\ clock' = clock
    BY <1>3 DEF Calls
  <2> HIDE DEF r
  <2>4. Allocs(r) /\ ~ Frees(r)
    BY <2>1, <2>2, AddressFacts DEF Allocs, Frees
  <2>5. heap' \in [Addresses -> Sizes \union {Unused}] /\ heap'[q] = n
        /\ \A a \in Addresses : a # q => heap'[a] = heap[a]
    BY <1>2, <2>1, <2>3
  <2>6. n # Unused
    BY <2>1, AddressFacts
  <2> QED
    BY <2>1, <2>2, <2>3, <2>4, <2>5, <2>6 DEF Begins, AllocsAt, FreesAt
<1>4. ASSUME Calls(t, Record("malloc", n, 0, 0), heap)
      PROVE  \E r : Begins(t, r)
  <2> DEFINE r == Record("malloc", n, 0, 0)
  <2>1. /\ r \in Records /\ RecordOK(r)
        /\ r.mode = "malloc" /\ r.pointer = 0 /\ r.result = 0
    BY RecordTypes
  <2>2. /\ inCall[t] = Idle /\ CallsMade < MaxCalls
        /\ inCall' = [inCall EXCEPT ![t] = r]
        /\ heap' = heap /\ log' = log /\ clock' = clock
    BY <1>4 DEF Calls
  <2> HIDE DEF r
  <2>3. ~ Allocs(r) /\ ~ Frees(r)
    BY <2>1 DEF Allocs, Frees
  <2> QED
    BY <1>2, <2>1, <2>2, <2>3 DEF Begins, AllocsAt, FreesAt
<1> QED
  BY <1>1, <1>3, <1>4

\* freeLogMmap
LEMMA FreeBegins ==
  ASSUME TraceType, NEW t \in Threads, Free(t)
  PROVE  \E r : Begins(t, r)
<1>1. heap \in [Addresses -> Sizes \union {Unused}]
  BY DEF TraceType
<1>2. ASSUME NEW p \in Usable, Calls(t, Record("free", 0, p, 0), [heap EXCEPT ![p] = Unused])
      PROVE  \E r : Begins(t, r)
  <2> DEFINE r == Record("free", 0, p, 0)
  <2>1. p \in Addresses
    BY DEF Usable
  <2>2. /\ r \in Records /\ RecordOK(r)
        /\ r.mode = "free" /\ r.pointer = p /\ r.result = 0
    BY <2>1, RecordTypes
  <2>3. /\ inCall[t] = Idle /\ CallsMade < MaxCalls
        /\ inCall' = [inCall EXCEPT ![t] = r]
        /\ heap' = [heap EXCEPT ![p] = Unused] /\ log' = log /\ clock' = clock
    BY <1>2 DEF Calls
  <2> HIDE DEF r
  <2>4. ~ Allocs(r) /\ Frees(r)
    BY <2>1, <2>2, AddressFacts DEF Allocs, Frees
  <2>5. heap' \in [Addresses -> Sizes \union {Unused}] /\ heap'[p] = Unused
        /\ \A a \in Addresses : a # p => heap'[a] = heap[a]
    BY <1>1, <2>1, <2>3
  <2> QED
    BY <2>2, <2>3, <2>4, <2>5 DEF Begins, AllocsAt, FreesAt
<1>3. ASSUME Calls(t, Record("free", 0, 0, 0), heap)
      PROVE  \E r : Begins(t, r)
  <2> DEFINE r == Record("free", 0, 0, 0)
  <2>1. /\ r \in Records /\ RecordOK(r)
        /\ r.mode = "free" /\ r.pointer = 0 /\ r.result = 0
    BY RecordTypes
  <2>2. /\ inCall[t] = Idle /\ CallsMade < MaxCalls
        /\ inCall' = [inCall EXCEPT ![t] = r]
        /\ heap' = heap /\ log' = log /\ clock' = clock
    BY <1>3 DEF Calls
  <2> HIDE DEF r
  <2>3. ~ Allocs(r) /\ ~ Frees(r)
    BY <2>1 DEF Allocs, Frees
  <2> QED
    BY <1>1, <2>1, <2>2, <2>3 DEF Begins, AllocsAt, FreesAt
<1> QED
  BY <1>2, <1>3 DEF Free

\* reallocLogMmap
LEMMA ReallocBegins ==
  ASSUME TraceType, NEW t \in Threads, Realloc(t)
  PROVE  \E r : Begins(t, r)
<1>1. heap \in [Addresses -> Sizes \union {Unused}]
  BY DEF TraceType
<1>2. PICK p \in Usable, n \in Sizes :
        \/ \E q \in Room \union {p} : Calls(t, Record("realloc", n, p, q), Moved(p, q, n))
        \/ Calls(t, Record("realloc", n, p, 0), heap)
        \/ ZeroFreed(n) /\ Calls(t, Record("realloc", n, p, 0), [heap EXCEPT ![p] = Unused])
  BY DEF Realloc
<1>3. p \in Addresses /\ heap[p] # Unused /\ p # 0
  BY AddressFacts DEF Usable, Room
<1>4. ASSUME NEW q \in Room \union {p}, Calls(t, Record("realloc", n, p, q), Moved(p, q, n))
      PROVE  \E r : Begins(t, r)
  <2> DEFINE r == Record("realloc", n, p, q)
  <2>1. q \in Addresses /\ (q # p => heap[q] = Unused)
    BY <1>3 DEF Room
  <2>2. /\ r \in Records /\ RecordOK(r)
        /\ r.mode = "realloc" /\ r.pointer = p /\ r.result = q
    BY <1>3, <2>1, RecordTypes
  <2>3. /\ inCall[t] = Idle /\ CallsMade < MaxCalls
        /\ inCall' = [inCall EXCEPT ![t] = r]
        /\ heap' = Moved(p, q, n) /\ log' = log /\ clock' = clock
    BY <1>4 DEF Calls
  <2> HIDE DEF r
  <2>4. Allocs(r) /\ Frees(r)
    BY <1>3, <2>1, <2>2, AddressFacts DEF Allocs, Frees
  <2>5. heap' \in [Addresses -> Sizes \union {Unused}] /\ heap'[q] = n
        /\ \A a \in Addresses : a # q => heap'[a] = IF a = p THEN Unused ELSE heap[a]
    BY <1>1, <1>3, <2>1, <2>3 DEF Moved
  <2>6. n # Unused
    BY <2>1, AddressFacts
  <2>7. ASSUME NEW a \in Addresses
        PROVE  /\ FreesAt(r, a) => a = p
               /\ AllocsAt(r, a) <=> a = q
               /\ heap'[a] # Unused <=> a = q \/ (heap[a] # Unused /\ a # p)
    BY <2>2, <2>4, <2>5, <2>6 DEF AllocsAt, FreesAt
  <2>8. FreesAt(r, p)
    BY <2>2, <2>4 DEF FreesAt
  <2>9. r.mode = "realloc" => r.pointer \in Usable
    BY <2>2
  <2>10. ASSUME NEW a \in Addresses
         PROVE  /\ FreesAt(r, a) => a \in Usable
                /\ AllocsAt(r, a) => heap[a] = Unused \/ FreesAt(r, a)
                /\ heap'[a] # Unused => heap[a] # Unused \/ AllocsAt(r, a)
                /\ heap'[a] # Unused <=> AllocsAt(r, a) \/ (heap[a] # Unused /\ ~ FreesAt(r, a))
    BY <2>1, <2>7, <2>8
  <2> QED
    BY <2>2, <2>3, <2>5, <2>9, <2>10 DEF Begins
<1>5. ASSUME Calls(t, Record("realloc", n, p, 0), heap)
             \/ (ZeroFreed(n) /\ Calls(t, Record("realloc", n, p, 0), [heap EXCEPT ![p] = Unused]))
      PROVE  \E r : Begins(t, r)
  <2> DEFINE r == Record("realloc", n, p, 0)
  <2>1. /\ r \in Records /\ RecordOK(r)
        /\ r.mode = "realloc" /\ r.pointer = p /\ r.result = 0
    BY <1>3, RecordTypes
  <2>2. /\ inCall[t] = Idle /\ CallsMade < MaxCalls
        /\ inCall' = [inCall EXCEPT ![t] = r]
        /\ heap' = heap \/ (~ NoZeroFrees /\ heap' = [heap EXCEPT ![p] = Unused])
        /\ log' = log /\ clock' = clock
    BY <1>5 DEF Calls, ZeroFreed, NoZeroFrees
  <2> HIDE DEF r
  <2>3. ~ Allocs(r) /\ ~ Frees(r)
    BY <2>1 DEF Allocs, Frees
  <2>4. /\ heap' \in [Addresses -> Sizes \union {Unused}]
        /\ \A a \in Addresses : heap'[a] # Unused => heap[a] # Unused
        /\ NoZeroFrees => heap' = heap
    BY <1>1, <1>3, <2>2
  <2> QED
    BY <2>1, <2>2, <2>3, <2>4 DEF Begins, AllocsAt, FreesAt
<1> QED
  BY <1>2, <1>4, <1>5

\* The threads in calls can be counted.
LEMMA InFlightFacts ==
  /\ IsFiniteSet(InFlight) /\ Cardinality(InFlight) \in Nat
  /\ InFlight # {} => Cardinality(InFlight) # 0
<1>1. IsFiniteSet(Threads)
  BY TraceAssumption, FS_Interval DEF Threads
<1>2. IsFiniteSet(InFlight)
  BY <1>1, FS_Subset DEF InFlight
<1> QED
  BY <1>2, FS_CardinalityType, FS_EmptySet

\* Who is in a call after one began.
LEMMA BeginsFacts ==
  ASSUME TraceType, NEW t \in Threads, NEW r, Begins(t, r)
  PROVE  /\ t \notin InFlight /\ InFlight' = InFlight \union {t}
         /\ inCall'[t] = r /\ \A u \in Threads : u # t => inCall'[u] = inCall[u]
         /\ inCall' \in [Threads -> {Idle} \union Records]
<1>1. /\ inCall \in [Threads -> {Idle} \union Records] /\ r \in Records
      /\ inCall[t] = Idle /\ inCall' = [inCall EXCEPT ![t] = r]
  BY DEF TraceType, Begins
<1>2. r # Idle
  BY <1>1, RecordsFacts
<1> QED
  BY <1>1, <1>2 DEF InFlight

\* The types after a call began.
LEMMA BeginsType ==
  ASSUME TraceType, NEW t \in Threads, NEW r, Begins(t, r)
  PROVE  TraceType'
<1>1. heap' \in [Addresses -> Sizes \union {Unused}] /\ clock' \in Stamps
  BY DEF Begins, TraceType
<1>2. LogOK'
  BY DEF Begins, TraceType, LogOK, Slots
<1>3. ASSUME NEW u \in InFlight' PROVE RecordOK(inCall'[u])
  <2>1. u \in Threads
    BY <1>3 DEF InFlight
  <2>2. CASE u = t
    BY <2>2, BeginsFacts DEF Begins
  <2>3. CASE u # t
    BY <1>3, <2>1, <2>3, BeginsFacts DEF TraceType
  <2> QED
    BY <2>2, <2>3
<1> QED
  BY <1>1, <1>2, <1>3, BeginsFacts DEF TraceType

\* The slots after a call began: none is filled, and there is one left for it.
LEMMA BeginsSlots ==
  ASSUME TraceType, SlotsInv, NEW t \in Threads, NEW r, Begins(t, r)
  PROVE  SlotsInv'
<1>1. CallsMade = Cardinality(Slots) + Cardinality(InFlight)
      /\ CallsMade' = Cardinality(Slots') + Cardinality(InFlight')
  BY DEF CallsMade, InFlight
<1>2. Slots' = Slots /\ CallsMade < MaxCalls
  BY DEF Begins, Slots
<1>3. Cardinality(InFlight') = Cardinality(InFlight) + 1
  BY BeginsFacts, InFlightFacts, FS_AddElement
<1>4. Cardinality(Slots) \in Nat /\ MaxCalls \in Nat
  BY TraceAssumption, FS_CardinalityType DEF TraceType, LogOK
<1>5. CallsMade' <= MaxCalls
  BY <1>1, <1>2, <1>3, <1>4, InFlightFacts
<1>6. \A u \in Threads : Filled(u)' = Filled(u) /\ NextSlot(u)' = NextSlot(u)
  BY <1>2 DEF Filled, NextSlot, Block
<1> QED
  BY <1>5, <1>6 DEF SlotsInv

\* What was called first, after a call began.
LEMMA BeginsFirst ==
  ASSUME TraceType, FirstInv, NEW t \in Threads, NEW r, Begins(t, r)
  PROVE  FirstInv'
<1>1. CASE MallocLogged
  BY <1>1 DEF Begins, FirstInv, MallocLogged, Slots
<1>2. CASE ~ MallocLogged
  <2>1. /\ \A a \in Addresses : heap[a] # Unused =>
             \E u \in Threads : inCall[u].mode = "malloc" /\ inCall[u].result = a
        /\ \A u \in Threads : inCall[u].mode # "realloc"
        /\ \A s \in Slots : log[s].mode # "realloc"
    BY <1>2 DEF FirstInv
  <2>2. Usable = {}
    <3>1. SUFFICES ASSUME NEW a \in Usable PROVE FALSE
      OBVIOUS
    <3>2. a \in Addresses /\ heap[a] # Unused /\ \A u \in Threads : a \notin Kept(u)
      BY DEF Usable, Room
    <3>3. PICK u \in Threads : inCall[u].mode = "malloc" /\ inCall[u].result = a
      BY <2>1, <3>2
    <3>4. inCall[u] # Idle
      BY <3>3, RecordsFacts
    <3>5. a \in Kept(u)
      BY <3>3, <3>4 DEF Kept
    <3> QED
      BY <3>2, <3>5
  <2>3. r.mode # "realloc"
    BY <2>2 DEF Begins
  <2>4. \A u \in Threads : inCall'[u].mode # "realloc"
    BY <2>1, <2>3, BeginsFacts
  <2>5. ASSUME NEW a \in Addresses, heap'[a] # Unused
        PROVE  \E u \in Threads : inCall'[u].mode = "malloc" /\ inCall'[u].result = a
    <3>1. CASE heap[a] # Unused
      <4>1. PICK u \in Threads : inCall[u].mode = "malloc" /\ inCall[u].result = a
        BY <2>1, <3>1
      <4>2. u # t
        BY <4>1, RecordsFacts DEF Begins
      <4> QED
        BY <4>1, <4>2, BeginsFacts
    <3>2. CASE heap[a] = Unused
      <4>1. AllocsAt(r, a)
        BY <2>5, <3>2 DEF Begins
      <4>2. r.mode = "malloc" /\ r.result = a
        BY <2>3, <4>1 DEF AllocsAt, Allocs
      <4> QED
        BY <4>2, BeginsFacts
    <3> QED
      BY <3>1, <3>2
  <2>6. \A s \in Slots' : log'[s].mode # "realloc"
    BY <2>1 DEF Begins, Slots
  <2> QED
    BY <2>4, <2>5, <2>6 DEF FirstInv
<1> QED
  BY <1>1, <1>2

\* Two threads' blocks are apart.
LEMMA BlocksApart ==
  ASSUME NEW t \in Threads, NEW u \in Threads
  PROVE  /\ Block(t) \in Nat
         /\ t < u => Block(t) + MaxCalls <= Block(u)
<1>1. t \in Nat /\ t >= 1 /\ u \in Nat /\ MaxCalls \in Nat
  BY TraceAssumption DEF Threads
<1>2. \A k \in Nat, m \in Nat : k * m \in Nat
  BY SMT
<1>3. Block(t) \in Nat
  <2>1. PICK k \in Nat : k = t - 1
    BY <1>1
  <2> QED
    BY <1>1, <1>2, <2>1 DEF Block
<1>4. ASSUME t < u PROVE Block(t) + MaxCalls <= Block(u)
  <2>1. PICK k \in Nat, d \in Nat : k = t - 1 /\ u - 1 = k + 1 + d
    <3>1. t - 1 \in Nat /\ u - 1 - t \in Nat
      BY <1>1, <1>4
    <3>2. u - 1 = (t - 1) + 1 + (u - 1 - t)
      BY <1>1
    <3> QED
      BY <3>1, <3>2
  <2>2. (k + 1 + d) * MaxCalls = k * MaxCalls + MaxCalls + d * MaxCalls
    BY <1>1, SMT
  <2>3. d * MaxCalls \in Nat /\ k * MaxCalls \in Nat
    BY <1>1, <1>2
  <2> QED
    BY <1>1, <2>1, <2>2, <2>3 DEF Block
<1> QED
  BY <1>3, <1>4

\* The next slot of a thread in a call is one of its own block, and free.
LEMMA NextSlotFacts ==
  ASSUME TraceType, SlotsInv, NEW t \in InFlight
  PROVE  /\ NextSlot(t) \in Nat /\ NextSlot(t) \notin Slots
         /\ NextSlot(t) = Block(t) + Cardinality(Filled(t))
         /\ IsFiniteSet(Filled(t)) /\ Cardinality(Filled(t)) \in Nat
         /\ Block(t) <= NextSlot(t) /\ NextSlot(t) < Block(t) + MaxCalls
<1> DEFINE n == NextSlot(t)
<1>1. t \in Threads /\ Block(t) \in Nat /\ MaxCalls \in Nat
  BY TraceAssumption, BlocksApart DEF InFlight
<1>2. n = Block(t) + Cardinality(Filled(t))
  BY DEF NextSlot, Filled
<1>3. IsFiniteSet(Slots) /\ Cardinality(Slots) \in Nat
  BY FS_CardinalityType DEF TraceType, LogOK
<1>4. /\ IsFiniteSet(Filled(t)) /\ Cardinality(Filled(t)) \in Nat
      /\ Cardinality(Filled(t)) <= Cardinality(Slots)
  <2>1. Filled(t) \subseteq Slots
    BY DEF Filled
  <2> QED
    BY <1>3, <2>1, FS_Subset, FS_CardinalityType
<1>5. Cardinality(Slots) < MaxCalls
  <2>1. CallsMade = Cardinality(Slots) + Cardinality(InFlight) /\ CallsMade <= MaxCalls
    BY DEF CallsMade, InFlight, SlotsInv
  <2>2. Cardinality(InFlight) \in Nat /\ Cardinality(InFlight) # 0
    BY InFlightFacts
  <2> QED
    BY <1>1, <1>3, <2>1, <2>2
<1>6. n \in Nat /\ Block(t) <= n /\ n < Block(t) + MaxCalls
  BY <1>1, <1>2, <1>3, <1>4, <1>5
<1>7. n \notin Slots
  <2>1. SUFFICES ASSUME n \in Slots PROVE FALSE
    OBVIOUS
  <2>2. n \in Filled(t)
    BY <1>6, <2>1 DEF Filled
  <2>3. n < n
    BY <1>1, <2>2 DEF SlotsInv
  <2> QED
    BY <1>6, <2>3
<1> QED
  BY <1>2, <1>4, <1>6, <1>7

\* A stamped record is the one in the call, with the stamp.
LEMMA StampedFacts ==
  ASSUME NEW r, NEW c, NEW x, x = Stamped(r, c)
  PROVE  /\ x.mode = r.mode /\ x.size = r.size /\ x.pointer = r.pointer
         /\ x.result = r.result /\ x.stamp = c
         /\ RecordOK(r) => RecordOK(x)
         /\ Allocs(x) <=> Allocs(r)
         /\ Frees(x) <=> Frees(r)
BY DEF Stamped, RecordOK, Allocs, Frees

\* The log and the calls after a record was stamped.
LEMMA StampFacts ==
  ASSUME TraceType, SlotsInv, NEW t \in Threads, Stamp(t)
  PROVE  /\ t \in InFlight /\ InFlight' = InFlight \ {t}
         /\ \A u \in Threads : u # t => inCall'[u] = inCall[u]
         /\ inCall' \in [Threads -> {Idle} \union Records] /\ inCall'[t] = Idle
         /\ NextSlot(t) \notin Slots /\ NextSlot(t) \in Nat
         /\ Slots' = Slots \union {NextSlot(t)}
         /\ log'[NextSlot(t)] = Stamped(inCall[t], clock)
         /\ \A s \in Slots : log'[s] = log[s]
<1>1. /\ inCall \in [Threads -> {Idle} \union Records]
      /\ inCall[t] # Idle /\ inCall' = [inCall EXCEPT ![t] = Idle]
      /\ log' = [s \in Slots \union {NextSlot(t)} |->
                  IF s = NextSlot(t) THEN Stamped(inCall[t], clock) ELSE log[s]]
  BY DEF TraceType, Stamp
<1>2. t \in InFlight /\ InFlight' = InFlight \ {t}
  BY <1>1 DEF InFlight
<1>3. NextSlot(t) \notin Slots /\ NextSlot(t) \in Nat
  BY <1>2, NextSlotFacts
<1>4. Slots' = Slots \union {NextSlot(t)}
  BY <1>1 DEF Slots
<1>5. /\ log'[NextSlot(t)] = Stamped(inCall[t], clock)
      /\ \A s \in Slots : log'[s] = log[s]
  BY <1>1, <1>3
<1> QED
  BY <1>1, <1>2, <1>3, <1>4, <1>5

\* The clock's next value is a stamp, and a later one if it advances.
LEMMA ClockFacts ==
  ASSUME clock \in Stamps, clock' \in NextStamps
  PROVE  /\ clock' \in Stamps
         /\ Clock = "fine" => Before(clock, clock')
<1>1. FirstStamp \in Stamps
  BY DEF FirstStamp, Stamps
<1>2. clock.sec \in Nat /\ clock.usec \in Nat
  BY DEF Stamps
<1>3. NextStamp(clock) \in Stamps /\ Before(clock, NextStamp(clock))
  <2>1. CASE clock.usec + 1 < UsecPerSec
    BY <1>2, <2>1 DEF NextStamp, Stamps, Before
  <2>2. CASE ~ (clock.usec + 1 < UsecPerSec)
    BY <1>2, <2>2 DEF NextStamp, Stamps, Before
  <2> QED
    BY <2>1, <2>2
<1> QED
  BY <1>1, <1>3 DEF NextStamps

\* The types after a record was stamped.
LEMMA StampType ==
  ASSUME TraceType, SlotsInv, NEW t \in Threads, Stamp(t)
  PROVE  TraceType'
<1>1. heap' \in [Addresses -> Sizes \union {Unused}] /\ clock' \in Stamps
  BY ClockFacts DEF Stamp, TraceType
<1>2. LogOK'
  <2>1. IsFiniteSet(Slots') /\ Slots' \subseteq Nat
    BY StampFacts, FS_AddElement DEF TraceType, LogOK
  <2>2. ASSUME NEW s \in Slots' PROVE RecordOK(log'[s]) /\ log'[s].stamp \in Stamps
    <3>1. CASE s \in Slots
      BY <3>1, StampFacts DEF TraceType, LogOK
    <3>2. CASE s = NextSlot(t)
      BY <3>2, StampFacts, StampedFacts DEF TraceType
    <3> QED
      BY <2>2, <3>1, <3>2, StampFacts
  <2> QED
    BY <2>1, <2>2 DEF LogOK, Slots
<1>3. ASSUME NEW u \in InFlight' PROVE RecordOK(inCall'[u])
  BY <1>3, StampFacts DEF TraceType, InFlight
<1> QED
  BY <1>1, <1>2, <1>3, StampFacts DEF TraceType

\* The slots after a record was stamped: one more is filled.
LEMMA StampSlots ==
  ASSUME TraceType, SlotsInv, NEW t \in Threads, Stamp(t)
  PROVE  SlotsInv'
<1> DEFINE n == NextSlot(t)
<1>1. /\ t \in InFlight /\ InFlight' = InFlight \ {t}
      /\ n \notin Slots /\ n \in Nat /\ Slots' = Slots \union {n}
  BY StampFacts
<1>2. /\ n = Block(t) + Cardinality(Filled(t))
      /\ IsFiniteSet(Filled(t)) /\ Cardinality(Filled(t)) \in Nat
      /\ Block(t) <= n /\ n < Block(t) + MaxCalls
  BY <1>1, NextSlotFacts
<1>3. CallsMade' <= MaxCalls
  <2>1. CallsMade = Cardinality(Slots) + Cardinality(InFlight)
        /\ CallsMade' = Cardinality(Slots') + Cardinality(InFlight')
    BY DEF CallsMade, InFlight
  <2>2. IsFiniteSet(Slots) /\ Cardinality(Slots) \in Nat /\ Cardinality(Slots') = Cardinality(Slots) + 1
    BY <1>1, FS_AddElement, FS_CardinalityType DEF TraceType, LogOK
  <2>3. Cardinality(InFlight) \in Nat /\ Cardinality(InFlight') = Cardinality(InFlight) - 1
    BY <1>1, InFlightFacts, FS_RemoveElement
  <2> QED
    BY <2>1, <2>2, <2>3 DEF SlotsInv
<1>4. ASSUME NEW u \in Threads, u # t
      PROVE  Filled(u)' = Filled(u) /\ NextSlot(u)' = NextSlot(u)
  <2>1. ~ (Block(u) <= n /\ n < Block(u) + MaxCalls)
    <3>1. t \in Nat /\ u \in Nat /\ (t < u \/ u < t)
      BY <1>4 DEF Threads
    <3>2. Block(t) \in Nat /\ Block(u) \in Nat /\ MaxCalls \in Nat
      BY BlocksApart, TraceAssumption
    <3> QED
      BY <1>1, <1>2, <3>1, <3>2, BlocksApart
  <2>2. Filled(u)' = {s \in Slots' : Block(u) <= s /\ s < Block(u) + MaxCalls}
    BY DEF Filled, Block
  <2>3. Filled(u)' = Filled(u)
    BY <1>1, <2>1, <2>2 DEF Filled
  <2>4. NextSlot(u) = Block(u) + Cardinality(Filled(u))
        /\ NextSlot(u)' = Block(u) + Cardinality(Filled(u)')
    BY DEF NextSlot, Filled, Block
  <2> QED
    BY <2>3, <2>4
<1>5. Filled(t)' = Filled(t) \union {n} /\ NextSlot(t)' = n + 1
  <2>1. Filled(t)' = {s \in Slots' : Block(t) <= s /\ s < Block(t) + MaxCalls}
    BY DEF Filled, Block
  <2>2. Filled(t)' = Filled(t) \union {n}
    BY <1>1, <1>2, <2>1 DEF Filled
  <2>3. n \notin Filled(t)
    BY <1>1 DEF Filled
  <2>4. Cardinality(Filled(t) \union {n}) = Cardinality(Filled(t)) + 1
    BY <1>2, <2>3, FS_AddElement
  <2>5. NextSlot(t)' = Block(t) + Cardinality(Filled(t)')
    BY DEF NextSlot, Filled, Block
  <2>6. Block(t) \in Nat
    BY BlocksApart
  <2> QED
    BY <1>2, <2>2, <2>4, <2>5, <2>6
<1>6. ASSUME NEW u \in Threads, NEW s \in Filled(u)' PROVE s < NextSlot(u)'
  <2>1. CASE u # t
    BY <1>4, <1>6, <2>1 DEF SlotsInv
  <2>2. CASE u = t
    <3>1. s \in Filled(t) => s \in Nat /\ s < n
      BY DEF SlotsInv, Filled, TraceType, LogOK
    <3> QED
      BY <1>1, <1>5, <1>6, <2>2, <3>1
  <2> QED
    BY <2>1, <2>2
<1> QED
  BY <1>3, <1>6 DEF SlotsInv

\* What was called first, after a record was stamped.
LEMMA StampFirst ==
  ASSUME TraceType, SlotsInv, FirstInv, NEW t \in Threads, Stamp(t)
  PROVE  FirstInv'
<1> DEFINE n == NextSlot(t)
<1>1. MallocLogged' <=>
        MallocLogged \/ (inCall[t].mode = "malloc" /\ inCall[t].result # 0)
  <2>1. MallocLogged' <=> \E s \in Slots' : log'[s].mode = "malloc" /\ log'[s].result # 0
    BY DEF MallocLogged, Slots
  <2>2. log'[n].mode = inCall[t].mode /\ log'[n].result = inCall[t].result
    BY StampFacts, StampedFacts
  <2> QED
    BY <2>1, <2>2, StampFacts DEF MallocLogged
<1>2. CASE MallocLogged'
  BY <1>2 DEF FirstInv
<1>3. CASE ~ MallocLogged'
  <2>1. /\ \A a \in Addresses : heap[a] # Unused =>
             \E u \in Threads : inCall[u].mode = "malloc" /\ inCall[u].result = a
        /\ \A u \in Threads : inCall[u].mode # "realloc"
        /\ \A s \in Slots : log[s].mode # "realloc"
        /\ ~ (inCall[t].mode = "malloc" /\ inCall[t].result # 0)
    BY <1>1, <1>3 DEF FirstInv
  <2>2. ASSUME NEW a \in Addresses, heap'[a] # Unused
        PROVE  \E u \in Threads : inCall'[u].mode = "malloc" /\ inCall'[u].result = a
    <3>1. heap[a] # Unused
      BY <2>2 DEF Stamp
    <3>2. PICK u \in Threads : inCall[u].mode = "malloc" /\ inCall[u].result = a
      BY <2>1, <3>1
    <3>3. u # t
      BY <2>1, <3>2, AddressFacts
    <3> QED
      BY <3>2, <3>3, StampFacts
  <2>3. \A u \in Threads : inCall'[u].mode # "realloc"
    BY <2>1, StampFacts, RecordsFacts
  <2>4. \A s \in Slots' : log'[s].mode # "realloc"
    BY <2>1, StampFacts, StampedFacts
  <2> QED
    BY <2>2, <2>3, <2>4 DEF FirstInv, Slots
<1> QED
  BY <1>2, <1>3

\* The log the process leaves: the records it had, and those of some calls.
LEMMA LeftBehindFacts ==
  ASSUME TraceType, SlotsInv, NEW S \in SUBSET InFlight, log' = LeftBehind(S)
  PROVE  /\ LogOK' /\ Slots \subseteq Slots' /\ \A s \in Slots : log'[s] = log[s]
         /\ \A s \in Slots' : s \notin Slots =>
              \E t \in S : log'[s] = Stamped(inCall[t], NoStamp)
         /\ \A t \in S : \E u \in S, s \in Slots' :
              NextSlot(u) = NextSlot(t) /\ log'[s] = Stamped(inCall[u], NoStamp)
         /\ S = {} => Slots' = Slots
<1> DEFINE N == {NextSlot(t) : t \in S}
           Who(s) == CHOOSE t \in S : NextSlot(t) = s
<1>1. log' = [s \in Slots \union N |->
                IF s \in Slots THEN log[s] ELSE Stamped(inCall[Who(s)], NoStamp)]
  BY DEF LeftBehind
<1>2. Slots' = Slots \union N /\ \A s \in Slots : log'[s] = log[s]
  BY <1>1 DEF Slots
<1>3. \A t \in S : NextSlot(t) \notin Slots /\ NextSlot(t) \in Nat
  BY NextSlotFacts
<1>4. ASSUME NEW t \in S
      PROVE  /\ Who(NextSlot(t)) \in S /\ NextSlot(Who(NextSlot(t))) = NextSlot(t)
             /\ NextSlot(t) \in Slots'
             /\ log'[NextSlot(t)] = Stamped(inCall[Who(NextSlot(t))], NoStamp)
  <2>1. Who(NextSlot(t)) \in S /\ NextSlot(Who(NextSlot(t))) = NextSlot(t)
    OBVIOUS
  <2> HIDE DEF Who
  <2> QED
    BY <1>1, <1>2, <1>3, <2>1
<1>5. IsFiniteSet(N)
  <2>1. IsFiniteSet(S)
    BY InFlightFacts, FS_Subset
  <2> DEFINE f == [t \in S |-> NextSlot(t)]
  <2>2. f \in Surjection(S, N)
    BY DEF Surjection
  <2> HIDE DEF f, N
  <2> QED
    BY <2>1, <2>2, FS_Surjection
<1>6. IsFiniteSet(Slots') /\ Slots' \subseteq Nat
  <2>1. N \subseteq Nat
    BY <1>3
  <2> HIDE DEF N
  <2> QED
    BY <1>2, <1>5, <2>1, FS_Union DEF TraceType, LogOK
<1>7. ASSUME NEW s \in Slots', s \notin Slots
      PROVE  \E t \in S : log'[s] = Stamped(inCall[t], NoStamp)
  <2>1. PICK t \in S : s = NextSlot(t)
    BY <1>2, <1>7
  <2> QED
    BY <1>4, <2>1
<1>8. ASSUME NEW s \in Slots' PROVE RecordOK(log'[s]) /\ log'[s].stamp \in Stamps
  <2>1. CASE s \in Slots
    BY <1>2, <2>1 DEF TraceType, LogOK
  <2>2. CASE s \notin Slots
    <3>1. PICK t \in S : log'[s] = Stamped(inCall[t], NoStamp)
      BY <1>7, <2>2
    <3>2. RecordOK(inCall[t])
      BY DEF TraceType
    <3>3. NoStamp \in Stamps
      BY DEF NoStamp, Stamps
    <3> QED
      BY <3>1, <3>2, <3>3, StampedFacts
  <2> QED
    BY <2>1, <2>2
<1>9. LogOK'
  BY <1>6, <1>8 DEF LogOK, Slots
<1> QED
  BY <1>2, <1>4, <1>7, <1>9

\* A realloc is logged only if a malloc that returned a block is.
LEMMA EndLogged ==
  ASSUME TraceType, SlotsInv, FirstInv, NEW S \in SUBSET InFlight, log' = LeftBehind(S)
  PROVE  LogOK' /\ ((\E s \in Slots' : Allocs(log'[s])) => MallocLogged')
<1>1. ASSUME NEW s \in Slots', Allocs(log'[s]) PROVE MallocLogged'
  <2>1. MallocLogged' <=> \E r \in Slots' : log'[r].mode = "malloc" /\ log'[r].result # 0
    BY DEF MallocLogged, Slots
  <2>2. CASE log'[s].mode = "malloc"
    BY <1>1, <2>1, <2>2 DEF Allocs
  <2>3. CASE log'[s].mode = "realloc"
    <3>1. MallocLogged
      <4>1. CASE s \in Slots
        BY <2>3, <4>1, LeftBehindFacts DEF FirstInv
      <4>2. CASE s \notin Slots
        <5>1. PICK t \in S : log'[s] = Stamped(inCall[t], NoStamp)
          BY <4>2, LeftBehindFacts
        <5>2. t \in Threads /\ inCall[t].mode = "realloc"
          BY <2>3, <5>1, StampedFacts DEF InFlight
        <5> QED
          BY <5>2 DEF FirstInv
      <4> QED
        BY <4>1, <4>2
    <3> QED
      BY <2>1, <3>1, LeftBehindFacts DEF MallocLogged
  <2> QED
    BY <1>1, <2>2, <2>3 DEF Allocs
<1> QED
  BY <1>1, LeftBehindFacts

-----------------------------------------------------------------------------
(* The replay.                                                              *)

\* A sequence without its i-th element.
LEMMA RemoveAtFacts ==
  ASSUME NEW S, NEW s \in Seq(S), NEW i \in 1 .. Len(s), NEW r, r = RemoveAt(s, i)
  PROVE  /\ r \in Seq(S) /\ Len(r) = Len(s) - 1
         /\ \A j \in 1 .. Len(r) : r[j] = IF j < i THEN s[j] ELSE s[j + 1]
<1>1. Len(s) \in Nat /\ i \in Nat /\ 1 <= i /\ i <= Len(s)
  OBVIOUS
<1> DEFINE front == SubSeq(s, 1, i - 1)
           back  == SubSeq(s, i + 1, Len(s))
<1>2. /\ front \in Seq(S) /\ Len(front) = i - 1
      /\ \A j \in 1 .. i - 1 : front[j] = s[j]
  BY <1>1
<1>3. /\ back \in Seq(S) /\ Len(back) = Len(s) - i
      /\ \A j \in 1 .. Len(s) - i : back[j] = s[j + i]
  BY <1>1
<1>4. r = front \o back
  BY DEF RemoveAt
<1> HIDE DEF front, back
<1>5. /\ r \in Seq(S) /\ Len(r) = Len(front) + Len(back)
      /\ \A j \in 1 .. Len(front) + Len(back) :
           r[j] = IF j <= Len(front) THEN front[j] ELSE back[j - Len(front)]
  <2>1. front \in Seq(S) /\ back \in Seq(S)
    BY <1>2, <1>3
  <2> QED
    BY <1>4, <2>1, ConcatProperties, ZenonT(30)
<1>6. Len(r) = Len(s) - 1
  BY <1>1, <1>2, <1>3, <1>5
<1>7. ASSUME NEW j \in 1 .. Len(r)
      PROVE  r[j] = IF j < i THEN s[j] ELSE s[j + 1]
  <2>1. CASE j < i
    BY <1>1, <1>2, <1>3, <1>5, <1>6, <2>1
  <2>2. CASE ~ (j < i)
    <3>1. j - (i - 1) \in 1 .. Len(s) - i /\ (j - (i - 1)) + i = j + 1 /\ ~ (j <= i - 1)
      BY <1>1, <1>6, <2>2
    <3> QED
      BY <1>1, <1>2, <1>3, <1>5, <1>6, <2>2, <3>1
  <2> QED
    BY <2>1, <2>2
<1> QED
  BY <1>5, <1>6, <1>7

\* A list without its i-th element, if it holds none twice.
LEMMA RemoveAtRange ==
  ASSUME NEW S, NEW s \in Seq(S), NEW i \in 1 .. Len(s), NEW r, r = RemoveAt(s, i),
         \A j, k \in DOMAIN s : s[j] = s[k] => j = k
  PROVE  /\ Range(r) = Range(s) \ {s[i]}
         /\ \A j, k \in DOMAIN r : r[j] = r[k] => j = k
<1>1. /\ r \in Seq(S) /\ Len(r) = Len(s) - 1 /\ Len(s) \in Nat /\ i \in Nat
      /\ DOMAIN r = 1 .. Len(r) /\ DOMAIN s = 1 .. Len(s)
      /\ \A j \in 1 .. Len(r) : r[j] = IF j < i THEN s[j] ELSE s[j + 1]
  BY RemoveAtFacts
<1>2. ASSUME NEW j \in 1 .. Len(r)
      PROVE  \E k \in 1 .. Len(s) : k # i /\ r[j] = s[k] /\ k = (IF j < i THEN j ELSE j + 1)
  BY <1>1
<1>3. ASSUME NEW k \in 1 .. Len(s), k # i
      PROVE  \E j \in 1 .. Len(r) : r[j] = s[k]
  <2>1. CASE k < i
    BY <1>1, <2>1
  <2>2. CASE k > i
    <3>1. k - 1 \in 1 .. Len(r) /\ ~ (k - 1 < i) /\ (k - 1) + 1 = k
      BY <1>1, <2>2
    <3> QED
      BY <1>1, <3>1
  <2> QED
    BY <1>1, <1>3, <2>1, <2>2
<1>4. Range(r) = Range(s) \ {s[i]}
  <2>1. ASSUME NEW x \in Range(r) PROVE x \in Range(s) /\ x # s[i]
    <3>1. PICK j \in 1 .. Len(r) : x = r[j]
      BY <1>1 DEF Range
    <3>2. PICK k \in 1 .. Len(s) : k # i /\ x = s[k]
      BY <1>2, <3>1
    <3>3. s[k] # s[i]
      BY <1>1, <3>2
    <3> QED
      BY <1>1, <3>2, <3>3 DEF Range
  <2>2. ASSUME NEW x \in Range(s), x # s[i] PROVE x \in Range(r)
    <3>1. PICK k \in 1 .. Len(s) : x = s[k] /\ k # i
      BY <1>1, <2>2 DEF Range
    <3>2. PICK j \in 1 .. Len(r) : r[j] = x
      BY <1>3, <3>1
    <3> QED
      BY <1>1, <3>2 DEF Range
  <2> QED
    BY <2>1, <2>2 DEF Range
<1>5. ASSUME NEW j \in DOMAIN r, NEW k \in DOMAIN r, r[j] = r[k] PROVE j = k
  <2>1. j \in 1 .. Len(r) /\ k \in 1 .. Len(r)
    BY <1>1
  <2>2. PICK m \in 1 .. Len(s) : r[j] = s[m] /\ m = (IF j < i THEN j ELSE j + 1)
    BY <1>2, <2>1
  <2>3. PICK n \in 1 .. Len(s) : r[k] = s[n] /\ n = (IF k < i THEN k ELSE k + 1)
    BY <1>2, <2>1
  <2>4. m = n
    BY <1>1, <1>5, <2>2, <2>3
  <2> QED
    BY <1>1, <2>1, <2>2, <2>3, <2>4
<1> QED
  BY <1>4, <1>5

\* A step that leaves the log, and g in the variables of the heap.
LEMMA HeapStep ==
  ASSUME log' = log, NEW g,
         allocationMap' = g.map, clientSize' = g.size, vmPagesImplicit' = g.pages
  PROVE  /\ HeapOK(g) => HeapOK(Heap)'
         /\ LiveIn(Heap)' = LiveIn(g)
         /\ \A a : Open(Heap, a)' <=> Open(g, a)
<1>1. Heap' = [map |-> g.map, size |-> g.size, pages |-> g.pages]
  BY DEF Heap
<1> DEFINE h == [map |-> g.map, size |-> g.size, pages |-> g.pages]
<1>2. h.map = g.map /\ h.size = g.size /\ h.pages = g.pages
  OBVIOUS
<1>3. \A a : Open(Heap, a)' <=> Open(g, a)
  BY <1>1, <1>2 DEF Open
<1>4. LiveIn(Heap)' = LiveIn(g)
  BY <1>3 DEF LiveIn
<1>5. \A a : SizeAt(Heap, a)' = SizeAt(g, a)
  BY <1>1, <1>2 DEF SizeAt
<1>6. BytesIn(Heap)' = BytesIn(g)
  BY <1>4, <1>5 DEF BytesIn, BytesAt
<1>7. \A p : OnPage(Heap, p)' = OnPage(g, p)
  BY <1>4, <1>5 DEF OnPage, PagesOf
<1>8. MapOK(g) => MapOK(Heap)'
  BY <1>1, <1>2 DEF MapOK, Slots, Allocs
<1>9. SizeOK(g) => SizeOK(Heap)'
  BY <1>1, <1>2, <1>6 DEF SizeOK
<1>10. ASSUME PagesOK(g) PROVE PagesOK(Heap)'
  <2> DEFINE P(x) == UNION {PagesOf(a, SizeAt(x, a)) : a \in LiveIn(x)}
  <2>1. P(Heap)' = P(g)
    BY <1>4, <1>5 DEF PagesOf
  <2>2. Heap'.pages = g.pages
    BY <1>1, <1>2
  <2>3. [p \in DOMAIN g.pages |-> Cardinality(OnPage(g, p))]
          = [p \in DOMAIN g.pages |-> Cardinality(OnPage(Heap, p)')]
    BY <1>7
  <2> QED
    BY <1>10, <2>1, <2>2, <2>3 DEF PagesOK
<1> QED
  BY <1>3, <1>4, <1>8, <1>9, <1>10 DEF HeapOK

\* What addRecord does to the heap and to the marks, when i fits and when not.
LEMMA Adding ==
  ASSUME LogOK, HeapOK(Heap), MarksOK, log' = log, NEW i \in Slots, AddRecord(i)
  PROVE  /\ HeapOK(Heap)'
         /\ clientHighWaterMark' \in Nat /\ serverHighWaterMark' \in Nat
         /\ \A r \in compactness' : r[1] \in Nat /\ r[2] \in Nat /\ r[1] <= r[2]
         /\ compactness \subseteq compactness'
         /\ Fits(Heap, i) =>
              /\ LiveIn(Heap)' = (LiveIn(Heap) \ (IF Frees(log[i]) THEN {log[i].pointer} ELSE {}))
                                    \union (IF Allocs(log[i]) THEN {log[i].result} ELSE {})
              /\ Frees(log[i]) => log[i].pointer \in LiveIn(Heap)
              /\ Allocs(log[i]) => log[i].result \notin LiveIn(Heap) \/
                                     (Frees(log[i]) /\ log[i].pointer = log[i].result)
              /\ LiveIn(Heap)' # {} => compactness' # {}
         /\ ~ Fits(Heap, i) =>
              /\ allocationMap' = allocationMap /\ LiveIn(Heap)' = LiveIn(Heap)
              /\ compactness' = compactness
<1> DEFINE g == IF Fits(Heap, i) THEN Placed(Heap, i) ELSE PutBack(Heap, i)
<1>1. /\ allocationMap' = g.map /\ clientSize' = g.size /\ vmPagesImplicit' = g.pages
      /\ clientHighWaterMark' =
           IF Fits(Heap, i) THEN Highest(clientHighWaterMark, g.size) ELSE clientHighWaterMark
      /\ serverHighWaterMark' = Highest(serverHighWaterMark, Cardinality(DOMAIN g.pages))
      /\ compactness' = IF Fits(Heap, i) THEN compactness \union Ratio(g) ELSE compactness
  BY DEF AddRecord
<1>2. CASE Fits(Heap, i)
  <2>1. g = Placed(Heap, i)
    BY <1>2
  <2> HIDE DEF g
  <2>2. /\ HeapOK(g)
        /\ LiveIn(g) = (LiveIn(Heap) \ (IF Frees(log[i]) THEN {log[i].pointer} ELSE {}))
                         \union (IF Allocs(log[i]) THEN {log[i].result} ELSE {})
        /\ Frees(log[i]) => log[i].pointer \in LiveIn(Heap)
        /\ Allocs(log[i]) => log[i].result \notin LiveIn(Heap) \/
                               (Frees(log[i]) /\ log[i].pointer = log[i].result)
    BY <1>2, <2>1, Placing
  <2>3. /\ Cardinality(DOMAIN g.pages) \in Nat /\ g.size \in Nat
        /\ MinPages(g.size) \in Nat /\ MinPages(g.size) <= Cardinality(DOMAIN g.pages)
    BY <2>2, PagesSuffice
  <2>4. HeapOK(Heap)' /\ LiveIn(Heap)' = LiveIn(g)
    BY <1>1, <2>2, HeapStep
  <2>5. clientHighWaterMark' \in Nat /\ serverHighWaterMark' \in Nat
    BY <1>1, <1>2, <2>3 DEF Highest, MarksOK
  <2>6. \A r \in Ratio(g) : r[1] \in Nat /\ r[2] \in Nat /\ r[1] <= r[2]
    BY <2>3 DEF Ratio
  <2>7. \A r \in compactness' : r[1] \in Nat /\ r[2] \in Nat /\ r[1] <= r[2]
    BY <1>1, <1>2, <2>6 DEF MarksOK
  <2>8. ASSUME LiveIn(g) # {} PROVE Ratio(g) # {}
    <3>1. PICK a \in LiveIn(g) : TRUE
      BY <2>8
    <3>2. a \in Addresses /\ SizeAt(g, a) \in Sizes
      BY <2>2, OpenFacts DEF HeapOK
    <3>3. PagesOf(a, SizeAt(g, a)) # {}
      BY <3>2, PagesOfBlock
    <3>4. DOMAIN g.pages # {} /\ IsFiniteSet(DOMAIN g.pages)
      BY <2>2, <3>1, <3>3 DEF HeapOK, PagesOK
    <3>5. Cardinality(DOMAIN g.pages) # 0
      BY <3>4, FS_EmptySet
    <3> QED
      BY <3>5 DEF Ratio
  <2>9. compactness \subseteq compactness' /\ (LiveIn(Heap)' # {} => compactness' # {})
    BY <1>1, <1>2, <2>4, <2>8
  <2> QED
    BY <1>2, <2>2, <2>4, <2>5, <2>7, <2>9
<1>3. CASE ~ Fits(Heap, i)
  <2>1. g = PutBack(Heap, i)
    BY <1>3
  <2> HIDE DEF g
  <2>2. g.map = Heap.map /\ g.size = Heap.size /\ g.pages = Heap.pages
    BY <2>1, PuttingBack
  <2>3. /\ allocationMap' = Heap.map /\ clientSize' = Heap.size
        /\ vmPagesImplicit' = Heap.pages /\ Heap.map = allocationMap
    BY <1>1, <2>2 DEF Heap
  <2>4. HeapOK(Heap)' /\ LiveIn(Heap)' = LiveIn(Heap)
    BY <2>3, HeapStep
  <2>5. Cardinality(DOMAIN Heap.pages) \in Nat
    BY PagesSuffice
  <2>6. clientHighWaterMark' \in Nat /\ serverHighWaterMark' \in Nat
    BY <1>1, <1>3, <2>2, <2>5 DEF Highest, MarksOK
  <2> QED
    BY <1>1, <1>3, <2>3, <2>4, <2>6 DEF MarksOK
<1> QED
  BY <1>2, <1>3

\* A step that leaves the log.
LEMMA SameLog ==
  ASSUME log' = log
  PROVE  /\ Slots' = Slots /\ (LogOK' <=> LogOK) /\ (MallocLogged' <=> MallocLogged)
         /\ order' = order => (OrderOK' <=> OrderOK)
<1>1. Slots' = Slots
  BY DEF Slots
<1>2. (LogOK' <=> LogOK) /\ (MallocLogged' <=> MallocLogged)
  BY <1>1 DEF LogOK, MallocLogged, RecordOK
<1>3. order' = order => (OrderOK' <=> OrderOK)
  BY <1>1 DEF OrderOK, Older
<1> QED
  BY <1>1, <1>2, <1>3

\* The heap before the replay.
LEMMA EmptyHeap ==
  ASSUME Untouched
  PROVE  HeapOK(Heap) /\ LiveIn(Heap) = {}
<1>1. /\ Heap.map = [a \in Addresses |-> Never]
      /\ Heap.size = 0 /\ Heap.pages = <<>>
  BY DEF Untouched, Heap
<1>2. LiveIn(Heap) = {}
  BY <1>1 DEF LiveIn, Open
<1>3. MapOK(Heap)
  BY <1>1 DEF MapOK
<1>4. BytesIn(Heap) = {}
  BY <1>2 DEF BytesIn
<1>5. SizeOK(Heap)
  BY <1>1, <1>4, FS_EmptySet DEF SizeOK
<1>6. DOMAIN Heap.pages = {}
  BY <1>1
<1>7. Heap.pages = [p \in DOMAIN Heap.pages |-> Cardinality(OnPage(Heap, p))]
  BY <1>1, <1>6
<1>8. PagesOK(Heap)
  BY <1>2, <1>6, <1>7, FS_EmptySet DEF PagesOK
<1> QED
  BY <1>2, <1>3, <1>5, <1>8 DEF HeapOK

\* The initial states.
LEMMA InitInv == Init => IInv
<1> SUFFICES ASSUME Init PROVE IInv
  OBVIOUS
<1>1. /\ phase = "run" /\ heap = [a \in Addresses |-> Unused]
      /\ inCall = [t \in Threads |-> Idle] /\ log = <<>> /\ clock = FirstStamp
      /\ Untouched
  BY DEF Init, TraceInit, Untouched
<1>2. Slots = {} /\ InFlight = {}
  BY <1>1 DEF Slots, InFlight
<1>3. clock \in Stamps
  BY <1>1 DEF FirstStamp, Stamps
<1>4. TraceType
  BY <1>1, <1>2, <1>3, FS_EmptySet DEF TraceType, LogOK
<1>5. SlotsInv
  <2>1. CallsMade = Cardinality(Slots) + Cardinality(InFlight)
    BY DEF CallsMade, InFlight
  <2> QED
    BY <1>2, <2>1, FS_EmptySet, TraceAssumption DEF SlotsInv, Filled
<1>6. FirstInv
  BY <1>1, <1>2, RecordsFacts DEF FirstInv
<1> QED
  BY <1>1, <1>4, <1>5, <1>6 DEF IInv, RunInv, LoggedInv, ReplayInv, Replaying

\* A call of the program, or its return.
LEMMA RunStep == IInv /\ Run => IInv'
<1> SUFFICES ASSUME IInv, Run PROVE IInv'
  OBVIOUS
<1>1. /\ phase = "run" /\ phase' = "run"
      /\ UNCHANGED <<iterVars, heapVars>>
      /\ TraceType /\ SlotsInv /\ FirstInv /\ Untouched
  BY DEF Run, IInv, RunInv, ReplayInv
<1>2. Untouched'
  BY <1>1 DEF Untouched, iterVars, heapVars
<1>3. PICK t \in Threads : Malloc(t) \/ Free(t) \/ Realloc(t) \/ Stamp(t)
  BY DEF Run, TraceNext
<1>4. TraceType' /\ SlotsInv' /\ FirstInv'
  <2>1. CASE Stamp(t)
    BY <1>1, <2>1, StampType, StampSlots, StampFirst
  <2>2. CASE Malloc(t) \/ Free(t) \/ Realloc(t)
    <3>1. PICK r : Begins(t, r)
      BY <1>1, <2>2, MallocBegins, FreeBegins, ReallocBegins
    <3> QED
      BY <1>1, <3>1, BeginsType, BeginsSlots, BeginsFirst
  <2> QED
    BY <1>3, <2>1, <2>2
<1> QED
  BY <1>1, <1>2, <1>4 DEF IInv, RunInv, LoggedInv, ReplayInv, Replaying

\* The end of the process.
LEMMA EndStep == IInv /\ End => IInv'
<1> SUFFICES ASSUME IInv, End PROVE IInv'
  OBVIOUS
<1>1. /\ phase = "run" /\ phase' = "sizes" /\ UNCHANGED <<iterVars, heapVars>>
      /\ TraceType /\ SlotsInv /\ FirstInv /\ Untouched
  BY DEF End, IInv, RunInv, ReplayInv
<1>2. PICK S \in SUBSET InFlight : log' = LeftBehind(S)
  BY DEF End
<1>3. LogOK' /\ ((\E s \in Slots' : Allocs(log'[s])) => MallocLogged')
  BY <1>1, <1>2, EndLogged
<1>4. Untouched'
  BY <1>1 DEF Untouched, iterVars, heapVars
<1>5. LoggedInv'
  BY <1>1, <1>3 DEF LoggedInv, Allocs
<1> QED
  BY <1>1, <1>4, <1>5 DEF IInv, RunInv, ReplayInv, Replaying

\* The sort.
LEMMA SortStep == IInv /\ Sort => IInv'
<1> SUFFICES ASSUME IInv, Sort PROVE IInv'
  OBVIOUS
<1>1. /\ phase = "sizes" /\ log' = log /\ LogOK /\ Untouched
      /\ UNCHANGED <<orderItr, retryList, retryItr, progress, heapVars>>
      /\ (\E s \in Slots : Allocs(log[s])) => MallocLogged
  BY DEF Sort, IInv, LoggedInv, ReplayInv, traceVars
<1>2. LoggedInv'
  BY <1>1, SameLog DEF LoggedInv, Allocs
<1>3. CASE phase' = "crashed" /\ UNCHANGED order
  <2>1. Untouched'
    BY <1>1, <1>3 DEF Untouched, heapVars
  <2> QED
    BY <1>2, <1>3, <2>1 DEF IInv, RunInv, ReplayInv, Replaying
<1>4. CASE phase' = "build" /\ order' = ByAge
  <2>1. Slots' = Slots /\ Cardinality(Slots) \in Nat
    BY <1>1, SameLog, FS_CardinalityType DEF LogOK
  <2>2. OrderOK'
    BY <1>1, <1>4, <2>1, ByAgeFacts DEF OrderOK, Older
  <2>3. ListOK'
    BY <1>1, <1>4, <2>1 DEF ListOK, Untouched
  <2>4. HeapOK(Heap)' /\ LiveIn(Heap)' = {}
    <3>1. HeapOK(Heap) /\ LiveIn(Heap) = {}
      BY <1>1, EmptyHeap
    <3>2. /\ allocationMap' = Heap.map /\ clientSize' = Heap.size
          /\ vmPagesImplicit' = Heap.pages
      BY <1>1 DEF Heap, heapVars
    <3> QED
      BY <1>1, <3>1, <3>2, HeapStep
  <2>5. MarksOK'
    BY <1>1 DEF MarksOK, Untouched, heapVars
  <2>6. Taken' = {}
    BY <1>1, <1>4 DEF Taken, Untouched
  <2>7. RatioInv'
    BY <2>4, <2>6 DEF RatioInv
  <2> QED
    BY <1>2, <1>4, <2>2, <2>3, <2>4, <2>5, <2>7 DEF IInv, RunInv, ReplayInv, Replaying
<1> QED
  BY <1>3, <1>4 DEF Sort

\* What a step of build leaves, and what the invariant says in it.
LEMMA BuildFacts ==
  ASSUME IInv, phase \in {"build", "retry"}, log' = log, order' = order
  PROVE  /\ LogOK /\ OrderOK /\ ListOK /\ HeapOK(Heap) /\ MarksOK /\ RatioInv
         /\ LoggedInv /\ Slots' = Slots /\ OrderOK'
         /\ Cardinality(Slots) \in Nat /\ Len(order) = Cardinality(Slots)
         /\ DOMAIN order = 1 .. Cardinality(Slots)
         /\ \A i, j \in DOMAIN order : order[i] = order[j] => i = j
         /\ phase' \in {"build", "retry", "done"} =>
              RunInv' /\ LoggedInv' /\ phase' # "run"
<1>1. /\ LogOK /\ OrderOK /\ ListOK /\ HeapOK(Heap) /\ MarksOK /\ RatioInv /\ LoggedInv
  BY DEF IInv, LoggedInv, ReplayInv, Replaying
<1>2. Slots' = Slots /\ OrderOK' /\ (LogOK' <=> LogOK) /\ (MallocLogged' <=> MallocLogged)
  BY <1>1, SameLog
<1>3. Cardinality(Slots) \in Nat
  BY <1>1, FS_CardinalityType DEF LogOK
<1>4. Len(order) = Cardinality(Slots) /\ DOMAIN order = 1 .. Cardinality(Slots)
  BY <1>1, <1>3 DEF OrderOK
<1>5. \A i, j \in DOMAIN order : order[i] = order[j] => i = j
  <2> SUFFICES ASSUME NEW i \in DOMAIN order, NEW j \in DOMAIN order, order[i] = order[j]
               PROVE  i = j
    OBVIOUS
  <2>1. i \in Nat /\ j \in Nat /\ order[i] \in Slots
    BY <1>1, <1>3 DEF OrderOK
  <2>2. ~ (i < j) /\ ~ (j < i)
    BY <1>1, <2>1, OlderOrder DEF OrderOK
  <2> QED
    BY <2>1, <2>2
<1>6. phase' \in {"build", "retry", "done"} => RunInv' /\ LoggedInv' /\ phase' # "run"
  <2>1. LogOK' /\ ((\E s \in Slots' : Allocs(log'[s])) => MallocLogged')
    BY <1>1, <1>2 DEF LoggedInv
  <2> QED
    BY <2>1 DEF RunInv, LoggedInv, Allocs
<1> QED
  BY <1>1, <1>2, <1>3, <1>4, <1>5, <1>6

\* The next record.
LEMMA NextRecordStep == IInv /\ NextRecord => IInv'
<1> SUFFICES ASSUME IInv, NextRecord PROVE IInv'
  OBVIOUS
<1> DEFINE i == order[orderItr]
           n == Cardinality(Slots)
<1>1. /\ phase = "build" /\ orderItr <= Len(order) /\ AddRecord(i)
      /\ log' = log /\ order' = order
  BY DEF NextRecord, traceVars
<1>2. /\ LogOK /\ OrderOK /\ ListOK /\ HeapOK(Heap) /\ MarksOK /\ RatioInv
      /\ Slots' = Slots /\ OrderOK' /\ n \in Nat /\ Len(order) = n
      /\ DOMAIN order = 1 .. n
      /\ \A j, k \in DOMAIN order : order[j] = order[k] => j = k
      /\ phase' \in {"build", "retry", "done"} => RunInv' /\ LoggedInv' /\ phase' # "run"
  BY <1>1, BuildFacts
<1>3. /\ orderItr \in 1 .. n /\ i \in Slots /\ retryList \in Seq(Slots)
      /\ Taken = 1 .. orderItr - 1
  BY <1>1, <1>2 DEF OrderOK, ListOK, Taken
<1> HIDE DEF i, n
<1>4. /\ HeapOK(Heap)'
      /\ clientHighWaterMark' \in Nat /\ serverHighWaterMark' \in Nat
      /\ \A r \in compactness' : r[1] \in Nat /\ r[2] \in Nat /\ r[1] <= r[2]
      /\ compactness \subseteq compactness'
      /\ Fits(Heap, i) =>
           /\ LiveIn(Heap)' = (LiveIn(Heap) \ (IF Frees(log[i]) THEN {log[i].pointer} ELSE {}))
                                 \union (IF Allocs(log[i]) THEN {log[i].result} ELSE {})
           /\ LiveIn(Heap)' # {} => compactness' # {}
      /\ ~ Fits(Heap, i) => LiveIn(Heap)' = LiveIn(Heap) /\ compactness' = compactness
  BY <1>1, <1>2, <1>3, Adding
<1>5. CASE Fits(Heap, i)
  <2>1. /\ phase' = "retry" /\ retryItr' = 1 /\ progress' = FALSE
        /\ orderItr' = orderItr /\ retryList' = retryList
    BY <1>5 DEF NextRecord, i
  <2>2. ListOK'
    <3>1. ListOK /\ Slots' = Slots /\ orderItr <= Cardinality(Slots)
      BY <1>2, <1>3 DEF n
    <3>2. retryItr' \in 1 .. Len(retryList') + 1
      BY <2>1, <3>1 DEF ListOK
    <3> QED
      BY <1>1, <2>1, <3>1, <3>2 DEF ListOK
  <2>3. Taken' = Taken \union {orderItr}
    BY <1>3, <2>1 DEF Taken, n
  <2>4. RatioInv'
    <3> SUFFICES ASSUME compactness' = {} PROVE RatioInv'
      BY DEF RatioInv
    <3>1. compactness = {} /\ LiveIn(Heap)' = {} /\ ~ Allocs(log[i])
      BY <1>4, <1>5
    <3>2. /\ \A k \in Taken : order[k] \notin Range(retryList) => ~ Allocs(log[order[k]])
          /\ \A k \in Taken : ~ (log[order[k]].mode = "malloc" /\ log[order[k]].result # 0)
      BY <1>2, <3>1 DEF RatioInv
    <3>3. ASSUME NEW k \in Taken', order'[k] \notin Range(retryList')
          PROVE  ~ Allocs(log'[order'[k]])
      BY <1>1, <2>1, <2>3, <3>1, <3>2, <3>3 DEF i
    <3>4. ASSUME NEW k \in Taken'
          PROVE  ~ (log'[order'[k]].mode = "malloc" /\ log'[order'[k]].result # 0)
      BY <1>1, <2>3, <3>1, <3>2 DEF Allocs, i
    <3>5. \A k \in Taken' : order'[k] \notin Range(retryList') => ~ Allocs(log'[order'[k]])
      BY <3>3
    <3> QED
      BY <3>1, <3>4, <3>5 DEF RatioInv, Allocs
  <2>5. MarksOK'
    BY <1>4, <2>1 DEF MarksOK
  <2> QED
    BY <1>2, <1>4, <2>1, <2>2, <2>4, <2>5 DEF IInv, ReplayInv, Replaying
<1>6. CASE ~ Fits(Heap, i)
  <2>1. /\ phase' = "build" /\ retryItr' = retryItr /\ progress' = progress
        /\ orderItr' = orderItr + 1 /\ retryList' = Append(retryList, i)
    BY <1>1, <1>6 DEF NextRecord, i
  <2>2. /\ retryList' \in Seq(Slots) /\ Len(retryList') = Len(retryList) + 1
        /\ Len(retryList) \in Nat
        /\ \A k \in 1 .. Len(retryList) : retryList'[k] = retryList[k]
        /\ retryList'[Len(retryList) + 1] = i
    BY <1>3, <2>1
  <2>3. ASSUME NEW k \in DOMAIN retryList'
        PROVE  \/ k \in DOMAIN retryList /\ retryList'[k] = retryList[k]
               \/ k = Len(retryList) + 1 /\ retryList'[k] = i
    BY <1>3, <2>2
  <2>4. ASSUME NEW k \in DOMAIN retryList PROVE retryList[k] # i
    <3>1. PICK j \in 1 .. orderItr - 1 : retryList[k] = order[j]
      BY <1>2 DEF ListOK
    <3>2. j \in DOMAIN order /\ orderItr \in DOMAIN order /\ j # orderItr
      BY <1>2, <1>3
    <3> QED
      BY <1>2, <3>1, <3>2 DEF i
  <2>5. ListOK'
    <3>1. \A j \in DOMAIN retryList' : \E k \in 1 .. orderItr' - 1 : retryList'[j] = order'[k]
      <4> SUFFICES ASSUME NEW j \in DOMAIN retryList'
                   PROVE  \E k \in 1 .. orderItr' - 1 : retryList'[j] = order'[k]
        OBVIOUS
      <4>1. CASE j \in DOMAIN retryList /\ retryList'[j] = retryList[j]
        <5>1. PICK k \in 1 .. orderItr - 1 : retryList[j] = order[k]
          BY <1>2, <4>1 DEF ListOK
        <5> QED
          BY <1>1, <1>3, <2>1, <4>1, <5>1
      <4>2. CASE j = Len(retryList) + 1 /\ retryList'[j] = i
        BY <1>1, <1>3, <2>1, <4>2 DEF i
      <4> QED
        BY <2>3, <4>1, <4>2
    <3>2. \A j, k \in DOMAIN retryList' : retryList'[j] = retryList'[k] => j = k
      BY <1>2, <2>3, <2>4 DEF ListOK
    <3>3. orderItr' \in 1 .. n + 1 /\ retryItr' \in 1 .. Len(retryList') + 1
      BY <1>2, <1>3, <2>1, <2>2 DEF ListOK
    <3> QED
      BY <1>2, <2>1, <2>2, <3>1, <3>2, <3>3 DEF ListOK, n
  <2>6. Taken' = Taken \union {orderItr}
    BY <1>3, <2>1 DEF Taken, n
  <2>7. i \in Range(retryList') /\ Range(retryList) \subseteq Range(retryList')
    BY <1>3, <2>2 DEF Range
  <2>8. RatioInv'
    <3> SUFFICES ASSUME compactness' = {} PROVE RatioInv'
      BY DEF RatioInv
    <3>1. compactness = {} /\ LiveIn(Heap)' = {} /\ LiveIn(Heap) = {}
      BY <1>2, <1>4, <1>6 DEF RatioInv
    <3>2. /\ \A k \in Taken : order[k] \notin Range(retryList) => ~ Allocs(log[order[k]])
          /\ \A k \in Taken : ~ (log[order[k]].mode = "malloc" /\ log[order[k]].result # 0)
      BY <1>2, <3>1 DEF RatioInv
    <3>3. ~ (log[i].mode = "malloc" /\ log[i].result # 0)
      <4> SUFFICES ASSUME log[i].mode = "malloc", log[i].result # 0 PROVE FALSE
        OBVIOUS
      <4>1. ~ Frees(log[i]) /\ Allocs(log[i]) /\ log[i].result \in Addresses
        BY <1>2, <1>3, RecordFacts DEF Frees, Allocs
      <4>2. ~ Open(Heap, log[i].result)
        BY <3>1, <4>1 DEF LiveIn
      <4> QED
        BY <1>6, <4>1, <4>2 DEF Fits, CanFree, CanAlloc, Freed
    <3>4. ASSUME NEW k \in Taken', order'[k] \notin Range(retryList')
          PROVE  ~ Allocs(log'[order'[k]])
      BY <1>1, <2>6, <2>7, <3>2, <3>4 DEF i
    <3>5. ASSUME NEW k \in Taken'
          PROVE  ~ (log'[order'[k]].mode = "malloc" /\ log'[order'[k]].result # 0)
      BY <1>1, <2>6, <3>2, <3>3 DEF i
    <3>6. \A k \in Taken' : order'[k] \notin Range(retryList') => ~ Allocs(log'[order'[k]])
      BY <3>4
    <3> QED
      BY <3>1, <3>5, <3>6 DEF RatioInv, Allocs
  <2>9. MarksOK'
    BY <1>2, <1>4, <2>1 DEF MarksOK
  <2> QED
    BY <1>2, <1>4, <2>1, <2>5, <2>8, <2>9 DEF IInv, ReplayInv, Replaying
<1> QED
  BY <1>5, <1>6

\* One record put aside.
LEMMA RetryStep == IInv /\ Retry => IInv'
<1> SUFFICES ASSUME IInv, Retry PROVE IInv'
  OBVIOUS
<1> DEFINE i == retryList[retryItr]
           n == Cardinality(Slots)
<1>1. /\ phase = "retry" /\ retryItr <= Len(retryList) /\ AddRecord(i)
      /\ log' = log /\ order' = order /\ phase' = phase /\ orderItr' = orderItr
  BY DEF Retry, traceVars
<1>2. /\ LogOK /\ OrderOK /\ ListOK /\ HeapOK(Heap) /\ MarksOK /\ RatioInv
      /\ Slots' = Slots /\ OrderOK' /\ n \in Nat /\ DOMAIN order = 1 .. n
      /\ phase' \in {"build", "retry", "done"} => RunInv' /\ LoggedInv' /\ phase' # "run"
  BY <1>1, BuildFacts
<1>3. /\ retryList \in Seq(Slots) /\ retryItr \in 1 .. Len(retryList) /\ i \in Slots
      /\ \A j, k \in DOMAIN retryList : retryList[j] = retryList[k] => j = k
      /\ \A j \in DOMAIN retryList : \E k \in 1 .. orderItr - 1 : retryList[j] = order[k]
      /\ orderItr \in 1 .. n + 1 /\ orderItr <= n
      /\ Taken' = Taken
  <2>1. retryList \in Seq(Slots) /\ retryItr \in 1 .. Len(retryList)
    BY <1>1, <1>2 DEF ListOK
  <2>2. i \in Slots
    BY <2>1
  <2>3. Taken' = Taken
    BY <1>1 DEF Taken
  <2> QED
    BY <1>1, <1>2, <2>1, <2>2, <2>3 DEF ListOK
<1> HIDE DEF i, n
<1>4. /\ HeapOK(Heap)'
      /\ clientHighWaterMark' \in Nat /\ serverHighWaterMark' \in Nat
      /\ \A r \in compactness' : r[1] \in Nat /\ r[2] \in Nat /\ r[1] <= r[2]
      /\ compactness \subseteq compactness'
      /\ Fits(Heap, i) =>
           /\ LiveIn(Heap)' = (LiveIn(Heap) \ (IF Frees(log[i]) THEN {log[i].pointer} ELSE {}))
                                 \union (IF Allocs(log[i]) THEN {log[i].result} ELSE {})
           /\ LiveIn(Heap)' # {} => compactness' # {}
      /\ ~ Fits(Heap, i) => LiveIn(Heap)' = LiveIn(Heap) /\ compactness' = compactness
  BY <1>1, <1>2, <1>3, Adding
<1>5. CASE Fits(Heap, i)
  <2>1. /\ retryList' = RemoveAt(retryList, retryItr) /\ progress' = TRUE
        /\ retryItr' = retryItr
    BY <1>1, <1>5 DEF Retry, i
  <2>2. /\ retryList' \in Seq(Slots) /\ Len(retryList') = Len(retryList) - 1
        /\ \A j \in 1 .. Len(retryList') :
             retryList'[j] = IF j < retryItr THEN retryList[j] ELSE retryList[j + 1]
        /\ Range(retryList') = Range(retryList) \ {i}
        /\ \A j, k \in DOMAIN retryList' : retryList'[j] = retryList'[k] => j = k
    <3>1. /\ retryList' \in Seq(Slots) /\ Len(retryList') = Len(retryList) - 1
          /\ \A j \in 1 .. Len(retryList') :
               retryList'[j] = IF j < retryItr THEN retryList[j] ELSE retryList[j + 1]
      <4> DEFINE r == RemoveAt(retryList, retryItr)
      <4>1. /\ r \in Seq(Slots) /\ Len(r) = Len(retryList) - 1
            /\ \A j \in 1 .. Len(r) :
                 r[j] = IF j < retryItr THEN retryList[j] ELSE retryList[j + 1]
        BY <1>3, RemoveAtFacts
      <4> HIDE DEF r
      <4> QED
        BY <2>1, <4>1 DEF r
    <3>2. /\ Range(retryList') = Range(retryList) \ {i}
          /\ \A j, k \in DOMAIN retryList' : retryList'[j] = retryList'[k] => j = k
      BY <1>3, <2>1, RemoveAtRange, Zenon DEF i
    <3> QED
      BY <3>1, <3>2
  <2>3. ASSUME NEW j \in DOMAIN retryList'
        PROVE  \E k \in 1 .. orderItr' - 1 : retryList'[j] = order'[k]
    <3>1. /\ j \in 1 .. Len(retryList) - 1
          /\ retryList'[j] = IF j < retryItr THEN retryList[j] ELSE retryList[j + 1]
      BY <1>3, <2>2
    <3>2. j \in DOMAIN retryList /\ j + 1 \in DOMAIN retryList
      BY <1>3, <3>1
    <3>3. PICK k \in DOMAIN retryList : retryList'[j] = retryList[k]
      BY <3>1, <3>2
    <3> QED
      BY <1>1, <1>3, <3>3
  <2>4. ListOK'
    <3>1. retryItr' \in 1 .. Len(retryList') + 1 /\ orderItr' \in 1 .. n + 1 /\ orderItr' <= n
      BY <1>1, <1>3, <2>1, <2>2
    <3> QED
      BY <1>2, <2>2, <2>3, <3>1 DEF ListOK, n
  <2>5. RatioInv'
    <3> SUFFICES ASSUME compactness' = {} PROVE RatioInv'
      BY DEF RatioInv
    <3>1. compactness = {} /\ LiveIn(Heap)' = {} /\ ~ Allocs(log[i])
      BY <1>4, <1>5
    <3>2. /\ \A k \in Taken : order[k] \notin Range(retryList) => ~ Allocs(log[order[k]])
          /\ \A k \in Taken : ~ (log[order[k]].mode = "malloc" /\ log[order[k]].result # 0)
      BY <1>2, <3>1 DEF RatioInv
    <3>3. \A k \in Taken : order[k] \notin Range(retryList') => ~ Allocs(log[order[k]])
      BY <2>2, <3>1, <3>2
    <3> QED
      BY <1>1, <1>3, <3>1, <3>2, <3>3 DEF RatioInv, Allocs
  <2>6. MarksOK'
    BY <1>4, <2>1 DEF MarksOK
  <2> QED
    BY <1>1, <1>2, <1>4, <2>4, <2>5, <2>6 DEF IInv, ReplayInv, Replaying
<1>6. CASE ~ Fits(Heap, i)
  <2>1. retryItr' = retryItr + 1 /\ retryList' = retryList /\ progress' = progress
    BY <1>1, <1>6 DEF Retry, i
  <2>2. ListOK'
    BY <1>1, <1>2, <1>3, <2>1 DEF ListOK, n
  <2>3. RatioInv'
    BY <1>1, <1>2, <1>3, <1>4, <1>6, <2>1 DEF RatioInv, Allocs
  <2>4. MarksOK'
    BY <1>2, <1>4, <2>1 DEF MarksOK
  <2> QED
    BY <1>1, <1>2, <1>4, <2>2, <2>3, <2>4 DEF IInv, ReplayInv, Replaying
<1> QED
  BY <1>5, <1>6

\* The heap and the marks, in a step that leaves them.
LEMMA SameHeap ==
  ASSUME log' = log, UNCHANGED heapVars, progress' \in BOOLEAN
  PROVE  /\ HeapOK(Heap) => HeapOK(Heap)'
         /\ MarksOK => MarksOK'
         /\ LiveIn(Heap)' = LiveIn(Heap)
<1>1. /\ allocationMap' = Heap.map /\ clientSize' = Heap.size
      /\ vmPagesImplicit' = Heap.pages
  BY DEF Heap, heapVars
<1>2. (HeapOK(Heap) => HeapOK(Heap)') /\ LiveIn(Heap)' = LiveIn(Heap)
  BY <1>1, HeapStep
<1>3. MarksOK => MarksOK'
  BY DEF MarksOK, heapVars
<1> QED
  BY <1>2, <1>3

\* The end of a pass over retryList.
LEMMA EndPassStep == IInv /\ EndPass => IInv'
<1> SUFFICES ASSUME IInv, EndPass PROVE IInv'
  OBVIOUS
<1> DEFINE n == Cardinality(Slots)
<1>1. /\ phase = "retry" /\ retryItr' = 1 /\ progress' = FALSE
      /\ log' = log /\ order' = order /\ retryList' = retryList /\ UNCHANGED heapVars
      /\ \/ phase' = "retry" /\ orderItr' = orderItr
         \/ phase' = "build" /\ orderItr' = orderItr + 1
  BY DEF EndPass, traceVars
<1>2. /\ OrderOK /\ ListOK /\ HeapOK(Heap) /\ MarksOK /\ RatioInv
      /\ Slots' = Slots /\ OrderOK' /\ n \in Nat
      /\ phase' \in {"build", "retry", "done"} => RunInv' /\ LoggedInv' /\ phase' # "run"
  BY <1>1, BuildFacts
<1>3. HeapOK(Heap)' /\ MarksOK' /\ LiveIn(Heap)' = LiveIn(Heap)
  BY <1>1, <1>2, SameHeap
<1>4. orderItr \in 1 .. n /\ retryList \in Seq(Slots) /\ Taken' = Taken
  BY <1>1, <1>2 DEF ListOK, Taken
<1>5. ListOK'
  <2>1. /\ orderItr' \in 1 .. n + 1 /\ (phase' = "retry" => orderItr' <= n)
        /\ orderItr \in Nat /\ orderItr' \in {orderItr, orderItr + 1}
    BY <1>1, <1>2, <1>4
  <2>2. \A k \in 1 .. orderItr - 1 : k \in 1 .. orderItr' - 1
    <3>1. orderItr \in Nat /\ (orderItr' = orderItr \/ orderItr' = orderItr + 1)
      BY <2>1
    <3> QED
      BY <3>1
  <2>3. \A i \in DOMAIN retryList : \E k \in 1 .. orderItr' - 1 : retryList[i] = order[k]
    BY <1>2, <2>2 DEF ListOK
  <2>4. retryItr' \in 1 .. Len(retryList') + 1 /\ retryList' \in Seq(Slots)'
    BY <1>1, <1>2, <1>4
  <2>5. /\ \A i \in DOMAIN retryList' : \E k \in 1 .. orderItr' - 1 : retryList'[i] = order'[k]
        /\ \A i, j \in DOMAIN retryList' : retryList'[i] = retryList'[j] => i = j
    BY <1>1, <1>2, <2>3 DEF ListOK
  <2>6. Cardinality(Slots)' = n
    BY <1>2
  <2> HIDE DEF n
  <2>7. retryItr' \in 1 .. Len(retryList)' + 1
    BY <2>4
  <2> QED
    BY <2>1, <2>4, <2>5, <2>6, <2>7 DEF ListOK
<1>6. RatioInv'
  BY <1>1, <1>2, <1>3, <1>4 DEF RatioInv, Allocs, heapVars
<1> QED
  BY <1>1, <1>2, <1>3, <1>5, <1>6 DEF IInv, ReplayInv, Replaying

\* The end of build.
LEMMA DoneStep == IInv /\ Done => IInv'
<1> SUFFICES ASSUME IInv, Done PROVE IInv'
  OBVIOUS
<1> DEFINE n == Cardinality(Slots)
<1>1. /\ phase = "build" /\ phase' = "done" /\ orderItr > Len(order)
      /\ log' = log /\ UNCHANGED <<iterVars, heapVars>>
  BY DEF Done, traceVars
<1>2. order' = order /\ orderItr' = orderItr
  BY <1>1 DEF iterVars
<1>3. /\ OrderOK /\ ListOK /\ HeapOK(Heap) /\ MarksOK /\ RatioInv
      /\ Slots' = Slots /\ OrderOK' /\ n \in Nat /\ Len(order) = n
      /\ phase' \in {"build", "retry", "done"} => RunInv' /\ LoggedInv' /\ phase' # "run"
  BY <1>1, <1>2, BuildFacts
<1>4. HeapOK(Heap)' /\ MarksOK' /\ LiveIn(Heap)' = LiveIn(Heap)
  BY <1>1, <1>3, SameHeap DEF iterVars, MarksOK
<1>5. orderItr = n + 1 /\ Taken' = Taken
  BY <1>1, <1>2, <1>3 DEF ListOK, Taken
<1>6. ListOK'
  BY <1>1, <1>3 DEF ListOK, iterVars
<1>7. RatioInv'
  BY <1>1, <1>3, <1>4, <1>5 DEF RatioInv, Allocs, iterVars, heapVars
<1> QED
  BY <1>1, <1>2, <1>3, <1>4, <1>5, <1>6, <1>7 DEF IInv, ReplayInv, Replaying

\* A step that changes nothing.
LEMMA SameInv == IInv /\ UNCHANGED vars => IInv'
<1> SUFFICES ASSUME IInv, UNCHANGED vars PROVE IInv'
  OBVIOUS
<1>1. /\ UNCHANGED traceVars /\ phase' = phase /\ UNCHANGED iterVars /\ UNCHANGED heapVars
  BY DEF vars
<1>2. /\ heap' = heap /\ inCall' = inCall /\ log' = log /\ clock' = clock
      /\ order' = order /\ orderItr' = orderItr /\ retryList' = retryList
      /\ retryItr' = retryItr /\ progress' = progress
      /\ allocationMap' = allocationMap /\ clientSize' = clientSize
      /\ clientHighWaterMark' = clientHighWaterMark /\ vmPagesImplicit' = vmPagesImplicit
      /\ serverHighWaterMark' = serverHighWaterMark /\ compactness' = compactness
  BY <1>1 DEF traceVars, iterVars, heapVars
<1>3. /\ Slots' = Slots /\ (LogOK' <=> LogOK) /\ (MallocLogged' <=> MallocLogged)
      /\ (OrderOK' <=> OrderOK)
  BY <1>2, SameLog
<1>4. RunInv'
  <2>1. TraceType => TraceType'
    BY <1>2, <1>3 DEF TraceType, InFlight, RecordOK
  <2>2. SlotsInv => SlotsInv'
    BY <1>2, <1>3 DEF SlotsInv, CallsMade, Filled, NextSlot
  <2>3. FirstInv => FirstInv'
    BY <1>2, <1>3 DEF FirstInv
  <2> QED
    BY <1>1, <2>1, <2>2, <2>3 DEF IInv, RunInv
<1>5. LoggedInv'
  BY <1>1, <1>2, <1>3 DEF IInv, LoggedInv, Allocs
<1>6. Untouched => Untouched'
  BY <1>2 DEF Untouched
<1>7. ASSUME phase \in Replaying
      PROVE  OrderOK' /\ ListOK' /\ HeapOK(Heap)' /\ MarksOK' /\ RatioInv'
  <2>1. OrderOK /\ ListOK /\ HeapOK(Heap) /\ MarksOK /\ RatioInv
    BY <1>7 DEF IInv, ReplayInv
  <2>2. HeapOK(Heap)' /\ MarksOK' /\ LiveIn(Heap)' = LiveIn(Heap)
    BY <1>1, <1>2, <2>1, SameHeap DEF MarksOK
  <2>3. ListOK'
    BY <1>1, <1>2, <1>3, <2>1 DEF ListOK
  <2>4. Taken' = Taken
    BY <1>1, <1>2 DEF Taken
  <2>5. RatioInv'
    BY <1>2, <2>1, <2>2, <2>4 DEF RatioInv, Allocs
  <2> QED
    BY <1>3, <2>1, <2>2, <2>3, <2>5
<1> QED
  BY <1>1, <1>2, <1>3, <1>4, <1>5, <1>6, <1>7 DEF IInv, ReplayInv, Replaying

\* The invariant holds of every state, for every program and every log.
THEOREM Invariance == Spec => []IInv
<1>1. IInv /\ [Next]_vars => IInv'
  BY RunStep, EndStep, SortStep, NextRecordStep, RetryStep, EndPassStep, DoneStep, SameInv
     DEF Next, Build, Terminated
<1> QED
  BY InitInv, <1>1, PTL DEF Spec

-----------------------------------------------------------------------------
(* What holds of every log.                                                 *)

\* At every step the heap that is replayed satisfies HeapOK.
LEMMA HeapAlwaysOK ==
  ASSUME IInv
  PROVE  HeapOK(Heap)
<1>1. CASE phase \in Replaying
  BY <1>1 DEF IInv, ReplayInv
<1>2. CASE phase \in {"run", "sizes", "crashed"}
  BY <1>2, EmptyHeap DEF IInv, ReplayInv
<1> QED
  BY <1>1, <1>2 DEF IInv, Replaying

\* Each variable of the analysis keeps its type: no record is taken twice
\* from the log or put aside twice, the iterators stay within their lists,
\* and no page is left with a count of zero blocks.
THEOREM TypeCorrect == Spec => []TypeOK
<1>1. IInv => TypeOK
  <2> SUFFICES ASSUME IInv PROVE TypeOK
    OBVIOUS
  <2>1. HeapOK(Heap)
    BY HeapAlwaysOK
  <2>2. \A a \in Addresses :
          allocationMap[a] \in {Never} \union [alloc : Slots, free : Slots \union {nullIndex}]
    BY <2>1 DEF HeapOK, MapOK, Heap
  <2>3. clientSize \in Nat
    BY <2>1, FS_CardinalityType DEF HeapOK, SizeOK, Heap
  <2>4. \A p \in DOMAIN vmPagesImplicit : p \in Nat /\ vmPagesImplicit[p] \in Nat \ {0}
    <3> SUFFICES ASSUME NEW p \in DOMAIN Heap.pages
                 PROVE  p \in Nat /\ Heap.pages[p] \in Nat \ {0}
      BY DEF Heap
    <3>1. Heap.pages[p] = Cardinality(OnPage(Heap, p))
      BY <2>1 DEF HeapOK, PagesOK
    <3>2. PICK a \in LiveIn(Heap) : p \in PagesOf(a, SizeAt(Heap, a))
      BY <2>1 DEF HeapOK, PagesOK
    <3>3. LogOK
      <4>1. CASE phase = "run"
        BY <4>1 DEF IInv, RunInv, TraceType
      <4>2. CASE phase # "run"
        BY <4>2 DEF IInv, LoggedInv
      <4> QED
        BY <4>1, <4>2
    <3>4. a \in Addresses /\ SizeAt(Heap, a) \in Sizes
      BY <2>1, <3>3, OpenFacts DEF HeapOK
    <3>5. p \in Nat
      BY <3>2, <3>4, PagesOfBlock
    <3>6. OnPage(Heap, p) # {}
      BY <3>2 DEF OnPage
    <3> QED
      BY <3>1, <3>5, <3>6, OnPageFacts
  <2>5. CASE phase \in {"run", "sizes", "crashed"}
    <3>1. Untouched
      BY <2>5 DEF IInv, ReplayInv
    <3>2. /\ IsInjective(order) /\ Range(order) \subseteq Slots
          /\ IsInjective(retryList) /\ Range(retryList) \subseteq Range(order)
      BY <3>1 DEF Untouched, IsInjective, Range
    <3>3. orderItr \in 1 .. Len(order) + 1 /\ retryItr \in 1 .. Len(retryList) + 1
      BY <3>1 DEF Untouched
    <3> QED
      BY <2>2, <2>3, <2>4, <2>5, <3>1, <3>2, <3>3 DEF TypeOK, Untouched
  <2>6. CASE phase \in Replaying
    <3>1. OrderOK /\ ListOK /\ MarksOK /\ LogOK
      BY <2>6 DEF IInv, ReplayInv, LoggedInv, Replaying
    <3>2. Cardinality(Slots) \in Nat
      BY <3>1, FS_CardinalityType DEF LogOK
    <3>3. DOMAIN order = 1 .. Cardinality(Slots) /\ Len(order) = Cardinality(Slots)
      BY <3>1, <3>2 DEF OrderOK
    <3>4. IsInjective(order)
      <4> SUFFICES ASSUME NEW i \in DOMAIN order, NEW j \in DOMAIN order, order[i] = order[j]
                   PROVE  i = j
        BY DEF IsInjective
      <4>1. i \in Nat /\ j \in Nat /\ order[i] \in Slots
        BY <3>1, <3>2, <3>3 DEF OrderOK
      <4>2. ~ (i < j) /\ ~ (j < i)
        BY <3>1, <4>1, OlderOrder DEF OrderOK
      <4> QED
        BY <4>1, <4>2
    <3>5. Range(order) \subseteq Slots
      BY <3>1 DEF OrderOK, Range
    <3>6. IsInjective(retryList)
      BY <3>1 DEF ListOK, IsInjective
    <3>7. Range(retryList) \subseteq Range(order)
      <4> SUFFICES ASSUME NEW i \in DOMAIN retryList PROVE retryList[i] \in Range(order)
        BY DEF Range
      <4>1. PICK k \in 1 .. orderItr - 1 : retryList[i] = order[k]
        BY <3>1 DEF ListOK
      <4>2. k \in DOMAIN order
        BY <3>1, <3>2, <3>3 DEF ListOK
      <4> QED
        BY <4>1, <4>2 DEF Range
    <3>8. orderItr \in 1 .. Len(order) + 1 /\ retryItr \in 1 .. Len(retryList) + 1
      BY <3>1, <3>3 DEF ListOK
    <3> QED
      BY <2>2, <2>3, <2>4, <2>6, <3>1, <3>4, <3>5, <3>6, <3>7, <3>8
         DEF TypeOK, MarksOK, Replaying
  <2> QED
    BY <2>5, <2>6 DEF IInv, Replaying
<1> QED
  BY <1>1, Invariance, PTL

\* The running totals of the replay are those of the blocks that are open in
\* allocationMap, whatever the log.
THEOREM AccountedCorrect == Spec => []Accounted
<1>1. IInv => Accounted
  <2> SUFFICES ASSUME IInv PROVE Accounted
    OBVIOUS
  <2>1. HeapOK(Heap)
    BY HeapAlwaysOK
  <2>2. Live = LiveIn(Heap)
    BY DEF Live, LiveIn
  <2>3. clientSize = Cardinality(UNION {BytesAt(a, SizeAt(Heap, a)) : a \in Live})
    BY <2>1, <2>2 DEF HeapOK, SizeOK, BytesIn, Heap
  <2>4. ASSUME NEW p
        PROVE  LET n == Cardinality({a \in Live : p \in PagesOf(a, SizeAt(Heap, a))})
               IN  IF n = 0 THEN p \notin DOMAIN vmPagesImplicit
                   ELSE p \in DOMAIN vmPagesImplicit /\ vmPagesImplicit[p] = n
    <3>1. {a \in Live : p \in PagesOf(a, SizeAt(Heap, a))} = OnPage(Heap, p)
      BY <2>2 DEF OnPage
    <3>2. Heap.pages = vmPagesImplicit
      BY DEF Heap
    <3>3. p \in DOMAIN vmPagesImplicit <=> OnPage(Heap, p) # {}
      BY <2>1, <3>2 DEF HeapOK, PagesOK, OnPage
    <3>4. p \in DOMAIN vmPagesImplicit => vmPagesImplicit[p] = Cardinality(OnPage(Heap, p))
      BY <2>1, <3>2 DEF HeapOK, PagesOK
    <3>5. Cardinality(OnPage(Heap, p)) = 0 <=> OnPage(Heap, p) = {}
      BY OnPageFacts
    <3> QED
      BY <3>1, <3>3, <3>4, <3>5
  <2> QED
    BY <2>3, <2>4 DEF Accounted
<1> QED
  BY <1>1, Invariance, PTL

\* No ratio that is reported is above 1, for any log and any page size.
THEOREM AtMostCompactCorrect == Spec => []AtMostCompact
<1>1. IInv => AtMostCompact
  BY DEF IInv, ReplayInv, MarksOK, AtMostCompact, Untouched, Replaying
<1> QED
  BY <1>1, Invariance, PTL

\* The list of ratios is not empty when build is done, if the program was
\* ever given a block.
THEOREM RatioReportedCorrect == Spec => []RatioReported
<1>1. IInv => RatioReported
  <2> SUFFICES ASSUME IInv, phase = "done", \E s \in Slots : Allocs(log[s])
               PROVE  compactness # {}
    BY DEF RatioReported
  <2>1. OrderOK /\ RatioInv /\ LogOK /\ MallocLogged /\ orderItr = Cardinality(Slots) + 1
    BY DEF IInv, ReplayInv, LoggedInv, Replaying
  <2>2. Cardinality(Slots) \in Nat
    BY <2>1, FS_CardinalityType DEF LogOK
  <2>3. Taken = DOMAIN order
    BY <2>1, <2>2 DEF Taken, OrderOK
  <2>4. PICK s \in Slots : log[s].mode = "malloc" /\ log[s].result # 0
    BY <2>1 DEF MallocLogged
  <2>5. PICK k \in DOMAIN order : order[k] = s
    BY <2>1 DEF OrderOK
  <2> QED
    BY <2>1, <2>3, <2>4, <2>5 DEF RatioInv
<1> QED
  BY <1>1, Invariance, PTL
=============================================================================
