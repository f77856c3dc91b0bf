------------------------- MODULE TestRunAlone_proofs -------------------------
(***************************************************************************)
(* Theorems about TestRun for a command that the shell becomes: IInv is    *)
(* inductive. First what a claim, a growth of the file and a call do to    *)
(* the slots of a process and to its file, then the two counts the size of *)
(* the log rests on, then the steps.                                       *)
(***************************************************************************)
EXTENDS TestRunAlone, TestRun_proofs

(***************************************************************************)
(* Calls and files.                                                        *)
(***************************************************************************)

LEMMA MadeIs ==
  ASSUME NEW k, NEW r, NEW c
  PROVE  c \in MadeBy(k, r) <=>
           \E t \in Threads : \E n \in 1 .. r.n[t] : c = Call(k, MainPid, r.prog, t, n)
BY DEF MadeBy

LEMMA CallIs ==
  ASSUME NEW k, NEW prog, NEW t, NEW n, NEW c, c = Call(k, MainPid, prog, t, n)
  PROVE  c.by = t /\ c.n = n
BY DEF Call

LEMMA SameMade ==
  ASSUME NEW k, NEW r, NEW q, q.n = r.n, q.prog = r.prog
  PROVE  MadeBy(k, q) = MadeBy(k, r)
BY DEF MadeBy

\* One more call of a thread.
NextCall(k, r, t, c) == c = Call(k, MainPid, r.prog, t, r.n[t] + 1)
CallMore(k, r, a, t, c) ==
  a.n = [r.n EXCEPT ![t] = @ + 1] /\ a.prog = r.prog /\ NextCall(k, r, t, c)

LEMMA MadeAdds ==
  ASSUME NEW k, NEW r, NEW a, NEW t \in Threads, r.n \in [Threads -> Nat],
         NEW c, CallMore(k, r, a, t, c)
  PROVE  MadeBy(k, a) = MadeBy(k, r) \union {c} /\ c \notin MadeBy(k, r)
<1>0. /\ a.n = [r.n EXCEPT ![t] = @ + 1] /\ a.prog = r.prog
      /\ c = Call(k, MainPid, r.prog, t, r.n[t] + 1)
  BY DEF CallMore, NextCall
<1>1. r.n[t] \in Nat /\ a.n[t] = r.n[t] + 1 /\ \A u \in Threads : u # t => a.n[u] = r.n[u]
  BY <1>0
<1>2. c \notin MadeBy(k, r)
  <2> SUFFICES ASSUME c \in MadeBy(k, r) PROVE FALSE
    OBVIOUS
  <2>1. PICK u \in Threads : \E n \in 1 .. r.n[u] : c = Call(k, MainPid, r.prog, u, n)
    BY MadeIs
  <2>2. PICK n \in 1 .. r.n[u] : c = Call(k, MainPid, r.prog, u, n)
    BY <2>1
  <2>3. c.by = u /\ c.n = n
    BY <2>2, CallIs
  <2>4. c.by = t /\ c.n = r.n[t] + 1
    BY <1>0, CallIs
  <2> QED
    BY <1>1, <2>3, <2>4
<1>3. ASSUME NEW d PROVE d \in MadeBy(k, a) <=> d \in MadeBy(k, r) \/ d = c
  <2>1. ASSUME d \in MadeBy(k, a) PROVE d \in MadeBy(k, r) \/ d = c
    <3>1. PICK u \in Threads : \E n \in 1 .. a.n[u] : d = Call(k, MainPid, r.prog, u, n)
      BY <1>0, <2>1, MadeIs
    <3>2. PICK n \in 1 .. a.n[u] : d = Call(k, MainPid, r.prog, u, n)
      BY <3>1
    <3>3. CASE n \in 1 .. r.n[u]
      BY <3>2, <3>3, MadeIs
    <3>4. CASE n \notin 1 .. r.n[u]
      <4>1. u = t /\ n = r.n[t] + 1
        BY <1>1, <3>4
      <4> QED
        BY <1>0, <3>2, <4>1
    <3> QED
      BY <3>3, <3>4
  <2>2. ASSUME d \in MadeBy(k, r) PROVE d \in MadeBy(k, a)
    <3>1. PICK u \in Threads : \E n \in 1 .. r.n[u] : d = Call(k, MainPid, r.prog, u, n)
      BY <2>2, MadeIs
    <3>2. \A n \in 1 .. r.n[u] : n \in 1 .. a.n[u]
      BY <1>1
    <3> QED
      BY <1>0, <3>1, <3>2, MadeIs
  <2>3. c \in MadeBy(k, a)
    <3>1. r.n[t] + 1 \in 1 .. a.n[t]
      BY <1>1
    <3> QED
      BY <1>0, <3>1, MadeIs
  <2> QED
    BY <2>1, <2>2, <2>3
<1> QED
  BY <1>2, <1>3

\* g is the file f after it has grown.
Longer(f, g) ==
  /\ f.len \in Nat /\ g.len \in Nat /\ f.len <= g.len
  /\ \A s \in 0 .. g.len - 1 : g.at[s] = IF s < f.len THEN f.at[s] ELSE EmptySlot

\* g is the file f with the slot s replaced.
Replaced(f, g, s, new) ==
  /\ f.len \in Nat /\ g.len = f.len /\ s \in 0 .. f.len - 1
  /\ \A i \in 0 .. f.len - 1 : g.at[i] = IF i = s THEN new ELSE f.at[i]

\* What is known of a process that has a MODE.
ProcTyped(r) ==
  /\ r.size \in Nat /\ r.next \in Nat /\ r.resize \in Nat
  /\ r.at \in [Threads -> Nat \union {NULL}]
  /\ r.left \in [Threads -> Nat] /\ r.n \in [Threads -> Nat]

\* q is the process r after thread t has claimed a block.
HasClaimed(r, q, t) ==
  /\ q.next = r.next + r.opt.block /\ q.size = r.size /\ q.resize = r.resize
  /\ q.n = r.n /\ q.prog = r.prog /\ q.opt = r.opt
  /\ \A u \in Threads : /\ q.at[u] = IF u = t THEN r.next ELSE r.at[u]
                        /\ q.left[u] = IF u = t THEN r.opt.block + 1 ELSE r.left[u]

\* q is the process r with other sizes.
HasSizes(r, q, size, resize) ==
  /\ q.size = size /\ q.resize = resize /\ q.next = r.next /\ q.at = r.at
  /\ q.left = r.left /\ q.n = r.n /\ q.prog = r.prog /\ q.opt = r.opt

(***************************************************************************)
(* The first run: claims, growth and counts.                               *)
(***************************************************************************)

LEMMA MadeByThread ==
  ASSUME NEW k, NEW r, ProcTyped(r), NEW c \in MadeBy(k, r)
  PROVE  c.by \in Threads /\ r.n[c.by] > 0
<1>1. PICK u \in Threads : \E n \in 1 .. r.n[u] : c = Call(k, MainPid, r.prog, u, n)
  BY MadeIs
<1>2. PICK n \in 1 .. r.n[u] : c = Call(k, MainPid, r.prog, u, n)
  BY <1>1
<1>3. c.by = u
  BY <1>2, CallIs
<1>4. r.n[u] \in Nat
  BY DEF ProcTyped
<1> QED
  BY <1>2, <1>3, <1>4

\* A thread that has counted a call has a slot in the file.
LEMMA CountedSlot ==
  ASSUME NEW r, ProcTyped(r), CountSlots(r), NEW t \in Threads, r.n[t] > 0
  PROVE  /\ r.at[t] \in Nat /\ r.at[t] < r.size /\ r.size <= FileSlots(r)
         /\ FileSlots(r) \in Nat /\ r.at[t] < FileSlots(r)
<1>1. r.at[t] \in Nat \union {NULL} /\ r.size \in Nat /\ r.resize \in Nat /\ r.n[t] \in Nat
  BY DEF ProcTyped
<1>2. r.at[t] # NULL /\ r.at[t] < r.size
  BY <1>1 DEF CountSlots
<1>3. r.resize # 0 => r.resize > r.size
  BY DEF CountSlots
<1> QED
  BY <1>1, <1>2, <1>3 DEF FileSlots

LEMMA CountClaim ==
  ASSUME NEW r, NEW q, NEW f, NEW t \in Threads, ProcTyped(r), r.at[t] = NULL,
         r.opt.block = 1, CountSlots(r), CountFile(f, r), HasClaimed(r, q, t)
  PROVE  CountSlots(q) /\ CountFile(f, q)
<1>1. /\ r.next \in Nat /\ r.at \in [Threads -> Nat \union {NULL}] /\ r.n \in [Threads -> Nat]
      /\ r.size \in Nat /\ r.resize \in Nat
  BY DEF ProcTyped
<1>2. /\ q.at[t] = r.next /\ r.next # NULL /\ \A u \in Threads : u # t => q.at[u] = r.at[u]
      /\ q.next = r.next + 1 /\ q.size = r.size /\ q.resize = r.resize /\ q.n = r.n
      /\ q.prog = r.prog
  BY <1>1 DEF NULL, HasClaimed
<1>3. r.n[t] = 0
  BY <1>1 DEF CountSlots
<1>4. Claiming(q, t) /\ \A u \in Threads : u # t => (Claiming(q, u) <=> Claiming(r, u))
  BY DEF HasClaimed, Claiming
<1>5. CountSlots(q)
  <2>1. \A u \in Threads : r.at[u] # NULL =>
          /\ r.at[u] < r.next /\ r.at[u] \in Nat
          /\ r.at[u] < r.size \/ (Claiming(r, u) /\ r.n[u] = 0)
    BY <1>1 DEF CountSlots
  <2>2. \A u \in Threads : q.at[u] # NULL =>
          /\ q.at[u] < q.next
          /\ q.at[u] < q.size \/ (Claiming(q, u) /\ q.n[u] = 0)
    BY <1>1, <1>2, <1>3, <1>4, <2>1
  <2>3. \A u, v \in Threads : q.at[u] = q.at[v] /\ q.at[u] # NULL => u = v
    BY <1>1, <1>2, <2>1 DEF CountSlots
  <2>4. ASSUME NEW s \in 0 .. q.next - 1 PROVE \E u \in Threads : q.at[u] = s
    <3>1. CASE s = r.next
      BY <1>2, <3>1
    <3>2. CASE s # r.next
      <4>1. s \in 0 .. r.next - 1
        BY <1>1, <1>2, <3>2
      <4>2. PICK u \in Threads : r.at[u] = s
        BY <4>1 DEF CountSlots
      <4>3. u # t
        BY <4>1, <4>2 DEF NULL
      <4> QED
        BY <1>2, <4>2, <4>3
    <3> QED
      BY <3>1, <3>2
  <2>5. \A u \in Threads : q.n[u] > 0 => q.at[u] # NULL
    BY <1>2, <1>3 DEF CountSlots
  <2>6. /\ q.size > 0 /\ (q.size = 1 \/ q.size <= q.next)
        /\ q.resize # 0 => q.resize > q.size /\ q.resize <= q.next
    BY <1>1, <1>2 DEF CountSlots
  <2> QED
    BY <2>2, <2>3, <2>4, <2>5, <2>6 DEF CountSlots
<1>6. MadeBy(1, q) = MadeBy(1, r)
  BY <1>2, SameMade
<1>7. \A c \in MadeBy(1, r) : c.by # t /\ c.by \in Threads
  BY <1>3, MadeByThread
<1>8. \A s : {c \in MadeBy(1, q) : q.at[c.by] = s} = {c \in MadeBy(1, r) : r.at[c.by] = s}
  BY <1>2, <1>6, <1>7
<1>9. FileSlots(q) = FileSlots(r)
  BY <1>2 DEF FileSlots
<1> QED
  BY <1>5, <1>8, <1>9 DEF CountFile

\* ftruncate to the slot thread t has claimed, or beyond it.
LEMMA CountExtend ==
  ASSUME NEW r, NEW q, NEW f, NEW g, ProcTyped(r), CountSlots(r), CountFile(f, r),
         r.resize = 0, NEW m \in Nat, r.size < m, m <= r.next,
         HasSizes(r, q, r.size, m), Longer(f, g), g.len = m
  PROVE  CountSlots(q) /\ CountFile(g, q)
<1>1. /\ r.size \in Nat /\ q.size = r.size /\ q.resize = m /\ q.next = r.next /\ q.at = r.at
      /\ q.n = r.n /\ q.prog = r.prog /\ q.left = r.left /\ q.opt = r.opt
  BY DEF ProcTyped, HasSizes
<1>2. CountSlots(q)
  BY <1>1 DEF CountSlots, Claiming
<1>3. MadeBy(1, q) = MadeBy(1, r)
  BY <1>1, SameMade
<1>4. f.len = r.size /\ FileSlots(q) = m
  BY <1>1 DEF CountFile, FileSlots
<1>5. ASSUME NEW s \in 0 .. g.len - 1
      PROVE  /\ g.at[s].calls = {c \in MadeBy(1, q) : q.at[c.by] = s}
             /\ g.at[s].calls # {} => g.at[s].mode = "counts"
  <2>1. CASE s < f.len
    <3>1. s \in 0 .. f.len - 1 /\ g.at[s] = f.at[s]
      BY <2>1 DEF Longer
    <3> QED
      BY <1>1, <1>3, <3>1 DEF CountFile
  <2>2. CASE ~ (s < f.len)
    <3>1. g.at[s].calls = {}
      BY <2>2 DEF Longer, EmptySlot
    <3>2. \A c \in MadeBy(1, r) : r.at[c.by] < r.size
      BY MadeByThread, CountedSlot
    <3>3. \A c \in MadeBy(1, r) : r.at[c.by] # s
      BY <1>1, <1>4, <2>2, <3>2
    <3> QED
      BY <1>1, <1>3, <3>1, <3>3
  <2> QED
    BY <2>1, <2>2
<1> QED
  BY <1>2, <1>4, <1>5 DEF CountFile

LEMMA CountPublish ==
  ASSUME NEW r, NEW q, NEW f, ProcTyped(r), CountSlots(r), CountFile(f, r), r.resize # 0,
         HasSizes(r, q, r.resize, 0)
  PROVE  CountSlots(q) /\ CountFile(f, q)
<1>1. /\ r.size \in Nat /\ r.resize \in Nat /\ r.resize > r.size /\ r.resize <= r.next
      /\ q.size = r.resize /\ q.resize = 0 /\ q.next = r.next /\ q.at = r.at
      /\ q.n = r.n /\ q.prog = r.prog /\ q.left = r.left /\ q.opt = r.opt
  BY DEF ProcTyped, HasSizes, CountSlots
<1>2. \A u \in Threads : r.at[u] \in Int
  BY DEF ProcTyped, NULL
<1>3. \A u \in Threads : q.at[u] # NULL =>
        /\ q.at[u] < q.next
        /\ q.at[u] < q.size \/ (Claiming(q, u) /\ q.n[u] = 0)
  BY <1>1, <1>2 DEF CountSlots, Claiming
<1>4. CountSlots(q)
  BY <1>1, <1>3 DEF CountSlots
<1>5. FileSlots(q) = FileSlots(r) /\ MadeBy(1, q) = MadeBy(1, r)
  BY <1>1, SameMade DEF FileSlots
<1> QED
  BY <1>1, <1>4, <1>5 DEF CountFile

\* g and a are the file f and the process r after call c of thread t.
CountsOne(r, a, f, g, t, c) ==
  /\ r.at[t] # NULL /\ r.at[t] < r.size
  /\ Replaced(f, g, r.at[t], [mode |-> "counts", calls |-> f.at[r.at[t]].calls \union {c}])
  /\ MadeBy(1, a) = MadeBy(1, r) \union {c} /\ c.by = t
  /\ \A u \in Threads : /\ a.at[u] = r.at[u]
                        /\ u # t => a.n[u] = r.n[u] /\ a.left[u] = r.left[u]
  /\ a.next = r.next /\ a.size = r.size /\ a.resize = r.resize /\ a.opt = r.opt

LEMMA CountPut ==
  ASSUME NEW r, NEW a, NEW f, NEW g, NEW t \in Threads, NEW c, ProcTyped(r),
         CountSlots(r), CountFile(f, r), CountsOne(r, a, f, g, t, c)
  PROVE  CountSlots(a) /\ CountFile(g, a)
<1>0. PICK new : new = [mode |-> "counts", calls |-> f.at[r.at[t]].calls \union {c}]
  OBVIOUS
<1>3. /\ r.at[t] # NULL /\ Replaced(f, g, r.at[t], new)
      /\ MadeBy(1, a) = MadeBy(1, r) \union {c} /\ c.by = t
      /\ new.calls = f.at[r.at[t]].calls \union {c} /\ new.mode = "counts"
      /\ r.at[t] < r.size
      /\ \A u \in Threads : /\ a.at[u] = r.at[u]
                            /\ u # t => a.n[u] = r.n[u] /\ a.left[u] = r.left[u]
      /\ a.next = r.next /\ a.size = r.size /\ a.resize = r.resize /\ a.opt = r.opt
  BY <1>0 DEF CountsOne
<1>1. \A d \in MadeBy(1, a) : d.by \in Threads
  <2> SUFFICES ASSUME NEW d \in MadeBy(1, a) PROVE d.by \in Threads
    OBVIOUS
  <2>1. PICK u \in Threads : \E n \in 1 .. a.n[u] : d = Call(1, MainPid, a.prog, u, n)
    BY MadeIs
  <2>2. PICK n \in 1 .. a.n[u] : d = Call(1, MainPid, a.prog, u, n)
    BY <2>1
  <2> QED
    BY <2>2, CallIs
<1>2. \A s : {d \in MadeBy(1, a) : a.at[d.by] = s} = {d \in MadeBy(1, r) \union {c} : r.at[d.by] = s}
  BY <1>1, <1>3
<1>4. CountSlots(a)
  <2>1. \A u \in Threads : a.n[u] > 0 => a.at[u] # NULL
    BY <1>3 DEF CountSlots
  <2>2. \A u \in Threads : a.at[u] # NULL =>
          /\ a.at[u] < a.next
          /\ a.at[u] < a.size \/ (Claiming(a, u) /\ a.n[u] = 0)
    BY <1>3 DEF CountSlots, Claiming
  <2> QED
    BY <1>3, <2>1, <2>2 DEF CountSlots
<1>5. ASSUME NEW s \in 0 .. g.len - 1
      PROVE  /\ g.at[s].calls = {d \in MadeBy(1, a) : a.at[d.by] = s}
             /\ g.at[s].calls # {} => g.at[s].mode = "counts"
  <2>1. s \in 0 .. f.len - 1
    BY <1>3 DEF Replaced
  <2>2. /\ f.at[s].calls = {d \in MadeBy(1, r) : r.at[d.by] = s}
        /\ f.at[s].calls # {} => f.at[s].mode = "counts"
    BY <2>1 DEF CountFile
  <2>3. g.at[s] = IF s = r.at[t] THEN new ELSE f.at[s]
    BY <1>3, <2>1 DEF Replaced
  <2>4. CASE s = r.at[t]
    BY <1>2, <1>3, <2>2, <2>3, <2>4
  <2>5. CASE s # r.at[t]
    <3>1. {d \in MadeBy(1, r) \union {c} : r.at[d.by] = s} = {d \in MadeBy(1, r) : r.at[d.by] = s}
      BY <1>3, <2>5
    <3>2. {d \in MadeBy(1, a) : a.at[d.by] = s} = {d \in MadeBy(1, r) : r.at[d.by] = s}
      BY <1>2, <3>1
    <3>3. g.at[s] = f.at[s]
      BY <2>3, <2>5
    <3> QED
      BY <2>2, <3>2, <3>3
  <2> QED
    BY <2>4, <2>5
<1>6. g.len = FileSlots(a)
  BY <1>3 DEF Replaced, CountFile, FileSlots
<1> QED
  BY <1>4, <1>5, <1>6 DEF CountFile

(***************************************************************************)
(* The second run: claims, growth and records.                             *)
(***************************************************************************)

\* What PlaceOK says of each thread.
Placed(r) ==
  \A t \in Threads :
    /\ r.left[t] \in 1 .. CacheQty + 1
    /\ r.at[t] = NULL => r.left[t] = 1
    /\ r.at[t] # NULL => r.at[t] + r.left[t] - 1 <= r.next

LEMMA OwnIs ==
  ASSUME NEW r, ProcTyped(r), NEW t \in Threads, NEW s \in Nat
  PROVE  s \in OwnSlots(r, t) <=> r.at[t] <= s /\ s <= r.at[t] + r.left[t] - 2
<1>1. r.at[t] \in Int /\ r.left[t] \in Nat
  BY DEF ProcTyped, NULL
<1> QED
  BY <1>1 DEF OwnSlots

\* Slots a thread owns are claimed ones.
LEMMA OwnBelow ==
  ASSUME NEW r, ProcTyped(r), Placed(r), NEW t \in Threads, NEW s \in OwnSlots(r, t)
  PROVE  s \in Nat /\ s < r.next /\ r.at[t] # NULL
<1>1. r.at[t] \in Nat \union {NULL} /\ r.left[t] \in Nat /\ r.next \in Nat
  BY DEF ProcTyped
<1>2. s \in Int /\ r.at[t] <= s /\ s <= r.at[t] + r.left[t] - 2
  BY <1>1 DEF OwnSlots, NULL
<1>3. r.at[t] # NULL
  BY <1>1, <1>2 DEF Placed, NULL
<1> QED
  BY <1>1, <1>2, <1>3 DEF Placed

LEMMA BlocksAre ==
  ASSUME NEW r, NEW x
  PROVE  x \in BlocksOf(r) <=>
           \E t \in Threads : \E i \in 1 .. r.n[t] + r.left[t] - 1 : x = <<t, i>>
BY DEF BlocksOf

\* The library's fact on intervals, for one with n elements.
LEMMA IntervalCount ==
  ASSUME NEW a \in Nat, NEW n \in Nat
  PROVE  IsFiniteSet(a + 1 .. a + n) /\ Cardinality(a + 1 .. a + n) = n
<1>1. PICK lo \in Int : lo = a + 1
  OBVIOUS
<1>2. PICK hi \in Int : hi = a + n
  OBVIOUS
<1>3. IsFiniteSet(lo .. hi) /\ Cardinality(lo .. hi) = IF lo > hi THEN 0 ELSE hi - lo + 1
  BY FS_Interval
<1>4. (IF lo > hi THEN 0 ELSE hi - lo + 1) = n
  BY <1>1, <1>2
<1> QED
  BY <1>1, <1>2, <1>3, <1>4

LEMMA BlocksFinite ==
  ASSUME NEW r, ProcTyped(r)
  PROVE  IsFiniteSet(BlocksOf(r))
<1> DEFINE g == [t \in Threads |-> {t} \X (1 .. r.n[t] + r.left[t] - 1)]
<1>1. ASSUME NEW t \in Threads PROVE IsFiniteSet(g[t])
  <2>1. PICK hi \in Int : hi = r.n[t] + r.left[t] - 1
    BY DEF ProcTyped
  <2>2. IsFiniteSet({t}) /\ IsFiniteSet(1 .. hi)
    <3>1. 1 \in Int
      OBVIOUS
    <3>2. IsFiniteSet(1 .. hi)
      BY <3>1, FS_Interval
    <3> QED
      BY <3>2, FS_Singleton
  <2>3. IsFiniteSet({t} \X (1 .. hi))
    BY <2>2, FS_Product
  <2> QED
    BY <2>1, <2>3
<1>2. BlocksOf(r) = UNION {g[t] : t \in Threads}
  BY DEF BlocksOf
<1> HIDE DEF g
<1> QED
  BY <1>1, <1>2, FiniteFamily, TestRunAssumption

\* A block more is as many slots more.
LEMMA BlocksAdd ==
  ASSUME NEW r, NEW m, NEW t \in Threads, ProcTyped(r), r.left[t] = 1,
         \A u \in Threads :
           m.n[u] = r.n[u] /\ m.left[u] = IF u = t THEN CacheQty + 1 ELSE r.left[u]
  PROVE  Cardinality(BlocksOf(m)) = Cardinality(BlocksOf(r)) + CacheQty
<1> DEFINE I == r.n[t] + 1 .. r.n[t] + CacheQty
           B == {t} \X I
<1>1. /\ r.n \in [Threads -> Nat] /\ r.left \in [Threads -> Nat]
      /\ CacheQty \in Nat /\ r.n[t] \in Nat
  BY TestRunAssumption DEF ProcTyped
<1>2. IsFiniteSet(I) /\ Cardinality(I) = CacheQty
  BY <1>1, IntervalCount
<1>3. \A i \in 1 .. r.n[t] + CacheQty : i \in 1 .. r.n[t] \/ i \in I
  BY <1>1
<1>4. I \subseteq 1 .. r.n[t] + CacheQty /\ 1 .. r.n[t] \subseteq 1 .. r.n[t] + CacheQty
  BY <1>1
<1>5. \A i \in I : i \notin 1 .. r.n[t]
  BY <1>1
<1> HIDE DEF I
<1>6. \A x : x \in B <=> \E i \in I : x = <<t, i>>
  OBVIOUS
<1>7. IsFiniteSet(B) /\ Cardinality(B) = CacheQty
  <2>1. IsFiniteSet({t}) /\ Cardinality({t}) = 1
    BY FS_Singleton
  <2>2. IsFiniteSet({t} \X I) /\ Cardinality({t} \X I) = 1 * CacheQty
    BY <1>2, <2>1, FS_Product
  <2> QED
    BY <1>1, <2>2
<1>8. r.n[t] + r.left[t] - 1 = r.n[t] /\ m.n[t] + m.left[t] - 1 = r.n[t] + CacheQty
  BY <1>1
<1>9. \A u \in Threads : u # t => m.n[u] = r.n[u] /\ m.left[u] = r.left[u]
  BY <1>1
<1> HIDE DEF B
<1>10. BlocksOf(m) = BlocksOf(r) \union B
  <2>1. ASSUME NEW x \in BlocksOf(m) PROVE x \in BlocksOf(r) \union B
    <3>1. PICK u \in Threads : \E i \in 1 .. m.n[u] + m.left[u] - 1 : x = <<u, i>>
      BY BlocksAre
    <3>2. PICK i \in 1 .. m.n[u] + m.left[u] - 1 : x = <<u, i>>
      BY <3>1
    <3>3. CASE u = t
      BY <1>3, <1>8, <1>6, <3>2, <3>3, BlocksAre
    <3>4. CASE u # t
      <4>1. i \in 1 .. r.n[u] + r.left[u] - 1
        BY <1>9, <3>2, <3>4
      <4> QED
        BY <3>2, <4>1, BlocksAre
    <3> QED
      BY <3>3, <3>4
  <2>2. ASSUME NEW x \in BlocksOf(r) PROVE x \in BlocksOf(m)
    <3>1. PICK u \in Threads : \E i \in 1 .. r.n[u] + r.left[u] - 1 : x = <<u, i>>
      BY BlocksAre
    <3>2. PICK i \in 1 .. r.n[u] + r.left[u] - 1 : x = <<u, i>>
      BY <3>1
    <3>3. i \in 1 .. m.n[u] + m.left[u] - 1
      BY <1>4, <1>8, <1>9, <3>2
    <3> QED
      BY <3>2, <3>3, BlocksAre
  <2>3. ASSUME NEW x \in B PROVE x \in BlocksOf(m)
    <3>1. PICK i \in I : x = <<t, i>>
      BY <1>6
    <3>2. i \in 1 .. m.n[t] + m.left[t] - 1
      BY <1>4, <1>8, <3>1
    <3> QED
      BY <3>1, <3>2, BlocksAre
  <2> QED
    BY <2>1, <2>2, <2>3
<1>11. BlocksOf(r) \intersect B = {}
  <2> SUFFICES ASSUME NEW x \in BlocksOf(r), x \in B PROVE FALSE
    OBVIOUS
  <2>1. PICK i \in I : x = <<t, i>>
    BY <1>6
  <2>2. PICK u \in Threads : \E j \in 1 .. r.n[u] + r.left[u] - 1 : x = <<u, j>>
    BY BlocksAre
  <2>3. PICK j \in 1 .. r.n[u] + r.left[u] - 1 : x = <<u, j>>
    BY <2>2
  <2>4. u = t /\ i = j
    BY <2>1, <2>3
  <2> QED
    BY <1>5, <1>8, <2>1, <2>3, <2>4
<1>12. IsFiniteSet(BlocksOf(r)) /\ Cardinality(BlocksOf(r)) \in Nat
  BY BlocksFinite, FS_CardinalityType
<1>13. Cardinality(BlocksOf(r) \union B)
         = Cardinality(BlocksOf(r)) + Cardinality(B) - Cardinality(BlocksOf(r) \intersect B)
  BY <1>7, <1>12, FS_Union
<1>14. Cardinality(BlocksOf(r) \intersect B) = 0
  BY <1>11, FS_EmptySet
<1> QED
  BY <1>1, <1>7, <1>10, <1>12, <1>13, <1>14

LEMMA LogClaim ==
  ASSUME NEW r, NEW m, NEW f, NEW t \in Threads, ProcTyped(r), Placed(r),
         r.left[t] = 1, r.opt.block = CacheQty, LogSlots(r), LogFile(f, r), HasClaimed(r, m, t)
  PROVE  LogSlots(m) /\ LogFile(f, m)
<1>1. /\ r.next \in Nat /\ r.size \in Nat /\ CacheQty \in Nat /\ CacheQty >= 1
      /\ \A u \in Threads : r.at[u] \in Nat \union {NULL} /\ r.left[u] \in Nat
  BY TestRunAssumption DEF ProcTyped
<1>10. /\ m.next = r.next + CacheQty /\ m.size = r.size /\ m.resize = r.resize
       /\ m.n = r.n /\ m.opt = r.opt /\ MadeBy(2, m) = MadeBy(2, r)
       /\ \A u \in Threads : /\ m.n[u] = r.n[u]
                             /\ m.left[u] = IF u = t THEN CacheQty + 1 ELSE r.left[u]
                             /\ m.at[u] = IF u = t THEN r.next ELSE r.at[u]
  BY SameMade DEF HasClaimed
<1>2. \A u \in Threads \ {t} : OwnSlots(m, u) = OwnSlots(r, u)
  BY <1>10 DEF OwnSlots
<1>3. ASSUME NEW s \in OwnSlots(m, t) PROVE s \in Nat /\ r.next <= s /\ s < m.next
  <2>1. OwnSlots(m, t) = r.next .. r.next + (CacheQty + 1) - 2
    BY <1>10 DEF OwnSlots
  <2> QED
    BY <1>1, <1>10, <2>1
<1>4. OwnSlots(r, t) = {}
  <2> SUFFICES ASSUME NEW s \in OwnSlots(r, t) PROVE FALSE
    OBVIOUS
  <2>1. s \in Nat /\ r.at[t] <= s /\ s <= r.at[t] + r.left[t] - 2
    BY OwnBelow, OwnIs
  <2> QED
    BY <1>1, <2>1 DEF NULL
<1>5. LogSlots(m)
  <2>1. ASSUME NEW u \in Threads, NEW v \in Threads, u # v
        PROVE  OwnSlots(m, u) \intersect OwnSlots(m, v) = {}
    <3>1. CASE u # t /\ v # t
      BY <1>2, <2>1, <3>1 DEF LogSlots
    <3>2. ASSUME NEW w \in Threads \ {t} PROVE OwnSlots(m, t) \intersect OwnSlots(m, w) = {}
      <4> SUFFICES ASSUME NEW s \in OwnSlots(m, t), s \in OwnSlots(m, w) PROVE FALSE
        OBVIOUS
      <4>1. s \in Nat /\ r.next <= s
        BY <1>3
      <4>2. s \in OwnSlots(r, w)
        BY <1>2
      <4>3. s < r.next
        BY <4>2, OwnBelow
      <4> QED
        BY <1>1, <4>1, <4>3
    <3> QED
      BY <2>1, <3>1, <3>2
  <2>2. m.next = Cardinality(BlocksOf(m))
    BY <1>10, BlocksAdd DEF LogSlots
  <2>3. ASSUME NEW u \in Threads
        PROVE  /\ m.at[u] = NULL => m.n[u] = 0
               /\ m.n[u] = 0 => m.left[u] \in {1, CacheQty + 1}
    BY <1>1, <1>10 DEF LogSlots, NULL
  <2>4. ASSUME NEW u \in Threads
        PROVE  m.left[u] = 1 \/ Claiming(m, u) \/ m.at[u] + m.left[u] - 1 <= m.size
    BY <1>10 DEF LogSlots, Claiming
  <2>5. m.resize # 0 => m.resize > m.size
    BY <1>10 DEF LogSlots
  <2> QED
    BY <2>1, <2>2, <2>3, <2>4, <2>5 DEF LogSlots
<1>6. ASSUME NEW s \in 0 .. f.len - 1, m.next <= s \/ (\E u \in Threads : s \in OwnSlots(m, u))
      PROVE  r.next <= s \/ (\E u \in Threads : s \in OwnSlots(r, u))
  <2>1. CASE m.next <= s
    BY <1>1, <1>10, <2>1
  <2>2. CASE \E u \in Threads : s \in OwnSlots(m, u)
    BY <1>2, <1>3, <2>2
  <2> QED
    BY <1>6, <2>1, <2>2
<1>7. FileSlots(m) = FileSlots(r)
  BY <1>10 DEF FileSlots
<1>8. LogFile(f, m)
  BY <1>6, <1>7, <1>10 DEF LogFile
<1> QED
  BY <1>5, <1>8

\* What changes with the sizes alone, in a file g that is f or longer.
LEMMA LogGrows ==
  ASSUME NEW r, NEW q, NEW f, NEW g, ProcTyped(r), LogFile(f, r), NEW size, NEW resize,
         HasSizes(r, q, size, resize), Longer(f, g), g.len = FileSlots(q)
  PROVE  LogFile(g, q)
<1>1. MadeBy(2, q) = MadeBy(2, r) /\ q.next = r.next
  BY SameMade DEF HasSizes
<1>2. \A u : OwnSlots(q, u) = OwnSlots(r, u)
  BY DEF OwnSlots, HasSizes
<1>3. ASSUME NEW s \in 0 .. g.len - 1
      PROVE  /\ s < f.len => s \in 0 .. f.len - 1 /\ g.at[s] = f.at[s]
             /\ ~ (s < f.len) => g.at[s].calls = {}
  BY DEF Longer, EmptySlot
<1>4. ASSUME NEW s \in 0 .. g.len - 1
      PROVE  /\ g.at[s].calls \subseteq MadeBy(2, q)
             /\ g.at[s].calls # {} => g.at[s].mode = "alloc"
             /\ q.next <= s \/ (\E u \in Threads : s \in OwnSlots(q, u)) => g.at[s].calls = {}
  <2>1. CASE ~ (s < f.len)
    BY <1>3, <2>1
  <2>2. CASE s < f.len
    <3>1. s \in 0 .. f.len - 1 /\ g.at[s] = f.at[s]
      BY <1>3, <2>2
    <3> QED
      BY <1>1, <1>2, <3>1 DEF LogFile
  <2> QED
    BY <2>1, <2>2
<1>5. ASSUME NEW c \in MadeBy(2, q)
      PROVE  /\ \E s \in 0 .. g.len - 1 : c \in g.at[s].calls
             /\ \A i, j \in 0 .. g.len - 1 : c \in g.at[i].calls /\ c \in g.at[j].calls => i = j
  <2>1. PICK s \in 0 .. f.len - 1 : c \in f.at[s].calls
    BY <1>1 DEF LogFile
  <2>2. s \in 0 .. g.len - 1 /\ s < f.len
    BY DEF Longer
  <2>3. \E i \in 0 .. g.len - 1 : c \in g.at[i].calls
    BY <1>3, <2>1, <2>2
  <2>4. ASSUME NEW i \in 0 .. g.len - 1, c \in g.at[i].calls
        PROVE  i \in 0 .. f.len - 1 /\ c \in f.at[i].calls
    BY <1>3, <2>4
  <2>5. \A i, j \in 0 .. f.len - 1 : c \in f.at[i].calls /\ c \in f.at[j].calls => i = j
    BY <1>1 DEF LogFile
  <2> QED
    BY <2>3, <2>4, <2>5
<1> QED
  BY <1>4, <1>5 DEF LogFile

LEMMA LogResized ==
  ASSUME NEW r, NEW q, ProcTyped(r), LogSlots(r), NEW size \in Nat, NEW resize \in Nat,
         r.size <= size, resize # 0 => resize > size, HasSizes(r, q, size, resize)
  PROVE  LogSlots(q)
<1>1. /\ r.size \in Nat /\ q.size = size /\ q.resize = resize /\ q.next = r.next
      /\ q.at = r.at /\ q.n = r.n /\ q.left = r.left /\ q.opt = r.opt
  BY DEF ProcTyped, HasSizes
<1>2. \A u : OwnSlots(q, u) = OwnSlots(r, u)
  BY <1>1 DEF OwnSlots
<1>3. BlocksOf(q) = BlocksOf(r)
  BY <1>1 DEF BlocksOf
<1>4. ASSUME NEW u \in Threads
      PROVE  q.left[u] = 1 \/ Claiming(q, u) \/ q.at[u] + q.left[u] - 1 <= q.size
  <2>1. r.at[u] \in Int /\ r.left[u] \in Nat
    BY DEF ProcTyped, NULL
  <2> QED
    BY <1>1, <2>1 DEF LogSlots, Claiming
<1> QED
  BY <1>1, <1>2, <1>3, <1>4 DEF LogSlots

\* g and a are the file f and the process r after call c of thread t.
LogsOne(r, a, f, g, t, c) ==
  /\ r.left[t] >= 2 /\ r.at[t] + r.left[t] - 1 <= r.size
  /\ Replaced(f, g, r.at[t], [mode |-> "alloc", calls |-> {c}])
  /\ \A u \in Threads :
       /\ a.n[u] = IF u = t THEN r.n[t] + 1 ELSE r.n[u]
       /\ a.left[u] = IF u = t THEN r.left[t] - 1 ELSE r.left[u]
       /\ a.at[u] = IF u = t THEN r.at[t] + 1 ELSE r.at[u]
  /\ a.next = r.next /\ a.size = r.size /\ a.resize = r.resize /\ a.opt = r.opt
  /\ MadeBy(2, a) = MadeBy(2, r) \union {c} /\ c \notin MadeBy(2, r)

LEMMA LogPut ==
  ASSUME NEW r, NEW a, NEW f, NEW g, NEW t \in Threads, NEW c, ProcTyped(r), ProcTyped(a),
         Placed(r), LogSlots(r), LogFile(f, r), LogsOne(r, a, f, g, t, c)
  PROVE  LogSlots(a) /\ LogFile(g, a)
<1>0. PICK new : new = [mode |-> "alloc", calls |-> {c}]
  OBVIOUS
<1>15. /\ r.left[t] >= 2 /\ Replaced(f, g, r.at[t], new) /\ new.calls = {c} /\ new.mode = "alloc"
       /\ r.at[t] + r.left[t] - 1 <= r.size
       /\ \A u \in Threads :
            /\ a.n[u] = IF u = t THEN r.n[t] + 1 ELSE r.n[u]
            /\ a.left[u] = IF u = t THEN r.left[t] - 1 ELSE r.left[u]
            /\ a.at[u] = IF u = t THEN r.at[t] + 1 ELSE r.at[u]
       /\ a.next = r.next /\ a.size = r.size /\ a.resize = r.resize /\ a.opt = r.opt
       /\ MadeBy(2, a) = MadeBy(2, r) \union {c} /\ c \notin MadeBy(2, r)
  BY <1>0 DEF LogsOne
<1> SUFFICES
      ASSUME r.left[t] >= 2, Replaced(f, g, r.at[t], new), new.calls = {c}, new.mode = "alloc",
             r.at[t] + r.left[t] - 1 <= r.size,
             \A u \in Threads :
               /\ a.n[u] = IF u = t THEN r.n[t] + 1 ELSE r.n[u]
               /\ a.left[u] = IF u = t THEN r.left[t] - 1 ELSE r.left[u]
               /\ a.at[u] = IF u = t THEN r.at[t] + 1 ELSE r.at[u],
             a.next = r.next, a.size = r.size, a.resize = r.resize, a.opt = r.opt,
             MadeBy(2, a) = MadeBy(2, r) \union {c}, c \notin MadeBy(2, r)
      PROVE  LogSlots(a) /\ LogFile(g, a)
  BY <1>15
<1>1. /\ r.next \in Nat /\ CacheQty \in Nat
      /\ \A u \in Threads : r.at[u] \in Nat \union {NULL} /\ r.left[u] \in Nat /\ r.n[u] \in Nat
  BY TestRunAssumption DEF ProcTyped
<1>2. r.at[t] \in Nat /\ r.left[t] <= CacheQty + 1
  BY <1>1 DEF Placed, NULL
<1>3. r.at[t] \in OwnSlots(r, t)
  BY <1>1, <1>2, OwnIs
<1>4. \A u \in Threads \ {t} : OwnSlots(a, u) = OwnSlots(r, u)
  BY DEF OwnSlots
<1>5. OwnSlots(a, t) = OwnSlots(r, t) \ {r.at[t]}
  <2>1. OwnSlots(a, t) = r.at[t] + 1 .. (r.at[t] + 1) + (r.left[t] - 1) - 2
    BY DEF OwnSlots
  <2>2. OwnSlots(r, t) = r.at[t] .. r.at[t] + r.left[t] - 2
    BY DEF OwnSlots
  <2>3. PICK x \in Nat, y \in Nat : x = r.at[t] /\ y = r.left[t]
    BY <1>1, <1>2
  <2>4. x + 1 .. (x + 1) + (y - 1) - 2 = (x .. x + y - 2) \ {x}
    OBVIOUS
  <2> QED
    BY <2>1, <2>2, <2>3, <2>4
<1>6. BlocksOf(a) = BlocksOf(r)
  <2>1. \A u \in Threads : a.n[u] + a.left[u] - 1 = r.n[u] + r.left[u] - 1
    BY <1>1
  <2> QED
    BY <2>1 DEF BlocksOf
<1>7. LogSlots(a)
  <2>1. ASSUME NEW u \in Threads
        PROVE  /\ a.at[u] = NULL => a.n[u] = 0
               /\ a.n[u] = 0 => a.left[u] \in {1, CacheQty + 1}
    BY <1>1, <1>2 DEF LogSlots, NULL
  <2>2. \A u, v \in Threads : u # v => OwnSlots(a, u) \intersect OwnSlots(a, v) = {}
    <3>1. \A u \in Threads : OwnSlots(a, u) \subseteq OwnSlots(r, u)
      BY <1>4, <1>5
    <3> QED
      BY <3>1 DEF LogSlots
  <2>3. ASSUME NEW u \in Threads
        PROVE  a.left[u] = 1 \/ Claiming(a, u) \/ a.at[u] + a.left[u] - 1 <= a.size
    <3>1. CASE u = t
      BY <1>1, <1>2, <3>1
    <3>2. CASE u # t
      BY <3>2 DEF LogSlots, Claiming
    <3> QED
      BY <3>1, <3>2
  <2>4. a.resize # 0 => a.resize > a.size
    BY DEF LogSlots
  <2> QED
    BY <1>6, <2>1, <2>2, <2>3, <2>4 DEF LogSlots
<1>8. f.at[r.at[t]].calls = {}
  BY <1>3 DEF Replaced, LogFile
<1>9. \A i \in 0 .. f.len - 1 : g.at[i] = IF i = r.at[t] THEN new ELSE f.at[i]
  BY DEF Replaced
<1>10. g.len = f.len /\ g.len = FileSlots(a) /\ r.at[t] \in 0 .. f.len - 1
  BY DEF Replaced, LogFile, FileSlots
<1>11. ASSUME NEW s \in 0 .. g.len - 1
       PROVE  /\ g.at[s].calls \subseteq MadeBy(2, a)
              /\ g.at[s].calls # {} => g.at[s].mode = "alloc"
              /\ a.next <= s \/ (\E u \in Threads : s \in OwnSlots(a, u)) => g.at[s].calls = {}
  <2>1. s \in 0 .. f.len - 1
    BY <1>10
  <2>2. CASE s = r.at[t]
    <3>1. g.at[s].calls = {c} /\ g.at[s].mode = "alloc"
      BY <1>9, <2>1, <2>2
    <3>2. ~ (a.next <= s)
      <4>1. s < r.next
        BY <1>3, <2>2, OwnBelow
      <4> QED
        BY <1>1, <2>1, <4>1
    <3>3. ASSUME NEW u \in Threads, s \in OwnSlots(a, u) PROVE FALSE
      <4>1. CASE u = t
        BY <1>5, <2>2, <3>3, <4>1
      <4>2. CASE u # t
        BY <1>3, <1>4, <2>2, <3>3, <4>2 DEF LogSlots
      <4> QED
        BY <4>1, <4>2
    <3> QED
      BY <3>1, <3>2, <3>3
  <2>3. CASE s # r.at[t]
    <3>1. g.at[s] = f.at[s]
      BY <1>9, <2>1, <2>3
    <3>2. (\E u \in Threads : s \in OwnSlots(a, u)) => (\E u \in Threads : s \in OwnSlots(r, u))
      BY <1>4, <1>5
    <3>3. /\ f.at[s].calls \subseteq MadeBy(2, r)
          /\ f.at[s].calls # {} => f.at[s].mode = "alloc"
          /\ r.next <= s \/ (\E u \in Threads : s \in OwnSlots(r, u)) => f.at[s].calls = {}
      BY <2>1 DEF LogFile
    <3> QED
      BY <3>1, <3>2, <3>3
  <2> QED
    BY <2>2, <2>3
<1>12. ASSUME NEW d \in MadeBy(2, a)
       PROVE  /\ \E s \in 0 .. g.len - 1 : d \in g.at[s].calls
              /\ \A i, j \in 0 .. g.len - 1 : d \in g.at[i].calls /\ d \in g.at[j].calls => i = j
  <2>1. ASSUME NEW i \in 0 .. g.len - 1
        PROVE  g.at[i].calls = IF i = r.at[t] THEN {c} ELSE f.at[i].calls
    BY <1>9, <1>10
  <2>2. CASE d = c
    <3>1. \A i \in 0 .. f.len - 1 : c \notin f.at[i].calls
      BY DEF LogFile
    <3>2. \A i \in 0 .. g.len - 1 : d \in g.at[i].calls => i = r.at[t]
      BY <1>10, <2>1, <2>2, <3>1
    <3>3. d \in g.at[r.at[t]].calls
      BY <1>10, <2>1, <2>2
    <3> QED
      BY <1>10, <3>2, <3>3
  <2>3. CASE d # c
    <3>1. d \in MadeBy(2, r)
      BY <2>3
    <3>2. PICK s \in 0 .. f.len - 1 : d \in f.at[s].calls
      BY <3>1 DEF LogFile
    <3>3. \A i, j \in 0 .. f.len - 1 : d \in f.at[i].calls /\ d \in f.at[j].calls => i = j
      BY <3>1 DEF LogFile
    <3>4. s # r.at[t]
      BY <1>8, <3>2
    <3>5. \A i \in 0 .. g.len - 1 : d \in g.at[i].calls => d \in f.at[i].calls
      BY <2>1, <2>3
    <3>6. d \in g.at[s].calls
      BY <1>10, <2>1, <3>2, <3>4
    <3> QED
      BY <1>10, <3>2, <3>3, <3>5, <3>6
  <2> QED
    BY <2>2, <2>3
<1>13. LogFile(g, a)
  BY <1>10, <1>11, <1>12 DEF LogFile
<1> QED
  BY <1>7, <1>13

(***************************************************************************)
(* The two counts the size of the log rests on.                            *)
(***************************************************************************)

\* The library's facts on injections and bijections, spelt out.
LEMMA Injected ==
  ASSUME NEW S, NEW T, IsFiniteSet(T), NEW h \in [S -> T], \A x, y \in S : h[x] = h[y] => x = y
  PROVE  IsFiniteSet(S) /\ Cardinality(S) <= Cardinality(T)
<1>1. h \in Injection(S, T)
  BY DEF Injection, IsInjective
<1> QED
  BY <1>1, FS_Injection

LEMMA Matched ==
  ASSUME NEW S, NEW T, IsFiniteSet(S), NEW h \in [S -> T],
         \A x, y \in S : h[x] = h[y] => x = y, \A z \in T : \E x \in S : h[x] = z
  PROVE  IsFiniteSet(T) /\ Cardinality(T) = Cardinality(S)
<1>1. h \in Injection(S, T) /\ h \in Surjection(S, T)
  BY DEF Injection, IsInjective, Surjection
<1>2. ExistsBijection(S, T)
  BY <1>1 DEF ExistsBijection, Bijection
<1> QED
  BY <1>2, FS_Bijection

\* The calls of a process are finitely many.
LEMMA MadeFinite ==
  ASSUME NEW k, NEW r, ProcTyped(r)
  PROVE  IsFiniteSet(MadeBy(k, r)) /\ Cardinality(MadeBy(k, r)) \in Nat
<1> DEFINE g == [t \in Threads |-> {t} \X (1 .. r.n[t])]
           P == UNION {g[t] : t \in Threads}
           h == [c \in MadeBy(k, r) |-> <<c.by, c.n>>]
<1>1. ASSUME NEW t \in Threads PROVE IsFiniteSet(g[t])
  <2>1. PICK hi \in Int : hi = r.n[t]
    BY DEF ProcTyped
  <2>2. 1 \in Int
    OBVIOUS
  <2>3. IsFiniteSet(1 .. hi)
    BY <2>2, FS_Interval
  <2>4. IsFiniteSet({t} \X (1 .. hi))
    BY <2>3, FS_Singleton, FS_Product
  <2> QED
    BY <2>1, <2>4
<1>2. ASSUME NEW c \in MadeBy(k, r)
      PROVE  \E t \in Threads : \E n \in 1 .. r.n[t] :
               c = Call(k, MainPid, r.prog, t, n) /\ c.by = t /\ c.n = n
  <2>1. PICK t \in Threads : \E n \in 1 .. r.n[t] : c = Call(k, MainPid, r.prog, t, n)
    BY MadeIs
  <2>2. PICK n \in 1 .. r.n[t] : c = Call(k, MainPid, r.prog, t, n)
    BY <2>1
  <2>3. c.by = t /\ c.n = n
    BY <2>2, CallIs
  <2> QED
    BY <2>2, <2>3
<1>3. \A t \in Threads : \A n \in 1 .. r.n[t] : <<t, n>> \in P
  OBVIOUS
<1> HIDE DEF g
<1>4. IsFiniteSet(P)
  BY <1>1, FiniteFamily, TestRunAssumption
<1> HIDE DEF P
<1>5. h \in [MadeBy(k, r) -> P]
  BY <1>2, <1>3
<1>6. ASSUME NEW c \in MadeBy(k, r), NEW d \in MadeBy(k, r), h[c] = h[d] PROVE c = d
  <2>1. c.by = d.by /\ c.n = d.n
    BY <1>6
  <2> QED
    BY <1>2, <2>1
<1> HIDE DEF h
<1>7. IsFiniteSet(MadeBy(k, r))
  BY <1>4, <1>5, <1>6, Injected
<1> QED
  BY <1>7, FS_CardinalityType

\* mprofCountsTotal is the number of calls of the first run.
LEMMA CountTotal ==
  ASSUME NEW r, NEW f, ProcTyped(r), CountSlots(r), CountFile(f, r), FileOK(f)
  PROVE  Cardinality(Counted(f, 0 .. f.len - 1)) = Cardinality(MadeBy(1, r))
<1> DEFINE C == Counted(f, 0 .. f.len - 1)
           M == MadeBy(1, r)
           h == [p \in C |-> p[2]]
<1>1. f.len \in Nat
  BY DEF FileOK
<1>2. IsFiniteSet(C)
  BY <1>1, CountedFinite
<1>3. \A p : p \in C <=> \E s \in 0 .. f.len - 1 : \E c \in f.at[s].calls : p = <<s, c>>
  BY DEF Counted
<1> HIDE DEF C
<1>4. ASSUME NEW p \in C
      PROVE  p[2] \in M /\ p = <<r.at[p[2].by], p[2]>>
  <2>1. PICK s \in 0 .. f.len - 1 : \E c \in f.at[s].calls : p = <<s, c>>
    BY <1>3
  <2>2. PICK c \in f.at[s].calls : p = <<s, c>>
    BY <2>1
  <2>3. c \in M /\ r.at[c.by] = s
    BY DEF CountFile
  <2> QED
    BY <2>2, <2>3
<1>5. ASSUME NEW c \in M PROVE <<r.at[c.by], c>> \in C
  <2>1. PICK t \in Threads : \E n \in 1 .. r.n[t] : c = Call(1, MainPid, r.prog, t, n)
    BY MadeIs
  <2>2. PICK n \in 1 .. r.n[t] : c = Call(1, MainPid, r.prog, t, n)
    BY <2>1
  <2>3. c.by = t
    BY <2>2, CallIs
  <2>4. r.n[t] > 0
    BY <2>2 DEF ProcTyped
  <2>5. r.at[t] \in Nat /\ r.at[t] < FileSlots(r)
    BY <2>4, CountedSlot
  <2>6. r.at[t] \in 0 .. f.len - 1
    BY <1>1, <2>5 DEF CountFile
  <2>7. c \in f.at[r.at[t]].calls
    BY <2>3, <2>6 DEF CountFile
  <2> QED
    BY <1>3, <2>3, <2>6, <2>7
<1> HIDE DEF M
<1>6. h \in [C -> M]
  BY <1>4
<1>7. \A p, q \in C : h[p] = h[q] => p = q
  BY <1>4
<1>8. ASSUME NEW c \in M PROVE \E p \in C : h[p] = c
  <2>1. PICK p : p = <<r.at[c.by], c>>
    OBVIOUS
  <2>2. p \in C /\ p[2] = c
    BY <1>5, <2>1
  <2> QED
    BY <2>2
<1> HIDE DEF h
<1>9. Cardinality(M) = Cardinality(C)
  BY <1>2, <1>6, <1>7, <1>8, Matched
<1> QED
  BY <1>9 DEF C, M

\* A second run in which no thread begins more calls than it has made in the
\* first claims no more slots than LOG_QTY: those for calls up to the number
\* of the first run are as many as these at most, and the others are spare
\* ones, of which each thread that has counted a call leaves no more than one
\* block.
LEMMA EnoughSlots ==
  ASSUME NEW r, NEW m, ProcTyped(r), CountSlots(r), ProcTyped(m), Placed(m),
         \A t \in Threads :
           /\ m.n[t] = 0 => m.left[t] \in {1, CacheQty + 1}
           /\ m.n[t] + (IF m.left[t] = CacheQty + 1 THEN 1 ELSE 0) <= r.n[t]
  PROVE  Cardinality(BlocksOf(m)) <= Cardinality(MadeBy(1, r)) + CacheQty * FileSlots(r)
<1>0. PICK slots : slots = FileSlots(r)
  OBVIOUS
<1> DEFINE S == BlocksOf(m)
           A == {x \in S : x[2] <= r.n[x[1]]}
           B == S \ A
           M == MadeBy(1, r)
           T == (0 .. slots - 1) \X (1 .. CacheQty)
           g == [x \in A |-> Call(1, MainPid, r.prog, x[1], x[2])]
           h == [x \in B |-> <<r.at[x[1]], x[2] - r.n[x[1]]>>]
<1>11. slots \in Nat
  BY <1>0 DEF FileSlots, ProcTyped
<1>1. /\ slots \in Nat /\ CacheQty \in Nat /\ CacheQty >= 1
      /\ \A t \in Threads : /\ r.n[t] \in Nat /\ m.n[t] \in Nat /\ m.left[t] \in Nat
                            /\ r.at[t] \in Nat \union {NULL}
  BY <1>11, TestRunAssumption DEF ProcTyped
<1>2. IsFiniteSet(S) /\ Cardinality(S) \in Nat
  BY BlocksFinite, FS_CardinalityType
<1>3. ASSUME NEW x \in S
      PROVE  /\ x = <<x[1], x[2]>> /\ x[1] \in Threads
             /\ x[2] \in 1 .. m.n[x[1]] + m.left[x[1]] - 1
  <2>1. PICK t \in Threads : \E i \in 1 .. m.n[t] + m.left[t] - 1 : x = <<t, i>>
    BY BlocksAre
  <2>2. PICK i \in 1 .. m.n[t] + m.left[t] - 1 : x = <<t, i>>
    BY <2>1
  <2> QED
    BY <2>2
<1> HIDE DEF S
<1>4. Cardinality(A) <= Cardinality(M) /\ IsFiniteSet(A)
  <2>1. ASSUME NEW x \in A PROVE Call(1, MainPid, r.prog, x[1], x[2]) \in M
    <3>1. x[1] \in Threads /\ x[2] \in 1 .. r.n[x[1]]
      BY <1>1, <1>3
    <3> QED
      BY <3>1, MadeIs
  <2>2. IsFiniteSet(M)
    BY MadeFinite
  <2> HIDE DEF M
  <2>3. g \in [A -> M]
    BY <2>1
  <2>4. ASSUME NEW x \in A, NEW y \in A, g[x] = g[y] PROVE x = y
    <3>1. PICK c : c = Call(1, MainPid, r.prog, x[1], x[2])
      OBVIOUS
    <3>2. c = Call(1, MainPid, r.prog, y[1], y[2])
      BY <2>4, <3>1
    <3>3. x[1] = y[1] /\ x[2] = y[2]
      BY <3>1, <3>2, CallIs
    <3> QED
      BY <1>3, <3>3
  <2> HIDE DEF g, A
  <2> QED
    BY <2>2, <2>3, <2>4, Injected
<1>5. IsFiniteSet(T) /\ Cardinality(T) = slots * CacheQty
  <2>1. PICK n \in Nat, q \in Nat : n = slots /\ q = CacheQty
    BY <1>1
  <2>2. IsFiniteSet(0 .. n - 1) /\ Cardinality(0 .. n - 1) = n
    <3>1. 0 \in Int /\ n - 1 \in Int /\ (IF 0 > n - 1 THEN 0 ELSE (n - 1) - 0 + 1) = n
      OBVIOUS
    <3> QED
      BY <3>1, FS_Interval
  <2>3. IsFiniteSet(1 .. q) /\ Cardinality(1 .. q) = q
    <3>1. 1 \in Int /\ q \in Int /\ (IF 1 > q THEN 0 ELSE q - 1 + 1) = q
      OBVIOUS
    <3> QED
      BY <3>1, FS_Interval
  <2>4. PICK U, V : U = 0 .. n - 1 /\ V = 1 .. q
    OBVIOUS
  <2>5. IsFiniteSet(U) /\ Cardinality(U) = n /\ IsFiniteSet(V) /\ Cardinality(V) = q
    BY <2>2, <2>3, <2>4
  <2>6. IsFiniteSet(U \X V) /\ Cardinality(U \X V) = Cardinality(U) * Cardinality(V)
    BY <2>5, FS_Product
  <2>7. IsFiniteSet(U \X V) /\ Cardinality(U \X V) = n * q
    BY <2>5, <2>6
  <2> QED
    BY <2>1, <2>4, <2>7
<1>6. Cardinality(B) <= Cardinality(T) /\ IsFiniteSet(B)
  <2>1. ASSUME NEW x \in B
        PROVE  /\ x[1] \in Threads /\ r.at[x[1]] \in 0 .. slots - 1
               /\ x[2] - r.n[x[1]] \in 1 .. CacheQty /\ x[2] \in Nat
    <3>1. PICK t \in Threads : t = x[1]
      BY <1>3
    <3>2. PICK i \in 1 .. m.n[t] + m.left[t] - 1 : i = x[2]
      BY <1>3, <3>1
    <3>3. i > r.n[t] /\ i \in Nat
      BY <1>1, <3>1, <3>2
    <3>4. m.left[t] <= CacheQty + 1
      BY <1>1 DEF Placed
    <3>5. r.n[t] >= 1
      BY <1>1, <3>2, <3>4
    <3>6. r.at[t] \in Nat /\ r.at[t] < slots
      <4>1. t \in Threads /\ r.n[t] > 0
        BY <1>1, <3>5
      <4> QED
        BY <1>0, <1>11, <4>1, CountedSlot
    <3>7. i - r.n[t] \in 1 .. CacheQty
      BY <1>1, <3>2, <3>3, <3>4
    <3> QED
      BY <1>1, <3>1, <3>2, <3>3, <3>6, <3>7
  <2>2. h \in [B -> T]
    BY <2>1
  <2>3. ASSUME NEW x \in B, NEW y \in B, h[x] = h[y] PROVE x = y
    <3>1. r.at[x[1]] = r.at[y[1]] /\ x[2] - r.n[x[1]] = y[2] - r.n[y[1]]
      BY <2>3
    <3>2. x[1] = y[1]
      BY <1>1, <2>1, <3>1 DEF CountSlots, NULL
    <3>3. x[2] = y[2]
      BY <1>1, <2>1, <3>1, <3>2
    <3> QED
      BY <1>3, <3>2, <3>3
  <2> HIDE DEF h, B, T
  <2> QED
    BY <1>5, <2>2, <2>3, Injected
<1>7. Cardinality(S) <= Cardinality(A) + Cardinality(B)
  <2>1. S = A \union B /\ A \intersect B = {}
    OBVIOUS
  <2> HIDE DEF A, B
  <2>2. Cardinality(A \union B) = Cardinality(A) + Cardinality(B) - Cardinality(A \intersect B)
    BY <1>4, <1>6, FS_Union
  <2>3. Cardinality(A \intersect B) = 0 /\ Cardinality(A) \in Nat /\ Cardinality(B) \in Nat
    BY <1>4, <1>6, <2>1, FS_EmptySet, FS_CardinalityType
  <2> QED
    BY <2>1, <2>2, <2>3
<1>8. Cardinality(A) \in Nat /\ Cardinality(B) \in Nat /\ Cardinality(M) \in Nat
  BY <1>4, <1>6, FS_CardinalityType, MadeFinite
<1> HIDE DEF A, B, M, T
<1>9. slots * CacheQty = CacheQty * slots /\ slots * CacheQty \in Nat
  BY <1>1
<1>10. Cardinality(S) <= Cardinality(M) + CacheQty * slots
  BY <1>2, <1>4, <1>5, <1>6, <1>7, <1>8, <1>9
<1> QED
  BY <1>0, <1>10 DEF S, M

(***************************************************************************)
(* A claim, a growth and a call, as the actions make them.                 *)
(***************************************************************************)

LEMMA TypedProc ==
  ASSUME NEW k, NEW r, r \in Processes(k)
  PROVE  ProcTyped(r)
BY DEF Processes, ProcTyped

LEMMA PlacedProc ==
  ASSUME NEW r, \A t \in Threads : PlaceOK(r, t), r.opt.block = CacheQty
  PROVE  Placed(r)
BY DEF PlaceOK, Placed

\* What is known of the process of a run that has a MODE.
Ready(k, r) == ProcOK(k, r) /\ r.life = "up" /\ r.lib = "ready"

LEMMA ReadyFacts ==
  ASSUME StageOK, Decimals, NEW k \in Runs, NEW r, Ready(k, r)
  PROVE  /\ ProcTyped(r)
         /\ k = 1 => Counting(r) /\ r.opt.block = 1 /\ r.opt.grow = 0
         /\ k = 2 => /\ ~ Counting(r) /\ r.opt.block = CacheQty /\ r.opt.grow = qty
                     /\ Placed(r)
<1>1. ProcTyped(r) /\ r.opt = ConfOf(k) /\ \A t \in Threads : PlaceOK(r, t)
  BY TypedProc DEF Ready, ProcOK
<1>2. k = 1 => Counting(r) /\ r.opt.block = 1 /\ r.opt.grow = 0
  BY <1>1, ConfFacts DEF Counting
<1>3. k = 2 => ~ Counting(r) /\ r.opt.block = CacheQty /\ r.opt.grow = qty
  <2>1. k = 2 => /\ r.opt.mode = <<"Log", "Mmap">> /\ r.opt.block = CacheQty
                 /\ r.opt.grow = qty
    BY <1>1, ConfFacts
  <2> QED
    BY <2>1 DEF Counting
<1> QED
  BY <1>1, <1>2, <1>3, PlacedProc

LEMMA ClaimFacts ==
  ASSUME StageOK, Decimals, NEW k \in Runs, NEW r, Ready(k, r), NEW t \in Threads,
         NEW m, m = Claimed(r, t)
  PROVE  Ready(k, m) /\ HasClaimed(r, m, t)
<1>1. ProcOK(k, r) /\ r.life = "up" /\ r.lib = "ready" /\ r \in Processes(k)
  BY DEF Ready, ProcOK
<1>2. /\ r.at \in [Threads -> Nat \union {NULL}] /\ r.left \in [Threads -> Nat]
      /\ r.opt.block \in Nat
  BY <1>1, PlaceFacts
<1>3. ProcOK(k, m)
  BY <1>1, ClaimOK
<1>4. /\ m.life = r.life /\ m.lib = r.lib /\ m.opt = r.opt /\ m.prog = r.prog /\ m.n = r.n
      /\ m.size = r.size /\ m.resize = r.resize /\ m.next = r.next + r.opt.block
      /\ m.at = [r.at EXCEPT ![t] = r.next]
      /\ m.left = [r.left EXCEPT ![t] = r.opt.block + 1]
  BY <1>1 DEF Claimed, Processes
<1> QED
  BY <1>1, <1>2, <1>3, <1>4 DEF Ready, HasClaimed

LEMMA SizesFacts ==
  ASSUME NEW k \in Runs, NEW r, Ready(k, r), NEW size \in Nat, NEW resize \in Nat,
         NEW q, q = [r EXCEPT !.size = size, !.resize = resize]
  PROVE  Ready(k, q) /\ HasSizes(r, q, size, resize)
<1>1. ProcOK(k, r) /\ r.life = "up" /\ r.lib = "ready" /\ r \in Processes(k)
  BY DEF Ready, ProcOK
<1>2. ProcOK(k, q)
  BY <1>1, GrowingOK
<1>3. q.life = r.life /\ q.lib = r.lib /\ HasSizes(r, q, size, resize)
  BY <1>1 DEF Processes, HasSizes
<1> QED
  BY <1>1, <1>2, <1>3 DEF Ready

LEMMA ResizedLonger ==
  ASSUME NEW f, FileOK(f), NEW n \in Nat, f.len <= n, NEW g, g = Resized(f, n)
  PROVE  Longer(f, g) /\ g.len = n
BY DEF FileOK, Longer, Resized

\* The process behind the whole call of a thread that has its slot.
Called(k, r, t, a) ==
  /\ Ready(k, a) /\ a.opt = r.opt /\ a.prog = r.prog /\ a.n = [r.n EXCEPT ![t] = @ + 1]
  /\ a.next = r.next /\ a.size = r.size /\ a.resize = r.resize
  /\ \A u \in Threads : u # t => a.left[u] = r.left[u]
  /\ Counting(r) => a.at = r.at
  /\ ~ Counting(r) =>
       \A u \in Threads : /\ a.left[u] = IF u = t THEN r.left[t] - 1 ELSE r.left[u]
                          /\ a.at[u] = IF u = t THEN r.at[t] + 1 ELSE r.at[u]

LEMMA AfterFacts ==
  ASSUME StageOK, Decimals, NEW k \in Runs, NEW r, Ready(k, r), NEW t \in Threads,
         ~ Claims(r, t), NEW a, a = After(r, t)
  PROVE  Called(k, r, t, a)
<1>1. ProcOK(k, r) /\ r.life = "up" /\ r.lib = "ready" /\ r \in Processes(k)
  BY DEF Ready, ProcOK
<1>2. /\ r.at \in [Threads -> Nat \union {NULL}] /\ r.left \in [Threads -> Nat]
      /\ r.n \in [Threads -> Nat]
  BY <1>1 DEF Processes
<1>3. ProcOK(k, a)
  BY <1>1, AfterOK
<1>4. /\ a.life = r.life /\ a.lib = r.lib /\ a.opt = r.opt /\ a.prog = r.prog
      /\ a.next = r.next /\ a.size = r.size /\ a.resize = r.resize
      /\ a.at = [r.at EXCEPT ![t] = IF Counting(r) THEN @ ELSE @ + 1]
      /\ a.left = [r.left EXCEPT ![t] = IF Counting(r) THEN r.opt.block ELSE @ - 1]
      /\ a.n = [r.n EXCEPT ![t] = @ + 1]
  BY <1>1 DEF After, Processes
<1>5. Counting(r) => a.at = r.at
  BY <1>2, <1>4
<1>6. ~ Counting(r) =>
        \A u \in Threads : /\ a.left[u] = IF u = t THEN r.left[t] - 1 ELSE r.left[u]
                           /\ a.at[u] = IF u = t THEN r.at[t] + 1 ELSE r.at[u]
  BY <1>2, <1>4
<1>7. \A u \in Threads : u # t => a.left[u] = r.left[u]
  BY <1>2, <1>4
<1> QED
  BY <1>1, <1>3, <1>4, <1>5, <1>6, <1>7 DEF Called, Ready

LEMMA PutReplaces ==
  ASSUME NEW f, FileOK(f), NEW s \in 0 .. f.len - 1, NEW new, NEW g, g = [f EXCEPT !.at[s] = new]
  PROVE  Replaced(f, g, s, new)
<1>1. /\ f.len \in Nat /\ f.at = [i \in 0 .. f.len - 1 |-> f.at[i]] /\ DOMAIN f = {"len", "at"}
  BY DEF FileOK
<1>2. g.len = f.len /\ g.at = [f.at EXCEPT ![s] = new]
  BY <1>1
<1>3. \A i \in 0 .. f.len - 1 : g.at[i] = IF i = s THEN new ELSE f.at[i]
  BY <1>1, <1>2
<1> QED
  BY <1>1, <1>2, <1>3 DEF Replaced

\* A call of the first run.
LEMMA CountCalled ==
  ASSUME StageOK, Decimals, NEW k \in Runs, k = 1, NEW r, Ready(k, r), NEW t \in Threads,
         ~ Claims(r, t), ~ Waits(r, t),
         NEW f, FileOK(f), CountSlots(r), CountFile(f, r),
         NEW a, a = After(r, t), NEW c, NextCall(k, r, t, c),
         NEW h, h = [f EXCEPT !.at[r.at[t]] = Put(r, @, c)]
  PROVE  r.at[t] \in 0 .. f.len - 1 /\ CountSlots(a) /\ CountFile(h, a)
<1>1. ProcTyped(r) /\ Counting(r) /\ r.opt.block = 1
  BY ReadyFacts
<1>2. Called(k, r, t, a)
  BY AfterFacts
<1>3. /\ a.prog = r.prog /\ a.n = [r.n EXCEPT ![t] = @ + 1] /\ a.opt = r.opt
      /\ a.next = r.next /\ a.size = r.size /\ a.at = r.at /\ a.resize = r.resize
      /\ \A u \in Threads : u # t => a.left[u] = r.left[u]
  BY <1>1, <1>2 DEF Called
<1>4. /\ r.at[t] \in Nat /\ r.size \in Nat /\ r.resize \in Nat /\ r.n \in [Threads -> Nat]
      /\ r.at[t] # NULL
  BY <1>1 DEF ProcTyped, Claims
<1>5. r.at[t] < r.size
  BY <1>1, <1>4 DEF CountSlots, Waits
<1>6. r.at[t] \in 0 .. f.len - 1
  <2>1. f.len = FileSlots(r) /\ (r.resize # 0 => r.resize > r.size)
    BY DEF CountFile, CountSlots
  <2> QED
    BY <1>4, <1>5, <2>1 DEF FileSlots
<1>7. PICK new : new = Put(r, f.at[r.at[t]], c)
  OBVIOUS
<1>8. new = [mode |-> "counts", calls |-> f.at[r.at[t]].calls \union {c}]
  BY <1>1, <1>7 DEF Put
<1>9. Replaced(f, h, r.at[t], new)
  <2>1. h = [f EXCEPT !.at[r.at[t]] = new]
    BY <1>7
  <2> QED
    BY <1>6, <2>1, PutReplaces
<1>10. MadeBy(1, a) = MadeBy(1, r) \union {c} /\ c.by = t
  <2>1. CallMore(k, r, a, t, c)
    BY <1>3 DEF CallMore
  <2>2. MadeBy(k, a) = MadeBy(k, r) \union {c}
    BY <1>4, <2>1, MadeAdds
  <2>3. c.by = t
    BY CallIs DEF NextCall
  <2> QED
    BY <2>2, <2>3
<1>11. \A u \in Threads : u # t => a.n[u] = r.n[u]
  BY <1>3, <1>4
<1>12. CountsOne(r, a, f, h, t, c)
  BY <1>3, <1>4, <1>5, <1>8, <1>9, <1>10, <1>11 DEF CountsOne
<1> QED
  BY <1>1, <1>6, <1>12, CountPut

\* A call of the second run.
LEMMA LogCalled ==
  ASSUME StageOK, Decimals, NEW k \in Runs, k = 2, NEW r, Ready(k, r), NEW t \in Threads,
         ~ Claims(r, t), ~ Waits(r, t),
         NEW f, FileOK(f), LogSlots(r), LogFile(f, r),
         NEW a, a = After(r, t), NEW c, NextCall(k, r, t, c),
         NEW h, h = [f EXCEPT !.at[r.at[t]] = Put(r, @, c)]
  PROVE  r.at[t] \in 0 .. f.len - 1 /\ LogSlots(a) /\ LogFile(h, a)
<1>1. ProcTyped(r) /\ ~ Counting(r) /\ r.opt.block = CacheQty /\ Placed(r)
  BY ReadyFacts
<1>2. Called(k, r, t, a)
  BY AfterFacts
<1>3. /\ Ready(k, a) /\ a.prog = r.prog /\ a.n = [r.n EXCEPT ![t] = @ + 1] /\ a.opt = r.opt
      /\ a.next = r.next /\ a.size = r.size /\ a.resize = r.resize
      /\ \A u \in Threads : /\ a.left[u] = IF u = t THEN r.left[t] - 1 ELSE r.left[u]
                            /\ a.at[u] = IF u = t THEN r.at[t] + 1 ELSE r.at[u]
  BY <1>1, <1>2 DEF Called
<1>4. /\ r.at[t] \in Nat \union {NULL} /\ r.size \in Nat /\ r.resize \in Nat
      /\ r.n \in [Threads -> Nat] /\ r.left[t] \in 1 .. CacheQty + 1 /\ CacheQty \in Nat
  BY <1>1, TestRunAssumption DEF ProcTyped, Placed
<1>5. r.left[t] >= 2 /\ r.at[t] \in Nat
  BY <1>1, <1>4 DEF Claims, Placed
<1>6. r.at[t] + r.left[t] - 1 <= r.size
  BY <1>1, <1>4, <1>5 DEF LogSlots, Waits, Claiming
<1>7. r.at[t] \in 0 .. f.len - 1
  <2>1. f.len = FileSlots(r) /\ (r.resize # 0 => r.resize > r.size)
    BY DEF LogFile, LogSlots
  <2> QED
    BY <1>4, <1>5, <1>6, <2>1 DEF FileSlots
<1>8. PICK new : new = Put(r, f.at[r.at[t]], c)
  OBVIOUS
<1>9. new = [mode |-> "alloc", calls |-> {c}]
  BY <1>1, <1>8 DEF Put
<1>10. Replaced(f, h, r.at[t], new)
  <2>1. h = [f EXCEPT !.at[r.at[t]] = new]
    BY <1>8
  <2> QED
    BY <1>7, <2>1, PutReplaces
<1>11. MadeBy(2, a) = MadeBy(2, r) \union {c} /\ c \notin MadeBy(2, r)
  <2>1. CallMore(k, r, a, t, c)
    BY <1>3 DEF CallMore
  <2>2. MadeBy(k, a) = MadeBy(k, r) \union {c} /\ c \notin MadeBy(k, r)
    BY <1>4, <2>1, MadeAdds
  <2> QED
    BY <2>2
<1>12. \A u \in Threads :
         /\ a.n[u] = IF u = t THEN r.n[t] + 1 ELSE r.n[u]
         /\ a.left[u] = IF u = t THEN r.left[t] - 1 ELSE r.left[u]
         /\ a.at[u] = IF u = t THEN r.at[t] + 1 ELSE r.at[u]
  BY <1>3, <1>4
<1>13. LogsOne(r, a, f, h, t, c)
  BY <1>3, <1>5, <1>6, <1>9, <1>10, <1>11, <1>12 DEF LogsOne
<1>14. ProcTyped(a)
  BY <1>3, ReadyFacts
<1> QED
  BY <1>1, <1>7, <1>13, <1>14, LogPut

(***************************************************************************)
(* The steps of a process.                                                 *)
(***************************************************************************)

\* The calls of run k are those of its one process, if that is the command.
LEMMA CallsAre ==
  ASSUME AloneInv, NEW k \in Runs
  PROVE  /\ Commands(k) = IF Main(k).prog = "cmd" THEN {MainPid} ELSE {}
         /\ CallsOf(k) = IF Main(k).prog = "cmd" THEN MadeBy(k, Main(k)) ELSE {}
<1>1. \A p \in Pids : p # MainPid => procs[k][p].prog = "none"
  BY DEF AloneInv, NoProcess
<1>2. MainPid \in Pids
  BY TestRunAssumption
<1>3. Commands(k) = IF Main(k).prog = "cmd" THEN {MainPid} ELSE {}
  BY <1>1, <1>2 DEF Commands, Main
<1>4. CASE Main(k).prog = "cmd"
  <2>1. \A c : c \in CallsOf(k) <=>
               \E t \in Threads : \E n \in 1 .. Main(k).n[t] : c = Call(k, MainPid, "cmd", t, n)
    <3>1. ASSUME NEW c
          PROVE  c \in CallsOf(k) <=> \E p \in Commands(k) : \E t \in Threads :
                                       \E n \in 1 .. procs[k][p].n[t] : c = Call(k, p, "cmd", t, n)
      <4> DEFINE From(p, t) == {Call(k, p, "cmd", t, n) : n \in 1 .. procs[k][p].n[t]}
      <4>1. CallsOf(k) = UNION {From(p, t) : p \in Commands(k), t \in Threads}
        BY DEF CallsOf
      <4>2. \A p, t : c \in From(p, t) <=>
                      \E n \in 1 .. procs[k][p].n[t] : c = Call(k, p, "cmd", t, n)
        OBVIOUS
      <4> HIDE DEF From
      <4>3. c \in CallsOf(k) <=> \E p \in Commands(k) : \E t \in Threads : c \in From(p, t)
        BY <4>1
      <4> QED
        BY <4>2, <4>3
    <3> QED
      BY <1>3, <1>4, <3>1 DEF Main
  <2>2. \A c : c \in MadeBy(k, Main(k)) <=>
               \E t \in Threads : \E n \in 1 .. Main(k).n[t] : c = Call(k, MainPid, "cmd", t, n)
    BY <1>4 DEF MadeBy
  <2> QED
    BY <1>3, <1>4, <2>1, <2>2
<1>5. CASE Main(k).prog # "cmd"
  BY <1>3, <1>5 DEF CallsOf
<1> QED
  BY <1>3, <1>4, <1>5

\* A profiled run has been one of the command with libmprof in place.
LEMMA ProfiledMain ==
  ASSUME SafeInv, Decimals, AloneInv, PlainPaths, NEW k \in Runs, Profiled(k)
  PROVE  /\ Main(k).prog = "cmd" /\ Main(k).life # "none" /\ Main(k).lib = "ready"
         /\ OneProcess(k, Main(k)) /\ ProcOK(k, Main(k)) /\ k \in started
         /\ Commands(k) = {MainPid} /\ CallsOf(k) = MadeBy(k, Main(k))
         /\ MadeBy(k, Main(k)) # {} /\ PathOf(k) \in DOMAIN files
<1>1. /\ Main(k).prog = "cmd" /\ Commands(k) = {MainPid} /\ CallsOf(k) = MadeBy(k, Main(k))
      /\ MadeBy(k, Main(k)) # {}
  BY CallsAre DEF Profiled
<1>2. MainPid \in Pids
  BY TestRunAssumption
<1>3. ProcOK(k, Main(k))
  BY <1>2 DEF SafeInv, Main
<1>4. Main(k).life # "none"
  BY <1>1, <1>3 DEF ProcOK, NoProcess
<1>5. OneProcess(k, Main(k))
  BY <1>4 DEF AloneInv, RunOK
<1>6. PICK c : c \in MadeBy(k, Main(k))
  BY <1>1
<1>7. PICK t \in Threads : \E n \in 1 .. Main(k).n[t] : c = Call(k, MainPid, Main(k).prog, t, n)
  BY <1>6, MadeIs
<1>8. Main(k).n[t] # 0
  BY <1>7
<1>9. Main(k).lib = "ready"
  <2>1. Main(k).lib \in {"absent", "fresh", "open", "ready"}
    BY <1>3 DEF ProcOK, Processes
  <2>2. job.found
    BY DEF Profiled
  <2> QED
    BY <1>5, <1>8, <2>1, <2>2 DEF OneProcess
<1>10. PathOf(k) \in DOMAIN files /\ k \in started
  <2>1. Main(k).opt = ConfOf(k) /\ Main(k).opt.path \in DOMAIN files /\ k \in started
    BY <1>3, <1>4, <1>9 DEF ProcOK
  <2>2. ConfOf(k).path = PathOf(k)
    BY ConfFacts DEF SafeInv, PlainPaths, PathOf, Runs
  <2> QED
    BY <2>1, <2>2
<1> QED
  BY <1>1, <1>3, <1>4, <1>5, <1>9, <1>10

\* A step of the one process of run k, after which it is x.
LEMMA AloneStep ==
  ASSUME SafeInv, AloneInv, NEW k \in Runs, NEW x, Become(k, MainPid, x), Living(Main(k)),
         UNCHANGED <<job, tool>>, x.life # "none",
         OneProcess(k, x), OneFile(k, x, files'[PathOf(k)])
  PROVE  AloneInv'
<1>1. /\ stage = MakingOf(k) /\ stage \in {"counting", "logging"}
      /\ stage' = stage /\ job' = job /\ options' = options /\ qty' = qty
      /\ started' = started /\ refused' = refused /\ area' = area /\ shown' = shown
  BY DEF AloneInv, RunOK, MakingOf, tool
<1>2. MainPid \in Pids
  BY TestRunAssumption
<1>3. procs' = [i \in Runs |-> [q \in Pids |-> IF i = k /\ q = MainPid THEN x ELSE procs[i][q]]]
  BY <1>2, BecomeShape DEF SafeInv
<1>4. \A i \in Runs : \A q \in Pids \ {MainPid} : procs'[i][q] = NoProcess
  BY <1>3 DEF AloneInv
<1>5. Main(k)' = x
  BY <1>2, <1>3 DEF Main
<1>6. ASSUME NEW i \in Runs, i # k
      PROVE  procs'[i] = [q \in Pids |-> procs[i][q]] /\ Main(i)' = Main(i)
  BY <1>2, <1>3, <1>6 DEF Main
<1>7. k = 1 => qty = 0 /\ 2 \notin started /\ Main(2).life = "none"
  <2> HAVE k = 1
  <2>1. stage = "counting"
    BY <1>1 DEF MakingOf
  <2>2. qty = 0
    BY <2>1 DEF AloneInv, QtyOK
  <2>3. 2 \notin started
    BY <2>1 DEF SafeInv, StageOK
  <2>4. ProcOK(2, Main(2))
    BY <1>2 DEF SafeInv, Main, Runs
  <2> QED
    BY <2>2, <2>3, <2>4 DEF ProcOK
<1>8. k = 2 => Profiled(1)' = Profiled(1) /\ Main(1)' = Main(1)
  <2> HAVE k = 2
  <2>1. 1 \in Runs /\ Main(1)' = Main(1)
    BY <1>6 DEF Runs
  <2>2. \A p \in Pids : procs'[1][p] = procs[1][p]
    <3>1. PICK i \in Runs : i = 1 /\ i # k
      BY <2>1
    <3>2. \A p \in Pids : procs'[i][p] = procs[i][p]
      BY <1>3, <3>1
    <3> QED
      BY <3>1, <3>2
  <2>3. Commands(1)' = Commands(1)
    BY <2>2 DEF Commands
  <2>4. CallsOf(1)' = CallsOf(1)
    <3>1. \A p \in Commands(1) : procs'[1][p] = procs[1][p]
      BY <2>2 DEF Commands
    <3> QED
      BY <2>3, <3>1 DEF CallsOf
  <2> QED
    BY <1>1, <2>1, <2>4 DEF Profiled
<1>9. RunOK(k)'
  <2>1. OneProcess(k, x)'
    <3>1. CASE k = 1
      BY <1>1, <3>1 DEF OneProcess
    <3>2. CASE k = 2
      BY <1>1, <1>8, <3>2 DEF OneProcess, NoMoreCalls
    <3> QED
      BY <3>1, <3>2 DEF Runs
  <2>2. PathOf(k)' = PathOf(k)
    BY <1>1 DEF PathOf
  <2>3. OneFile(k, x, files[PathOf(k)])'
    BY <2>2 DEF OneFile
  <2>4. (stage = MakingOf(k))'
    BY <1>1 DEF MakingOf
  <2> QED
    BY <1>5, <2>1, <2>3, <2>4 DEF RunOK
<1>10. ASSUME NEW i \in Runs, i # k PROVE RunOK(i)'
  <2>1. Main(i)' = Main(i)
    BY <1>6, <1>10
  <2>2. CASE k = 1
    <3>1. i = 2
      BY <1>10, <2>2 DEF Runs
    <3> QED
      BY <1>7, <2>1, <2>2, <3>1 DEF RunOK, Living
  <2>3. CASE k = 2
    <3>1. i = 1 /\ stage = "logging"
      BY <1>1, <1>10, <2>3 DEF Runs, MakingOf
    <3>2. ~ Living(Main(1)) /\ (Main(1).life # "none" => OneProcess(1, Main(1)))
      BY <3>1 DEF AloneInv, RunOK, MakingOf, Runs
    <3>3. ~ InHand(1)'
      BY <1>1, <3>1 DEF InHand
    <3>4. Main(1).life # "none" => OneProcess(1, Main(1))'
      BY <1>1, <2>1, <3>1, <3>2 DEF OneProcess
    <3> QED
      BY <2>1, <3>1, <3>2, <3>3, <3>4 DEF RunOK, Living
  <2> QED
    BY <2>2, <2>3 DEF Runs
<1>11. AreaOK' /\ TestOK'
  BY <1>1 DEF AreaOK, AloneInv, TestOK, Testing
<1>12. QtyOK'
  <2>1. CASE k = 1
    BY <1>1, <1>7, <2>1 DEF QtyOK
  <2>2. CASE k = 2
    <3>1. stage = "logging" /\ QtyOK
      BY <1>1, <2>2 DEF MakingOf, AloneInv
    <3> QED
      BY <1>1, <1>8, <2>2, <3>1 DEF QtyOK
  <2> QED
    BY <2>1, <2>2 DEF Runs
<1>13. AnalysesCommand' /\ FailsForCause'
  BY <1>1 DEF AnalysesCommand, FailsForCause
<1> QED
  BY <1>4, <1>9, <1>10, <1>11, <1>12, <1>13 DEF AloneInv

LEMMA LivingFacts ==
  ASSUME SafeInv, Decimals, AloneInv, PlainPaths, NEW k \in Runs, NEW r, r = procs[k][MainPid],
         r.life = "up"
  PROVE  /\ StageOK /\ Living(Main(k)) /\ k \in started /\ ProcOK(k, r) /\ r \in Processes(k)
         /\ OneProcess(k, r) /\ OneFile(k, r, files[PathOf(k)])
         /\ r.opt.path = PathOf(k) /\ r.opt.first = (IF k = 1 THEN 1 ELSE qty)
         /\ PathOf(k) \in DOMAIN files => FileOK(files[PathOf(k)])
         /\ r.lib = "ready" => Ready(k, r) /\ PathOf(k) \in DOMAIN files
<1>1. MainPid \in Pids /\ Main(k) = r
  BY TestRunAssumption DEF Main
<1>2. StageOK /\ ProcOK(k, r)
  BY <1>1 DEF SafeInv
<1>3. OneProcess(k, r) /\ stage = MakingOf(k) /\ Living(Main(k))
  BY <1>1 DEF AloneInv, RunOK, Living
<1>4. OneFile(k, r, files[PathOf(k)])
  BY <1>1, <1>3 DEF AloneInv, RunOK, InHand, MakingOf
<1>5. r.opt = ConfOf(k) /\ k \in started /\ r \in Processes(k)
  BY <1>2 DEF ProcOK
<1>6. r.opt.path = PathOf(k) /\ r.opt.first = (IF k = 1 THEN 1 ELSE qty)
  BY <1>2, <1>5, ConfFacts DEF PlainPaths, PathOf, Runs
<1>7. r.lib = "ready" => Ready(k, r) /\ PathOf(k) \in DOMAIN files
  BY <1>2, <1>6 DEF Ready, ProcOK
<1> QED
  BY <1>2, <1>3, <1>4, <1>5, <1>6, <1>7 DEF SafeInv

\* Only the life of the process changes.
LEMMA SameOne ==
  ASSUME NEW k \in Runs, NEW r, NEW x, x.lib = r.lib, x.size = r.size, x.next = r.next,
         x.at = r.at, x.left = r.left, x.n = r.n, x.prog = r.prog, x.opt = r.opt,
         x.resize = r.resize,
         OneProcess(k, r), NEW f, OneFile(k, r, f)
  PROVE  OneProcess(k, x) /\ OneFile(k, x, f)
<1>1. MadeBy(1, x) = MadeBy(1, r) /\ MadeBy(2, x) = MadeBy(2, r)
  BY DEF MadeBy
<1>2. BlocksOf(x) = BlocksOf(r) /\ \A t : OwnSlots(x, t) = OwnSlots(r, t)
  BY DEF BlocksOf, OwnSlots
<1>3. (CountSlots(x) <=> CountSlots(r)) /\ (LogSlots(x) <=> LogSlots(r)) /\ (NoMoreCalls(x) <=> NoMoreCalls(r))
  BY <1>2 DEF CountSlots, LogSlots, NoMoreCalls, Begun, Claiming
<1>4. (CountFile(f, x) <=> CountFile(f, r)) /\ (LogFile(f, x) <=> LogFile(f, r))
  BY <1>1, <1>2 DEF CountFile, LogFile, FileSlots
<1> QED
  BY <1>3, <1>4 DEF OneProcess, OneFile

LEMMA EndAlone ==
  ASSUME SafeInv, Decimals, AloneInv, PlainPaths, NEW k \in Runs, NEW r, r = procs[k][MainPid],
         r.life = "up", NEW how \in {"ended", "killed"},
         Become(k, MainPid, [r EXCEPT !.life = how]), UNCHANGED files, UNCHANGED <<job, tool>>
  PROVE  AloneInv'
<1>1. PICK x : x = [r EXCEPT !.life = how]
  OBVIOUS
<1>2. /\ Living(Main(k)) /\ OneProcess(k, r) /\ OneFile(k, r, files[PathOf(k)])
      /\ r \in Processes(k)
  BY LivingFacts
<1>3. /\ x.lib = r.lib /\ x.size = r.size /\ x.next = r.next /\ x.at = r.at /\ x.left = r.left
      /\ x.n = r.n /\ x.prog = r.prog /\ x.opt = r.opt /\ x.life = how /\ x.resize = r.resize
  BY <1>1, <1>2 DEF Processes
<1>4. OneProcess(k, x) /\ OneFile(k, x, files'[PathOf(k)])
  BY <1>2, <1>3, SameOne
<1>5. Become(k, MainPid, x) /\ x.life # "none"
  BY <1>1, <1>3
<1> QED
  BY <1>2, <1>4, <1>5, AloneStep

LEMMA OpenAlone ==
  ASSUME SafeInv, Decimals, AloneInv, PlainPaths, NEW k \in Runs, Open(k, MainPid),
         UNCHANGED <<job, tool>>
  PROVE  AloneInv'
<1>1. PICK r : r = procs[k][MainPid]
  OBVIOUS
<1>2. r.life = "up" /\ r.lib = "fresh"
  BY <1>1 DEF Open, Living
<1>3. /\ Living(Main(k)) /\ OneProcess(k, r) /\ r \in Processes(k) /\ r.opt.path = PathOf(k)
  BY <1>1, <1>2, LivingFacts
<1>4. CASE r.opt.mode = "dies"
  <2>1. Become(k, MainPid, [r EXCEPT !.life = "ended"]) /\ UNCHANGED files
    BY <1>1, <1>4 DEF Open
  <2> QED
    BY <1>1, <1>2, <2>1, EndAlone
<1>5. CASE r.opt.mode # "dies"
  <2>1. PICK x : x = [r EXCEPT !.lib = "open"]
    OBVIOUS
  <2>2. files' = With(PathOf(k), NoFile) /\ Become(k, MainPid, x)
    BY <1>1, <1>3, <1>5, <2>1 DEF Open, Opened
  <2>3. x.lib = "open" /\ x.n = r.n /\ x.life = "up"
    BY <1>2, <1>3, <2>1 DEF Processes
  <2>4. files'[PathOf(k)] = NoFile
    BY <2>2 DEF With
  <2>5. OneProcess(k, x)
    BY <1>2, <1>3, <2>3 DEF OneProcess
  <2>6. OneFile(k, x, files'[PathOf(k)])
    BY <2>3, <2>4 DEF OneFile
  <2> QED
    BY <1>3, <2>2, <2>3, <2>5, <2>6, AloneStep
<1> QED
  BY <1>4, <1>5

\* A process that has just mapped its file has made no call and claimed nothing.
LEMMA FreshFile ==
  ASSUME NEW x, NEW g, x.next = 0, x.resize = 0, x.n = [t \in Threads |-> 0],
         \A t \in Threads : x.at[t] = NULL /\ x.left[t] = 1,
         NEW n \in Nat, x.size = n, g = Resized(NoFile, n)
  PROVE  /\ n = 1 => CountSlots(x) /\ CountFile(g, x)
         /\ LogSlots(x) /\ LogFile(g, x)
<1>1. g.len = n /\ \A s \in 0 .. n - 1 : g.at[s] = EmptySlot
  BY DEF Resized, NoFile
<1>2. \A k : MadeBy(k, x) = {}
  BY DEF MadeBy
<1>3. BlocksOf(x) = {}
  BY DEF BlocksOf
<1>4. \A t \in Threads : OwnSlots(x, t) = {}
  BY DEF OwnSlots, NULL
<1>5. \A t \in Threads : x.n[t] = 0
  OBVIOUS
<1>6. n = 1 => CountSlots(x)
  BY <1>5 DEF CountSlots, NULL
<1>7. n = 1 => CountFile(g, x)
  BY <1>1, <1>2 DEF CountFile, EmptySlot, FileSlots
<1>8. LogSlots(x)
  <2>1. Cardinality(BlocksOf(x)) = 0
    BY <1>3, FS_EmptySet
  <2> QED
    BY <1>4, <1>5, <2>1 DEF LogSlots
<1>9. LogFile(g, x)
  BY <1>1, <1>2 DEF LogFile, EmptySlot, FileSlots
<1> QED
  BY <1>6, <1>7, <1>8, <1>9

LEMMA SizeAlone ==
  ASSUME SafeInv, Decimals, AloneInv, PlainPaths, NEW k \in Runs, Size(k, MainPid),
         UNCHANGED <<job, tool>>
  PROVE  AloneInv'
<1>1. PICK r : r = procs[k][MainPid]
  OBVIOUS
<1>2. r.life = "up" /\ r.lib = "open"
  BY <1>1 DEF Size, Living
<1>3. /\ Living(Main(k)) /\ OneProcess(k, r) /\ r \in Processes(k) /\ r.opt.path = PathOf(k)
      /\ OneFile(k, r, files[PathOf(k)]) /\ ProcOK(k, r) /\ StageOK
      /\ r.opt.first = IF k = 1 THEN 1 ELSE qty
  BY <1>1, <1>2, LivingFacts
<1>4. PICK n \in Nat : n = r.opt.first
  BY <1>3 DEF StageOK
<1>5. PICK x : x = [r EXCEPT !.lib = "ready", !.size = n,
                             !.life = IF r.opt.init THEN @ ELSE "ended"]
  OBVIOUS
<1>6. /\ files' = With(PathOf(k), Resized(files[PathOf(k)], n))
      /\ Become(k, MainPid, x)
  BY <1>1, <1>3, <1>4, <1>5 DEF Size
<1>7. files[PathOf(k)] = NoFile
  BY <1>2, <1>3 DEF OneFile
<1>8. files'[PathOf(k)] = Resized(NoFile, n)
  BY <1>6, <1>7 DEF With
<1>9. /\ x.lib = "ready" /\ x.size = n /\ x.life \in {"up", "ended"} /\ x.next = r.next
      /\ x.at = r.at /\ x.left = r.left /\ x.n = r.n /\ x.resize = r.resize
  BY <1>2, <1>3, <1>5 DEF Processes
<1>10. r.next = 0 /\ r.resize = 0 /\ \A t \in Threads : r.at[t] = NULL /\ PlaceOK(r, t)
  BY <1>2, <1>3 DEF ProcOK
<1>11. \A t \in Threads : x.at[t] = NULL /\ x.left[t] = 1
  BY <1>9, <1>10 DEF PlaceOK
<1>12. x.n = [t \in Threads |-> 0]
  <2>1. \A t \in Threads : r.n[t] = 0
    BY <1>2, <1>3 DEF OneProcess
  <2> QED
    BY <1>3, <1>9, <2>1 DEF Processes
<1>13. PICK g : g = files'[PathOf(k)]
  OBVIOUS
<1>14. /\ n = 1 => CountSlots(x) /\ CountFile(g, x)
       /\ LogSlots(x) /\ LogFile(g, x)
  BY <1>8, <1>9, <1>10, <1>11, <1>12, <1>13, FreshFile
<1>15. OneProcess(k, x)
  BY <1>3, <1>4, <1>9, <1>10, <1>14 DEF OneProcess
<1>16. OneFile(k, x, files'[PathOf(k)])
  BY <1>3, <1>4, <1>9, <1>13, <1>14 DEF OneFile, Runs
<1>17. x.life # "none"
  BY <1>9
<1> QED
  BY <1>3, <1>6, <1>15, <1>16, <1>17, AloneStep

\* LOG_QTY is enough for a second run in which no thread begins more calls
\* than it has made in the first: no thread that has claimed a block waits.
LEMMA NeverGrows ==
  ASSUME SafeInv, Decimals, AloneInv, PlainPaths, NEW k \in Runs, k = 2,
         NEW r, r = procs[k][MainPid], Ready(k, r), LogSlots(r),
         Profiled(1), NoMoreCalls(r), NEW t \in Threads
  PROVE  ~ Waits(r, t)
<1>1. StageOK /\ k \in started /\ OneProcess(k, r)
  BY LivingFacts DEF Ready
<1>2. r.lib = "ready" /\ r.size = qty
  BY <1>1 DEF OneProcess, Ready
<1>3. ProcTyped(r) /\ Placed(r) /\ r.opt.block = CacheQty
  BY <1>1, ReadyFacts
<1>4. PICK one : one = Main(1)
  OBVIOUS
<1>5. /\ OneProcess(1, one) /\ ProcOK(1, one) /\ one.lib = "ready"
      /\ qty = Cardinality(MadeBy(1, one)) + CacheQty * FileSlots(one)
  <2>1. PICK i \in Runs : i = 1
    BY DEF Runs
  <2>2. OneProcess(i, Main(i)) /\ ProcOK(i, Main(i)) /\ Main(i).lib = "ready"
    BY <2>1, ProfiledMain
  <2>3. qty = Cardinality(MadeBy(1, Main(1))) + CacheQty * FileSlots(Main(1))
    BY <1>1 DEF AloneInv, QtyOK
  <2> QED
    BY <1>4, <2>1, <2>2, <2>3
<1>6. CountSlots(one) /\ ProcTyped(one)
  BY <1>5, TypedProc DEF OneProcess, ProcOK
<1>7. \A u \in Threads : r.n[u] + (IF r.left[u] = CacheQty + 1 THEN 1 ELSE 0) <= one.n[u]
  BY <1>3, <1>4 DEF NoMoreCalls, Begun, Claiming
<1>8. \A u \in Threads : r.n[u] = 0 => r.left[u] \in {1, CacheQty + 1}
  BY DEF LogSlots
<1>9. Cardinality(BlocksOf(r)) <= Cardinality(MadeBy(1, one)) + CacheQty * FileSlots(one)
  BY <1>3, <1>6, <1>7, <1>8, EnoughSlots
<1>10. r.next <= qty
  BY <1>5, <1>9 DEF LogSlots
<1>11. /\ r.next \in Nat /\ r.at[t] \in Nat \union {NULL} /\ CacheQty \in Nat /\ CacheQty >= 1
       /\ qty \in Nat
  BY <1>1, <1>3, TestRunAssumption DEF ProcTyped, StageOK
<1> SUFFICES ASSUME Waits(r, t) PROVE FALSE
  OBVIOUS
<1>12. r.left[t] = CacheQty + 1 /\ r.at[t] + CacheQty > qty
  BY <1>2, <1>3 DEF Waits, Claiming
<1>13. r.at[t] # NULL /\ r.at[t] + r.left[t] - 1 <= r.next
  BY <1>3, <1>11, <1>12 DEF Placed
<1> QED
  BY <1>10, <1>11, <1>12, <1>13

\* The steps of a handler.
LEMMA ClaimAlone ==
  ASSUME SafeInv, Decimals, AloneInv, PlainPaths, NEW k \in Runs, NEW t \in Threads,
         Claim(k, MainPid, t), UNCHANGED <<job, tool>>
  PROVE  AloneInv'
<1>1. PICK r : r = procs[k][MainPid]
  OBVIOUS
<1>2. r.life = "up" /\ r.lib = "ready" /\ Claims(r, t) /\ UNCHANGED files
  BY <1>1 DEF Claim, Calling, Living
<1>3. /\ Living(Main(k)) /\ OneFile(k, r, files[PathOf(k)])
      /\ Ready(k, r) /\ StageOK /\ OneProcess(k, r)
  BY <1>1, <1>2, LivingFacts
<1>4. PICK m : m = Claimed(r, t)
  OBVIOUS
<1>5. Become(k, MainPid, m)
  BY <1>1, <1>4 DEF Claim
<1>6. Ready(k, m) /\ HasClaimed(r, m, t)
  BY <1>3, <1>4, ClaimFacts
<1>7. m.life = "up" /\ m.lib = "ready"
  BY <1>6 DEF Ready
<1>8. PICK f : f = files[PathOf(k)]
  OBVIOUS
<1>9. CASE k = 1
  <2>1. CountSlots(r) /\ CountFile(f, r)
    BY <1>2, <1>3, <1>8, <1>9 DEF OneProcess, OneFile
  <2>2. ProcTyped(r) /\ r.opt.block = 1 /\ r.at[t] = NULL
    BY <1>2, <1>3, <1>9, ReadyFacts DEF Claims
  <2>3. CountSlots(m) /\ CountFile(f, m)
    BY <1>6, <2>1, <2>2, CountClaim
  <2>4. OneProcess(k, m) /\ OneFile(k, m, files'[PathOf(k)])
    BY <1>2, <1>7, <1>8, <1>9, <2>3 DEF OneProcess, OneFile
  <2> QED
    BY <1>3, <1>5, <1>7, <2>4, AloneStep
<1>10. CASE k = 2
  <2>1. LogSlots(r) /\ LogFile(f, r)
    BY <1>2, <1>3, <1>8, <1>10 DEF OneProcess, OneFile
  <2>2. ProcTyped(r) /\ Placed(r) /\ r.opt.block = CacheQty /\ r.left[t] = 1
    BY <1>2, <1>3, <1>10, ReadyFacts DEF Claims
  <2>3. LogSlots(m) /\ LogFile(f, m)
    BY <1>6, <2>1, <2>2, LogClaim
  <2>4. NoMoreCalls(m) => NoMoreCalls(r)
    <3> SUFFICES ASSUME NoMoreCalls(m), NEW u \in Threads PROVE Begun(r, u) <= Main(1).n[u]
      BY DEF NoMoreCalls
    <3>1. PICK bound : bound = Main(1).n[u]
      OBVIOUS
    <3>2. Begun(m, u) <= bound
      BY <3>1 DEF NoMoreCalls
    <3>3. bound \in Nat
      <4>1. MainPid \in Pids /\ ProcOK(1, Main(1))
        BY TestRunAssumption DEF SafeInv, Main, Runs
      <4> QED
        BY <3>1, <4>1 DEF ProcOK, Processes
    <3>4. /\ m.n = r.n /\ m.opt = r.opt /\ r.n[u] \in Nat
          /\ m.left[u] = IF u = t THEN CacheQty + 1 ELSE r.left[u]
          /\ CacheQty \in Nat /\ CacheQty >= 1
      BY <1>6, <2>2, TestRunAssumption DEF HasClaimed, ProcTyped
    <3>5. CASE u # t
      BY <3>1, <3>2, <3>4, <3>5 DEF Begun, Claiming
    <3>6. CASE u = t
      <4>1. Begun(r, t) = r.n[t] /\ Begun(m, t) = r.n[t] + 1
        BY <2>2, <3>4, <3>6 DEF Begun, Claiming
      <4> QED
        BY <3>1, <3>2, <3>3, <3>4, <3>6, <4>1
    <3> QED
      BY <3>5, <3>6
  <2>5. Profiled(1) /\ NoMoreCalls(m) => m.size = qty /\ m.resize = 0
    BY <1>2, <1>3, <1>6, <1>10, <2>4 DEF OneProcess, HasClaimed
  <2>6. OneProcess(k, m) /\ OneFile(k, m, files'[PathOf(k)])
    BY <1>2, <1>7, <1>8, <1>10, <2>3, <2>5 DEF OneProcess, OneFile
  <2> QED
    BY <1>3, <1>5, <1>7, <2>6, AloneStep
<1> QED
  BY <1>9, <1>10 DEF Runs

LEMMA ExtendAlone ==
  ASSUME SafeInv, Decimals, AloneInv, PlainPaths, NEW k \in Runs, NEW t \in Threads,
         Extend(k, MainPid, t), UNCHANGED <<job, tool>>
  PROVE  AloneInv'
<1>1. PICK r : r = procs[k][MainPid]
  OBVIOUS
<1>2. r.life = "up" /\ r.lib = "ready" /\ Waits(r, t) /\ r.resize = 0
  BY <1>1 DEF Extend, Calling, Living
<1>3. /\ Living(Main(k)) /\ r.opt.path = PathOf(k) /\ OneFile(k, r, files[PathOf(k)])
      /\ Ready(k, r) /\ StageOK /\ OneProcess(k, r) /\ FileOK(files[PathOf(k)])
  BY <1>1, <1>2, LivingFacts
<1>4. /\ ProcTyped(r) /\ r.at[t] \in Nat /\ r.opt.block \in Nat /\ r.opt.grow \in Nat
      /\ r.left[t] = r.opt.block + 1 /\ r.at[t] + r.left[t] - 1 <= r.next
      /\ r.size < r.at[t] + r.opt.block
  <2>1. ProcOK(k, r) /\ Claiming(r, t) /\ r.at[t] + r.opt.block > r.size
    BY <1>2, <1>3 DEF Ready, Waits
  <2>2. /\ r.at[t] # NULL => r.at[t] \in Nat /\ r.at[t] + r.left[t] - 1 <= r.next
        /\ Claiming(r, t) => r.at[t] # NULL
        /\ r.opt.block \in Nat /\ r.opt.grow \in Nat
    BY <1>2, <1>3, <2>1, PlaceFacts
  <2>3. ProcTyped(r) /\ r.size \in Nat
    BY <1>3, ReadyFacts DEF ProcTyped
  <2> QED
    BY <2>1, <2>2, <2>3 DEF Claiming
<1>5. PICK n \in Nat : n = r.at[t] + r.opt.block + r.opt.grow
  BY <1>4
<1>6. r.size \in Nat /\ r.size < n /\ (r.opt.grow = 0 => n <= r.next)
  BY <1>4, <1>5 DEF ProcTyped
<1>7. PICK f, g, q :
        /\ f = files[PathOf(k)] /\ g = Resized(f, n)
        /\ q = [r EXCEPT !.size = r.size, !.resize = n]
  OBVIOUS
<1>8. q = [r EXCEPT !.resize = n]
  <2>1. r \in Processes(k)
    BY <1>3 DEF Ready, ProcOK
  <2> QED
    BY <1>7, <2>1 DEF Processes
<1>9. files' = With(PathOf(k), g) /\ Become(k, MainPid, q)
  BY <1>1, <1>3, <1>5, <1>7, <1>8 DEF Extend
<1>10. files'[PathOf(k)] = g
  BY <1>9 DEF With
<1>11. Ready(k, q) /\ HasSizes(r, q, r.size, n)
  BY <1>3, <1>6, <1>7, SizesFacts
<1>12. /\ q.life = "up" /\ q.lib = "ready" /\ q.size = r.size /\ q.resize = n
       /\ q.n = r.n /\ q.left = r.left /\ q.opt = r.opt
  BY <1>11 DEF Ready, HasSizes
<1>13. FileSlots(r) = r.size /\ FileSlots(q) = n
  BY <1>2, <1>6, <1>12 DEF FileSlots
<1>14. f.len = r.size => Longer(f, g) /\ g.len = n
  BY <1>3, <1>6, <1>7, ResizedLonger
<1>15. CASE k = 1
  <2>1. CountSlots(r) /\ CountFile(f, r) /\ n <= r.next
    BY <1>2, <1>3, <1>6, <1>7, <1>15, ReadyFacts DEF OneProcess, OneFile
  <2>2. Longer(f, g) /\ g.len = n
    BY <1>13, <1>14, <2>1 DEF CountFile
  <2>3. CountSlots(q) /\ CountFile(g, q)
    BY <1>2, <1>4, <1>6, <1>11, <2>1, <2>2, CountExtend
  <2>4. OneProcess(k, q) /\ OneFile(k, q, files'[PathOf(k)])
    BY <1>10, <1>12, <1>15, <2>3 DEF OneProcess, OneFile
  <2> QED
    BY <1>3, <1>9, <1>12, <2>4, AloneStep
<1>16. CASE k = 2
  <2>1. LogSlots(r) /\ LogFile(f, r)
    BY <1>2, <1>3, <1>7, <1>16 DEF OneProcess, OneFile
  <2>2. Longer(f, g) /\ g.len = n
    BY <1>13, <1>14, <2>1 DEF LogFile
  <2>3. LogFile(g, q)
    BY <1>4, <1>11, <1>13, <2>1, <2>2, LogGrows
  <2>4. LogSlots(q)
    BY <1>4, <1>6, <1>11, <2>1, LogResized
  <2>5. ~ (Profiled(1) /\ NoMoreCalls(q))
    <3>1. NoMoreCalls(q) <=> NoMoreCalls(r)
      BY <1>12 DEF NoMoreCalls, Begun, Claiming
    <3> QED
      BY <1>1, <1>2, <1>3, <1>16, <2>1, <3>1, NeverGrows
  <2>6. OneProcess(k, q) /\ OneFile(k, q, files'[PathOf(k)])
    BY <1>10, <1>12, <1>16, <2>3, <2>4, <2>5 DEF OneProcess, OneFile
  <2> QED
    BY <1>3, <1>9, <1>12, <2>6, AloneStep
<1> QED
  BY <1>15, <1>16 DEF Runs

LEMMA PublishAlone ==
  ASSUME SafeInv, Decimals, AloneInv, PlainPaths, NEW k \in Runs, Publish(k, MainPid),
         UNCHANGED <<job, tool>>
  PROVE  AloneInv'
<1>1. PICK r : r = procs[k][MainPid]
  OBVIOUS
<1>2. r.life = "up" /\ r.resize # 0 /\ UNCHANGED files
  BY <1>1 DEF Publish, Living
<1>3. /\ Living(Main(k)) /\ OneFile(k, r, files[PathOf(k)]) /\ StageOK /\ OneProcess(k, r)
      /\ ProcOK(k, r) /\ (r.lib = "ready" => Ready(k, r) /\ FileOK(files[PathOf(k)]))
  BY <1>1, <1>2, LivingFacts
<1>4. r.lib = "ready" /\ Ready(k, r) /\ FileOK(files[PathOf(k)])
  BY <1>2, <1>3 DEF ProcOK
<1>5. ProcTyped(r) /\ r.resize \in Nat /\ r.size \in Nat
  BY <1>3, <1>4, ReadyFacts DEF ProcTyped
<1>6. PICK f, q : f = files[PathOf(k)] /\ q = [r EXCEPT !.size = r.resize, !.resize = 0]
  OBVIOUS
<1>7. Become(k, MainPid, q)
  BY <1>1, <1>6 DEF Publish
<1>8. Ready(k, q) /\ HasSizes(r, q, r.resize, 0)
  BY <1>4, <1>5, <1>6, SizesFacts
<1>9. /\ q.life = "up" /\ q.lib = "ready" /\ q.n = r.n /\ q.left = r.left /\ q.opt = r.opt
      /\ FileSlots(q) = FileSlots(r)
  BY <1>2, <1>8 DEF Ready, HasSizes, FileSlots
<1>10. CASE k = 1
  <2>1. CountSlots(r) /\ CountFile(f, r)
    BY <1>3, <1>4, <1>6, <1>10 DEF OneProcess, OneFile
  <2>2. CountSlots(q) /\ CountFile(f, q)
    BY <1>2, <1>5, <1>8, <2>1, CountPublish
  <2>3. OneProcess(k, q) /\ OneFile(k, q, files'[PathOf(k)])
    BY <1>2, <1>6, <1>9, <1>10, <2>2 DEF OneProcess, OneFile
  <2> QED
    BY <1>3, <1>7, <1>9, <2>3, AloneStep
<1>11. CASE k = 2
  <2>1. LogSlots(r) /\ LogFile(f, r)
    BY <1>3, <1>4, <1>6, <1>11 DEF OneProcess, OneFile
  <2>2. Longer(f, f) /\ f.len = FileSlots(q)
    BY <1>4, <1>6, <1>9, <2>1 DEF LogFile, Longer, FileOK
  <2>3. LogFile(f, q)
    BY <1>5, <1>8, <2>1, <2>2, LogGrows
  <2>4. LogSlots(q)
    <3>1. r.size <= r.resize
      BY <1>2, <1>5, <2>1 DEF LogSlots
    <3> QED
      BY <1>5, <1>8, <2>1, <3>1, LogResized
  <2>5. ~ (Profiled(1) /\ NoMoreCalls(q))
    <3>1. NoMoreCalls(q) <=> NoMoreCalls(r)
      BY <1>9 DEF NoMoreCalls, Begun, Claiming
    <3> QED
      BY <1>2, <1>3, <1>4, <1>11, <3>1 DEF OneProcess
  <2>6. OneProcess(k, q) /\ OneFile(k, q, files'[PathOf(k)])
    BY <1>2, <1>6, <1>9, <1>11, <2>3, <2>4, <2>5 DEF OneProcess, OneFile
  <2> QED
    BY <1>3, <1>7, <1>9, <2>6, AloneStep
<1> QED
  BY <1>10, <1>11 DEF Runs

LEMMA HandleAlone ==
  ASSUME SafeInv, Decimals, AloneInv, PlainPaths, NEW k \in Runs, NEW t \in Threads,
         Handle(k, MainPid, t), UNCHANGED <<job, tool>>
  PROVE  AloneInv'
<1>1. PICK r : r = procs[k][MainPid]
  OBVIOUS
<1>2. r.life = "up" /\ r.lib = "ready" /\ ~ Claims(r, t) /\ ~ Waits(r, t)
  BY <1>1 DEF Handle, Calling, Living
<1>3. /\ Living(Main(k)) /\ r.opt.path = PathOf(k) /\ OneFile(k, r, files[PathOf(k)])
      /\ Ready(k, r) /\ StageOK /\ OneProcess(k, r) /\ FileOK(files[PathOf(k)])
  BY <1>1, <1>2, LivingFacts
<1>4. PICK f, a, c : f = files[PathOf(k)] /\ a = After(r, t) /\ NextCall(k, r, t, c)
  BY DEF NextCall
<1>5. PICK h : h = [f EXCEPT !.at[r.at[t]] = Put(r, @, c)]
  OBVIOUS
<1>6. Called(k, r, t, a)
  BY <1>2, <1>3, <1>4, AfterFacts
<1>7. a.life = "up" /\ a.lib = "ready"
  BY <1>6 DEF Called, Ready
<1>8. ASSUME r.at[t] \in 0 .. f.len - 1
      PROVE  files'[PathOf(k)] = h /\ Become(k, MainPid, a)
  <2>1. r.at[t] < f.len
    BY <1>3, <1>4, <1>8 DEF FileOK
  <2>2. files' = With(PathOf(k), h) /\ Become(k, MainPid, a)
    BY <1>1, <1>3, <1>4, <1>5, <2>1 DEF Handle, NextCall
  <2> QED
    BY <2>2 DEF With
<1>9. CASE k = 1
  <2>1. CountSlots(r) /\ CountFile(f, r)
    BY <1>2, <1>3, <1>4, <1>9 DEF OneProcess, OneFile
  <2>2. r.at[t] \in 0 .. f.len - 1 /\ CountSlots(a) /\ CountFile(h, a)
    BY <1>2, <1>3, <1>4, <1>5, <1>9, <2>1, CountCalled
  <2>3. OneProcess(k, a) /\ OneFile(k, a, files'[PathOf(k)])
    BY <1>7, <1>8, <1>9, <2>2 DEF OneProcess, OneFile
  <2> QED
    BY <1>3, <1>7, <1>8, <2>2, <2>3, AloneStep
<1>10. CASE k = 2
  <2>1. LogSlots(r) /\ LogFile(f, r)
    BY <1>2, <1>3, <1>4, <1>10 DEF OneProcess, OneFile
  <2>2. r.at[t] \in 0 .. f.len - 1 /\ LogSlots(a) /\ LogFile(h, a)
    BY <1>2, <1>3, <1>4, <1>5, <1>10, <2>1, LogCalled
  <2>3. NoMoreCalls(a) => NoMoreCalls(r)
    <3> SUFFICES ASSUME NoMoreCalls(a), NEW u \in Threads PROVE Begun(r, u) <= Main(1).n[u]
      BY DEF NoMoreCalls
    <3>1. PICK bound : bound = Main(1).n[u]
      OBVIOUS
    <3>2. Begun(a, u) <= bound
      BY <3>1 DEF NoMoreCalls
    <3>3. bound \in Nat
      <4>1. MainPid \in Pids /\ ProcOK(1, Main(1))
        BY TestRunAssumption DEF SafeInv, Main, Runs
      <4> QED
        BY <3>1, <4>1 DEF ProcOK, Processes
    <3>4. /\ a.n = [r.n EXCEPT ![t] = @ + 1] /\ a.opt = r.opt /\ r.n \in [Threads -> Nat]
          /\ \A v \in Threads : v # t => a.left[v] = r.left[v]
      BY <1>3, <1>6, ReadyFacts DEF Called, ProcTyped
    <3>5. CASE u # t
      BY <3>1, <3>2, <3>4, <3>5 DEF Begun, Claiming
    <3>6. CASE u = t
      <4>1. a.n[t] = r.n[t] + 1 /\ r.n[t] \in Nat
        BY <3>4
      <4>2. Begun(r, t) <= r.n[t] + 1 /\ Begun(r, t) \in Nat
        BY <4>1 DEF Begun
      <4>3. r.n[t] + 1 <= Begun(a, t) /\ Begun(a, t) \in Nat
        BY <4>1 DEF Begun
      <4> QED
        BY <3>1, <3>2, <3>3, <3>6, <4>1, <4>2, <4>3
    <3> QED
      BY <3>5, <3>6
  <2>4. Profiled(1) /\ NoMoreCalls(a) => a.size = qty /\ a.resize = 0
    BY <1>2, <1>3, <1>6, <1>10, <2>3 DEF OneProcess, Called
  <2>5. OneProcess(k, a) /\ OneFile(k, a, files'[PathOf(k)])
    BY <1>7, <1>8, <1>10, <2>2, <2>4 DEF OneProcess, OneFile
  <2> QED
    BY <1>3, <1>7, <1>8, <2>2, <2>5, AloneStep
<1> QED
  BY <1>9, <1>10 DEF Runs

LEMMA UnseenAlone ==
  ASSUME SafeInv, Decimals, AloneInv, PlainPaths, NEW k \in Runs, NEW t \in Threads,
         Unseen(k, MainPid, t), UNCHANGED <<job, tool>>
  PROVE  AloneInv'
<1>1. PICK r : r = procs[k][MainPid]
  OBVIOUS
<1>2. r.life = "up" /\ r.lib = "absent"
  BY <1>1 DEF Unseen, Living
<1>3. Living(Main(k)) /\ OneProcess(k, r) /\ r \in Processes(k)
  BY <1>1, <1>2, LivingFacts
<1>4. PICK x : x = [r EXCEPT !.n[t] = @ + 1]
  OBVIOUS
<1>5. Become(k, MainPid, x)
  BY <1>1, <1>4 DEF Unseen
<1>6. x.lib = "absent" /\ x.life = "up"
  BY <1>2, <1>3, <1>4 DEF Processes
<1>7. OneProcess(k, x) /\ OneFile(k, x, files'[PathOf(k)])
  BY <1>2, <1>3, <1>6 DEF OneProcess, OneFile
<1>8. x.life # "none"
  BY <1>6
<1> QED
  BY <1>3, <1>5, <1>7, <1>8, AloneStep

\* A new image, of the shell or of the command.
LEMMA ImageAlone ==
  ASSUME NEW k \in Runs, NEW prog, NEW opt, NEW lib, lib = Library, NEW most,
         NEW x, x = Image(prog, opt, lib, most), NEW f
  PROVE  OneProcess(k, x) /\ OneFile(k, x, f) /\ x.life = "up"
<1>1. x.life = "up" /\ x.lib = lib /\ x.n = [t \in Threads |-> 0]
  BY DEF Image, NoProcess
<1> QED
  BY <1>1 DEF OneProcess, OneFile, Library

LEMMA ExecAlone ==
  ASSUME SafeInv, Decimals, AloneInv, PlainPaths, NEW k \in Runs,
         Exec(k, MainPid, Library, job.calls), UNCHANGED <<job, tool>>
  PROVE  AloneInv'
<1>1. PICK r : r = procs[k][MainPid]
  OBVIOUS
<1>2. r.life = "up"
  BY <1>1 DEF Exec, Living
<1>3. Living(Main(k))
  BY <1>1, <1>2, LivingFacts
<1>4. PICK lib : lib = Library
  OBVIOUS
<1>5. PICK x : x = Image("cmd", r.opt, lib, job.calls)
  OBVIOUS
<1>6. Become(k, MainPid, x)
  BY <1>1, <1>4, <1>5 DEF Exec
<1>7. PICK f : f = files'[PathOf(k)]
  OBVIOUS
<1>8. OneProcess(k, x) /\ OneFile(k, x, f) /\ x.life = "up"
  BY <1>4, <1>5, ImageAlone
<1> QED
  BY <1>3, <1>6, <1>7, <1>8, AloneStep

LEMMA ProcessAlone ==
  ASSUME SafeInv, Decimals, AloneInv, PlainPaths, Alone, NEW k \in Runs, Process(k)
  PROVE  AloneInv'
<1>1. UNCHANGED <<job, tool>>
  BY DEF Process
<1>2. \A p \in Pids : Living(procs[k][p]) => p = MainPid
  BY DEF AloneInv, NoProcess, Living
<1>3. CASE Shell(k)
  <2>1. Exec(k, MainPid, Library, job.calls)
    BY <1>3 DEF Shell, Alone
  <2> QED
    BY <1>1, <2>1, ExecAlone
<1>4. ASSUME NEW p \in Pids, Open(k, p) PROVE AloneInv'
  <2>1. p = MainPid
    BY <1>2, <1>4 DEF Open
  <2> QED
    BY <1>1, <1>4, <2>1, OpenAlone
<1>5. ASSUME NEW p \in Pids, Size(k, p) PROVE AloneInv'
  <2>1. p = MainPid
    BY <1>2, <1>5 DEF Size
  <2> QED
    BY <1>1, <1>5, <2>1, SizeAlone
<1>6. ASSUME NEW p \in Pids, NEW t \in Threads, Claim(k, p, t) PROVE AloneInv'
  <2>1. p = MainPid
    BY <1>2, <1>6 DEF Claim, Calling
  <2> QED
    BY <1>1, <1>6, <2>1, ClaimAlone
<1>10. ASSUME NEW p \in Pids, NEW t \in Threads, Extend(k, p, t) PROVE AloneInv'
  <2>1. p = MainPid
    BY <1>2, <1>10 DEF Extend, Calling
  <2> QED
    BY <1>1, <1>10, <2>1, ExtendAlone
<1>11. ASSUME NEW p \in Pids, Publish(k, p) PROVE AloneInv'
  <2>1. p = MainPid
    BY <1>2, <1>11 DEF Publish
  <2> QED
    BY <1>1, <1>11, <2>1, PublishAlone
<1>7. ASSUME NEW p \in Pids, NEW t \in Threads, Handle(k, p, t) PROVE AloneInv'
  <2>1. p = MainPid
    BY <1>2, <1>7 DEF Handle, Calling
  <2> QED
    BY <1>1, <1>7, <2>1, HandleAlone
<1>8. ASSUME NEW p \in Pids, NEW t \in Threads, Unseen(k, p, t) PROVE AloneInv'
  <2>1. p = MainPid
    BY <1>2, <1>8 DEF Unseen
  <2> QED
    BY <1>1, <1>8, <2>1, UnseenAlone
<1>9. ASSUME NEW p \in Pids, Kill(k, p) \/ Exit(k, p) PROVE AloneInv'
  <2>1. Living(procs[k][p]) /\ UNCHANGED files
    BY <1>9 DEF Kill, Exit
  <2>2. p = MainPid
    BY <1>2, <2>1
  <2>3. PICK r : r = procs[k][MainPid]
    OBVIOUS
  <2>4. r.life = "up"
    BY <2>1, <2>2, <2>3 DEF Living
  <2>5. PICK how \in {"ended", "killed"} : Become(k, MainPid, [r EXCEPT !.life = how])
    BY <1>9, <2>2, <2>3 DEF Kill, Exit
  <2> QED
    BY <1>1, <2>1, <2>3, <2>4, <2>5, EndAlone
<1> QED
  BY <1>3, <1>4, <1>5, <1>6, <1>7, <1>8, <1>9, <1>10, <1>11 DEF Process

(***************************************************************************)
(* The steps of the tool.                                                  *)
(***************************************************************************)

LEMMA SameProfiled ==
  ASSUME UNCHANGED <<procs, job, options, started>>
  PROVE  \A k : (Profiled(k)' <=> Profiled(k)) /\ CallsOf(k)' = CallsOf(k) /\ Commands(k)' = Commands(k)
BY DEF Profiled, CallsOf, Commands

\* Between its runs, the tool is alone.
LEMMA NotLiving ==
  ASSUME SafeInv, AloneInv, stage = "counting" => Returned(1), stage = "logging" => Returned(2)
  PROVE  \A k \in Runs : ~ Living(Main(k))
<1> SUFFICES ASSUME NEW k \in Runs, Living(Main(k)) PROVE FALSE
  OBVIOUS
<1>1. stage = MakingOf(k)
  BY DEF AloneInv, RunOK
<1>2. ProcOK(k, Main(k))
  BY TestRunAssumption DEF SafeInv, Main
<1>3. k \in started
  BY <1>2 DEF ProcOK, Living
<1>4. Returned(k)
  BY <1>1 DEF MakingOf, Runs
<1> QED
  BY <1>3, <1>4 DEF Returned, Main

LEMMA NotStarted ==
  ASSUME SafeInv, NEW k \in Runs, k \notin started
  PROVE  Main(k).life = "none" /\ ~ Profiled(k)
<1>1. ProcOK(k, Main(k))
  BY TestRunAssumption DEF SafeInv, Main
<1> QED
  BY <1>1 DEF ProcOK, Profiled

\* A step of the tool that starts nothing.
LEMMA QuietTool ==
  ASSUME SafeInv, AloneInv, UNCHANGED <<files, procs, job, options, started>>,
         \A k \in Runs : ~ Living(Main(k)),
         qty' = qty \/ 2 \notin started,
         \A k \in Runs : InHand(k)' => InHand(k) \/ k \notin started,
         AreaOK', QtyOK', TestOK', AnalysesCommand', FailsForCause'
  PROVE  AloneInv'
<1>1. \A k \in Runs, p \in Pids \ {MainPid} : procs'[k][p] = NoProcess
  BY DEF AloneInv
<1>2. ASSUME NEW k \in Runs PROVE RunOK(k)'
  <2>1. PICK r : r = Main(k)
    OBVIOUS
  <2>2. Main(k)' = r
    BY <2>1 DEF Main
  <2>3. CASE k \notin started
    <3>1. r.life = "none"
      BY <2>1, <2>3, NotStarted
    <3> QED
      BY <2>2, <3>1 DEF RunOK, Living
  <2>4. CASE k \in started /\ r.life # "none"
    <3>1. OneProcess(k, r) /\ (InHand(k) => OneFile(k, r, files[PathOf(k)])) /\ ~ Living(r)
      BY <2>1, <2>4 DEF AloneInv, RunOK
    <3>2. (Profiled(1)' <=> Profiled(1)) /\ (NoMoreCalls(r)' <=> NoMoreCalls(r))
      BY SameProfiled DEF NoMoreCalls, Main
    <3>3. k = 2 => qty' = qty
      BY <2>4
    <3>4. OneProcess(k, r)'
      BY <3>1, <3>2, <3>3 DEF OneProcess
    <3>5. InHand(k)' => InHand(k)
      BY <2>4
    <3>6. InHand(k)' => OneFile(k, r, files[PathOf(k)])'
      BY <3>1, <3>5 DEF OneFile, PathOf
    <3> QED
      BY <2>2, <3>1, <3>4, <3>6 DEF RunOK, Living
  <2>5. CASE r.life = "none"
    BY <2>2, <2>5 DEF RunOK, Living
  <2> QED
    BY <2>3, <2>4, <2>5
<1> QED
  BY <1>1, <1>2 DEF AloneInv

\* A step of the tool that starts run k.
LEMMA StartTool ==
  ASSUME SafeInv, AloneInv, NEW k \in Runs, k \notin started, started' = started \union {k},
         UNCHANGED <<files, job, options>>, stage' = MakingOf(k),
         \A i \in Runs : ~ Living(Main(i)), 2 \notin started,
         NEW opt, NEW most, Become(k, MainPid, Image("sh", opt, Library, most)),
         QtyOK', TestOK'
  PROVE  AloneInv'
<1>1. PICK lib : lib = Library
  OBVIOUS
<1>2. PICK x : x = Image("sh", opt, lib, most)
  OBVIOUS
<1>3. MainPid \in Pids /\ Become(k, MainPid, x)
  BY <1>1, <1>2, TestRunAssumption
<1>4. procs' = [i \in Runs |-> [q \in Pids |-> IF i = k /\ q = MainPid THEN x ELSE procs[i][q]]]
  BY <1>3, BecomeShape DEF SafeInv
<1>5. \A i \in Runs : \A q \in Pids \ {MainPid} : procs'[i][q] = NoProcess
  BY <1>4 DEF AloneInv
<1>6. Main(k)' = x /\ \A i \in Runs : i # k => Main(i)' = Main(i)
  BY <1>3, <1>4 DEF Main
<1>7. RunOK(k)'
  <2>1. lib' = Library'
    BY <1>1 DEF Library
  <2>2. \A f : OneProcess(k, x) /\ OneFile(k, x, f) /\ x.life = "up"
    BY <1>1, <1>2, ImageAlone
  <2>3. x.lib \in {"absent", "fresh"} /\ x.n = [t \in Threads |-> 0]
    BY <1>1, <1>2 DEF Image, NoProcess, Library
  <2>4. OneProcess(k, x)'
    BY <2>2, <2>3 DEF OneProcess
  <2>5. OneFile(k, x, files[PathOf(k)])'
    BY <2>3 DEF OneFile
  <2>6. (stage = MakingOf(k))'
    BY DEF MakingOf
  <2> QED
    BY <1>6, <2>4, <2>5, <2>6 DEF RunOK
<1>8. ASSUME NEW i \in Runs, i # k PROVE RunOK(i)'
  <2>1. Main(i)' = Main(i) /\ ~ Living(Main(i))
    BY <1>6, <1>8
  <2>2. CASE k = 1
    <3>1. i = 2
      BY <1>8, <2>2 DEF Runs
    <3>2. Main(i).life = "none"
      BY <3>1, NotStarted
    <3> QED
      BY <2>1, <3>2 DEF RunOK, Living
  <2>3. CASE k = 2
    <3>1. i = 1 /\ stage' = "logging"
      BY <1>8, <2>3 DEF Runs, MakingOf
    <3>2. Main(1).life # "none" => OneProcess(1, Main(1))
      BY <1>8, <3>1 DEF AloneInv, RunOK
    <3>3. ~ InHand(1)'
      BY <3>1 DEF InHand
    <3>4. Main(1).life # "none" => OneProcess(1, Main(1))'
      BY <2>1, <3>1, <3>2 DEF OneProcess
    <3> QED
      BY <2>1, <3>1, <3>3, <3>4 DEF RunOK, Living
  <2> QED
    BY <2>2, <2>3 DEF Runs
<1>9. AreaOK' /\ AnalysesCommand' /\ FailsForCause'
  BY DEF MakingOf, AreaOK, AnalysesCommand, FailsForCause
<1> QED
  BY <1>5, <1>7, <1>8, <1>9 DEF AloneInv

LEMMA BeginAlone ==
  ASSUME SafeInv, Decimals, AloneInv, Begin
  PROVE  AloneInv'
<1>1. /\ stage = "start" /\ started = {} /\ qty = 0
      /\ UNCHANGED <<files, job, options, qty, shown>>
  BY DEF Begin, SafeInv, StageOK, AloneInv, QtyOK
<1>2. \A k \in Runs : ~ Living(Main(k))
  BY <1>1, NotLiving
<1>3. CASE options.mode \in {"HELP", "bad"} /\ stage' = "done"
           /\ UNCHANGED <<area, stray, started, refused, procs>>
  <2>1. ~ Testing' /\ AreaOK' /\ AnalysesCommand' /\ FailsForCause' /\ TestOK'
    BY <1>1, <1>3 DEF Testing, AreaOK, AnalysesCommand, FailsForCause, TestOK
  <2>2. QtyOK'
    BY <1>1, <1>3 DEF QtyOK, Profiled
  <2>3. \A k \in Runs : InHand(k)' => InHand(k) \/ k \notin started
    BY <1>1
  <2> QED
    BY <1>1, <1>2, <1>3, <2>1, <2>2, <2>3, QuietTool
<1>4. CASE options.mode = "TEST" /\ Refuse
  <2>1. stage' = "failed" /\ refused' = TRUE /\ UNCHANGED <<procs, started>>
    BY <1>4 DEF Refuse, Break
  <2>2. AreaOK' /\ AnalysesCommand' /\ FailsForCause' /\ TestOK'
    BY <1>1, <2>1 DEF Testing, AreaOK, AnalysesCommand, FailsForCause, TestOK
  <2>3. QtyOK'
    BY <1>1, <2>1 DEF QtyOK, Profiled
  <2>4. \A k \in Runs : InHand(k)' => InHand(k) \/ k \notin started
    BY <1>1
  <2> QED
    BY <1>1, <1>2, <2>1, <2>2, <2>3, <2>4, QuietTool
<1>5. CASE System(1, CountConf(options.counts)) /\ stage' = "counting" /\ UNCHANGED <<area, stray>>
  <2>1. CASE /\ options.test /\ started' = started \union {1}
             /\ Become(1, MainPid, Image("sh", Parsed(CountConf(options.counts)), Library, ShellCalls))
    <3>1. QtyOK' /\ TestOK'
      BY <1>1, <1>5, <2>1 DEF QtyOK, TestOK
    <3>2. 1 \in Runs /\ stage' = MakingOf(1)
      BY <1>5 DEF Runs, MakingOf
    <3> QED
      BY <1>1, <1>2, <2>1, <3>1, <3>2, StartTool
  <2>2. CASE UNCHANGED <<procs, started>> /\ refused' = (refused \/ options.test)
    <3>1. AreaOK' /\ AnalysesCommand' /\ FailsForCause' /\ TestOK' /\ QtyOK'
      BY <1>1, <1>5, <2>2 DEF Testing, AreaOK, AnalysesCommand, FailsForCause, TestOK, QtyOK
    <3>2. \A k \in Runs : InHand(k)' => InHand(k) \/ k \notin started
      BY <1>1
    <3> QED
      BY <1>1, <1>2, <2>2, <3>1, <3>2, QuietTool
  <2> QED
    BY <1>5, <2>1, <2>2 DEF System
<1> QED
  BY <1>3, <1>4, <1>5 DEF Begin

LEMMA MapCountsAlone ==
  ASSUME SafeInv, Decimals, AloneInv, PlainPaths, MapCounts
  PROVE  AloneInv'
<1>1. /\ stage \in {"start", "counting"} /\ StageOK /\ qty = 0 /\ 2 \notin started
      /\ stage = "start" => options.mode = "DUMP" /\ started = {}
      /\ UNCHANGED <<files, procs, job, options, qty, started, stray, shown>>
  BY DEF MapCounts, MapFile, SafeInv, StageOK, AloneInv, QtyOK
<1>2. \A k \in Runs : ~ Living(Main(k))
  BY NotLiving DEF MapCounts
<1>3. PICK path : path = options.counts
  OBVIOUS
<1>4. TestOK
  BY DEF AloneInv
<1>5. CASE /\ path \in DOMAIN files /\ area' = [fd |-> "open", size |-> files[path].len]
           /\ stage' = "counts" /\ UNCHANGED refused
  <2>1. AreaOK' /\ AnalysesCommand' /\ FailsForCause'
    BY <1>1, <1>3, <1>5 DEF AreaOK, AnalysesCommand, FailsForCause
  <2>2. TestOK'
    BY <1>1, <1>4, <1>5 DEF TestOK, Testing
  <2>3. QtyOK'
    BY <1>1, <1>5 DEF QtyOK
  <2>4. \A k \in Runs : InHand(k)' => InHand(k) \/ k \notin started
    BY <1>1, <1>5 DEF InHand
  <2> QED
    BY <1>1, <1>2, <2>1, <2>2, <2>3, <2>4, QuietTool
<1>6. CASE /\ area' = [fd |-> "closed", size |-> 0] /\ stage' = "failed"
           /\ refused' = (refused \/ path \in DOMAIN files)
  <2>1. AreaOK' /\ AnalysesCommand'
    BY <1>6 DEF AreaOK, AnalysesCommand
  <2>2. Profiled(1) => path \in DOMAIN files
    <3> HAVE Profiled(1)
    <3>1. PICK k \in Runs : k = 1
      BY DEF Runs
    <3>2. PathOf(k) \in DOMAIN files
      BY <3>1, ProfiledMain
    <3> QED
      BY <1>3, <3>1, <3>2 DEF PathOf
  <2>3. FailsForCause'
    BY <1>1, <1>6, <2>2, SameProfiled DEF FailsForCause
  <2>4. TestOK'
    BY <1>1, <1>4, <1>6 DEF TestOK, Testing
  <2>5. QtyOK'
    BY <1>1, <1>6 DEF QtyOK
  <2>6. \A k \in Runs : InHand(k)' => InHand(k) \/ k \notin started
    BY <1>6 DEF InHand
  <2> QED
    BY <1>1, <1>2, <2>1, <2>3, <2>4, <2>5, <2>6, QuietTool
<1> QED
  BY <1>3, <1>5, <1>6 DEF MapCounts, MapFile

\* A run of a test that was not started: the tool was refused it.
LEMMA NotRun ==
  ASSUME SafeInv, AloneInv, Testing, stage \in {"logging", "log"}, 2 \notin started
  PROVE  refused \/ ~ Profiled(1)
<1>1. refused \/ ~ options.test
  BY DEF AloneInv, TestOK
<1>2. ~ options.test => started = {}
  BY DEF AloneInv, TestOK
<1> QED
  BY <1>1, <1>2 DEF Profiled

LEMMA MapLogAlone ==
  ASSUME SafeInv, Decimals, AloneInv, PlainPaths, MapLog
  PROVE  AloneInv'
<1>1. /\ stage = "logging" /\ StageOK /\ Testing
      /\ UNCHANGED <<files, procs, job, options, qty, started, stray, shown>>
  BY DEF MapLog, MapFile, SafeInv, StageOK, Testing
<1>2. \A k \in Runs : ~ Living(Main(k))
  BY <1>1, NotLiving DEF MapLog
<1>3. PICK path : path = options.log
  OBVIOUS
<1>4. TestOK /\ QtyOK
  BY DEF AloneInv
<1>5. QtyOK' \/ stage' \notin {"log", "failed"}
  BY <1>1, <1>4, SameProfiled DEF QtyOK, Main
<1>6. CASE /\ path \in DOMAIN files /\ area' = [fd |-> "open", size |-> files[path].len]
           /\ stage' = "log" /\ UNCHANGED refused
  <2>1. AreaOK' /\ AnalysesCommand' /\ FailsForCause'
    BY <1>1, <1>3, <1>6 DEF AreaOK, AnalysesCommand, FailsForCause
  <2>2. TestOK'
    BY <1>1, <1>4, <1>6 DEF TestOK, Testing
  <2>3. \A k \in Runs : InHand(k)' => InHand(k) \/ k \notin started
    BY <1>1, <1>6 DEF InHand
  <2> QED
    BY <1>1, <1>2, <1>5, <1>6, <2>1, <2>2, <2>3, QuietTool
<1>7. CASE /\ area' = [fd |-> "closed", size |-> 0] /\ stage' = "failed"
           /\ refused' = (refused \/ path \in DOMAIN files)
  <2>1. AreaOK' /\ AnalysesCommand'
    BY <1>7 DEF AreaOK, AnalysesCommand
  <2>2. Profiled(2) => path \in DOMAIN files
    <3> HAVE Profiled(2)
    <3>1. PICK k \in Runs : k = 2
      BY DEF Runs
    <3>2. PathOf(k) \in DOMAIN files
      BY <3>1, ProfiledMain
    <3> QED
      BY <1>3, <3>1, <3>2 DEF PathOf
  <2>3. refused' \/ ~ Profiled(1) \/ (2 \in started /\ ~ Profiled(2))
    BY <1>1, <1>7, <2>2, NotRun
  <2>4. FailsForCause'
    BY <1>1, <2>3, SameProfiled DEF FailsForCause
  <2>5. TestOK'
    BY <1>1, <1>4, <1>7 DEF TestOK, Testing
  <2>6. \A k \in Runs : InHand(k)' => InHand(k) \/ k \notin started
    BY <1>7 DEF InHand
  <2> QED
    BY <1>1, <1>2, <1>5, <1>7, <2>1, <2>4, <2>5, <2>6, QuietTool
<1> QED
  BY <1>3, <1>6, <1>7 DEF MapLog, MapFile

\* What the tool reads of a first run that was profiled.
LEMMA ReadFacts ==
  ASSUME SafeInv, Decimals, AloneInv, PlainPaths, stage = "counts", NEW f, f = files[options.counts],
         Profiled(1)
  PROVE  /\ area.size = f.len /\ area.size # 0
         /\ LogQty(f) = Cardinality(MadeBy(1, Main(1))) + CacheQty * FileSlots(Main(1))
         /\ \/ f.at[0].mode = "counts"
            \/ \E p \in Commands(1), t \in Threads : procs[1][p].at[t] = 0 /\ procs[1][p].n[t] = 0
<1>1. PICK k \in Runs : k = 1
  BY DEF Runs
<1>2. PICK r : r = Main(k)
  OBVIOUS
<1>3. /\ r.life # "none" /\ r.lib = "ready" /\ OneProcess(k, r) /\ ProcOK(k, r)
      /\ Commands(k) = {MainPid} /\ MadeBy(k, r) # {}
  BY <1>1, <1>2, ProfiledMain
<1>4. OneFile(k, r, f)
  BY <1>1, <1>2, <1>3 DEF AloneInv, RunOK, InHand, PathOf
<1>5. CountSlots(r) /\ CountFile(f, r)
  BY <1>1, <1>3, <1>4 DEF OneProcess, OneFile
<1>6. ProcTyped(r)
  BY <1>3, TypedProc DEF ProcOK
<1>7. FileOK(f) /\ area.size = f.len
  BY DEF SafeInv, StageOK, AloneInv, AreaOK
<1>8. f.len = FileSlots(r) /\ f.len \in Nat /\ f.len # 0 /\ r.next \in Nat /\ r.next # 0
  <2>1. PICK c : c \in MadeBy(k, r)
    BY <1>3
  <2>2. PICK t \in Threads : r.n[t] > 0
    BY <1>6, <2>1, MadeByThread
  <2>3. r.at[t] \in Nat /\ r.at[t] < FileSlots(r) /\ f.len \in Nat /\ r.next \in Nat
    BY <1>5, <1>6, <1>7, <2>2, CountedSlot DEF ProcTyped, FileOK
  <2>4. r.at[t] # NULL /\ r.at[t] < r.next
    BY <1>5, <2>2 DEF CountSlots
  <2>5. f.len = FileSlots(r)
    BY <1>5 DEF CountFile
  <2> QED
    BY <2>3, <2>4, <2>5
<1>9. LogQty(f) = Cardinality(MadeBy(1, r)) + CacheQty * FileSlots(r)
  <2>1. Cardinality(Counted(f, 0 .. f.len - 1)) = Cardinality(MadeBy(1, r))
    BY <1>5, <1>6, <1>7, CountTotal
  <2>2. CountsTotal(f) = Cardinality(MadeBy(1, r))
    BY <1>7, <2>1 DEF CountsTotal
  <2> QED
    BY <1>7, <1>8, <2>2 DEF LogQty
<1>10. f.at[0].mode # "counts" => \E t \in Threads : r.at[t] = 0 /\ r.n[t] = 0
  <2> HAVE f.at[0].mode # "counts"
  <2>1. 0 \in 0 .. f.len - 1 /\ 0 \in 0 .. r.next - 1
    BY <1>8
  <2>2. PICK t \in Threads : r.at[t] = 0
    BY <1>5, <2>1 DEF CountSlots
  <2>3. f.at[0].calls = {} /\ f.at[0].calls = {c \in MadeBy(1, r) : r.at[c.by] = 0}
    BY <1>5, <2>1 DEF CountFile
  <2>4. r.n[t] = 0
    <3> SUFFICES ASSUME r.n[t] # 0 PROVE FALSE
      OBVIOUS
    <3>1. 1 \in 1 .. r.n[t]
      BY <1>6 DEF ProcTyped
    <3>2. PICK c : c = Call(k, MainPid, r.prog, t, 1)
      OBVIOUS
    <3>3. c \in MadeBy(k, r) /\ c.by = t
      BY <3>1, <3>2, MadeIs, CallIs
    <3> QED
      BY <1>1, <2>2, <2>3, <3>3
  <2> QED
    BY <2>2, <2>4
<1>11. procs[1][MainPid] = r
  BY <1>1, <1>2 DEF Main
<1>12. MainPid \in Commands(1)
  BY <1>1, <1>3
<1>13. \/ f.at[0].mode = "counts"
       \/ \E p \in Commands(1), t \in Threads : procs[1][p].at[t] = 0 /\ procs[1][p].n[t] = 0
  BY <1>10, <1>11, <1>12
<1>14. Main(1) = r
  BY <1>1, <1>2
<1> QED
  BY <1>7, <1>8, <1>9, <1>13, <1>14

\* LOG_QTY as it is known from now on.
LEMMA QtyRead ==
  ASSUME SafeInv, Decimals, AloneInv, PlainPaths, stage = "counts",
         qty' = LogQty(files[options.counts]), UNCHANGED <<job, options>>,
         \A p \in Pids : procs'[1][p] = procs[1][p], 1 \in started' => 1 \in started,
         stage' \notin {"start", "counting", "counts"}
  PROVE  QtyOK'
<1>1. Commands(1)' = Commands(1)
  BY DEF Commands
<1>2. CallsOf(1)' = CallsOf(1)
  <2>1. \A p \in Commands(1) : procs'[1][p] = procs[1][p]
    BY DEF Commands
  <2> QED
    BY <1>1, <2>1 DEF CallsOf
<1>3. Profiled(1)' => Profiled(1)
  BY <1>2 DEF Profiled
<1>4. Main(1)' = Main(1)
  BY TestRunAssumption DEF Main
<1>5. PICK f : f = files[options.counts]
  OBVIOUS
<1>6. Profiled(1) => qty' = Cardinality(MadeBy(1, Main(1))) + CacheQty * FileSlots(Main(1))
  BY <1>5, ReadFacts
<1>7. FileSlots(Main(1))' = FileSlots(Main(1)) /\ MadeBy(1, Main(1))' = MadeBy(1, Main(1))
  BY <1>4 DEF FileSlots, MadeBy
<1> QED
  BY <1>3, <1>6, <1>7 DEF QtyOK

LEMMA ReadCountsAlone ==
  ASSUME SafeInv, Decimals, AloneInv, PlainPaths, ReadCounts
  PROVE  AloneInv'
<1>1. PICK f : f = files[options.counts]
  OBVIOUS
<1>2. /\ stage = "counts" /\ StageOK /\ qty = 0 /\ 2 \notin started /\ TestOK
      /\ area.size = f.len /\ FileOK(f)
      /\ UNCHANGED <<files, job, options, shown>>
  BY <1>1 DEF ReadCounts, SafeInv, StageOK, AloneInv, QtyOK, AreaOK
<1>3. \A k \in Runs : ~ Living(Main(k))
  BY <1>2, NotLiving
<1>4. ~ Truncated(f)
  BY <1>2 DEF Truncated, FileOK
<1>5. CASE ~ Usable(f) /\ Break /\ UNCHANGED <<refused, procs, started, qty>>
  <2>1. stage' = "failed"
    BY <1>5 DEF Break
  <2>2. AreaOK' /\ AnalysesCommand' /\ TestOK' /\ QtyOK'
    BY <1>2, <1>5, <2>1 DEF AreaOK, AnalysesCommand, TestOK, Testing, QtyOK
  <2>3. Profiled(1) => \E p \in Commands(1), t \in Threads :
                         procs[1][p].at[t] = 0 /\ procs[1][p].n[t] = 0
    BY <1>1, <1>2, <1>5, ReadFacts DEF Usable, HeaderOK
  <2>4. FailsForCause'
    BY <1>2, <1>5, <2>3, SameProfiled DEF FailsForCause
  <2>5. \A k \in Runs : InHand(k)' => InHand(k) \/ k \notin started
    BY <2>1 DEF InHand
  <2> QED
    BY <1>2, <1>3, <1>5, <2>2, <2>4, <2>5, QuietTool
<1>6. CASE options.mode = "DUMP" /\ stage' = "done" /\ UNCHANGED <<refused, procs, started, qty>>
  <2>1. AreaOK' /\ AnalysesCommand' /\ TestOK' /\ QtyOK' /\ FailsForCause'
    BY <1>2, <1>6 DEF AreaOK, AnalysesCommand, TestOK, Testing, QtyOK, FailsForCause
  <2>2. \A k \in Runs : InHand(k)' => InHand(k) \/ k \notin started
    BY <1>6 DEF InHand
  <2> QED
    BY <1>2, <1>3, <1>6, <2>1, <2>2, QuietTool
<1>7. CASE qty' = LogQty(f) /\ Refuse
  <2>1. stage' = "failed" /\ refused' = TRUE /\ UNCHANGED <<procs, started>>
    BY <1>7 DEF Refuse, Break
  <2>2. AreaOK' /\ AnalysesCommand' /\ TestOK' /\ FailsForCause'
    BY <1>2, <2>1 DEF AreaOK, AnalysesCommand, TestOK, Testing, FailsForCause
  <2>3. QtyOK'
    BY <1>1, <1>2, <1>7, <2>1, QtyRead
  <2>4. \A k \in Runs : InHand(k)' => InHand(k) \/ k \notin started
    BY <2>1 DEF InHand
  <2> QED
    BY <1>2, <1>3, <2>1, <2>2, <2>3, <2>4, QuietTool
<1>8. CASE qty' = LogQty(f) /\ System(2, LogConf(options.log, qty')) /\ stage' = "logging"
  <2>1. CASE /\ options.test /\ started' = started \union {2} /\ UNCHANGED refused
             /\ Become(2, MainPid, Image("sh", Parsed(LogConf(options.log, qty')), Library, ShellCalls))
    <3>1. PICK k \in Runs : k = 2
      BY DEF Runs
    <3>2. PICK opt : opt = Parsed(LogConf(options.log, qty'))
      OBVIOUS
    <3>3. Become(k, MainPid, Image("sh", opt, Library, ShellCalls))
      BY <2>1, <3>1, <3>2
    <3>4. \A p \in Pids : procs'[1][p] = procs[1][p]
      BY <2>1 DEF Become, SafeInv, Runs
    <3>5. QtyOK'
      BY <1>1, <1>2, <1>8, <2>1, <3>4, QtyRead
    <3>6. TestOK'
      BY <1>2, <1>8, <2>1 DEF TestOK, Testing
    <3>7. k \notin started /\ started' = started \union {k} /\ stage' = MakingOf(k)
      BY <1>2, <1>8, <2>1, <3>1 DEF MakingOf
    <3> QED
      BY <1>2, <1>3, <3>3, <3>5, <3>6, <3>7, StartTool
  <2>2. CASE UNCHANGED <<procs, started>> /\ refused' = (refused \/ options.test)
    <3>1. AreaOK' /\ AnalysesCommand' /\ TestOK' /\ FailsForCause'
      BY <1>2, <1>8, <2>2 DEF AreaOK, AnalysesCommand, TestOK, Testing, FailsForCause
    <3>2. QtyOK'
      BY <1>1, <1>2, <1>8, <2>2, QtyRead
    <3>3. \A k \in Runs : InHand(k)' => InHand(k) \/ k \notin started
      BY <1>2, <1>8 DEF InHand, Runs
    <3> QED
      BY <1>2, <1>3, <2>2, <3>1, <3>2, <3>3, QuietTool
  <2> QED
    BY <1>8, <2>1, <2>2 DEF System
<1> QED
  BY <1>1, <1>4, <1>5, <1>6, <1>7, <1>8 DEF ReadCounts

LEMMA AnalyseAlone ==
  ASSUME SafeInv, Decimals, AloneInv, PlainPaths, Analyse
  PROVE  AloneInv'
<1>1. PICK f : f = files[options.log]
  OBVIOUS
<1>2. /\ stage = "log" /\ StageOK /\ Testing /\ TestOK /\ QtyOK /\ area.size = f.len /\ FileOK(f)
      /\ UNCHANGED <<files, procs, job, options, qty, started, refused>>
  BY <1>1 DEF Analyse, SafeInv, StageOK, AloneInv, AreaOK, Testing
<1>3. \A k \in Runs : ~ Living(Main(k))
  BY <1>2, NotLiving
<1>4. ~ Truncated(f)
  BY <1>2 DEF Truncated, FileOK
<1>5. PICK r : r = Main(2)
  OBVIOUS
<1>6. Profiled(2) => /\ LogFile(f, r) /\ CallsOf(2) = MadeBy(2, r) /\ MadeBy(2, r) # {}
  <2> HAVE Profiled(2)
  <2>1. PICK k \in Runs : k = 2
    BY DEF Runs
  <2>2. /\ r.life # "none" /\ r.lib = "ready" /\ CallsOf(k) = MadeBy(k, r) /\ MadeBy(k, r) # {}
    BY <1>5, <2>1, ProfiledMain
  <2>3. OneFile(k, r, f)
    BY <1>1, <1>2, <1>5, <2>1, <2>2 DEF AloneInv, RunOK, InHand, PathOf
  <2> QED
    BY <2>1, <2>2, <2>3 DEF OneFile
<1>7. \A k \in Runs : stage' \in Ended => (InHand(k)' => InHand(k) \/ k \notin started)
  BY DEF InHand, Ended
<1>8. stage' \in Ended => QtyOK'
  BY <1>2, SameProfiled DEF QtyOK, Main, Ended
<1>9. stage' \in Ended => TestOK' /\ AreaOK'
  BY <1>2 DEF TestOK, Testing, AreaOK, Ended
<1>10. CASE area.size = 0 /\ stage' = "failed"
  <2>1. ~ Profiled(2)
    <3> SUFFICES ASSUME Profiled(2) PROVE FALSE
      OBVIOUS
    <3>1. PICK c : c \in MadeBy(2, r)
      BY <1>6
    <3>2. \E s \in 0 .. f.len - 1 : c \in f.at[s].calls
      BY <1>6, <3>1 DEF LogFile
    <3> QED
      BY <1>2, <1>10, <3>2
  <2>2. refused' \/ ~ Profiled(1) \/ (2 \in started /\ ~ Profiled(2))
    BY <1>2, <2>1, NotRun
  <2>3. FailsForCause' /\ AnalysesCommand'
    BY <1>2, <1>10, <2>2, SameProfiled DEF FailsForCause, AnalysesCommand
  <2> QED
    BY <1>2, <1>3, <1>7, <1>8, <1>9, <1>10, <2>3, QuietTool DEF Ended
<1>11. CASE shown' = [s \in 0 .. area.size - 1 |-> f.at[s].calls] /\ stage' = "done"
  <2>1. FailsForCause'
    BY <1>11 DEF FailsForCause
  <2>2. ASSUME Profiled(2)
        PROVE  /\ \A c \in CallsOf(2) : Cardinality({s \in DOMAIN shown' : c \in shown'[s]}) = 1
               /\ \A s \in DOMAIN shown' : shown'[s] \subseteq CallsOf(2)
    <3>1. LogFile(f, r) /\ CallsOf(2) = MadeBy(2, r)
      BY <1>6, <2>2
    <3>2. DOMAIN shown' = 0 .. f.len - 1 /\ \A s \in 0 .. f.len - 1 : shown'[s] = f.at[s].calls
      BY <1>2, <1>11
    <3>3. ASSUME NEW c \in CallsOf(2)
          PROVE  Cardinality({s \in DOMAIN shown' : c \in shown'[s]}) = 1
      <4>1. PICK s \in 0 .. f.len - 1 : c \in f.at[s].calls
        BY <3>1 DEF LogFile
      <4>2. \A i \in 0 .. f.len - 1 : c \in f.at[i].calls => i = s
        BY <3>1, <4>1 DEF LogFile
      <4>3. {i \in DOMAIN shown' : c \in shown'[i]} = {s}
        BY <3>2, <4>1, <4>2
      <4> QED
        BY <4>3, FS_Singleton
    <3>4. \A s \in DOMAIN shown' : shown'[s] \subseteq CallsOf(2)
      BY <3>1, <3>2 DEF LogFile
    <3> QED
      BY <3>3, <3>4
  <2>3. AnalysesCommand'
    BY <1>2, <2>2, SameProfiled DEF AnalysesCommand, LogsEachCall
  <2> QED
    BY <1>2, <1>3, <1>7, <1>8, <1>9, <1>11, <2>1, <2>3, QuietTool DEF Ended
<1>12. PICK kinds : kinds = Kinds(Recorded(f))
  OBVIOUS
<1>13. CASE (DividesByZero(kinds) \/ NoCompactness(kinds)) /\ stage' = "crashed"
  <2>1. CASE ~ Profiled(2)
    <3>1. refused' \/ ~ Profiled(1) \/ (2 \in started /\ ~ Profiled(2))
      BY <1>2, <2>1, NotRun
    <3> QED
      BY <1>2, <1>3, <1>7, <1>8, <1>9, <1>13, <3>1, SameProfiled, QuietTool
         DEF FailsForCause, AnalysesCommand, Ended
  <2>2. CASE Profiled(2)
    <3>1. ASSUME NEW c \in CallsOf(2) PROVE c \in Recorded(f)
      <4>1. PICK s \in 0 .. f.len - 1 : c \in f.at[s].calls
        BY <1>6, <2>2, <3>1 DEF LogFile
      <4>2. f.at[s].mode = "alloc"
        BY <1>6, <2>2, <4>1 DEF LogFile
      <4> QED
        BY <1>2, <4>1, <4>2 DEF Recorded
    <3>2. Kinds(CallsOf(2)) \subseteq kinds
      BY <1>12, <3>1 DEF Kinds
    <3>3. PICK wanted \in {{"bytes", "refused"}, {"bytes", "zero"}} :
            Kinds(CallsOf(2)) \intersect wanted = {}
      BY <1>13, <3>2 DEF DividesByZero, NoCompactness
    <3>4. Kinds(CallsOf(2))' = Kinds(CallsOf(2))
      BY <1>2, SameProfiled DEF Kinds, Kind
    <3>5. FailsForCause' /\ AnalysesCommand'
      BY <1>13, <3>3, <3>4 DEF FailsForCause, AnalysesCommand
    <3> QED
      BY <1>2, <1>3, <1>7, <1>8, <1>9, <1>13, <3>5, QuietTool DEF Ended
  <2> QED
    BY <2>1, <2>2
<1> QED
  BY <1>1, <1>4, <1>10, <1>11, <1>12, <1>13 DEF Analyse, Break

(***************************************************************************)
(* The invariant, and what follows from it.                                *)
(***************************************************************************)

LEMMA AloneInit ==
  ASSUME Init
  PROVE  AloneInv
<1>1. \A k \in Runs, p \in Pids : procs[k][p] = NoProcess
  BY DEF Init, ProcsInit
<1>2. \A k \in Runs : RunOK(k)
  BY <1>1, TestRunAssumption DEF RunOK, Main, NoProcess, Living
<1>3. AreaOK /\ QtyOK /\ TestOK /\ AnalysesCommand /\ FailsForCause
  BY DEF Init, AreaOK, QtyOK, Profiled, TestOK, AnalysesCommand, FailsForCause, Ended
<1> QED
  BY <1>1, <1>2, <1>3 DEF AloneInv

LEMMA AloneStutter ==
  ASSUME SafeInv, AloneInv, UNCHANGED vars
  PROVE  AloneInv'
<1>1. UNCHANGED <<files, procs, job, options, started, stage, area, qty, refused, shown>>
  BY DEF vars, tool
<1>2. \A k \in Runs : RunOK(k)'
  BY <1>1, SameProfiled
     DEF AloneInv, RunOK, Main, OneProcess, NoMoreCalls, InHand, OneFile, PathOf, Living, MakingOf
<1>3. AreaOK' /\ QtyOK' /\ TestOK'
  BY <1>1, SameProfiled DEF AloneInv, AreaOK, QtyOK, TestOK, Testing, Main
<1>5. Awaited(2)' = Awaited(2) /\ Kinds(CallsOf(2))' = Kinds(CallsOf(2))
  BY <1>1, SameProfiled DEF Awaited, Kinds, Kind
<1>4. AnalysesCommand' /\ FailsForCause'
  BY <1>1, <1>5, SameProfiled
     DEF AloneInv, AnalysesCommand, FailsForCause, Alone, Testing, LogsEachCall
<1> QED
  BY <1>1, <1>2, <1>3, <1>4 DEF AloneInv

LEMMA InvNext ==
  ASSUME Decimals, IInv, [Next]_vars
  PROVE  IInv'
<1>1. SafeInv /\ SafeInv'
  BY SafeNext DEF IInv
<1>2. SUFFICES ASSUME Alone', PlainPaths' PROVE AloneInv'
  BY <1>1 DEF IInv
<1>3. job' = job /\ options' = options
  BY DEF Next, vars, tool, Begin, MapCounts, ReadCounts, MapLog, MapFile, Analyse, Process,
         Terminated
<1>4. Alone /\ PlainPaths /\ AloneInv
  BY <1>2, <1>3 DEF IInv, Alone, PlainPaths, Plain
<1>5. CASE UNCHANGED vars
  BY <1>1, <1>4, <1>5, AloneStutter
<1>6. CASE Next
  <2>1. CASE Terminated
    BY <1>5, <2>1 DEF Terminated
  <2> QED
    BY <1>1, <1>4, <1>6, <2>1, BeginAlone, MapCountsAlone, ReadCountsAlone, MapLogAlone,
       AnalyseAlone, ProcessAlone DEF Next
<1> QED
  BY <1>5, <1>6

\* The inductive invariant.
THEOREM Invariance == ASSUME Decimals PROVE Spec => []IInv
<1>1. Init => IInv
  BY SafeInit, AloneInit DEF IInv
<1>2. IInv /\ [Next]_vars => IInv'
  BY InvNext
<1> QED
  BY <1>1, <1>2, PTL DEF Spec

\* What the analysis of a command that the shell becomes has seen is each of
\* its calls that returned, in one record, and no call of another program or
\* of an earlier run (mprofSizeAnalysis and mprofCompactnessAnalysis after
\* mprofTestProgram).
THEOREM AnalysesCommandAlways == ASSUME Decimals PROVE Spec => []AnalysesCommand
<1>1. IInv => AnalysesCommand
  BY DEF IInv, AloneInv, AnalysesCommand, Profiled, PlainPaths
<1> QED
  BY <1>1, Invariance, PTL

\* LOG_QTY is the number of calls of the first run and one block for each slot
\* of the counts file, among which is that of every thread that had counted a
\* call, and none that was not claimed: also when threads, or the process, were
\* killed between the atomic add and the end of mmapSize (mprofTestProgram's
\* totalAllocs).
THEOREM SizedByCountsAlways == ASSUME Decimals PROVE Spec => []SizedByCounts
<1>1. ASSUME IInv PROVE SizedByCounts
  <2> SUFFICES ASSUME Alone, qty # 0, Profiled(1), NEW p \in Commands(1),
                      NEW r, r = procs[1][p]
               PROVE  /\ qty = Cardinality(CallsOf(1)) + CacheQty * FileSlots(r)
                      /\ \A t \in Threads : r.n[t] > 0 => r.at[t] < FileSlots(r)
                      /\ FileSlots(r) <= r.next
    BY DEF SizedByCounts
  <2>1. SafeInv /\ AloneInv /\ PlainPaths
    BY <1>1 DEF IInv, Profiled, PlainPaths
  <2>2. PICK k \in Runs : k = 1
    BY DEF Runs
  <2>3. /\ Commands(k) = {MainPid} /\ CallsOf(k) = MadeBy(k, Main(k)) /\ MadeBy(k, Main(k)) # {}
        /\ Main(k).lib = "ready" /\ OneProcess(k, Main(k)) /\ ProcOK(k, Main(k))
    BY <2>1, <2>2, ProfiledMain
  <2>4. r = Main(k)
    BY <2>2, <2>3 DEF Main
  <2>5. qty = Cardinality(MadeBy(1, Main(1))) + CacheQty * FileSlots(Main(1))
    BY <2>1 DEF AloneInv, QtyOK
  <2>6. CountSlots(r) /\ ProcTyped(r)
    BY <2>2, <2>3, <2>4, TypedProc DEF OneProcess, ProcOK
  <2>7. \A t \in Threads : r.n[t] > 0 => r.at[t] < FileSlots(r)
    BY <2>6, CountedSlot
  <2>8. FileSlots(r) <= r.next
    <3>1. PICK c : c \in MadeBy(k, r)
      BY <2>3, <2>4
    <3>2. PICK t \in Threads : r.n[t] > 0
      BY <2>6, <3>1, MadeByThread
    <3>3. r.at[t] \in Nat /\ r.at[t] < r.next /\ r.next \in Nat /\ r.size \in Nat
      BY <2>6, <3>2, CountedSlot DEF CountSlots, ProcTyped, NULL
    <3> QED
      BY <2>6, <3>3 DEF CountSlots, FileSlots
  <2> QED
    BY <2>2, <2>3, <2>4, <2>5, <2>7, <2>8
<1> QED
  BY <1>1, Invariance, PTL

\* A second run in which no thread begins more calls than it has made in the
\* first one finds room for all of them: mmapSize is not called, however its
\* threads take turns at the log's slots.
THEOREM LogNeverGrowsAlways == ASSUME Decimals PROVE Spec => []LogNeverGrows
<1>1. ASSUME IInv PROVE LogNeverGrows
  <2> SUFFICES ASSUME Alone, NEW p \in Commands(1), NEW q \in Commands(2), Profiled(1), Profiled(2),
                      \A t \in Threads : Begun(procs[2][q], t) <= procs[1][p].n[t]
               PROVE  procs[2][q].size = qty /\ procs[2][q].resize = 0
    BY DEF LogNeverGrows
  <2>1. SafeInv /\ AloneInv /\ PlainPaths
    BY <1>1 DEF IInv, Profiled, PlainPaths
  <2>2. PICK i \in Runs, j \in Runs : i = 1 /\ j = 2
    BY DEF Runs
  <2>3. Commands(i) = {MainPid}
    BY <2>1, <2>2, ProfiledMain
  <2>4. Commands(j) = {MainPid} /\ OneProcess(j, Main(j)) /\ Main(j).lib = "ready"
    BY <2>1, <2>2, ProfiledMain
  <2>5. p = MainPid /\ q = MainPid
    BY <2>2, <2>3, <2>4
  <2>6. NoMoreCalls(Main(2))
    BY <2>5 DEF NoMoreCalls, Main
  <2>7. Main(2).size = qty /\ Main(2).resize = 0
    BY <2>2, <2>4, <2>6 DEF OneProcess
  <2> QED
    BY <2>5, <2>7 DEF Main
<1> QED
  BY <1>1, Invariance, PTL

\* A test ends without a result only when a system call of the tool was
\* refused, a run was not profiled, or the thread that claimed the first slot
\* had not counted a call yet (mprofTestProgram's breaks); and it crashes only
\* when no call of the second run asked for a byte, so that the analysis
\* divides by 0, or none got an address, so that it looks behind an empty list.
THEOREM FailsForCauseAlways == ASSUME Decimals PROVE Spec => []FailsForCause
<1>1. ASSUME IInv PROVE FailsForCause
  <2>1. PlainPaths => FailsForCause
    BY <1>1 DEF IInv, AloneInv, FailsForCause
  <2>2. ~ PlainPaths => FailsForCause
    BY DEF PlainPaths, FailsForCause, Profiled
  <2> QED
    BY <2>1, <2>2
<1> QED
  BY <1>1, Invariance, PTL
=============================================================================
