-------------------------- MODULE Bootstrap_proofs --------------------------
(***************************************************************************)
(* Theorems about Bootstrap for any number of threads: IInv is inductive   *)
(* with no assumption on which of them comes first; then, for a process    *)
(* whose first call is made before it has a second thread, LifeInv,        *)
(* BlockInv and FrontInv, each inductive together with those before it.    *)
(***************************************************************************)
EXTENDS Integers, BootstrapLife, TLAPS

USE BootstrapAssumption, TmpAssumption

(***************************************************************************)
(* Lemmas about the operators.                                             *)
(***************************************************************************)

\* size_t stays in its range (TmpAlloc.c: tmpRemaining -= in_size).
LEMMA ModInRange ==
  ASSUME NEW a \in Int
  PROVE  a % SizeMod \in 0 .. SizeMod - 1
BY SMT

\* So does the difference of two sizes (TmpAlloc.c: tmpSize - tmpRemaining).
LEMMA MinusInRange ==
  ASSUME NEW a \in 0 .. SizeMod - 1, NEW b \in 0 .. SizeMod - 1
  PROVE  Minus(a, b) \in 0 .. SizeMod - 1
BY ModInRange, SMT DEF Minus

\* And every size a call asks TmpAlloc for, products of calloc included.
LEMMA RequestsInRange ==
  ASSUME NEW op
  PROVE  Requests(op, Sizes) \subseteq 0 .. SizeMod - 1
<1> SUFFICES ASSUME NEW n \in Products(Sizes)
             PROVE  n \in 0 .. SizeMod - 1
  BY DEF Requests
<1>1. PICK q \in Sizes, s \in Sizes : n = (q * s) % SizeMod
  BY DEF Products
<1>2. q * s \in Int
  BY <1>1, SMT
<1>3. (q * s) % SizeMod \in 0 .. SizeMod - 1
  BY <1>2, ModInRange, Zenon
<1> QED
  BY <1>1, <1>3, Zenon

\* The calls somebody can make with the blocks it got are calls.
LEMMA CallsWithAreCalls ==
  ASSUME NEW bs \in SUBSET Blocks
  PROVE  CallsWith(bs) \subseteq Calls
BY DEF CallsWith, Calls, Blocks, Names

\* One word of an assignment to mprofVtable (libmprof.c, mprofLDInit.c:
\* mprofVtable = ...).
LEMMA AssignTyped ==
  ASSUME vtable \in [Entries -> Targets], word \in [Threads -> 0 .. 4], NEW t \in Threads,
         NEW x \in Targets, NEW l, Assign(t, x, l)
  PROVE  /\ vtable' \in [Entries -> Targets] /\ word' \in [Threads -> 0 .. 4]
         /\ \A e \in Entries : vtable'[e] = x \/ vtable'[e] = vtable[e]
         /\ word'[t] = IF word[t] = 4 THEN 0 ELSE word[t] + 1
         /\ \A u \in Threads \ {t} : word'[u] = word[u]
         /\ Goto(t, IF word[t] = 4 THEN l ELSE pc[t])
<1>1. (word[t] + 1) % 5 = IF word[t] = 4 THEN 0 ELSE word[t] + 1
  BY SMT
<1>2. /\ vtable' = [vtable EXCEPT ![entries[word[t] + 1]] = x]
      /\ word' = [word EXCEPT ![t] = (word[t] + 1) % 5]
      /\ Goto(t, IF word[t] = 4 THEN l ELSE pc[t])
  BY DEF Assign
<1>3. word'[t] \in 0 .. 4
  BY <1>1, <1>2
<1> QED
  BY <1>1, <1>2, <1>3

\* A thread that is not in a call has the types of one that is.
LEMMA NoCallIsCall ==
  /\ NoCall \in Calls /\ PerrorCall \in Calls
  /\ NotNested \in [at : {"app"} \union Nesting, call : Calls]
BY DEF NoCall, PerrorCall, NotNested, Calls, Names

(***************************************************************************)
(* What the ways out of a call do to the thread that takes them.           *)
(***************************************************************************)

\* The parts of TypeOK about the threads and what the blocks went to.
ThreadTypes ==
  /\ phase \in Phases
  /\ served \in BOOLEAN /\ held \subseteq Blocks /\ lib \subseteq Blocks
  /\ pc \in [Threads -> Labels]
  /\ call \in [Threads -> Calls]
  /\ outer \in [Threads -> [at : {"app"} \union Nesting, call : Calls]]
  /\ index \in [Threads -> 0 .. 4]
  /\ word \in [Threads -> 0 .. 4]
  /\ nested \in [Threads -> 0 .. MaxNested]

\* A call that returns a block or null leaves every thread well typed.
LEMMA ReturnTyped ==
  ASSUME ThreadTypes, NEW t \in Threads, NEW p \in Blocks \union {"null"},
         Return(t, p), UNCHANGED phase
  PROVE  ThreadTypes'
<1>1. outer[t] \in [at : {"app"} \union Nesting, call : Calls]
  BY DEF ThreadTypes
<1>2. outer[t].at \in Labels /\ outer[t].call \in Calls
  BY <1>1 DEF Nesting, Labels, Booting, Leaving
<1>3. pc' \in [Threads -> Labels] /\ call' \in [Threads -> Calls]
  BY <1>2 DEF ThreadTypes, Return, Goto
<1>4. outer' \in [Threads -> [at : {"app"} \union Nesting, call : Calls]]
  BY NoCallIsCall DEF ThreadTypes, Return
<1>5. served' \in BOOLEAN /\ held' \subseteq Blocks /\ lib' \subseteq Blocks
  BY DEF ThreadTypes, Return
<1> QED
  BY <1>3, <1>4, <1>5 DEF ThreadTypes, Return

\* So does exit.
LEMMA ExitsTyped ==
  ASSUME ThreadTypes, NEW t \in Threads, Exits(t), UNCHANGED <<served, held, lib>>
  PROVE  ThreadTypes'
<1>1. pc' \in [Threads -> Labels] /\ phase' \in Phases
  BY DEF ThreadTypes, Exits, Goto, Labels, Leaving, Phases, Live
<1>2. call' \in [Threads -> Calls]
  BY NoCallIsCall DEF ThreadTypes, Exits
<1>3. outer' \in [Threads -> [at : {"app"} \union Nesting, call : Calls]]
  BY NoCallIsCall DEF ThreadTypes, Exits
<1> QED
  BY <1>1, <1>2, <1>3 DEF ThreadTypes, Exits

\* And a step of a thread within its call.
LEMMA GotoTyped ==
  ASSUME ThreadTypes, NEW t \in Threads, NEW l \in Labels, Goto(t, l),
         UNCHANGED <<phase, served, held, lib, outer, nested>>,
         call' \in [Threads -> Calls], index' \in [Threads -> 0 .. 4], word' \in [Threads -> 0 .. 4]
  PROVE  ThreadTypes'
BY DEF ThreadTypes, Goto

\* And the end of the process.
LEMMA CrashTyped ==
  ASSUME ThreadTypes, NEW t \in Threads, NEW p \in Phases, Crash(t, p),
         UNCHANGED <<served, held, lib>>
  PROVE  ThreadTypes'
BY DEF ThreadTypes, Crash, threadVars

-----------------------------------------------------------------------------
\* A step of thread t that constructs and resolves no less, and after which t
\* is still where Boot allows it, keeps Boot of every thread.
LEMMA OthersKeep ==
  ASSUME TypeOK, \A u \in Threads : Boot(u), NEW t \in Threads, NEW u \in Threads \ {t},
         pc'[u] = pc[u], outer'[u] = outer[u], index'[u] = index[u], word'[u] = word[u],
         constructs' \in Nat, constructs' >= constructs,
         resolved \subseteq resolved', resolved' \subseteq Names
  PROVE  Boot(u)'
<1>1. Boot(u)
  OBVIOUS
<1>2. Places(u)' = Places(u) /\ constructs \in Nat /\ index[u] \in 0 .. 4
  BY DEF Places, TypeOK
<1>3. Ready => Ready'
  BY <1>2 DEF Ready, ToMode
<1>4. (Places(u) \intersect Constructed # {})' => constructs' > 0
  BY <1>1, <1>2 DEF Boot, Constructed
<1>5. \A i \in 1 .. index'[u] : ldNames[i] \in resolved'
  BY <1>1 DEF Boot
<1> QED
  BY <1>1, <1>2, <1>3, <1>4, <1>5 DEF Boot

\* A call that returns puts its thread where it was when it made the call.
LEMMA ReturnBoots ==
  ASSUME TypeOK, NEW t \in Threads, Boot(t), NEW p, Return(t, p), pc[t] \in Serving,
         UNCHANGED <<constructs, resolved>>
  PROVE  Boot(t)'
<1>1. outer[t] \in [at : {"app"} \union Nesting, call : Calls]
  BY DEF TypeOK
<1>2. pc'[t] = outer[t].at /\ outer'[t].at = "app" /\ index' = index /\ word'[t] = 0
  BY DEF TypeOK, Return, Goto, NotNested, Boot, Serving, Assigning
<1>3. Places(t)' \subseteq Places(t) \union {"app"}
  BY <1>2 DEF Places
<1>4. pc'[t] \notin {"finish", "handler"}
  BY <1>1, <1>2 DEF Nesting
<1>5. (Places(t) \intersect Constructed # {})' => constructs' > 0
  BY <1>3 DEF Boot, Constructed
<1>6. \A i \in 1 .. index'[t] : ldNames[i] \in resolved'
  BY <1>2 DEF Boot
<1>7. ("dlsym" \in Places(t) => index[t] < 4)'
  BY <1>2, <1>3 DEF Boot
<1> QED
  BY <1>2, <1>4, <1>5, <1>6, <1>7 DEF Boot

\* exit leaves the init.
LEMMA ExitsBoots ==
  ASSUME TypeOK, NEW t \in Threads, Boot(t), Exits(t), pc[t] \notin Assigning \/ word[t] = 0,
         constructs' = constructs, resolved' = resolved
  PROVE  Boot(t)'
<1>1. /\ pc'[t] \in {"destruct", "halted"} /\ outer'[t].at = "app" /\ index' = index
      /\ word'[t] = 0
  BY DEF TypeOK, Exits, Goto, NotNested, Boot
<1> QED
  BY <1>1 DEF Boot, Places, Constructed

-----------------------------------------------------------------------------
(***************************************************************************)
(* IInv is inductive.                                                      *)
(***************************************************************************)

\* TypeOK, in the parts the steps prove one by one.
LEMMA TypeParts ==
  ASSUME vtable \in [Entries -> Targets],
         postInit \in {"null", "mode"}, resolved \subseteq Names,
         constructs \in Nat, destructs \in Nat, ThreadTypes, TmpTypeOK
  PROVE  TypeOK
BY DEF TypeOK, ThreadTypes

\* The initial values have their types.
LEMMA InitTyped ==
  ASSUME Init
  PROVE  TypeOK
<1> 0 \in 0 .. SizeMod - 1 /\ TmpSize \in 0 .. SizeMod - 1
  BY TmpAssumption
<1> 0 \in 0 .. MaxNested /\ 0 \in 0 .. 4 /\ 0 \in Nat /\ 0 \in 0 .. 2
  BY BootstrapAssumption
<1>1. TmpTypeOK
  <2>1. TmpInit
    BY DEF Init
  <2> QED
    BY <2>1, Zenon DEF TmpInit, TmpTypeOK
<1>2. ThreadTypes
  <2>1. "running" \in Phases /\ "app" \in Labels
    BY DEF Phases, Live, Labels
  <2> QED
    BY <2>1, NoCallIsCall, Zenon DEF Init, ThreadTypes
<1>3. resolved \subseteq Names
  BY Zenon DEF Init
<1>4. vtable \in [Entries -> Targets]
  <2>1. vtable = [e \in Entries |-> "libinit"] /\ "libinit" \in Targets
    BY Zenon DEF Init, Targets
  <2> QED
    BY <2>1
<1> QED
  BY <1>1, <1>2, <1>3, <1>4, TypeParts, Zenon DEF Init

\* Before the first call nobody is in the init or a handler.
LEMMA InitInv == Init => IInv
<1> SUFFICES ASSUME Init PROVE IInv
  OBVIOUS
<1>1. ASSUME NEW t \in Threads
      PROVE  Boot(t)
  <2>1. pc[t] = "app" /\ outer[t].at = "app" /\ index[t] = 0 /\ word[t] = 0
    BY Zenon DEF Init, NotNested
  <2> QED
    BY <2>1 DEF Boot, Places, Constructed
<1> QED
  <2>1. \A e \in Entries : vtable[e] = "libinit"
    BY Zenon DEF Init
  <2> QED
    BY <1>1, <2>1, InitTyped DEF IInv, ToMode

\* IInv holds ThreadTypes, TmpTypeOK and Boot.
LEMMA IInvParts ==
  ASSUME IInv
  PROVE  /\ TypeOK /\ ThreadTypes /\ TmpTypeOK
         /\ \A u \in Threads : Boot(u)
         /\ ToMode => Ready
BY DEF IInv, TypeOK, ThreadTypes

\* A step moves one thread; what it must show of that thread, of the tables
\* and of TmpAlloc is enough for IInv.
LEMMA StepOfOne ==
  ASSUME IInv, NEW t \in Threads,
         \A u \in Threads \ {t} :
           pc'[u] = pc[u] /\ outer'[u] = outer[u] /\ index'[u] = index[u] /\ word'[u] = word[u],
         vtable' \in [Entries -> Targets],
         postInit' \in {"null", "mode"},
         resolved \subseteq resolved', resolved' \subseteq Names,
         constructs' \in Nat, constructs' >= constructs, destructs' \in Nat,
         ThreadTypes', TmpTypeOK', Boot(t)', (ToMode => Ready)'
  PROVE  IInv'
<1>1. TypeOK'
  BY DEF TypeOK, ThreadTypes
<1>2. ASSUME NEW u \in Threads
      PROVE  Boot(u)'
  <2>1. CASE u = t
    BY <2>1
  <2>2. CASE u # t
    BY <2>2, OthersKeep, IInvParts
  <2> QED
    BY <2>1, <2>2
<1> QED
  BY <1>1, <1>2 DEF IInv

\* Such a step that changes no table.
LEMMA StepInTables ==
  ASSUME IInv, NEW t \in Threads,
         \A u \in Threads \ {t} :
           pc'[u] = pc[u] /\ outer'[u] = outer[u] /\ index'[u] = index[u] /\ word'[u] = word[u],
         UNCHANGED <<vtable, postInit, resolved, constructs>>,
         destructs' \in Nat, ThreadTypes', TmpTypeOK', Boot(t)'
  PROVE  IInv'
<1>1. constructs \in Nat /\ resolved \subseteq Names
  BY IInvParts DEF TypeOK
<1>2. (ToMode => Ready)'
  BY IInvParts DEF Ready, ToMode
<1>3. /\ vtable' \in [Entries -> Targets]
      /\ postInit' \in {"null", "mode"}
  BY IInvParts DEF TypeOK
<1> QED
  BY <1>1, <1>2, <1>3, StepOfOne

\* TmpAlloc's own variables keep their ranges.
LEMMA TmpTyped ==
  ASSUME TmpTypeOK, NEW t \in Threads,
         \/ UNCHANGED tmpVars
         \/ \E n \in 0 .. SizeMod - 1 : TmpRequest(t, n)
         \/ TmpAddress(t) \/ TmpSubtract(t)
  PROVE  TmpTypeOK'
<1>1. CASE UNCHANGED tmpVars
  BY <1>1 DEF TmpTypeOK, tmpVars
<1>2. CASE \E n \in 0 .. SizeMod - 1 : TmpRequest(t, n)
  BY <1>2 DEF TmpTypeOK, TmpRequest
<1> TmpSize \in 0 .. SizeMod - 1
  BY TmpAssumption
<1>3. CASE TmpAddress(t)
  <2>1. Minus(TmpSize, tmpRemaining) \in 0 .. SizeMod - 1
    BY MinusInRange DEF TmpTypeOK
  <2> QED
    BY <1>3, <2>1 DEF TmpTypeOK, TmpAddress
<1>4. CASE TmpSubtract(t)
  <2>1. want[t] \in 0 .. SizeMod - 1 /\ addr[t] \in 0 .. SizeMod - 1
    BY DEF TmpTypeOK
  <2>2. Minus(TmpSize, addr[t]) \in 0 .. SizeMod - 1
    BY <2>1, MinusInRange
  <2>3. tmpRemaining' \in 0 .. SizeMod - 1
    <3>1. PICK r \in {tmpRemaining, Minus(TmpSize, addr[t])} :
            tmpRemaining' = Minus(r, want[t])
      BY <1>4, Zenon DEF TmpSubtract
    <3>2. r \in 0 .. SizeMod - 1
      BY <2>2, <3>1, Zenon DEF TmpTypeOK
    <3> QED
      BY <2>1, <3>1, <3>2, MinusInRange, Zenon
  <2>4. \A b \in Bytes : Covered(b, t) \in 0 .. 2
    BY DEF Covered, TmpTypeOK
  <2>5. cover' \in [Bytes -> 0 .. 2]
    BY <1>4, <2>4 DEF TmpSubtract
  <2>6. stray' \in BOOLEAN
    BY <1>4, Zenon DEF TmpSubtract, TmpTypeOK
  <2> QED
    BY <1>4, <2>3, <2>5, <2>6 DEF TmpSubtract, TmpTypeOK
<1> QED
  BY <1>1, <1>2, <1>3, <1>4

-----------------------------------------------------------------------------
(***************************************************************************)
(* Every action keeps IInv.                                                *)
(***************************************************************************)

\* The program's call, and that of a library inside the init.
LEMMA EnterInv ==
  ASSUME IInv, NEW t \in Threads, Enter(t)
  PROVE  IInv'
<1>1. PICK c \in CallsWith(held) : call' = [call EXCEPT ![t] = c]
  BY DEF Enter
<1>2. c \in Calls
  BY <1>1, CallsWithAreCalls, IInvParts DEF ThreadTypes
<1>3. ThreadTypes'
  BY <1>1, <1>2, IInvParts DEF ThreadTypes, Enter, Goto, threadVars, Labels, Serving
<1>4. /\ pc' = [pc EXCEPT ![t] = "dispatch"] /\ pc[t] \notin Assigning
      /\ UNCHANGED <<outer, index, word, tables, tmpVars>>
  BY DEF Enter, Goto, At, Assigning
<1>5. TmpTypeOK'
  BY <1>4, TmpTyped, IInvParts
<1>6. Boot(t)'
  <2>1. pc'[t] = "dispatch" /\ Places(t)' \subseteq Places(t) \union {"dispatch"}
    BY <1>4, IInvParts DEF ThreadTypes, Places
  <2> QED
    BY <1>4, <2>1, IInvParts DEF Boot, Constructed, Serving, tables
<1>7. \A u \in Threads \ {t} : pc'[u] = pc[u] /\ outer'[u] = outer[u] /\ index'[u] = index[u] /\ word'[u] = word[u]
  BY <1>4, IInvParts DEF ThreadTypes
<1> QED
  BY <1>3, <1>4, <1>5, <1>6, <1>7, StepInTables, IInvParts DEF tables, TypeOK

\* A call from within the init (libmprof.c: dlopen, dlsym, construct).
LEMMA NestInv ==
  ASSUME IInv, NEW t \in Threads, Nest(t)
  PROVE  IInv'
<1>1. PICK c \in CallsWith(lib) : call' = [call EXCEPT ![t] = c]
  BY DEF Nest
<1>2. c \in Calls
  BY <1>1, CallsWithAreCalls, IInvParts DEF ThreadTypes
<1>3. /\ pc' = [pc EXCEPT ![t] = "dispatch"]
      /\ outer' = [outer EXCEPT ![t] = [at |-> pc[t], call |-> call[t]]]
      /\ pc[t] \notin Assigning
      /\ UNCHANGED <<index, word, tables, tmpVars, phase, served, held, lib>>
  BY DEF Nest, Goto, Nesting, Assigning
<1>4. [at |-> pc[t], call |-> call[t]] \in [at : {"app"} \union Nesting, call : Calls]
  BY IInvParts DEF Nest, ThreadTypes
<1>5. outer' \in [Threads -> [at : {"app"} \union Nesting, call : Calls]]
  BY <1>3, <1>4, IInvParts DEF ThreadTypes
<1>6. nested' \in [Threads -> 0 .. MaxNested]
  BY BootstrapAssumption, IInvParts DEF Nest, ThreadTypes
<1>7. ThreadTypes'
  BY <1>1, <1>2, <1>3, <1>5, <1>6, IInvParts DEF ThreadTypes, Labels, Serving
<1>8. TmpTypeOK'
  BY <1>3, TmpTyped, IInvParts
<1>9. Boot(t)'
  <2>1. pc'[t] = "dispatch" /\ Places(t)' \subseteq Places(t) \union {"dispatch"}
    BY <1>3, IInvParts DEF ThreadTypes, Places
  <2> QED
    BY <1>3, <2>1, IInvParts DEF Boot, Constructed, Serving, tables
<1>10. \A u \in Threads \ {t} : pc'[u] = pc[u] /\ outer'[u] = outer[u] /\ index'[u] = index[u] /\ word'[u] = word[u]
  BY <1>3, IInvParts DEF ThreadTypes
<1> QED
  BY <1>3, <1>7, <1>8, <1>9, <1>10, StepInTables, IInvParts DEF tables, TypeOK

\* The four ways on for a thread that leaves the tables alone: return, exit,
\* the end of the process, and a step outside the part of the init in which
\* Boot asks for more.
LEMMA ReturnInv ==
  ASSUME IInv, NEW t \in Threads, NEW p \in Blocks \union {"null"}, Return(t, p),
         pc[t] \in Serving, UNCHANGED <<phase, tables>>, TmpTypeOK'
  PROVE  IInv'
<1>1. ThreadTypes'
  BY ReturnTyped, IInvParts
<1>2. Boot(t)'
  BY ReturnBoots, IInvParts DEF tables
<1>3. \A u \in Threads \ {t} : pc'[u] = pc[u] /\ outer'[u] = outer[u] /\ index'[u] = index[u] /\ word'[u] = word[u]
  BY IInvParts DEF ThreadTypes, Return, Goto
<1> QED
  BY <1>1, <1>2, <1>3, StepInTables, IInvParts DEF tables, TypeOK

\* exit() from wherever a thread may call it, outside the tables.
LEMMA ExitsInv ==
  ASSUME IInv, NEW t \in Threads, Exits(t), pc[t] \notin Assigning \/ word[t] = 0,
         UNCHANGED <<tables, served, held, lib, tmpVars>>
  PROVE  IInv'
<1>1. ThreadTypes'
  BY ExitsTyped, IInvParts
<1>2. Boot(t)'
  BY ExitsBoots, IInvParts DEF tables
<1>3. \A u \in Threads \ {t} : pc'[u] = pc[u] /\ outer'[u] = outer[u] /\ index'[u] = index[u] /\ word'[u] = word[u]
  BY IInvParts DEF ThreadTypes, Exits, Goto
<1>4. TmpTypeOK'
  BY TmpTyped, IInvParts
<1> QED
  BY <1>1, <1>2, <1>3, <1>4, StepInTables, IInvParts DEF tables, TypeOK

\* The end of the process, whatever its reason.
LEMMA CrashInv ==
  ASSUME IInv, NEW t \in Threads, NEW p \in Phases, Crash(t, p),
         UNCHANGED <<tables, served, held, lib, tmpVars>>
  PROVE  IInv'
<1>1. ThreadTypes'
  BY CrashTyped, IInvParts
<1>2. UNCHANGED <<pc, outer, index, word, constructs, resolved>>
  BY DEF Crash, threadVars, tables
<1>3. Boot(t)'
  BY <1>2, IInvParts DEF Boot, Places, Ready
<1>4. TmpTypeOK'
  BY TmpTyped, IInvParts
<1> QED
  BY <1>1, <1>2, <1>3, <1>4, StepInTables, IInvParts DEF tables, TypeOK

\* A step of one thread to a place that asks for nothing new.
LEMMA GotoInv ==
  ASSUME IInv, NEW t \in Threads, NEW l \in Labels \ (Constructed \union {"handler"}),
         l \in Serving \/ outer[t].at = "app", Goto(t, l), pc[t] \notin Assigning,
         UNCHANGED <<phase, served, held, lib, outer, index, word, nested,
                     vtable, postInit, resolved, constructs>>,
         call' \in [Threads -> Calls], destructs' \in Nat, TmpTypeOK'
  PROVE  IInv'
<1>1. ThreadTypes'
  BY GotoTyped, IInvParts DEF ThreadTypes
<1>2. pc'[t] = l
  BY IInvParts DEF Goto, ThreadTypes
<1>3. Places(t)' \subseteq Places(t) \union {l}
  BY <1>2 DEF Places
<1>4. Boot(t)'
  BY <1>2, <1>3, IInvParts DEF Boot, Constructed
<1>5. \A u \in Threads \ {t} : pc'[u] = pc[u] /\ outer'[u] = outer[u] /\ index'[u] = index[u] /\ word'[u] = word[u]
  BY IInvParts DEF ThreadTypes, Goto
<1> QED
  BY <1>1, <1>4, <1>5, StepInTables

\* perror in TmpAlloc: its own request starts a call that is TmpAlloc's.
LEMMA PerrorInv ==
  ASSUME IInv, NEW t \in Threads, TmpPerror(t), pc[t] \in Serving, UNCHANGED <<phase, tables>>
  PROVE  IInv'
<1>1. UNCHANGED <<vtable, postInit, resolved, constructs>> /\ destructs' \in Nat
  BY IInvParts DEF tables, TypeOK
<1>2. CASE Return(t, "null") /\ UNCHANGED tmpVars
  <2>1. TmpTypeOK'
    BY <1>2, TmpTyped, IInvParts
  <2> QED
    BY <1>2, <2>1, ReturnInv
<1>3. CASE /\ \E n \in Sizes : TmpRequest(t, n)
           /\ call' = [call EXCEPT ![t] = PerrorCall]
           /\ Goto(t, "test")
           /\ UNCHANGED <<served, held, lib, outer, index, word, nested>>
  <2>1. TmpTypeOK'
    BY <1>3, TmpTyped, IInvParts
  <2>2. "test" \in Labels \ (Constructed \union {"handler"}) /\ "test" \in Serving
    BY DEF Labels, Serving, Constructed
  <2>3. call' \in [Threads -> Calls] /\ pc[t] \notin Assigning
    BY <1>3, NoCallIsCall, IInvParts DEF ThreadTypes, Serving, Assigning
  <2> QED
    BY <1>1, <1>3, <2>1, <2>2, <2>3, GotoInv
<1> QED
  BY <1>2, <1>3 DEF TmpPerror

\* A race that is detected: perror, then exit.
LEMMA RaceInv ==
  ASSUME IInv, NEW t \in Threads, RaceDetected(t), pc[t] \in Serving,
         UNCHANGED <<tables, served, held, lib, tmpVars>>
  PROVE  IInv'
<1>1. pc[t] \notin Assigning
  BY DEF Serving, Assigning
<1>2. CASE Exits(t)
  BY <1>1, <1>2, ExitsInv
<1>3. CASE /\ Goto(t, "race") /\ call' = [call EXCEPT ![t] = NoCall]
           /\ outer' = [outer EXCEPT ![t] = NotNested]
           /\ UNCHANGED <<phase, index, word, nested>>
  <2>1. outer' \in [Threads -> [at : {"app"} \union Nesting, call : Calls]]
    BY <1>3, NoCallIsCall, IInvParts DEF ThreadTypes
  <2>2. call' \in [Threads -> Calls]
    BY <1>3, NoCallIsCall, IInvParts DEF ThreadTypes
  <2>3. ThreadTypes'
    BY <1>3, <2>1, <2>2, IInvParts DEF ThreadTypes, Goto, Labels
  <2>4. TmpTypeOK'
    BY TmpTyped, IInvParts
  <2>5. /\ pc'[t] = "race" /\ outer'[t].at = "app" /\ Places(t)' = {"race", "app"}
        /\ word'[t] = 0
    BY <1>1, <1>3, IInvParts DEF ThreadTypes, Goto, NotNested, Places, Boot
  <2>6. Boot(t)'
    BY <1>3, <2>5, IInvParts DEF Boot, Constructed, tables
  <2>7. \A u \in Threads \ {t} : /\ pc'[u] = pc[u] /\ outer'[u] = outer[u]
                               /\ index'[u] = index[u] /\ word'[u] = word[u]
    BY <1>3, IInvParts DEF ThreadTypes, Goto
  <2> QED
    BY <2>3, <2>4, <2>6, <2>7, StepInTables, IInvParts DEF tables, TypeOK
<1> QED
  BY <1>2, <1>3 DEF RaceDetected

\* exit after it.
LEMMA RaceExitInv ==
  ASSUME IInv, NEW t \in Threads, RaceExit(t)
  PROVE  IInv'
BY ExitsInv DEF RaceExit, At, Assigning

\* Dispatch, which goes to a handler only when the table leads to the MODE.
LEMMA DispatchInv ==
  ASSUME IInv, NEW t \in Threads, Dispatch(t)
  PROVE  IInv'
<1>1. /\ UNCHANGED tables /\ pc[t] = "dispatch" /\ pc[t] \in Serving /\ pc[t] \notin Assigning
      /\ call \in [Threads -> Calls]
  BY IInvParts DEF Dispatch, At, Serving, Assigning, ThreadTypes
<1>2. UNCHANGED <<vtable, postInit, resolved, constructs>> /\ destructs' \in Nat
  BY <1>1, IInvParts DEF tables, TypeOK
<1>3. CASE Leads(t, "libinit")
  <2>1. UNCHANGED <<served, held, lib, tmpVars>>
    BY <1>3 DEF Dispatch, Leads
  <2>2. TmpTypeOK'
    BY <2>1, TmpTyped, IInvParts
  <2>3. CASE outer[t].at = "app"
    <3>1. Goto(t, "enter") /\ UNCHANGED <<phase, call, outer, index, word, nested>>
      BY <1>3, <2>3 DEF Dispatch, Leads
    <3>2. "enter" \in Labels \ (Constructed \union {"handler"})
      BY DEF Labels, Booting, Constructed
    <3> QED
      BY <1>1, <1>2, <2>1, <2>2, <3>1, <2>3, <3>2, GotoInv
  <2>4. CASE outer[t].at # "app"
    <3>1. Crash(t, "recursed")
      BY <1>3, <2>4 DEF Dispatch, Leads
    <3> QED
      BY <1>1, <2>1, <3>1, CrashInv DEF Phases, Crashed
  <2> QED
    BY <2>3, <2>4
<1>4. CASE Leads(t, "tmp") /\ call[t].op \in {"malloc", "calloc"}
  <2>1. /\ \E n \in Requests(call[t].op, Sizes) : TmpRequest(t, n)
        /\ Goto(t, "test")
        /\ UNCHANGED <<phase, served, held, lib, call, outer, index, word, nested>>
    BY <1>4 DEF Dispatch, Leads
  <2>2. \E n \in 0 .. SizeMod - 1 : TmpRequest(t, n)
    BY <2>1, RequestsInRange
  <2>3. TmpTypeOK'
    BY <2>2, TmpTyped, IInvParts
  <2>4. "test" \in Labels \ (Constructed \union {"handler"})
    BY DEF Labels, Serving, Constructed
  <2> QED
    BY <1>1, <1>2, <2>1, <2>3, <2>4, GotoInv DEF Serving
<1>5. CASE Leads(t, "tmp") /\ call[t].op \in {"free", "realloc"}
  <2>1. UNCHANGED phase /\ (TmpPerror(t) \/ (Return(t, "null") /\ UNCHANGED tmpVars))
    BY <1>5 DEF Dispatch, TmpNothing, Leads
  <2>2. CASE Return(t, "null") /\ UNCHANGED tmpVars
    <3>1. TmpTypeOK'
      BY <2>2, TmpTyped, IInvParts
    <3> QED
      BY <1>1, <2>1, <2>2, <3>1, ReturnInv
  <2> QED
    BY <1>1, <2>1, <2>2, PerrorInv
<1>6. CASE Leads(t, "ldinit")
  <2>1. RaceDetected(t) /\ UNCHANGED <<served, held, lib, tmpVars>>
    BY <1>6 DEF Dispatch, Leads
  <2> QED
    BY <1>1, <2>1, RaceInv
<1>7. CASE Leads(t, "mode")
  <2>1. Goto(t, "handler")
    BY <1>7 DEF Dispatch, Leads
  <2>2. UNCHANGED <<phase, served, held, lib, call, outer, index, word, nested, tmpVars>>
    BY <1>7 DEF Dispatch, Leads
  <2>3. ThreadTypes'
    BY <2>1, <2>2, GotoTyped, IInvParts DEF ThreadTypes, Labels, Serving
  <2>4. TmpTypeOK' /\ word[t] = 0
    BY <1>1, <2>2, TmpTyped, IInvParts DEF Boot, ThreadTypes
  <2>5. pc' = [pc EXCEPT ![t] = "handler"] /\ pc'[t] = "handler"
    BY <2>1, IInvParts DEF Goto, ThreadTypes
  <2>6. Boot(t)'
    <3>1. Places(t)' \subseteq Places(t) \union {"handler"}
      BY <2>2, <2>5 DEF Places
    <3>2. Ready'
      BY <1>2, <1>7, IInvParts DEF Ready, ToMode, Leads, Entries
    <3> QED
      BY <1>2, <2>2, <2>4, <2>5, <3>1, <3>2, IInvParts DEF Boot, Constructed, Serving
  <2>7. \A u \in Threads \ {t} : pc'[u] = pc[u] /\ outer'[u] = outer[u] /\ index'[u] = index[u] /\ word'[u] = word[u]
    BY <2>2, <2>5, IInvParts DEF ThreadTypes
  <2> QED
    BY <1>2, <2>3, <2>4, <2>6, <2>7, StepInTables
<1> QED
  BY <1>3, <1>4, <1>5, <1>6, <1>7, Zenon DEF Dispatch

\* TmpAlloc serves a call without a handler.
LEMMA TmpMallocInv ==
  ASSUME IInv, NEW t \in Threads, TmpMalloc(t)
  PROVE  IInv'
<1>1. /\ UNCHANGED tables /\ pc[t] \in Serving /\ pc[t] \notin Assigning
      /\ call \in [Threads -> Calls]
  BY IInvParts DEF TmpMalloc, At, Serving, Assigning, ThreadTypes
<1>2. UNCHANGED <<vtable, postInit, resolved, constructs>> /\ destructs' \in Nat
  BY <1>1, IInvParts DEF tables, TypeOK
<1>3. CASE /\ Goto(t, "address")
           /\ UNCHANGED <<phase, served, held, lib, call, outer, index, word, nested, tmpVars>>
  <2>1. TmpTypeOK'
    BY <1>3, TmpTyped, IInvParts
  <2>2. "address" \in Labels \ (Constructed \union {"handler"})
    BY DEF Labels, Serving, Constructed
  <2> QED
    BY <1>1, <1>2, <1>3, <2>1, <2>2, GotoInv DEF Serving
<1>4. CASE TmpPerror(t) /\ UNCHANGED phase
  BY <1>1, <1>4, PerrorInv
<1>5. CASE /\ TmpAddress(t) /\ Goto(t, "subtract")
           /\ UNCHANGED <<phase, served, held, lib, call, outer, index, word, nested>>
  <2>1. TmpTypeOK'
    BY <1>5, TmpTyped, IInvParts
  <2>2. "subtract" \in Labels \ (Constructed \union {"handler"})
    BY DEF Labels, Serving, Constructed
  <2> QED
    BY <1>1, <1>2, <1>5, <2>1, <2>2, GotoInv DEF Serving
<1>6. CASE TmpSubtract(t) /\ UNCHANGED phase /\ \E p \in {"tmp", "null"} : Return(t, p)
  <2>1. TmpTypeOK'
    BY <1>6, TmpTyped, IInvParts
  <2>2. {"tmp", "null"} \subseteq Blocks \union {"null"}
    BY DEF Blocks
  <2> QED
    BY <1>1, <1>6, <2>1, <2>2, ReturnInv
<1>7. CASE Crash(t, "overflow") /\ UNCHANGED <<served, held, lib, tmpVars>>
  BY <1>1, <1>7, CrashInv DEF Phases
<1> QED
  BY <1>3, <1>4, <1>5, <1>6, <1>7 DEF TmpMalloc

\* A handler returns or ends the process.
LEMMA HandlerInv ==
  ASSUME IInv, NEW t \in Threads, Handler(t)
  PROVE  IInv'
<1>1. UNCHANGED <<tables, tmpVars>> /\ pc[t] \in Serving
  BY DEF Handler, At, Serving
<1>2. TmpTypeOK'
  BY <1>1, TmpTyped, IInvParts
<1>3. CASE call[t].op \in resolved /\ call[t].arg # "tmp"
  <2>1. PICK p \in Blocks \union {"null"} : Return(t, p)
    BY <1>3 DEF Handler, Blocks
  <2>2. UNCHANGED phase
    BY <1>3 DEF Handler
  <2> QED
    BY <1>1, <1>2, <2>1, <2>2, ReturnInv
<1>4. CASE ~ (call[t].op \in resolved /\ call[t].arg # "tmp")
  <2>1. UNCHANGED <<served, held, lib>>
    BY <1>4 DEF Handler
  <2>2. Crash(t, "foreign") \/ Crash(t, "nullcall")
    BY <1>4 DEF Handler
  <2>3. "foreign" \in Phases /\ "nullcall" \in Phases
    BY DEF Phases, Crashed
  <2> QED
    BY <1>1, <2>1, <2>2, <2>3, CrashInv
<1> QED
  BY <1>3, <1>4

\* One word of an assignment that leads to no MODE.
LEMMA AssignInv ==
  ASSUME IInv, NEW t \in Threads, pc[t] \in Assigning, NEW x \in {"tmp", "ldinit"},
         NEW m \in Labels \ (Serving \union {"handler", "dlsym", "finish"}), Assign(t, x, m),
         m \in Constructed => constructs > 0,
         UNCHANGED <<phase, postInit, resolved, constructs, destructs,
                     served, held, lib, call, outer, index, nested, tmpVars>>
  PROVE  IInv'
<1> DEFINE l == IF word[t] = 4 THEN m ELSE pc[t]
<1>1. /\ vtable' \in [Entries -> Targets] /\ word' \in [Threads -> 0 .. 4]
      /\ \A e \in Entries : vtable'[e] = "mode" => vtable[e] = "mode"
      /\ word'[t] > 0 => l = pc[t]
      /\ Goto(t, l) /\ \A u \in Threads \ {t} : word'[u] = word[u]
  <2>1. "tmp" \in Targets /\ "ldinit" \in Targets
    BY DEF Targets
  <2> QED
    BY <2>1, AssignTyped, IInvParts DEF TypeOK
<1>2. pc[t] \in Labels \ {"handler"} /\ pc[t] \notin Serving
  BY IInvParts DEF ThreadTypes, Assigning, Serving
<1>3. l \in Labels /\ l # "handler" /\ l \notin Serving /\ l \in {m, pc[t]}
  BY <1>2
<1>4. ThreadTypes'
  <2>1. index' \in [Threads -> 0 .. 4] /\ call' \in [Threads -> Calls]
    BY IInvParts DEF ThreadTypes
  <2> HIDE DEF l
  <2> QED
    BY <1>1, <1>3, <2>1, GotoTyped, IInvParts
<1>5. TmpTypeOK'
  BY TmpTyped, IInvParts
<1>6. pc'[t] = l /\ outer[t].at = "app" /\ Places(t)' = {l, "app"}
  BY <1>1, <1>2, IInvParts DEF Goto, ThreadTypes, Places, Boot
<1>7. Boot(t)'
  <2>1. Boot(t) /\ constructs \in Nat /\ pc[t] \in Places(t)
    BY IInvParts DEF TypeOK, Places
  <2> HIDE DEF l
  <2> QED
    BY <1>1, <1>3, <1>6, <2>1 DEF Boot, Constructed, Assigning
<1>8. \A u \in Threads \ {t} : /\ pc'[u] = pc[u] /\ outer'[u] = outer[u]
                             /\ index'[u] = index[u] /\ word'[u] = word[u]
  BY <1>1, IInvParts DEF ThreadTypes, Goto
<1>9. /\ constructs' \in Nat /\ constructs' >= constructs
      /\ postInit' \in {"null", "mode"} /\ destructs' \in Nat
      /\ resolved \subseteq resolved' /\ resolved' \subseteq Names
  BY IInvParts DEF TypeOK
<1>10. (ToMode => Ready)'
  BY <1>1, IInvParts DEF ToMode, Ready
<1> HIDE DEF l
<1> QED
  BY <1>1, <1>4, <1>5, <1>7, <1>8, <1>9, <1>10, StepOfOne

\* libmprofInit: the table of TmpAlloc (libmprof.c:79).
LEMMA LibInitInv ==
  ASSUME IInv, NEW t \in Threads, LibInit(t)
  PROVE  IInv'
<1>1. "mode" \in Labels \ (Serving \union {"handler", "dlsym", "finish"}) /\ "mode" \notin Constructed
  BY DEF Labels, Booting, Serving, Constructed
<1>2. pc[t] \in Assigning
  BY DEF LibInit, At, Assigning
<1> QED
  BY <1>1, <1>2, AssignInv DEF LibInit

\* libmprofDestruct: the table of TmpAlloc again (libmprof.c:90).
LEMMA DetachInv ==
  ASSUME IInv, NEW t \in Threads, Detach(t)
  PROVE  IInv'
<1>1. "bye" \in Labels \ (Serving \union {"handler", "dlsym", "finish"}) /\ "bye" \notin Constructed
  BY DEF Labels, Leaving, Serving, Constructed
<1>2. pc[t] \in Assigning
  BY DEF Detach, At, Assigning
<1> QED
  BY <1>1, <1>2, AssignInv DEF Detach

\* The steps of the init in and after the MODE's construct.
LEMMA BootedInv ==
  ASSUME IInv, NEW t \in Threads, pc[t] \notin Serving,
         NEW l \in Labels \ {"handler"}, Goto(t, l), pc[t] \notin Assigning,
         UNCHANGED <<phase, served, held, lib, call, outer, word, nested, tmpVars, destructs>>,
         NEW n \in 0 .. 4, index' = [index EXCEPT ![t] = n],
         vtable' \in [Entries -> Targets],
         postInit' \in {"null", "mode"},
         constructs' \in Nat, constructs' >= constructs,
         l \in Constructed => constructs' > 0,
         resolved \subseteq resolved', resolved' \subseteq Names,
         \A i \in 1 .. n : ldNames[i] \in resolved',
         l = "dlsym" => n < 4, l = "finish" => n = 4,
         (ToMode => Ready)'
  PROVE  IInv'
<1>1. outer[t].at = "app" /\ word[t] = 0
  BY IInvParts DEF Boot, ThreadTypes
<1>2. index' \in [Threads -> 0 .. 4] /\ index'[t] = n /\ word' \in [Threads -> 0 .. 4]
  BY IInvParts DEF ThreadTypes
<1>3. pc'[t] = l /\ Places(t)' = {l, "app"}
  BY <1>1, IInvParts DEF Goto, ThreadTypes, Places
<1>4. ThreadTypes'
  BY <1>2, GotoTyped, IInvParts DEF ThreadTypes
<1>5. TmpTypeOK'
  BY TmpTyped, IInvParts
<1>6. Boot(t)'
  <2>1. (Places(t) \intersect Constructed # {})' => constructs' > 0
    BY <1>3 DEF Constructed
  <2> QED
    BY <1>1, <1>2, <1>3, <2>1 DEF Boot
<1>7. \A u \in Threads \ {t} : pc'[u] = pc[u] /\ outer'[u] = outer[u] /\ index'[u] = index[u] /\ word'[u] = word[u]
  BY IInvParts DEF ThreadTypes, Goto
<1>8. destructs' \in Nat
  BY IInvParts DEF TypeOK
<1> QED
  BY <1>4, <1>5, <1>6, <1>7, <1>8, StepOfOne

\* A thread that is where no call is served is not in one, and what Boot says
\* of it.
LEMMA BootingParts ==
  ASSUME IInv, NEW t \in Threads
  PROVE  /\ constructs \in Nat /\ resolved \subseteq Names
         /\ vtable \in [Entries -> Targets]
         /\ postInit \in {"null", "mode"}
         /\ index[t] \in 0 .. 4 /\ index = [index EXCEPT ![t] = index[t]]
         /\ pc[t] \in Constructed => constructs > 0
         /\ \A i \in 1 .. index[t] : ldNames[i] \in resolved
         /\ pc[t] = "dlsym" => index[t] < 4
         /\ pc[t] = "finish" => index[t] = 4
         /\ ToMode => Ready
<1>1. Boot(t) /\ TypeOK
  BY IInvParts
<1>2. pc[t] \in Places(t)
  BY DEF Places
<1> QED
  BY <1>1, <1>2 DEF Boot, TypeOK, IInv

\* installVtableOrDie( "MODE" ): nothing is ready yet, nothing is needed.
LEMMA InstallModeInv ==
  ASSUME IInv, NEW t \in Threads, InstallMode(t)
  PROVE  IInv'
<1>1. /\ pc[t] \notin Serving /\ pc[t] \notin Assigning
      /\ UNCHANGED <<destructs, served, held, lib, tmpVars>>
  BY DEF InstallMode, At, Serving, Assigning
<1>2. CASE Dies(t)
  BY <1>1, <1>2, ExitsInv DEF Dies, InstallMode, tables
<1>3. CASE /\ postInit' = "mode" /\ Goto(t, "construct")
           /\ UNCHANGED <<phase, vtable, resolved, constructs, call, outer, index, word, nested>>
  <2>1. "construct" \in Labels \ {"handler"} /\ "construct" \notin Constructed
    BY DEF Labels, Booting, Nesting, Constructed
  <2>2. (ToMode => Ready)'
    BY <1>3, BootingParts DEF Ready, ToMode
  <2> QED
    BY <1>1, <1>3, <2>1, <2>2, BootingParts, BootedInv
<1> QED
  BY <1>2, <1>3 DEF InstallMode

\* construct: from here on the MODE is constructed.
LEMMA ConstructModeInv ==
  ASSUME IInv, NEW t \in Threads, ConstructMode(t)
  PROVE  IInv'
<1>1. /\ pc[t] \notin Serving /\ pc[t] \notin Assigning
      /\ UNCHANGED <<vtable, postInit, resolved, destructs, served, held, lib, tmpVars>>
  BY DEF ConstructMode, At, Serving, Assigning
<1>2. CASE /\ constructs' = constructs + 1 /\ Goto(t, "init")
           /\ UNCHANGED <<phase, call, outer, index, word, nested>>
  <2>1. "init" \in Labels \ {"handler"}
    BY DEF Labels, Booting
  <2>2. constructs' \in Nat /\ constructs' >= constructs /\ constructs' > 0
    BY <1>2, BootingParts
  <2>3. (ToMode => Ready)'
    BY <1>1, <2>2, BootingParts DEF Ready, ToMode
  <2> QED
    BY <1>1, <1>2, <2>1, <2>2, <2>3, BootingParts, BootedInv
<1>3. CASE Crash(t, "aborted") /\ UNCHANGED constructs
  BY <1>1, <1>3, CrashInv DEF Phases, tables
<1> QED
  BY <1>2, <1>3 DEF ConstructMode

\* installVtableOrDie( "INIT" ): the table that detects a race.
LEMMA InstallInitInv ==
  ASSUME IInv, NEW t \in Threads, InstallInit(t)
  PROVE  IInv'
<1>1. /\ pc[t] = "init" /\ pc[t] \in Assigning
      /\ UNCHANGED <<destructs, served, held, lib, tmpVars>>
  BY DEF InstallInit, At, Assigning
<1>2. CASE word[t] = 0 /\ Dies(t)
  BY <1>1, <1>2, ExitsInv DEF Dies, tables
<1>3. CASE /\ Assign(t, "ldinit", "ldinit")
           /\ UNCHANGED <<phase, postInit, resolved, constructs, call, outer, index, nested>>
  <2>1. "ldinit" \in Labels \ (Serving \union {"handler", "dlsym", "finish"})
    BY DEF Labels, Booting, Serving
  <2>2. constructs > 0
    BY <1>1, BootingParts DEF Constructed
  <2> QED
    BY <1>1, <1>3, <2>1, <2>2, AssignInv
<1> QED
  BY <1>2, <1>3 DEF InstallInit

\* mprofLDInit: the table of TmpAlloc (mprofLDInit.c:37).
LEMMA LDInitInv ==
  ASSUME IInv, NEW t \in Threads, LDInit(t)
  PROVE  IInv'
<1>1. pc[t] = "ldinit" /\ pc[t] \in Assigning
  BY DEF LDInit, At, Assigning
<1>2. "preload" \in Labels \ (Serving \union {"handler", "dlsym", "finish"})
  BY DEF Labels, Booting, Nesting, Serving
<1>3. constructs > 0
  BY <1>1, BootingParts DEF Constructed
<1> QED
  BY <1>1, <1>2, <1>3, AssignInv DEF LDInit

\* dlopen of LD_PRELOAD: the loop over ldNames starts at its first name.
LEMMA PreloadInv ==
  ASSUME IInv, NEW t \in Threads, Preload(t)
  PROVE  IInv'
<1>1. /\ pc[t] = "preload" /\ pc[t] \notin Assigning
      /\ UNCHANGED <<destructs, served, held, lib, tmpVars>>
  BY DEF Preload, At, Assigning
<1>2. CASE Dies(t)
  BY <1>1, <1>2, ExitsInv DEF Dies, tables
<1>3. CASE /\ Goto(t, "dlsym") /\ index' = [index EXCEPT ![t] = 0]
           /\ UNCHANGED <<phase, vtable, postInit, resolved, constructs, call, outer, word, nested>>
  <2> DEFINE n == 0
  <2>1. "dlsym" \in Labels \ {"handler"} /\ pc[t] \notin Serving
    BY <1>1 DEF Labels, Booting, Nesting, Serving
  <2>2. constructs > 0
    BY <1>1, BootingParts DEF Constructed
  <2>3. (ToMode => Ready)'
    BY <1>3, BootingParts DEF Ready, ToMode
  <2>4. n \in 0 .. 4 /\ n < 4 /\ \A i \in 1 .. n : ldNames[i] \in resolved'
    OBVIOUS
  <2>5. resolved \subseteq resolved' /\ resolved' \subseteq Names
    BY <1>3, BootingParts
  <2>6. /\ vtable' \in [Entries -> Targets]
        /\ postInit' \in {"null", "mode"}
        /\ constructs' \in Nat /\ constructs' >= constructs /\ constructs' > 0
    BY <1>3, <2>2, BootingParts
  <2>7. UNCHANGED <<phase, served, held, lib, call, outer, word, nested, tmpVars, destructs>>
    BY <1>1, <1>3
  <2>8. index' = [index EXCEPT ![t] = n] /\ Goto(t, "dlsym")
    BY <1>3
  <2> HIDE DEF n
  <2> QED
    BY <1>1, <2>1, <2>3, <2>4, <2>5, <2>6, <2>7, <2>8, BootedInv
<1> QED
  BY <1>2, <1>3 DEF Preload

\* One turn of the loop, on a thread whose first index names were found.
LEMMA DlsymInv ==
  ASSUME IInv, NEW t \in Threads, Dlsym(t)
  PROVE  IInv'
<1>1. /\ pc[t] = "dlsym" /\ pc[t] \notin Assigning
      /\ UNCHANGED <<destructs, served, held, lib, tmpVars>>
  BY DEF Dlsym, At, Assigning
<1>2. CASE Dies(t)
  BY <1>1, <1>2, ExitsInv DEF Dies, tables
<1>3. CASE /\ resolved' = resolved \union {ldNames[index[t] + 1]}
           /\ index' = [index EXCEPT ![t] = @ + 1]
           /\ Goto(t, IF index[t] + 1 = LastName THEN "finish" ELSE "dlsym")
           /\ UNCHANGED <<phase, vtable, postInit, constructs, call, outer, word, nested>>
  <2> DEFINE n == index[t] + 1
             l == IF n = LastName THEN "finish" ELSE "dlsym"
  <2>1. l \in Labels \ {"handler"} /\ pc[t] \notin Serving
    BY <1>1 DEF Labels, Booting, Nesting, Serving
  <2>2. n \in 1 .. 4 /\ (l = "dlsym" => n < 4) /\ (l = "finish" => n = 4)
    BY <1>1, BootingParts DEF LastName
  <2>3. ldNames[n] \in Names
    BY <2>2 DEF ldNames, Names
  <2>4. resolved \subseteq resolved' /\ resolved' \subseteq Names
    BY <1>3, <2>3, BootingParts
  <2>5. \A i \in 1 .. n : ldNames[i] \in resolved'
    <3>1. \A i \in 1 .. n : i \in 1 .. index[t] \/ i = n
      BY BootingParts
    <3> QED
      BY <1>3, <3>1, BootingParts
  <2>6. constructs > 0
    BY <1>1, BootingParts DEF Constructed
  <2>7. (ToMode => Ready)'
    BY <1>3, <2>4, BootingParts DEF Ready, ToMode
  <2>8. index' = [index EXCEPT ![t] = n] /\ Goto(t, l) /\ n \in 0 .. 4
    BY <1>3, <2>2
  <2>9. /\ vtable' \in [Entries -> Targets]
        /\ postInit' \in {"null", "mode"}
        /\ constructs' \in Nat /\ constructs' >= constructs /\ constructs' > 0
    BY <1>3, <2>6, BootingParts
  <2>10. UNCHANGED <<phase, served, held, lib, call, outer, word, nested, tmpVars, destructs>>
    BY <1>1, <1>3
  <2> HIDE DEF n, l
  <2> QED
    BY <1>1, <2>1, <2>2, <2>4, <2>5, <2>7, <2>8, <2>9, <2>10, BootedInv
<1> QED
  BY <1>2, <1>3 DEF Dlsym

\* The end of the init installs the MODE's table, a word at a time: this
\* thread has constructed the MODE and found every name.
LEMMA FinishInv ==
  ASSUME IInv, NEW t \in Threads, Finish(t)
  PROVE  IInv'
<1> DEFINE l == IF word[t] = 4 THEN "dispatch" ELSE pc[t]
<1>1. /\ pc[t] = "finish" /\ Assign(t, postInit, "dispatch")
      /\ UNCHANGED <<phase, postInit, resolved, constructs, destructs,
                     served, held, lib, call, outer, index, nested, tmpVars>>
  BY DEF Finish, At
<1>2. /\ vtable' \in [Entries -> Targets] /\ word' \in [Threads -> 0 .. 4]
      /\ word'[t] > 0 => l = "finish"
      /\ Goto(t, l) /\ \A u \in Threads \ {t} : word'[u] = word[u]
  <2>1. postInit \in Targets
    BY BootingParts DEF Targets
  <2> QED
    BY <1>1, <2>1, AssignTyped, IInvParts DEF TypeOK
<1>3. Ready
  <2>1. constructs > 0 /\ index[t] = 4
    BY <1>1, BootingParts DEF Constructed
  <2>2. \A i \in 1 .. 4 : ldNames[i] \in resolved
    BY <2>1, BootingParts
  <2>3. {ldNames[1], ldNames[2], ldNames[3], ldNames[4]} \subseteq resolved
    BY <2>2
  <2>4. Names \subseteq resolved
    BY <2>3 DEF ldNames, Names
  <2> QED
    BY <2>1, <2>4, BootingParts DEF Ready, ToMode
<1>4. Ready'
  BY <1>1, <1>3 DEF Ready
<1>5. l \in {"dispatch", "finish"} /\ l \in Labels
  BY <1>1 DEF Labels, Serving, Booting
<1>6. outer[t].at = "app" /\ pc'[t] = l /\ Places(t)' = {l, "app"}
  BY <1>1, <1>2, IInvParts DEF Boot, Serving, Goto, ThreadTypes, Places
<1> HIDE DEF l
<1>7. ThreadTypes' /\ TmpTypeOK'
  <2>1. index' \in [Threads -> 0 .. 4] /\ call' \in [Threads -> Calls]
    BY <1>1, IInvParts DEF ThreadTypes
  <2>2. ThreadTypes'
    BY <1>1, <1>2, <1>5, <2>1, GotoTyped, IInvParts
  <2> QED
    BY <1>1, <2>2, TmpTyped, IInvParts
<1>8. Boot(t)'
  <2>1. Boot(t) /\ constructs \in Nat /\ pc[t] \in Places(t)
    BY IInvParts DEF TypeOK, Places
  <2> QED
    BY <1>1, <1>2, <1>4, <1>5, <1>6, <2>1 DEF Boot, Constructed, Assigning
<1>9. \A u \in Threads \ {t} : /\ pc'[u] = pc[u] /\ outer'[u] = outer[u]
                             /\ index'[u] = index[u] /\ word'[u] = word[u]
  BY <1>1, <1>2, IInvParts DEF ThreadTypes, Goto
<1>10. /\ constructs' \in Nat /\ constructs' >= constructs
       /\ postInit' \in {"null", "mode"} /\ destructs' \in Nat
       /\ resolved \subseteq resolved' /\ resolved' \subseteq Names
  BY <1>1, IInvParts DEF TypeOK
<1> QED
  BY <1>2, <1>4, <1>7, <1>8, <1>9, <1>10, StepOfOne

\* The destructor constructs and resolves nothing.
LEMMA LibDestructInv ==
  ASSUME IInv, NEW t \in Threads, LibDestruct(t)
  PROVE  IInv'
<1>1. /\ pc[t] \notin Serving /\ pc[t] \notin Assigning
      /\ UNCHANGED <<vtable, postInit, resolved, constructs, served, held, lib, tmpVars>>
  BY DEF LibDestruct, At, Serving, Assigning
<1>2. outer[t].at = "app" /\ TmpTypeOK' /\ destructs \in Nat /\ call \in [Threads -> Calls]
  BY <1>1, IInvParts, TmpTyped DEF Boot, TypeOK
<1>3. CASE Goto(t, "callDestruct") /\ UNCHANGED <<phase, destructs, call, outer, index, word, nested>>
  <2>1. "callDestruct" \in Labels \ (Constructed \union {"handler"})
    BY DEF Labels, Leaving, Constructed
  <2> QED
    BY <1>1, <1>2, <1>3, <2>1, GotoInv
<1>4. CASE (Crash(t, "exited") \/ Crash(t, "nullcall")) /\ UNCHANGED destructs
  BY <1>1, <1>4, CrashInv DEF Phases, Crashed, tables
<1>5. CASE /\ destructs' = destructs + 1 /\ Goto(t, "detach")
           /\ UNCHANGED <<phase, call, outer, index, word, nested>>
  <2>1. /\ "detach" \in Labels \ (Constructed \union {"handler"})
        /\ destructs' \in Nat
    BY <1>2, <1>5 DEF Labels, Leaving, Constructed
  <2> QED
    BY <1>1, <1>2, <1>5, <2>1, GotoInv
<1> QED
  BY <1>3, <1>4, <1>5 DEF LibDestruct

\* exit() in the program.
LEMMA ExitInv ==
  ASSUME IInv, NEW t \in Threads, Exit(t)
  PROVE  IInv'
BY ExitsInv DEF Exit, Assigning

-----------------------------------------------------------------------------
(***************************************************************************)
(* The theorems.                                                           *)
(***************************************************************************)

\* Every step keeps the invariant: one case per action.
LEMMA NextInv == IInv /\ [Next]_vars => IInv'
<1> SUFFICES ASSUME IInv, [Next]_vars PROVE IInv'
  OBVIOUS
<1>1. CASE UNCHANGED vars
  BY <1>1 DEF vars, tables, threadVars, tmpVars, IInv, TypeOK, TmpTypeOK, Boot, Places, Ready, ToMode
<1>2. CASE Terminated
  BY <1>1, <1>2 DEF Terminated
<1>3. ASSUME NEW t \in Threads, Enter(t) \/ Nest(t) \/ Exit(t) \/ Step(t)
      PROVE  IInv'
  BY <1>3, EnterInv, NestInv, ExitInv, DispatchInv, TmpMallocInv, HandlerInv, LibInitInv,
     InstallModeInv, ConstructModeInv, InstallInitInv, LDInitInv, PreloadInv,
     DlsymInv, FinishInv, RaceExitInv, LibDestructInv, DetachInv DEF Step
<1> QED
  BY <1>1, <1>2, <1>3 DEF Next

\* The inductive invariant of libmprof's start and end.
THEOREM Invariance == Spec => []IInv
BY InitInv, NextInv, PTL DEF Spec

\* Every variable keeps its type, size_t included.
THEOREM TypeCorrect == Spec => []TypeOK
<1>1. IInv => TypeOK
  BY DEF IInv
<1> QED
  BY <1>1, Invariance, PTL

\* However many threads make the first call together (which mprofLDInit.c
\* calls a race), none of them ever runs a handler of a MODE that has not been
\* constructed, or one whose backing functions are not all found.
THEOREM HandlersReadyCorrect == Spec => []HandlersReady
<1>1. IInv => HandlersReady
  BY DEF IInv, Boot, HandlersReady
<1> QED
  BY <1>1, Invariance, PTL

-----------------------------------------------------------------------------
(***************************************************************************)
(* A process whose first call is made before it has a second thread.       *)
(***************************************************************************)


(***************************************************************************)
(* Places.                                                                 *)
(***************************************************************************)

\* The places of the destructor, one by one (libmprof.c: libmprofDestruct).
LEMMA LeavingIs == Leaving = {"destruct", "callDestruct", "detach", "bye"}
BY DEF Leaving

\* The words of a table are its entries, each once (mprof.h: AllocatorVtable).
LEMMA EntriesAre ==
  /\ Entries = {"malloc", "free", "calloc", "realloc", "destruct"}
  /\ entries[1] = "malloc" /\ entries[2] = "free" /\ entries[3] = "calloc"
  /\ entries[4] = "realloc" /\ entries[5] = "destruct"
BY DEF Entries, Names, entries

\* One word more of an assignment to mprofVtable, or the last one.
LEMMA AssignHalf ==
  ASSUME IInv, NEW t \in Threads, NEW x \in Targets, NEW y \in Targets, NEW l,
         Assign(t, y, l), Half(t, x, y)
  PROVE  /\ word[t] # 4 => Half(t, x, y)' /\ Goto(t, pc[t])
         /\ word[t] = 4 => All(y)' /\ word'[t] = 0 /\ Goto(t, l)
         /\ \A e \in Entries : /\ vtable[e] = x \/ vtable[e] = y
                               /\ vtable'[e] = y \/ vtable'[e] = vtable[e]
<1>1. vtable \in [Entries -> Targets] /\ word[t] \in 0 .. 4
  BY IInvParts DEF TypeOK
<1>2. /\ word'[t] = IF word[t] = 4 THEN 0 ELSE word[t] + 1
      /\ Goto(t, IF word[t] = 4 THEN l ELSE pc[t])
      /\ \A e \in Entries : vtable'[e] = y \/ vtable'[e] = vtable[e]
  BY AssignTyped, IInvParts DEF TypeOK
<1>3. ASSUME NEW i \in 1 .. 5
      PROVE  vtable'[entries[i]] = IF i = word[t] + 1 THEN y ELSE vtable[entries[i]]
  <2>1. vtable' = [vtable EXCEPT ![entries[word[t] + 1]] = y]
    BY DEF Assign
  <2>2. entries[i] \in Entries /\ word[t] + 1 \in 1 .. 5
    BY <1>1, EntriesAre
  <2>3. entries[i] = entries[word[t] + 1] => i = word[t] + 1
    BY <2>2, EntriesAre
  <2> QED
    BY <1>1, <2>1, <2>2, <2>3
<1>4. \A i \in 1 .. 5 : vtable[entries[i]] = IF i <= word[t] THEN y ELSE x
  BY DEF Half
<1>5. \A e \in Entries : vtable[e] = x \/ vtable[e] = y
  BY <1>4, EntriesAre
<1>6. \A i \in 1 .. 5 : vtable'[entries[i]] = IF i <= word[t] + 1 THEN y ELSE x
  BY <1>1, <1>3, <1>4
<1>7. word[t] # 4 => Half(t, x, y)'
  BY <1>2, <1>6 DEF Half
<1>8. word[t] = 4 => All(y)'
  BY <1>6, EntriesAre DEF All
<1> QED
  BY <1>2, <1>5, <1>7, <1>8

\* A thread inside a call is placed where the call was made from.
LEMMA PlaceTyped ==
  ASSUME IInv, NEW t \in Threads
  PROVE  /\ Place(t) \in {"app", "halted", "race"} \union Booting \union Leaving
         /\ pc[t] \in Serving => Place(t) = outer[t].at /\ Place(t) \in {"app"} \union Nesting
         /\ pc[t] \notin Serving => Place(t) = pc[t] /\ outer[t].at = "app"
         /\ Place(t) \notin Serving
<1>1. /\ pc[t] \in Labels
      /\ outer[t].at \in {"app"} \union Nesting
      /\ pc[t] \notin Serving => outer[t].at = "app"
  BY IInvParts DEF TypeOK, Boot
<1> QED
  BY <1>1, LeavingIs DEF Place, Labels, Nesting, Booting, Serving

\* The other threads stay where they are.
LEMMA OthersPlaced ==
  ASSUME NEW t \in Threads, NEW u \in Threads \ {t},
         pc'[u] = pc[u], outer'[u] = outer[u]
  PROVE  Place(u)' = Place(u)
BY DEF Place

\* Each way on moves one thread: its new place, and that the others keep theirs.
LEMMA GotoPlaced ==
  ASSUME IInv, NEW t \in Threads, NEW l, Goto(t, l), outer' = outer
  PROVE  /\ pc'[t] = l
         /\ Place(t)' = IF l \in Serving THEN outer[t].at ELSE l
         /\ \A u \in Threads \ {t} : pc'[u] = pc[u] /\ Place(u)' = Place(u)
BY IInvParts DEF Goto, Place, TypeOK

LEMMA ReturnPlaced ==
  ASSUME IInv, NEW t \in Threads, NEW p, Return(t, p), pc[t] \in Serving
  PROVE  /\ pc'[t] = Place(t) /\ Place(t)' = Place(t)
         /\ \A u \in Threads \ {t} : pc'[u] = pc[u] /\ Place(u)' = Place(u)
         /\ served' = (served \/ Place(t) = "app")
<1>1. pc'[t] = outer[t].at /\ Place(t) = outer[t].at /\ Place(t) \notin Serving
  BY PlaceTyped, IInvParts DEF Return, Goto, TypeOK
<1>2. \A u \in Threads \ {t} : pc'[u] = pc[u] /\ outer'[u] = outer[u]
  BY IInvParts DEF Return, Goto, TypeOK
<1>3. served' = (served \/ Place(t) = "app")
  BY <1>1, IInvParts, Zenon DEF Return, TypeOK
<1> QED
  BY <1>1, <1>2, <1>3 DEF Place

LEMMA ExitsPlaced ==
  ASSUME IInv, NEW t \in Threads, Exits(t)
  PROVE  /\ pc'[t] = Place(t)'
         /\ Place(t)' = IF phase = "running" THEN "destruct" ELSE "halted"
         /\ \A u \in Threads \ {t} : pc'[u] = pc[u] /\ Place(u)' = Place(u)
         /\ phase' \in {"exiting", "exited"}
BY IInvParts DEF Exits, Goto, Place, TypeOK, Serving

(***************************************************************************)
(* LifeInv before a call has returned.                                     *)
(***************************************************************************)

\* Only Main makes a step then.
LEMMA MainAlone ==
  ASSUME MainFirst, EarlyInv, ~ served, NEW t \in Threads,
         Enter(t) \/ Nest(t) \/ Exit(t) \/ Step(t)
  PROVE  t = Main
<1> SUFFICES ASSUME t # Main
             PROVE  FALSE
  OBVIOUS
<1>1. pc[t] = "app"
  BY DEF EarlyInv
<1>2. ~ Enter(t) /\ ~ Exit(t) /\ ~ Nest(t)
  BY <1>1 DEF Enter, Exit, Nest, Nesting
<1> QED
  BY <1>1, <1>2 DEF Step, At, Dispatch, TmpMalloc, Handler, LibInit, InstallMode,
     ConstructMode, InstallInit, LDInit, Preload, Dlsym, Finish, RaceExit, LibDestruct, Detach

\* With nobody else anywhere, EarlyInv says what LifeInv says of the end.
LEMMA EarlyLife ==
  ASSUME EarlyInv', ~ served', constructs' <= 1,
         Place(Main)' = "destruct" => phase' # "running"
  PROVE  LifeInv'
<1>1. \A u \in Threads \ {Main} : Place(u)' = "app"
  BY DEF EarlyInv, Place, Serving
<1>2. Place(Main)' \in {"app", "destruct"} \union Booting /\ destructs' = 0
  BY DEF EarlyInv
<1>3. \A u \in Threads : Leaver(u)' => u = Main /\ Place(Main)' = "destruct"
  BY <1>1, <1>2, LeavingIs DEF Leaver, Booting, Nesting
<1>4. LeaveInv'
  BY <1>2, <1>3, LeavingIs DEF LeaveInv, LeavesAt, Leaver
<1> QED
  BY <1>4 DEF LifeInv, LateInv

\* A step of Main that leaves no call returned, and what it must show.
LEMMA EarlyStep ==
  ASSUME LifeInv, ~ served, UNCHANGED <<served, held, destructs>>, constructs' <= 1,
         \A u \in Threads \ {Main} : pc'[u] = pc[u],
         Place(Main)' \in {"app", "destruct"} \union Booting,
         phase' = "exiting" => pc'[Main] = "destruct",
         Place(Main)' = "destruct" => phase' # "running",
         EarlyTable'
  PROVE  LifeInv'
<1>1. EarlyInv'
  BY DEF EarlyInv, LifeInv
<1> QED
  BY <1>1, EarlyLife

\* What LifeInv says then, part by part.
LEMMA EarlyParts ==
  ASSUME LifeInv, ~ served
  PROVE  /\ EarlyTable /\ destructs = 0 /\ held = {} /\ constructs <= 1
         /\ \A t \in Threads \ {Main} : pc[t] = "app"
         /\ Place(Main) \in {"app", "destruct"} \union Booting
         /\ phase \in Live /\ pc[Main] # "destruct" => phase = "running"
         /\ Place(Main) = "destruct" => phase # "running"
<1>1. Place(Main) = "destruct" => phase # "running"
  <2>1. Place(Main) = "destruct" => Leaver(Main)
    BY LeavingIs DEF Leaver
  <2> QED
    BY <2>1, BootstrapAssumption DEF LifeInv, LeaveInv, LeavesAt
<1>2. /\ \A t \in Threads \ {Main} : pc[t] = "app"
      /\ destructs = 0 /\ held = {}
      /\ Place(Main) \in {"app", "destruct"} \union Booting
      /\ phase = "exiting" => pc[Main] = "destruct"
      /\ EarlyTable
  BY DEF LifeInv, EarlyInv
<1> QED
  BY <1>1, <1>2 DEF LifeInv, LeaveInv, Live

\* Main goes on inside a call, at the same place.
LEMMA EarlyServe ==
  ASSUME IInv, LifeInv, ~ served, phase \in Live, NEW l, pc'[Main] = l, l \in Serving \ {"handler"},
         Place(Main)' = Place(Main), pc[Main] # "destruct",
         l \in {"test", "address", "subtract"} => Place(Main) # "app",
         \A u \in Threads \ {Main} : pc'[u] = pc[u],
         UNCHANGED <<phase, tables, served, held, word>>
  PROVE  LifeInv'
<1>1. EarlyTable'
  BY EarlyParts DEF EarlyTable, All, Half, InTmp, Serving, tables
<1> QED
  BY <1>1, EarlyParts, EarlyStep DEF tables, Live

\* The process ends.
LEMMA EarlyCrash ==
  ASSUME IInv, LifeInv, ~ served, NEW p \in Phases \ Live, Crash(Main, p),
         UNCHANGED <<tables, served, held>>
  PROVE  LifeInv'
<1>1. /\ Place(Main)' = Place(Main) /\ UNCHANGED <<pc, word>>
      /\ phase' \notin {"running", "exiting"}
  BY DEF Crash, threadVars, Place, Live
<1>2. EarlyTable'
  BY <1>1, EarlyParts DEF EarlyTable, All, Half, InTmp, tables
<1> QED
  BY <1>1, <1>2, EarlyParts, EarlyStep DEF tables

\* The program's first calls, and those of libraries inside the init.
LEMMA EarlyEnter ==
  ASSUME IInv, LifeInv, ~ served, Enter(Main) \/ Nest(Main)
  PROVE  LifeInv'
<1>1. /\ pc'[Main] = "dispatch" /\ Place(Main)' = Place(Main)
      /\ \A u \in Threads \ {Main} : pc'[u] = pc[u]
  <2>1. CASE Enter(Main)
    BY <2>1, GotoPlaced, PlaceTyped, BootstrapAssumption DEF Enter, At, Serving
  <2>2. CASE Nest(Main)
    <3>1. pc[Main] \notin Serving /\ pc' = [pc EXCEPT ![Main] = "dispatch"]
          /\ outer' = [outer EXCEPT ![Main] = [at |-> pc[Main], call |-> call[Main]]]
      BY <2>2 DEF Nest, Goto, Nesting, Serving
    <3>2. pc'[Main] = "dispatch" /\ outer'[Main].at = pc[Main]
      BY <3>1, IInvParts, BootstrapAssumption DEF TypeOK
    <3> QED
      BY <3>1, <3>2, IInvParts DEF TypeOK, Place, Serving
  <2> QED
    BY <2>1, <2>2
<1>2. phase \in Live /\ UNCHANGED <<phase, tables, served, held, word>> /\ pc[Main] # "destruct"
  BY DEF Enter, Nest, At, Nesting
<1> QED
  BY <1>1, <1>2, EarlyServe DEF Serving

\* A call returns, to a library or to the program: then the table led to the
\* MODE, which has been constructed.
LEMMA EarlyReturn ==
  ASSUME IInv, LifeInv, ~ served, NEW p, Return(Main, p), UNCHANGED <<phase, tables>>,
         phase \in Live, pc[Main] \in Serving, pc[Main] # "dispatch" \/ ~ All("libinit")
  PROVE  LifeInv'
<1>1. /\ pc'[Main] = Place(Main) /\ Place(Main)' = Place(Main)
      /\ \A u \in Threads \ {Main} : pc'[u] = pc[u] /\ Place(u)' = Place(u)
      /\ served' = (Place(Main) = "app") /\ Place(Main) \in {"app"} \union Nesting
  BY ReturnPlaced, PlaceTyped, BootstrapAssumption
<1>2. CASE Place(Main) # "app"
  <2>1. UNCHANGED <<served, held>>
    <3>1. outer[Main].at # "app"
      BY <1>2, PlaceTyped, BootstrapAssumption
    <3> QED
      BY <3>1 DEF Return
  <2>2. Place(Main) \in {"construct", "preload", "dlsym"}
    BY <1>1, <1>2, EarlyParts DEF Nesting, Booting
  <2>4. phase = "running" /\ Place(Main)' \in Booting /\ Place(Main)' # "destruct"
    BY <1>1, <2>2, EarlyParts DEF Booting, Nesting, Serving
  <2>3. EarlyTable'
    BY <1>1, <2>2, EarlyParts DEF EarlyTable, All, InTmp, tables
  <2> QED
    BY <1>1, <2>1, <2>3, <2>4, EarlyParts, EarlyStep DEF tables
<1>3. CASE Place(Main) = "app"
  <2>1. All("mode") /\ destructs = 0 /\ constructs <= 1
    BY <1>3, EarlyParts DEF EarlyTable, InTmp, Serving
  <2>2. constructs = 1
    <3>1. ToMode
      BY <2>1 DEF All, ToMode, Entries
    <3> QED
      BY <2>1, <3>1, IInvParts DEF Ready, TypeOK
  <2>3. \A u \in Threads : Place(u)' = "app"
    BY <1>1, <1>3, EarlyParts DEF Place, Serving
  <2>4. served' /\ UNCHANGED <<phase, vtable, constructs, destructs>>
    BY <1>1, <1>3 DEF tables
  <2>5. LateInv'
    BY <2>1, <2>2, <2>3, <2>4 DEF LateInv, All
  <2>6. LeaveInv'
    BY <2>1, <2>2, <2>3, <2>4, LeavingIs DEF LeaveInv, LeavesAt, Leaver
  <2> QED
    BY <2>4, <2>5, <2>6 DEF LifeInv, EarlyInv
<1> QED
  BY <1>2, <1>3

\* exit before anything was profiled: there is no MODE to destruct.
LEMMA EarlyExits ==
  ASSUME IInv, LifeInv, ~ served, phase \in Live, pc[Main] # "destruct", Exits(Main),
         vtable["destruct"] # "mode",
         UNCHANGED <<vtable, postInit, constructs, destructs, served, held>>
  PROVE  LifeInv'
<1>1. phase = "running"
  BY EarlyParts
<1>2. /\ pc'[Main] = "destruct" /\ Place(Main)' = "destruct"
      /\ \A u \in Threads \ {Main} : pc'[u] = pc[u]
      /\ phase' \in {"exiting", "exited"}
  BY <1>1, ExitsPlaced, BootstrapAssumption
<1>3. EarlyTable'
  BY <1>2, EarlyParts DEF EarlyTable, All, InTmp, Constructed
<1> QED
  BY <1>2, <1>3, EarlyParts, EarlyStep

\* perror of TmpAlloc, which the init's libraries are in.
LEMMA EarlyPerror ==
  ASSUME IInv, LifeInv, ~ served, phase \in Live, pc[Main] \in Serving, Place(Main) # "app",
         ~ All("libinit"), TmpPerror(Main), UNCHANGED <<phase, tables>>
  PROVE  LifeInv'
<1>1. CASE Return(Main, "null")
  BY <1>1, EarlyReturn
<1>2. CASE Goto(Main, "test") /\ UNCHANGED <<served, held, outer, word>>
  <2>1. /\ pc'[Main] = "test" /\ Place(Main)' = Place(Main)
        /\ \A u \in Threads \ {Main} : pc'[u] = pc[u]
    BY <1>2, GotoPlaced, PlaceTyped, BootstrapAssumption DEF Serving
  <2>2. pc[Main] # "destruct"
    BY DEF Serving
  <2> QED
    BY <1>2, <2>1, <2>2, EarlyServe DEF Serving
<1> QED
  BY <1>1, <1>2 DEF TmpPerror

\* A call finds where its entry leads.
LEMMA EarlyDispatch ==
  ASSUME IInv, LifeInv, ~ served, Dispatch(Main)
  PROVE  LifeInv'
<1>1. /\ pc[Main] = "dispatch" /\ phase \in Live /\ UNCHANGED tables
      /\ Place(Main) = outer[Main].at /\ Place(Main) \in {"app"} \union Nesting
      /\ Place(Main) = "app" => All("libinit") \/ All("mode")
      /\ Place(Main) # "app" => All("tmp")
  <2>1. pc[Main] = "dispatch" /\ phase \in Live /\ UNCHANGED tables
    BY DEF Dispatch, At
  <2>2. Place(Main) = outer[Main].at /\ Place(Main) \in {"app"} \union Nesting
    BY <2>1, PlaceTyped, BootstrapAssumption DEF Serving
  <2> QED
    BY <2>1, <2>2, EarlyParts DEF EarlyTable, Nesting, Booting
<1>2. \A x : Leads(Main, x) /\ Place(Main) # "app" => x = "tmp"
  BY <1>1 DEF Leads, All, Entries
<1>3. \A x : Leads(Main, x) /\ Place(Main) = "app" => All(x) /\ x \in {"libinit", "mode"}
  BY <1>1 DEF Leads, All, Entries
<1>4. CASE Leads(Main, "libinit")
  <2>1. Goto(Main, "enter") /\ UNCHANGED <<phase, outer, served, held, word>>
    BY <1>1, <1>2, <1>4 DEF Dispatch, Leads
  <2>2. /\ pc'[Main] = "enter" /\ Place(Main)' = "enter"
        /\ \A u \in Threads \ {Main} : pc'[u] = pc[u]
    BY <2>1, GotoPlaced, BootstrapAssumption DEF Serving
  <2>4. Half(Main, "libinit", "tmp")'
    <3>1. word[Main] = 0
      BY <1>1, IInvParts, BootstrapAssumption DEF Boot, TypeOK, Assigning
    <3>2. \A e \in Entries : vtable'[e] = "libinit"
      BY <1>1, <1>2, <1>3, <1>4 DEF All, tables
    <3> QED
      BY <2>1, <3>1, <3>2, EntriesAre DEF Half
  <2>3. EarlyTable'
    BY <1>1, <1>2, <1>3, <1>4, <2>2, <2>4, EarlyParts
       DEF EarlyTable, All, InTmp, Constructed, tables
  <2> QED
    BY <1>1, <2>1, <2>2, <2>3, EarlyParts, EarlyStep DEF tables, Booting, Live
<1>5. CASE Leads(Main, "tmp") /\ call[Main].op \in {"malloc", "calloc"}
  <2>1. Goto(Main, "test") /\ UNCHANGED <<phase, outer, served, held, word>>
    BY <1>5 DEF Dispatch, Leads
  <2>2. /\ pc'[Main] = "test" /\ Place(Main)' = Place(Main)
        /\ \A u \in Threads \ {Main} : pc'[u] = pc[u]
    BY <1>1, <2>1, GotoPlaced, BootstrapAssumption DEF Serving
  <2>3. Place(Main) # "app"
    BY <1>3, <1>5
  <2> QED
    BY <1>1, <2>1, <2>2, <2>3, EarlyServe DEF Serving
<1>6. CASE Leads(Main, "tmp") /\ call[Main].op \in {"free", "realloc"}
  <2>1. UNCHANGED phase /\ (TmpPerror(Main) \/ Return(Main, "null"))
    BY <1>6 DEF Dispatch, Leads, TmpNothing
  <2>2. ~ All("libinit") /\ Place(Main) # "app"
    BY <1>3, <1>6 DEF Leads, All, Entries
  <2>3. pc[Main] \in Serving
    BY <1>1 DEF Serving
  <2>4. CASE Return(Main, "null")
    BY <1>1, <2>1, <2>2, <2>3, <2>4, EarlyReturn
  <2>5. CASE TmpPerror(Main)
    BY <1>1, <2>1, <2>2, <2>3, <2>5, EarlyPerror
  <2> QED
    BY <2>1, <2>4, <2>5
<1>7. CASE Leads(Main, "mode")
  <2>1. Goto(Main, "handler") /\ UNCHANGED <<phase, outer, served, held>>
    BY <1>7 DEF Dispatch, Leads
  <2>2. /\ pc'[Main] = "handler" /\ Place(Main)' = Place(Main)
        /\ \A u \in Threads \ {Main} : pc'[u] = pc[u]
    BY <1>1, <2>1, GotoPlaced, BootstrapAssumption DEF Serving
  <2>3. Place(Main) = "app" /\ All("mode")
    BY <1>2, <1>3, <1>7
  <2>4. EarlyTable'
    BY <1>1, <2>2, <2>3, EarlyParts DEF EarlyTable, All, InTmp, Constructed, tables
  <2> QED
    BY <1>1, <2>1, <2>2, <2>3, <2>4, EarlyParts, EarlyStep DEF tables, Live
<1>8. ~ Leads(Main, "ldinit")
  BY <1>2, <1>3
<1> QED
  BY <1>4, <1>5, <1>6, <1>7, <1>8, Zenon DEF Dispatch

\* TmpAlloc and the MODE's handlers: their calls return or go on.
LEMMA EarlyServed ==
  ASSUME IInv, LifeInv, ~ served, TmpMalloc(Main) \/ Handler(Main)
  PROVE  LifeInv'
<1>1. /\ pc[Main] \in {"test", "address", "subtract", "handler"} /\ phase \in Live
      /\ pc[Main] \in Serving /\ UNCHANGED tables
      /\ ~ All("libinit")
  <2>1. /\ pc[Main] \in {"test", "address", "subtract", "handler"} /\ phase \in Live
        /\ UNCHANGED tables
    BY DEF TmpMalloc, Handler, At
  <2>2. InTmp(Main) => All("tmp")
    <3>1. pc[Main] \in Serving
      BY <2>1 DEF Serving
    <3> QED
      BY <3>1, EarlyParts, PlaceTyped, BootstrapAssumption
         DEF EarlyTable, Nesting, Booting, InTmp
  <2>3. All("tmp") \/ All("mode")
    BY <2>1, <2>2, EarlyParts DEF EarlyTable, InTmp
  <2> QED
    BY <2>1, <2>3 DEF All, Serving, Entries
<1>2. CASE \E p : Return(Main, p) /\ UNCHANGED phase
  BY <1>1, <1>2, EarlyReturn
<1>3. CASE /\ Goto(Main, "address") \/ Goto(Main, "subtract")
           /\ InTmp(Main)
           /\ UNCHANGED <<phase, served, held, outer, word>>
  <2>1. /\ pc'[Main] \in {"address", "subtract"} /\ Place(Main)' = Place(Main)
        /\ \A u \in Threads \ {Main} : pc'[u] = pc[u]
    BY <1>1, <1>3, GotoPlaced, PlaceTyped, BootstrapAssumption DEF Serving
  <2>2. Place(Main) # "app" /\ pc[Main] # "destruct"
    BY <1>1, <1>3, EarlyParts DEF EarlyTable
  <2> QED
    BY <1>1, <1>3, <2>1, <2>2, EarlyServe DEF Serving
<1>4. CASE /\ \E p \in {"foreign", "nullcall", "overflow"} : Crash(Main, p)
           /\ UNCHANGED <<served, held>>
  BY <1>1, <1>4, EarlyCrash DEF Phases, Crashed, Live
<1>5. CASE InTmp(Main) /\ TmpPerror(Main) /\ UNCHANGED phase
  <2>1. Place(Main) # "app"
    BY <1>5, EarlyParts DEF EarlyTable
  <2> QED
    BY <1>1, <1>5, <2>1, EarlyPerror
<1>6. CASE TmpMalloc(Main)
  BY <1>2, <1>3, <1>4, <1>5, <1>6 DEF TmpMalloc, At, InTmp
<1>7. CASE Handler(Main)
  BY <1>2, <1>4, <1>7 DEF Handler, At
<1> QED
  BY <1>6, <1>7

\* A step of the init from one place to the next.
LEMMA EarlyBoot ==
  ASSUME IInv, LifeInv, ~ served, phase \in Live, pc[Main] \in Booting,
         NEW l \in Booting \ {"enter"}, Goto(Main, l), word'[Main] = 0,
         UNCHANGED <<phase, outer, served, held, destructs>>, constructs' <= 1,
         l = "ldinit" => All("ldinit")', l # "ldinit" => All("tmp")',
         l \in {"construct"} \union Constructed => postInit' = "mode",
         l \in {"mode", "construct"} => constructs' = 0
  PROVE  LifeInv'
<1>1. /\ pc'[Main] = l /\ Place(Main)' = l
      /\ \A u \in Threads \ {Main} : pc'[u] = pc[u]
  BY GotoPlaced, BootstrapAssumption DEF Booting, Nesting, Serving
<1>2. ~ All("libinit")' /\ phase # "exiting"
  BY EarlyParts DEF All, Entries, Booting, Nesting
<1>4. /\ l = "init" => Half(Main, "tmp", "ldinit")'
      /\ l = "ldinit" => Half(Main, "ldinit", "tmp")'
      /\ l = "finish" => Half(Main, "tmp", "mode")'
  BY EntriesAre DEF Half, All
<1>3. EarlyTable'
  BY <1>1, <1>2, <1>4 DEF EarlyTable, InTmp, Booting, Nesting
<1> QED
  BY <1>1, <1>2, <1>3, EarlyStep DEF Booting, Nesting

\* One more word of an assignment of the init.
LEMMA EarlyWord ==
  ASSUME IInv, LifeInv, ~ served, phase \in Live, NEW x \in Targets, NEW y \in Targets,
         <<pc[Main], x, y>> \in {<<"enter", "libinit", "tmp">>, <<"init", "tmp", "ldinit">>,
                                <<"ldinit", "ldinit", "tmp">>, <<"finish", "tmp", "mode">>},
         Goto(Main, pc[Main]), Half(Main, x, y)',
         UNCHANGED <<phase, outer, served, held, destructs, constructs, postInit>>
  PROVE  LifeInv'
<1>1. pc[Main] \in {"enter", "init", "ldinit", "finish"}
  OBVIOUS
<1>2. /\ pc'[Main] = pc[Main] /\ Place(Main) = pc[Main] /\ Place(Main)' = pc[Main]
      /\ \A u \in Threads \ {Main} : pc'[u] = pc[u]
  BY <1>1, GotoPlaced, PlaceTyped, BootstrapAssumption DEF Serving
<1>3. x = "tmp" \/ x = "ldinit" => ~ All("libinit")'
  <2>1. vtable'["malloc"] = x \/ vtable'["malloc"] = y
    BY EntriesAre DEF Half
  <2> QED
    BY <2>1, EntriesAre DEF All
<1>4. EarlyTable'
  BY <1>1, <1>2, <1>3, EarlyParts DEF EarlyTable, InTmp, Constructed
<1> QED
  BY <1>1, <1>2, <1>4, EarlyParts, EarlyStep DEF Booting

\* What holds of Main at a place of the init.
LEMMA BootPlace ==
  ASSUME IInv, LifeInv, ~ served, pc[Main] \in Booting
  PROVE  /\ Place(Main) = pc[Main] /\ pc[Main] # "destruct"
         /\ EarlyTable /\ destructs = 0 /\ constructs \in Nat /\ constructs <= 1
         /\ pc[Main] \notin Assigning => word[Main] = 0
<1>1. pc[Main] \notin Serving
  BY DEF Booting, Nesting, Serving
<1>2. pc[Main] \notin Assigning => word[Main] = 0
  BY IInvParts, BootstrapAssumption DEF Boot, TypeOK
<1> QED
  BY <1>1, <1>2, PlaceTyped, EarlyParts, IInvParts, BootstrapAssumption
     DEF TypeOK, Booting, Nesting

\* The init up to the MODE's construct, which is the only one.
LEMMA EarlyConstruct ==
  ASSUME IInv, LifeInv, ~ served,
         LibInit(Main) \/ InstallMode(Main) \/ ConstructMode(Main)
  PROVE  LifeInv'
<1>1. /\ pc[Main] \in {"enter", "mode", "construct"} /\ phase \in Live
      /\ pc[Main] \in Booting /\ UNCHANGED <<served, held, destructs>>
  BY DEF LibInit, InstallMode, ConstructMode, At, Booting, Nesting
<1>2. CASE LibInit(Main)
  <2>1. /\ pc[Main] = "enter" /\ Half(Main, "libinit", "tmp") /\ constructs = 0
        /\ Assign(Main, "tmp", "mode")
        /\ UNCHANGED <<phase, outer, served, held, destructs, constructs, postInit>>
    BY <1>1, <1>2, BootPlace DEF LibInit, At, EarlyTable
  <2>2. /\ word[Main] # 4 => Half(Main, "libinit", "tmp")' /\ Goto(Main, pc[Main])
        /\ word[Main] = 4 => All("tmp")' /\ word'[Main] = 0 /\ Goto(Main, "mode")
    BY <2>1, AssignHalf, BootstrapAssumption DEF Targets
  <2>3. CASE word[Main] # 4
    BY <1>1, <2>1, <2>2, <2>3, EarlyWord DEF Targets
  <2>4. CASE word[Main] = 4
    BY <1>1, <2>1, <2>2, <2>4, BootPlace, EarlyBoot DEF Booting, Constructed
  <2> QED
    BY <2>3, <2>4
<1>3. CASE InstallMode(Main)
  <2>1. pc[Main] = "mode" /\ All("tmp") /\ constructs = 0 /\ word[Main] = 0
    BY <1>1, <1>3, BootPlace DEF InstallMode, At, EarlyTable, Assigning
  <2>2. CASE Dies(Main)
    <3>1. Exits(Main) /\ UNCHANGED <<vtable, postInit, constructs>> /\ vtable["destruct"] # "mode"
      BY <2>1, <2>2 DEF Dies, All, Entries
    <3> QED
      BY <1>1, <2>1, <3>1, EarlyExits
  <2>3. CASE /\ postInit' = "mode" /\ Goto(Main, "construct")
             /\ UNCHANGED <<phase, vtable, constructs, outer, word>>
    BY <1>1, <2>1, <2>3, EarlyBoot DEF Booting, Nesting, Constructed, All
  <2> QED
    BY <1>3, <2>2, <2>3 DEF InstallMode
<1>4. CASE ConstructMode(Main)
  <2>1. /\ pc[Main] = "construct" /\ UNCHANGED <<vtable, postInit, resolved>>
        /\ All("tmp") /\ postInit = "mode" /\ constructs = 0 /\ word[Main] = 0
    BY <1>1, <1>4, BootPlace DEF ConstructMode, At, EarlyTable, Assigning
  <2>2. CASE constructs' = constructs + 1 /\ Goto(Main, "init") /\ UNCHANGED <<phase, outer, word>>
    BY <1>1, <2>1, <2>2, EarlyBoot DEF Booting, Nesting, Constructed, All
  <2>3. CASE Crash(Main, "aborted") /\ UNCHANGED constructs
    BY <1>1, <2>1, <2>3, EarlyCrash DEF Phases, Live, tables
  <2> QED
    BY <1>4, <2>2, <2>3 DEF ConstructMode
<1> QED
  BY <1>2, <1>3, <1>4

\* mprofLDInit and the end of the init.
LEMMA EarlyInit ==
  ASSUME IInv, LifeInv, ~ served,
         \/ InstallInit(Main) \/ LDInit(Main) \/ Preload(Main) \/ Dlsym(Main)
         \/ Finish(Main)
  PROVE  LifeInv'
<1>1. /\ pc[Main] \in {"init", "ldinit", "preload", "dlsym", "finish"} /\ phase \in Live
      /\ pc[Main] \in Booting /\ UNCHANGED <<served, held, destructs>>
  BY DEF InstallInit, LDInit, Preload, Dlsym, Finish, At, Booting, Nesting
<1>2. /\ postInit = "mode" /\ constructs <= 1 /\ pc[Main] \in Constructed
      /\ pc[Main] \in {"preload", "dlsym"} => All("tmp") /\ word[Main] = 0
      /\ pc[Main] = "init" => Half(Main, "tmp", "ldinit")
      /\ pc[Main] = "ldinit" => Half(Main, "ldinit", "tmp")
      /\ pc[Main] = "finish" => Half(Main, "tmp", "mode")
  BY <1>1, BootPlace DEF EarlyTable, Constructed, Assigning
<1>3. CASE Dies(Main) /\ pc[Main] \in {"init", "preload", "dlsym"}
  <2>1. vtable["destruct"] # "mode"
    BY <1>2, <1>3, EntriesAre DEF All, Half
  <2>2. Exits(Main) /\ UNCHANGED <<vtable, postInit, constructs>>
    BY <1>3 DEF Dies
  <2> QED
    BY <1>1, <2>1, <2>2, BootPlace, EarlyExits
<1>4. CASE InstallInit(Main) /\ ~ Dies(Main)
  <2>1. /\ pc[Main] = "init" /\ Assign(Main, "ldinit", "ldinit")
        /\ UNCHANGED <<phase, postInit, constructs, outer>>
    BY <1>4 DEF InstallInit, At
  <2>2. /\ word[Main] # 4 => Half(Main, "tmp", "ldinit")' /\ Goto(Main, pc[Main])
        /\ word[Main] = 4 => All("ldinit")' /\ word'[Main] = 0 /\ Goto(Main, "ldinit")
    BY <1>2, <2>1, AssignHalf, BootstrapAssumption DEF Targets
  <2>3. CASE word[Main] # 4
    BY <1>1, <2>1, <2>2, <2>3, EarlyWord DEF Targets
  <2>4. CASE word[Main] = 4
    BY <1>1, <1>2, <2>1, <2>2, <2>4, EarlyBoot DEF Booting, Nesting
  <2> QED
    BY <2>3, <2>4
<1>5. CASE LDInit(Main)
  <2>1. /\ pc[Main] = "ldinit" /\ Assign(Main, "tmp", "preload")
        /\ UNCHANGED <<phase, postInit, constructs, outer>>
    BY <1>5 DEF LDInit, At
  <2>2. /\ word[Main] # 4 => Half(Main, "ldinit", "tmp")' /\ Goto(Main, pc[Main])
        /\ word[Main] = 4 => All("tmp")' /\ word'[Main] = 0 /\ Goto(Main, "preload")
    BY <1>2, <2>1, AssignHalf, BootstrapAssumption DEF Targets
  <2>3. CASE word[Main] # 4
    BY <1>1, <2>1, <2>2, <2>3, EarlyWord DEF Targets
  <2>4. CASE word[Main] = 4
    BY <1>1, <1>2, <2>1, <2>2, <2>4, EarlyBoot DEF Booting, Nesting
  <2> QED
    BY <2>3, <2>4
<1>6. CASE Preload(Main) /\ ~ Dies(Main)
  <2>1. /\ pc[Main] = "preload" /\ Goto(Main, "dlsym")
        /\ UNCHANGED <<phase, vtable, postInit, constructs, outer, word>>
    BY <1>6 DEF Preload, At
  <2> QED
    BY <1>1, <1>2, <2>1, EarlyBoot DEF Booting, Nesting, All
<1>7. CASE Dlsym(Main) /\ ~ Dies(Main)
  <2>1. PICK l \in {"finish", "dlsym"} :
          /\ pc[Main] = "dlsym" /\ Goto(Main, l)
          /\ UNCHANGED <<phase, vtable, postInit, constructs, outer, word>>
    BY <1>7 DEF Dlsym, At
  <2>2. l \in Booting \ {"enter"} /\ l # "ldinit" /\ l \notin {"mode", "construct"}
    BY DEF Booting, Nesting
  <2> QED
    BY <1>1, <1>2, <2>1, <2>2, EarlyBoot DEF All
<1>8. CASE Finish(Main)
  <2>1. /\ pc[Main] = "finish" /\ Assign(Main, "mode", "dispatch")
        /\ UNCHANGED <<phase, postInit, constructs, outer>>
    BY <1>2, <1>8 DEF Finish, At
  <2>2. /\ word[Main] # 4 => Half(Main, "tmp", "mode")' /\ Goto(Main, pc[Main])
        /\ word[Main] = 4 => All("mode")' /\ Goto(Main, "dispatch")
    BY <1>2, <2>1, AssignHalf, BootstrapAssumption DEF Targets
  <2>3. CASE word[Main] # 4
    BY <1>1, <2>1, <2>2, <2>3, EarlyWord DEF Targets
  <2>4. CASE word[Main] = 4
    <3>1. /\ pc'[Main] = "dispatch" /\ Place(Main)' = "app"
          /\ \A u \in Threads \ {Main} : pc'[u] = pc[u]
      BY <2>1, <2>2, <2>4, GotoPlaced, PlaceTyped, BootstrapAssumption DEF Serving
    <3>2. EarlyTable'
      BY <2>2, <2>4, <3>1 DEF EarlyTable, InTmp, All, Constructed, Entries
    <3> QED
      BY <1>1, <1>2, <2>1, <3>1, <3>2, BootPlace, EarlyParts, EarlyStep DEF Live
  <2> QED
    BY <2>3, <2>4
<1> QED
  BY <1>1, <1>3, <1>4, <1>5, <1>6, <1>7, <1>8 DEF InstallInit, Preload, Dlsym, At

(***************************************************************************)
(* LifeInv after a call has returned.                                      *)
(***************************************************************************)

\* What LifeInv says then, part by part.
LEMMA LateParts ==
  ASSUME LifeInv, served, NEW t \in Threads
  PROVE  /\ Place(t) \in {"app", "halted"} \union Leaving /\ LeavesAt(t)
         /\ \A e \in Entries : vtable[e] = "mode" \/ (vtable[e] = "tmp" /\ Detached)
         /\ constructs = 1 /\ destructs <= 1
         /\ phase = "running" => destructs = 0
         /\ \A u \in Threads : Leaver(u) /\ (phase = "running" \/ Leaver(t)) => u = t
<1>1. \A u \in Threads : Leaver(u) => phase # "running"
  BY DEF LifeInv, LeaveInv, LeavesAt
<1> QED
  BY <1>1 DEF LifeInv, LeaveInv, LateInv

\* A step of thread t, and what it must show: only a thread in the destructor
\* changes the table and the count.
LEMMA LateStep ==
  ASSUME LifeInv, served, served', NEW t \in Threads, constructs' = constructs,
         \A u \in Threads \ {t} : Place(u)' = Place(u) /\ word'[u] = word[u],
         Place(t)' \in {"app", "halted"} \union Leaving, LeavesAt(t)',
         UNCHANGED <<vtable, destructs>> \/ Leaver(t),
         \A e \in Entries : vtable'[e] = "mode" \/ (vtable'[e] = "tmp" /\ Detached'),
         destructs' <= 1, phase' = "running" => phase = "running" /\ destructs' = 0,
         Leaver(t)' => Leaver(t) \/ phase = "running"
  PROVE  LifeInv'
<1>1. ASSUME NEW u \in Threads
      PROVE  LeavesAt(u)' /\ (Leaver(u)' /\ Leaver(t)' => u = t)
  <2>1. CASE u = t
    BY <2>1
  <2>2. CASE u # t /\ ~ Leaver(u)
    <3>1. ~ Leaver(u)'
      BY <2>2 DEF Leaver
    <3>2. Place(u)' \notin {"destruct", "callDestruct", "detach", "bye"}
      BY <3>1, LeavingIs DEF Leaver
    <3> QED
      BY <3>1, <3>2 DEF LeavesAt
  <2>3. CASE u # t /\ Leaver(u)
    <3>1. ~ Leaver(t) /\ phase # "running" /\ ~ Leaver(t)'
      BY <2>3, LateParts
    <3>2. UNCHANGED <<vtable, destructs>> /\ Place(u)' = Place(u) /\ word'[u] = word[u]
      BY <2>3, <3>1
    <3>3. LeavesAt(u)
      BY LateParts
    <3> QED
      BY <3>1, <3>2, <3>3 DEF LeavesAt, Leaver, Destructible, Detached
  <2> QED
    BY <2>1, <2>2, <2>3
<1>2. \A u, v \in Threads : Leaver(u)' /\ Leaver(v)' => u = v
  <2>1. \A u \in Threads \ {t} : Leaver(u)' <=> Leaver(u)
    BY DEF Leaver
  <2> QED
    BY <1>1, <2>1 DEF LifeInv, LeaveInv
<1>3. LeaveInv'
  BY <1>1, <1>2, LateParts DEF LeaveInv
<1>4. LateInv'
  BY LateParts DEF LateInv
<1> QED
  BY <1>3, <1>4 DEF LifeInv, EarlyInv

\* A thread stays at its place, and the table stays.
LEMMA LateSame ==
  ASSUME LifeInv, served, served', NEW t \in Threads, UNCHANGED <<tables, word>>,
         \A u \in Threads : Place(u)' = Place(u),
         phase' = "running" => phase = "running"
  PROVE  LifeInv'
<1>1. LeavesAt(t)'
  BY LateParts DEF LeavesAt, Leaver, Destructible, Detached, tables
<1>2. \A e \in Entries : vtable'[e] = "mode" \/ (vtable'[e] = "tmp" /\ Detached')
  BY LateParts DEF Detached, tables
<1> QED
  BY <1>1, <1>2, LateParts, LateStep DEF Leaver, tables

\* Nobody is in the init any more.
LEMMA NoBoot ==
  ASSUME IInv, LifeInv, served, NEW t \in Threads
  PROVE  /\ pc[t] \notin Booting /\ outer[t].at \in {"app", "bye"}
         /\ ~ LibInit(t) /\ ~ InstallMode(t) /\ ~ ConstructMode(t) /\ ~ InstallInit(t)
         /\ ~ LDInit(t) /\ ~ Preload(t) /\ ~ Dlsym(t) /\ ~ Finish(t) /\ ~ RaceExit(t)
<1>1. Place(t) \notin Booting \union {"race"}
  BY LateParts, LeavingIs DEF Booting, Nesting
<1>2. pc[t] \notin Booting \union {"race"}
  BY <1>1, PlaceTyped DEF Booting, Nesting, Serving
<1>3. outer[t].at \in {"app", "bye"}
  <2>1. CASE pc[t] \in Serving
    BY <1>1, <2>1, PlaceTyped DEF Booting, Nesting
  <2> QED
    BY <2>1, PlaceTyped
<1> QED
  BY <1>2, <1>3 DEF LibInit, InstallMode, ConstructMode, InstallInit, LDInit, Preload, Dlsym,
     Finish, RaceExit, At, Booting, Nesting

\* Calls, of the program and from within the destructor.
LEMMA LateServe ==
  ASSUME IInv, LifeInv, served, NEW t \in Threads,
         Enter(t) \/ Nest(t) \/ Dispatch(t) \/ TmpMalloc(t) \/ Handler(t)
  PROVE  LifeInv'
<1>1. phase \in Live /\ UNCHANGED tables
  BY DEF Enter, Nest, Dispatch, TmpMalloc, Handler, At
<1>2. CASE Enter(t)
  <2>1. pc[t] \notin Serving /\ Goto(t, "dispatch") /\ UNCHANGED <<outer, served, phase, word>>
    BY <1>2 DEF Enter, At, Serving
  <2>2. Place(t)' = Place(t)
    BY <2>1, <1>2, GotoPlaced, PlaceTyped DEF Serving, Enter, At
  <2> QED
    BY <1>1, <2>1, <2>2, GotoPlaced, LateSame
<1>3. CASE Nest(t)
  <2>1. /\ pc[t] \notin Serving /\ pc' = [pc EXCEPT ![t] = "dispatch"]
        /\ outer' = [outer EXCEPT ![t] = [at |-> pc[t], call |-> call[t]]]
        /\ UNCHANGED <<served, phase, word>>
    BY <1>3 DEF Nest, Goto, Nesting, Serving
  <2>2. pc'[t] = "dispatch" /\ outer'[t].at = pc[t]
    BY <2>1, IInvParts DEF TypeOK
  <2>3. Place(t)' = Place(t) /\ \A u \in Threads \ {t} : Place(u)' = Place(u)
    BY <2>1, <2>2, IInvParts DEF TypeOK, Place, Serving
  <2> QED
    BY <1>1, <2>1, <2>3, LateSame
<1>4. CASE \E p : Return(t, p) /\ UNCHANGED phase /\ pc[t] \in Serving
  <2>1. UNCHANGED word
    BY <1>4 DEF Return
  <2> QED
    BY <1>1, <1>4, <2>1, ReturnPlaced, LateSame
<1>5. CASE /\ \E l \in Serving : Goto(t, l)
           /\ pc[t] \in Serving /\ UNCHANGED <<phase, outer, served, word>>
  BY <1>1, <1>5, GotoPlaced, PlaceTyped, LateSame
<1>6. CASE \E p \in Crashed \union {"overflow"} : Crash(t, p) /\ UNCHANGED served
  <2>1. UNCHANGED <<pc, outer, served, word>> /\ phase' # "running"
    BY <1>6 DEF Crash, threadVars, Crashed
  <2>2. \A u \in Threads : Place(u)' = Place(u)
    BY <2>1 DEF Place
  <2> QED
    BY <1>1, <2>1, <2>2, LateSame
<1>7. CASE Dispatch(t)
  <2>1. pc[t] \in Serving /\ \A x : Leads(t, x) => x \in {"tmp", "mode"}
    BY <1>7, LateParts DEF Dispatch, At, Leads, Entries, Serving
  <2>2. CASE \E l \in {"test", "handler"} : Goto(t, l) /\ UNCHANGED <<phase, outer, served, word>>
    BY <1>5, <2>1, <2>2 DEF Serving
  <2>3. CASE Return(t, "null") /\ UNCHANGED phase
    BY <1>4, <2>1, <2>3
  <2>4. ~ Leads(t, "libinit") /\ ~ Leads(t, "ldinit")
    BY <2>1
  <2> QED
    BY <1>7, <2>2, <2>3, <2>4 DEF Dispatch, TmpNothing, TmpPerror
<1>8. CASE TmpMalloc(t)
  <2>1. pc[t] \in Serving
    BY <1>8 DEF TmpMalloc, At, Serving
  <2>2. CASE TmpPerror(t) /\ UNCHANGED phase
    BY <1>4, <1>5, <2>1, <2>2 DEF TmpPerror, Serving
  <2> QED
    BY <1>4, <1>5, <1>6, <1>8, <2>1, <2>2 DEF TmpMalloc, Serving
<1>9. CASE Handler(t)
  BY <1>4, <1>6, <1>9 DEF Handler, At, Serving, Crashed
<1> QED
  BY <1>2, <1>3, <1>7, <1>8, <1>9

\* exit: the first one enters the destructor.
LEMMA LateExit ==
  ASSUME IInv, LifeInv, served, NEW t \in Threads, Exit(t)
  PROVE  LifeInv'
<1>1. phase = "running" /\ Exits(t) /\ UNCHANGED <<tables, served>>
  BY DEF Exit
<1>2. /\ Place(t)' = "destruct" /\ phase' # "running"
      /\ \A u \in Threads \ {t} : Place(u)' = Place(u)
      /\ UNCHANGED word
  BY <1>1, ExitsPlaced DEF Exits
<1>3. LeavesAt(t)' /\ Place(t)' \in Leaving
  BY <1>1, <1>2, LateParts, LeavingIs DEF LeavesAt, Leaver, tables
<1>4. \A e \in Entries : vtable'[e] = "mode" \/ (vtable'[e] = "tmp" /\ Detached')
  BY <1>1, LateParts DEF Detached, tables
<1> QED
  BY <1>1, <1>2, <1>3, <1>4, LateParts, LateStep DEF tables

\* The destructor calls the MODE's destruct once, and then replaces the table
\* from malloc on.
LEMMA LateDestruct ==
  ASSUME IInv, LifeInv, served, NEW t \in Threads, LibDestruct(t)
  PROVE  LifeInv'
<1>1. /\ pc[t] \in {"destruct", "callDestruct", "bye"} /\ phase \in Live
      /\ UNCHANGED <<vtable, constructs, served, word>>
  BY DEF LibDestruct, At, Crash, threadVars
<1>2. Place(t) = pc[t] /\ Leaver(t) /\ LeavesAt(t) /\ word[t] = 0
  BY <1>1, PlaceTyped, LateParts, LeavingIs, IInvParts
     DEF Serving, Leaver, Boot, Assigning, TypeOK
<1>3. phase # "running" /\ \A e \in Entries : vtable'[e] = vtable[e]
  BY <1>1, <1>2 DEF LeavesAt
<1>4. CASE \E p \in Phases \ Live : Crash(t, p) /\ UNCHANGED destructs
  <2>1. UNCHANGED <<pc, outer>> /\ phase' # "running"
    BY <1>4 DEF Crash, threadVars, Live
  <2>2. \A u \in Threads : Place(u)' = Place(u)
    BY <2>1 DEF Place
  <2> QED
    BY <1>1, <1>4, <2>1, <2>2, LateSame DEF LibDestruct, tables
<1>5. CASE Goto(t, "callDestruct") /\ Destructible /\ pc[t] = "destruct"
           /\ UNCHANGED <<phase, outer, destructs>>
  <2>1. Place(t)' = "callDestruct" /\ \A u \in Threads \ {t} : Place(u)' = Place(u)
    BY <1>5, GotoPlaced DEF Serving
  <2>2. LeavesAt(t)' /\ Place(t)' \in Leaving
    BY <1>1, <1>2, <1>5, <2>1, LeavingIs DEF LeavesAt, Leaver, Destructible
  <2>3. \A e \in Entries : vtable'[e] = "mode" \/ (vtable'[e] = "tmp" /\ Detached')
    BY <1>1, <1>5, LateParts DEF Detached
  <2> QED
    BY <1>1, <1>2, <1>5, <2>1, <2>2, <2>3, LateParts, LateStep
<1>6. CASE Goto(t, "detach") /\ destructs' = destructs + 1 /\ pc[t] = "callDestruct"
           /\ UNCHANGED <<phase, outer>>
  <2>2. Place(t)' = "detach" /\ \A u \in Threads \ {t} : Place(u)' = Place(u)
    BY <1>6, GotoPlaced DEF Serving
  <2>3. destructs = 0 /\ destructs' = 1
    BY <1>2, <1>6 DEF LeavesAt
  <2>4. LeavesAt(t)' /\ Place(t)' \in Leaving
    BY <1>1, <1>2, <1>3, <1>6, <2>2, <2>3, LeavingIs DEF LeavesAt, Leaver
  <2>5. \A e \in Entries : vtable'[e] = "mode" \/ (vtable'[e] = "tmp" /\ Detached')
    BY <1>1, <2>3, LateParts DEF Detached
  <2> QED
    BY <1>1, <1>2, <1>3, <1>6, <2>2, <2>3, <2>4, <2>5, LateStep
<1>7. "exited" \in Phases \ Live /\ "nullcall" \in Phases \ Live
  BY DEF Phases, Live, Crashed
<1> QED
  BY <1>4, <1>5, <1>6, <1>7, Zenon DEF LibDestruct, At

\* One word of the table.
LEMMA LateDetach ==
  ASSUME IInv, LifeInv, served, NEW t \in Threads, Detach(t)
  PROVE  LifeInv'
<1>1. /\ pc[t] = "detach" /\ Assign(t, "tmp", "bye")
      /\ UNCHANGED <<phase, constructs, destructs, served, outer>>
  BY DEF Detach, At
<1>2. Place(t) = "detach" /\ Leaver(t) /\ LeavesAt(t)
  BY <1>1, PlaceTyped, LateParts, LeavingIs DEF Leaver, Serving
<1>3. destructs = 1 /\ phase # "running" /\ (word[t] > 0 => Detached)
  BY <1>2 DEF LeavesAt
<1>4. vtable \in [Entries -> Targets] /\ word \in [Threads -> 0 .. 4]
  BY IInvParts DEF TypeOK
<1>5. /\ \A e \in Entries : vtable'[e] = "tmp" \/ vtable'[e] = vtable[e]
      /\ \A u \in Threads \ {t} : word'[u] = word[u]
      /\ Goto(t, IF word[t] = 4 THEN "bye" ELSE pc[t])
  BY <1>1, <1>4, AssignTyped DEF Targets
<1>6. PICK l \in {"detach", "bye"} : Goto(t, l)
  BY <1>1, <1>5
<1>7. Place(t)' = l /\ \A u \in Threads \ {t} : Place(u)' = Place(u)
  BY <1>1, <1>6, GotoPlaced DEF Serving
<1>8. Detached'
  <2>1. CASE word[t] = 0
    <3>2. word[t] + 1 = 1 /\ entries[1] = "malloc"
      BY <2>1, EntriesAre
    <3>3. vtable' = [vtable EXCEPT ![entries[word[t] + 1]] = "tmp"]
      BY <1>1 DEF Assign
    <3>1. vtable' = [vtable EXCEPT !["malloc"] = "tmp"]
      BY <3>2, <3>3, Zenon
    <3> QED
      BY <1>1, <1>3, <1>4, <3>1, EntriesAre DEF Detached
  <2>2. CASE word[t] # 0
    BY <1>1, <1>3, <1>4, <1>5, <2>2, EntriesAre DEF Detached
  <2> QED
    BY <2>1, <2>2
<1>9. LeavesAt(t)'
  BY <1>1, <1>3, <1>7, <1>8, LeavingIs DEF LeavesAt, Leaver
<1>10. \A e \in Entries : vtable'[e] = "mode" \/ (vtable'[e] = "tmp" /\ Detached')
  BY <1>5, <1>8, LateParts
<1> QED
  BY <1>1, <1>2, <1>3, <1>5, <1>7, <1>9, <1>10, LeavingIs, LateStep

(***************************************************************************)
(* LifeInv is inductive.                                                   *)
(***************************************************************************)

\* The first state: nobody has called, nothing is constructed.
LEMMA InitLife == Init => LifeInv
<1> SUFFICES ASSUME Init PROVE LifeInv
  OBVIOUS
<1>1. /\ phase = "running" /\ served = FALSE /\ held = {} /\ constructs = 0 /\ destructs = 0
      /\ pc = [t \in Threads |-> "app"]
      /\ \A e \in Entries : vtable[e] = "libinit"
  BY Zenon DEF Init
<1>2. \A t \in Threads : pc[t] = "app" /\ Place(t) = "app"
  BY <1>1 DEF Place, Serving
<1>3. EarlyTable
  BY <1>1, <1>2, BootstrapAssumption DEF EarlyTable, All, InTmp, Constructed
<1>4. EarlyInv
  BY <1>1, <1>2, <1>3, BootstrapAssumption DEF EarlyInv
<1>5. LeaveInv
  BY <1>1, <1>2, LeavingIs DEF LeaveInv, LeavesAt, Leaver
<1> QED
  BY <1>1, <1>4, <1>5 DEF LifeInv, LateInv

\* Every step keeps it.
LEMMA NextLife == MainFirst /\ IInv /\ LifeInv /\ [Next]_vars => LifeInv'
<1> SUFFICES ASSUME MainFirst, IInv, LifeInv, [Next]_vars PROVE LifeInv'
  OBVIOUS
<1>1. CASE UNCHANGED vars
  <2>1. UNCHANGED <<phase, vtable, postInit, constructs, destructs, served, held, pc, outer, word>>
    BY <1>1 DEF vars, tables, threadVars
  <2>2. \A t \in Threads : Place(t)' = Place(t) /\ Leaver(t)' = Leaver(t)
    BY <2>1 DEF Place, Leaver
  <2>3. LeaveInv'
    BY <2>1, <2>2 DEF LifeInv, LeaveInv, LeavesAt, Destructible, Detached
  <2>4. EarlyInv'
    BY <2>1, <2>2, BootstrapAssumption DEF LifeInv, EarlyInv, EarlyTable, All, Half, InTmp
  <2>5. LateInv'
    BY <2>1, <2>2 DEF LifeInv, LateInv, Detached
  <2> QED
    BY <2>3, <2>4, <2>5 DEF LifeInv
<1>2. CASE Terminated
  BY <1>1, <1>2 DEF Terminated
<1>3. ASSUME NEW t \in Threads, Enter(t) \/ Nest(t) \/ Exit(t) \/ Step(t)
      PROVE  LifeInv'
  <2>1. CASE ~ served
    <3>1. t = Main
      BY <1>3, <2>1, MainAlone DEF LifeInv
    <3>2. ~ LibDestruct(Main) \/ (pc[Main] = "destruct" /\ LibDestruct(Main))
      <4>1. Place(Main) \notin {"callDestruct", "bye"}
        BY <2>1, EarlyParts DEF Booting, Nesting
      <4> QED
        BY <4>1, PlaceTyped, BootstrapAssumption DEF LibDestruct, At, Serving
    <3>3. CASE Exit(Main)
      <4>1. Exits(Main) /\ UNCHANGED <<tables, served, held>> /\ pc[Main] = "app" /\ phase \in Live
        BY <3>3 DEF Exit, Live
      <4>2. vtable["destruct"] # "mode"
        BY <2>1, <4>1, EarlyParts DEF EarlyTable, All, Entries
      <4> QED
        BY <2>1, <4>1, <4>2, EarlyExits DEF tables
    <3>4. CASE pc[Main] = "destruct" /\ LibDestruct(Main)
      <4>1. Place(Main) = "destruct"
        BY <3>4, PlaceTyped, BootstrapAssumption DEF Serving
      <4>2. ~ Destructible
        BY <2>1, <4>1, EarlyParts DEF EarlyTable, Destructible
      <4>3. Crash(Main, "exited") /\ UNCHANGED <<tables, served, held>>
        BY <3>4, <4>2 DEF LibDestruct, At, tables
      <4> QED
        BY <2>1, <4>3, EarlyCrash DEF Phases, Live
    <3>5. ~ Detach(Main) /\ ~ RaceExit(Main)
      <4>1. Place(Main) \notin {"detach", "race"}
        BY <2>1, EarlyParts DEF Booting, Nesting
      <4> QED
        BY <4>1, PlaceTyped, BootstrapAssumption DEF Detach, RaceExit, At, Serving
    <3> QED
      BY <1>3, <2>1, <3>1, <3>2, <3>3, <3>4, <3>5, EarlyEnter, EarlyDispatch, EarlyServed,
         EarlyConstruct, EarlyInit DEF Step
  <2>2. CASE served
    BY <1>3, <2>2, NoBoot, LateServe, LateExit, LateDestruct, LateDetach DEF Step
  <2> QED
    BY <2>1, <2>2
<1> QED
  BY <1>1, <1>2, <1>3 DEF Next

\* Both invariants, of a process whose first call is made before it has a
\* second thread.
THEOREM LifeInvariance == MainFirst => (Spec => [](IInv /\ LifeInv))
<1> SUFFICES ASSUME MainFirst PROVE Spec => [](IInv /\ LifeInv)
  OBVIOUS
<1>1. Init => IInv /\ LifeInv
  BY InitInv, InitLife
<1>2. (IInv /\ LifeInv) /\ [Next]_vars => (IInv /\ LifeInv)'
  BY NextInv, NextLife
<1> QED
  BY <1>1, <1>2, PTL DEF Spec

\* A first call made alone constructs the MODE, so truncates its file, before
\* any call is answered, nested ones excepted, and nothing does so again; it is
\* destructed at most once.  MainFirst is what it takes: threads that race to
\* be first construct it each.
THEOREM ConstructedOnceCorrect == MainFirst => (Spec => []ConstructedOnce)
<1> SUFFICES ASSUME MainFirst PROVE Spec => []ConstructedOnce
  OBVIOUS
<1>1. IInv /\ LifeInv => ConstructedOnce
  <2> SUFFICES ASSUME IInv, LifeInv PROVE ConstructedOnce
    OBVIOUS
  <2>1. constructs \in Nat /\ destructs \in Nat
    BY IInvParts DEF TypeOK
  <2>2. CASE served
    BY <2>1, <2>2, LateParts, BootstrapAssumption DEF ConstructedOnce
  <2>3. CASE ~ served
    BY <2>1, <2>3, EarlyParts DEF ConstructedOnce
  <2> QED
    BY <2>2, <2>3
<1> QED
  BY <1>1, LifeInvariance, PTL

(***************************************************************************)
(* Stages.                                                                 *)
(***************************************************************************)

\* A step that may change an entry of the table or the count of destructs.
LEMMA StageStep ==
  ASSUME MainFirst, IInv, LifeInv, [Next]_vars, NEW e \in Entries
  PROVE  Stage(e)' >= Stage(e)
<1>1. vtable[e] \in Targets /\ destructs \in Nat
  BY IInvParts DEF TypeOK
<1>2. CASE UNCHANGED <<vtable, destructs>>
  BY <1>1, <1>2 DEF Stage
<1>3. CASE \E t \in Threads : LibDestruct(t)
  <2>1. vtable' = vtable /\ destructs' \in {destructs, destructs + 1}
    BY <1>3 DEF LibDestruct
  <2> QED
    BY <1>1, <2>1 DEF Stage
<1>4. CASE \E t \in Threads : Detach(t)
  <2>1. PICK t \in Threads : Detach(t)
    BY <1>4
  <2>2. pc[t] = "detach" /\ Assign(t, "tmp", "bye") /\ UNCHANGED destructs
    BY <2>1 DEF Detach, At
  <2>3. vtable'[e] = vtable[e] \/ vtable'[e] = "tmp"
    <3>1. vtable \in [Entries -> Targets] /\ word \in [Threads -> 0 .. 4]
      BY IInvParts DEF TypeOK
    <3> QED
      BY <2>2, <3>1, AssignTyped DEF Targets
  <2>4. LeavesAt(t) /\ Place(t) = "detach"
    BY <2>2, PlaceTyped DEF LifeInv, LeaveInv, Serving
  <2>5. destructs = 1 /\ served
    BY <2>4, LeavingIs DEF LeavesAt, Leaver
  <2>6. vtable[e] # "libinit"
    BY <2>5, LateParts, BootstrapAssumption
  <2> QED
    BY <2>2, <2>3, <2>5, <2>6 DEF Stage
<1>5. CASE \E t \in Threads : LibInit(t) \/ InstallInit(t) \/ LDInit(t) \/ Finish(t)
  <2>1. PICK t \in Threads : LibInit(t) \/ InstallInit(t) \/ LDInit(t) \/ Finish(t)
    BY <1>5
  <2>2. ~ served
    BY <2>1, NoBoot
  <2>3. t = Main
    BY <2>1, <2>2, MainAlone DEF LifeInv, Step
  <2>4. pc[Main] \in {"enter", "init", "ldinit", "finish"} /\ destructs' = destructs
    BY <2>1, <2>3 DEF LibInit, InstallInit, LDInit, Finish, At
  <2>5. EarlyTable /\ destructs = 0 /\ Place(Main) = pc[Main]
    BY <2>2, <2>4, BootPlace DEF Booting
  <2>6. CASE LibInit(Main)
    <3>1. Assign(Main, "tmp", "mode") /\ Half(Main, "libinit", "tmp")
      BY <2>5, <2>6 DEF LibInit, At, EarlyTable
    <3>2. /\ vtable[e] = "libinit" \/ vtable[e] = "tmp"
          /\ vtable'[e] = "tmp" \/ vtable'[e] = vtable[e]
      BY <3>1, AssignHalf, BootstrapAssumption DEF Targets
    <3> QED
      BY <2>4, <2>5, <3>2 DEF Stage
  <2>7. CASE InstallInit(Main)
    <3>1. Assign(Main, "ldinit", "ldinit") \/ vtable' = vtable
      BY <2>7 DEF InstallInit, Dies
    <3>2. Half(Main, "tmp", "ldinit")
      BY <2>5, <2>7 DEF InstallInit, At, EarlyTable
    <3>3. /\ vtable[e] = "tmp" \/ vtable[e] = "ldinit"
          /\ vtable'[e] = "ldinit" \/ vtable'[e] = vtable[e]
      <4>1. CASE Assign(Main, "ldinit", "ldinit")
        BY <3>2, <4>1, AssignHalf, BootstrapAssumption DEF Targets
      <4>2. CASE vtable' = vtable
        BY <3>2, <4>2, EntriesAre DEF Half
      <4> QED
        BY <3>1, <4>1, <4>2
    <3> QED
      BY <2>4, <2>5, <3>3 DEF Stage
  <2>8. CASE LDInit(Main)
    <3>1. Assign(Main, "tmp", "preload") /\ Half(Main, "ldinit", "tmp")
      BY <2>5, <2>8 DEF LDInit, At, EarlyTable
    <3>2. /\ vtable[e] = "ldinit" \/ vtable[e] = "tmp"
          /\ vtable'[e] = "tmp" \/ vtable'[e] = vtable[e]
      BY <3>1, AssignHalf, BootstrapAssumption DEF Targets
    <3> QED
      BY <2>4, <2>5, <3>2 DEF Stage
  <2>9. CASE Finish(Main)
    <3>1. Assign(Main, "mode", "dispatch") /\ Half(Main, "tmp", "mode")
      BY <2>5, <2>9 DEF Finish, At, EarlyTable, Constructed
    <3>2. /\ vtable[e] = "tmp" \/ vtable[e] = "mode"
          /\ vtable'[e] = "mode" \/ vtable'[e] = vtable[e]
      BY <3>1, AssignHalf, BootstrapAssumption DEF Targets
    <3> QED
      BY <2>4, <2>5, <3>2 DEF Stage
  <2> QED
    BY <2>1, <2>3, <2>6, <2>7, <2>8, <2>9
<1>6. ASSUME NEW t \in Threads,
             \/ Enter(t) \/ Nest(t) \/ Exit(t) \/ Dispatch(t) \/ TmpMalloc(t) \/ Handler(t)
             \/ InstallMode(t) \/ ConstructMode(t) \/ Preload(t) \/ Dlsym(t) \/ RaceExit(t)
      PROVE  UNCHANGED <<vtable, destructs>>
  BY <1>6 DEF Enter, Nest, Exit, Dispatch, TmpMalloc, Handler, InstallMode, ConstructMode,
     Preload, Dlsym, RaceExit, Dies, tables
<1> QED
  BY <1>2, <1>3, <1>4, <1>5, <1>6 DEF Next, Step, Terminated, vars, tables

\* The table never leads back: not to the init, not from the MODE to the
\* bootstrap, not from the destructor's table to the MODE.
THEOREM StagesInOrderCorrect == MainFirst => (Spec => StagesInOrder)
<1> SUFFICES ASSUME MainFirst PROVE Spec => StagesInOrder
  OBVIOUS
<1>1. IInv /\ LifeInv /\ [Next]_vars => [\A e \in Entries : Stage(e)' >= Stage(e)]_vars
  BY StageStep
<1> QED
  BY <1>1, LifeInvariance, PTL DEF Spec, StagesInOrder

(***************************************************************************)
(* BlockInv: where a block of TmpAlloc can be.                             *)
(***************************************************************************)

\* Once the table of the destructor is there, it stays.
LEMMA DetachedStays ==
  ASSUME MainFirst, IInv, LifeInv, [Next]_vars, Detached
  PROVE  Detached'
<1>1. IInv' /\ LifeInv'
  BY NextInv, NextLife
<1>2. "malloc" \in Entries /\ destructs' \in Nat
  BY <1>1 DEF Entries, Names, IInv, TypeOK
<1>3. Stage("malloc") = 4 /\ Stage("malloc")' >= 4
  BY <1>2, StageStep DEF Detached, Stage
<1>4. destructs' > 0 /\ vtable'["malloc"] # "mode"
  BY <1>2, <1>3 DEF Stage
<1>5. served'
  BY <1>1, <1>4 DEF LifeInv, EarlyInv
<1> QED
  BY <1>1, <1>2, <1>4, <1>5 DEF LifeInv, LateInv, Detached

\* What a step of thread t must show of t, and of what the program holds.
LEMMA BlockStep ==
  ASSUME MainFirst, IInv, LifeInv, BlockInv, [Next]_vars, NEW t \in Threads,
         \A u \in Threads \ {t} : pc'[u] = pc[u] /\ call'[u] = call[u] /\ outer'[u] = outer[u],
         TmpAt(t)', "tmp" \in held' => "tmp" \in held \/ Detached',
         phase' \in Crashed => phase' = "foreign" /\ Detached'
  PROVE  BlockInv'
<1>1. Detached => Detached'
  BY DetachedStays
<1>2. ASSUME NEW u \in Threads
      PROVE  TmpAt(u)'
  <2>1. CASE u = t
    BY <2>1
  <2>2. CASE u # t
    BY <1>1, <2>2 DEF BlockInv, TmpAt, Place, InTmp
  <2> QED
    BY <2>1, <2>2
<1>3. NoCrash'
  BY DEF NoCrash, Detached
<1> QED
  BY <1>1, <1>2, <1>3 DEF BlockInv

\* What the invariants say of the call of one thread.
LEMMA BlockParts ==
  ASSUME MainFirst, IInv, LifeInv, BlockInv, NEW t \in Threads
  PROVE  /\ TmpAt(t) /\ call[t] \in Calls /\ outer[t].call \in Calls
         /\ "tmp" \in held => Detached
         /\ Place(t) = "bye" => Detached
         /\ Place(t) # "race"
         /\ pc[t] \in Serving /\ Place(t) \notin Booting /\ (\E e \in Entries : vtable[e] = "tmp")
              => Detached
         /\ (\E e \in Entries : vtable[e] = "libinit")
              => ~ served /\ ~ Detached /\ (pc[t] \in Serving => Place(t) = "app")
         /\ pc[t] \in Serving => \A e \in Entries : vtable[e] # "ldinit"
         /\ pc[t] = "handler" => Place(t) \notin Booting
<1>1. TmpAt(t) /\ ("tmp" \in held => Detached)
  BY DEF BlockInv
<1>2. call[t] \in Calls /\ outer[t].call \in Calls
  BY IInvParts DEF TypeOK
<1>3. CASE served
  <2>1. Place(t) = "bye" => Detached
    BY <1>3, LateParts, LeavingIs DEF LeavesAt, Leaver
  <2>2. \A e \in Entries : vtable[e] = "mode" \/ (vtable[e] = "tmp" /\ Detached)
    BY <1>3, LateParts
  <2>3. Place(t) \notin Booting /\ Place(t) # "race"
    BY <1>3, LateParts, LeavingIs DEF Booting, Nesting
  <2> QED
    BY <1>1, <1>2, <1>3, <2>1, <2>2, <2>3
<1>4. CASE ~ served
  <2>1. CASE t # Main
    <3>1. pc[t] = "app" /\ Place(t) = "app" /\ destructs = 0
      BY <1>4, <2>1, EarlyParts DEF Place, Serving
    <3> QED
      BY <1>1, <1>2, <1>4, <3>1 DEF Serving, Detached
  <2>2. CASE t = Main
    <3>1. EarlyTable /\ destructs = 0 /\ Place(Main) \in {"app", "destruct"} \union Booting
      BY <1>4, EarlyParts
    <3>2. pc[Main] \in Serving => Place(Main) \in {"app", "construct", "preload", "dlsym"}
      BY <3>1, PlaceTyped, BootstrapAssumption DEF Nesting, Booting
    <3>3. Place(Main) = "app" => All("libinit") \/ All("mode")
      BY <3>1 DEF EarlyTable
    <3>4. Place(Main) \in {"construct", "preload", "dlsym"} => All("tmp")
      BY <3>1 DEF EarlyTable
    <3>5. pc[Main] = "handler" => Place(Main) = "app"
      BY <3>1 DEF EarlyTable
    <3> QED
      BY <1>1, <1>2, <1>4, <2>2, <3>1, <3>2, <3>3, <3>4, <3>5
         DEF All, Detached, Booting, Nesting
  <2> QED
    BY <2>1, <2>2
<1> QED
  BY <1>3, <1>4

\* A call is made, by the program or by a library.
LEMMA EnterBlock ==
  ASSUME MainFirst, IInv, LifeInv, BlockInv, [Next]_vars, NEW t \in Threads, Enter(t) \/ Nest(t)
  PROVE  BlockInv'
<1>1. phase' = phase /\ phase \in Live /\ held' = held
  BY DEF Enter, Nest, At
<1>2. CASE Enter(t)
  <2>1. PICK c \in CallsWith(held) : call' = [call EXCEPT ![t] = c]
    BY <1>2 DEF Enter
  <2>2. /\ c.op \in Names /\ (c.arg = "tmp" => "tmp" \in held)
    BY <2>1 DEF CallsWith, Names
  <2>3. /\ pc' = [pc EXCEPT ![t] = "dispatch"] /\ outer' = outer /\ pc[t] = "app"
        /\ UNCHANGED tables
    BY <1>2 DEF Enter, Goto, At
  <2>4. outer[t].at = "app"
    BY <2>3, PlaceTyped DEF Serving
  <2>5. pc'[t] = "dispatch" /\ call'[t] = c
    BY <2>1, <2>3, IInvParts DEF TypeOK
  <2>6. TmpAt(t)'
    BY <2>2, <2>3, <2>4, <2>5, BlockParts
       DEF TmpAt, InTmp, Booting, Nesting, Detached, tables
  <2>7. \A u \in Threads \ {t} : pc'[u] = pc[u] /\ call'[u] = call[u] /\ outer'[u] = outer[u]
    BY <2>1, <2>3, IInvParts DEF TypeOK
  <2> QED
    BY <1>1, <2>6, <2>7, BlockStep DEF Live, Crashed
<1>3. CASE Nest(t)
  <2>1. PICK c \in CallsWith(lib) : call' = [call EXCEPT ![t] = c]
    BY <1>3 DEF Nest
  <2>2. c.op \in Names
    BY <2>1 DEF CallsWith, Names
  <2>3. /\ pc' = [pc EXCEPT ![t] = "dispatch"] /\ pc[t] \in Nesting
        /\ outer' = [outer EXCEPT ![t] = [at |-> pc[t], call |-> call[t]]]
        /\ UNCHANGED tables
    BY <1>3 DEF Nest, Goto
  <2>4. Place(t) = pc[t]
    BY <2>3, PlaceTyped DEF Nesting, Serving
  <2>5. /\ pc'[t] = "dispatch" /\ call'[t] = c
        /\ outer'[t].at = pc[t] /\ outer'[t].call = call[t]
    BY <2>1, <2>3, IInvParts DEF TypeOK
  <2>6. Place(t)' = pc[t]
    BY <2>5 DEF Place, Serving
  <2>7. pc[t] = "bye" \/ (pc[t] \in Booting /\ call[t].op \in Names /\ call[t].arg # "tmp")
    BY <2>3, <2>4, BlockParts DEF TmpAt, Nesting, Booting
  <2>8. TmpAt(t)'
    BY <2>2, <2>3, <2>4, <2>5, <2>6, <2>7, BlockParts
       DEF TmpAt, InTmp, Booting, Nesting, Detached, tables
  <2>9. \A u \in Threads \ {t} : pc'[u] = pc[u] /\ call'[u] = call[u] /\ outer'[u] = outer[u]
    BY <2>1, <2>3, IInvParts DEF TypeOK
  <2> QED
    BY <1>1, <2>8, <2>9, BlockStep DEF Live, Crashed
<1> QED
  BY <1>2, <1>3

\* A call returns; a block of TmpAlloc goes to the program only when the table
\* has been replaced.
LEMMA ReturnBlock ==
  ASSUME MainFirst, IInv, LifeInv, BlockInv, [Next]_vars, NEW t \in Threads, NEW p,
         Return(t, p), phase \in Live, UNCHANGED <<phase, tables>>, pc[t] \in Serving,
         p = "tmp" => InTmp(t)
  PROVE  BlockInv'
<1>1. /\ pc'[t] = outer[t].at /\ call'[t] = outer[t].call /\ outer'[t].at = "app"
      /\ \A u \in Threads \ {t} : pc'[u] = pc[u] /\ call'[u] = call[u] /\ outer'[u] = outer[u]
  BY IInvParts DEF Return, Goto, TypeOK, NotNested
<1>2. Place(t) = outer[t].at /\ outer[t].at \notin Serving
  BY PlaceTyped
<1>3. TmpAt(t)'
  BY <1>1, <1>2, BlockParts DEF TmpAt, Booting, Nesting, Serving
<1>4. "tmp" \in held' => "tmp" \in held \/ Detached'
  <2>1. CASE outer[t].at = "app" /\ p = "tmp"
    BY <1>2, <2>1, BlockParts DEF TmpAt, Booting, Nesting, Detached, tables
  <2>2. CASE outer[t].at # "app" \/ p # "tmp"
    BY <2>2 DEF Return
  <2> QED
    BY <2>1, <2>2
<1> QED
  BY <1>1, <1>3, <1>4, BlockStep DEF Live, Crashed

\* exit leaves no call behind.
LEMMA ExitsBlock ==
  ASSUME MainFirst, IInv, LifeInv, BlockInv, [Next]_vars, NEW t \in Threads,
         Exits(t), UNCHANGED held
  PROVE  BlockInv'
<1>1. /\ pc'[t] \in {"destruct", "halted"} /\ outer'[t].at = "app"
      /\ \A u \in Threads \ {t} : pc'[u] = pc[u] /\ call'[u] = call[u] /\ outer'[u] = outer[u]
      /\ phase' \in {"exited", "exiting"}
  BY IInvParts DEF Exits, Goto, TypeOK, NotNested
<1>2. TmpAt(t)'
  BY <1>1 DEF TmpAt, Booting, Nesting, Serving
<1> QED
  BY <1>1, <1>2, BlockStep DEF Crashed

\* A thread goes on with the same call.
LEMMA GotoBlock ==
  ASSUME MainFirst, IInv, LifeInv, BlockInv, [Next]_vars, NEW t \in Threads, NEW l, Goto(t, l),
         UNCHANGED <<call, outer, held, phase>>, phase \in Live,
         l \in {"dispatch", "handler"} \union Booting
           => pc[t] \in {"dispatch", "handler"} \union Booting,
         l \in Booting => pc[t] \in Booting \/ call[t].arg # "tmp",
         l \in Serving =>
           \/ pc[t] \in Booting /\ l = "dispatch"
           \/ /\ pc[t] \in Serving
              /\ l \in {"test", "address", "subtract"} => outer[t].at \in Booting \/ Detached
  PROVE  BlockInv'
<1>1. /\ pc'[t] = l
      /\ \A u \in Threads \ {t} : pc'[u] = pc[u] /\ call'[u] = call[u] /\ outer'[u] = outer[u]
  BY IInvParts DEF Goto, TypeOK
<1>2. Detached => Detached'
  BY DetachedStays
<1>3. TmpAt(t)'
  <2>1. CASE l \in Serving /\ pc[t] \in Serving
    <3>1. Place(t) = outer[t].at /\ Place(t)' = outer[t].at
      BY <1>1, <2>1 DEF Place
    <3> QED
      BY <1>1, <1>2, <2>1, <3>1, BlockParts DEF TmpAt, InTmp, Serving, Booting, Nesting
  <2>2. CASE l \in Serving /\ pc[t] \in Booting
    <3>1. pc[t] \notin Serving
      BY <2>2 DEF Booting, Nesting, Serving
    <3>2. outer[t].at = "app" /\ l \notin Booting
      BY <2>2, <3>1, PlaceTyped DEF Booting, Nesting, Serving
    <3>3. l = "dispatch"
      BY <2>2, <3>1
    <3> QED
      BY <1>1, <2>2, <3>2, <3>3, BlockParts DEF TmpAt, InTmp, Booting, Nesting
  <2>3. CASE l \notin Serving
    BY <1>1, <2>3, BlockParts DEF TmpAt, Booting, Nesting, Serving
  <2> QED
    BY <2>1, <2>2, <2>3
<1> QED
  BY <1>1, <1>3, BlockStep DEF Live, Crashed

\* The process ends, and of a foreign block only in the end.
LEMMA CrashBlock ==
  ASSUME MainFirst, IInv, LifeInv, BlockInv, [Next]_vars, NEW t \in Threads, NEW p, Crash(t, p),
         UNCHANGED held, p \in Crashed => p = "foreign" /\ Detached
  PROVE  BlockInv'
<1>1. UNCHANGED <<pc, call, outer, held>> /\ phase' = p
  BY DEF Crash, threadVars
<1>2. Detached => Detached'
  BY DetachedStays
<1>3. TmpAt(t)'
  BY <1>1, <1>2, BlockParts DEF TmpAt, Place, InTmp
<1> QED
  BY <1>1, <1>2, <1>3, BlockStep

\* perror of TmpAlloc returns, or asks TmpAlloc for a buffer.
LEMMA PerrorBlock ==
  ASSUME MainFirst, IInv, LifeInv, BlockInv, [Next]_vars, NEW t \in Threads,
         TmpPerror(t), phase \in Live, UNCHANGED <<phase, tables>>, pc[t] \in Serving,
         outer[t].at \in Booting \/ Detached
  PROVE  BlockInv'
<1>1. CASE Return(t, "null")
  BY <1>1, ReturnBlock
<1>2. CASE /\ call' = [call EXCEPT ![t] = PerrorCall] /\ Goto(t, "test")
           /\ UNCHANGED <<held, outer>>
  <2>1. /\ pc'[t] = "test" /\ outer'[t] = outer[t]
        /\ \A u \in Threads \ {t} : pc'[u] = pc[u] /\ call'[u] = call[u] /\ outer'[u] = outer[u]
    BY <1>2, IInvParts DEF Goto, TypeOK
  <2>2. Detached => Detached'
    BY DEF Detached, tables
  <2>3. Place(t)' = outer[t].at
    BY <2>1 DEF Place, Serving
  <2>4. TmpAt(t)'
    BY <2>1, <2>2, <2>3, BlockParts DEF TmpAt, Booting, Nesting, Serving
  <2> QED
    BY <1>2, <2>1, <2>4, BlockStep DEF Live, Crashed
<1> QED
  BY <1>1, <1>2 DEF TmpPerror

\* A call finds where its entry leads: TmpAlloc serves it during the init, and
\* when the table has been replaced.
LEMMA DispatchBlock ==
  ASSUME MainFirst, IInv, LifeInv, BlockInv, [Next]_vars, NEW t \in Threads, Dispatch(t)
  PROVE  BlockInv'
<1>1. pc[t] = "dispatch" /\ pc[t] \in Serving /\ phase \in Live /\ UNCHANGED tables
  BY DEF Dispatch, At, Serving
<1>2. Place(t) = outer[t].at /\ call[t].op \in Names /\ Names \subseteq Entries
  BY <1>1, PlaceTyped, BlockParts DEF TmpAt, Entries
<1>3. CASE Leads(t, "libinit")
  <2>1. outer[t].at = "app" /\ ~ Detached
    BY <1>1, <1>2, <1>3, BlockParts DEF Leads
  <2>2. Goto(t, "enter") /\ UNCHANGED <<call, outer, held, phase>>
    BY <1>3, <2>1 DEF Dispatch, Leads
  <2>3. call[t].arg # "tmp"
    BY <1>1, <1>2, <2>1, BlockParts DEF TmpAt, Booting, Nesting
  <2> QED
    BY <1>1, <2>2, <2>3, GotoBlock DEF Serving
<1>4. CASE Leads(t, "tmp") /\ call[t].op \in {"malloc", "calloc"}
  <2>1. Goto(t, "test") /\ UNCHANGED <<call, outer, held, phase>>
    BY <1>4 DEF Dispatch, Leads
  <2>2. outer[t].at \in Booting \/ Detached
    BY <1>1, <1>2, <1>4, BlockParts DEF Leads
  <2> QED
    BY <1>1, <2>1, <2>2, GotoBlock DEF Serving, Booting, Nesting
<1>5. CASE Leads(t, "tmp") /\ call[t].op \in {"free", "realloc"}
  <2>1. UNCHANGED phase /\ (TmpPerror(t) \/ Return(t, "null"))
    BY <1>5 DEF Dispatch, TmpNothing, Leads
  <2>2. outer[t].at \in Booting \/ Detached
    BY <1>1, <1>2, <1>5, BlockParts DEF Leads
  <2> QED
    BY <1>1, <2>1, <2>2, ReturnBlock, PerrorBlock
<1>6. ~ Leads(t, "ldinit")
  BY <1>1, <1>2, BlockParts DEF Leads
<1>7. CASE Leads(t, "mode")
  <2>1. Goto(t, "handler") /\ UNCHANGED <<call, outer, held, phase>>
    BY <1>7 DEF Dispatch, Leads
  <2> QED
    BY <1>1, <2>1, GotoBlock DEF Serving, Booting, Nesting
<1> QED
  BY <1>3, <1>4, <1>5, <1>6, <1>7, Zenon DEF Dispatch

\* TmpAlloc and the handlers: the backing allocator meets a block of TmpAlloc
\* only when the table has been replaced.
LEMMA ServedBlock ==
  ASSUME MainFirst, IInv, LifeInv, BlockInv, [Next]_vars, NEW t \in Threads,
         TmpMalloc(t) \/ Handler(t)
  PROVE  BlockInv'
<1>1. /\ pc[t] \in {"test", "address", "subtract", "handler"} /\ pc[t] \in Serving
      /\ phase \in Live /\ UNCHANGED tables /\ Place(t) = outer[t].at
      /\ pc[t] = "handler" => call[t].op \in Names
  <2>1. /\ pc[t] \in {"test", "address", "subtract", "handler"}
        /\ phase \in Live /\ UNCHANGED tables
    BY DEF TmpMalloc, Handler, At
  <2> QED
    BY <2>1, PlaceTyped, BlockParts DEF TmpAt, Serving
<1>2. CASE TmpMalloc(t)
  <2>1. CASE /\ Goto(t, "address") \/ Goto(t, "subtract")
             /\ InTmp(t) /\ UNCHANGED <<phase, held, call, outer>>
    <3>1. outer[t].at \in Booting \/ Detached
      BY <1>1, <2>1, BlockParts DEF TmpAt
    <3> QED
      BY <1>1, <2>1, <3>1, GotoBlock DEF Serving, Booting, Nesting
  <2>2. CASE \E p \in {"tmp", "null"} : Return(t, p) /\ InTmp(t) /\ UNCHANGED phase
    BY <1>1, <2>2, ReturnBlock
  <2>3. CASE TmpPerror(t) /\ InTmp(t) /\ UNCHANGED phase
    <3>1. outer[t].at \in Booting \/ Detached
      BY <1>1, <2>3, BlockParts DEF TmpAt
    <3> QED
      BY <1>1, <2>3, <3>1, PerrorBlock
  <2>4. CASE Crash(t, "overflow") /\ UNCHANGED held
    BY <2>4, CrashBlock DEF Crashed
  <2> QED
    BY <1>2, <2>1, <2>2, <2>3, <2>4 DEF TmpMalloc, At, InTmp
<1>3. CASE Handler(t)
  <2>1. CASE call[t].op \in resolved /\ call[t].arg # "tmp"
    <3>1. \E p \in {"real", "null"} : Return(t, p) /\ UNCHANGED phase
      BY <1>3, <2>1 DEF Handler
    <3> QED
      BY <1>1, <3>1, ReturnBlock
  <2>2. CASE ~ (call[t].op \in resolved /\ call[t].arg # "tmp")
    <3>1. pc[t] = "handler"
      BY <1>3 DEF Handler, At
    <3>2. Ready /\ Place(t) \notin Booting
      BY <3>1, IInvParts, BlockParts DEF Boot
    <3>3. call[t].op \in resolved /\ call[t].arg = "tmp"
      BY <1>1, <2>2, <3>1, <3>2 DEF Ready
    <3>4. Detached
      BY <1>1, <3>2, <3>3, BlockParts DEF TmpAt
    <3>5. Crash(t, "foreign") /\ UNCHANGED held
      BY <1>3, <2>2, <3>3 DEF Handler
    <3> QED
      BY <3>4, <3>5, CrashBlock
  <2> QED
    BY <2>1, <2>2
<1> QED
  BY <1>2, <1>3

\* The init and the destructor.
LEMMA BootBlock ==
  ASSUME MainFirst, IInv, LifeInv, BlockInv, [Next]_vars, NEW t \in Threads,
         \/ LibInit(t) \/ InstallMode(t) \/ ConstructMode(t) \/ InstallInit(t)
         \/ LDInit(t) \/ Preload(t) \/ Dlsym(t) \/ Finish(t)
  PROVE  BlockInv'
<1>1. phase \in Live /\ pc[t] \in Booting /\ UNCHANGED held
  BY DEF LibInit, InstallMode, ConstructMode, InstallInit, LDInit, Preload, Dlsym, Finish,
     At, Booting, Nesting
<1>2. CASE Exits(t)
  BY <1>1, <1>2, ExitsBlock
<1>3. CASE Crash(t, "aborted")
  BY <1>1, <1>3, CrashBlock DEF Crashed
<1>4. CASE /\ UNCHANGED <<call, outer, phase>>
           /\ \E l \in Booting \union {"dispatch"} : Goto(t, l)
  BY <1>1, <1>4, GotoBlock DEF Booting, Nesting, Serving
<1>5. CASE LibInit(t) \/ LDInit(t) \/ Finish(t) \/ (InstallInit(t) /\ ~ Dies(t))
  <2>1. PICK l \in Booting \union {"dispatch"} :
          (\E x : Assign(t, x, l)) /\ UNCHANGED <<call, outer, phase>>
    <3>1. CASE LibInit(t)
      BY <3>1 DEF LibInit, Booting
    <3>2. CASE LDInit(t)
      BY <3>2 DEF LDInit, Booting, Nesting
    <3>3. CASE Finish(t)
      BY <3>3 DEF Finish
    <3>4. CASE InstallInit(t) /\ ~ Dies(t)
      BY <3>4 DEF InstallInit, Booting
    <3> QED
      BY <1>5, <3>1, <3>2, <3>3, <3>4
  <2>2. Goto(t, IF word[t] = 4 THEN l ELSE pc[t])
    BY <2>1 DEF Assign
  <2> QED
    BY <1>1, <1>4, <2>1, <2>2
<1> QED
  BY <1>2, <1>3, <1>4, <1>5 DEF InstallMode, ConstructMode, InstallInit, Preload,
     Dlsym, Dies, Booting, Nesting

LEMMA LeaveBlock ==
  ASSUME MainFirst, IInv, LifeInv, BlockInv, [Next]_vars, NEW t \in Threads,
         LibDestruct(t) \/ Detach(t)
  PROVE  BlockInv'
<1>1. phase \in Live /\ UNCHANGED held
  BY DEF LibDestruct, Detach, At
<1>2. CASE /\ UNCHANGED <<call, outer, phase>> /\ \E l \in Leaving : Goto(t, l)
  BY <1>1, <1>2, GotoBlock, LeavingIs DEF Booting, Nesting, Serving
<1>3. CASE Crash(t, "exited")
  BY <1>1, <1>3, CrashBlock DEF Crashed
<1>4. CASE LibDestruct(t)
  <2>1. pc[t] = "callDestruct" => Destructible
    <3>1. pc[t] = "callDestruct" => Place(t) = "callDestruct"
      BY PlaceTyped DEF Serving
    <3> QED
      BY <3>1 DEF LifeInv, LeaveInv, LeavesAt
  <2>2. "detach" \in Leaving /\ "callDestruct" \in Leaving
    BY LeavingIs
  <2> QED
    BY <1>2, <1>3, <1>4, <2>1, <2>2 DEF LibDestruct, At
<1>5. CASE Detach(t)
  <2>1. Goto(t, IF word[t] = 4 THEN "bye" ELSE pc[t]) /\ pc[t] = "detach"
        /\ UNCHANGED <<call, outer, phase>>
    BY <1>5 DEF Detach, Assign, At
  <2>2. \E l \in Leaving : Goto(t, l)
    BY <2>1, LeavingIs
  <2> QED
    BY <1>2, <2>1, <2>2
<1> QED
  BY <1>4, <1>5

\* BlockInv is inductive.
LEMMA InitBlock == Init => BlockInv
<1> SUFFICES ASSUME Init PROVE BlockInv
  OBVIOUS
<1>1. /\ phase = "running" /\ held = {}
      /\ pc = [t \in Threads |-> "app"] /\ outer = [t \in Threads |-> NotNested]
  BY Zenon DEF Init
<1>2. \A t \in Threads : pc[t] = "app" /\ outer[t].at = "app"
  BY <1>1 DEF NotNested
<1> QED
  BY <1>1, <1>2 DEF BlockInv, TmpAt, NoCrash, Booting, Nesting, Serving, Crashed

LEMMA NextBlock ==
  ASSUME MainFirst, IInv, LifeInv, BlockInv, [Next]_vars
  PROVE  BlockInv'
<1>1. CASE UNCHANGED vars
  <2>1. UNCHANGED <<phase, vtable, destructs, held, pc, call, outer>>
    BY <1>1 DEF vars, tables, threadVars
  <2> QED
    BY <2>1 DEF BlockInv, TmpAt, Place, InTmp, NoCrash, Detached
<1>2. CASE Terminated
  BY <1>1, <1>2 DEF Terminated
<1>3. ASSUME NEW t \in Threads, Enter(t) \/ Nest(t) \/ Exit(t) \/ Step(t)
      PROVE  BlockInv'
  <2>1. CASE Exit(t) \/ RaceExit(t)
    BY <2>1, ExitsBlock DEF Exit, RaceExit
  <2> QED
    BY <1>3, <2>1, EnterBlock, DispatchBlock, ServedBlock, BootBlock, LeaveBlock DEF Step
<1> QED
  BY <1>1, <1>2, <1>3 DEF Next

\* No call goes astray, none starts the init again, and a block of TmpAlloc
\* gets to the backing allocator only from the destructor's table on.
THEOREM NoCrashCorrect == MainFirst => (Spec => []NoCrash)
<1> SUFFICES ASSUME MainFirst PROVE Spec => []NoCrash
  OBVIOUS
<1>1. Init => BlockInv
  BY InitBlock
<1>2. (IInv /\ LifeInv) /\ BlockInv /\ [Next]_vars => BlockInv'
  BY NextBlock
<1>3. BlockInv => NoCrash
  BY DEF BlockInv
<1> QED
  BY <1>1, <1>2, <1>3, LifeInvariance, PTL DEF Spec

(***************************************************************************)
(* FrontInv: TmpAlloc's buffer.                                            *)
(***************************************************************************)

\* What a size_t holds is its own remainder.
LEMMA ModSmall ==
  ASSUME NEW n \in 0 .. SizeMod - 1
  PROVE  (SizeMod + n) % SizeMod = n
BY TmpAssumption

\* Minus is the difference where there is one.
LEMMA MinusIs ==
  ASSUME NEW a \in 0 .. SizeMod - 1, NEW b \in 0 .. a
  PROVE  Minus(a, b) = a - b
<1>1. a - b \in 0 .. SizeMod - 1 /\ SizeMod + a - b = SizeMod + (a - b)
  BY TmpAssumption
<1>2. (SizeMod + (a - b)) % SizeMod = a - b
  BY <1>1, ModSmall
<1> QED
  BY <1>1, <1>2 DEF Minus

\* In mallocTmpAlloc, while nothing is destructed, is at most Main.
LEMMA OneInTmp ==
  ASSUME MainFirst, IInv, LifeInv, BlockInv, destructs = 0, NEW t \in Threads, InTmp(t)
  PROVE  t = Main /\ ~ served
<1>1. pc[t] \in Serving /\ ~ Detached
  BY DEF InTmp, Serving, Detached
<1>2. Place(t) \in Booting
  BY <1>1, BlockParts DEF TmpAt
<1>3. ~ served
  BY <1>1, <1>2, PlaceTyped, NoBoot DEF Booting, Nesting
<1>4. t # Main => pc[t] = "app"
  BY <1>3, EarlyParts
<1> QED
  BY <1>3, <1>4 DEF InTmp

\* A step of the init or the destructor, of exit, or into or out of a call,
\* leaves TmpAlloc alone, and takes nobody to the middle of mallocTmpAlloc.
LEMMA FrontSame ==
  ASSUME FrontInv, destructs' = 0 => destructs = 0, UNCHANGED tmpVars,
         \A u \in Threads : pc'[u] \in {"address", "subtract"} => pc'[u] = pc[u]
  PROVE  FrontInv'
BY DEF FrontInv, FrontOnce, tmpVars, Bytes

\* The block TmpAlloc hands out is the front of what remains.
LEMMA SubtractFront ==
  ASSUME MainFirst, IInv, LifeInv, BlockInv, FrontInv, destructs = 0, NEW t \in Threads,
         pc[t] = "subtract", TmpSubtract(t)
  PROVE  FrontOnce'
<1>1. /\ want[t] <= tmpRemaining /\ addr[t] = TmpSize - tmpRemaining
      /\ ~ stray /\ tmpRemaining <= TmpSize
      /\ \A b \in Bytes : cover[b] = IF b < TmpSize - tmpRemaining THEN 1 ELSE 0
  BY DEF FrontInv, FrontOnce
<1>2. /\ tmpRemaining \in 0 .. SizeMod - 1 /\ want[t] \in 0 .. SizeMod - 1
      /\ addr[t] \in 0 .. SizeMod - 1
  BY IInvParts DEF TmpTypeOK
<1>3. Minus(TmpSize, addr[t]) = tmpRemaining
  <2>1. TmpSize \in 0 .. SizeMod - 1 /\ addr[t] \in 0 .. TmpSize
    BY <1>1, <1>2, TmpAssumption
  <2>2. Minus(TmpSize, addr[t]) = TmpSize - addr[t]
    BY <2>1, MinusIs
  <2> QED
    BY <1>1, <1>2, <2>2, TmpAssumption
<1>4. tmpRemaining' = tmpRemaining - want[t]
  <2>1. tmpRemaining' = Minus(tmpRemaining, want[t])
    BY <1>3, Zenon DEF TmpSubtract
  <2> QED
    BY <1>1, <1>2, <2>1, MinusIs
<1>5. ~ stray' /\ tmpRemaining' <= TmpSize
  <2>1. ~ (addr[t] + want[t] > TmpSize) /\ tmpRemaining' <= TmpSize
    BY <1>1, <1>2, <1>4, TmpAssumption
  <2> QED
    BY <1>1, <2>1, Zenon DEF TmpSubtract
<1>6. ASSUME NEW b \in Bytes
      PROVE  cover'[b] = IF b < TmpSize - tmpRemaining' THEN 1 ELSE 0
  <2>1. cover'[b] = Covered(b, t) /\ b \in Nat
    BY TmpAssumption DEF TmpSubtract, Bytes
  <2> QED
    BY <1>1, <1>2, <1>4, <2>1, TmpAssumption DEF Covered
<1> QED
  BY <1>5, <1>6 DEF FrontOnce

\* mallocTmpAlloc keeps what it has read.
LEMMA MallocFront ==
  ASSUME MainFirst, IInv, LifeInv, BlockInv, FrontInv, NEW t \in Threads, TmpMalloc(t)
  PROVE  FrontInv'
<1> SUFFICES ASSUME destructs = 0 PROVE FrontInv'
  BY DEF FrontInv, TmpMalloc, tables
<1>1. destructs' = 0 /\ InTmp(t)
  BY DEF TmpMalloc, tables, At, InTmp
<1>2. \A u \in Threads : InTmp(u) => u = t
  BY <1>1, OneInTmp
<1>3. \A u \in Threads \ {t} : pc'[u] = pc[u] /\ pc'[u] \notin {"address", "subtract"}
  BY <1>2, IInvParts DEF TmpMalloc, TmpPerror, Crash, threadVars, Goto, Return, TypeOK, InTmp
<1>4. FrontOnce /\ tmpRemaining \in 0 .. SizeMod - 1 /\ want[t] \in 0 .. SizeMod - 1
  BY IInvParts DEF FrontInv, TmpTypeOK
<1>5. CASE Fits(t) /\ Goto(t, "address") /\ UNCHANGED tmpVars
  BY <1>1, <1>3, <1>4, <1>5, IInvParts
     DEF FrontInv, FrontOnce, Fits, Goto, TypeOK, tmpVars, Bytes
<1>6. CASE \E p : Return(t, p) /\ UNCHANGED tmpVars
  <2>1. pc'[t] \notin {"address", "subtract"}
    BY <1>6, IInvParts DEF Return, Goto, TypeOK, Nesting
  <2> QED
    BY <1>1, <1>3, <1>6, <2>1, FrontSame
<1>7. CASE pc[t] = "address" /\ TmpAddress(t) /\ Goto(t, "subtract")
  <2>1. addr'[t] = TmpSize - tmpRemaining
    <3>1. TmpSize \in 0 .. SizeMod - 1 /\ tmpRemaining \in 0 .. TmpSize
      BY <1>4, TmpAssumption DEF FrontOnce
    <3>2. Minus(TmpSize, tmpRemaining) = TmpSize - tmpRemaining
      BY <3>1, MinusIs
    <3> QED
      BY <1>7, <3>2, IInvParts DEF TmpAddress, TmpTypeOK
  <2>2. pc'[t] = "subtract" /\ want[t] <= tmpRemaining
    BY <1>7, IInvParts DEF Goto, TypeOK, FrontInv
  <2>3. FrontOnce'
    BY <1>4, <1>7 DEF FrontOnce, TmpAddress, Bytes
  <2> QED
    BY <1>1, <1>3, <1>7, <2>1, <2>2, <2>3 DEF FrontInv, TmpAddress
<1>8. CASE pc[t] = "subtract" /\ TmpSubtract(t) /\ Return(t, "tmp")
  <2>1. FrontOnce'
    BY <1>8, SubtractFront
  <2>2. pc'[t] \notin {"address", "subtract"}
    BY <1>8, IInvParts DEF Return, Goto, TypeOK, Nesting
  <2> QED
    BY <1>3, <2>1, <2>2 DEF FrontInv
<1>9. CASE \E n : TmpRequest(t, n) /\ Goto(t, "test")
  <2>1. pc'[t] = "test"
    BY <1>9, IInvParts DEF Goto, TypeOK
  <2>2. FrontOnce'
    BY <1>4, <1>9 DEF FrontOnce, TmpRequest, Bytes
  <2> QED
    BY <1>3, <2>1, <2>2 DEF FrontInv
<1>10. CASE Crash(t, "overflow") /\ UNCHANGED tmpVars
  BY <1>1, <1>10, FrontSame DEF Crash, threadVars
<1>11. CASE TmpPerror(t)
  BY <1>6, <1>9, <1>11 DEF TmpPerror
<1>12. CASE pc[t] = "subtract" /\ TmpSubtract(t) /\ Return(t, "null")
  <2>1. FrontOnce'
    BY <1>12, SubtractFront
  <2>2. pc'[t] \notin {"address", "subtract"}
    BY <1>12, IInvParts DEF Return, Goto, TypeOK, Nesting
  <2> QED
    BY <1>3, <2>1, <2>2 DEF FrontInv
<1> QED
  BY <1>5, <1>7, <1>8, <1>10, <1>11, <1>12 DEF TmpMalloc, At

\* FrontInv is inductive.
LEMMA InitFront == Init => FrontInv
<1> SUFFICES ASSUME Init PROVE FrontInv
  OBVIOUS
<1>1. /\ tmpRemaining = TmpSize /\ stray = FALSE
      /\ cover = [b \in Bytes |-> 0] /\ pc = [t \in Threads |-> "app"]
  BY Zenon DEF Init, TmpInit
<1> QED
  BY <1>1, TmpAssumption DEF FrontInv, FrontOnce, Bytes

LEMMA NextFront ==
  ASSUME MainFirst, IInv, LifeInv, BlockInv, FrontInv, [Next]_vars
  PROVE  FrontInv'
<1>1. CASE UNCHANGED vars
  BY <1>1, FrontSame DEF vars, tables, threadVars
<1>2. CASE Terminated
  BY <1>1, <1>2 DEF Terminated
<1>3. ASSUME NEW t \in Threads, Enter(t) \/ Nest(t) \/ Exit(t) \/ Step(t)
      PROVE  FrontInv'
  <2>1. destructs' = 0 => destructs = 0
    <3>1. destructs \in Nat
      BY IInvParts DEF TypeOK
    <3>2. CASE LibDestruct(t)
      BY <3>1, <3>2 DEF LibDestruct
    <3>3. CASE ~ LibDestruct(t)
      BY <1>3, <3>3 DEF Step, Enter, Nest, Exit, Dispatch, TmpMalloc, Handler, LibInit,
         InstallMode, ConstructMode, InstallInit, LDInit, Preload, Dlsym, Finish, RaceExit, Detach,
         tables
    <3> QED
      BY <3>2, <3>3
  <2>2. CASE TmpMalloc(t)
    BY <2>2, MallocFront
  <2>3. CASE \E n : TmpRequest(t, n) /\ Goto(t, "test")
    <3>1. pc'[t] = "test" /\ \A u \in Threads \ {t} : pc'[u] = pc[u] /\ want'[u] = want[u]
      BY <2>3, IInvParts DEF TmpRequest, Goto, TypeOK, TmpTypeOK
    <3> QED
      BY <2>1, <2>3, <3>1 DEF FrontInv, FrontOnce, TmpRequest, Bytes
  <2>4. CASE UNCHANGED tmpVars /\ ~ TmpMalloc(t)
    <3>1. ASSUME NEW u \in Threads, pc'[u] \in {"address", "subtract"}
          PROVE  pc'[u] = pc[u]
      <4>1. CASE \E l : Goto(t, l) /\ l \notin {"address", "subtract"}
        BY <3>1, <4>1, IInvParts DEF Goto, TypeOK
      <4>2. CASE UNCHANGED pc
        BY <4>2
      <4>3. outer[t].at \notin {"address", "subtract"}
        BY IInvParts DEF TypeOK, Nesting
      <4>4. CASE \E x, l : /\ l \notin {"address", "subtract"} /\ Assign(t, x, l)
                          /\ pc[t] \in Assigning
        <5>1. PICK x, l : l \notin {"address", "subtract"} /\ Assign(t, x, l)
          BY <4>4
        <5>2. Goto(t, IF word[t] = 4 THEN l ELSE pc[t]) /\ pc[t] \notin {"address", "subtract"}
          BY <4>4, <5>1 DEF Assign, Assigning
        <5> QED
          BY <4>1, <5>1, <5>2
      <4>5. CASE LibInit(t) \/ InstallInit(t) \/ LDInit(t) \/ Finish(t) \/ Detach(t)
        BY <4>1, <4>4, <4>5 DEF LibInit, InstallInit, LDInit, Finish, Detach, At, Assigning,
           Dies, Exits
      <4>6. CASE Dispatch(t)
        BY <2>4, <4>1, <4>2, <4>3, <4>6 DEF Dispatch, RaceDetected, Exits, Crash, threadVars,
           Return, TmpNothing, TmpPerror
      <4> QED
        BY <1>3, <2>4, <4>1, <4>2, <4>3, <4>5, <4>6 DEF Step, Enter, Nest, Exit, Exits, Handler,
           InstallMode, ConstructMode, Preload, Dlsym, RaceExit, LibDestruct, Dies,
           Crash, threadVars, Return
    <3> QED
      BY <2>1, <2>4, <3>1, FrontSame
  <2>5. CASE Dispatch(t)
    <3>1. ~ TmpMalloc(t)
      BY <2>5 DEF Dispatch, TmpMalloc, At
    <3> QED
      BY <2>3, <2>4, <2>5, <3>1 DEF Dispatch, TmpNothing, TmpPerror
  <2> QED
    BY <1>3, <2>2, <2>4, <2>5 DEF Step, Enter, Nest, Exit, Handler, LibInit, InstallMode,
       ConstructMode, InstallInit, LDInit, Preload, Dlsym, Finish, RaceExit, LibDestruct, Detach
<1> QED
  BY <1>1, <1>2, <1>3 DEF Next

\* Until the destructor has run, TmpAlloc has handed out the front of its
\* buffer, each byte once, however its size and the sizes asked for compare
\* with what a size_t can hold.
THEOREM TmpFrontOnceCorrect == MainFirst => (Spec => []TmpFrontOnce)
<1> SUFFICES ASSUME MainFirst PROVE Spec => []TmpFrontOnce
  OBVIOUS
<1>1. Init => BlockInv /\ FrontInv
  BY InitBlock, InitFront
<1>2. (IInv /\ LifeInv) /\ (BlockInv /\ FrontInv) /\ [Next]_vars => (BlockInv /\ FrontInv)'
  BY NextBlock, NextFront
<1>3. FrontInv => TmpFrontOnce
  BY DEF FrontInv, TmpFrontOnce
<1> QED
  BY <1>1, <1>2, <1>3, LifeInvariance, PTL DEF Spec
=============================================================================
