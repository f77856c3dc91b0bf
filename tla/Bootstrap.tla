----------------------------- MODULE Bootstrap -----------------------------
(***************************************************************************)
(* How libmprof starts and stops (libmprof.c, mprofLDInit.c).  Every call   *)
(* of malloc, free, calloc or realloc goes through the table mprofVtable,   *)
(* which leads first to libmprofInit, during it to TmpAlloc, then to the    *)
(* MODE's handlers, and from the destructor on to TmpAlloc again.  The      *)
(* functions that set the table up call malloc themselves.                  *)
(*                                                                          *)
(* What a handler does for its profile is in Count and LogMmap.             *)
(***************************************************************************)
EXTENDS TmpAlloc

CONSTANTS
  Main,
  MainFirst,               \* no second thread before a call of Main returned
  HasDestruct,             \* the MODE has a destructor (LogFD has none)
  Sizes,                   \* sizes the program and the libraries ask for
  MaxNested                \* bound: calls from within the init, per thread

ASSUME BootstrapAssumption ==
  /\ Main \in Threads /\ MainFirst \in BOOLEAN /\ HasDestruct \in BOOLEAN
  /\ Sizes \subseteq 0 .. SizeMod - 1 /\ MaxNested \in Nat

VARIABLES
  phase,                   \* of the process, see Phases
  vtable,                  \* where each entry of mprofVtable leads
  postInit,                \* where postInitVtable leads
  resolved,                \* the functions set in defaultVtable
  constructs, destructs,   \* how often the MODE was constructed, destructed
  served,                  \* a call has returned to the program
  held, lib,               \* whose blocks the program, the libraries got
  pc,                      \* where each thread is
  call,                    \* the call it is in
  outer,                   \* where that call is nested in, and in which call
  index,                   \* mprofLDInit's loop
  word,                    \* words written by its assignment to mprofVtable
  nested                   \* nested calls made

tables     == <<vtable, postInit, resolved, constructs, destructs>>
tmpVars    == <<tmpRemaining, want, addr, cover, stray>>
threadVars == <<pc, call, outer, index, word, nested>>
vars       == <<phase, tables, served, held, lib, threadVars, tmpVars>>

ldNames == <<"malloc", "free", "calloc", "realloc">>
Names   == {"malloc", "free", "calloc", "realloc"}
Blocks  == {"tmp", "real"}      \* from TmpAlloc, from the backing allocator

Entries == Names \union {"destruct"}
Targets == {"libinit", "tmp", "ldinit", "mode", "null"}

\* The words of an AllocatorVtable, in their order (its construct and its
\* name are not read through mprofVtable by any call).
entries == <<"malloc", "free", "calloc", "realloc", "destruct">>

Calls      == [op : Names \union {"none", "perror"}, arg : Blocks \union {"null"}]
NoCall     == [op |-> "none", arg |-> "null"]
PerrorCall == [op |-> "perror", arg |-> "null"]
NotNested  == [at |-> "app", call |-> NoCall]

\* Where functions outside libmprof run that call malloc and free: MODE's
\* construct, dlopen, dlsym, perror, fprintf.
Nesting == {"construct", "preload", "dlsym", "race", "bye"}
Booting == {"enter", "mode", "init", "ldinit", "finish"}
             \union (Nesting \ {"race", "bye"})

Leaving == {"destruct", "callDestruct", "detach", "bye"}
Serving == {"dispatch", "handler", "test", "address", "subtract"}
Labels  == {"app", "halted", "race"} \union Serving \union Booting \union Leaving
Live    == {"running", "exiting"}
Crashed == {"nullcall", "foreign", "recursed"}
Phases  == Live \union {"exited", "aborted", "overflow"} \union Crashed

Goto(t, l) == pc' = [pc EXCEPT ![t] = l]
At(t, l)   == phase \in Live /\ pc[t] = l

Init ==
  /\ phase = "running"
  /\ vtable = [e \in Entries |-> "libinit"] /\ postInit = "null" /\ resolved = {}
  /\ constructs = 0 /\ destructs = 0
  /\ served = FALSE /\ held = {} /\ lib = {}
  /\ pc     = [t \in Threads |-> "app"]
  /\ call   = [t \in Threads |-> NoCall]
  /\ outer  = [t \in Threads |-> NotNested]
  /\ index  = [t \in Threads |-> 0]
  /\ word   = [t \in Threads |-> 0]
  /\ nested = [t \in Threads |-> 0]
  /\ TmpInit

-----------------------------------------------------------------------------
(* A call and its return.                                                   *)

\* The calls that can be made by whoever got blocks of bs.
CallsWith(bs) ==
  [op : {"malloc", "calloc"}, arg : {"null"}] \union [op : {"free", "realloc"}, arg : bs]

\* The program calls one of the four functions.
Enter(t) ==
  /\ At(t, "app")
  /\ MainFirst => t = Main \/ served
  /\ \E c \in CallsWith(held) : call' = [call EXCEPT ![t] = c]
  /\ Goto(t, "dispatch")
  /\ UNCHANGED <<phase, tables, served, held, lib, outer, index, word, nested, tmpVars>>

\* A function the bootstrap or the destructor runs calls one of them.
Nest(t) ==
  /\ phase \in Live /\ pc[t] \in Nesting /\ nested[t] < MaxNested
  /\ \E c \in CallsWith(lib) : call' = [call EXCEPT ![t] = c]
  /\ outer' = [outer EXCEPT ![t] = [at |-> pc[t], call |-> call[t]]]
  /\ nested' = [nested EXCEPT ![t] = @ + 1]
  /\ Goto(t, "dispatch")
  /\ UNCHANGED <<phase, tables, served, held, lib, index, word, tmpVars>>

\* The call of thread t returns p, a block or null, to whoever made it.
Return(t, p) ==
  /\ call' = [call EXCEPT ![t] = outer[t].call]
  /\ outer' = [outer EXCEPT ![t] = NotNested]
  /\ Goto(t, outer[t].at)
  /\ IF outer[t].at = "app"
     THEN /\ served' = TRUE /\ held' = held \union ({p} \ {"null"})
          /\ UNCHANGED lib
     ELSE /\ lib' = lib \union ({p} \ {"null"})
          /\ UNCHANGED <<served, held>>
  /\ UNCHANGED <<index, word, nested>>

\* exit() in thread t: it runs the destructor, unless that has begun.  Then a
\* second thread waits, and the destructor's own thread ends the process.
Exits(t) ==
  /\ phase' = IF outer[t].at = "bye" THEN "exited" ELSE "exiting"
  /\ Goto(t, IF phase = "running" THEN "destruct" ELSE "halted")
  /\ call' = [call EXCEPT ![t] = NoCall]
  /\ outer' = [outer EXCEPT ![t] = NotNested]
  /\ UNCHANGED <<index, word, nested>>

\* The handlers of mprofLDInitVtable: perror tells of the race, and may call
\* malloc to do so, then exit( -1 ).  In the message of the destructor that is
\* one more function that calls malloc, and left out.
RaceDetected(t) ==
  IF outer[t].at = "bye" THEN Exits(t)
  ELSE /\ Goto(t, "race")
       /\ call' = [call EXCEPT ![t] = NoCall]
       /\ outer' = [outer EXCEPT ![t] = NotNested]
       /\ UNCHANGED <<phase, index, word, nested>>

RaceExit(t) ==
  At(t, "race") /\ Exits(t) /\ UNCHANGED <<tables, served, held, lib, tmpVars>>

\* exit( -1 ) in the init.
Dies(t) == Exits(t) /\ UNCHANGED <<vtable, postInit, resolved, constructs>>

Crash(t, p) == phase' = p /\ UNCHANGED threadVars

\* perror in TmpAlloc, before a call that gives nothing returns: it prints
\* without a buffer, or asks malloc for one, which is TmpAlloc's again.
TmpPerror(t) ==
  \/ Return(t, "null") /\ UNCHANGED tmpVars
  \/ /\ \E n \in Sizes : TmpRequest(t, n)
     /\ call' = [call EXCEPT ![t] = PerrorCall]
     /\ Goto(t, "test")
     /\ UNCHANGED <<served, held, lib, outer, index, word, nested>>

\* freeTmpAlloc does nothing, and reallocTmpAlloc gives nothing.
TmpNothing(t) ==
  IF call[t].op = "free" THEN Return(t, "null") /\ UNCHANGED tmpVars ELSE TmpPerror(t)

\* The entry of mprofVtable that thread t's call goes through leads to x.
Leads(t, x) == call[t].op \in Names /\ vtable[call[t].op] = x

\* mprofVtable.malloc( in_size ) and the like, and what needs no second step.
Dispatch(t) ==
  /\ At(t, "dispatch")
  /\ \/ /\ Leads(t, "libinit")
        /\ IF outer[t].at = "app"
           THEN /\ Goto(t, "enter")
                /\ UNCHANGED <<phase, call, outer, index, word, nested>>
           ELSE Crash(t, "recursed")
        /\ UNCHANGED <<served, held, lib, tmpVars>>
     \/ /\ Leads(t, "tmp") /\ call[t].op \in {"malloc", "calloc"}
        /\ \E n \in Requests(call[t].op, Sizes) : TmpRequest(t, n)
        /\ Goto(t, "test")
        /\ UNCHANGED <<phase, served, held, lib, call, outer, index, word, nested>>
     \/ /\ Leads(t, "tmp") /\ call[t].op \in {"free", "realloc"}
        /\ TmpNothing(t)
        /\ UNCHANGED phase
     \/ /\ Leads(t, "ldinit") /\ RaceDetected(t)
        /\ UNCHANGED <<served, held, lib, tmpVars>>
     \/ /\ Leads(t, "mode")
        /\ Goto(t, "handler")
        /\ UNCHANGED <<phase, served, held, lib, call, outer, index, word, nested,
                       tmpVars>>
  /\ UNCHANGED tables

InPerror(t) == call[t].op = "perror"

\* mallocTmpAlloc.  If not even perror's buffer fits, its own perror asks for
\* one, and so on until the stack ends.
TmpMalloc(t) ==
  /\ \/ /\ At(t, "test") /\ Fits(t) /\ Goto(t, "address")
        /\ UNCHANGED <<phase, served, held, lib, call, outer, index, word, nested,
                       tmpVars>>
     \/ /\ At(t, "test") /\ ~ Fits(t) /\ ~ InPerror(t) /\ TmpPerror(t)
        /\ UNCHANGED phase
     \/ /\ At(t, "test") /\ ~ Fits(t) /\ InPerror(t) /\ Crash(t, "overflow")
        /\ UNCHANGED <<served, held, lib, tmpVars>>
     \/ /\ At(t, "address") /\ TmpAddress(t) /\ Goto(t, "subtract")
        /\ UNCHANGED <<phase, served, held, lib, call, outer, index, word, nested>>
     \/ /\ At(t, "subtract") /\ TmpSubtract(t)
        /\ Return(t, IF InPerror(t) THEN "null" ELSE "tmp")
        /\ UNCHANGED phase
  /\ UNCHANGED tables

\* The MODE's handler, as far as defaultVtable goes: a function not resolved
\* is a call of NULL, and the backing allocator aborts on a foreign block.
Handler(t) ==
  /\ At(t, "handler")
  /\ IF call[t].op \in resolved /\ call[t].arg # "tmp"
     THEN /\ \E p \in IF call[t].op = "free" THEN {"null"} ELSE {"real", "null"} :
               Return(t, p)
          /\ UNCHANGED phase
     ELSE /\ Crash(t, IF call[t].op \in resolved THEN "foreign" ELSE "nullcall")
          /\ UNCHANGED <<served, held, lib>>
  /\ UNCHANGED <<tables, tmpVars>>

-----------------------------------------------------------------------------
(* libmprofInit, on the thread whose call found the first table.            *)

\* The next word of the assignment of a table whose entries lead to x to
\* mprofVtable, which other threads may use meanwhile, and after the last
\* word on to l.
Assign(t, x, l) ==
  /\ vtable' = [vtable EXCEPT ![entries[word[t] + 1]] = x]
  /\ word' = [word EXCEPT ![t] = (@ + 1) % 5]
  /\ Goto(t, IF word[t] = 4 THEN l ELSE pc[t])

\* A mutated init that leaves the first table in place.
LibInit_NoTmp(t) ==
  /\ At(t, "enter")
  /\ Goto(t, "mode")
  /\ UNCHANGED <<phase, tables, served, held, lib, call, outer, index, word, nested, tmpVars>>

LibInit(t) ==
  /\ At(t, "enter")
  /\ Assign(t, "tmp", "mode")
  /\ UNCHANGED <<phase, postInit, resolved, constructs, destructs,
                 served, held, lib, call, outer, index, nested, tmpVars>>

\* installVtableOrDie( "MODE" ): no such value or no such module is exit( -1 ).
\* Whoever reads postInitVtable has first written all its words itself, as any
\* other thread that writes them does, so its assignment is one step.
InstallMode(t) ==
  /\ At(t, "mode")
  /\ \/ Dies(t)
     \/ /\ postInit' = "mode" /\ Goto(t, "construct")
        /\ UNCHANGED <<phase, vtable, resolved, constructs,
                       call, outer, index, word, nested>>
  /\ UNCHANGED <<destructs, served, held, lib, tmpVars>>

\* The MODE's construct, where a file that cannot be opened is an abort.
ConstructMode(t) ==
  /\ At(t, "construct")
  /\ \/ /\ constructs' = constructs + 1 /\ Goto(t, "init")
        /\ UNCHANGED <<phase, call, outer, index, word, nested>>
     \/ Crash(t, "aborted") /\ UNCHANGED constructs
  /\ UNCHANGED <<vtable, postInit, resolved, destructs, served, held, lib, tmpVars>>

\* installVtableOrDie( "INIT" ) copies the table that detects a race.
InstallInit(t) ==
  /\ At(t, "init")
  /\ \/ word[t] = 0 /\ Dies(t)
     \/ /\ Assign(t, "ldinit", "ldinit")
        /\ UNCHANGED <<phase, postInit, resolved, constructs,
                       call, outer, index, nested>>
  /\ UNCHANGED <<destructs, served, held, lib, tmpVars>>

\* mprofLDInit, up to the library it may have to load.
LDInit(t) ==
  /\ At(t, "ldinit")
  /\ Assign(t, "tmp", "preload")
  /\ UNCHANGED <<phase, postInit, resolved, constructs, destructs,
                 served, held, lib, call, outer, index, nested, tmpVars>>

\* LD_PRELOAD in MPROF_CONF: dlopen, which may fail.
Preload(t) ==
  /\ At(t, "preload")
  /\ \/ Dies(t)
     \/ /\ Goto(t, "dlsym") /\ index' = [index EXCEPT ![t] = 0]
        /\ UNCHANGED <<phase, vtable, postInit, resolved, constructs,
                       call, outer, word, nested>>
  /\ UNCHANGED <<destructs, served, held, lib, tmpVars>>

\* A mutated loop that stops before the last name.
LastName_Early == 3

LastName == 4

\* A mutated loop that begins again after the last name.
Dlsym_Again(t) ==
  /\ At(t, "dlsym")
  /\ \/ Dies(t)
     \/ /\ resolved' = resolved \union {ldNames[index[t] + 1]}
        /\ index' = [index EXCEPT ![t] = (@ + 1) % LastName]
        /\ UNCHANGED <<phase, vtable, postInit, constructs, pc, call, outer, word, nested>>
  /\ UNCHANGED <<destructs, served, held, lib, tmpVars>>

\* One turn of the loop over ldNames.
Dlsym(t) ==
  /\ At(t, "dlsym")
  /\ \/ Dies(t)
     \/ /\ resolved' = resolved \union {ldNames[index[t] + 1]}
        /\ index' = [index EXCEPT ![t] = @ + 1]
        /\ Goto(t, IF index[t] + 1 = LastName THEN "finish" ELSE "dlsym")
        /\ UNCHANGED <<phase, vtable, postInit, constructs, call, outer, word, nested>>
  /\ UNCHANGED <<destructs, served, held, lib, tmpVars>>

\* mprofVtable = postInitVtable, and the call that started it all again.
Finish(t) ==
  /\ At(t, "finish")
  /\ Assign(t, postInit, "dispatch")
  /\ UNCHANGED <<phase, postInit, resolved, constructs, destructs,
                 served, held, lib, call, outer, index, nested, tmpVars>>

-----------------------------------------------------------------------------
(* The end of the process.                                                  *)

\* main returns, or a thread calls exit.
Exit(t) ==
  /\ phase = "running" /\ pc[t] = "app"
  /\ MainFirst => t = Main \/ served
  /\ Exits(t)
  /\ UNCHANGED <<tables, served, held, lib, tmpVars>>

Destructible == vtable["destruct"] = "mode" /\ HasDestruct

\* libmprofDestruct, which reads mprofVtable.destruct for the test and for the
\* call, and leaves the table alone if the MODE has no destructor.
LibDestruct(t) ==
  /\ \/ /\ At(t, "destruct") /\ Destructible /\ Goto(t, "callDestruct")
        /\ UNCHANGED <<phase, destructs, call, outer, index, word, nested>>
     \/ /\ At(t, "destruct") /\ ~ Destructible
        /\ Crash(t, "exited") /\ UNCHANGED destructs
     \/ /\ At(t, "callDestruct")
        /\ IF Destructible
           THEN /\ destructs' = destructs + 1 /\ Goto(t, "detach")
                /\ UNCHANGED <<phase, call, outer, index, word, nested>>
           ELSE Crash(t, "nullcall") /\ UNCHANGED destructs
     \/ /\ At(t, "bye") /\ Crash(t, "exited") /\ UNCHANGED destructs
  /\ UNCHANGED <<vtable, postInit, resolved, constructs, served, held, lib, tmpVars>>

\* A mutated destructor that puts the first table back.
Detach_Bootstrap(t) ==
  /\ At(t, "detach")
  /\ Assign(t, "libinit", "bye")
  /\ UNCHANGED <<phase, postInit, resolved, constructs, destructs,
                 served, held, lib, call, outer, index, nested, tmpVars>>

\* mprofVtable = tmpAllocVtable.
Detach(t) ==
  /\ At(t, "detach")
  /\ Assign(t, "tmp", "bye")
  /\ UNCHANGED <<phase, postInit, resolved, constructs, destructs,
                 served, held, lib, call, outer, index, nested, tmpVars>>

Terminated == phase \notin Live /\ UNCHANGED vars

\* What a thread does by itself once the program has called.
Step(t) ==
  \/ Dispatch(t) \/ TmpMalloc(t) \/ Handler(t)
  \/ LibInit(t) \/ InstallMode(t) \/ ConstructMode(t) \/ InstallInit(t)
  \/ LDInit(t) \/ Preload(t) \/ Dlsym(t) \/ Finish(t) \/ RaceExit(t)
  \/ LibDestruct(t) \/ Detach(t)

Next == Terminated \/ \E t \in Threads : Enter(t) \/ Nest(t) \/ Exit(t) \/ Step(t)

Spec == Init /\ [][Next]_vars

\* The scheduler runs every thread that can run.
FairSpec == Spec /\ \A t \in Threads : WF_vars(Step(t))

-----------------------------------------------------------------------------
(* Properties.                                                              *)

TypeOK ==
  /\ phase \in Phases
  /\ vtable \in [Entries -> Targets]
  /\ postInit \in {"null", "mode"}
  /\ resolved \subseteq Names
  /\ constructs \in Nat /\ destructs \in Nat
  /\ served \in BOOLEAN /\ held \subseteq Blocks /\ lib \subseteq Blocks
  /\ pc \in [Threads -> Labels]
  /\ call \in [Threads -> Calls]
  /\ outer \in [Threads -> [at : {"app"} \union Nesting, call : Calls]]
  /\ index \in [Threads -> 0 .. 4]
  /\ word \in [Threads -> 0 .. 4]
  /\ nested \in [Threads -> 0 .. MaxNested]
  /\ TmpTypeOK

\* No call goes to a function that is not there, none starts the init from
\* inside the init (perror without end in a full TmpAlloc is a matter of its
\* own, see TmpMalloc), and no block of TmpAlloc, which the init hands to the
\* libraries it runs, gets from the program to the backing allocator, until
\* the destructor begins to replace the table.
NoCrash ==
  phase \in Crashed => phase = "foreign" /\ destructs > 0 /\ vtable["malloc"] = "tmp"

\* What libmprofDestruct tells people (libmprof.c:88): the process exited
\* cleanly, and did not die of its exit.
ExitsCleanly == destructs > 0 => phase \notin Crashed

Ready == constructs > 0 /\ resolved = Names

\* Some entry of the table leads to the MODE.
ToMode == \E e \in Entries : vtable[e] = "mode"

\* Where the table leads to the MODE, and wherever a handler runs, the MODE
\* has been constructed and every function of the backing allocator found,
\* even if threads race to be the first.
HandlersReady ==
  /\ ToMode => Ready
  /\ \A t \in Threads : pc[t] = "handler" => Ready

\* The MODE, whose construct truncates the profile's file, is constructed by
\* the first call and never again, though construct, dlopen and dlsym call
\* malloc inside the init, and fprintf does after the destructor: no call is
\* answered before it is constructed, and its destruct runs once at most.
\* That is so of a first call made alone (MainFirst).  Threads that race to be
\* first each construct it, for all that mprofLDInit.c:82 says of detection.
ConstructedOnce ==
  /\ constructs <= 1 /\ destructs <= constructs
  /\ served => constructs = 1

\* Until the destructor has run, the blocks of TmpAlloc lie side by side in
\* its buffer, save for the one a thread is just taking.
TmpFrontOnce == destructs = 0 => FrontOnce

\* How far the life of the process has come, as an entry of the table shows.
Stage(e) ==
  IF vtable[e] = "libinit" THEN 0
  ELSE IF destructs > 0 THEN (IF vtable[e] = "mode" THEN 3 ELSE 4)
  ELSE IF vtable[e] = "mode" THEN 2 ELSE 1

\* The table never leads back: not to the init once that has started, not to
\* the bootstrap once a call could be profiled, and not to a MODE whose file
\* the destructor has closed.
StagesInOrder == [][\A e \in Entries : Stage(e)' >= Stage(e)]_vars

\* Every call returns, and every exit ends, unless the process does.
CallsReturn ==
  \A t \in Threads : pc[t] # "app" ~> (pc[t] = "app" \/ phase \notin Live)
=============================================================================
