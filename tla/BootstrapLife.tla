--------------------------- MODULE BootstrapLife ---------------------------
(***************************************************************************)
(* The inductive invariant of a process whose first call is made before it *)
(* has a second thread (MainFirst), for Bootstrap_proofs: first what a *)
(* thread at its place knows of the table and of the counts, then where a  *)
(* block of TmpAlloc can be, then the buffer itself.                       *)
(***************************************************************************)
EXTENDS BootstrapInv

\* The thread's place outside the call it is in, if that is a nested one.
Place(t) == IF pc[t] \in Serving THEN outer[t].at ELSE pc[t]

\* The whole table leads to x.
All(x) == \A e \in Entries : vtable[e] = x

\* Thread t is assigning a table that leads to y over one that led to x.
Half(t, x, y) == \A i \in 1 .. 5 : vtable[entries[i]] = IF i <= word[t] THEN y ELSE x

InTmp(t)  == pc[t] \in {"test", "address", "subtract"}
Leaver(t) == Place(t) \in Leaving

\* The destructor has begun to replace the table.
Detached == destructs > 0 /\ vtable["malloc"] = "tmp"

\* A thread in the destructor: before the call of destruct, and after it.
LeavesAt(t) ==
  /\ Leaver(t) => phase # "running"
  /\ Place(t) \in {"destruct", "callDestruct"} => destructs = 0
  /\ Place(t) = "callDestruct" => Destructible
  /\ Leaver(t) /\ Place(t) \notin {"destruct", "callDestruct"} => destructs = 1 /\ served
  /\ Place(t) = "detach" /\ word[t] > 0 => Detached
  /\ Place(t) = "bye" => Detached

\* There is one such thread, and none while the process runs.
LeaveInv ==
  /\ constructs <= 1 /\ destructs <= 1
  /\ phase = "running" => destructs = 0
  /\ \A t \in Threads : LeavesAt(t)
  /\ \A t, u \in Threads : Leaver(t) /\ Leaver(u) => t = u

\* Until a call has returned Main is alone, and its place tells what the table
\* is: no thread is at two places of the init.
EarlyTable ==
  /\ pc[Main] = "app" => All("libinit")
  /\ pc[Main] = "handler" => Place(Main) = "app" /\ All("mode")
  /\ Place(Main) = "app" => (All("libinit") \/ All("mode")) /\ ~ InTmp(Main)
  /\ Place(Main) = "enter" => Half(Main, "libinit", "tmp")
  /\ Place(Main) \in {"mode", "construct", "preload", "dlsym"} => All("tmp")
  /\ Place(Main) = "init" => Half(Main, "tmp", "ldinit")
  /\ Place(Main) = "ldinit" => Half(Main, "ldinit", "tmp")
  /\ Place(Main) = "finish" => Half(Main, "tmp", "mode")
  /\ Place(Main) = "destruct" => vtable["destruct"] # "mode"
  /\ Place(Main) \in {"construct"} \union Constructed => postInit = "mode"
  /\ All("libinit") \/ Place(Main) \in {"enter", "mode", "construct"} => constructs = 0

EarlyInv ==
  ~ served =>
    /\ \A t \in Threads \ {Main} : pc[t] = "app"
    /\ destructs = 0 /\ held = {}
    /\ Place(Main) \in {"app", "destruct"} \union Booting
    /\ phase = "exiting" => pc[Main] = "destruct"
    /\ EarlyTable

\* Afterwards nobody is in the init, and the table leads to the MODE until the
\* destructor replaces it, malloc first.
LateInv ==
  served =>
    /\ \A t \in Threads : Place(t) \in {"app", "halted"} \union Leaving
    /\ \A e \in Entries : vtable[e] = "mode" \/ (vtable[e] = "tmp" /\ Detached)
    /\ constructs = 1

LifeInv == LeaveInv /\ EarlyInv /\ LateInv

\* Where a block of TmpAlloc can be before the table is replaced: with the
\* libraries, not with the program, and not in a call that reaches a handler.
TmpAt(t) ==
  /\ pc[t] \in {"dispatch", "handler"} \union Booting => call[t].op \in Names
  /\ pc[t] \in Booting => call[t].arg # "tmp"
  /\ outer[t].at \in Booting => outer[t].call.op \in Names /\ outer[t].call.arg # "tmp"
  /\ pc[t] \in Serving /\ Place(t) \notin Booting /\ (call[t].arg = "tmp" \/ InTmp(t)) => Detached

BlockInv ==
  /\ "tmp" \in held => Detached
  /\ \A t \in Threads : TmpAt(t)
  /\ NoCrash

\* What the thread in mallocTmpAlloc has read of tmpRemaining still holds.
FrontInv ==
  destructs = 0 =>
    /\ FrontOnce
    /\ \A t \in Threads :
         /\ pc[t] \in {"address", "subtract"} => want[t] <= tmpRemaining
         /\ pc[t] = "subtract" => addr[t] = TmpSize - tmpRemaining
=============================================================================
