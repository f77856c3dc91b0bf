------------------------------- MODULE LogFD -------------------------------
(***************************************************************************)
(* The LogFD profile module (mprofLogFD.c).  A handler prints its call     *)
(* into a buffer of the thread and hands the line to write(2).  snprintf   *)
(* may call malloc and free itself; these come back to the handlers on the *)
(* same thread, where the flag externalCall keeps them from printing.      *)
(*                                                                         *)
(* The four handlers differ in the text only, so they are one handler here *)
(* and a line is the identity of its call: the n-th call of thread t.      *)
(***************************************************************************)
EXTENDS Naturals, Sequences

CONSTANTS
  Threads,                 \* every thread of the profiled program
  FDs,                     \* descriptors the program may set
  StdErr,                  \* descriptor 2
  MaxCalls,                \* bound: calls of the program per thread
  MaxNested                \* bound: calls from inside snprintf per thread

ASSUME LogFDAssumption ==
  StdErr \in FDs /\ MaxCalls \in Nat /\ MaxNested \in Nat

VARIABLES
  alive,                   \* the process still runs
  logFD,                   \* the static variable
  pc,                      \* where each thread is in its outermost handler
  externalCall, textBuf,   \* the two __thread variables
  depth,                   \* handlers that print, on the thread's stack
  calls, nested,           \* calls from the program, and from snprintf
  handed,                  \* lines handed to write(2), in this order
  text                     \* what each descriptor has accepted

vars ==
  <<alive, logFD, pc, externalCall, textBuf, depth, calls, nested, handed, text>>

Lines  == Threads \X Nat
Labels == {"app", "print", "write", "return"}

Goto(t, l) == pc' = [pc EXCEPT ![t] = l]
At(t, l)   == alive /\ pc[t] = l

Init ==
  /\ alive = TRUE
  /\ logFD = StdErr
  /\ pc           = [t \in Threads |-> "app"]
  /\ externalCall = [t \in Threads |-> TRUE]
  /\ textBuf      = [t \in Threads |-> <<t, 0>>]
  /\ depth        = [t \in Threads |-> 0]
  /\ calls        = [t \in Threads |-> 0]
  /\ nested       = [t \in Threads |-> 0]
  /\ handed = << >>
  /\ text   = [f \in FDs |-> << >>]

\* mprofLogFDSet, from the program.
SetFD(f) ==
  /\ alive
  /\ logFD' = f
  /\ UNCHANGED <<alive, pc, externalCall, textBuf, depth, calls, nested, handed, text>>

\* A mutated test: a nested call prints too.
Prints_Always(t) == TRUE

\* The test of every handler.
Prints(t) == externalCall[t]

\* A handler's test after the backing allocator's call, from the program.
Call(t) ==
  /\ At(t, "app") /\ calls[t] < MaxCalls
  /\ calls' = [calls EXCEPT ![t] = @ + 1]
  /\ IF Prints(t)
     THEN /\ externalCall' = [externalCall EXCEPT ![t] = FALSE]
          /\ depth' = [depth EXCEPT ![t] = @ + 1]
          /\ Goto(t, "print")
     ELSE UNCHANGED <<externalCall, depth, pc>>
  /\ UNCHANGED <<alive, logFD, textBuf, nested, handed, text>>

\* The same handler once more, called by the snprintf of the first.
NestedCall(t) ==
  /\ At(t, "print") /\ nested[t] < MaxNested
  /\ nested' = [nested EXCEPT ![t] = @ + 1]
  /\ depth' = IF Prints(t) THEN [depth EXCEPT ![t] = @ + 1] ELSE depth
  /\ UNCHANGED <<alive, logFD, pc, externalCall, textBuf, calls, handed, text>>

\* A mutated buffer without __thread.
Formatted_Shared(t) == [u \in Threads |-> <<t, calls[t]>>]

\* textBuf after the thread's snprintf.
Formatted(t) == [textBuf EXCEPT ![t] = <<t, calls[t]>>]

\* snprintf has filled the buffer.
Format(t) ==
  /\ At(t, "print")
  /\ textBuf' = Formatted(t)
  /\ Goto(t, "write")
  /\ UNCHANGED <<alive, logFD, externalCall, depth, calls, nested, handed, text>>

\* A mutated write: a refused line is printed again until it is accepted.
Write_Retry(t) ==
  /\ At(t, "write")
  /\ \/ /\ handed' = Append(handed, textBuf[t])
        /\ text' = [text EXCEPT ![logFD] = Append(text[logFD], textBuf[t])]
        /\ Goto(t, "return")
     \/ Goto(t, "print") /\ UNCHANGED <<handed, text>>
  /\ UNCHANGED <<alive, logFD, externalCall, textBuf, depth, calls, nested>>

\* write( logFD, textBuf, msgSize ).  Its result is not looked at: the
\* descriptor may have refused the line.
Write(t) ==
  /\ At(t, "write")
  /\ handed' = Append(handed, textBuf[t])
  /\ text' \in {text, [text EXCEPT ![logFD] = Append(text[logFD], textBuf[t])]}
  /\ Goto(t, "return")
  /\ UNCHANGED <<alive, logFD, externalCall, textBuf, depth, calls, nested>>

\* A mutated end: the flag is not set again.
Ready_Forgotten(t) == externalCall

\* externalCall = true
Ready(t) == [externalCall EXCEPT ![t] = TRUE]

\* The end of the handler, and its return to the program.
Return(t) ==
  /\ At(t, "return")
  /\ externalCall' = Ready(t)
  /\ depth' = [depth EXCEPT ![t] = 0]
  /\ Goto(t, "app")
  /\ UNCHANGED <<alive, logFD, textBuf, calls, nested, handed, text>>

\* The process exits or is killed.  The module has no destructor.
Exit ==
  /\ alive
  /\ alive' = FALSE
  /\ UNCHANGED <<logFD, pc, externalCall, textBuf, depth, calls, nested, handed, text>>

Terminated == ~ alive /\ UNCHANGED vars

Step(t) == Format(t) \/ Write(t) \/ Return(t)

Next ==
  \/ Exit \/ Terminated
  \/ \E f \in FDs : SetFD(f)
  \/ \E t \in Threads : Call(t) \/ NestedCall(t) \/ Step(t)

Spec == Init /\ [][Next]_vars

\* The scheduler runs every thread that can run, and snprintf returns.
FairSpec == Spec /\ \A t \in Threads : WF_vars(Step(t))

-----------------------------------------------------------------------------
(* Properties.                                                              *)

TypeOK ==
  /\ alive \in BOOLEAN
  /\ logFD \in FDs
  /\ pc \in [Threads -> Labels]
  /\ externalCall \in [Threads -> BOOLEAN]
  /\ textBuf \in [Threads -> Lines] /\ \A t \in Threads : textBuf[t] \in {t} \X Nat
  /\ depth \in [Threads -> Nat]
  /\ calls \in [Threads -> Nat]
  /\ nested \in [Threads -> Nat]
  /\ handed \in Seq(Lines)
  /\ text \in [FDs -> Seq(Lines)]

Busy == {t \in Threads : pc[t] # "app"}

\* Calls whose line has been handed over.
Told(t) == IF pc[t] \in {"print", "write"} THEN calls[t] - 1 ELSE calls[t]

\* What a call from inside snprintf does never reaches snprintf again: one
\* handler per thread prints, so the recursion ends.
NoRecursion == \A t \in Threads : depth[t] <= 1

\* The lines of one thread are in s in the order of its calls, none twice.
Ascending(s) ==
  \A i, j \in DOMAIN s : i < j /\ s[i][1] = s[j][1] => s[i][2] < s[j][2]

\* Only calls that got that far have a line in s, each thread's with its own.
OwnLines(s) == \A i \in DOMAIN s : s[i][2] \in 1 .. Told(s[i][1])

\* Every call of the program that returned has handed over its line, exactly
\* once and after the lines of the thread's earlier calls; nested calls leave
\* no line, and no thread's line overtakes, repeats or replaces another's,
\* neither in all that is written nor on one descriptor.
OneLinePerCall ==
  /\ \A t \in Threads : \A n \in 1 .. Told(t) :
       \E i \in DOMAIN handed : handed[i] = <<t, n>>
  /\ OwnLines(handed) /\ Ascending(handed)
  /\ \A f \in FDs : OwnLines(text[f]) /\ Ascending(text[f])

\* LogFD implements CallLog: its entries are the lines handed over.
Abstract ==
  INSTANCE CallLog WITH
    alive   <- alive,
    intact  <- TRUE,
    busy    <- Busy,
    begun   <- calls,
    entries <- {handed[i] : i \in DOMAIN handed}

ImplementsCallLog == Abstract!Spec

\* Every call returns, unless the process ends first.
CallsReturn == \A t \in Threads : t \in Busy ~> (t \notin Busy \/ ~ alive)
=============================================================================
