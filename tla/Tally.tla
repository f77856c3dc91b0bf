------------------------------- MODULE Tally -------------------------------
(***************************************************************************)
(* What the Count profile module promises, without slots, sizes or locks:  *)
(* one tally per thread and kind of call, to which each call adds exactly  *)
(* one, while it is in progress, and which nothing else changes, at        *)
(* whatever moment the process dies.                                       *)
(***************************************************************************)
EXTENDS Naturals

CONSTANTS Threads, Kinds, NoKind

VARIABLES
  alive,                   \* the process still runs
  doing,                   \* the call each thread has still to count
  tally                    \* calls counted, per thread and kind

vars == <<alive, doing, tally>>

Init ==
  /\ alive = TRUE
  /\ doing = [t \in Threads |-> NoKind]
  /\ tally = [t \in Threads |-> [k \in Kinds |-> 0]]

\* The program calls malloc, free, calloc or realloc.
Begin(t, k) ==
  /\ alive /\ doing[t] = NoKind
  /\ doing' = [doing EXCEPT ![t] = k]
  /\ UNCHANGED <<alive, tally>>

\* The call in progress is counted, once, and is free to return.
Tell(t, k) ==
  /\ alive /\ doing[t] = k
  /\ tally' = [tally EXCEPT ![t] = [tally[t] EXCEPT ![k] = tally[t][k] + 1]]
  /\ doing' = [doing EXCEPT ![t] = NoKind]
  /\ UNCHANGED alive

\* The process exits, aborts or is killed; the tallies stay as they are.
Die ==
  /\ alive
  /\ alive' = FALSE
  /\ UNCHANGED <<doing, tally>>

Next == Die \/ \E t \in Threads, k \in Kinds : Begin(t, k) \/ Tell(t, k)

Spec == Init /\ [][Next]_vars
=============================================================================
