------------------------------ MODULE CallLog ------------------------------
(***************************************************************************)
(* What the LogMmap profile module promises, without slots, blocks, sizes  *)
(* or locks: a log of calls that only ever gains entries, gains the entry  *)
(* of a call while that call is in progress, and holds the entry of every  *)
(* call that has returned, whenever the process exits or is killed.  The   *)
(* promise ends when the log can no longer be extended: from then on       *)
(* entries may be lost, and it only has no entry of a call never begun.    *)
(***************************************************************************)
EXTENDS Naturals

CONSTANTS Threads, MaxCalls

VARIABLES
  alive,                   \* the process still runs
  intact,                  \* the log could be extended so far
  busy,                    \* the threads inside an intercepted call
  begun,                   \* calls each thread has begun
  entries                  \* the calls the log has an entry for

vars == <<alive, intact, busy, begun, entries>>

Init ==
  /\ alive = TRUE
  /\ intact = TRUE
  /\ busy = {}
  /\ begun = [t \in Threads |-> 0]
  /\ entries = {}

Current(t) == <<t, begun[t]>>

\* The program calls malloc, free, calloc or realloc.
Begin(t) ==
  /\ alive /\ intact /\ t \notin busy /\ begun[t] < MaxCalls
  /\ busy' = busy \union {t}
  /\ begun' = [begun EXCEPT ![t] = @ + 1]
  /\ UNCHANGED <<alive, intact, entries>>

\* The call in progress gets its entry.
Enter(t) ==
  /\ alive /\ intact /\ t \in busy
  /\ entries' = entries \union {Current(t)}
  /\ UNCHANGED <<alive, intact, busy, begun>>

\* The call returns to the program, and not before it has an entry.
Return(t) ==
  /\ alive /\ intact /\ t \in busy /\ Current(t) \in entries
  /\ busy' = busy \ {t}
  /\ UNCHANGED <<alive, intact, begun, entries>>

\* The process exits, aborts or is killed; the log stays as it is.
Die ==
  /\ alive
  /\ alive' = FALSE
  /\ UNCHANGED <<intact, busy, begun, entries>>

\* The log cannot be extended; a call in progress is about to end the process.
Break ==
  /\ alive /\ intact
  /\ intact' = FALSE
  /\ UNCHANGED <<alive, busy, begun, entries>>

\* Until it has, calls begin and return, and entries come and go.
Spoil ==
  /\ alive /\ ~ intact /\ UNCHANGED intact
  /\ alive' \in BOOLEAN
  /\ \A t \in Threads : begun'[t] >= begun[t]
  /\ \A e \in entries' : e[1] \in Threads /\ e[2] <= begun'[e[1]]

Next == Die \/ Break \/ Spoil \/ \E t \in Threads : Begin(t) \/ Enter(t) \/ Return(t)

Spec == Init /\ [][Next]_vars
=============================================================================
