------------------------------- MODULE Chrono -------------------------------
(***************************************************************************)
(* Time stamps of log records and the order the analysis sorts them by.    *)
(*                                                                         *)
(* A stamp is the pair gettimeofday() returns.  A record lives in a slot   *)
(* of the log file, and the slot number is the order of addresses that     *)
(* olderThan() falls back on when two stamps are equal.                    *)
(***************************************************************************)
EXTENDS Naturals

CONSTANT UsecPerSec        \* microseconds in a second (10^6 in the program)

ASSUME UsecPerSecAssumption == UsecPerSec \in Nat \ {0}

Stamps == [sec : Nat, usec : Nat]

\* The zero bytes of a slot nobody has stamped.
NoStamp == [sec |-> 0, usec |-> 0]

\* The clock one microsecond later.
NextStamp(c) ==
  IF c.usec + 1 < UsecPerSec
  THEN [c EXCEPT !.usec = c.usec + 1]
  ELSE [sec |-> c.sec + 1, usec |-> 0]

\* A mutated comparison: the seconds are forgotten.
OlderThan_UsecOnly(a, s, b, r) ==
  \/ a.usec < b.usec
  \/ a.usec = b.usec /\ s < r

\* Stamp a in slot s sorts before stamp b in slot r.
OlderThan(a, s, b, r) ==
  \/ a.sec < b.sec
  \/ a.sec = b.sec /\ a.usec < b.usec
  \/ a.sec = b.sec /\ a.usec = b.usec /\ s < r

\* a is not later than b.
NotLater(a, b) == a.sec < b.sec \/ (a.sec = b.sec /\ a.usec <= b.usec)
=============================================================================
