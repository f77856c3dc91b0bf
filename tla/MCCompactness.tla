--------------------------- MODULE MCCompactness ---------------------------
(***************************************************************************)
(* Programs too long for TLC to try every interleaving of their calls: in  *)
(* a behaviour of StorySpec the threads begin and end their calls in the   *)
(* order Story gives.  Where the blocks are is left open.                  *)
(***************************************************************************)
EXTENDS Compactness

CONSTANT Story             \* <<t, m>>: thread t begins a call m, or ends one

\* Thread 2 is slow to stamp its free, and so thread 3 a realloc to the
\* address that was freed appears to come first; thread 1 moves two blocks,
\* one of them to where the other one was.
Moves ==
  << <<1, "malloc">>, <<2, "malloc">>, <<3, "malloc">>,
     <<2, "empty">>, <<1, "empty">>, <<3, "empty">>,
     <<2, "free">>, <<1, "realloc">>, <<3, "realloc">>, <<3, "empty">>, <<1, "empty">>,
     <<1, "realloc">>, <<1, "empty">>, <<1, "realloc">>, <<1, "empty">>, <<2, "empty">> >>

\* The steps of the threads so far.
Told == 2 * Cardinality(Slots) + Cardinality(InFlight)

Follows ==
  LET step == Story[Told + 1]
  IN  /\ Told < Len(Story)
      /\ inCall'[step[1]] # inCall[step[1]] /\ inCall'[step[1]].mode = step[2]

StoryNext == Next /\ (phase = "run" => IF phase' = "run" THEN Follows ELSE Told = Len(Story))

StorySpec == Init /\ [][StoryNext]_vars
=============================================================================
