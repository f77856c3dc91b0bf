---------------------------- MODULE MCBootstrap ----------------------------
(***************************************************************************)
(* Bootstrap for TLC.  Where any thread may be the first (MainFirst is     *)
(* FALSE) nothing tells Main from the others, so they are symmetric.       *)
(***************************************************************************)
EXTENDS BootstrapLife, TLC

Racers == Permutations(Threads)
=============================================================================
