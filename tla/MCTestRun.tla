----------------------------- MODULE MCTestRun -----------------------------
(***************************************************************************)
(* Instances of TestRun for TLC: argument lists that reach every mode,     *)
(* paths that hold the pieces MPROF_CONF is searched for, and commands the *)
(* shell becomes, waits for, or leaves running.                            *)
(***************************************************************************)
EXTENDS TestRunAlone, TLC

CONSTANTS
  t1, t2,
  MaxNumber                \* bound: the largest number strtol is asked for

MCStrtol(value) ==
  LET is == {n \in 0 .. MaxNumber : value = <<ToString(n)>>}
  IN  IF is = {} THEN 0 ELSE CHOOSE n \in is : TRUE

Opt(o, a) == [opt |-> o, arg |-> a]

OneTest == <<Opt("t", "")>>

\* Lists for every mode; paths that look like options, or hold a quote.
ArgLists == {
  << >>, <<Opt("h", "")>>, <<Opt("m", "none")>>, <<Opt("m", "TEST")>>, OneTest,
  <<Opt("t", ""), Opt("c", <<"MODE", "=", "Log", Space, "x">>),
                  Opt("l", <<"CACHE_QTY", "=", "x">>)>>,
  <<Opt("t", ""), Opt("c", <<"f">>), Opt("l", <<"f">>)>>,
  <<Opt("t", ""), Opt("c", <<"f">>), Opt("l", <<"g", "'">>)>> }

\* One of a thread each.
Each(m, n) == (t1 :> m) @@ (t2 :> n)

\* A command that asks for blocks of some bytes each time.
Job(args, shape, found, calls) ==
  [args |-> args, shape |-> shape, found |-> found, calls |-> calls,
   asks |-> Each("bytes", "bytes")]

MCShellCalls == Each(2, 0)

\* Each pair of things the threads of a command ask for.
MCAsks ==
  {[Job(OneTest, "exec", TRUE, Each(1, 1)) EXCEPT !.asks = Each(a, b)] : a, b \in Asks}

MCForks == {Job(OneTest, shape, TRUE, Each(2, 0)) : shape \in {"fork", "background"}}

\* A shell that waits for the command.
MCShell == {Job(OneTest, "fork", TRUE, Each(2, 0))}

\* For the inductive invariant, which takes TLC ten times as long.
MCAlone ==
  {Job(args, "exec", found, Each(2, 1)) : args \in ArgLists, found \in BOOLEAN}
    \union {Job(OneTest, "exec", TRUE, Each(2, 2))} \union MCAsks

MCJobs ==
  {Job(args, "exec", found, Each(2, 2)) : args \in ArgLists, found \in BOOLEAN}
    \union {Job(OneTest, "exec", TRUE, Each(3, 1))} \union MCForks \union MCAsks
=============================================================================
