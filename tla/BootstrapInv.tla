---------------------------- MODULE BootstrapInv ----------------------------
(***************************************************************************)
(* The inductive invariant that keeps the MODE's handlers from running too *)
(* early, however many threads race to be first (Bootstrap_proofs).        *)
(***************************************************************************)
EXTENDS Bootstrap

\* Where the thread is, or will be when its nested call has returned.
Places(t) == {pc[t], outer[t].at}

\* After the MODE's construct.
Constructed == {"init", "ldinit", "preload", "dlsym", "finish"}

\* Where a thread assigns to mprofVtable.
Assigning == {"enter", "init", "ldinit", "finish", "detach"}

\* A thread in the init has constructed the MODE itself once it is past that
\* step, and has itself found the functions its loop has been through.  A
\* thread in a handler found the table after one such thread had finished.
Boot(t) ==
  /\ pc[t] \notin Serving => outer[t].at = "app"
  /\ Places(t) \intersect Constructed # {} => constructs > 0
  /\ \A i \in 1 .. index[t] : ldNames[i] \in resolved
  /\ "dlsym" \in Places(t) => index[t] < 4
  /\ pc[t] = "finish" => index[t] = 4
  /\ pc[t] = "handler" => Ready
  /\ word[t] > 0 => pc[t] \in Assigning

IInv ==
  /\ TypeOK
  /\ \A t \in Threads : Boot(t)
  /\ ToMode => Ready
=============================================================================
