----------------------------- MODULE TestRunInv -----------------------------
(***************************************************************************)
(* The inductive invariant of TestRun, for TestRun_proofs: what holds of   *)
(* every process, file and stage of the tool, whatever the shell does and  *)
(* whatever becomes of the command.                                        *)
(***************************************************************************)
EXTENDS TestRun

\* The pieces the parser looks for.
Marks ==
  Quotes \union {Space, "INIT", "MODE", "COUNTS_PATH", "LOG_PATH", "LOG_QTY", "CACHE_QTY"}

\* printf and strtol are each other's inverse, and digits are none of these.
Decimals == \A n \in Nat : Strtol(<<Decimal(n)>>) = n /\ Decimal(n) \notin Marks

\* What the processes of run k find in MPROF_CONF.
ConfOf(k) ==
  Parsed(IF k = 1 THEN CountConf(options.counts) ELSE LogConf(options.log, qty))

Processes(k) ==
  [life : {"none", "up", "ended", "killed"}, prog : {"none", "sh", "cmd"},
   opt : {Parsed(DefaultConfig), ConfOf(k)}, lib : {"absent", "fresh", "open", "ready"},
   size : Nat, next : Nat, resize : Nat, at : [Threads -> Nat \union {NULL}], left : [Threads -> Nat],
   n : [Threads -> Nat], most : [Threads -> Nat]]

\* What a thread has left of its block is claimed.
PlaceOK(r, t) ==
  /\ r.left[t] \in 1 .. r.opt.block + 1
  /\ r.at[t] = NULL => r.left[t] = 1
  /\ r.at[t] # NULL => r.at[t] + r.left[t] - 1 <= r.next

ProcOK(k, r) ==
  /\ r \in Processes(k)
  /\ r.life = "none" => r = NoProcess
  /\ r.life # "none" => r.opt = ConfOf(k) /\ k \in started
  /\ r.lib \in {"open", "ready"} => r.opt.path \in DOMAIN files
  /\ r.lib # "ready" => /\ r.size = 0 /\ r.next = 0 /\ r.resize = 0
                        /\ \A t \in Threads : r.at[t] = NULL
  /\ \A t \in Threads : PlaceOK(r, t)

FileOK(f) ==
  /\ f.len \in Nat /\ DOMAIN f = {"len", "at"}
  /\ f.at = [s \in 0 .. f.len - 1 |-> f.at[s]]
  /\ \A s \in 0 .. f.len - 1 : IsFiniteSet(f.at[s].calls)

StageOK ==
  /\ stage \in {"start", "counting", "counts", "logging", "log"} \union Ended
  /\ job \in Jobs /\ options = Options(job.args) /\ refused \in BOOLEAN
  /\ area \in [fd : {"unset", "open", "closed"}, size : Nat]
  /\ qty \in Nat /\ started \subseteq Runs
  /\ stage \in {"start", "counting"} => area.fd = "unset" /\ ~ stray
  /\ stage \in {"counts", "log"} => area.fd = "open"
  /\ stage \in {"start", "counting", "counts"} => 2 \notin started
  /\ stage = "start" \/ options.mode # "TEST" => started = {}
  /\ stage \in {"counting", "logging", "log"} => options.mode = "TEST"
  /\ stage = "counts" => options.mode \in {"DUMP", "TEST"}
  /\ stage = "counts" => options.counts \in DOMAIN files
  /\ stage = "log" => options.log \in DOMAIN files

SafeInv ==
  /\ StageOK /\ Released
  /\ procs = [k \in Runs |-> [p \in Pids |-> procs[k][p]]]
  /\ \A k \in Runs, p \in Pids : ProcOK(k, procs[k][p])
  /\ \A q \in DOMAIN files : FileOK(files[q])
=============================================================================
