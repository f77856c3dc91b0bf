----------------------------- MODULE Processes -----------------------------
(***************************************************************************)
(* The processes a command consists of, each with libmprof preloaded, and  *)
(* the files they map.  All of them see the same MPROF_CONF and so open    *)
(* the same file, each with O_TRUNC at its first call.                     *)
(*                                                                         *)
(* What the threads of one process do to each other inside a handler is    *)
(* the matter of Count and LogMmap.  Here a handler is its claim, the      *)
(* growth of the file, the end of that growth, and the rest: steps between *)
(* which other threads run and the process may be killed; what counts is   *)
(* which slot of which file it writes.  A growth that fails ends the       *)
(* process, as a kill before it does.  Sizes are in records.               *)
(***************************************************************************)
EXTENDS ParseEnv

CONSTANTS
  Pids,                    \* processes of one run of the command
  Threads,                 \* threads of a process
  Decimal(_),              \* the piece printf makes of a number
  Strtol(_)                \* the number strtol makes of a value

VARIABLES
  files,                   \* the files that exist, by path
  procs                    \* the processes of each run

NULL == -1

Runs == 1 .. 2

\* The n-th call of a thread; those of an earlier test are of run 0.
Call(run, pid, prog, t, n) ==
  [run |-> run, pid |-> pid, prog |-> prog, by |-> t, n |-> n]

EmptySlot == [mode |-> "empty", calls |-> {}]

\* A file after ftruncate to n records.
Resized(f, n) ==
  [len |-> n, at |-> [s \in 0 .. n-1 |-> IF s < f.len THEN f.at[s] ELSE EmptySlot]]

NoFile == [len |-> 0, at |-> [s \in 0 .. -1 |-> EmptySlot]]

\* files with f at path, created if need be.
With(path, f) == [q \in DOMAIN files \union {path} |-> IF q = path THEN f ELSE files[q]]

\* strtol of an option, or what is used without it.
Number(conf, key, default) == IF HasArg(conf, key) THEN Strtol(Arg(conf, key)) ELSE default

\* What the constructs make of MPROF_CONF: the MODE, whether there is an INIT,
\* the path, the size of the file at first, by how much it grows beyond what
\* is needed, and the records a thread claims at once.
Parsed(conf) ==
  LET counting == ModeOf(conf) = <<"Count">>
      growth   == Number(conf, "LOG_QTY", 1000)
  IN  [mode  |-> ModeOf(conf), init |-> InitFound(conf),
       path  |-> Arg(conf, IF counting THEN "COUNTS_PATH" ELSE "LOG_PATH"),
       first |-> IF counting THEN 1 ELSE growth,
       grow  |-> IF counting THEN 0 ELSE growth,
       block |-> IF counting THEN 1 ELSE Number(conf, "CACHE_QTY", 10)]

Counting(r) == r.opt.mode = <<"Count">>

\* A process: its program, how far libmprof has come in it, the size and the
\* counter of its MODE, the size a thread that holds the semaphore gives the
\* file (0 when none does), each thread's place in the file, the calls it has
\* made and may make at most.
NoProcess ==
  [life |-> "none", prog |-> "none", opt |-> Parsed(DefaultConfig), lib |-> "absent",
   size |-> 0, next |-> 0, resize |-> 0, at |-> [t \in Threads |-> NULL],
   left |-> [t \in Threads |-> 1], n |-> [t \in Threads |-> 0],
   most |-> [t \in Threads |-> 0]]

\* A process after exec: a new image, with nothing mapped.
Image(prog, opt, lib, most) ==
  [NoProcess EXCEPT !.life = "up", !.prog = prog, !.opt = opt, !.lib = lib, !.most = most]

Living(r) == r.life = "up"

CallsLeft(r, t) == r.n[t] < r.most[t]

ProcsInit == procs = [k \in Runs |-> [p \in Pids |-> NoProcess]]

Become(k, p, r) == procs' = [procs EXCEPT ![k][p] = r]

-----------------------------------------------------------------------------
\* A mutated open: O_TRUNC is forgotten.
Opened_Kept(path) == IF path \in DOMAIN files THEN files[path] ELSE NoFile

\* The file after open with O_TRUNC | O_CREAT.
Opened(path) == NoFile

\* The first call of a process: the MODE's construct up to its mmapOpen, or
\* exit( -1 ) when MPROF_CONF names no MODE.
Open(k, p) ==
  LET r == procs[k][p]
  IN  /\ Living(r) /\ r.lib = "fresh" /\ \E t \in Threads : CallsLeft(r, t)
      /\ IF r.opt.mode = "dies"
         THEN Become(k, p, [r EXCEPT !.life = "ended"]) /\ UNCHANGED files
         ELSE /\ files' = With(r.opt.path, Opened(r.opt.path))
              /\ Become(k, p, [r EXCEPT !.lib = "open"])

\* The rest of the construct, mmapSize; then INIT, or exit( -1 ) without one.
Size(k, p) ==
  LET r == procs[k][p]
      n == r.opt.first
  IN  /\ Living(r) /\ r.lib = "open"
      /\ files' = With(r.opt.path, Resized(files[r.opt.path], n))
      /\ Become(k, p, [r EXCEPT !.lib = "ready", !.size = n,
                                !.life = IF r.opt.init THEN @ ELSE "ended"])

\* A thread needs a slot (Count) or a block (LogMmap) when it has none left.
Claims(r, t) == IF Counting(r) THEN r.at[t] = NULL ELSE r.left[t] = 1

\* It has claimed one, and has used nothing of it yet.
Claiming(r, t) == r.left[t] = r.opt.block + 1

\* It has found that the file does not reach as far as its claim.
Waits(r, t) == Claiming(r, t) /\ r.at[t] + r.opt.block > r.size

\* The slots the file of r has been given.
FileSlots(r) == IF r.resize # 0 THEN r.resize ELSE r.size

Calling(r, t) == Living(r) /\ r.lib = "ready" /\ CallsLeft(r, t)

\* The process when thread t has claimed.
Claimed(r, t) ==
  [r EXCEPT !.next = @ + r.opt.block, !.at[t] = r.next, !.left[t] = r.opt.block + 1]

\* __sync_fetch_and_add, where the thread may stay as long as others run, and
\* for good when the process ends meanwhile.
Claim(k, p, t) ==
  LET r == procs[k][p]
  IN  /\ Calling(r, t) /\ Claims(r, t)
      /\ Become(k, p, Claimed(r, t)) /\ UNCHANGED files

\* The semaphore, the second look at the size, and ftruncate.
Extend(k, p, t) ==
  LET r == procs[k][p]
      n == r.at[t] + r.opt.block + r.opt.grow
  IN  /\ Calling(r, t) /\ Waits(r, t) /\ r.resize = 0
      /\ files' = With(r.opt.path, Resized(files[r.opt.path], n))
      /\ Become(k, p, [r EXCEPT !.resize = n])

\* The new size is stored, and the semaphore posted.
Publish(k, p) ==
  LET r == procs[k][p]
  IN  /\ Living(r) /\ r.resize # 0
      /\ Become(k, p, [r EXCEPT !.size = r.resize, !.resize = 0]) /\ UNCHANGED files

\* The process behind the handler: a log's next slot, a counter's same one.
After(r, t) ==
  [r EXCEPT !.at[t] = IF Counting(r) THEN @ ELSE @ + 1,
            !.left[t] = IF Counting(r) THEN r.opt.block ELSE @ - 1,
            !.n[t] = @ + 1]

\* A slot with call c: a counter has one more, a record replaces the old one.
Put(r, slot, c) ==
  IF Counting(r) THEN [mode |-> "counts", calls |-> slot.calls \union {c}]
                    ELSE [mode |-> "alloc", calls |-> {c}]

\* The rest of a call, in a slot the thread has; or SIGBUS, when another
\* process has cut the file off before it.
Handle(k, p, t) ==
  LET r    == procs[k][p]
      path == r.opt.path
      s    == r.at[t]
      c    == Call(k, p, r.prog, t, r.n[t] + 1)
  IN  /\ Calling(r, t) /\ ~ Claims(r, t) /\ ~ Waits(r, t)
      /\ IF s < files[path].len
         THEN /\ files' = With(path, [files[path] EXCEPT !.at[s] = Put(r, @, c)])
              /\ Become(k, p, After(r, t))
         ELSE Become(k, p, [r EXCEPT !.life = "killed"]) /\ UNCHANGED files

\* A call of a process the library could not be loaded into.
Unseen(k, p, t) ==
  LET r == procs[k][p]
  IN  /\ Living(r) /\ r.lib = "absent" /\ CallsLeft(r, t)
      /\ Become(k, p, [r EXCEPT !.n[t] = @ + 1])
      /\ UNCHANGED files

\* The process is killed.
Kill(k, p) ==
  LET r == procs[k][p]
  IN  /\ Living(r) /\ r.prog = "cmd"
      /\ Become(k, p, [r EXCEPT !.life = "killed"]) /\ UNCHANGED files

\* exec in the shell, or in its child: the command begins.
Exec(k, p, lib, most) ==
  LET r == procs[k][p]
  IN  /\ Living(r) /\ r.prog = "sh"
      /\ Become(k, p, Image("cmd", r.opt, lib, most)) /\ UNCHANGED files

\* A shell, of one thread, between two of its calls; it has made some.
Outside(r) ==
  /\ r.lib = "absent" \/ (r.lib = "ready" /\ \E t \in Threads : r.n[t] > 0)
  /\ r.resize = 0 /\ \A t \in Threads : ~ Claiming(r, t)

\* fork in the shell: the child has the same memory and maps the same file.
Fork(k, p, q) ==
  /\ Living(procs[k][p]) /\ Outside(procs[k][p]) /\ procs[k][q].life = "none"
  /\ Become(k, q, procs[k][p]) /\ UNCHANGED files

\* The end of a process; the destructor leaves the file as it is.
Exit(k, p) ==
  LET r == procs[k][p]
  IN  Living(r) /\ Become(k, p, [r EXCEPT !.life = "ended"]) /\ UNCHANGED files
=============================================================================
