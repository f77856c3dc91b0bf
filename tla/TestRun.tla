------------------------------ MODULE TestRun ------------------------------
(***************************************************************************)
(* The tool mprof (mprof.c): its options, the dump of a counts file, and   *)
(* the test of a command, which runs twice under libmprof, first to count  *)
(* its calls and then to log them, in a log of the size the counts ask     *)
(* for.  The command's processes are those of Processes; each step of the  *)
(* tool is one between two of its system calls.                            *)
(***************************************************************************)
EXTENDS Processes, FiniteSets, SequencesExt

CONSTANTS
  CacheQty,                \* cacheQty in mprofTestProgram
  MainPid,                 \* the process system() starts
  Jobs,                    \* what the tool is asked, and in which surroundings
  ShellCalls               \* bound: calls of the shell's threads

\* What a call asks of the allocator: a block of some bytes, one of none, one
\* the allocator has no room for (it returns NULL), or that a block be freed.
Asks == {"bytes", "zero", "refused", "free"}

\* A job: the tool's arguments; what the shell does with the command; whether
\* ./libmprof.so is where the tool expects it; the calls of the command's
\* threads in one run at most (a bound), and what those of a thread ask.
ASSUME TestRunAssumption ==
  /\ MainPid \in Pids /\ IsFiniteSet(Threads) /\ CacheQty \in Nat \ {0}
  /\ ShellCalls \in [Threads -> Nat]
  /\ \A j \in Jobs :
       /\ j.shape \in {"exec", "fork", "background"} /\ j.found \in BOOLEAN
       /\ j.calls \in [Threads -> Nat] /\ j.asks \in [Threads -> Asks]

VARIABLES
  stage,                   \* where the tool is
  job,                     \* one of Jobs
  options,                 \* what mprofMain has made of its arguments
  area,                    \* the struct mmapArea on the tool's stack
  qty,                     \* LOG_QTY
  started,                 \* the runs whose shell could be started
  refused,                 \* a system call of the tool has failed
  stray,                   \* the tool has closed what it never opened
  shown                    \* the records the analysis has seen

tool == <<stage, options, area, qty, started, refused, stray, shown>>
vars == <<files, procs, job, tool>>

Ended == {"done", "failed", "crashed"}

-----------------------------------------------------------------------------
\* mprofMain: each option in turn.  The search for a mode's name runs off the
\* end of `modes`; whatever it finds there, the tool does nothing after it.
ModeTable == {"DUMP", "TEST", "HELP"}

Option(r, o) ==
  CASE r.mode = "bad" -> r
    [] o.opt = "t" -> [r EXCEPT !.mode = "TEST", !.test = TRUE]
    [] o.opt = "h" -> [r EXCEPT !.mode = "HELP"]
    [] o.opt = "c" -> [r EXCEPT !.counts = o.arg]
    [] o.opt = "l" -> [r EXCEPT !.log = o.arg]
    [] o.opt = "m" /\ o.arg \in ModeTable -> [r EXCEPT !.mode = o.arg]
    [] OTHER -> [r EXCEPT !.mode = "bad"]

Options(args) ==
  FoldLeft(Option, [mode |-> "DUMP", test |-> FALSE,
                    counts |-> <<"mprof.counts">>, log |-> <<"mprof.log">>], args)

\* The paths mprofMain ends up with are strings, as its arguments are.
ASSUME OptionsAssumption ==
  \A j \in Jobs : {Options(j.args).counts, Options(j.args).log} \subseteq Seq(STRING)

\* The configurations mprofTestProgram composes.
Quoted(path) == <<"'">> \o path \o <<"'">>

CountConf(path) ==
  <<"INIT", "=", "LD_NEXT", Space, "MODE", "=", "Count", Space,
    "COUNTS_PATH", "=">> \o Quoted(path)

\* A mutated configuration: the path comes first.
LogConf_PathFirst(path, n) ==
  <<"LOG_PATH", "=">> \o Quoted(path) \o
  <<Space, "INIT", "=", "LD_NEXT", Space, "MODE", "=", "Log", "Mmap", Space,
    "LOG_QTY", "=", Decimal(n), Space, "CACHE_QTY", "=", Decimal(CacheQty)>>

LogConf(path, n) ==
  <<"INIT", "=", "LD_NEXT", Space, "MODE", "=", "Log", "Mmap", Space,
    "LOG_QTY", "=", Decimal(n), Space, "CACHE_QTY", "=", Decimal(CacheQty), Space,
    "LOG_PATH", "=">> \o Quoted(path)

-----------------------------------------------------------------------------
NoArea == [fd |-> "unset", size |-> 0]

\* A file of an earlier test of another command.
StaleFile(mode) ==
  [len |-> 1,
   at  |-> [s \in 0 .. 0 |->
     [mode |-> mode, calls |-> {Call(0, MainPid, "old", CHOOSE t \in Threads : TRUE, 1)}]]]

Init ==
  /\ job \in Jobs /\ options = Options(job.args)
  /\ files \in {<< >>, [q \in {options.counts, options.log} |->
                        StaleFile(IF q = options.counts THEN "counts" ELSE "alloc")]}
  /\ ProcsInit
  /\ stage = "start" /\ area = NoArea /\ qty = 0 /\ started = {} /\ refused = FALSE /\ stray = FALSE
  /\ shown = << >>

\* mmapClose; the struct on the stack is not initialised before mmapOpen.
CloseArea ==
  /\ area' = [fd |-> "closed", size |-> 0]
  /\ stray' = (stray \/ area.fd = "unset")

\* A mutated way out: return instead of break.
Break_Return == stage' = "failed" /\ UNCHANGED <<area, stray>>

\* The way out of the do-while loops: break, then mmapClose.
Break == stage' = "failed" /\ CloseArea

\* What a new image finds at LD_PRELOAD=./libmprof.so.
Library == IF job.found THEN "fresh" ELSE "absent"

\* system( in_cmdArg ): the shell runs, or cannot be started, or there is no
\* command: system( NULL ) starts nothing.  The tool goes on in each case.
System(k, conf) ==
  \/ /\ options.test
     /\ Become(k, MainPid, Image("sh", Parsed(conf), Library, ShellCalls))
     /\ started' = started \union {k} /\ UNCHANGED refused
  \/ UNCHANGED <<procs, started>> /\ refused' = (refused \/ options.test)

\* A string or an environment variable cannot be allocated.
Refuse == Break /\ refused' = TRUE /\ UNCHANGED <<procs, started>>

\* mprofMain without a file to read, and the first run of the test.
Begin ==
  /\ stage = "start"
  /\ \/ /\ options.mode \in {"HELP", "bad"}
        /\ stage' = "done" /\ UNCHANGED <<area, stray, started, refused, procs>>
     \/ /\ options.mode = "TEST"
        /\ \/ Refuse
           \/ /\ System(1, CountConf(options.counts))
              /\ stage' = "counting" /\ UNCHANGED <<area, stray>>
  /\ UNCHANGED <<files, job, options, qty, shown>>

\* system() has returned: it waits for the process it has started.
Returned(k) == k \in started => ~ Living(procs[k][MainPid])

\* mmapOpen( O_RDONLY ), and mmapClose at once when it fails.
MapFile(path, next) ==
  /\ \/ /\ path \in DOMAIN files
        /\ area' = [fd |-> "open", size |-> files[path].len]
        /\ stage' = next /\ UNCHANGED refused
     \/ /\ area' = [fd |-> "closed", size |-> 0]
        /\ stage' = "failed" /\ refused' = (refused \/ path \in DOMAIN files)
  /\ UNCHANGED <<files, procs, job, options, qty, started, stray, shown>>

MapCounts ==
  /\ \/ stage = "start" /\ options.mode = "DUMP"
     \/ stage = "counting" /\ Returned(1)
  /\ MapFile(options.counts, "counts")

\* A mutated test of the headers: each of them, as the loop suggests.
HeaderOK_Each(f) == \A s \in 0 .. area.size - 1 : f.at[s].mode = "counts"

\* The loop over the headers looks at the first one each time.
HeaderOK(f) == f.at[0].mode = "counts"

\* What the records of some slots have counted.
Counted(f, slots) == UNION {{s} \X f.at[s].calls : s \in slots}

\* A mutated mprofCountsTotal: it begins behind the first record.
CountsTotal_Skip(f) == Cardinality(Counted(f, 1 .. area.size - 1))

\* mprofCountsTotal
CountsTotal(f) == Cardinality(Counted(f, 0 .. area.size - 1))

\* A mutated log size: the threads' unfinished blocks are left out.
LogQty_NoCaches(f) == CountsTotal(f)

\* totalAllocs
LogQty(f) == CountsTotal(f) + CacheQty * area.size

\* The mapped file is shorter than when it was opened: SIGBUS.
Truncated(f) == f.len < area.size

\* NONZEROMULTIPLE, then the headers.
Usable(f) == area.size # 0 /\ HeaderOK(f)

\* The counts are checked, then printed, or used for the second run.
ReadCounts ==
  LET f == files[options.counts]
  IN  /\ stage = "counts"
      /\ \/ /\ Truncated(f) /\ stage' = "crashed"
            /\ UNCHANGED <<area, stray, refused, procs, started, qty>>
         \/ /\ ~ Truncated(f) /\ ~ Usable(f)
            /\ Break /\ UNCHANGED <<refused, procs, started, qty>>
         \/ /\ ~ Truncated(f) /\ Usable(f)
            /\ IF options.mode = "DUMP"
               THEN stage' = "done" /\ CloseArea /\ UNCHANGED <<refused, procs, started, qty>>
               ELSE /\ qty' = LogQty(f)
                    /\ \/ Refuse
                       \/ /\ CloseArea
                          /\ System(2, LogConf(options.log, qty'))
                          /\ stage' = "logging"
      /\ UNCHANGED <<files, job, options, shown>>

MapLog == stage = "logging" /\ Returned(2) /\ MapFile(options.log, "log")

\* The calls whose records the analyses take up, and what those asked.
Recorded(f) == UNION {f.at[s].calls : s \in {s \in 0 .. area.size - 1 : f.at[s].mode = "alloc"}}
Kind(c)     == IF c.prog = "cmd" THEN job.asks[c.by] ELSE "bytes"
Kinds(cs)   == {Kind(c) : c \in cs}

\* mprofSizeAnalysis divides by the sum of all sizes, for each of the sizes.
DividesByZero(kinds) == "zero" \in kinds /\ kinds \intersect {"bytes", "refused"} = {}

\* No record refers to a page, so that min and max look behind an empty list;
\* what they find there is undefined.
NoCompactness(kinds) == kinds \intersect {"bytes", "zero"} = {}

\* mprofSizeAnalysis, then mprofCompactnessAnalysis, over every record.
Analyse ==
  LET f     == files[options.log]
      kinds == Kinds(Recorded(f))
  IN  /\ stage = "log"
      /\ \/ Truncated(f) /\ stage' = "crashed" /\ UNCHANGED <<area, stray, shown>>
         \/ area.size = 0 /\ Break /\ UNCHANGED shown
         \/ /\ area.size # 0 /\ ~ Truncated(f)
            /\ DividesByZero(kinds) \/ NoCompactness(kinds)
            /\ stage' = "crashed" /\ UNCHANGED <<area, stray, shown>>
         \/ /\ area.size # 0 /\ ~ Truncated(f) /\ ~ DividesByZero(kinds)
            /\ shown' = [s \in 0 .. area.size - 1 |-> f.at[s].calls]
            /\ stage' = "done" /\ CloseArea
      /\ UNCHANGED <<files, procs, job, options, qty, started, refused>>

-----------------------------------------------------------------------------
\* The shell: it becomes the command, or it forks, waits for its children or
\* not, and ends; a child becomes the command.
Shell(k) ==
  LET children  == Pids \ {MainPid}
      Gone(q)   == procs[k][q].life \in {"ended", "killed"}
      Forked(q) == procs[k][q].life # "none"
  IN  \/ job.shape = "exec" /\ Exec(k, MainPid, Library, job.calls)
      \/ /\ job.shape # "exec"
         /\ \/ \E q \in children : Fork(k, MainPid, q) \/ Exec(k, q, Library, job.calls)
            \/ /\ \E q \in children : Forked(q)
               /\ job.shape = "background" \/ \A q \in children : Forked(q) => Gone(q)
               /\ Exit(k, MainPid)

\* A process of run k makes a step.
Process(k) ==
  /\ \/ Shell(k)
     \/ \E p \in Pids :
          \/ Open(k, p) \/ Size(k, p) \/ Publish(k, p) \/ Kill(k, p)
          \/ \E t \in Threads :
               Claim(k, p, t) \/ Extend(k, p, t) \/ Handle(k, p, t) \/ Unseen(k, p, t)
          \/ procs[k][p].prog = "cmd" /\ Exit(k, p)
  /\ UNCHANGED <<job, tool>>

Terminated == stage \in Ended /\ UNCHANGED vars

Next ==
  \/ Begin \/ MapCounts \/ ReadCounts \/ MapLog \/ Analyse
  \/ \E k \in Runs : Process(k)
  \/ Terminated

Spec == Init /\ [][Next]_vars

-----------------------------------------------------------------------------
(* Properties.                                                              *)

TypeOK ==
  /\ stage \in {"start", "counting", "counts", "logging", "log"} \union Ended
  /\ area \in [fd : {"unset", "open", "closed"}, size : Nat]
  /\ qty \in Nat /\ started \subseteq Runs
  /\ \A k \in Runs, p \in Pids, t \in Threads :
       LET r == procs[k][p]
       IN  /\ r.life \in {"none", "up", "ended", "killed"}
           /\ r.left[t] \in 1 .. CacheQty + 1
           /\ r.at[t] \in NULL .. r.next

\* The shell has become the command: no process of its own beside it.
Alone == job.shape = "exec"

\* The command of run k, and its calls that came as far as the count or the
\* record of theirs, if the library was there to make one.
Commands(k) == {p \in Pids : procs[k][p].prog = "cmd"}
CallsOf(k) ==
  UNION {{Call(k, p, "cmd", t, n) : n \in 1 .. procs[k][p].n[t]} :
           p \in Commands(k), t \in Threads}

\* getValue ends a path at a quote, and the tool does not escape any.
Plain(path) == "'" \notin ToSet(path)

\* Run k has been one under libmprof, of a command that calls malloc at all.
Profiled(k) ==
  k \in started /\ job.found /\ Plain(options.counts) /\ Plain(options.log) /\ CallsOf(k) # {}

Testing == options.mode = "TEST"

\* The command had ended before system() returned: the shell became it, or
\* waited for it and then ended, so that the tool did not go on without it.
Awaited(k) ==
  job.shape = "exec" \/ (job.shape = "fork" /\ procs[k][MainPid].life = "ended")

\* What the analysis sees of a command that had ended is the log of the second
\* run: each call in one record.
LogsEachCall ==
  Testing /\ stage = "done" /\ Profiled(2) /\ Awaited(2) =>
    \A c \in CallsOf(2) : Cardinality({s \in DOMAIN shown : c \in shown[s]}) = 1

\* Of a command that the shell becomes it sees no other calls either: nothing
\* of the shell, which opened the same file, and nothing of an earlier run.
AnalysesCommand ==
  Alone /\ Testing /\ stage = "done" /\ Profiled(2) =>
    /\ LogsEachCall
    /\ \A s \in DOMAIN shown : shown[s] \subseteq CallsOf(2)

\* The log is as long as the first run's calls, plus one block for each slot of
\* the counts file, whatever was killed in between: the file may end before the
\* slots that were claimed, but it has the slot of every thread that counted.
SizedByCounts ==
  Alone /\ Testing /\ qty # 0 /\ Profiled(1) =>
    \A p \in Commands(1) :
      LET r == procs[1][p]
      IN  /\ qty = Cardinality(CallsOf(1)) + CacheQty * FileSlots(r)
          /\ \A t \in Threads : r.n[t] > 0 => r.at[t] < FileSlots(r)
          /\ FileSlots(r) <= r.next

\* Calls a thread has begun: one more than recorded while it has only claimed.
Begun(r, t) == r.n[t] + (IF Claiming(r, t) THEN 1 ELSE 0)

\* A second run in which no thread calls more often than in the first never
\* has to grow the log, however its threads share it: no resize, and so no
\* semaphore, in the run that is timed. (A shell that forks may open the counts
\* file after the command has, and cut off what that has counted.)
LogNeverGrows ==
  Alone => \A p \in Commands(1), q \in Commands(2) :
    (/\ Profiled(1) /\ Profiled(2)
     /\ \A t \in Threads : Begun(procs[2][q], t) <= procs[1][p].n[t])
      => procs[2][q].size = qty /\ procs[2][q].resize = 0

\* Whatever paths the user gives, the pieces of MPROF_CONF among them, the
\* library finds the tool's MODE, file and numbers in it.
OpensToolsFile ==
  \A k \in Runs, p \in Pids :
    LET r == procs[k][p]
    IN  r.life # "none" /\ Plain(options.counts) /\ Plain(options.log) =>
          /\ r.opt.init
          /\ IF k = 1 THEN Counting(r) /\ r.opt.path = options.counts
             ELSE /\ r.opt.mode = <<"Log", "Mmap">> /\ r.opt.path = options.log
                  /\ r.opt.grow = qty /\ r.opt.block = CacheQty

\* The tool ends with its files closed, and closes nothing that was not its
\* own, save when it could not even begin.
Released ==
  /\ stage \in {"done", "failed"} => area.fd # "open"
  /\ stray => refused /\ started = {} /\ stage = "failed"

\* A test fails only for a cause: a system call of the tool was refused, one
\* of the runs was not profiled, or the thread with the first slot had not
\* counted a call when the first run ended; or, when it crashes, no call of the
\* second run asked for a byte, or none got an address.
FailsForCause ==
  Alone /\ Testing /\ stage \in {"failed", "crashed"} =>
    \/ refused \/ ~ Profiled(1) \/ (2 \in started /\ ~ Profiled(2))
    \/ \E p \in Commands(1), t \in Threads : procs[1][p].at[t] = 0 /\ procs[1][p].n[t] = 0
    \/ /\ stage = "crashed"
       /\ \E wanted \in {{"bytes", "refused"}, {"bytes", "zero"}} :
            Kinds(CallsOf(2)) \intersect wanted = {}
=============================================================================
