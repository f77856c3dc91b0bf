---------------------------- MODULE TestRunAlone ----------------------------
(***************************************************************************)
(* The inductive invariant of TestRun for a command that the shell         *)
(* becomes, on top of SafeInv: what the process of each run knows of its   *)
(* slots, what the file of the run that is in hand has in them, and what   *)
(* the tool has made of the counts.                                        *)
(***************************************************************************)
EXTENDS TestRunInv

\* The one process of run k, and the calls of such a process that returned.
Main(k) == procs[k][MainPid]
MadeBy(k, r) ==
  UNION {{Call(k, MainPid, r.prog, t, n) : n \in 1 .. r.n[t]} : t \in Threads}

PathOf(k) == IF k = 1 THEN options.counts ELSE options.log

\* The stage in which run k is made, and those in which its file is in hand.
MakingOf(k) == IF k = 1 THEN "counting" ELSE "logging"
InHand(k)   == stage \in (IF k = 1 THEN {"counting", "counts"} ELSE {"logging", "log"})

-----------------------------------------------------------------------------
(* The first run.                                                           *)

\* Each slot that is claimed belongs to one thread, and the file does not go
\* beyond them, nor end before that of a thread that has counted.
CountSlots(r) ==
  /\ r.size > 0 /\ (r.size = 1 \/ r.size <= r.next)
  /\ r.resize # 0 => r.resize > r.size /\ r.resize <= r.next
  /\ \A t \in Threads : r.at[t] # NULL =>
       /\ r.at[t] < r.next
       /\ r.at[t] < r.size \/ (Claiming(r, t) /\ r.n[t] = 0)
  /\ \A t, u \in Threads : r.at[t] = r.at[u] /\ r.at[t] # NULL => t = u
  /\ \A s \in 0 .. r.next - 1 : \E t \in Threads : r.at[t] = s
  /\ \A t \in Threads : r.n[t] > 0 => r.at[t] # NULL

\* Each slot has counted the calls of its thread.
CountFile(f, r) ==
  /\ f.len = FileSlots(r)
  /\ \A s \in 0 .. f.len - 1 :
       /\ f.at[s].calls = {c \in MadeBy(1, r) : r.at[c.by] = s}
       /\ f.at[s].calls # {} => f.at[s].mode = "counts"

-----------------------------------------------------------------------------
(* The second run.                                                          *)

\* The slots thread t has claimed and not used yet.
OwnSlots(r, t) == r.at[t] .. r.at[t] + r.left[t] - 2

\* All slots ever claimed, as the first, second, ... of each thread.
BlocksOf(r) == UNION {{t} \X (1 .. r.n[t] + r.left[t] - 1) : t \in Threads}

LogSlots(r) ==
  /\ r.resize # 0 => r.resize > r.size
  /\ \A t \in Threads : r.left[t] = 1 \/ Claiming(r, t) \/ r.at[t] + r.left[t] - 1 <= r.size
  /\ \A t, u \in Threads : t # u => OwnSlots(r, t) \intersect OwnSlots(r, u) = {}
  /\ r.next = Cardinality(BlocksOf(r))
  /\ \A t \in Threads :
       /\ r.at[t] = NULL => r.n[t] = 0
       /\ r.n[t] = 0 => r.left[t] \in {1, CacheQty + 1}

\* Each call has one slot, and what is not used yet is empty.
LogFile(f, r) ==
  /\ f.len = FileSlots(r)
  /\ \A s \in 0 .. f.len - 1 :
       /\ f.at[s].calls \subseteq MadeBy(2, r)
       /\ f.at[s].calls # {} => f.at[s].mode = "alloc"
       /\ r.next <= s \/ (\E t \in Threads : s \in OwnSlots(r, t)) => f.at[s].calls = {}
  /\ \A c \in MadeBy(2, r) :
       /\ \E s \in 0 .. f.len - 1 : c \in f.at[s].calls
       /\ \A i, j \in 0 .. f.len - 1 : c \in f.at[i].calls /\ c \in f.at[j].calls => i = j

\* No thread has begun more calls than it had made in the first run.
NoMoreCalls(r) == \A t \in Threads : Begun(r, t) <= Main(1).n[t]

-----------------------------------------------------------------------------
(* Both, and the tool.                                                      *)

\* What the process of run k is, whatever the stage.
OneProcess(k, r) ==
  /\ r.lib = "absent" => ~ job.found
  /\ r.lib \in {"fresh", "open"} => \A t \in Threads : r.n[t] = 0
  /\ r.lib = "ready" /\ k = 1 => CountSlots(r)
  /\ r.lib = "ready" /\ k = 2 => LogSlots(r)
  /\ r.lib = "ready" /\ k = 2 /\ Profiled(1) /\ NoMoreCalls(r) => r.size = qty /\ r.resize = 0

\* What its file has in it as long as it is in hand.
OneFile(k, r, f) ==
  /\ r.lib = "open" => f = NoFile
  /\ r.lib = "ready" => IF k = 1 THEN CountFile(f, r) ELSE LogFile(f, r)

RunOK(k) ==
  /\ Living(Main(k)) => stage = MakingOf(k)
  /\ Main(k).life # "none" =>
       OneProcess(k, Main(k)) /\ (InHand(k) => OneFile(k, Main(k), files[PathOf(k)]))

\* The tool reads the files as long as they are.
AreaOK ==
  /\ stage = "counts" => area.size = files[options.counts].len
  /\ stage = "log" => area.size = files[options.log].len

\* LOG_QTY, from the moment it is known.
QtyOK ==
  /\ stage \in {"start", "counting", "counts"} => qty = 0
  /\ Profiled(1) /\ (qty # 0 \/ 2 \in started) =>
       qty = Cardinality(MadeBy(1, Main(1))) + CacheQty * FileSlots(Main(1))

\* A test goes on without a run only if the tool was refused one.
TestOK ==
  Testing =>
    /\ stage # "start" /\ 1 \notin started => refused \/ ~ options.test
    /\ stage \in {"logging", "log", "done"} /\ 2 \notin started => refused \/ ~ options.test
    /\ ~ options.test => started = {}

AloneInv ==
  /\ \A k \in Runs, p \in Pids \ {MainPid} : procs[k][p] = NoProcess
  /\ \A k \in Runs : RunOK(k)
  /\ AreaOK /\ QtyOK /\ TestOK
  /\ AnalysesCommand /\ FailsForCause

PlainPaths == Plain(options.counts) /\ Plain(options.log)

IInv == SafeInv /\ (Alone /\ PlainPaths => AloneInv)
=============================================================================
