----------------------------- MODULE PerfSampler ----------------------------
(***************************************************************************)
(* The performance sampler (performance_sampler.c): a thread that wakes on *)
(* every SIGNAL_PERF_SAMPLE and, while a job runs, appends a sample to a   *)
(* list of buffers; the job loop that starts and stops the sampling; and   *)
(* the part of stop_benchmark() (periodic_benchmark.c) that writes the     *)
(* samples out and joins the thread.                                       *)
(*                                                                         *)
(* No lock guards what the two threads share, so every access to a shared  *)
(* variable is an action. The sampler has priority SCHED_FIFO 51: on the   *)
(* core of a main thread with less than that, it runs until it waits in    *)
(* sigwait again; on another core (option -C), or with a main thread of a  *)
(* higher priority (option -f), the two interleave.                        *)
(***************************************************************************)
EXTENDS Integers, Sequences

CONSTANTS
  Options,      \* the execution options main() may hand over
  Jobs,         \* tasks_to_launch
  FirstLength,  \* length of the first buffer
  MaxBuffers,   \* buffers malloc has memory for
  MaxTicks      \* bound: expiries of the sampling timer

(* args_num, memory_profiling_enable, and whether the sampler shares the   *)
(* main thread's core with a priority above it.                            *)
OptionRecord == [args : Nat, profiling : BOOLEAN, sameCore : BOOLEAN]

ASSUME SamplerAssumption ==
  /\ Options \subseteq OptionRecord
  /\ Jobs \in Nat \ {0} /\ FirstLength \in Nat \ {0} /\ MaxBuffers \in Nat \ {0}
  /\ MaxTicks \in Nat

VARIABLES
  opts,         \* exec_opts
  main,         \* where the main thread is
  sampler,      \* where the sampler thread is
  alive,        \* sampling_alive
  active,       \* sampling_active
  firstTaken,   \* first_sample_taken
  base,         \* when first_sample was taken: in which job, 0 if in none
  list,         \* the buffers from sampling_list_head on
  current,      \* sampling_data_current: its place in the list, 0 for NULL
  counter,      \* sampling_counter
  timer,        \* perf_timer exists
  tick,         \* its signal is pending for the process
  last,         \* the signal of pthread_kill is pending for the sampler
  ticks,        \* expiries of the timer
  launched,     \* tasks_launched
  interrupted,  \* SIGINT has arrived
  cursor,       \* the buffer and the place log_samples() has come to
  log,          \* the rows it has written
  crashed       \* the process has died of a NULL pointer

flags   == <<alive, active, firstTaken>>
buffers == <<base, list, current, counter>>
signals == <<timer, tick, last, ticks>>
output  == <<cursor, log>>
vars    == <<opts, main, sampler, flags, buffers, signals, launched, interrupted, output,
             crashed>>

Stopped == crashed \/ main = "exited"

(* A sample: the jobs its base and its reading belong to. memset leaves a  *)
(* cell without samples.                                                   *)
NoSum == [base |-> -1, at |-> -1]
EmptyCell == [samples |-> 0, sum |-> NoSum]
Buffer(length) == [place \in 1..length |-> EmptyCell]

NextLength_Longer(length) == length + 2   \* mutant
NextLength(length) == 2 * length

(* The job that runs, 0 between two jobs. *)
JobNow == IF active THEN launched + 1 ELSE 0

(* setup_perf_sampler() has run, or was not asked to. *)
Init ==
  /\ opts \in Options
  /\ main = "loop"
  /\ sampler = IF opts.profiling THEN "alive" ELSE "none"
  /\ alive = opts.profiling /\ active = FALSE /\ firstTaken = FALSE
  /\ base = 0
  /\ list = IF opts.profiling THEN <<Buffer(FirstLength)>> ELSE <<>>
  /\ current = Len(list) /\ counter = 0
  /\ timer = opts.profiling /\ tick = FALSE /\ last = FALSE /\ ticks = 0
  /\ launched = 0 /\ interrupted = FALSE
  /\ cursor = <<1, 1>> /\ log = <<>>
  /\ crashed = FALSE

TimerExpires ==
  /\ ~Stopped /\ timer /\ ticks < MaxTicks
  /\ ticks' = ticks + 1
  /\ tick' = TRUE
  /\ UNCHANGED <<opts, main, sampler, flags, buffers, timer, last, launched, interrupted,
                 output, crashed>>

-----------------------------------------------------------------------------
(* sampling(): the sampler thread. *)

SamplerAt(from, to) == ~Stopped /\ sampler = from /\ sampler' = to

TestAlive ==
  /\ SamplerAt("alive", IF alive THEN "active" ELSE "gone")
  /\ UNCHANGED <<opts, main, flags, buffers, signals, launched, interrupted, output, crashed>>

TestActive ==
  /\ SamplerAt("active", IF active THEN "first" ELSE "full")
  /\ UNCHANGED <<opts, main, flags, buffers, signals, launched, interrupted, output, crashed>>

TestFirst ==
  /\ SamplerAt("first", IF firstTaken THEN "sample" ELSE "claim")
  /\ UNCHANGED <<opts, main, flags, buffers, signals, launched, interrupted, output, crashed>>

ClaimFirst ==
  /\ SamplerAt("claim", "base")
  /\ firstTaken' = TRUE
  /\ UNCHANGED <<opts, main, alive, active, buffers, signals, launched, interrupted, output,
                 crashed>>

(* Store a sum in the current cell; a NULL buffer is the end of it all.    *)
Store(baseJob) ==
  IF current = 0
  THEN crashed' = TRUE /\ UNCHANGED list
  ELSE /\ list' = [list EXCEPT ![current][counter + 1].sum =
                                  [base |-> baseJob, at |-> JobNow]]
       /\ UNCHANGED crashed

TakeBase ==
  /\ SamplerAt("base", "count")
  /\ base' = JobNow
  /\ Store(JobNow)
  /\ UNCHANGED <<opts, main, flags, current, counter, signals, launched, interrupted, output>>

TakeSample ==
  /\ SamplerAt("sample", "count")
  /\ Store(base)
  /\ UNCHANGED <<opts, main, flags, base, current, counter, signals, launched, interrupted,
                 output>>

(* samples++ makes the cell a row of the log. *)
CountSample ==
  /\ SamplerAt("count", "full")
  /\ list' = [list EXCEPT ![current][counter + 1].samples = @ + 1]
  /\ counter' = counter + 1
  /\ UNCHANGED <<opts, main, flags, base, current, signals, launched, interrupted, output,
                 crashed>>

BufferFull_Never(length) == FALSE   \* mutant: the buffer is never replaced
BufferFull(length) == counter = length

(* Line 149: with a full buffer, malloc the next one; the list is extended *)
(* or, with no memory left, the current buffer is NULL.                    *)
TestFull ==
  /\ IF current = 0 THEN SamplerAt("full", "full") /\ crashed' = TRUE
     ELSE SamplerAt("full", "sigwait") /\ UNCHANGED crashed
  /\ IF current = 0 \/ ~BufferFull(Len(list[current])) THEN UNCHANGED buffers
     ELSE /\ counter' = 0
          /\ IF Len(list) < MaxBuffers
             THEN /\ list' = Append(list, Buffer(NextLength(Len(list[current]))))
                  /\ current' = current + 1
             ELSE current' = 0 /\ UNCHANGED list
          /\ UNCHANGED base
  /\ UNCHANGED <<opts, main, flags, signals, launched, interrupted, output>>

(* sigwait() takes one of the pending signals. *)
SignalTaken ==
  /\ SamplerAt("sigwait", "alive")
  /\ \/ tick /\ tick' = FALSE /\ UNCHANGED last
     \/ last /\ last' = FALSE /\ UNCHANGED tick
  /\ UNCHANGED <<opts, main, flags, buffers, timer, ticks, launched, interrupted, output,
                 crashed>>

Sampler ==
  \/ TestAlive \/ TestActive \/ TestFirst \/ ClaimFirst \/ TakeBase \/ TakeSample
  \/ CountSample \/ TestFull \/ SignalTaken

-----------------------------------------------------------------------------
(* The main thread: the job loop and stop_benchmark(). *)

SamplerWaits == sampler \in {"none", "gone"} \/ (sampler = "sigwait" /\ ~tick /\ ~last)

MainAt(from, to) ==
  /\ ~Stopped
  /\ opts.sameCore => SamplerWaits
  /\ main = from /\ main' = to

(* start_sampling() sets one flag, then clears the other; without the      *)
(* profiling option it is not called.                                      *)
LoopTest ==
  /\ MainAt("loop", IF launched = Jobs THEN "stop"
                    ELSE IF opts.profiling THEN "start" ELSE "job")
  /\ UNCHANGED <<opts, sampler, flags, buffers, signals, launched, interrupted, output, crashed>>

StartSampling ==
  /\ MainAt("start", "startFirst")
  /\ active' = TRUE
  /\ UNCHANGED <<opts, sampler, alive, firstTaken, buffers, signals, launched, interrupted,
                 output, crashed>>

FirstAfterSwitch_Kept == firstTaken   \* mutant: the flag is not cleared
FirstAfterSwitch == FALSE

StartFirst ==
  /\ MainAt("startFirst", "job")
  /\ firstTaken' = FirstAfterSwitch
  /\ UNCHANGED <<opts, sampler, alive, active, buffers, signals, launched, interrupted, output,
                 crashed>>

(* benchmark_execution() returns. *)
JobReturns ==
  /\ MainAt("job", IF opts.profiling THEN "stopSampling" ELSE "count")
  /\ UNCHANGED <<opts, sampler, flags, buffers, signals, launched, interrupted, output, crashed>>

ActiveAfterStop_Kept == active   \* mutant: sampling goes on between jobs
ActiveAfterStop == FALSE

StopSampling ==
  /\ MainAt("stopSampling", "stopFirst")
  /\ active' = ActiveAfterStop
  /\ UNCHANGED <<opts, sampler, alive, firstTaken, buffers, signals, launched, interrupted,
                 output, crashed>>

StopFirst ==
  /\ MainAt("stopFirst", "count")
  /\ firstTaken' = FirstAfterSwitch
  /\ UNCHANGED <<opts, sampler, alive, active, buffers, signals, launched, interrupted, output,
                 crashed>>

CountJob ==
  /\ MainAt("count", "loop")
  /\ launched' = launched + 1
  /\ UNCHANGED <<opts, sampler, flags, buffers, signals, interrupted, output, crashed>>

(* SIGINT: exit() from wherever the loop is. *)
QuitHandler ==
  /\ main \in {"loop", "start", "startFirst", "job", "stopSampling", "stopFirst", "count"}
  /\ MainAt(main, "stop")
  /\ interrupted' = TRUE
  /\ UNCHANGED <<opts, sampler, flags, buffers, signals, launched, output, crashed>>

(* The switch stop_benchmark() reads through (unsigned * )exec_opts is the *)
(* first member of the struct, args_num; when main() has returned, its     *)
(* frame and the struct in it are gone, and the value is anything.         *)
Switch == IF interrupted THEN {opts.args > 0} ELSE BOOLEAN

ReadSwitch ==
  /\ \E enabled \in Switch : MainAt("stop", IF enabled THEN "log" ELSE "exited")
  /\ UNCHANGED <<opts, sampler, flags, buffers, signals, launched, interrupted, output, crashed>>

RowThere_Always(cell) == TRUE   \* mutant: empty cells are written too
RowThere(cell) == cell.samples > 0

(* log_samples(), one cell at a time, then the next buffer; without the profiling option the     *)
(* output file was not opened, and fprintf() gets a NULL pointer.          *)
LogNoFile ==
  /\ MainAt("log", "log")
  /\ ~opts.profiling
  /\ crashed' = TRUE
  /\ UNCHANGED <<opts, sampler, flags, buffers, signals, launched, interrupted, output>>

LogCell ==
  LET i == cursor[1]
      j == cursor[2]
      row == j <= Len(list[i]) /\ RowThere(list[i][j])
  IN  /\ opts.profiling
      /\ MainAt("log", IF row THEN "log" ELSE "next")
      /\ IF row THEN log' = Append(log, list[i][j]) /\ cursor' = <<i, j + 1>>
         ELSE UNCHANGED output
      /\ UNCHANGED <<opts, sampler, flags, buffers, signals, launched, interrupted, crashed>>

(* current->next, by now maybe another one than at the last cell. *)
NextBuffer ==
  LET i == cursor[1]
  IN  /\ MainAt("next", IF i < Len(list) THEN "log" ELSE "delete")
      /\ cursor' = <<i + 1, 1>>
      /\ UNCHANGED <<opts, sampler, flags, buffers, signals, launched, interrupted, log, crashed>>

(* teardown_perf_sampler(). Deleting a timer may or may not take a signal  *)
(* that is pending with it.                                                *)
DeleteTimer ==
  /\ MainAt("delete", "kill")
  /\ timer' = FALSE
  /\ tick' \in {tick, FALSE}
  /\ UNCHANGED <<opts, sampler, flags, buffers, last, ticks, launched, interrupted, output,
                 crashed>>

SendLastSignal ==
  /\ MainAt("kill", "clear")
  /\ last' = TRUE
  /\ UNCHANGED <<opts, sampler, flags, buffers, timer, tick, ticks, launched, interrupted,
                 output, crashed>>

ClearAlive ==
  /\ MainAt("clear", "join")
  /\ alive' = FALSE
  /\ UNCHANGED <<opts, sampler, active, firstTaken, buffers, signals, launched, interrupted,
                 output, crashed>>

(* pthread_join() returns, and the list is freed. *)
JoinSampler ==
  /\ MainAt("join", "exited")
  /\ sampler = "gone"
  /\ list' = <<>> /\ current' = 0
  /\ UNCHANGED <<opts, sampler, flags, base, counter, signals, launched, interrupted, output,
                 crashed>>

Main ==
  \/ LoopTest \/ StartSampling \/ StartFirst \/ JobReturns \/ StopSampling \/ StopFirst
  \/ CountJob \/ ReadSwitch \/ LogNoFile \/ LogCell \/ NextBuffer \/ DeleteTimer \/ SendLastSignal
  \/ ClearAlive \/ JoinSampler

Next == TimerExpires \/ Sampler \/ Main \/ QuitHandler

Spec == Init /\ [][Next]_vars

(* Both threads run; neither the timer nor the user need do anything.      *)
FairSpec == Spec /\ WF_vars(Sampler) /\ WF_vars(Main)

-----------------------------------------------------------------------------
(* Properties. *)

Sum == [base : -1..Jobs, at : -1..Jobs]
Cell == [samples : {0, 1}, sum : Sum]

(* What the variables hold; every buffer is twice as long as the one       *)
(* before it, and a cell holds one sample at the most.                     *)
TypeOK ==
  /\ opts \in Options
  /\ main \in {"loop", "start", "startFirst", "job", "stopSampling", "stopFirst", "count",
               "stop", "log", "next", "delete", "kill", "clear", "join", "exited"}
  /\ sampler \in {"none", "alive", "active", "first", "claim", "base", "sample", "count",
                  "full", "sigwait", "gone"}
  /\ {alive, active, firstTaken, timer, tick, last, interrupted, crashed} \subseteq BOOLEAN
  /\ base \in 0..Jobs /\ launched \in 0..Jobs /\ ticks \in 0..MaxTicks
  /\ \A i \in 1..Len(list) :
       /\ Len(list[i]) = IF i = 1 THEN FirstLength ELSE 2 * Len(list[i - 1])
       /\ \A j \in 1..Len(list[i]) : list[i][j] \in Cell
  /\ current \in 0..Len(list) /\ counter \in Nat
  /\ \A n \in 1..Len(log) : log[n] \in Cell

(* The number of a place when the buffers are laid end to end: each is as  *)
(* long as those before it together and the first one again.               *)
Number(i, j) == Len(list[i]) - FirstLength + j

(* A place holds a sample, which is the row of that number.                *)
Logged(i, j) ==
  /\ list[i][j].samples > 0
  /\ Number(i, j) \in 1..Len(log) /\ log[Number(i, j)] = list[i][j]

(* The sampler never writes past the end of a buffer, and the cell it      *)
(* writes to is the one behind the last sample: the list has no gap at     *)
(* which log_samples() would stop early (lines 146-152, 282-285).          *)
NextCellFree ==
  sampler \in {"base", "sample"} /\ current # 0 /\ ~Stopped =>
    /\ current = Len(list) /\ counter < Len(list[current])
    /\ \A i \in 1..current : \A j \in 1..Len(list[i]) :
         (list[i][j].samples > 0) <=> (i < current \/ j <= counter)

(* A row of the log is a finished sample: its sum is stored before its     *)
(* count says that it is there, and log_samples() reads them the other way *)
(* round. And as long as SIGINT did not interrupt a job, the n-th row is   *)
(* the sample at the n-th place of the list, so that none is missing       *)
(* before one that is there, although the sampler of another core may      *)
(* still be adding one (lines 146-152, 282-291).                           *)
LogIsPrefix ==
  /\ \A n \in 1..Len(log) : log[n].sum # NoSum
  /\ ~interrupted /\ main # "exited" =>
       \A n \in 1..Len(log) : \E i \in 1..Len(list) : \E j \in 1..Len(list[i]) :
         Number(i, j) = n /\ Logged(i, j)

(* A sample of a job, measured from a base of that same job. *)
OwnBase(cell) == cell.sum.at # 0 /\ cell.sum.base = cell.sum.at

(* On the main thread's core every sample belongs to a job and is measured *)
(* from a base of that same job, whenever the signals come                 *)
(* (mainpage.markdown:120, lines 124-147 and 266-274).                     *)
SamplesSeparated ==
  opts.sameCore =>
    \A i \in 1..Len(list) : \A j \in 1..Len(list[i]) :
      list[i][j].samples > 0 => OwnBase(list[i][j])

(* On that core, and without SIGINT, the log has all the samples: stopping *)
(* a job's sampling leaves none under way (stop_benchmark() writes the log *)
(* before it joins the sampler).                                           *)
LogComplete ==
  opts.sameCore /\ ~interrupted /\ main \in {"delete", "kill", "clear", "join"} =>
    \A i \in 1..Len(list) : \A j \in 1..Len(list[i]) :
      list[i][j].samples > 0 => Logged(i, j)

(* stop_benchmark() ensures that all the requested resources are freed     *)
(* (periodic_benchmark.c:128) and a last signal is sent so that the thread *)
(* can terminate (performance_sampler.c:247): so it gets to its end.       *)
TeardownCompletes == main = "stop" ~> main = "exited"
=============================================================================
