# RT-Bench: a TLA+ verification project

RT-Bench turns a benchmark, four C callbacks (`benchmark_init`, `benchmark_execution`,
`benchmark_log_data`, `benchmark_teardown`), into a periodic real-time task and reports one
CSV row per job. The generator (`src/generator`) is where most of the logic is: timers and signal
handlers that share a dozen static variables with the main thread, worker threads that meet at
barriers, a sampler thread that nothing synchronises, processes that agree through shared
memory on the instant to start, a wrapped `malloc` with a heap of its own, and a setup of twenty steps
that `exit()` may have to undo after any of them. Around it are Python scripts (`src/utils`) that
run benchmarks next to interfering ones. This project models each of these parts, checks them on small
instances, and proves for all parameters the safety of each: the job loop and the times it reports, the barriers and the
memory and sums of the bandwidth benchmark above them, the synchronised start, the sampler's list of buffers, its samples' bases and its log,
what a process parses, holds, frees and reports, and what the test scripts measure and search for.

## 1. Inventory

| part | source | state | operations | what is hard |
|---|---|---|---|---|
| job loop | `periodic_benchmark.c` | ten timestamps, `period_sem`, `tasks_launched`, `extra_measurement` | the loop, `deadline_handler`, `period_handler`, `quit_handler`, `stop_benchmark` | handlers interrupt the loop anywhere and write what it reads; EINTR; overruns |
| timers, signals | `signal_utils.c` | two POSIX timers, pending and masked signals | `setup_timer`, `setup_signal` | expiry while pending is lost; unnormalised `tv_nsec` |
| timestamps | `get_cpu_timestamp.c` | none | `get_rdtsc`, `get_timestamp` | either may always read 0, which is also the mark "not taken" |
| report | `logging.c` | output files | `print_timing`, `print_statistics` | which job a row is about |
| multi-threading | `multithread.c` | status, two counters, two semaphores, three mutexes, one condition | `create_bench_thread`, `bench_worker_thread_func`, `main_thread_sync_start/end`, `destroy_bench_threads` | barriers reused for every job, worker errors, SIGINT in a critical section |
| synchronised start | `synch_release.c`, `synch-helper.c` | shared memory, named and unnamed semaphore | `init_synchronised_benchmark_group`, `wait_for_synch`, `synch_on_start_handler` | several processes, late members, several signals |
| performance sampler | `performance_sampler.c` | list of buffers, two flags | sampler thread, start, stop, teardown | unsynchronised flags, join at the end |
| performance counters | `performance_counters.c` | perf file descriptors | open one after the other, read, close | a failure with some open |
| memory watcher | `memory_watcher.c` | a preallocated heap and its break | wrapped `malloc`, `free` and `mmap`, `rtbench_sbrk`, start, stop | limit, units of the break, blocks that outlive the watcher |
| command line | `main.c` | `struct execution_options` | `parse_opt`, `interpret_opt`, configuration files | rounding, overflow, options that overwrite others |
| scripts | `utils/*.py` | `params`, child processes, core sets | WSS bisection, WCET, schedulability, overhead | results that outlive their test, children that outlive it too |
| bandwidth threads | `IsolBench/bandwidth-threads.c` | `thread_stat`, a shared or dealt out buffer, `g_start`, `g_end`, `g_nread` | the four callbacks, `thread_execution` | sums over what threads wrote, stamps cut to 32 bits, sizes in an `int` |
| other kernels | `IsolBench`, `rustDemo`, `vision` | private data | the four callbacks | none of them coordinates |

How they interact: `main()` hands the options to `periodic_benchmark()`, which creates the
sampler, registers `stop_benchmark()` with `on_exit()`, joins the
group (synchronised start), starts the memory watcher, calls `benchmark_init()` (which may create
workers), arms the timers and enters the loop; the period handler reports and posts `period_sem`; a
multi-threaded benchmark's `benchmark_execution()` is `main_thread_sync_start()`, work,
`main_thread_sync_end()`; SIGINT runs `exit()` and with it `stop_benchmark()`, which joins the
workers and frees everything. The scripts know of a benchmark its command line, its exit status and
its rows, and of an interfering one its process, to which they send SIGINT.

What makes each part correct: *job loop*, each job is released once, reported once, judged by
its own deadline, and the process ends; *multi-threading*, workers work only inside a job,
nobody is left behind by an error or the teardown; *bandwidth threads*, a thread works on its own memory,
and a row is about one job; *synchronised start*, one instant for all,
nobody waits for ever; *sampler*, samples are measured from their own job's base and the teardown
returns; *one process*, it gives back what it holds and tells failure from success wherever it
ends; *command line*, what the timers get obeys what was checked; *memory watcher*, the break stays
in the mapping, blocks go back where they came from, and only the limit aborts a program; *scripts*,
interference is there when it is asked for and gone afterwards, and the search ends with the
smallest size that passes.

## 2. Modules

| module | models | extended by |
|---|---|---|
| `PeriodicTask` | abstract: idle, released, running, finished, reported | refined by `PeriodicBenchmark` |
| `PeriodicBenchmark` | the loop, timers, handlers and rows | `MCPeriodicBenchmark`, `PeriodicBenchmarkProofs` |
| `ForkJoin` | abstract: a gate the workers pass together | refined by `Multithread` |
| `Multithread` | `multithread.c` with its main thread and its workers | `MCMultithread`, `MultithreadProofs` |
| `BandwidthThreads` | `bandwidth-threads.c` on top of what `ForkJoin` promises | `MCBandwidthThreads`, `BandwidthProofs` |
| `SynchRelease` | `synch_release.c` in every process, and `synch-helper` | `MCSynchRelease`, `SynchReleaseProofs` |
| `PerfSampler` | `performance_sampler.c`, the loop that uses it and its part of `stop_benchmark()` | `MCPerfSampler`, `PerfSamplerProofs` |
| `CommandLine` | `main.c`: what each option does to the execution options, and the checks at the end | `Process` |
| `MemoryWatcher` | `memory_watcher.c`: its state, wrappers and `rtbench_sbrk` | `Process` |
| `Process` | one process from its command line to its exit; composes the two above with the setup of `periodic_benchmark()`, its jobs and `stop_benchmark()` | `MCProcess`, `ProcessInvariant` and, on top of it, `ProcessProofs` |
| `WSSSearch` | `wss_test()`: the search for one benchmark | `Experiments`, `ExperimentsProofs` |
| `Experiments` | `base.py` and the tests it drives | `MCExperiments`, `ExperimentsProofs` |

### PeriodicBenchmark

Starts where the timers have been armed (line 583) and ends when the loop is left or SIGINT
has ended the process. `Tick` is the kernel's clock: it counts both timers down and makes their
signals pending. `DeadlineHandler` and `PeriodHandler` are the two handlers; both signals are
masked while either runs, so each is one action. The main thread's actions are the pieces of the
loop a signal can separate: `LoopTest`, `WaitForPeriod`, `BeginJob`, `EndJob`, `EndStampSecs`,
`LogData`, `CountJob`, `FinalWait`. It steps only when nothing is pending, because the kernel
delivers a signal before it returns to user code; `Tick` may come between any two of its steps. A
handler that finds the main thread at a `sem_wait` on an empty semaphore may leave `eintr` behind,
and the call then returns EINTR. Each timestamp is a function of the two time sources (`Clock`),
because the code tests them separately. `PeriodHandlerBody(1)` is the signal,
`PeriodHandlerBody(0)` the call of the continuous execution model.

### Multithread

One action per critical section: `Lock` takes the mutex of the section the thread is at, the
section's own action does its work and releases. `WaitForMain` is the loop around
`pthread_cond_wait`; `SpuriousWakeup` wakes a thread out of nothing. The main thread goes through
`CreateThread`, `SpawnThread`, `RegisterThread` per worker, `PublishInit`, and per job
`AwaitReady`, `ResetReady`, `EnableJob`, `AwaitCompleted`, `ResetCompleted`, `EndJob`, then
`DisableThreads` and `JoinThreads`. A worker may report an error (`RunJob`, `FailJob`, as
`bandwidth-threads.c` does). `Interrupt` moves the main thread from wherever it is into the
teardown; a mutex it held is "lost".

### BandwidthThreads

`BenchmarkInit` takes the arguments, the cores that are online and the affinity mask, and deals the
memory, access types and iterations out; `InitFails` is any of its failures. Sizes are in KB and `Narrow` is the
conversion of a `long` of bytes to an `int`, the sum that overflows included: `HalfInt` is 2^31 bytes. A list that is not given is the list of its
default, and the last token of a list of one stands for all threads. The loop that creates the threads counts to the number of cores
online, as if they were the first ones: with other cores offline some threads are never created, and with none
no job opens (`OpenJob`). `StartWork`, `Pass` and `StopWork` are the three parts of
`thread_execution()`; `OpenJob` and `CloseJob` are the two barriers, as `ForkJoin` has them; `BeginJob`, `AddUp`
and `LogData` are the main thread's. The stamps are microseconds in an `unsigned int`
(`ClockRange`); a stamp of 0 is also "none yet" to the loop that adds up. `BenchmarkTeardown` waits for the workers, since
`stop_benchmark()` has joined them by then. What a failing barrier reports to this benchmark is in `Multithread`.

### SynchRelease

One action per access to shared memory. A process has a program counter and, on top of it, that
of its signal handler (`handler`); the process goes on when the handler is idle again.
`CountIn` of memory without a size crashes (SIGBUS). An instant is a reading of the clock and
whether adding the delay overflows the nanoseconds, which `timer_settime` refuses.

### PerfSampler

Nothing locks the flags or the list, so every access to a shared variable is an action. The
sampler's own are `TestAlive`, `TestActive`, `TestFirst`, `ClaimFirst`, `TakeBase` or
`TakeSample`, `CountSample`, `TestFull` and `SignalTaken` (the `sigwait`). The main thread goes
through the flags of `start_sampling()` and `stop_sampling()`, then `ReadSwitch`, `LogCell` and
`NextBuffer` (`log_samples()`), and `DeleteTimer`, `SendLastSignal`, `ClearAlive`, `JoinSampler`
(`teardown_perf_sampler()`). With `sameCore` the main thread steps only while the sampler waits,
as SCHED_FIFO has it; otherwise they interleave. A sample is the pair of the job its reading
belongs to and the job its base was read in. `crashed` is the use of a NULL pointer: no memory for
the next buffer, or `log_samples()` of a file that was never opened, which happens because
`stop_benchmark()` reads `args_num` where it means the profiling switch. The flags are `volatile`
and are read and written in program order; a machine that reorders the sum and the count of
a sample is not modelled.

### CommandLine

No state of its own: the operators say what one option makes of the options so far and what ends the
parsing, `ParseEnd` has the checks of `ARGP_KEY_END`, with the kernel's answer to `sched_setscheduler` and
`sched_setattr`, and `ImplicitDeadline` what `main()` adds. `Process` reads the command line with them, an option
or a field of a configuration file per step (`ParseOption`), then checks (`Parse`); `ParsingStops` is the
exit of either. Times are counted in parts of a nanosecond, so `SecondsOf` and
`NanosecondsOf` round as `lround` does, and 0.9999999999 s becomes 0 s and 10^9 ns; sizes wrap at
`SizeBound`, the number of tasks at `CountBound` (`-t -1` is the largest). A heap file named in a
configuration file is a string freed with that file, which `FileRead` marks "freed".

### MemoryWatcher

`brk`, `dlRoom` and `room` count bytes; `owner` says which allocator a block came from. The `Wrap`
operators are the wrappers' outcomes (a block, NULL, the end of the process), `RealMalloc` and
`RealFree` what libc takes behind them (a stream, `asprintf`, the sampler's buffers).
`rtbench_sbrk()` adds its offset to a pointer to `mem_watcher_address_t`; `CellSize` is that
type's size, and both the limit and the break are in its unit.

### Process

`pc` goes through the setup in the order of lines 396-583, then the jobs, then the steps of
`stop_benchmark()`; each step that may fail has a disjunct for it, taken when `MayFail` names the
call. `exit` says what ended the process, because that decides what `stop_benchmark()` finds: after
`main()` has returned, the options it reads are in a dead frame (`FrameLive`), so `StopOptions` and
`StopSampler` may read anything. `held`, `pmcs`, `fds`, `mapped`, `owner` and `names` are what the
process has of the system's resources. `Sigint` may come between any two steps: before `HandleSigint` it
kills, after it it runs `stop_benchmark()`, during it it ends the process. `PeriodExpires` is the period handler without
its row, `ExitFrom` an `exit()` called from a handler. The workers and the sampler are joined in one
step, since `Multithread` and `PerfSampler` show when that join returns; the group is what one of its members
sees, since `SynchRelease` has the others.

### WSSSearch and Experiments

`Probe` is one pass of the loop of `wss_test()`: `Outcome` is the external benchmark, which fails
below the size it needs and may fail for another reason up to `Slack` bytes above. `Experiments` has an
action per step of a script that others can see: `TestInit`, `NextTest`, `Interfere`
(`start_interfering()`), the start and the end of every run, `CheckWCET`, and `TestTeardown`. `MoveProcesses`
may move nothing, since `ps` may fail and no caller of `move_processes()` looks at its result. `procs` are
all interfering benchmarks that were ever started, `int_processes` those `params` still knows of; `Die` is
the end of one that was sent SIGINT, some time later. Python's exceptions are the state "raised", a loop
without end is "stuck".

## 3. Runs

All runs are exhaustive. TLC's bounds are constants of the modules.

| run | bounds | shows |
|---|---|---|
| `periodic` | five option sets, two jobs, 3 ticks a second, latency up to 1 tick, time stamps up to 11 | the ten properties below |
| `periodic_fraction` | period of 1.5 s | **violated** `FirstJobStarts`: line 593 tests `period_nsec` twice, no job starts |
| `multithread` | three workers, two jobs, errors, safe SIGINT | the six properties below |
| `multithread_error` | two workers | **violated** `ErrorTerminates`: the main thread waits for workers that are gone |
| `bandwidth` | twelve requests, three cores, any of them offline or masked, two jobs, 4 ticks | the four properties below |
| `synch` | three processes, two stray signals, master set up first | the three properties below |
| `synch_init_race` | two processes, started together | **violated** `SameStart`: whoever overtakes the master starts on its own clock |
| `sampler` | two jobs, four timer signals, buffers of 1 and 2 samples, all options | the five properties below |
| `sampler_join` | one job, one timer signal | **violated** `TeardownCompletes`: the last signal is taken before `sampling_alive` is cleared |
| `process` | 59 programs, every call of `Calls` may fail, SIGINT anywhere, three period ends | the six properties below |
| `process_cleanup` | one program with an argument and no profiling | **violated** `ReleasesAll`: `stop_benchmark()` takes `args_num` for the profiling switch and crashes |
| `experiments` | four cores, up to two benchmarks and two interfering ones, sizes 1 to 9 | the five properties below |

The violated properties quote the repository's own documents; PROJECT.json has the places.

**Job loop.** `OneJobPerRelease` (no second job while one is released or runs), `ReportLedger`
(rows plus the end stamp still to be reported make up exactly the finished jobs),
`AllReportedAtExit`, `ExtraOfItsJob` (no row has another job's extra columns), `JobRowComplete`
(a row has every stamp, in order), `VerdictWithinLatency` (met or missed agrees with the job's
own first deadline up to a handler's latency, however many periods it overruns),
`SkipsOnlyLaterDeadlines`, `Completes`, and `ImplementsPeriodicTask`.

**Multi-threading.** `SignalsMeanAll` (the main thread is signalled only when all workers have
counted), `NoWorkBetweenJobs`, `AllJoined`, `ErrorStopsWorkers`, `MainNotLeftWaiting` (a worker
that leaves early still counts as completed), `ImplementsForkJoin`.

**Bandwidth threads.** `OwnMemoryOnly` (a thread at work stays in memory that is allocated and, with private
buffers, in its own), `IntervalOfJob` (the interval of a row lies in its job and covers the work of every
thread) and `BytesOfJob` (the bytes are those of all iterations of the job, and the total is their sum). What they name is
what the code does next to them:

- private sizes that together reach 2 GB overflow the `int` of line 416, and the threads' regions go
  beyond the buffer that is allocated (`Fits`);
- a stamp of 0 and a clock that turns between two stamps make the interval that of other stamps (`ClockSteady`);
- a thread that was never created is still in the sums, with zeros or the stamps of an earlier job (`AllSpawned`).

**Synchronised start.** `SameStart`, `PostsCoverWaiters` (a member is late or posted for, never
between the two), `NobodyStranded`.

**Sampler.** `NextCellFree` (no sample goes past a buffer or over another one), `LogIsPrefix` (the
rows are finished samples, the n-th row the one at the n-th place of the list), `LogComplete` (stopping a job leaves no sample under way) and
`SamplesSeparated` (a sample has its own job's base). The last two hold on the main thread's core
only. On another one `start_sampling()` sets `sampling_active` before it clears `first_sample_taken`,
so a sample may come out with the base of the job before; and `LogIsPrefix` has its order only without SIGINT
during a job, because samples then go on while the log is written, and a buffer that fills between
two reads of `log_samples()` leaves a gap.

**Process.** `CleanInterrupt` (whatever step SIGINT interrupts, all that is held by then is
given back), `FailureReported` (an exit status of success means the jobs were done, or SIGINT, or
help), `ParsedConsistent` (what was checked still holds of what the timers and the watcher get,
after rounding, overflow and later options), `HeapInMapping`, `FreedByItsAllocator` and
`ExtendedOverLimit` (the program break moves under the watcher only for a block with which the limit is
exceeded; the program is ended at the `malloc()` after that, by when blocks may have been freed, so it is the
move that the property is about). The exceptions they name are what the code does:

- the first timer's id is 0, which line 177 takes for no timer, so it is never deleted;
- memory an interrupted step has just allocated (a job's block, the output file's name) is not freed;
- between the creation of the group's names and the entry of the master's pid, SIGINT leaves the
  names in `/dev/shm`, because only the master unlinks them;
- a sampler whose output file could not be opened makes `log_samples()` write to NULL;
- with arguments and no profiling, or the reverse, lines 158-161 tear down a sampler that
  was not set up, or leave the one that was (`SwitchAgrees`; the run `process_cleanup`);
- a header from `asprintf()`, libc's, reaches `dlfree()` when the heap is fixed;
- an unknown field of a configuration file is `exit(0)`, and a positive error of
  `pthread_create()` or `pthread_attr_*()` is not `< 0`: both end as a success.

`HeapInMapping` is checked with page-aligned addresses. With `-H` inside a page the mapping starts
at the page and has the heap's size from there, while the break may go the heap's size beyond the
address: the end of the heap lies past the mapping. A file, instead of an address, is mapped from its start.

**Scripts.** `InterferenceInPlace` (a row filed as measured under interference is, on the right
cores, and the others are not, but for benchmarks that are just ending), `NoneLeft`,
`SchedOwnWCET` (the schedulability test takes for each benchmark a WCET of that benchmark, after whatever tests
and failures, and a quiet one unless other tests have run next to interfering benchmarks before), `WSSBracket` and
`WSSEnds`. Known exceptions and what the model shows next to them:

- `start_interfering()` returns `None` when a start fails, which passes the callers' test for an empty list: the
  results are filed as interfered with, and nobody interferes;
- an interfering benchmark without arguments is started with the command line of the one before;
- with no core left for them the assignment of cores loops for ever ("stuck");
- an exception ("raised") skips the teardown, and the interfering benchmarks go on;
- whether the rest of the machine keeps off the tested cores is not promised: `move_processes()` may fail
  unnoticed, and the teardown after each of several tests gives all cores back;
- after tests next to interfering benchmarks, the one for schedulability may start before these have ended, since nobody waits
  for them, and when its own search for the WCETs fails it finds those of the test before it: both measured with
  interference, which is why `SchedOwnWCET` does not call these WCETs quiet;
- `schedulability.py:282-284` overwrites its -1 with 0, and `base.py:561` and `WCET.py:272` assign
  to `params["res:"]`, so a failure of theirs is not seen;
- for a size of 2 or more `wss_test()` may return the lower bound, with which the
  benchmark failed: one byte less than the "minimum wss" of its comment. `WSSBracket` says so, and
  allows up to `Slack` bytes more than needed, up to which a run may fail for another reason;
- a benchmark that fails with every limit makes the search double it for ever (`WSS.py:210-225`): `WSSEnds` is about
  benchmarks that succeed from `needed + Slack` bytes on.

### Behind the constants

What the passing runs ask of the environment are constants of the modules, and TLC shows what each is for
when a cfg changes it:

- `InterruptibleEnd = TRUE`: the period ends between lines 623 and 624, and the second end stamp
  lands on the next job, which counts as finished before it runs; `ReportLedger` fails.
- `WorkingClocks` with one source only: the missing one reads 0, which is also "not taken", so every period
  end releases a job; `OneJobPerRelease` fails.
- A deadline closer to the period's end than twice the handlers' latency (the
  assumption `Slack` of `PeriodicBenchmarkProofs`; a deadline of 2 of 3 ticks breaks it): a period's
  end that is handled late arms the deadline timer late, and the next one, handled on time, re-arms it before it
  has expired; the job's deadline stays unset, and the last deadline of the job before is reported as
  a skipped one. `SkipsOnlyLaterDeadlines` fails.
- `SafeInterrupts = FALSE`: SIGINT comes while the main thread holds the status mutex, and the
  teardown locks it again; `AllJoined` fails.
- `MasterFirst = FALSE`: the run `synch_init_race`. Even with the master first, the helper's count includes
  benchmarks still in `benchmark_init()`: one that gets to `wait_for_synch()` after the release is late
  and gives up, an outcome the properties of `synch` allow.

### Why the bounds are enough

Two jobs make the second one reuse every variable the first one set, and two more periods than
jobs come within the clock's bound, so overruns of several periods, skipped deadlines and the
wait after the last job all happen; past the bound the clock stands still while the timers go on, and
`VerdictWithinLatency` leaves such stamps out. With a third of a second per tick a deadline falls inside
a period and leaves the room that `Slack` asks for, and a latency of one tick lets the deadline and the period signal be pending together. Three workers
give a first, a last and one in between; two jobs give one reuse of the barriers. Three
processes give an unblocker, a waiter and a late one, and two stray signals on top of the
helper's let two handlers compete and a third come after the release. Four signals of the sampling
timer fill both buffers and ask for the one there is no memory for, and leave samples for both jobs.

In `BandwidthThreads` an `int` ends at 4 KB: the requests have private memory that fits and that overflows, a size that
becomes another one and one that becomes negative, lists that are too short, too long and invalid, and more threads than
cores. Three cores give masks and offline cores that leave all threads, some of them or none. The clock turns at 4 and starts at 1,
so jobs end before it turns, at the turn and after it; the second job finds the first one's stamps and bytes.

In `Process` a second has 2 nanoseconds of 4 parts, a kilobyte 4 bytes and `size_t` 64 values: periods round up, down and
to a whole second, and `-m 1G` overflows to 0. Blocks have 1 to 3 bytes and limits 2 to 9, so every
allocation is the first that does not fit in some program; the programs take each option at least once, each pair of
options that overwrite or exclude each other, each kind of heap with one thread and several. Three period ends cover a first one, one
that finds a finished job and one after the last job. Two counters fail with none and with one open. In `Experiments`, a
utilisation step of 50 % gives two steps per benchmark, two runs of a WCET one repetition, and two interfering benchmarks on two or
one possible cores their own or a shared one; sizes to 9 need up to four doublings and three halvings.

### Assumptions and fairness

*Job loop.* Weak fairness of `Tick` and of the handlers: time passes and the kernel delivers.
Strong fairness of the main thread: handlers preempt it again and again, but a job loop
whose signals leave it no time at all would not run on any machine; and a job returns.
*Multi-threading.* Strong fairness of each thread, because a mutex may be taken by another thread in
between, also by one that wakes out of nothing again and again. Spurious wakeups, errors and SIGINT need not happen.
*Bandwidth threads.* Safety only; that a job opens and closes is `Multithread`'s.
*Synchronised start.* Weak fairness of the helper and of the processes; the user need not send anything.
*Sampler.* Weak fairness of both threads; neither the timer nor the user need do anything.
*Process.* Safety only. `mallopt`, `sbrk(0)` and the translation of addresses do not fail; SIGINT
goes to the main thread; a group's other members neither remove its names nor start it.
*Scripts.* Weak fairness of the steps of the search for a working set size alone: each is a run with a period and a
deadline of one second (`-p 1 -d 1`), one that ends, and from `needed + Slack` bytes on it succeeds. An interfering benchmark dies only after SIGINT and need not
die at all. The outcome of a run is external. The output folder of the overhead test is given, and graphs are not drawn while tests run.

Runs that must pass state what they ask of the environment as constants: `WorkingClocks` both,
no signal between the end stamps (`InterruptibleEnd = FALSE`), whole seconds, SIGINT
outside of the critical sections (`SafeInterrupts`), the master first (`MasterFirst`). "Behind the
constants" has what happens without. Deadlock is checked in `periodic`, `periodic_fraction` and `synch`. It is not in
the other runs, because there the system really stops: a worker's error leaves the main thread
waiting, as does a bandwidth benchmark whose threads were not created, the sampler's process exits, crashes or hangs in its join, a process and a script come to their end, and in
`synch_init_race` a benchmark does.

## 4. Proofs

Eight modules prove, for every value of the constants:

| module | theorem | statement | assumptions |
|---|---|---|---|
| `PeriodicBenchmarkProofs` | `TypeCorrect` | `Spec => []TypeOK` | those of the module |
| | `LedgerCorrect` | `Spec => []ReportLedger` | `ProperEnvironment` |
| | `ReleaseCorrect` | `Spec => []OneJobPerRelease` | `ProperEnvironment` |
| | `ExitCorrect` | `Spec => []AllReportedAtExit` | `ProperEnvironment` |
| | `ExtraCorrect` | `Spec => []ExtraOfItsJob` | `ProperEnvironment` |
| | `RefinesPeriodicTask` | `Spec => ImplementsPeriodicTask` | `ProperEnvironment` |
| | `RowCorrect` | `Spec => []JobRowComplete` | `ProperEnvironment`, `Slack` |
| | `VerdictCorrect` | `Spec => []VerdictWithinLatency` | `ProperEnvironment`, `Slack` |
| | `SkipsCorrect` | `Spec => SkipsOnlyLaterDeadlines` | `ProperEnvironment`, `Slack` |
| `MultithreadProofs` | `TypeCorrect` | `Spec => []TypeOK` | `SafeInterrupts` |
| | `SignalsCorrect` | `Spec => []SignalsMeanAll` | `SafeInterrupts` |
| | `QuietCorrect` | `Spec => []NoWorkBetweenJobs` | `SafeInterrupts` |
| | `BarrierCorrect` | `Spec => ImplementsForkJoin` | `SafeInterrupts` |
| `BandwidthProofs` | `TypeCorrect` | `Spec => []TypeOK` | those of the module |
| | `OwnMemoryHolds` | `Spec => []OwnMemoryOnly` | those of the module |
| | `IntervalHolds` | `Spec => []IntervalOfJob` | those of the module |
| | `BytesHold` | `Spec => []BytesOfJob` | those of the module |
| `SynchReleaseProofs` | `TypeCorrect` | `Spec => []TypeOK` | `MasterFirst` |
| | `SameStartCorrect` | `Spec => []SameStart` | `MasterFirst` |
| | `PostsCorrect` | `Spec => []PostsCoverWaiters` | `MasterFirst` |
| `PerfSamplerProofs` | `NextCellCorrect` | `Spec => []NextCellFree` | those of the module |
| | `SeparatedCorrect` | `Spec => []SamplesSeparated` | those of the module |
| | `TypeCorrect` | `Spec => []TypeOK` | those of the module |
| | `LogPrefixCorrect` | `Spec => []LogIsPrefix` | those of the module |
| | `LogCompleteCorrect` | `Spec => []LogComplete` | those of the module |
| `ProcessInvariant`, `ProcessProofs` | `TypeCorrect` | `Spec => []TypeOK` | those of the module |
| | `ParsedConsistentHolds` | `Spec => []ParsedConsistent` | those of the module |
| | `FailureReportedHolds` | `Spec => []FailureReported` | those of the module |
| | `CleanInterruptHolds` | `Spec => [](AlignedHeap => CleanInterrupt)` | the heap's address is at the start of a page |
| | `FreedByItsAllocatorHolds` | `Spec => []FreedByItsAllocator` | those of the module |
| | `HeapInMappingHolds` | `Spec => [](AlignedHeap => HeapInMapping)` | `CellSize = 1`, the heap's address as above |
| | `ExtendedOverLimitHolds` | `Spec => ExtendedOverLimit` | those of the module |
| `ExperimentsProofs` | `ScriptTypeCorrect` | `Spec => []TypeOK` | those of the module |
| | `MeasuredInPlace` | `Spec => []InterferenceInPlace` | those of the module |
| | `NoneIsLeft` | `Spec => []NoneLeft` | those of the module |
| | `OwnWCETQuiet` | `Spec => []SchedOwnWCET` | those of the module |
| | `ScriptSearchCorrect` | `Spec => []WSSBracket` | those of the module |
| | `SearchCorrect` | `WSSSpec => []WSSBracket` | those of the module |

**Job loop.** `ProperEnvironment` says that both time sources work, that no signal separates the end stamps and
that periods are whole seconds. Each conjunct is needed: `periodic_fraction` and the first two points of "Behind
the constants" are what happens without it. The argument is one inductive invariant, `IInv`.
`ReportLedger` alone is not inductive: whether
the handler reports or releases depends on the stamps being set on both clocks or on neither
(`StampInv`; the exception is the step between the two end stamps), and whether a release comes
too early depends on the account of `ReleaseInv`: units of the semaphore plus successful waits
equal rows plus the first release. `OneJobPerRelease` is then arithmetic: with
the ledger, the account leaves at most one unit outside of a job and none inside. `CountInv` ties the program
counter to `tasks_to_launch` for `AllReportedAtExit`. The preservation proof has a lemma
per group of actions (`BackgroundStep`, `PeriodHandlerStep`, `WaitStep`, `JobStep`, `CountStep`);
the refinement goes through the same lemma on the handler's body (`BodyFacts`).
`ExtraInv` adds whose extra columns are there.

**Times of the report.** `Slack` is the room between a deadline and the end of its period: twice the
handlers' latency, because a period that starts late has its deadline late too, and the deadline's handler
runs late again. `TimeInv` says where every stamp lies: both halves of a stamp are equal (`UniformInv`), none is older than
the job's start (`OrderInv`), a deadline expires early enough to be handled before the period's end
(`TimerInv`), the period that is to be handled next ends where `Expiry` says and the first deadline since the start comes
`opts.deadline` after it (`AheadInv`), and where it was stamped once it was (`StampedInv`). The three properties read it
off the row that a handler writes (`RowInv`) or off a skipped deadline's step.

**Barriers.** The counters are cardinalities: `completed` plus the workers that have still to
count (`Busy`) never exceeds the number of workers, and the same holds of `ready` and those at the gate; a worker that has
not counted leaves room for itself, which is why no semaphore is posted twice. `PhaseInv` says where
every thread may be for each value of `status`, one conjunct per value. `BarrierCorrect` maps each step to one of `ForkJoin`'s or to
a stutter. Without `SafeInterrupts` a mutex can be lost and the phases mix.

**Bandwidth threads.** The properties are about the end of a job, so the invariant follows each thread through it.
`RegionInv` says where each thread's memory starts; that the regions lie in the buffer and next to each other is then a fact
about prefix sums (`Ends`, `EndsGrow`), and `Narrowed` gives the exact sum where it fits an `int`. `WorkInv` ties a thread's bytes to its
passes, `QuietInv` says when no thread works, `StampInv` that the stamps of a thread lie between the
opening and the clock as long as this does not turn, and `TotalInv` what the main thread has added up. The loop over the threads is a
recursive function; that it has a value at all, and what holds of it (`AddedSums`, `BytesAdded`, `IntervalAdded`), is
proved by counting up to the number of threads (`CountUp`, from the well-foundedness of the natural numbers).

**Synchronised start.** `MasterInv`: nothing is released, and nobody but the master is there, until the memory is set up, and
nobody sets it up again. `ReleaseInv`: the compare and swap lets one process through (`unblocker`), which sets the flag, publishes the
instant and posts, in this order, and every unit it has posted is in the semaphore or was taken.
`CountInv`: the shared count is the cardinality of the processes it has counted, and an unblocker that is done has
posted for all that were not late. Without `MasterFirst` the theorem is false: the run `synch_init_race`.

**Sampler.** `PlaceInv` and `Filled` tie the place in the list (`current`, `counter`) to the step the
sampler is at: a full buffer exists only between `CountSample` and `TestFull`, where it is replaced or
the list is given up. The main thread changes neither the list nor the place but when it frees them, and that is all its steps need.
`SeparateInv` is about one core: the main thread steps only while the sampler is in `sigwait`, so it is never between the
tests of the flags and the sample they were made for; a base that is taken is then the running job's, and the
flag is cleared before the next job's sampling begins.
For the log, `Number` gives each place of the list its number without laying the buffers end to end: since they double
(`Doubled`), a buffer is as long as all those before it together and the first one again. `RowsInv` says where `log_samples()`
is: at the cursor, with all the places before it in the log (`AtCursor`), or past an empty place. `Filled` makes an empty
place the end of the samples (`EmptyIsEnd`), and with sampling off (`Running`) at most one more comes, from
another core: should it fill its buffer, the next one stays empty (`NoMore`), so no later row is written out of order. On one core
`IdleInv` adds that none comes at all, and then the log is `Complete`. `Summed` has that a sum is stored before its
cell is counted, and that a list given up for lack of memory is full.

**Process.** One invariant, `IInv`, for a process from its command line to its end: five conjuncts of types; `Fresh`, a block is
not allocated before its step; `Whose`, which allocator may have served which block; `HeapKept`, the heap is the
mapping and its break within the limit; `RoomKept`, until the break moves libc has at least what is left of the
limit; `Counted`, jobs and the reason of an exit status; `Held`, what is held at each step and why; `Mastered`, who has to
remove the group's names; `Interrupted`, what each step of `stop_benchmark()` has left to give back; `Written`, that a time and
its two parts agree while options are read. `CleanInterrupt` is the end of the chain of `Interrupted`,
`FailureReported` is read off `Counted`. The bytes of a set of blocks are a recursive function too: it has a value, and one that does not depend
on the order of the blocks, because a smallest set without it would have a smaller one (`BytesExists`, `BytesRemove`).
Two conditions are the code's own. `munmap()` refuses an address inside a page, so with such an address the
mapping is not given back (`AlignedHeap`). And the break is in units of `mem_watcher_address_t`, one byte in three of the builds of
`optional_features.h:62-74` and two in the other, where `rtbench_sbrk()` hands out twice the mapping: `CellSize = 1`.

**Scripts.** `Owned` says that the interfering benchmarks that run are the ones `params` knows of, `Hushed` at which steps
none runs, `InPlace` that next to a measurement the whole list runs on possible cores, `Scheduled` that a script for one test runs it
once, `Unstarted` which scripts have started none yet, `OwnWCET` whose WCETs are stored and which were measured quietly, and `SearchOn` that the search a script is in satisfies
`Bounds` below. The lemma `Started` has what one `start_interfering()` leaves: all of the list on possible cores, or no list, or
a script that is stuck.

**Search.** The invariant is `Bounds`: the search is `Doubling`, no limit has
succeeded and the last one that failed is the lower bound, or `Halving`, the upper bound has
succeeded, the lower one has failed, the limit to try is their half and the last limit is one of the two. It
is needed because `WSSBracket` speaks of the end only. There the half is one of the bounds, so they
are at most one byte apart (`HalfIsBound`).

Every invariant above was a TLC invariant first, on the instances of section 3.

Where a module's `TypeOK` is a theorem for all constants (`Multithread`, `SynchRelease`, `Process`, `Experiments`),
its run leaves it out.

Only model-checked: every liveness property, which is out of the prover's reach. Every safety property that a run checks
and finds true is a theorem above.

## 5. What is not modelled

SIGINT delivered to a worker thread, and a second SIGINT's effect inside the C library; failing pthread and semaphore calls in
`multithread.c`; names in `/dev/shm` with the content of a group that was killed; elapsed time, utilisation, density and
formatting of rows, and the log file; the values of the performance counters; the translation of addresses for the debug log;
`calloc` and `realloc`, which nobody wraps; what `bandwidth-threads.c` does when a barrier fails; what argp does with words that are no options; the
measured numbers, CSV files and graphs of the scripts; the kernels and the third-party vision benchmarks, which
the harness calls through four callbacks and which share no state. The component list of PROJECT.json gives the
reason for each. Where RT-Bench reads values that the model bounds, the bound is named in the module.

## 6. Plan

1. (done) `PeriodicBenchmark` with `PeriodicTask` and its proofs: the most important behaviour.
2. (done) `Multithread` with `ForkJoin`; (done) `SynchRelease`; (done) `PerfSampler`.
3. (done) `CommandLine`, `MemoryWatcher` and `Process`: the failures of the setup and `stop_benchmark()`.
4. (done) `WSSSearch` with its proof; (done) `Experiments`.
5. (done) `SynchReleaseProofs`, `MultithreadProofs` with the refinement of `ForkJoin`,
   the times of the report, and `PerfSamplerProofs`.
6. (done) `ProcessProofs`, `ExperimentsProofs`; `BandwidthThreads` with its proofs.
7. (done) `LogIsPrefix` and `LogComplete` as statements about places in the list, and their proofs.
8. A group whose master was killed, and SIGINT taken by a worker, in `SynchRelease` and `Multithread`.
