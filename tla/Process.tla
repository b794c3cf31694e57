-------------------------------- MODULE Process --------------------------------
(***************************************************************************)
(* One benchmark process from its command line to its exit: the setup of   *)
(* periodic_benchmark(), in order, each step of which may fail; the jobs;  *)
(* and stop_benchmark(), which on_exit() has run when main() returns, when *)
(* something calls exit(), or when SIGINT does so at any of these steps.   *)
(* What a row reports is PeriodicBenchmark's subject, the threads are      *)
(* Multithread's, the sampler thread is PerfSampler's and the processes of *)
(* a group are SynchRelease's: here they are resources that must be given  *)
(* back, and memory taken from the heap under the memory watcher.          *)
(***************************************************************************)
EXTENDS CommandLine, MemoryWatcher

CONSTANTS
  Programs,     \* the programs: records [line, bench, root, joins]
  MayFail,      \* the calls that may fail
  Pmcs,         \* performance counters setup_pmcs() opens
  MaxExpiries   \* expiries of the period timer looked at

VARIABLES
  prog,       \* the program that runs
  opts,       \* exec_opts, in the frame of main()
  outcome,    \* how the parsing has ended, "parsing" before
  arg,        \* the options argp has handed over
  field,      \* the fields read of the configuration file that is next
  pc,         \* where the main thread is
  exit,       \* what started the exit: main() returning, a call of exit(),
              \*   period_handler() or quit_handler() calling it, or "again"
              \*   when exit() is called while stop_benchmark() runs
  status,     \* the exit status, once it is known
  at,         \* where the main thread was when SIGINT arrived
  hooks,      \* "onExit": stop_benchmark() is registered; "sigint": so is quit_handler()
  held,       \* what the process holds of the resources in Resources
  pmcs,       \* performance counters that are open
  created,    \* the timers in the order of their creation: the first has id 0
  armed,      \* the period timer is armed
  group,      \* how far the synchronised start's resources are set up
  master,     \* "creator": the process has created the shared memory; "master":
              \*   and has entered itself as the group's master
  names,      \* the names in /dev/shm
  mt,         \* multithread_status
  sampling,   \* sampling_active
  posts,      \* the value of period_sem
  synchDone,  \* synch_wait_done
  started,    \* a period has started (job_period_start_timestamp # 0)
  jobEnded,   \* the job of the period has ended (job_end_timestamp # 0)
  jobs,       \* tasks_launched
  expiries,   \* expiries of the period timer handled so far
  aborted,    \* the block whose allocation made the watcher exit
  before      \* the blocks that were allocated when the watcher started

progVars == <<prog, opts, outcome, arg, field>>
exitVars == <<exit, status, at, hooks>>
resVars == <<held, pmcs, created, armed>>
groupVars == <<group, master, names>>
jobVars == <<sampling, posts, synchDone, started, jobEnded, jobs, expiries>>
memVars == <<watcherVars, aborted, before>>
vars == <<progVars, pc, exitVars, resVars, groupVars, mt, jobVars, memVars>>

Resources == {"samplerFile", "perfTimer", "sampler", "initSem", "shm", "shmFd", "stdin",
              "threads", "output", "deadlineTimer", "periodTimer"}

(* The calls of the setup that MayFail may name; with "mmap" a benchmark   *)
(* calls mmap().                                                           *)
Calls == {"samplerFile", "samplerList", "timer", "pthread", "onExit", "affinity", "sigaction",
          "pmc", "semOpen", "shmOpen", "shmMap", "heap", "pagemap", "fopen", "semInit", "late",
          "mmap"}

ASSUME ProcessAssumption ==
  /\ Programs \subseteq
       [line : Seq(Options), bench : {"single", "threads"}, root : BOOLEAN, joins : BOOLEAN]
  /\ MayFail \subseteq Calls
  /\ Pmcs \in Nat \ {0} /\ MaxExpiries \in Nat
  /\ {"args", "outputPath", "groupNames", "samples", "moreSamples", "data", "header",
      "threadInfo", "fname", "file", "job"} \subseteq Blocks

SetupSteps == {"parse", "sampler", "samplerThread", "onExit", "affinity", "sigint", "pmcs",
               "names", "master", "watcher", "pagemap", "data", "header", "thread", "publish",
               "output", "fopen", "freeName", "sem", "deadline", "synch", "period"}
JobSteps == {"loop", "wait", "start", "run", "last"}
StopSteps == {"stopThreads", "stopData", "stopWatcher", "stopOptions", "stopOutput",
              "stopSampler", "stopDeadline", "stopPeriod", "stopPmcs", "stopGroup"}
Over == {"exited", "crashed", "killed"}

TypeOK ==
  /\ WatcherTypeOK
  /\ prog \in Programs
  /\ opts \in ExecutionOptions
  /\ outcome \in Outcomes \union {"parsing"}
  /\ arg \in 0 .. Len(prog.line) /\ field \in Nat
  /\ pc \in SetupSteps \union JobSteps \union StopSteps \union Over
  /\ exit \in {"none", "return", "call", "handler", "sigint", "again"}
  /\ status \in {"none", "success", "failure"}
  /\ at \in {"none"} \union SetupSteps \union JobSteps
  /\ hooks \subseteq {"onExit", "sigint"}
  /\ held \subseteq Resources
  /\ pmcs \in 0 .. Pmcs
  /\ created \in Seq({"perfTimer", "deadlineTimer", "periodTimer"}) /\ armed \in BOOLEAN
  /\ group \in {"none", "named", "mapped", "freed"}
  /\ master \in {"no", "creator", "master"} /\ names \subseteq {"sem", "shm"}
  /\ mt \in {"disabled", "initializing", "waiting_start", "enabled", "waiting_end", "err"}
  /\ {sampling, synchDone, started, jobEnded} \subseteq BOOLEAN
  /\ {posts, jobs} \subseteq Nat /\ expiries \in 0 .. MaxExpiries
  /\ aborted \in Blocks \union {"none"} /\ before \subseteq Blocks

(* joins: another process of the group has created the names.              *)
Init ==
  /\ prog \in Programs
  /\ opts = DefaultOptions /\ outcome = "parsing" /\ arg = 0 /\ field = 0
  /\ pc = "parse"
  /\ exit = "none" /\ status = "none" /\ at = "none" /\ hooks = {}
  /\ held = {"stdin"} /\ pmcs = 0 /\ created = <<>> /\ armed = FALSE
  /\ group = "none" /\ master = "no"
  /\ names = IF prog.joins THEN {"sem", "shm"} ELSE {}
  /\ mt = "disabled"
  /\ sampling = FALSE /\ posts = 0 /\ synchDone = FALSE
  /\ started = FALSE /\ jobEnded = FALSE /\ jobs = 0 /\ expiries = 0
  /\ WatcherInit /\ aborted = "none" /\ before = {}

-----------------------------------------------------------------------------
(* Leaving                                                                 *)

Profiling == PerfSupport /\ opts.memory_profiling_enable # 0
Continuous == opts.period_sec = 0 /\ opts.period_nsec = 0
Periodic == opts.period_sec > 0 \/ opts.period_nsec > 0
Threads == prog.bench = "threads"
Fails(call) == call \in MayFail

FirstStop == IF "onExit" \in hooks THEN "stopThreads" ELSE "exited"

(* periodic_benchmark() returns res and main() turns it into a status:     *)
(* only a negative res is a failure.                                       *)
ReturnWith_Any(res) ==  \* mutant
  /\ status' = "success" /\ exit' = "return"
  /\ pc' = FirstStop
  /\ UNCHANGED <<at, hooks>>
ReturnWith(res) ==
  /\ status' = (IF res < 0 THEN "failure" ELSE "success")
  /\ exit' = "return"
  /\ pc' = FirstStop
  /\ UNCHANGED <<at, hooks>>

(* exit(-1) and exit(EXIT_FAILURE) outside a handler.                      *)
CallExit ==
  /\ status' = "failure" /\ exit' = "call"
  /\ pc' = FirstStop
  /\ UNCHANGED <<at, hooks>>

Goto(step) == pc' = step /\ UNCHANGED exitVars

Crash == pc' = "crashed" /\ UNCHANGED exitVars

(* The frame of main(), with the options, is gone once main() has          *)
(* returned.                                                               *)
FrameLive == exit # "return"

-----------------------------------------------------------------------------
(* Timers                                                                  *)

(* timer_settime() wants the nanoseconds below a second and no negative    *)
(* time.                                                                   *)
ValidTime(sec, nsec) == sec >= 0 /\ nsec \in 0 .. NSec - 1

(* setup_timer(): the timer is created and then armed.  Neither the first  *)
(* expiry of a period timer, the current time plus the period, nor the one *)
(* of a group, plus its delay, carries its nanoseconds: a sum that passes  *)
(* a second is refused.                                                    *)
TimerSet(timer, sec, nsec) ==
  /\ ValidTime(sec, nsec)
  /\ created' = Append(created, timer)
  /\ held' = held \union {timer}

TimerFails(timer, sec, nsec, absolute) ==
  \/ Fails("timer") /\ UNCHANGED <<created, held>>
  \/ /\ ~ ValidTime(sec, nsec) \/ (absolute /\ (nsec > 0 \/ opts.synch_start))
     /\ created' = Append(created, timer)
     /\ held' = held \union {timer}

(* The timer_t of the process's first timer is 0, which stop_benchmark()   *)
(* takes for none.                                                         *)
Deleted(timer) ==
  IF timer \in held /\ created[1] # timer THEN held \ {timer} ELSE held

-----------------------------------------------------------------------------
(* Setup                                                                   *)

(* argp_error and argp_failure exit with a failure, the help text and an   *)
(* unknown field with success.                                             *)
ParsingStops(how) ==
  /\ outcome' = how
  /\ pc' = "exited" /\ exit' = "call"
  /\ status' = IF how \in {"usage", "failure"} THEN "failure" ELSE "success"
  /\ UNCHANGED <<opts, owner, at, hooks>>

(* argp_parse(): the next option, or the next field of its file.  The      *)
(* benchmark's arguments and the output path are copied.                   *)
ParseOption ==
  /\ pc = "parse" /\ arg < Len(prog.line)
  /\ LET a == prog.line[arg + 1]
         within == IsFile(a) /\ field < Len(a.fields)
         now == [o |-> opts, exit |-> "go"]
         p == IF within THEN ParseField(now, a.fields[field + 1]) ELSE ParseOpt(now, a)
     IN  /\ arg' = (IF within THEN arg ELSE arg + 1)
         /\ field' = (IF within THEN field + 1 ELSE 0)
         /\ IF p.exit # "go" THEN ParsingStops(p.exit)
            ELSE /\ opts' = p.o
                 /\ owner' = [b \in Blocks |->
                      IF (b = "args" /\ p.o.args_num > 0) \/ (b = "outputPath" /\ p.o.output_path)
                      THEN "libc" ELSE owner[b]]
                 /\ UNCHANGED <<outcome, pc, exitVars>>
  /\ UNCHANGED <<prog, resVars, groupVars, mt, jobVars, config, brk, room, extended, dlRoom,
                 misfreed, aborted, before>>

(* ARGP_KEY_END and main() up to periodic_benchmark().                     *)
Parse ==
  /\ pc = "parse" /\ arg = Len(prog.line)
  /\ LET p == ParseEnd([o |-> opts, exit |-> "go"], prog.root) IN
     IF p.exit # "go" THEN ParsingStops(p.exit)
     ELSE /\ opts' = ImplicitDeadline(p.o) /\ outcome' = "go"
          /\ Goto("sampler") /\ UNCHANGED owner
  /\ UNCHANGED <<prog, arg, field, resVars, groupVars, mt, jobVars, config, brk, room, extended,
                 dlRoom, misfreed, aborted, before>>

(* The sampler's output file; that it could not be opened is not looked    *)
(* at.                                                                     *)
OpenSamplerFile ==
  /\ pc = "sampler"
  /\ IF Profiling
     THEN /\ \/ held' = held \union {"samplerFile"}
             \/ Fails("samplerFile") /\ UNCHANGED held
          /\ Goto("samplerThread")
     ELSE Goto("onExit") /\ UNCHANGED held
  /\ UNCHANGED <<progVars, pmcs, created, armed, groupVars, mt, jobVars, memVars>>

(* setup_perf_sampler(): a bucket of 0 divides by 0, errors of the pthread *)
(* calls are positive.                                                     *)
SetupPerfSampler ==
  LET bucket == opts.memory_profiling_time_bucket IN
  /\ pc = "samplerThread"
  /\ \/ bucket = 0 /\ Crash /\ UNCHANGED <<held, created, watcherVars>>
     \/ Fails("samplerList") /\ ReturnWith(-1) /\ UNCHANGED <<held, created, watcherVars>>
     \/ bucket > 0 /\ RealMalloc("samples") /\ TimerFails("perfTimer", 0, bucket, FALSE)
          /\ ReturnWith(-1)
     \/ bucket > 0 /\ RealMalloc("samples") /\ TimerSet("perfTimer", 0, bucket)
          /\ Fails("pthread") /\ ReturnWith(1)
     \/ /\ bucket > 0 /\ RealMalloc("samples") /\ ValidTime(0, bucket)
        /\ created' = Append(created, "perfTimer")
        /\ held' = held \union {"perfTimer", "sampler"}
        /\ Goto("onExit")
  /\ UNCHANGED <<progVars, pmcs, armed, groupVars, mt, jobVars, aborted, before>>

RegisterOnExit ==
  /\ pc = "onExit"
  /\ \/ hooks' = hooks \union {"onExit"} /\ pc' = "affinity" /\ UNCHANGED <<exit, status, at>>
     \/ Fails("onExit") /\ ReturnWith(-1)
  /\ UNCHANGED <<progVars, resVars, groupVars, mt, jobVars, memVars>>

SetAffinity ==
  /\ pc = "affinity"
  /\ \/ Goto("sigint")
     \/ opts.core_affinity # {} /\ Fails("affinity") /\ ReturnWith(-1)
  /\ UNCHANGED <<progVars, resVars, groupVars, mt, jobVars, memVars>>

(* setup_signal(SIGINT): from here on SIGINT runs quit_handler().          *)
HandleSigint ==
  /\ pc = "sigint"
  /\ \/ /\ hooks' = hooks \union {"sigint"}
        /\ pc' = (IF PerfSupport THEN "pmcs" ELSE "names")
        /\ UNCHANGED <<exit, status, at>>
     \/ Fails("sigaction") /\ ReturnWith(-1)
  /\ UNCHANGED <<progVars, resVars, groupVars, mt, jobVars, memVars>>

(* setup_pmcs() opens the counters one after the other; the first that     *)
(* cannot be opened ends it with the others open.                          *)
SetupPmcs ==
  /\ pc = "pmcs"
  /\ \/ pmcs' = pmcs + 1 /\ Goto(IF pmcs + 1 = Pmcs THEN "names" ELSE "pmcs")
     \/ Fails("pmc") /\ ReturnWith(-1) /\ UNCHANGED pmcs
  /\ UNCHANGED <<progVars, held, created, armed, groupVars, mt, jobVars, memVars>>

-----------------------------------------------------------------------------
(* The synchronised start's resources                                      *)

(* deallocate_synch_resources(): what the process has of them, and, for    *)
(* the master, the names.  Without a mapping the descriptor it closes is   *)
(* still 0.  A second call would free the names' strings again.            *)
Deallocate_NoUnlink ==  \* mutant
  /\ held' = held \ (IF group = "mapped" THEN {"initSem", "shm", "shmFd"} ELSE {"stdin"})
  /\ IF group = "none" THEN UNCHANGED <<group, watcherVars>>
     ELSE group' = "freed" /\ WrapFree({"groupNames"})
  /\ UNCHANGED <<master, names>>
Deallocate ==
  /\ held' = held \ (IF group = "mapped" THEN {"initSem", "shm", "shmFd"} ELSE {"stdin"})
  /\ names' = IF master = "master" THEN {} ELSE names
  /\ IF group = "none" THEN UNCHANGED <<group, watcherVars>>
     ELSE group' = "freed" /\ WrapFree({"groupNames"})
  /\ UNCHANGED master

(* init_synchronised_benchmark_group() up to the mapping.  When the shared *)
(* memory cannot be opened the semaphore's name stays; when it cannot be   *)
(* mapped the deallocation reads through MAP_FAILED.                       *)
CreateNames ==
  /\ pc = "names"
  /\ \/ ~ opts.synch_start /\ Goto("watcher") /\ UNCHANGED <<held, groupVars, watcherVars>>
     \/ /\ opts.synch_start /\ Fails("semOpen")
        /\ group' = "named" /\ WrapMallocOk("groupNames", FALSE)
        /\ ReturnWith(-1)
        /\ UNCHANGED <<held, master, names>>
     \/ /\ opts.synch_start /\ Fails("shmOpen")
        /\ group' = "freed" /\ names' = names \union {"sem"}
        /\ ReturnWith(-1)
        /\ UNCHANGED <<held, master, watcherVars>>
     \/ /\ opts.synch_start
        /\ group' = "mapped" /\ names' = {"sem", "shm"}
        /\ master' = IF "shm" \in names THEN "no" ELSE "creator"
        /\ held' = held \union {"initSem", "shm", "shmFd"}
        /\ WrapMallocOk("groupNames", FALSE)
        /\ (Goto("master") \/ (Fails("shmMap") /\ Crash))
  /\ UNCHANGED <<progVars, pmcs, created, armed, mt, jobVars, aborted, before>>

(* The rest of it: the creator fills in the shared memory and enters its   *)
(* pid.                                                                    *)
BecomeMaster ==
  /\ pc = "master"
  /\ \/ /\ master' = IF master = "creator" THEN "master" ELSE master
        /\ Goto("watcher")
        /\ UNCHANGED <<held, group, names, watcherVars>>
     \/ /\ Fails("sigaction")
        /\ Deallocate
        /\ ReturnWith(-1)
  /\ UNCHANGED <<progVars, pmcs, created, armed, mt, jobVars, aborted, before>>

-----------------------------------------------------------------------------
(* The memory watcher and the benchmark's own setup                        *)

(* multithread_init(), then start_memory_watcher() when there is a limit.  *)
(* A file name that was freed with the configuration file may still read   *)
(* as it was, or name nothing.                                             *)
StartWatcher ==
  LET o == opts IN
  /\ pc = "watcher"
  /\ \/ o.heap_size = 0 /\ Goto("data") /\ UNCHANGED <<watcherVars, before>>
     \/ /\ o.heap_size > 0
        /\ IF o.heap_file_path = "none" THEN StartEnabled(o.heap_size)
           ELSE StartFixed(o.heap_size, o.heap_address,
                           IF o.heap_file_path = "devmem" THEN "fixed" ELSE "file")
        /\ before' = {b \in Blocks : owner[b] # "none"}
        /\ Goto("pagemap")
     \/ /\ o.heap_size > 0 /\ (Fails("heap") \/ o.heap_file_path = "freed")
        /\ StartFails /\ UNCHANGED before
        /\ CallExit
  /\ UNCHANGED <<progVars, resVars, groupVars, mt, jobVars, aborted>>

OpenPagemap ==
  /\ pc = "pagemap"
  /\ IF opts.verbosity < LOG_LEVEL_DEBUG THEN Goto("data") /\ UNCHANGED fds
     ELSE \/ Goto("data") /\ fds' = fds \union {"pagemap"}
          \/ Fails("pagemap") /\ CallExit /\ UNCHANGED fds
  /\ UNCHANGED <<progVars, resVars, groupVars, mt, jobVars, watcher, heap_size, mapped, shift,
                 memory, aborted, before>>

(* An allocation by the wrapped malloc() after which the main thread goes  *)
(* to one place or another, or exits.                                      *)
Allocate(b, threaded, Found, Missing) ==
  \/ WrapMallocOk(b, threaded) /\ Found /\ UNCHANGED aborted
  \/ WrapMallocNull(b, threaded) /\ Missing /\ UNCHANGED aborted
  \/ WrapMallocAborts(b, threaded) /\ CallExit /\ aborted' = b

(* benchmark_init(): the benchmark's data, but it may ask mmap() for it;   *)
InitData ==
  /\ pc = "data"
  /\ \/ Allocate("data", FALSE, Goto(IF Threads THEN "header" ELSE "publish"), ReturnWith(-1))
     \/ Fails("mmap") /\ WrapMmapAborts /\ CallExit /\ UNCHANGED aborted
  /\ UNCHANGED <<progVars, resVars, groupVars, mt, jobVars, before>>

(* for threads the columns' header, which asprintf() takes from libc,      *)
InitHeader ==
  /\ pc = "header"
  /\ RealMalloc("header") /\ Goto("thread")
  /\ UNCHANGED <<progVars, resVars, groupVars, mt, jobVars, aborted, before>>

(* and the threads with their records: create_bench_thread().              *)
InitThread ==
  /\ pc = "thread"
  /\ Allocate("threadInfo", FALSE, Goto("publish"), ReturnWith(-1))
  /\ mt' = IF exit' = "return" THEN "err" ELSE "initializing"
  /\ held' = IF pc' = "publish" THEN held \union {"threads"} ELSE held
  /\ UNCHANGED <<progVars, pmcs, created, armed, groupVars, jobVars, before>>

Publish ==
  /\ pc = "publish"
  /\ mt' = IF mt = "initializing" THEN "waiting_start" ELSE mt
  /\ Goto(IF opts.verbosity = LOG_LEVEL_FILE THEN "output" ELSE "sem")
  /\ UNCHANGED <<progVars, resVars, groupVars, jobVars, memVars>>

(* open_output_file(): the name, which is not looked at for NULL, the      *)
(* stream, which is libc's, and the name's release.                        *)
NameOutput ==
  /\ pc = "output"
  /\ Allocate("fname", FALSE, Goto("fopen"), Crash)
  /\ UNCHANGED <<progVars, resVars, groupVars, mt, jobVars, before>>

OpenOutput ==
  /\ pc = "fopen"
  /\ \/ RealMalloc("file") /\ held' = held \union {"output"}
     \/ Fails("fopen") /\ UNCHANGED <<watcherVars, held>>
  /\ Goto("freeName")
  /\ UNCHANGED <<progVars, pmcs, created, armed, groupVars, mt, jobVars, aborted, before>>

FreeName ==
  /\ pc = "freeName"
  /\ WrapFree({"fname"})
  /\ IF "output" \in held THEN Goto("sem") ELSE ReturnWith(-1)
  /\ UNCHANGED <<progVars, resVars, groupVars, mt, jobVars, aborted, before>>

-----------------------------------------------------------------------------
(* Timers of the process                                                   *)

(* sem_init() and the handlers of the two signals.                         *)
InitSemaphore ==
  /\ pc = "sem"
  /\ \/ ~ (Periodic \/ opts.synch_start) /\ Goto("loop")
     \/ (Periodic \/ opts.synch_start) /\ Goto("deadline")
     \/ (Periodic \/ opts.synch_start) /\ (Fails("semInit") \/ Fails("sigaction"))
          /\ ReturnWith(-1)
  /\ UNCHANGED <<progVars, resVars, groupVars, mt, jobVars, memVars>>

OwnDeadline == opts.parsed_deadline # opts.parsed_period

DeadlineTimer ==
  LET next == IF opts.synch_start THEN "synch" ELSE "period" IN
  /\ pc = "deadline"
  /\ \/ ~ OwnDeadline /\ Goto(next) /\ UNCHANGED <<held, created>>
     \/ OwnDeadline /\ TimerSet("deadlineTimer", 0, 0) /\ Goto(next)
     \/ OwnDeadline /\ Fails("timer") /\ ReturnWith(-1) /\ UNCHANGED <<held, created>>
  /\ UNCHANGED <<progVars, pmcs, armed, groupVars, mt, jobVars, memVars>>

(* wait_for_synch(): released, or late.                                    *)
WaitForSynch ==
  /\ pc = "synch"
  /\ (Goto("period") \/ (Fails("late") /\ ReturnWith(-1)))
  /\ UNCHANGED <<progVars, resVars, groupVars, mt, jobVars, memVars>>

PeriodTimer ==
  /\ pc = "period"
  /\ \/ /\ TimerSet("periodTimer", opts.period_sec, opts.period_nsec)
        /\ armed' = TRUE /\ Goto("loop")
     \/ /\ TimerFails("periodTimer", opts.period_sec, opts.period_nsec, TRUE)
        /\ ReturnWith(-1) /\ UNCHANGED armed
  /\ UNCHANGED <<progVars, pmcs, groupVars, mt, jobVars, memVars>>

-----------------------------------------------------------------------------
(* The jobs                                                                *)

(* The head of the loop; with no tasks to launch it does not end.          *)
Loop ==
  /\ pc = "loop"
  /\ IF jobs < opts.tasks_to_launch \/ opts.tasks_to_launch = 0
     THEN Goto(IF Periodic \/ (opts.synch_start /\ ~ synchDone) THEN "wait" ELSE "start")
     ELSE IF Periodic THEN Goto("last") ELSE ReturnWith(0)
  /\ UNCHANGED <<progVars, resVars, groupVars, mt, jobVars, memVars>>

(* sem_wait(); with nanoseconds in the period it waits again.              *)
WaitPeriod ==
  /\ pc = "wait" /\ posts > 0
  /\ posts' = posts - 1 /\ synchDone' = TRUE
  /\ Goto(IF opts.period_nsec > 0 THEN "wait" ELSE "start")
  /\ UNCHANGED <<progVars, resVars, groupVars, mt, sampling, started, jobEnded, jobs, expiries,
                 memVars>>

(* The job begins and takes its memory, where threads run it from threads  *)
(* that run a task.                                                        *)
StartJob ==
  /\ pc = "start"
  /\ started' = TRUE /\ sampling' = Profiling
  /\ mt' = IF Threads THEN "enabled" ELSE mt
  /\ Allocate("job", Threads, Goto("run"), Goto("run"))
  /\ UNCHANGED <<progVars, resVars, groupVars, posts, synchDone, jobEnded, jobs, expiries,
                 before>>

(* The job ends; in the continuous execution model period_handler(-1) has  *)
(* the next begin.                                                         *)
EndJob ==
  /\ pc = "run"
  /\ WrapFree({"job"})
  /\ sampling' = FALSE /\ jobs' = jobs + 1 /\ jobEnded' = ~ Continuous
  /\ mt' = IF Threads THEN "waiting_end" ELSE mt
  /\ Goto("loop")
  /\ UNCHANGED <<progVars, resVars, groupVars, posts, synchDone, started, expiries, aborted,
                 before>>

LastPeriod ==
  /\ pc = "last" /\ posts > 0
  /\ posts' = posts - 1
  /\ ReturnWith(0)
  /\ UNCHANGED <<progVars, resVars, groupVars, mt, sampling, synchDone, started, jobEnded, jobs,
                 expiries, memVars>>

(* sampling() fills its buffer and takes another behind the wrapper.       *)
AddSampleBuffer ==
  /\ "sampler" \in held /\ sampling /\ pc \notin Over
  /\ owner["samples"] = "libc" /\ owner["moreSamples"] = "none"
  /\ RealMalloc("moreSamples")
  /\ UNCHANGED <<progVars, pc, exitVars, resVars, groupVars, mt, jobVars, aborted, before>>

-----------------------------------------------------------------------------
(* Signals                                                                 *)

(* exit() called by a handler: within stop_benchmark() it only ends the    *)
(* process, as no other function is registered.                            *)
ExitFrom(handler, how) ==
  /\ status' = how
  /\ IF exit = "none" THEN exit' = handler /\ pc' = FirstStop
     ELSE exit' = "again" /\ pc' = "exited"
  /\ UNCHANGED hooks

(* period_handler(), but for the row: it rearms the deadline timer, which  *)
(* may be gone or have been given a time that is refused, and starts the   *)
(* next period.  The signal is masked while a handler exits.               *)
PeriodExpires ==
  /\ armed /\ "periodTimer" \in held /\ pc \notin Over /\ exit \in {"none", "return", "call"}
  /\ expiries < MaxExpiries /\ (Continuous => expiries = 0)
  /\ expiries' = expiries + 1
  /\ IF OwnDeadline /\ ("deadlineTimer" \notin held \/
                        ~ ValidTime(opts.deadline_sec, opts.deadline_nsec))
     THEN ExitFrom("handler", "failure") /\ UNCHANGED <<at, posts, started, jobEnded>>
     ELSE /\ UNCHANGED <<pc, exitVars>>
          /\ IF jobEnded \/ ~ started
             THEN posts' = posts + 1 /\ started' = TRUE /\ jobEnded' = FALSE
             ELSE UNCHANGED <<posts, started, jobEnded>>
  /\ UNCHANGED <<progVars, resVars, groupVars, mt, sampling, synchDone, jobs, memVars>>

(* quit_handler(); before it is installed, and by its own mask, SIGINT     *)
(* ends the process or waits.                                              *)
Sigint ==
  /\ pc \notin Over /\ exit # "sigint"
  /\ IF "sigint" \in hooks
     THEN /\ ExitFrom("sigint", "success")
          /\ at' = IF exit = "none" THEN pc ELSE at
     ELSE pc' = "killed" /\ UNCHANGED exitVars
  /\ UNCHANGED <<progVars, resVars, groupVars, mt, jobVars, memVars>>

-----------------------------------------------------------------------------
(* stop_benchmark(), in its order                                          *)

StopStep(step, next) == pc = step /\ Goto(next)

(* destroy_bench_threads()                                                 *)
StopThreads ==
  /\ StopStep("stopThreads", "stopData")
  /\ IF "threads" \in held
     THEN /\ WrapFree({"threadInfo"})
          /\ held' = held \ {"threads"} /\ mt' = "disabled"
     ELSE UNCHANGED <<watcherVars, held, mt>>
  /\ UNCHANGED <<progVars, pmcs, created, armed, groupVars, jobVars, aborted, before>>

(* benchmark_teardown() frees what benchmark_init() has allocated.         *)
StopData ==
  /\ StopStep("stopData", "stopWatcher")
  /\ WrapFree({"data", "header"})
  /\ UNCHANGED <<progVars, resVars, groupVars, mt, jobVars, aborted, before>>

StopWatcher ==
  /\ StopStep("stopWatcher", "stopOptions")
  /\ StopMemoryWatcher
  /\ UNCHANGED <<progVars, resVars, groupVars, mt, jobVars, aborted, before>>

(* The output path is read through exec_opts: what is left of main()'s     *)
(* frame may hold it, NULL or anything else.                               *)
StopOptions ==
  /\ \/ StopStep("stopOptions", "stopOutput") /\ WrapFree({"args", "outputPath"})
     \/ ~ FrameLive /\ StopStep("stopOptions", "stopOutput") /\ WrapFree({"args"})
     \/ ~ FrameLive /\ pc = "stopOptions" /\ Crash /\ UNCHANGED watcherVars
  /\ UNCHANGED <<progVars, resVars, groupVars, mt, jobVars, aborted, before>>

StopOutput ==
  /\ StopStep("stopOutput", "stopSampler")
  /\ IF "output" \in held THEN RealFree("file") ELSE UNCHANGED watcherVars
  /\ held' = held \ {"output"}
  /\ UNCHANGED <<progVars, pmcs, created, armed, groupVars, mt, jobVars, aborted, before>>

(* The switch is the first member of the options, which is args_num; with  *)
(* it on and no file, log_samples() writes to NULL.                        *)
Switches == IF FrameLive THEN {opts.args_num # 0} ELSE BOOLEAN

StopSampler ==
  /\ pc = "stopSampler"
  /\ \E switch \in IF PerfSupport THEN Switches ELSE {FALSE} :
       \/ ~ switch /\ Goto("stopDeadline") /\ UNCHANGED <<held, watcherVars>>
       \/ switch /\ "samplerFile" \notin held /\ Crash /\ UNCHANGED <<held, watcherVars>>
       \/ /\ switch /\ "samplerFile" \in held
          /\ WrapFree({"samples", "moreSamples"})
          /\ held' = held \ {"perfTimer", "sampler", "samplerFile"}
          /\ Goto("stopDeadline")
  /\ UNCHANGED <<progVars, pmcs, created, armed, groupVars, mt, jobVars, aborted, before>>

StopDeadline ==
  /\ StopStep("stopDeadline", "stopPeriod")
  /\ held' = Deleted("deadlineTimer")
  /\ UNCHANGED <<progVars, pmcs, created, armed, groupVars, mt, jobVars, memVars>>

StopPeriod ==
  /\ StopStep("stopPeriod", "stopPmcs")
  /\ held' = Deleted("periodTimer")
  /\ UNCHANGED <<progVars, pmcs, created, armed, groupVars, mt, jobVars, memVars>>

(* teardown_pmcs() closes every counter that was opened.                   *)
StopPmcs ==
  /\ StopStep("stopPmcs", "stopGroup")
  /\ pmcs' = 0
  /\ UNCHANGED <<progVars, held, created, armed, groupVars, mt, jobVars, memVars>>

StopGroup ==
  /\ pc = "stopGroup"
  /\ IF group = "freed" THEN Crash /\ UNCHANGED <<held, group, master, names, watcherVars>>
     ELSE Deallocate /\ Goto("exited")
  /\ UNCHANGED <<progVars, pmcs, created, armed, mt, jobVars, aborted, before>>

-----------------------------------------------------------------------------
Setup ==
  \/ ParseOption \/ Parse \/ OpenSamplerFile \/ SetupPerfSampler \/ RegisterOnExit \/ SetAffinity
  \/ HandleSigint \/ SetupPmcs \/ CreateNames \/ BecomeMaster \/ StartWatcher \/ OpenPagemap
  \/ InitData \/ InitHeader \/ InitThread \/ Publish \/ NameOutput \/ OpenOutput \/ FreeName
  \/ InitSemaphore \/ DeadlineTimer \/ WaitForSynch \/ PeriodTimer

Jobs == Loop \/ WaitPeriod \/ StartJob \/ EndJob \/ LastPeriod \/ AddSampleBuffer

StopBenchmark ==
  \/ StopThreads \/ StopData \/ StopWatcher \/ StopOptions \/ StopOutput \/ StopSampler
  \/ StopDeadline \/ StopPeriod \/ StopPmcs \/ StopGroup

Next == Setup \/ Jobs \/ PeriodExpires \/ Sigint \/ StopBenchmark

Spec == Init /\ [][Next]_vars

-----------------------------------------------------------------------------
(* Properties                                                              *)

(* What the checks of ARGP_KEY_END (main.c:518-538) leave consistent is so *)
(* in the options the program runs with, after rounding, after a later     *)
(* option has overwritten an earlier one, and after main() (main.c:711)    *)
(* has filled in the deadline: a deadline is not longer than the period in *)
(* the seconds and nanoseconds the timers get, a heap with a location has  *)
(* a limit, an address goes with /dev/mem, and one policy is asked for.    *)
ParsedConsistent ==
  outcome = "go" =>
  /\ opts.deadline_sec * NSec + opts.deadline_nsec <= opts.period_sec * NSec + opts.period_nsec
  /\ opts.heap_file_path # "none" => opts.heap_size > 0
  /\ opts.heap_address # 0 => opts.heap_file_path = "devmem"
  /\ opts.prio = NoPrio \/ opts.period = 0

(* The options that make the sampler be set up are those that make it be   *)
(* torn down (periodic_benchmark.c:158 reads args_num for the latter).     *)
SwitchAgrees == PerfSupport => (Profiling <=> opts.args_num > 0)

Clean ==
  /\ pc = "exited"
  /\ held \subseteq {"stdin"} \union (IF created = <<>> THEN {} ELSE {created[1]})
  /\ pmcs = 0 /\ watcher = "disabled" /\ fds = {} /\ mapped = 0
  /\ {b \in Blocks : owner[b] # "none"} \subseteq {"job", "fname"}
  /\ ~ prog.joins => names = {}

(* SIGINT "causes the program to terminate in a clean way"                 *)
(* (periodic_benchmark.c:210): whatever the step of the setup or of a job  *)
(* it interrupts, what the process holds by then is given back, up to the  *)
(* timer with id 0, the memory of the interrupted step and, between the    *)
(* creation of the group's names and its master's pid, those names.  A     *)
(* sampler without its file crashes (periodic_benchmark.c:160).            *)
CleanInterrupt ==
  (/\ pc \in Over /\ exit = "sigint" /\ at # "master" /\ SwitchAgrees
   /\ ~ (Profiling /\ pc = "crashed" /\ "samplerFile" \notin held)) => Clean

(* "Will ensure that all the requested resourced are freed, the memory     *)
(* watcher is stopped, and the output file is flushed and closed"          *)
(* (periodic_benchmark.c:128): stop_benchmark() does so when SIGINT runs   *)
(* it during a job.                                                        *)
ReleasesAll == (pc \in Over /\ exit = "sigint" /\ at \in JobSteps) => Clean

(* A process reports success (main.c:747) only when its jobs are done, it  *)
(* was interrupted, or asked for help; but for a field its configuration   *)
(* file may not name (main.c:217) and a sampler thread that could not be   *)
(* created (performance_sampler.c:236).                                    *)
FailureReported ==
  (pc = "exited" /\ status = "success") =>
    \/ exit \in {"sigint", "again"}
    \/ jobs = opts.tasks_to_launch /\ jobs > 0
    \/ outcome \in {"help", "unknown"}
    \/ Profiling /\ "sampler" \notin held /\ "onExit" \notin hooks

(* The program break moves under the watcher, for which the next malloc()  *)
(* ends the program (memory_watcher.c:376), only when the blocks taken     *)
(* since it started, with the one that is asked for, exceed the limit of   *)
(* -m.                                                                     *)
Allocated == {b \in Blocks : owner[b] # "none"}
Taken == Allocated \ before
ExtendedOverLimit ==
  [][extended' /\ ~ extended =>
       heap_size' < Bytes[(Taken' \union {aborted'}) \intersect Blocks]]_vars
=============================================================================
