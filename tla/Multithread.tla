----------------------------- MODULE Multithread ----------------------------
(***************************************************************************)
(* The synchronisation of a multi-threaded benchmark (multithread.c): the  *)
(* main thread creates the workers, opens and closes one job after another *)
(* and finally stops and joins them; a worker may report an error, and     *)
(* SIGINT may send the main thread into exit() and stop_benchmark().       *)
(*                                                                         *)
(* Every access to shared state is a critical section of one of three      *)
(* mutexes. A thread enters its section with Lock and leaves it with the   *)
(* action that does the section's work, so that SIGINT and the other       *)
(* threads can come in between. A sem_wait that returns EINTR is repeated  *)
(* (lines 379-381, 419-421) and leaves no trace.                           *)
(***************************************************************************)
EXTENDS Integers, FiniteSets

CONSTANTS
  Workers,         \* the threads benchmark_init() creates
  Jobs,            \* tasks_to_launch
  MayFail,         \* may a thread function set MULTITHREAD_ERR?
  SafeInterrupts   \* does SIGINT spare the main thread's critical sections?

ASSUME MultithreadAssumption ==
  /\ IsFiniteSet(Workers) /\ Workers # {}
  /\ Jobs \in Nat \ {0}
  /\ MayFail \in BOOLEAN /\ SafeInterrupts \in BOOLEAN
  /\ {"main", "nobody", "lost"} \cap Workers = {}

(* enum thread_execution_status *)
MULTITHREAD_ERR == -1
MULTITHREAD_DISABLED == 0
MULTITHREAD_INITIALIZING == 1
MULTITHREAD_WAITING_START == 2
MULTITHREAD_ENABLED == 3
MULTITHREAD_WAITING_END == 4

(* The critical sections, by the mutex they hold. *)
StatusSections == {"create", "publish", "enable", "end", "destroy",
                   "start", "check", "waitEnabled", "test", "fail", "waitEnd"}
ReadySections == {"resetReady", "ready"}
CompletedSections == {"resetCompleted", "complete", "skip"}
Sections == StatusSections \cup ReadySections \cup CompletedSections
Mutexes == {"status", "ready", "completed"}

MutexOf(section) ==
  IF section \in StatusSections THEN "status"
  ELSE IF section \in ReadySections THEN "ready" ELSE "completed"

VARIABLES
  pc,            \* where each thread is
  holder,        \* who holds each mutex; "lost": the code SIGINT interrupted
  sleeping,      \* the threads in pthread_cond_wait
  status,        \* multithread_status
  threads,       \* bench_thread: the workers the main thread knows
  ready,         \* num_threads_ready
  completed,     \* num_threads_completed
  semReady,      \* threads_ready
  semCompleted,  \* threads_completed
  launched       \* jobs the main thread is done with

counters == <<ready, completed, semReady, semCompleted>>
vars == <<pc, holder, sleeping, status, threads, counters, launched>>

Threads == Workers \cup {"main"}
WorkerLabels == {"none", "start", "check", "ready", "waitEnabled", "test", "skip", "run",
                 "fail", "complete", "waitEnd", "gone"}
MainLabels == {"create", "spawn", "register", "publish", "job", "awaitReady", "resetReady",
               "enable", "awaitCompleted", "resetCompleted", "end", "destroy", "join",
               "exited"}

Init ==
  /\ pc = [t \in Threads |-> IF t = "main" THEN "create" ELSE "none"]
  /\ holder = [m \in Mutexes |-> "nobody"]
  /\ sleeping = {}
  /\ status = MULTITHREAD_DISABLED
  /\ threads = {}
  /\ ready = 0 /\ completed = 0 /\ semReady = 0 /\ semCompleted = 0
  /\ launched = 0

-----------------------------------------------------------------------------
(* Mutexes, the condition variable and the status it guards. *)

Move(t, label) == pc' = [pc EXCEPT ![t] = label]

(* With nothing created, destroy_bench_threads() does not touch the status. *)
NeedsMutex(t) == pc[t] \in Sections /\ ~(pc[t] = "destroy" /\ threads = {})

Lock(t) ==
  /\ NeedsMutex(t)
  /\ t \notin sleeping
  /\ holder[MutexOf(pc[t])] = "nobody"
  /\ holder' = [holder EXCEPT ![MutexOf(pc[t])] = t]
  /\ UNCHANGED <<pc, sleeping, status, threads, counters, launched>>

In(t, section) == pc[t] = section /\ holder[MutexOf(section)] = t
Leave(t, section, label) ==
  /\ In(t, section)
  /\ Move(t, label)
  /\ holder' = [holder EXCEPT ![MutexOf(section)] = "nobody"]

(* set_multithread_status(): an error is never overwritten, and everybody  *)
(* who waits for a change is woken either way.                             *)
SetStatus(s) ==
  /\ status' = IF status = MULTITHREAD_ERR THEN MULTITHREAD_ERR ELSE s
  /\ sleeping' = {}

WaitOver_UntilError(desired) == status \in {desired, MULTITHREAD_ERR}        \* mutant
WaitOver_UntilDisabled(desired) == status \in {desired, MULTITHREAD_DISABLED} \* mutant

(* The loop of wait_for_main() ends: the status asked for, or the end. *)
WaitOver(desired) == status = desired \/ status <= MULTITHREAD_DISABLED

WaitForMain(w, section, desired, label) ==
  /\ In(w, section)
  /\ \/ WaitOver(desired) /\ Leave(w, section, label) /\ UNCHANGED sleeping
     \/ ~WaitOver(desired) /\ Leave(w, section, section) /\ sleeping' = sleeping \cup {w}
  /\ UNCHANGED <<status, threads, counters, launched>>

(* pthread_cond_wait may return without a broadcast. *)
SpuriousWakeup(w) ==
  /\ w \in sleeping
  /\ sleeping' = sleeping \ {w}
  /\ UNCHANGED <<pc, holder, status, threads, counters, launched>>

LastThread_Early(count) == count + 1 >= Cardinality(threads)   \* mutant: off by one

(* The thread that brings the count up to num_threads signals the main one. *)
LastThread(count) == count >= Cardinality(threads)
Post(sem, count) == IF LastThread(count) THEN sem + 1 ELSE sem

AddThreadReady ==
  /\ ready' = ready + 1
  /\ semReady' = Post(semReady, ready + 1)
  /\ UNCHANGED <<completed, semCompleted>>

AddThreadCompleted ==
  /\ completed' = completed + 1
  /\ semCompleted' = Post(semCompleted, completed + 1)
  /\ UNCHANGED <<ready, semReady>>

-----------------------------------------------------------------------------
(* bench_worker_thread_func(). *)

AwaitInit(w) == WaitForMain(w, "start", MULTITHREAD_WAITING_START, "check")

LoopCheck(w) ==
  /\ Leave(w, "check", IF status >= MULTITHREAD_WAITING_START THEN "ready" ELSE "gone")
  /\ UNCHANGED <<sleeping, status, threads, counters, launched>>

SignalReady(w) ==
  /\ Leave(w, "ready", "waitEnabled")
  /\ AddThreadReady
  /\ UNCHANGED <<sleeping, status, threads, launched>>

AwaitEnabled(w) == WaitForMain(w, "waitEnabled", MULTITHREAD_ENABLED, "test")

AfterStart_Run == "run"   \* mutant: the status is not read again

(* Lines 256-263: run the job, or count as completed and exit. *)
AfterStart == IF status <= MULTITHREAD_DISABLED THEN "skip" ELSE "run"

TestStatus(w) ==
  /\ Leave(w, "test", AfterStart)
  /\ UNCHANGED <<sleeping, status, threads, counters, launched>>

SkipSignal_None == UNCHANGED counters   \* mutant: exits without a signal
SkipSignal == AddThreadCompleted

SkipJob(w) ==
  /\ Leave(w, "skip", "gone")
  /\ SkipSignal
  /\ UNCHANGED <<sleeping, status, threads, launched>>

(* The benchmark's thread function returns, or first reports an error. *)
RunJob(w) ==
  /\ pc[w] = "run"
  /\ \/ Move(w, "complete")
     \/ MayFail /\ Move(w, "fail")
  /\ UNCHANGED <<holder, sleeping, status, threads, counters, launched>>

FailJob(w) ==
  /\ Leave(w, "fail", "complete")
  /\ SetStatus(MULTITHREAD_ERR)
  /\ UNCHANGED <<threads, counters, launched>>

SignalCompleted(w) ==
  /\ Leave(w, "complete", "waitEnd")
  /\ AddThreadCompleted
  /\ UNCHANGED <<sleeping, status, threads, launched>>

AwaitEnd(w) == WaitForMain(w, "waitEnd", MULTITHREAD_WAITING_END, "check")

Worker(w) ==
  \/ Lock(w) \/ AwaitInit(w) \/ LoopCheck(w) \/ SignalReady(w) \/ AwaitEnabled(w)
  \/ TestStatus(w) \/ SkipJob(w) \/ RunJob(w) \/ FailJob(w) \/ SignalCompleted(w)
  \/ AwaitEnd(w)

-----------------------------------------------------------------------------
(* The main thread: create_bench_thread(), the job loop, the teardown. *)

CreateThread ==
  /\ Leave("main", "create", "spawn")
  /\ SetStatus(MULTITHREAD_INITIALIZING)
  /\ UNCHANGED <<threads, counters, launched>>

(* pthread_create: from here on the worker runs. *)
SpawnThread ==
  /\ pc["main"] = "spawn"
  /\ \E w \in Workers :
       /\ pc[w] = "none"
       /\ pc' = [pc EXCEPT ![w] = "start", !["main"] = "register"]
  /\ UNCHANGED <<holder, sleeping, status, threads, counters, launched>>

RegisterThread ==
  /\ pc["main"] = "register"
  /\ threads' = {w \in Workers : pc[w] # "none"}
  /\ Move("main", IF threads' = Workers THEN "publish" ELSE "create")
  /\ UNCHANGED <<holder, sleeping, status, counters, launched>>

(* Once benchmark_init() has returned (periodic_benchmark.c:478-487). *)
PublishInit ==
  /\ Leave("main", "publish", "job")
  /\ SetStatus(MULTITHREAD_WAITING_START)
  /\ UNCHANGED <<threads, counters, launched>>

NextJob ==
  /\ pc["main"] = "job"
  /\ Move("main", IF launched < Jobs THEN "awaitReady" ELSE "destroy")
  /\ UNCHANGED <<holder, sleeping, status, threads, counters, launched>>

AwaitReady ==
  /\ pc["main"] = "awaitReady"
  /\ semReady > 0
  /\ semReady' = semReady - 1
  /\ Move("main", "resetReady")
  /\ UNCHANGED <<holder, sleeping, status, threads, ready, completed, semCompleted, launched>>

ReadyAfterReset == 0

ResetReady ==
  /\ Leave("main", "resetReady", "enable")
  /\ ready' = ReadyAfterReset
  /\ UNCHANGED <<sleeping, status, threads, completed, semReady, semCompleted, launched>>

(* Where benchmark_execution() goes on; an error makes it return early.    *)
EnableJob ==
  /\ Leave("main", "enable", IF status = MULTITHREAD_ERR THEN "job" ELSE "awaitCompleted")
  /\ SetStatus(MULTITHREAD_ENABLED)
  /\ launched' = IF status = MULTITHREAD_ERR THEN launched + 1 ELSE launched
  /\ UNCHANGED <<threads, counters>>

AwaitCompleted ==
  /\ pc["main"] = "awaitCompleted"
  /\ semCompleted > 0
  /\ semCompleted' = semCompleted - 1
  /\ Move("main", "resetCompleted")
  /\ UNCHANGED <<holder, sleeping, status, threads, ready, completed, semReady, launched>>

CompletedAfterReset_Kept == completed   \* mutant: the reset is missing
CompletedAfterReset == 0

ResetCompleted ==
  /\ Leave("main", "resetCompleted", "end")
  /\ completed' = CompletedAfterReset
  /\ UNCHANGED <<sleeping, status, threads, ready, semReady, semCompleted, launched>>

(* benchmark_execution() returns nothing: after an error the job counts    *)
(* like any other.                                                         *)
EndJob ==
  /\ Leave("main", "end", "job")
  /\ SetStatus(MULTITHREAD_WAITING_END)
  /\ launched' = launched + 1
  /\ UNCHANGED <<threads, counters>>

DisableThreads ==
  /\ Leave("main", "destroy", "join")
  /\ SetStatus(MULTITHREAD_DISABLED)
  /\ UNCHANGED <<threads, counters, launched>>

NothingToDisable ==
  /\ pc["main"] = "destroy" /\ threads = {}
  /\ Move("main", "join")
  /\ UNCHANGED <<holder, sleeping, status, threads, counters, launched>>

JoinThreads ==
  /\ pc["main"] = "join"
  /\ \A w \in threads : pc[w] = "gone"
  /\ Move("main", "exited")
  /\ UNCHANGED <<holder, sleeping, status, threads, counters, launched>>

Main ==
  \/ Lock("main") \/ CreateThread \/ SpawnThread \/ RegisterThread \/ PublishInit
  \/ NextJob \/ AwaitReady \/ ResetReady \/ EnableJob \/ AwaitCompleted
  \/ ResetCompleted \/ EndJob \/ DisableThreads \/ NothingToDisable \/ JoinThreads

HoldsNone(t) == \A m \in Mutexes : holder[m] # t

(* quit_handler() runs exit(), and with it stop_benchmark(), on top of     *)
(* whatever the main thread was doing; what that had locked stays locked.  *)
Interrupt ==
  /\ pc["main"] \notin {"destroy", "join", "exited"}
  /\ SafeInterrupts => HoldsNone("main") /\ pc["main"] # "register"
  /\ Move("main", "destroy")
  /\ holder' = [m \in Mutexes |-> IF holder[m] = "main" THEN "lost" ELSE holder[m]]
  /\ UNCHANGED <<sleeping, status, threads, counters, launched>>

(* The process is gone. *)
Terminated == pc["main"] = "exited" /\ UNCHANGED vars

Next ==
  \/ Main \/ Interrupt \/ Terminated
  \/ \E w \in Workers : Worker(w) \/ SpuriousWakeup(w)

Spec == Init /\ [][Next]_vars

(* Every thread runs, and gets a mutex it finds free again and again (the  *)
(* others may hold it in between, woken out of nothing any number of       *)
(* times); wakeups out of nothing and SIGINT need not happen.              *)
FairSpec == Spec /\ SF_vars(Main) /\ \A w \in Workers : SF_vars(Worker(w))

-----------------------------------------------------------------------------
(* Properties. *)

(* What the variables hold; a count never exceeds the number of threads.   *)
TypeOK ==
  /\ pc \in [Threads -> WorkerLabels \cup MainLabels]
  /\ holder \in [Mutexes -> Threads \cup {"nobody", "lost"}]
  /\ sleeping \subseteq Workers
  /\ status \in MULTITHREAD_ERR..MULTITHREAD_WAITING_END
  /\ threads \subseteq Workers
  /\ ready \in 0..Cardinality(Workers) /\ completed \in 0..Cardinality(Workers)
  /\ semReady \in {0, 1} /\ semCompleted \in {0, 1}
  /\ launched \in 0..Jobs

(* A semaphore is posted for all the threads at once: "ready" finds every  *)
(* worker at the gate, unless they are told to stop, and "completed" finds *)
(* none that still has work to do (lines 187-239).                         *)
SignalsMeanAll ==
  /\ semReady > 0 /\ status > MULTITHREAD_DISABLED =>
       \A w \in Workers : pc[w] = "waitEnabled"
  /\ semCompleted > 0 => \A w \in Workers : pc[w] \in {"waitEnd", "check", "gone"}

(* Between main_thread_sync_end() and the next main_thread_sync_start() no *)
(* worker runs the job, even after an error: the report and the job's own  *)
(* sums are read by the main thread alone (bandwidth-threads.c:629-638).   *)
NoWorkBetweenJobs ==
  pc["main"] \in {"job", "awaitReady", "resetReady"} =>
    \A w \in Workers : pc[w] \notin {"run", "fail", "complete"}

(* Without an error the jobs all end and every worker is joined, whether   *)
(* the program comes to its end or SIGINT cuts it short.                   *)
AllJoined == [](status # MULTITHREAD_ERR) => <>(pc["main"] = "exited")

(* The error of one thread makes all the others leave, wherever they wait  *)
(* (lines 168-172, 256-263, 314).                                          *)
ErrorStopsWorkers ==
  status = MULTITHREAD_ERR ~> \A w \in Workers : pc[w] \in {"none", "gone"}

(* A worker that leaves still signals completion, so that the main thread  *)
(* does not wait for it in main_thread_sync_end() (lines 259-262).         *)
MainNotLeftWaiting == pc["main"] = "awaitCompleted" ~> pc["main"] # "awaitCompleted"

(* An error in one of the threads makes RT-Bench stop all the threads and  *)
(* terminate prematurely (3-Extending_rt-bench.markdown:279-283).          *)
ErrorTerminates == status = MULTITHREAD_ERR ~> pc["main"] = "exited"

(* The mutexes, counters, semaphores and the status implement the gate of  *)
(* ForkJoin: a job opens for workers that all wait, closes on workers that *)
(* all have worked, and none works unless it is open.                      *)
Gate ==
  IF status = MULTITHREAD_ENABLED THEN "open"
  ELSE IF status = MULTITHREAD_ERR \/ pc["main"] \in {"join", "exited"} THEN "aborted"
  ELSE "closed"
Did(label) ==
  IF label \in {"run", "fail"} THEN "working"
  ELSE IF label \in {"complete", "waitEnd"} THEN "worked" ELSE "waiting"
Barrier == INSTANCE ForkJoin WITH gate <- Gate, did <- [w \in Workers |-> Did(pc[w])]
ImplementsForkJoin == Barrier!ForkJoinSpec
=============================================================================
