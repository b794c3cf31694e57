-------------------------- MODULE BandwidthThreads --------------------------
(***************************************************************************)
(* The multi-threaded bandwidth benchmark (IsolBench/bandwidth-threads.c): *)
(* benchmark_init() deals the memory, the access types and the iterations  *)
(* out to its threads and pins one of them to each core, every job lets    *)
(* them all go over their memory, and the main thread adds up what they    *)
(* have measured.                                                          *)
(*                                                                         *)
(* The synchronisation is what ForkJoin promises and Multithread shows: a  *)
(* job opens when the threads that were created wait for it, and closes    *)
(* when they all have worked. Memory is counted in KB: an int of bytes     *)
(* loses the same multiples of 2 * HalfInt KB.                             *)
(***************************************************************************)
EXTENDS Integers, FiniteSets, Sequences

CONSTANTS
  Requests,    \* the arguments benchmark_init() may be called with
  Cores,       \* the numbers of the machine's cores
  HalfInt,     \* 2^31 bytes, in KB
  ClockRange,  \* 2^32: how many microseconds fit an unsigned int
  StartTimes,  \* when the benchmark may start
  MaxTime,     \* bound on the clock
  MaxJobs      \* bound on the jobs: tasks_to_launch

(* A list that is not given is the list of the one default value. What the *)
(* option parser does not accept comes as an "invalid" buffer type.        *)
RequestType ==
  [sizes : Seq(Int), access : Seq({"read", "write", "invalid"}), iterations : Seq(Int),
   buffer : {"shared", "private", "invalid"}, threads : Int]

ASSUME BandwidthAssumption ==
  /\ Requests \subseteq RequestType
  /\ IsFiniteSet(Cores) /\ Cores \subseteq Nat /\ Cores # {}
  /\ HalfInt \in Nat \ {0} /\ ClockRange \in Nat \ {0}
  /\ StartTimes \subseteq Nat /\ MaxTime \in Nat /\ MaxJobs \in Nat

VARIABLES
  phase,        \* where the main thread is
  buf_type,
  thread_num,
  g_mem_size,   \* the size of the buffer of all threads
  thread_stat,  \* what each thread was told to do and has measured
  spawned,      \* the threads create_bench_thread() was called for
  did,          \* how far each of them is with the job
  total,        \* g_start, g_end and g_nread
  data,         \* extra_measurement.data: the intervals and bytes it is computed from
  now,          \* the time, in microseconds
  opened,       \* when the last job was opened and closed
  closed,
  jobs          \* the jobs reported

setup == <<buf_type, thread_num, g_mem_size, spawned>>
vars == <<phase, setup, thread_stat, did, total, data, now, opened, closed, jobs>>

Nothing == [start |-> 0, end |-> 0, nread |-> 0]
ThreadsOf(n) == 0..(n - 1)
MinOf(a, b) == IF a < b THEN a ELSE b
MaxOf(a, b) == IF a < b THEN b ELSE a

Init ==
  /\ phase = "init"
  /\ buf_type = "private" /\ thread_num = 0 /\ g_mem_size = 0
  /\ thread_stat = <<>> /\ spawned = {} /\ did = <<>>
  /\ total = Nothing /\ data = <<>>
  /\ now \in StartTimes /\ opened = 0 /\ closed = 0
  /\ jobs = 0

-----------------------------------------------------------------------------
(* benchmark_init(). *)

(* long to int, and an int that overflows (gcc lets it wrap).              *)
Narrow(kb) == ((kb + HalfInt) % (2 * HalfInt)) - HalfInt

(* -t: 0 is one thread for each core of the affinity mask. *)
ThreadNum(threads, mask) == IF threads = 0 THEN Cardinality(mask) ELSE threads

(* The strtok loops: a list has a token for each of n threads, or the one  *)
(* it has is for all of them; what comes after the n-th is not looked at.  *)
Enough(list, n) == Len(list) = 1 \/ Len(list) >= n
Token(list, k) == IF k < Len(list) THEN list[k + 1] ELSE list[1]
Tokens(list, n) == {Token(list, k) : k \in ThreadsOf(n)}

SizeValid_Any(kb) == TRUE   \* mutant: the sign is not tested
SizeValid(kb) == Narrow(kb) > 0
AccessValid(access) == access \in {"read", "write"}
IterationsValid(i) == i > 0

(* Whether the arguments are accepted on a core mask. A negative number of *)
(* threads passes the test against the mask and fails at a malloc().       *)
Accepts(req, mask) ==
  LET n == ThreadNum(req.threads, mask) IN
  /\ req.buffer \in {"shared", "private"}
  /\ n \in 1..Cardinality(mask)
  /\ Enough(req.sizes, n) /\ \A kb \in Tokens(req.sizes, n) : SizeValid(kb)
  /\ Enough(req.access, n) /\ \A access \in Tokens(req.access, n) : AccessValid(access)
  /\ Enough(req.iterations, n) /\ \A i \in Tokens(req.iterations, n) : IterationsValid(i)

(* next_t_mem_ptr: the end of the first k threads' memory. *)
RegionEnd(size, n) ==
  LET end[k \in 0..n] == IF k = 0 THEN 0 ELSE end[k - 1] + size[k - 1] IN end

RegionStart_Own(buffer, size, n, k) ==
  IF buffer = "private" THEN k * size[k] ELSE 0   \* mutant: as if all were of one size
RegionStart(buffer, size, n, k) == IF buffer = "private" THEN RegionEnd(size, n)[k] ELSE 0

Largest(size, n) ==
  LET largest[k \in 0..n] == IF k = 0 THEN 0 ELSE MaxOf(largest[k - 1], size[k - 1]) IN largest[n]

GlobalSize(buffer, size, n) ==
  IF buffer = "private" THEN Narrow(RegionEnd(size, n)[n]) ELSE Largest(size, n)

(* The loop over the cores counts to get_nprocs(), the cores online, as if *)
(* these were the first ones: a core beyond gets no thread.                *)
Spawned(n, mask, online) ==
  ThreadsOf(MinOf(n, Cardinality({c \in mask : c < Cardinality(online)})))

(* malloc() refuses a negative int, which is a huge size_t, and may refuse *)
(* any other size.                                                         *)
BenchmarkInit ==
  /\ phase = "init"
  /\ \E req \in Requests, online \in SUBSET Cores : \E mask \in SUBSET online :
       LET n == ThreadNum(req.threads, mask)
           size == [k \in ThreadsOf(n) |-> Narrow(Token(req.sizes, k))]
       IN /\ mask # {} /\ Accepts(req, mask)
          /\ GlobalSize(req.buffer, size, n) >= 0
          /\ buf_type' = req.buffer /\ thread_num' = n
          /\ g_mem_size' = GlobalSize(req.buffer, size, n)
          /\ thread_stat' = [k \in ThreadsOf(n) |->
               [t_mem_ptr |-> RegionStart(req.buffer, size, n, k), t_mem_size |-> size[k],
                iterations |-> Token(req.iterations, k), passes |-> 0,
                nread |-> 0, t_start |-> 0, t_end |-> 0]]
          /\ spawned' = Spawned(n, mask, online)
          /\ did' = [k \in spawned' |-> "waiting"]
          /\ data' = [k \in 0..n |-> Nothing]
  /\ phase' = "ready"
  /\ UNCHANGED <<total, now, opened, closed, jobs>>

(* Some argument, or a call, fails; RT-Bench then exits. *)
InitFails ==
  /\ phase = "init"
  /\ phase' = "quitting"
  /\ UNCHANGED <<setup, thread_stat, did, total, data, now, opened, closed, jobs>>

-----------------------------------------------------------------------------
(* thread_execution(), between the two barriers of multithread.c. *)

(* get_usecs(). *)
Usecs == now % ClockRange

StartStat_KeepBytes(s) == [s EXCEPT !.t_end = 0, !.passes = 0, !.t_start = Usecs]   \* mutant
StartStat(s) == [s EXCEPT !.t_end = 0, !.passes = 0, !.nread = 0, !.t_start = Usecs]

StartWork(k) ==
  /\ phase = "open" /\ did[k] = "waiting"
  /\ did' = [did EXCEPT ![k] = "working"]
  /\ thread_stat' = [thread_stat EXCEPT ![k] = StartStat(@)]
  /\ UNCHANGED <<phase, setup, total, data, now, opened, closed, jobs>>

(* bench_read() or bench_write(), once over the thread's memory. *)
Pass(k) ==
  /\ did[k] = "working"
  /\ thread_stat' = [thread_stat EXCEPT ![k].passes = @ + 1, ![k].nread = @ + thread_stat[k].t_mem_size]
  /\ did' = [did EXCEPT ![k] = IF thread_stat'[k].passes >= thread_stat[k].iterations
                               THEN "stopping" ELSE "working"]
  /\ UNCHANGED <<phase, setup, total, data, now, opened, closed, jobs>>

StopWork(k) ==
  /\ did[k] = "stopping"
  /\ did' = [did EXCEPT ![k] = "worked"]
  /\ thread_stat' = [thread_stat EXCEPT ![k].t_end = Usecs]
  /\ UNCHANGED <<phase, setup, total, data, now, opened, closed, jobs>>

(* The thread waits for the next job, once this one is closed. *)
Rest(k) ==
  /\ phase # "open" /\ did[k] = "worked"
  /\ did' = [did EXCEPT ![k] = "waiting"]
  /\ UNCHANGED <<phase, setup, thread_stat, total, data, now, opened, closed, jobs>>

-----------------------------------------------------------------------------
(* benchmark_execution(), benchmark_log_data() and the end. *)

Cleared_KeepStart == [Nothing EXCEPT !.start = total.start]   \* mutant: g_start is not reset
Cleared == Nothing

BeginJob ==
  /\ phase = "ready" /\ jobs < MaxJobs
  /\ phase' = "starting"
  /\ total' = Cleared
  /\ UNCHANGED <<setup, thread_stat, did, data, now, opened, closed, jobs>>

(* main_thread_sync_start(): with no thread nobody ever signals it. *)
OpenJob ==
  /\ phase = "starting"
  /\ spawned # {} /\ \A k \in spawned : did[k] = "waiting"
  /\ phase' = "open" /\ opened' = now
  /\ UNCHANGED <<setup, thread_stat, did, total, data, now, closed, jobs>>

(* main_thread_sync_end(). *)
CloseJob ==
  /\ phase = "open"
  /\ \A k \in spawned : did[k] = "worked"
  /\ phase' = "adding" /\ closed' = now
  /\ UNCHANGED <<setup, thread_stat, did, total, data, now, opened, jobs>>

(* One turn of the loop that adds up: 0 stands for "none yet". *)
AddThread(sum, s) ==
  [start |-> IF sum.start = 0 \/ s.t_start < sum.start THEN s.t_start ELSE sum.start,
   end |-> IF sum.end = 0 \/ s.t_end > sum.end THEN s.t_end ELSE sum.end,
   nread |-> sum.nread + s.nread]

AddedUp ==
  LET sum[k \in 0..thread_num] == IF k = 0 THEN total ELSE AddThread(sum[k - 1], thread_stat[k - 1])
  IN sum[thread_num]

AddUp ==
  /\ phase = "adding"
  /\ total' = AddedUp
  /\ phase' = "logging"
  /\ UNCHANGED <<setup, thread_stat, did, data, now, opened, closed, jobs>>

LogData ==
  /\ phase = "logging"
  /\ data' = [k \in 0..thread_num |->
       IF k = 0 THEN total
       ELSE [start |-> thread_stat[k - 1].t_start, end |-> thread_stat[k - 1].t_end,
             nread |-> thread_stat[k - 1].nread]]
  /\ phase' = "ready" /\ jobs' = jobs + 1
  /\ UNCHANGED <<setup, thread_stat, did, total, now, opened, closed>>

(* The jobs are over, or SIGINT; stop_benchmark() joins the threads and    *)
(* then calls benchmark_teardown(), which frees what they work on.         *)
Quit ==
  /\ phase \notin {"init", "quitting", "ended"}
  /\ phase' = "quitting"
  /\ UNCHANGED <<setup, thread_stat, did, total, data, now, opened, closed, jobs>>

AllJoined == \A k \in spawned : did[k] \in {"waiting", "worked"}

BenchmarkTeardown ==
  /\ phase = "quitting"
  /\ AllJoined
  /\ phase' = "ended"
  /\ UNCHANGED <<setup, thread_stat, did, total, data, now, opened, closed, jobs>>

Tick ==
  /\ now < MaxTime
  /\ now' = now + 1
  /\ UNCHANGED <<phase, setup, thread_stat, did, total, data, opened, closed, jobs>>

Next ==
  \/ BenchmarkInit \/ InitFails \/ BeginJob \/ OpenJob \/ CloseJob \/ AddUp \/ LogData
  \/ Quit \/ BenchmarkTeardown \/ Tick
  \/ \E k \in spawned : StartWork(k) \/ Pass(k) \/ StopWork(k) \/ Rest(k)

Spec == Init /\ [][Next]_vars

-----------------------------------------------------------------------------
(* Properties. *)

IntervalType == [start : Nat, end : Nat, nread : Nat]
StatType ==
  [t_mem_ptr : Nat, t_mem_size : Nat \ {0}, iterations : Nat \ {0}, passes : Nat,
   nread : Nat, t_start : 0..(ClockRange - 1), t_end : 0..(ClockRange - 1)]

(* What the variables hold; every thread has memory and an end to its job. *)
TypeOK ==
  /\ phase \in {"init", "ready", "starting", "open", "adding", "logging", "quitting", "ended"}
  /\ buf_type \in {"shared", "private"}
  /\ thread_num \in 0..Cardinality(Cores)
  /\ g_mem_size \in 0..(HalfInt - 1)
  /\ thread_stat \in [ThreadsOf(thread_num) -> StatType]
  /\ spawned \subseteq ThreadsOf(thread_num)
  /\ did \in [spawned -> {"waiting", "working", "stopping", "worked"}]
  /\ total \in IntervalType
  /\ data = <<>> \/ data \in [0..thread_num -> IntervalType]
  /\ now \in Nat /\ opened \in Nat /\ closed \in Nat /\ jobs \in 0..MaxJobs

Working == {k \in spawned : did[k] \in {"working", "stopping"}}
RegionOf(k) ==
  thread_stat[k].t_mem_ptr .. (thread_stat[k].t_mem_ptr + thread_stat[k].t_mem_size - 1)

(* The private memory of all threads together is less than 2 GB. *)
Fits ==
  buf_type = "private" =>
    RegionEnd([k \in ThreadsOf(thread_num) |-> thread_stat[k].t_mem_size], thread_num)[thread_num]
      < HalfInt

(* A thread that works goes over memory that is allocated and not freed,   *)
(* and with private buffers over memory no other thread has, whichever     *)
(* sizes the threads were given and whenever SIGINT comes (lines 415-423,  *)
(* 496-527, 692-706).                                                      *)
OwnMemoryOnly ==
  Working # {} /\ Fits =>
    /\ phase # "ended"
    /\ \A k \in Working : RegionOf(k) \subseteq 0..(g_mem_size - 1)
    /\ buf_type = "private" =>
         \A k, l \in Working : k # l => RegionOf(k) \cap RegionOf(l) = {}

AllSpawned == spawned = ThreadsOf(thread_num)
Reported == phase = "ready" /\ jobs > 0

(* The sums work on a job during which the truncated clock is never 0.     *)
ClockSteady == opened \div ClockRange = closed \div ClockRange /\ opened % ClockRange > 0

(* The interval of the total bandwidth is one of this job, from its start  *)
(* to its end, and no thread has worked outside of it: no stamp of an      *)
(* earlier job and no thread that is still working gets into the sums      *)
(* (lines 216-233, 599-638).                                               *)
IntervalOfJob ==
  Reported /\ AllSpawned /\ ClockSteady =>
    /\ opened % ClockRange <= data[0].start /\ data[0].end <= closed % ClockRange
    /\ \A k \in 1..thread_num :
         data[0].start <= data[k].start /\ data[k].start <= data[k].end /\ data[k].end <= data[0].end

(* Each thread's bytes are those of all its iterations in this job, and    *)
(* the total is their sum.                                                 *)
BytesOfJob ==
  Reported /\ AllSpawned =>
    /\ \A k \in spawned :
         data[k + 1].nread = thread_stat[k].iterations * thread_stat[k].t_mem_size
    /\ data[0].nread =
         RegionEnd([k \in spawned |-> thread_stat[k].iterations * thread_stat[k].t_mem_size],
                   thread_num)[thread_num]
=============================================================================
