------------------------- MODULE PeriodicBenchmark --------------------------
(***************************************************************************)
(* The job loop of periodic_benchmark() (periodic_benchmark.c), from the   *)
(* moment the timers are armed: the main thread, the two POSIX timers, the *)
(* signal handlers that interrupt the main thread, the period semaphore    *)
(* they share, and the rows they write to the report.                      *)
(*                                                                         *)
(* A handler runs to completion on the main thread (both timer signals are *)
(* blocked while either handler runs, lines 397-399 and 530-537), so it is *)
(* one action; the main thread takes one action per step a signal can      *)
(* separate. The kernel delivers a pending signal before the thread        *)
(* executes another user instruction, so the main thread steps only when   *)
(* nothing is pending; Tick may put a signal between any two of its steps. *)
(***************************************************************************)
EXTENDS Integers

CONSTANTS
  Options,           \* the execution options main() may hand over
  TicksPerSecond,    \* the scale: ticks of the model clock in a second
  SynchDelay,        \* ticks from the group's release to the first period
  WorkingClocks,     \* the time sources that do not read 0
  InterruptibleEnd,  \* may a signal separate the two end stamps?
  SkippedDeadlines,  \* is PRINT_SKIPPED_DEADLINE defined?
  MaxLatency,        \* most ticks a signal stays pending
  MaxTime            \* bound: the clock stands still there, the timers do not

(* get_rdtsc() and get_timestamp(): every instant is stamped with both. *)
Clock == {"clocks", "secs"}

(* The members of struct execution_options the loop reads. Durations are   *)
(* in ticks; sec and nsec are the parts interpret_opt() splits a period    *)
(* into, and deadline has its default (main.c:711-717).                    *)
OptionRecord == [sec : Nat, nsec : Nat, deadline : Nat, tasks : Nat, synch : BOOLEAN]

Period(o) == o.sec * TicksPerSecond + o.nsec
Periodic(o) == o.nsec > 0 \/ o.sec > 0

(* A deadline timer exists only if deadline and period differ (line 544). *)
HasDeadlineTimer(o) == (Periodic(o) \/ o.synch) /\ o.deadline # Period(o)

ASSUME OptionsAssumption ==
  /\ Options \subseteq OptionRecord
  /\ \A o \in Options : o.deadline <= Period(o) /\ (Periodic(o) => o.deadline > 0)
ASSUME EnvironmentAssumption ==
  /\ TicksPerSecond \in Nat \ {0}
  /\ SynchDelay \in Nat \ {0}
  /\ WorkingClocks \subseteq Clock
  /\ InterruptibleEnd \in BOOLEAN
  /\ SkippedDeadlines \in BOOLEAN
  /\ MaxLatency \in Nat
  /\ MaxTime \in Nat \ {0}

VARIABLES
  opts,          \* exec_opts
  pc,            \* where the main thread is
  quit,          \* quit_handler() has ended the process
  now,           \* the time both clocks read, from 1
  periodLeft,    \* ticks to the period timer's expiry, 0 when disarmed
  deadlineLeft,  \* the same for the deadline timer
  pending,       \* timer signals waiting to be handled
  latency,       \* ticks the pending signals have waited
  sem,           \* period_sem
  eintr,         \* the sem_wait in progress has been interrupted
  synchWaited,   \* synch_wait_done
  start,         \* job_period_start_timestamp, by clock
  periodEnd,     \* job_period_end_timestamp
  jobEnd,        \* job_end_timestamp
  jobDeadline,   \* job_deadline_timestamp
  lastDeadline,  \* last_deadline_timestamp
  launched,      \* tasks_launched
  extra,         \* 0: extra_measurement is invalid; n: job n's data, valid
  row,           \* the last row of the report
  reported       \* how many job rows the report has

timers   == <<periodLeft, deadlineLeft>>
stamps   == <<start, periodEnd, jobEnd, jobDeadline, lastDeadline>>
report   == <<row, reported>>
vars     == <<opts, pc, quit, now, timers, pending, latency, sem, eintr, synchWaited,
              stamps, launched, extra, report>>

Stopped == quit \/ pc = "exit"
WaitPoints == {"wait", "finalWait"}

-----------------------------------------------------------------------------
(* Timestamps: 0 stands for "not taken yet", and is also what a clock that *)
(* does not work reads.                                                    *)

Unset == [c \in Clock |-> 0]
Stamp == [c \in Clock |-> IF c \in WorkingClocks THEN now ELSE 0]
StampIfUnset(t) == [c \in Clock |-> IF t[c] = 0 THEN Stamp[c] ELSE t[c]]
SomeSet(t) == \E c \in Clock : t[c] > 0
SomeUnset(t) == \E c \in Clock : t[c] = 0

NoRow == [kind |-> "none", start |-> Unset, periodEnd |-> Unset, jobEnd |-> Unset,
          deadline |-> Unset, extra |-> 0]

(* The verdict print_timing() writes: both clocks must agree (logging.c). *)
Met(r) == \A c \in Clock : r.jobEnd[c] > 0 /\ r.jobEnd[c] <= r.deadline[c]

-----------------------------------------------------------------------------
(* The state periodic_benchmark() enters its loop in: the statics of the   *)
(* file, and the timers as lines 518-580 arm them.                         *)
Init ==
  /\ opts \in Options
  /\ pc = "loop" /\ quit = FALSE
  /\ now = 1
  /\ periodLeft = IF opts.synch THEN SynchDelay ELSE Period(opts)
  /\ deadlineLeft = 0
  /\ pending = {}
  /\ latency = 0
  /\ sem = 0
  /\ eintr = FALSE
  /\ synchWaited = FALSE
  /\ start = Unset /\ periodEnd = Unset /\ jobEnd = Unset
  /\ jobDeadline = Unset /\ lastDeadline = Unset
  /\ launched = 0
  /\ extra = 0
  /\ row = NoRow
  /\ reported = 0

(* What a timer's countdown becomes: it reloads its interval on expiry. *)
CountDown(left, interval) == IF left = 1 THEN interval ELSE IF left = 0 THEN 0 ELSE left - 1

(* Time passes. A timer that expires makes its signal pending (an expiry   *)
(* while the signal is still pending is an overrun and is lost).           *)
Tick ==
  /\ ~Stopped
  /\ pending # {} => latency < MaxLatency
  /\ pc = "ended" => InterruptibleEnd
  /\ now' = IF now < MaxTime THEN now + 1 ELSE MaxTime
  /\ latency' = IF pending = {} THEN 0 ELSE latency + 1
  /\ periodLeft' = CountDown(periodLeft, Period(opts))
  /\ deadlineLeft' = CountDown(deadlineLeft, 0)
  /\ pending' = pending \cup (IF periodLeft = 1 THEN {"period"} ELSE {})
                        \cup (IF deadlineLeft = 1 THEN {"deadline"} ELSE {})
  /\ UNCHANGED <<opts, pc, quit, sem, eintr, synchWaited, stamps, launched, extra, report>>

-----------------------------------------------------------------------------
(* The signal handlers. *)

(* A handler that runs while the main thread sleeps in sem_wait makes the  *)
(* call return EINTR, setup_signal() does not ask for SA_RESTART; one that *)
(* runs just before the call leaves no trace.                              *)
Deliver(signal) ==
  /\ ~Stopped
  /\ signal \in pending
  /\ pending' = pending \ {signal}
  /\ latency' = 0
  /\ eintr' \in IF pc \in WaitPoints /\ sem = 0 THEN {eintr, TRUE} ELSE {eintr}

DeadlineHandler ==
  /\ Deliver("deadline")
  /\ lastDeadline' = Stamp
  /\ jobDeadline' = StampIfUnset(jobDeadline)
  /\ UNCHANGED <<opts, pc, quit, now, timers, sem, synchWaited, start, periodEnd, jobEnd,
                 launched, extra, report>>

LatestDeadline == IF HasDeadlineTimer(opts) THEN lastDeadline ELSE Stamp

FirstDeadline_TimerOnly == jobDeadline   \* mutant: implicit deadline forgotten
FirstDeadline_Latest == LatestDeadline   \* mutant: every deadline counts

(* The first deadline since the job's start, once the period has ended:    *)
(* without a deadline timer the period end is the deadline.                *)
FirstDeadline == IF HasDeadlineTimer(opts) THEN jobDeadline ELSE StampIfUnset(jobDeadline)

JobRow == [kind |-> "job", start |-> start, periodEnd |-> StampIfUnset(periodEnd),
           jobEnd |-> jobEnd, deadline |-> FirstDeadline, extra |-> extra]
SkippedRow == [NoRow EXCEPT !.kind = "skipped", !.deadline = LatestDeadline, !.extra = extra]

SkipDue_EveryPeriod == SkippedDeadlines   \* mutant: the first deadline too
SkipDue == SkippedDeadlines /\ LatestDeadline # FirstDeadline

(* Lines 307-340: report the finished job, or a deadline it has skipped. *)
Report ==
  IF ~SomeSet(start) THEN UNCHANGED <<extra, report>>
  ELSE /\ extra' = 0
       /\ \/ /\ SomeSet(jobEnd)
             /\ row' = JobRow
             /\ reported' = reported + 1
          \/ /\ ~SomeSet(jobEnd)
             /\ row' = IF SkipDue THEN SkippedRow ELSE row
             /\ UNCHANGED reported

ReleaseNext_Always == TRUE              \* mutant: overruns release jobs too
ReleaseNext_AfterJob == SomeSet(jobEnd)  \* mutant: the first period forgotten

(* Lines 343-344: is the next job to be released? *)
ReleaseNext == SomeSet(jobEnd) \/ SomeUnset(start)

ResetStamps_KeepEnd ==                   \* mutant: the end stamp survives
  periodEnd' = Unset /\ jobDeadline' = Unset /\ UNCHANGED jobEnd
ResetStamps == periodEnd' = Unset /\ jobEnd' = Unset /\ jobDeadline' = Unset

(* period_handler(signo): posts is 1 for the signal, 0 for the call of the *)
(* continuous execution model.                                             *)
PeriodHandlerBody(posts) ==
  /\ lastDeadline' = LatestDeadline
  /\ deadlineLeft' = IF HasDeadlineTimer(opts) THEN opts.deadline ELSE deadlineLeft
  /\ Report
  /\ \/ /\ ReleaseNext
        /\ start' = Stamp
        /\ ResetStamps
        /\ sem' = sem + posts
     \/ /\ ~ReleaseNext
        /\ periodEnd' = StampIfUnset(periodEnd)
        /\ jobDeadline' = FirstDeadline
        /\ UNCHANGED <<start, jobEnd, sem>>

(* SIGNAL_DEADLINE is SIGRTMIN and SIGNAL_END_PERIOD SIGRTMIN + 1: of two  *)
(* pending real-time signals the lower is delivered first.                 *)
PeriodHandler ==
  /\ "deadline" \notin pending
  /\ Deliver("period")
  /\ PeriodHandlerBody(1)
  /\ UNCHANGED <<opts, pc, quit, now, periodLeft, synchWaited, launched>>

(* quit_handler() exits the process; stop_benchmark() deletes the timers. *)
QuitHandler ==
  /\ ~Stopped
  /\ quit' = TRUE
  /\ UNCHANGED <<opts, pc, now, timers, pending, latency, sem, eintr, synchWaited, stamps,
                 launched, extra, report>>

-----------------------------------------------------------------------------
(* The main thread. *)

At(label) == pc = label /\ ~quit /\ pending = {}

AfterLastJob_Exit == "exit"              \* mutant: no wait for the last period
AfterLastJob == IF Periodic(opts) THEN "finalWait" ELSE "exit"

(* Lines 584-589, 638: another job, and does it wait for the semaphore? *)
LoopTest ==
  /\ At("loop")
  /\ pc' = IF launched < opts.tasks \/ opts.tasks = 0
           THEN IF Periodic(opts) \/ (opts.synch /\ ~synchWaited) THEN "wait" ELSE "begin"
           ELSE AfterLastJob
  /\ UNCHANGED <<opts, quit, now, timers, pending, latency, sem, eintr, synchWaited, stamps,
                 launched, extra, report>>

SemWaitReturns_Takes ==                  \* mutant: an interrupted wait takes a unit
  (sem > 0 \/ eintr) /\ sem' = sem - 1 /\ eintr' = FALSE

(* sem_wait returns: with a unit of the semaphore, or with EINTR. *)
SemWaitReturns ==
  /\ sem > 0 \/ eintr
  /\ sem' = IF eintr THEN sem ELSE sem - 1
  /\ eintr' = FALSE

WaitAgain_Never(interrupted) == opts.nsec > 0   \* mutant: EINTR not retried

(* The condition of the do-while around sem_wait, lines 593-594. *)
WaitAgain(interrupted) == opts.nsec > 0 \/ interrupted

LeaveWait_KeepExtra == pc' = "begin" /\ UNCHANGED extra   \* mutant
LeaveWait == pc' = "begin" /\ extra' = 0

(* Lines 588-601. *)
WaitForPeriod ==
  /\ At("wait")
  /\ SemWaitReturns
  /\ synchWaited' = TRUE
  /\ \/ WaitAgain(eintr) /\ UNCHANGED <<pc, extra>>
     \/ ~WaitAgain(eintr) /\ LeaveWait
  /\ UNCHANGED <<opts, quit, now, timers, pending, latency, stamps, launched, report>>

(* Lines 603-616: the very first job may have to take its own start stamp. *)
BeginJob ==
  /\ At("begin")
  /\ pc' = "running"
  /\ start' = StampIfUnset(start)
  /\ UNCHANGED <<opts, quit, now, timers, pending, latency, sem, eintr, synchWaited, periodEnd,
                 jobEnd, jobDeadline, lastDeadline, launched, extra, report>>

(* benchmark_execution() returns and the first of the two end stamps is    *)
(* taken; EndStampSecs takes the second.                                   *)
EndJob ==
  /\ At("running")
  /\ pc' = "ended"
  /\ jobEnd' = [jobEnd EXCEPT !["clocks"] = Stamp["clocks"]]
  /\ UNCHANGED <<opts, quit, now, timers, pending, latency, sem, eintr, synchWaited, start,
                 periodEnd, jobDeadline, lastDeadline, launched, extra, report>>

EndStampSecs ==
  /\ At("ended")
  /\ pc' = "log"
  /\ jobEnd' = [jobEnd EXCEPT !["secs"] = Stamp["secs"]]
  /\ UNCHANGED <<opts, quit, now, timers, pending, latency, sem, eintr, synchWaited, start,
                 periodEnd, jobDeadline, lastDeadline, launched, extra, report>>

(* benchmark_log_data(): a benchmark with extra metrics marks them valid,  *)
(* the weak default does nothing.                                          *)
LogData ==
  /\ At("log")
  /\ pc' = "count"
  /\ extra' \in {extra, launched + 1}
  /\ UNCHANGED <<opts, quit, now, timers, pending, latency, sem, eintr, synchWaited, stamps,
                 launched, report>>

(* Lines 627-635: count the job; with no period, report it here and now. *)
CountJob ==
  /\ At("count")
  /\ pc' = "loop"
  /\ launched' = launched + 1
  /\ \/ /\ Periodic(opts)
        /\ UNCHANGED <<deadlineLeft, sem, stamps, extra, report>>
     \/ /\ ~Periodic(opts)
        /\ PeriodHandlerBody(0)
  /\ UNCHANGED <<opts, quit, now, periodLeft, pending, latency, eintr, synchWaited>>

(* Lines 638-642: wait for the period of the last job to end. *)
FinalWait ==
  /\ At("finalWait")
  /\ SemWaitReturns
  /\ pc' = IF eintr THEN pc ELSE "exit"
  /\ UNCHANGED <<opts, quit, now, timers, pending, latency, synchWaited, stamps, launched,
                 extra, report>>

(* The process is gone. *)
Terminated == Stopped /\ UNCHANGED vars

MainThread ==
  \/ LoopTest \/ WaitForPeriod \/ BeginJob \/ EndJob \/ EndStampSecs
  \/ LogData \/ CountJob \/ FinalWait

Next ==
  \/ Tick \/ DeadlineHandler \/ PeriodHandler \/ QuitHandler
  \/ MainThread \/ Terminated

Spec == Init /\ [][Next]_vars

(* Time passes and a pending signal is handled; the main thread, which the *)
(* handlers preempt again and again, still takes its turn, and its job     *)
(* returns.                                                                *)
FairSpec ==
  /\ Spec
  /\ WF_vars(Tick) /\ WF_vars(DeadlineHandler) /\ WF_vars(PeriodHandler)
  /\ SF_vars(MainThread)

-----------------------------------------------------------------------------
(* Properties. *)

RowSet == [kind : {"none", "job", "skipped"}, start : [Clock -> Nat],
           periodEnd : [Clock -> Nat], jobEnd : [Clock -> Nat],
           deadline : [Clock -> Nat], extra : Nat]

(* What the variables hold. *)
TypeOK ==
  /\ opts \in Options
  /\ pc \in {"loop", "wait", "begin", "running", "ended", "log", "count", "finalWait",
             "exit"}
  /\ quit \in BOOLEAN
  /\ now \in Nat /\ periodLeft \in Nat /\ deadlineLeft \in Nat /\ latency \in Nat
  /\ pending \subseteq {"period", "deadline"}
  /\ sem \in Nat
  /\ eintr \in BOOLEAN /\ synchWaited \in BOOLEAN
  /\ start \in [Clock -> Nat] /\ periodEnd \in [Clock -> Nat]
  /\ jobEnd \in [Clock -> Nat] /\ jobDeadline \in [Clock -> Nat]
  /\ lastDeadline \in [Clock -> Nat]
  /\ launched \in Nat /\ extra \in Nat /\ reported \in Nat
  /\ row \in RowSet

InJob == pc \in {"begin", "running", "ended"}

(* How many jobs have finished: all those counted, and the one that is     *)
(* between its end stamps and the counter.                                 *)
Finished == IF pc \in {"ended", "log", "count"} THEN launched + 1 ELSE launched

(* No matter where the period signal interrupts the loop, the handler      *)
(* never releases a job while one is released or running: a period that    *)
(* ends during a job posts nothing (lines 341-365).                        *)
OneJobPerRelease == Periodic(opts) => IF InJob THEN sem = 0 ELSE sem <= 1

(* Every job that finishes gets one row, and no job gets a row before it   *)
(* has finished: the rows and the end stamp still to be reported account   *)
(* for the finished jobs exactly (lines 307-326, 346-353, 623-624).        *)
ReportLedger ==
  Finished = IF SomeSet(jobEnd) THEN reported + 1 ELSE reported

(* The wait after the loop (lines 638-642) holds the process until the     *)
(* last job has its row too; the process then ends with the jobs asked for *)
(* launched, and all of them reported.                                     *)
AllReportedAtExit == pc = "exit" => launched = opts.tasks /\ reported = launched

(* The extra columns of a job's row are that job's, or missing:            *)
(* benchmark_log_data() runs after the end stamps, so a signal in between  *)
(* prints the row without them, but never with another job's.              *)
ExtraOfItsJob == row.kind = "job" => row.extra \in {0, reported}

(* When the handlers are no later than the slack between deadline and      *)
(* period, a job's row has every stamp, in the order things happened.      *)
JobRowComplete ==
  row.kind = "job" =>
    \A c \in WorkingClocks :
      /\ 0 < row.start[c]
      /\ row.start[c] <= row.periodEnd[c]
      /\ row.start[c] <= row.jobEnd[c]
      /\ row.start[c] <= row.deadline[c]

(* The verdict is about the job's own first deadline however many periods  *)
(* the job overruns: a job reported as met took no more than the deadline  *)
(* plus the latency of a handler, one reported as missed no less than the  *)
(* deadline minus that latency. (Stamps the clock's bound cuts are left    *)
(* out.)                                                                   *)
VerdictWithinLatency ==
  row.kind = "job" /\ Periodic(opts) =>
    \A c \in WorkingClocks :
      LET took == row.jobEnd[c] - row.start[c]
      IN  row.jobEnd[c] < MaxTime /\ row.deadline[c] < MaxTime =>
            IF Met(row) THEN took <= opts.deadline + MaxLatency
                        ELSE took >= opts.deadline - MaxLatency

(* A skipped deadline is reported only if it is not the first since the    *)
(* start of the job (lines 256-259, 328-336): from the second period end   *)
(* of that job on.                                                         *)
SkipsOnlyLaterDeadlines ==
  [][row'.kind = "skipped" /\ row' # row /\ now < MaxTime =>
       \A c \in WorkingClocks : now >= start[c] + 2 * Period(opts) - MaxLatency]_vars

(* With a number of jobs to launch, the process comes to its end: no lost  *)
(* release, no wait that is never answered.                                *)
Completes == opts.tasks > 0 => <>Stopped

(* A new period starts a job (mainpage.markdown:117), so the first one is  *)
(* started some time, unless the user quits.                               *)
FirstJobStarts == <>(pc = "running" \/ quit)

(* Where the job in progress stands, read off the program's state. *)
JobPhase ==
  IF SomeSet(jobEnd) THEN "finished"
  ELSE IF pc = "running" THEN "running"
  ELSE IF SomeSet(start) THEN "released" ELSE "idle"

(* The loop and its handlers implement the life of a job of PeriodicTask:  *)
(* period_handler() and the main thread, interleaved anyhow, report and    *)
(* release the jobs in the abstract order (lines 275-366, 584-642).        *)
Task == INSTANCE PeriodicTask WITH phase <- JobPhase, reported <- reported
ImplementsPeriodicTask == Task!TaskSpec
=============================================================================
