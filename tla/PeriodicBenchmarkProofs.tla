----------------------- MODULE PeriodicBenchmarkProofs ----------------------
(***************************************************************************)
(* Theorems about PeriodicBenchmark for every set of options, every number *)
(* of tasks, every period and deadline and every latency of the handlers.  *)
(***************************************************************************)
EXTENDS PeriodicBenchmark, TLAPS

(* What the theorems ask of the environment: both time sources work, no    *)
(* signal lands between the two end stamps, and periods are whole seconds. *)
(* Without any of the three the theorems are false: README, section 3.     *)
ProperEnvironment ==
  /\ WorkingClocks = Clock
  /\ ~InterruptibleEnd
  /\ \A o \in Options : o.nsec = 0

(* Both clocks of a stamp are set, or neither. *)
Whole(t) == SomeSet(t) => ~SomeUnset(t)

One(b) == IF b THEN 1 ELSE 0

(* Successful waits on the semaphore: one per job begun, one for the end. *)
Taken == launched + One(pc \in {"begin", "running", "ended", "log", "count", "exit"})

(* The stamps are whole but while the end is being stamped; a job that has *)
(* begun has its start, and one that runs has no end.                      *)
StampInv ==
  /\ now > 0
  /\ Whole(start)
  /\ pc # "ended" => Whole(jobEnd)
  /\ pc = "ended" => jobEnd["clocks"] > 0 /\ pending = {}
  /\ SomeSet(jobEnd) => SomeSet(start)
  /\ pc \in {"running", "ended"} => SomeSet(start)

(* With a period every release follows a report, but for the first; with   *)
(* none, the end of a job is reported before the loop goes on.             *)
ReleaseInv ==
  /\ Periodic(opts) => sem + Taken = reported + One(SomeSet(start))
  /\ ~Periodic(opts) /\ pc \notin {"ended", "log", "count"} => ~SomeSet(jobEnd)

(* The loop launches as many jobs as it was asked to. *)
CountInv ==
  /\ pc \in {"wait", "begin", "running", "ended", "log", "count"} /\ opts.tasks > 0
        => launched < opts.tasks
  /\ opts.tasks > 0 => launched <= opts.tasks
  /\ pc \in {"finalWait", "exit"} => launched = opts.tasks
  /\ pc = "finalWait" => Periodic(opts)

IInv == TypeOK /\ StampInv /\ ReportLedger /\ ReleaseInv /\ CountInv

-----------------------------------------------------------------------------
(* Facts about stamps. *)

(* A stamp taken after the clock's start is set for every clock that works. *)
LEMMA StampFacts ==
  ASSUME ProperEnvironment, now \in Nat, now > 0
  PROVE  /\ Stamp \in [Clock -> Nat]
         /\ \A c \in Clock : Stamp[c] = now
         /\ SomeSet(Stamp) /\ ~SomeUnset(Stamp)
BY DEF ProperEnvironment, Stamp, Clock, SomeSet, SomeUnset

(* The cleared stamp is set for no clock. *)
LEMMA UnsetFacts == Unset \in [Clock -> Nat] /\ ~SomeSet(Unset) /\ SomeUnset(Unset)
BY DEF Unset, Clock, SomeSet, SomeUnset

(* Stamping what is unset leaves nothing unset and keeps what was set. *)
LEMMA StampIfUnsetFacts ==
  ASSUME ProperEnvironment, now \in Nat, now > 0, NEW t \in [Clock -> Nat]
  PROVE  /\ StampIfUnset(t) \in [Clock -> Nat]
         /\ SomeSet(StampIfUnset(t)) /\ ~SomeUnset(StampIfUnset(t))
         /\ ~SomeUnset(t) => StampIfUnset(t) = t
BY StampFacts DEF StampIfUnset, Clock, SomeSet, SomeUnset

(* A whole stamp is set for a clock or unset for all. *)
LEMMA WholeFacts ==
  ASSUME NEW t \in [Clock -> Nat]
  PROVE  ~SomeSet(t) => t = Unset /\ SomeUnset(t)
BY DEF Clock, SomeSet, SomeUnset, Unset

-----------------------------------------------------------------------------
(* Type correctness. *)

(* The options have the members and the bounds OptionsAssumption states. *)
LEMMA OptionTypes ==
  ASSUME NEW o \in Options
  PROVE  o.sec \in Nat /\ o.nsec \in Nat /\ o.deadline \in Nat /\ o.tasks \in Nat
         /\ o.synch \in BOOLEAN /\ Period(o) \in Nat
BY OptionsAssumption, EnvironmentAssumption DEF OptionRecord, Period

(* Every stamp a handler writes is a stamp, working clocks or not. *)
LEMMA StampType ==
  ASSUME now \in Nat
  PROVE  /\ Stamp \in [Clock -> Nat]
         /\ \A t \in [Clock -> Nat] : StampIfUnset(t) \in [Clock -> Nat]
BY DEF Stamp, StampIfUnset

(* The body of the period handler keeps the types of what it writes. *)
LEMMA BodyType ==
  ASSUME TypeOK, NEW posts \in {0, 1}, PeriodHandlerBody(posts)
  PROVE  /\ deadlineLeft' \in Nat /\ sem' \in Nat /\ extra' \in Nat /\ reported' \in Nat
         /\ start' \in [Clock -> Nat] /\ periodEnd' \in [Clock -> Nat]
         /\ jobEnd' \in [Clock -> Nat] /\ jobDeadline' \in [Clock -> Nat]
         /\ lastDeadline' \in [Clock -> Nat] /\ row' \in RowSet
<1> USE DEF TypeOK
<1>1. FirstDeadline \in [Clock -> Nat] /\ LatestDeadline \in [Clock -> Nat]
  BY StampType DEF FirstDeadline, LatestDeadline
<1>2. JobRow \in RowSet
  BY <1>1, StampType DEF JobRow, RowSet
<1>3. SkippedRow \in RowSet
  BY <1>1, UnsetFacts DEF SkippedRow, NoRow, RowSet
<1>4. deadlineLeft' \in Nat /\ lastDeadline' \in [Clock -> Nat]
  BY <1>1, OptionTypes DEF PeriodHandlerBody
<1>5. extra' \in Nat /\ reported' \in Nat /\ row' \in RowSet
  BY <1>2, <1>3 DEF PeriodHandlerBody, Report, report
<1>6. /\ start' \in [Clock -> Nat] /\ periodEnd' \in [Clock -> Nat]
      /\ jobEnd' \in [Clock -> Nat] /\ jobDeadline' \in [Clock -> Nat] /\ sem' \in Nat
  BY <1>1, StampType, UnsetFacts DEF PeriodHandlerBody, ResetStamps
<1> QED
  BY <1>4, <1>5, <1>6

(* A wait takes a unit, or is interrupted and takes none. *)
LEMMA SemWaitFacts ==
  ASSUME sem \in Nat, eintr \in BOOLEAN, SemWaitReturns
  PROVE  /\ sem' \in Nat /\ eintr' \in BOOLEAN
         /\ eintr => sem' = sem
         /\ ~eintr => sem' = sem - 1
<1>1. CASE eintr
  BY <1>1 DEF SemWaitReturns
<1>2. CASE ~eintr
  <2>1. sem > 0 /\ sem' = sem - 1 /\ eintr' = FALSE
    BY <1>2, Zenon DEF SemWaitReturns
  <2>2. sem' \in Nat
    BY <2>1
  <2> QED
    BY <1>2, <2>1, <2>2, Zenon
<1> QED
  BY <1>1, <1>2

(* The initial states have the types. *)
LEMMA InitType == Init => TypeOK
<1> SUFFICES ASSUME Init PROVE TypeOK
  OBVIOUS
<1>1. periodLeft \in Nat
  BY OptionTypes, EnvironmentAssumption DEF Init
<1> QED
  BY <1>1, UnsetFacts DEF Init, TypeOK, NoRow, RowSet

(* Every step keeps the types. *)
LEMMA TypeStep == TypeOK /\ [Next]_vars => TypeOK'
<1> SUFFICES ASSUME TypeOK, [Next]_vars PROVE TypeOK'
  OBVIOUS
<1> USE DEF TypeOK, timers, stamps, report
<1>1. CASE Tick
  <2>1. opts.deadline \in Nat /\ Period(opts) \in Nat
    BY OptionTypes
  <2>2. periodLeft' \in Nat /\ deadlineLeft' \in Nat
    BY <1>1, <2>1 DEF Tick, CountDown
  <2>3. now' \in Nat /\ latency' \in Nat /\ pending' \subseteq {"period", "deadline"}
    BY <1>1, EnvironmentAssumption DEF Tick
  <2> QED
    BY <1>1, <2>2, <2>3 DEF Tick
<1>2. CASE DeadlineHandler
  BY <1>2, StampType DEF DeadlineHandler, Deliver
<1>3. CASE PeriodHandler
  BY <1>3, BodyType DEF PeriodHandler, Deliver
<1>4. CASE QuitHandler
  BY <1>4 DEF QuitHandler
<1>5. CASE LoopTest
  BY <1>5 DEF LoopTest, AfterLastJob
<1>6. CASE WaitForPeriod
  BY <1>6, SemWaitFacts DEF WaitForPeriod, LeaveWait
<1>7. CASE BeginJob
  BY <1>7, StampType DEF BeginJob
<1>8. CASE EndJob
  BY <1>8, StampType DEF EndJob, Clock
<1>9. CASE EndStampSecs
  BY <1>9, StampType DEF EndStampSecs, Clock
<1>10. CASE LogData
  BY <1>10 DEF LogData
<1>11. CASE CountJob
  BY <1>11, BodyType DEF CountJob
<1>12. CASE FinalWait
  BY <1>12, SemWaitFacts DEF FinalWait
<1>13. CASE UNCHANGED vars
  BY <1>13 DEF vars
<1> QED
  BY <1>1, <1>2, <1>3, <1>4, <1>5, <1>6, <1>7, <1>8, <1>9, <1>10, <1>11, <1>12, <1>13
     DEF Next, MainThread, Terminated

(* The variables keep their types in every reachable state, for every set  *)
(* of options and every latency: no semaphore count, stamp or countdown    *)
(* ever leaves the naturals.                                               *)
THEOREM TypeCorrect == Spec => []TypeOK
BY InitType, TypeStep, PTL DEF Spec

-----------------------------------------------------------------------------
(* The inductive invariant. *)

(* What one run of the period handler does: it reports the job that ended  *)
(* and releases the next, releases the first, or does neither.             *)
LEMMA BodyFacts ==
  ASSUME ProperEnvironment, TypeOK, now > 0, Whole(start), Whole(jobEnd),
         SomeSet(jobEnd) => SomeSet(start),
         NEW posts \in {0, 1}, PeriodHandlerBody(posts)
  PROVE  \/ /\ SomeSet(jobEnd) /\ SomeSet(start)
            /\ SomeSet(start') /\ ~SomeUnset(start') /\ ~SomeSet(jobEnd')
            /\ reported' = reported + 1 /\ sem' = sem + posts
         \/ /\ ~SomeSet(jobEnd) /\ ~SomeSet(start)
            /\ SomeSet(start') /\ ~SomeUnset(start') /\ ~SomeSet(jobEnd')
            /\ reported' = reported /\ sem' = sem + posts
         \/ /\ ~SomeSet(jobEnd) /\ SomeSet(start)
            /\ start' = start /\ jobEnd' = jobEnd
            /\ reported' = reported /\ sem' = sem
<1>1. reported' = IF SomeSet(start) /\ SomeSet(jobEnd) THEN reported + 1 ELSE reported
  BY DEF PeriodHandlerBody, Report, report
<1>2. ReleaseNext <=> SomeSet(jobEnd) \/ ~SomeSet(start)
  BY WholeFacts DEF ReleaseNext, Whole, TypeOK
<1>3. CASE ReleaseNext
  <2>1. start' = Stamp /\ jobEnd' = Unset /\ sem' = sem + posts
    BY <1>3, Zenon DEF PeriodHandlerBody, ResetStamps
  <2>2. SomeSet(start') /\ ~SomeUnset(start') /\ ~SomeSet(jobEnd')
    BY <2>1, StampFacts, UnsetFacts DEF TypeOK
  <2> QED
    BY <1>1, <1>2, <1>3, <2>1, <2>2
<1>4. CASE ~ReleaseNext
  <2>1. start' = start /\ jobEnd' = jobEnd /\ sem' = sem
    BY <1>4, Zenon DEF PeriodHandlerBody
  <2> QED
    BY <1>1, <1>2, <1>4, <2>1
<1> QED
  BY <1>3, <1>4

(* A job that is about to start or runs has not ended, and with a period   *)
(* it was released and is the only one that was.                           *)
LEMMA JobInProgress ==
  ASSUME IInv, pc \in {"begin", "running"}
  PROVE  /\ ~SomeSet(jobEnd) /\ launched = reported
         /\ Periodic(opts) => SomeSet(start) /\ sem = 0
<1>1. sem \in Nat /\ launched \in Nat /\ reported \in Nat
  BY DEF IInv, TypeOK
<1>2. Finished = launched /\ Taken = launched + 1
  BY DEF Finished, Taken, One
<1>3. launched = reported + One(SomeSet(jobEnd))
  BY <1>1, <1>2 DEF IInv, ReportLedger, One
<1>4. CASE Periodic(opts)
  BY <1>1, <1>2, <1>3, <1>4 DEF IInv, ReleaseInv, StampInv, One
<1>5. CASE ~Periodic(opts)
  BY <1>1, <1>3, <1>5 DEF IInv, ReleaseInv, One
<1> QED
  BY <1>4, <1>5

(* The initial states satisfy the invariant. *)
LEMMA InvInit ==
  ASSUME ProperEnvironment, Init
  PROVE  IInv
<1>1. TypeOK
  BY InitType
<1>2. StampInv
  BY UnsetFacts DEF Init, StampInv, Whole
<1>3. ReportLedger /\ ReleaseInv
  BY UnsetFacts DEF Init, ReportLedger, Finished, ReleaseInv, Taken, One
<1>4. CountInv
  BY <1>1, OptionTypes DEF Init, CountInv, TypeOK
<1> QED
  BY <1>1, <1>2, <1>3, <1>4 DEF IInv

(* Steps that touch neither the stamps nor the ledger keep the invariant.  *)
LEMMA StutterStep ==
  ASSUME IInv, TypeOK', now' > 0,
         UNCHANGED <<opts, pc, sem, start, jobEnd, launched, reported>>,
         pc = "ended" => pending' = {}
  PROVE  IInv'
<1>1. StampInv'
  BY DEF IInv, StampInv
<1>2. ReportLedger' /\ ReleaseInv'
  BY DEF IInv, ReportLedger, Finished, ReleaseInv, Taken
<1>3. CountInv'
  BY DEF IInv, CountInv
<1> QED
  BY <1>1, <1>2, <1>3 DEF IInv

(* The timers, the deadline's handler and SIGINT. *)
LEMMA BackgroundStep ==
  ASSUME ProperEnvironment, IInv, Tick \/ DeadlineHandler \/ QuitHandler, TypeOK'
  PROVE  IInv'
<1>1. TypeOK /\ StampInv
  BY DEF IInv
<1>2. CASE Tick
  <2>1. now' > 0 /\ pc # "ended"
    BY <1>1, <1>2, EnvironmentAssumption DEF Tick, TypeOK, StampInv, ProperEnvironment
  <2> QED
    BY <1>2, <2>1, StutterStep DEF Tick, stamps, report
<1>3. CASE DeadlineHandler
  <2>1. now' > 0 /\ pc # "ended"
    BY <1>1, <1>3 DEF DeadlineHandler, Deliver, StampInv
  <2> QED
    BY <1>3, <2>1, StutterStep DEF DeadlineHandler, report
<1>4. CASE QuitHandler
  BY <1>1, <1>4, StutterStep DEF QuitHandler, StampInv, stamps, report
<1> QED
  BY <1>2, <1>3, <1>4

(* The end of a period. *)
LEMMA PeriodHandlerStep ==
  ASSUME ProperEnvironment, IInv, PeriodHandler, TypeOK'
  PROVE  IInv'
<1>1. TypeOK /\ StampInv /\ ReportLedger /\ ReleaseInv /\ CountInv
  BY DEF IInv
<1>2. UNCHANGED <<opts, pc, now, launched>> /\ pc # "ended"
  BY <1>1 DEF PeriodHandler, Deliver, StampInv
<1>3. PeriodHandlerBody(1) /\ Whole(start) /\ Whole(jobEnd) /\ now > 0
      /\ (SomeSet(jobEnd) => SomeSet(start))
  BY <1>1, <1>2 DEF PeriodHandler, StampInv
<1>4. \/ /\ SomeSet(jobEnd) /\ SomeSet(start)
         /\ SomeSet(start') /\ ~SomeUnset(start') /\ ~SomeSet(jobEnd')
         /\ reported' = reported + 1 /\ sem' = sem + 1
      \/ /\ ~SomeSet(jobEnd) /\ ~SomeSet(start)
         /\ SomeSet(start') /\ ~SomeUnset(start') /\ ~SomeSet(jobEnd')
         /\ reported' = reported /\ sem' = sem + 1
      \/ /\ ~SomeSet(jobEnd) /\ SomeSet(start)
         /\ start' = start /\ jobEnd' = jobEnd
         /\ reported' = reported /\ sem' = sem
  BY <1>1, <1>3, BodyFacts
<1>5. StampInv'
  BY <1>1, <1>2, <1>3, <1>4 DEF StampInv, Whole
<1>6. ReportLedger'
  BY <1>1, <1>2, <1>4 DEF ReportLedger, Finished, TypeOK
<1>7. Taken' = Taken /\ Taken \in Nat
  BY <1>1, <1>2 DEF Taken, One, TypeOK
<1>8. ReleaseInv'
  BY <1>1, <1>2, <1>4, <1>7 DEF ReleaseInv, One, TypeOK
<1>9. CountInv'
  BY <1>1, <1>2 DEF CountInv
<1> QED
  BY <1>5, <1>6, <1>8, <1>9 DEF IInv

(* The two waits on the semaphore, and the test of the loop. *)
LEMMA WaitStep ==
  ASSUME ProperEnvironment, IInv, LoopTest \/ WaitForPeriod \/ FinalWait, TypeOK'
  PROVE  IInv'
<1>1. TypeOK /\ StampInv /\ ReportLedger /\ ReleaseInv /\ CountInv
  BY DEF IInv
<1>2. opts.tasks \in Nat /\ opts.nsec = 0
  BY <1>1, OptionTypes DEF TypeOK, ProperEnvironment
<1>3. UNCHANGED <<opts, now, start, jobEnd, launched, reported>>
  BY DEF LoopTest, WaitForPeriod, FinalWait, stamps, report
<1>4. CASE LoopTest
  <2>1. /\ pc = "loop" /\ sem' = sem
        /\ \/ pc' \in {"wait", "begin"} /\ (opts.tasks > 0 => launched < opts.tasks)
              /\ (pc' = "begin" => ~Periodic(opts))
           \/ /\ opts.tasks > 0 /\ ~(launched < opts.tasks)
              /\ pc' = IF Periodic(opts) THEN "finalWait" ELSE "exit"
    BY <1>2, <1>4 DEF LoopTest, At, AfterLastJob
  <2>2. StampInv' /\ CountInv'
    BY <1>1, <1>2, <1>3, <2>1 DEF StampInv, CountInv, TypeOK
  <2>3. ReportLedger' /\ ReleaseInv'
    BY <1>1, <1>3, <2>1 DEF ReportLedger, Finished, ReleaseInv, Taken, One, TypeOK
  <2> QED
    BY <2>2, <2>3 DEF IInv
<1>5. CASE WaitForPeriod
  <2>1. /\ pc = "wait"
        /\ \/ pc' = "wait" /\ sem' = sem
           \/ pc' = "begin" /\ sem' = sem - 1
    <3>1. CASE eintr
      BY <1>1, <1>5, <3>1, SemWaitFacts DEF WaitForPeriod, At, WaitAgain, TypeOK
    <3>2. CASE ~eintr
      <4>1. pc = "wait" /\ pc' = "begin"
        BY <1>2, <1>5, <3>2 DEF WaitForPeriod, At, WaitAgain, LeaveWait
      <4>2. sem' = sem - 1
        BY <1>1, <1>5, <3>2, SemWaitFacts DEF WaitForPeriod, TypeOK
      <4> QED
        BY <4>1, <4>2
    <3> QED
      BY <3>1, <3>2
  <2>2. StampInv' /\ CountInv'
    BY <1>1, <1>3, <2>1 DEF StampInv, CountInv
  <2>3. ReportLedger'
    BY <1>1, <1>3, <2>1 DEF ReportLedger, Finished
  <2>4. sem' + Taken' = sem + Taken
    <3>1. sem \in Nat /\ launched \in Nat /\ launched' = launched
      BY <1>1, <1>3 DEF TypeOK
    <3> QED
      BY <2>1, <3>1 DEF Taken, One
  <2>5. ReleaseInv'
    BY <1>1, <1>3, <2>1, <2>4 DEF ReleaseInv
  <2> QED
    BY <2>2, <2>3, <2>5 DEF IInv
<1>6. CASE FinalWait
  <2>1. /\ pc = "finalWait"
        /\ \/ pc' = "finalWait" /\ sem' = sem
           \/ pc' = "exit" /\ sem' = sem - 1
    BY <1>1, <1>6, SemWaitFacts, Zenon DEF FinalWait, At, TypeOK
  <2>2. StampInv' /\ CountInv'
    BY <1>1, <1>3, <2>1 DEF StampInv, CountInv
  <2>3. ReportLedger'
    BY <1>1, <1>3, <2>1 DEF ReportLedger, Finished
  <2>4. sem' + Taken' = sem + Taken
    <3>1. sem \in Nat /\ launched \in Nat /\ launched' = launched
      BY <1>1, <1>3 DEF TypeOK
    <3> QED
      BY <2>1, <3>1 DEF Taken, One
  <2>5. ReleaseInv'
    BY <1>1, <1>3, <2>1, <2>4 DEF ReleaseInv
  <2> QED
    BY <2>2, <2>3, <2>5 DEF IInv
<1> QED
  BY <1>4, <1>5, <1>6

(* The job itself: its start, its end in two stamps, its extra data. *)
LEMMA JobStep ==
  ASSUME ProperEnvironment, IInv, BeginJob \/ EndJob \/ EndStampSecs \/ LogData, TypeOK'
  PROVE  IInv'
<1>1. TypeOK /\ StampInv /\ ReportLedger /\ ReleaseInv /\ CountInv
  BY DEF IInv
<1>2. /\ sem \in Nat /\ launched \in Nat /\ reported \in Nat /\ now \in Nat /\ now > 0
      /\ start \in [Clock -> Nat] /\ jobEnd \in [Clock -> Nat]
  BY <1>1 DEF TypeOK, StampInv
<1>3. UNCHANGED <<opts, now, pending, sem, launched, reported>>
  BY DEF BeginJob, EndJob, EndStampSecs, LogData, stamps, report
<1>4. CASE BeginJob
  <2>1. pc = "begin" /\ pc' = "running" /\ jobEnd' = jobEnd /\ start' = StampIfUnset(start)
    BY <1>4 DEF BeginJob, At
  <2>2. ~SomeSet(jobEnd) /\ (Periodic(opts) => SomeSet(start))
    BY <2>1, JobInProgress
  <2>3. SomeSet(start') /\ ~SomeUnset(start')
    BY <1>2, <2>1, StampIfUnsetFacts
  <2>4. StampInv' /\ CountInv'
    BY <1>1, <1>3, <2>1, <2>2, <2>3 DEF StampInv, CountInv, Whole
  <2>5. ReportLedger' /\ ReleaseInv'
    BY <1>1, <1>3, <2>1, <2>2, <2>3 DEF ReportLedger, Finished, ReleaseInv, Taken
  <2> QED
    BY <2>4, <2>5 DEF IInv
<1>5. CASE EndJob
  <2>1. /\ pc = "running" /\ pc' = "ended" /\ start' = start /\ pending = {}
        /\ jobEnd' = [jobEnd EXCEPT !["clocks"] = Stamp["clocks"]]
    BY <1>5 DEF EndJob, At
  <2>2. ~SomeSet(jobEnd) /\ launched = reported
    BY <2>1, JobInProgress
  <2>3. jobEnd'["clocks"] > 0 /\ SomeSet(jobEnd')
    BY <1>2, <2>1, StampFacts DEF Clock, SomeSet
  <2>4. StampInv' /\ CountInv'
    BY <1>1, <1>3, <2>1, <2>3 DEF StampInv, CountInv
  <2>5. ReportLedger'
    BY <1>2, <1>3, <2>1, <2>2, <2>3 DEF ReportLedger, Finished
  <2>6. ReleaseInv'
    BY <1>1, <1>3, <2>1 DEF ReleaseInv, Taken
  <2> QED
    BY <2>4, <2>5, <2>6 DEF IInv
<1>6. CASE EndStampSecs
  <2>1. /\ pc = "ended" /\ pc' = "log" /\ start' = start
        /\ jobEnd' = [jobEnd EXCEPT !["secs"] = Stamp["secs"]]
    BY <1>6 DEF EndStampSecs, At
  <2>2. jobEnd["clocks"] > 0
    BY <1>1, <2>1 DEF StampInv
  <2>3. SomeSet(jobEnd) /\ SomeSet(jobEnd') /\ ~SomeUnset(jobEnd')
    BY <1>2, <2>1, <2>2, StampFacts DEF Clock, SomeSet, SomeUnset
  <2>4. StampInv' /\ CountInv'
    BY <1>1, <1>3, <2>1, <2>3 DEF StampInv, CountInv, Whole
  <2>5. ReportLedger' /\ ReleaseInv'
    BY <1>1, <1>3, <2>1, <2>3 DEF ReportLedger, Finished, ReleaseInv, Taken
  <2> QED
    BY <2>4, <2>5 DEF IInv
<1>7. CASE LogData
  <2>1. pc = "log" /\ pc' = "count" /\ start' = start /\ jobEnd' = jobEnd
    BY <1>7 DEF LogData, At, stamps
  <2>2. StampInv' /\ CountInv'
    BY <1>1, <1>3, <2>1 DEF StampInv, CountInv
  <2>3. ReportLedger' /\ ReleaseInv'
    BY <1>1, <1>3, <2>1 DEF ReportLedger, Finished, ReleaseInv, Taken
  <2> QED
    BY <2>2, <2>3 DEF IInv
<1> QED
  BY <1>4, <1>5, <1>6, <1>7

(* The job is counted, and without a period reported in the same step. *)
LEMMA CountStep ==
  ASSUME ProperEnvironment, IInv, CountJob, TypeOK'
  PROVE  IInv'
<1>1. TypeOK /\ StampInv /\ ReportLedger /\ ReleaseInv /\ CountInv
  BY DEF IInv
<1>2. /\ sem \in Nat /\ launched \in Nat /\ reported \in Nat
      /\ opts.tasks \in Nat
  BY <1>1, OptionTypes DEF TypeOK
<1>3. UNCHANGED <<opts, now, pending>> /\ pc = "count" /\ pc' = "loop"
      /\ launched' = launched + 1
  BY DEF CountJob, At
<1>4. CountInv'
  BY <1>1, <1>2, <1>3 DEF CountInv
<1>5. Finished' = Finished
  BY <1>2, <1>3 DEF Finished
<1>6. CASE Periodic(opts)
  <2>1. UNCHANGED <<sem, start, jobEnd, reported>>
    BY <1>6 DEF CountJob, stamps, report
  <2>2. StampInv' /\ ReportLedger'
    BY <1>1, <1>3, <1>5, <2>1 DEF StampInv, ReportLedger
  <2>3. ReleaseInv'
    BY <1>1, <1>2, <1>3, <1>6, <2>1 DEF ReleaseInv, Taken, One
  <2> QED
    BY <1>4, <2>2, <2>3 DEF IInv
<1>7. CASE ~Periodic(opts)
  <2>1. PeriodHandlerBody(0) /\ Whole(start) /\ Whole(jobEnd) /\ now > 0
        /\ (SomeSet(jobEnd) => SomeSet(start))
    BY <1>1, <1>3, <1>7 DEF CountJob, StampInv
  <2>2. \/ /\ SomeSet(jobEnd) /\ SomeSet(start)
           /\ SomeSet(start') /\ ~SomeUnset(start') /\ ~SomeSet(jobEnd')
           /\ reported' = reported + 1
        \/ /\ ~SomeSet(jobEnd) /\ ~SomeSet(start)
           /\ SomeSet(start') /\ ~SomeUnset(start') /\ ~SomeSet(jobEnd')
           /\ reported' = reported
        \/ /\ ~SomeSet(jobEnd) /\ SomeSet(start)
           /\ start' = start /\ jobEnd' = jobEnd
           /\ reported' = reported
    BY <1>1, <2>1, BodyFacts
  <2>3. StampInv'
    BY <1>1, <1>3, <2>1, <2>2 DEF StampInv, Whole
  <2>4. ReportLedger'
    BY <1>1, <1>2, <1>5, <2>2 DEF ReportLedger
  <2>5. ReleaseInv'
    BY <1>3, <1>7, <2>2 DEF ReleaseInv
  <2> QED
    BY <1>4, <2>3, <2>4, <2>5 DEF IInv
<1> QED
  BY <1>6, <1>7

(* Every step keeps the invariant. *)
LEMMA InvStep ==
  ASSUME ProperEnvironment, IInv, [Next]_vars
  PROVE  IInv'
<1>1. TypeOK'
  BY TypeStep DEF IInv
<1>2. CASE UNCHANGED vars
  BY <1>1, <1>2, StutterStep DEF vars, stamps, report, IInv, StampInv
<1> QED
  BY <1>1, <1>2, BackgroundStep, PeriodHandlerStep, WaitStep, JobStep, CountStep
     DEF Next, MainThread, Terminated

(* The invariant holds in every reachable state. *)
LEMMA InvCorrect ==
  ASSUME ProperEnvironment
  PROVE  Spec => []IInv
<1>1. Init => IInv
  BY InvInit
<1>2. IInv /\ [Next]_vars => IInv'
  BY InvStep
<1> QED
  BY <1>1, <1>2, PTL DEF Spec

-----------------------------------------------------------------------------
(* The properties of the job loop. *)

(* Every finished job has one row or its end stamp still waits for the     *)
(* handler that writes it: no job is reported twice, early or never, for   *)
(* every number of tasks and wherever the signals interrupt the loop.      *)
THEOREM LedgerCorrect ==
  ASSUME ProperEnvironment
  PROVE  Spec => []ReportLedger
<1>1. IInv => ReportLedger
  BY DEF IInv
<1> QED
  BY <1>1, InvCorrect, PTL

(* With a period, the semaphore never holds a release while a job is       *)
(* released or running, and never more than one.                           *)
THEOREM ReleaseCorrect ==
  ASSUME ProperEnvironment
  PROVE  Spec => []OneJobPerRelease
<1>1. IInv => OneJobPerRelease
  <2> SUFFICES ASSUME IInv, Periodic(opts) PROVE IF InJob THEN sem = 0 ELSE sem <= 1
    BY DEF OneJobPerRelease
  <2>1. sem \in Nat /\ launched \in Nat /\ reported \in Nat
    BY DEF IInv, TypeOK
  <2>2. Finished >= reported /\ (pc = "ended" => launched = reported)
    BY <2>1 DEF IInv, StampInv, ReportLedger, Finished, SomeSet, Clock
  <2>3. sem + Taken <= reported + 1
    BY <2>1 DEF IInv, ReleaseInv, One, Taken
  <2>4. CASE pc \in {"begin", "running"}
    BY <2>4, JobInProgress DEF InJob
  <2>5. CASE pc = "ended"
    BY <2>1, <2>2, <2>3, <2>5 DEF InJob, Taken, One
  <2>6. CASE ~InJob
    BY <2>1, <2>2, <2>3, <2>6 DEF Taken, One, Finished
  <2> QED
    BY <2>4, <2>5, <2>6 DEF InJob
<1> QED
  BY <1>1, InvCorrect, PTL

(* The process leaves the loop's last wait with every job it was asked for *)
(* launched and reported.                                                  *)
THEOREM ExitCorrect ==
  ASSUME ProperEnvironment
  PROVE  Spec => []AllReportedAtExit
<1>1. IInv => AllReportedAtExit
  <2> SUFFICES ASSUME IInv, pc = "exit"
               PROVE  launched = opts.tasks /\ reported = launched
    BY DEF AllReportedAtExit
  <2>1. sem \in Nat /\ launched \in Nat /\ reported \in Nat
    BY DEF IInv, TypeOK
  <2>2. launched = reported + One(SomeSet(jobEnd))
    BY <2>1 DEF IInv, ReportLedger, Finished, One
  <2>3. reported = launched
    <3>1. CASE Periodic(opts)
      BY <2>1, <2>2, <3>1 DEF IInv, ReleaseInv, Taken, One
    <3>2. CASE ~Periodic(opts)
      BY <2>1, <2>2, <3>2 DEF IInv, ReleaseInv, One
    <3> QED
      BY <3>1, <3>2
  <2> QED
    BY <2>3 DEF IInv, CountInv
<1> QED
  BY <1>1, InvCorrect, PTL

-----------------------------------------------------------------------------
(* Whose data the extra columns hold. *)

(* The data that is valid is that of the last job to have finished, and it *)
(* is gone before another job begins.                                      *)
ExtraInv ==
  /\ extra \in {0, Finished}
  /\ pc \in {"begin", "running", "ended", "log"} => extra = 0
  /\ ~Periodic(opts) /\ pc = "loop" => extra = 0
  /\ pc \in {"log", "count"} => SomeSet(start)
  /\ ExtraOfItsJob

(* The period handler uses the data up with the row, or leaves it alone.   *)
LEMMA BodyExtra ==
  ASSUME ProperEnvironment, IInv, ExtraInv, NEW posts \in {0, 1}, PeriodHandlerBody(posts)
  PROVE  /\ extra' \in {0, extra}
         /\ SomeSet(start) => extra' = 0
         /\ SomeSet(start')
         /\ ExtraOfItsJob'
<1>1. /\ reported \in Nat /\ start \in [Clock -> Nat] /\ now \in Nat /\ now > 0
      /\ SomeSet(jobEnd) => SomeSet(start)
  BY DEF IInv, TypeOK, StampInv
<1>2. extra' = IF SomeSet(start) THEN 0 ELSE extra
  BY <1>1 DEF PeriodHandlerBody, Report
<1>3. SomeSet(start')
  <2>1. CASE ReleaseNext
    BY <1>1, <2>1, StampFacts, Zenon DEF PeriodHandlerBody
  <2>2. CASE ~ReleaseNext
    <3>1. start' = start
      BY <2>2, Zenon DEF PeriodHandlerBody
    <3> QED
      BY <1>1, <2>2, <3>1, WholeFacts DEF ReleaseNext
  <2> QED
    BY <2>1, <2>2
<1>4. ExtraOfItsJob'
  <2>1. CASE SomeSet(start) /\ SomeSet(jobEnd)
    <3>1. row' = JobRow /\ reported' = reported + 1
      BY <2>1 DEF PeriodHandlerBody, Report
    <3>2. Finished = reported + 1
      BY <2>1 DEF IInv, ReportLedger
    <3> QED
      BY <3>1, <3>2 DEF ExtraInv, ExtraOfItsJob, JobRow
  <2>2. CASE ~(SomeSet(start) /\ SomeSet(jobEnd))
    <3>1. reported' = reported /\ (row' = row \/ row' = SkippedRow)
      BY <1>1, <2>2 DEF PeriodHandlerBody, Report, report
    <3>2. SkippedRow.kind = "skipped"
      BY DEF SkippedRow, NoRow
    <3> QED
      BY <3>1, <3>2 DEF ExtraInv, ExtraOfItsJob
  <2> QED
    BY <2>1, <2>2
<1> QED
  BY <1>2, <1>3, <1>4

(* Every step keeps the data to its job. *)
LEMMA ExtraStep ==
  ASSUME ProperEnvironment, IInv, ExtraInv, [Next]_vars
  PROVE  ExtraInv'
<1>1. /\ TypeOK /\ launched \in Nat /\ extra \in Nat
      /\ pc \in {"running", "ended"} => SomeSet(start)
  BY DEF IInv, TypeOK, StampInv
<1>2. CASE UNCHANGED <<opts, pc, launched, start, extra, report>>
  BY <1>2 DEF ExtraInv, ExtraOfItsJob, Finished, report
<1>3. CASE Tick \/ DeadlineHandler \/ QuitHandler \/ Terminated \/ FinalWait \/ UNCHANGED vars
  <2>1. CASE Tick \/ DeadlineHandler \/ QuitHandler \/ Terminated \/ UNCHANGED vars
    BY <1>2, <2>1 DEF Tick, DeadlineHandler, QuitHandler, Terminated, vars, stamps
  <2>2. CASE FinalWait
    <3>1. /\ pc = "finalWait" /\ pc' \in {"finalWait", "exit"}
          /\ UNCHANGED <<opts, launched, start, extra, row, reported>>
      BY <2>2 DEF FinalWait, At, stamps, report
    <3> QED
      BY <3>1 DEF ExtraInv, ExtraOfItsJob, Finished
  <2> QED
    BY <1>3, <2>1, <2>2
<1>4. CASE PeriodHandler
  <2>1. UNCHANGED <<opts, pc, launched>> /\ PeriodHandlerBody(1)
    BY <1>4 DEF PeriodHandler
  <2> QED
    BY <2>1, BodyExtra DEF ExtraInv, Finished
<1>5. CASE LoopTest
  <2>1. /\ pc = "loop" /\ pc' \in {"wait", "begin", "finalWait", "exit"}
        /\ pc' = "begin" => ~Periodic(opts)
        /\ UNCHANGED <<opts, launched, start, extra, row, reported>>
    BY <1>5 DEF LoopTest, At, AfterLastJob, stamps, report
  <2> QED
    BY <2>1 DEF ExtraInv, ExtraOfItsJob, Finished
<1>6. CASE WaitForPeriod
  <2>1. /\ pc = "wait" /\ UNCHANGED <<opts, launched, start, row, reported>>
        /\ \/ pc' = "wait" /\ extra' = extra
           \/ pc' = "begin" /\ extra' = 0
    BY <1>6 DEF WaitForPeriod, LeaveWait, At, stamps, report
  <2> QED
    BY <2>1 DEF ExtraInv, ExtraOfItsJob, Finished
<1>7. CASE BeginJob \/ EndJob \/ EndStampSecs
  <2>1. /\ pc' \in {"running", "ended", "log"} /\ pc \in {"begin", "running", "ended"}
        /\ UNCHANGED <<opts, launched, extra, row, reported>>
        /\ pc' = "log" => pc = "ended" /\ start' = start
    BY <1>7 DEF BeginJob, EndJob, EndStampSecs, At, report
  <2> QED
    BY <1>1, <2>1 DEF ExtraInv, ExtraOfItsJob
<1>8. CASE LogData
  <2>1. /\ pc = "log" /\ pc' = "count" /\ extra' \in {extra, launched + 1}
        /\ UNCHANGED <<opts, launched, start, row, reported>>
    BY <1>8 DEF LogData, At, stamps, report
  <2> QED
    BY <2>1 DEF ExtraInv, ExtraOfItsJob, Finished
<1>9. CASE CountJob
  <2>1. /\ pc = "count" /\ pc' = "loop" /\ launched' = launched + 1 /\ opts' = opts
        /\ SomeSet(start)
    BY <1>9 DEF CountJob, At, ExtraInv
  <2>2. CASE Periodic(opts)
    <3>1. UNCHANGED <<extra, row, reported>>
      BY <1>9, <2>2 DEF CountJob, report
    <3> QED
      BY <2>1, <2>2, <3>1 DEF ExtraInv, ExtraOfItsJob, Finished
  <2>3. CASE ~Periodic(opts)
    <3>1. PeriodHandlerBody(0)
      BY <1>9, <2>3 DEF CountJob
    <3> QED
      BY <2>1, <3>1, BodyExtra DEF ExtraInv
  <2> QED
    BY <2>2, <2>3
<1> QED
  BY <1>3, <1>4, <1>5, <1>6, <1>7, <1>8, <1>9 DEF Next, MainThread

(* A job's row carries that job's extra columns or none, wherever a signal *)
(* falls between the end of the job, benchmark_log_data() and the counter. *)
THEOREM ExtraCorrect ==
  ASSUME ProperEnvironment
  PROVE  Spec => []ExtraOfItsJob
<1>1. Init => ExtraInv
  BY UnsetFacts DEF Init, ExtraInv, ExtraOfItsJob, Finished, NoRow
<1>2. IInv /\ ExtraInv /\ [Next]_vars => ExtraInv'
  BY ExtraStep
<1>3. ExtraInv => ExtraOfItsJob
  BY DEF ExtraInv
<1> QED
  BY <1>1, <1>2, <1>3, InvCorrect, PTL DEF Spec

-----------------------------------------------------------------------------
(* The refinement of PeriodicTask. *)

(* One run of the period handler reports and releases, releases the first  *)
(* job, or is a stuttering step.                                           *)
LEMMA BodyRefines ==
  ASSUME ProperEnvironment, IInv, pc # "ended", pc' = "running" <=> pc = "running",
         NEW posts \in {0, 1}, PeriodHandlerBody(posts)
  PROVE  [Task!TaskNext]_(Task!taskVars)
<1>1. TypeOK /\ StampInv
  BY DEF IInv
<1>2. \/ /\ SomeSet(jobEnd) /\ SomeSet(start)
         /\ SomeSet(start') /\ ~SomeUnset(start') /\ ~SomeSet(jobEnd')
         /\ reported' = reported + 1
      \/ /\ ~SomeSet(jobEnd) /\ ~SomeSet(start)
         /\ SomeSet(start') /\ ~SomeUnset(start') /\ ~SomeSet(jobEnd')
         /\ reported' = reported
      \/ /\ ~SomeSet(jobEnd) /\ SomeSet(start)
         /\ start' = start /\ jobEnd' = jobEnd
         /\ reported' = reported
  BY <1>1, BodyFacts DEF StampInv
<1>3. CASE SomeSet(jobEnd)
  <2>1. pc # "running"
    BY <1>3, JobInProgress
  <2>2. JobPhase = "finished" /\ JobPhase' = "released"
    BY <1>2, <1>3, <2>1 DEF JobPhase
  <2> QED
    BY <1>2, <1>3, <2>2 DEF Task!TaskNext, Task!ReportAndRelease
<1>4. CASE ~SomeSet(jobEnd) /\ ~SomeSet(start)
  <2>1. pc # "running"
    BY <1>1, <1>4 DEF StampInv
  <2>2. JobPhase = "idle" /\ JobPhase' = "released"
    BY <1>2, <1>4, <2>1 DEF JobPhase
  <2> QED
    BY <1>2, <1>4, <2>2 DEF Task!TaskNext, Task!FirstRelease
<1>5. CASE ~SomeSet(jobEnd) /\ SomeSet(start)
  <2>1. JobPhase' = JobPhase /\ reported' = reported
    BY <1>2, <1>5 DEF JobPhase
  <2> QED
    BY <2>1 DEF Task!taskVars
<1> QED
  BY <1>3, <1>4, <1>5

(* Every step of the program is a step of the job's life or a stutter. *)
LEMMA StepRefines ==
  ASSUME ProperEnvironment, IInv, [Next]_vars
  PROVE  [Task!TaskNext]_(Task!taskVars)
<1>1. TypeOK /\ StampInv /\ sem \in Nat
  BY DEF IInv, TypeOK
<1>2. ASSUME UNCHANGED <<start, jobEnd, reported>>,
             pc' = pc \/ (pc \notin {"begin", "running"} /\ pc' # "running")
      PROVE  [Task!TaskNext]_(Task!taskVars)
  <2>1. JobPhase' = JobPhase
    BY <1>2 DEF JobPhase
  <2> QED
    BY <1>2, <2>1 DEF Task!taskVars
<1>3. CASE Tick \/ DeadlineHandler \/ QuitHandler \/ UNCHANGED vars
  <2>1. UNCHANGED <<start, jobEnd, reported>> /\ pc' = pc
    BY <1>3, Zenon DEF Tick, DeadlineHandler, Deliver, QuitHandler, vars, stamps, report
  <2> QED
    BY <1>2, <2>1
<1>4. CASE LoopTest \/ WaitForPeriod \/ FinalWait \/ LogData
  <2>1. UNCHANGED <<start, jobEnd, reported>>
    BY <1>4 DEF LoopTest, WaitForPeriod, FinalWait, LogData, stamps, report
  <2>2. pc \notin {"begin", "running"} /\ pc' # "running"
    BY <1>4, Zenon DEF LoopTest, WaitForPeriod, FinalWait, LogData, At, AfterLastJob, LeaveWait
  <2> QED
    BY <1>2, <2>1, <2>2
<1>5. CASE PeriodHandler
  <2>1. pc' = pc /\ pc # "ended" /\ PeriodHandlerBody(1)
    BY <1>1, <1>5 DEF PeriodHandler, Deliver, StampInv
  <2> QED
    BY <2>1, BodyRefines
<1>6. CASE BeginJob
  <2>1. pc = "begin" /\ pc' = "running" /\ UNCHANGED <<jobEnd, reported>>
    BY <1>6 DEF BeginJob, At, report
  <2>2. ~SomeSet(jobEnd)
    BY <2>1, JobInProgress
  <2>3. JobPhase \in {"idle", "released"} /\ JobPhase' = "running"
    BY <2>1, <2>2 DEF JobPhase
  <2> QED
    BY <2>1, <2>3 DEF Task!TaskNext, Task!StartJob
<1>7. CASE EndJob
  <2>1. /\ pc = "running" /\ pc' = "ended" /\ reported' = reported
        /\ jobEnd' = [jobEnd EXCEPT !["clocks"] = Stamp["clocks"]]
    BY <1>7 DEF EndJob, At, report
  <2>2. ~SomeSet(jobEnd)
    BY <2>1, JobInProgress
  <2>3. now \in Nat /\ now > 0 /\ jobEnd \in [Clock -> Nat]
    BY <1>1 DEF TypeOK, StampInv
  <2>4. SomeSet(jobEnd')
    BY <2>1, <2>3, StampFacts DEF Clock, SomeSet
  <2>5. JobPhase = "running" /\ JobPhase' = "finished"
    BY <2>1, <2>2, <2>4 DEF JobPhase
  <2> QED
    BY <2>1, <2>5 DEF Task!TaskNext, Task!FinishJob
<1>8. CASE EndStampSecs
  <2>1. /\ pc = "ended" /\ reported' = reported
        /\ jobEnd' = [jobEnd EXCEPT !["secs"] = Stamp["secs"]]
    BY <1>8 DEF EndStampSecs, At, report
  <2>2. jobEnd["clocks"] > 0 /\ jobEnd \in [Clock -> Nat]
    BY <1>1, <2>1 DEF StampInv, TypeOK
  <2>3. SomeSet(jobEnd) /\ SomeSet(jobEnd')
    BY <2>1, <2>2 DEF Clock, SomeSet
  <2>4. JobPhase' = JobPhase
    BY <2>3 DEF JobPhase
  <2> QED
    BY <2>1, <2>4 DEF Task!taskVars
<1>9. CASE CountJob
  <2>1. pc = "count" /\ pc' = "loop"
    BY <1>9 DEF CountJob, At
  <2>2. CASE Periodic(opts)
    BY <1>2, <1>9, <2>1, <2>2 DEF CountJob, stamps, report
  <2>3. CASE ~Periodic(opts)
    BY <1>9, <2>1, <2>3, BodyRefines DEF CountJob
  <2> QED
    BY <2>2, <2>3
<1> QED
  BY <1>3, <1>4, <1>5, <1>6, <1>7, <1>8, <1>9 DEF Next, MainThread, Terminated

(* The loop, its timers and its handlers implement the life of a job: each *)
(* job is released once, started once, finished once and reported once, in *)
(* that order, and the report of a job is what releases the next.          *)
THEOREM RefinesPeriodicTask ==
  ASSUME ProperEnvironment
  PROVE  Spec => ImplementsPeriodicTask
<1>1. Init => Task!TaskInit
  BY UnsetFacts DEF Init, Task!TaskInit, JobPhase
<1>2. IInv /\ [Next]_vars => [Task!TaskNext]_(Task!taskVars)
  BY StepRefines
<1> QED
  BY <1>1, <1>2, InvCorrect, PTL DEF Spec, ImplementsPeriodicTask, Task!TaskSpec

-----------------------------------------------------------------------------
(* What the times in the report are worth, for every period, deadline,     *)
(* number of tasks and latency of the handlers, as long as the deadline    *)
(* leaves the handlers room before the end of the period.                  *)

(* The room: with a deadline timer, twice the latency between a job's      *)
(* deadline and its period's end (a period that starts late has its        *)
(* deadline late, and the deadline's handler comes before the period's).   *)
Slack ==
  \A o \in Options : Periodic(o) =>
    IF HasDeadlineTimer(o) THEN o.deadline + 2 * MaxLatency <= Period(o)
    ELSE MaxLatency < Period(o)

(* With both clocks working and no signal between the end stamps, the two  *)
(* halves of a stamp agree.                                                *)
Uniform(t) == t["clocks"] = t["secs"]
Time(t) == t["clocks"]

(* When the period that is to be handled next has ended or will end. *)
Expiry == now + periodLeft - (IF "period" \in pending THEN Period(opts) ELSE 0)

UniformInv ==
  /\ Uniform(start) /\ Uniform(periodEnd) /\ Uniform(jobDeadline)
  /\ IF pc = "ended" THEN Time(jobEnd) = now ELSE Uniform(jobEnd)

(* Nothing is stamped before the job starts, and nothing earlier. *)
OrderInv ==
  /\ Time(start) <= now /\ now <= MaxTime
  /\ Time(start) = 0 =>
       /\ Time(periodEnd) = 0 /\ Time(jobEnd) = 0 /\ Time(jobDeadline) = 0
       /\ deadlineLeft = 0 /\ "deadline" \notin pending
  /\ Time(periodEnd) > 0 => Time(start) <= Time(periodEnd)
  /\ Time(jobEnd) > 0 => Time(start) <= Time(jobEnd)
  /\ Time(jobDeadline) > 0 => Time(start) <= Time(jobDeadline)

(* The deadline expires early enough to be handled before the period ends  *)
(* or, at the latest, at that very moment.                                 *)
TimerInv ==
  /\ latency <= MaxLatency
  /\ ~HasDeadlineTimer(opts) => deadlineLeft = 0 /\ "deadline" \notin pending
  /\ Periodic(opts) =>
       /\ periodLeft > 0
       /\ deadlineLeft > 0 => pending = {} /\ deadlineLeft + MaxLatency <= periodLeft
       /\ "deadline" \in pending =>
            /\ deadlineLeft = 0
            /\ "period" \in pending => latency = MaxLatency /\ periodLeft = Period(opts)
            /\ "period" \notin pending => periodLeft + latency >= MaxLatency
       /\ "period" \in pending /\ "deadline" \notin pending
            => periodLeft + latency = Period(opts)

(* Where the first deadline since the job's start is, before it is stamped *)
(* (as long as the model's clock runs), *)
AheadInv ==
  Periodic(opts) /\ Time(start) > 0 =>
    /\ HasDeadlineTimer(opts) =>
         /\ Time(jobDeadline) = 0 =>
              /\ Time(periodEnd) = 0
              /\ deadlineLeft > 0 \/ "deadline" \in pending
         /\ Time(jobDeadline) = 0 /\ now < MaxTime =>
              /\ deadlineLeft > 0 => now + deadlineLeft = Time(start) + opts.deadline
              /\ "deadline" \in pending => now = Time(start) + opts.deadline + latency
         /\ Time(jobDeadline) > 0 /\ Time(periodEnd) = 0 =>
              deadlineLeft = 0 /\ "deadline" \notin pending /\ lastDeadline = jobDeadline
    /\ ~HasDeadlineTimer(opts) => (Time(jobDeadline) > 0 <=> Time(periodEnd) > 0)
    /\ now < MaxTime =>
         /\ Time(periodEnd) = 0 =>
              /\ Time(start) + Period(opts) - MaxLatency <= Expiry
              /\ Expiry <= Time(start) + Period(opts)
         /\ Time(periodEnd) > 0 => Time(start) + 2 * Period(opts) - MaxLatency <= Expiry

(* and where it was, once it is. *)
Near(t) ==
  t < MaxTime =>
    /\ Time(start) + opts.deadline - MaxLatency <= t
    /\ t <= Time(start) + opts.deadline + MaxLatency

StampedInv ==
  Periodic(opts) /\ Time(start) > 0 /\ Time(jobDeadline) > 0 => Near(Time(jobDeadline))

TimeInv == UniformInv /\ OrderInv /\ TimerInv /\ AheadInv /\ StampedInv

-----------------------------------------------------------------------------
(* Stamps as times. *)

(* A stamp is set when its time is. *)
LEMMA TimeFacts ==
  ASSUME NEW t \in [Clock -> Nat]
  PROVE  /\ Time(t) \in Nat
         /\ Uniform(t) => /\ SomeSet(t) <=> Time(t) > 0
                          /\ SomeUnset(t) <=> Time(t) = 0
                          /\ \A c \in Clock : t[c] = Time(t)
         /\ Time(t) = 0 /\ Uniform(t) => t = Unset
BY DEF Time, Uniform, SomeSet, SomeUnset, Clock, Unset

(* What stamping does, in times. *)
LEMMA StampTimes ==
  ASSUME ProperEnvironment, now \in Nat, NEW t \in [Clock -> Nat], Uniform(t)
  PROVE  /\ Stamp \in [Clock -> Nat] /\ Uniform(Stamp) /\ Time(Stamp) = now
         /\ StampIfUnset(t) \in [Clock -> Nat] /\ Uniform(StampIfUnset(t))
         /\ Time(StampIfUnset(t)) = IF Time(t) = 0 THEN now ELSE Time(t)
         /\ Time(t) > 0 => StampIfUnset(t) = t
         /\ Unset \in [Clock -> Nat] /\ Uniform(Unset) /\ Time(Unset) = 0
BY DEF ProperEnvironment, Stamp, StampIfUnset, Uniform, Time, Clock, Unset

(* The options of a periodic benchmark leave room. *)
LEMMA OptionSlack ==
  ASSUME Slack, TypeOK
  PROVE  /\ opts.deadline \in Nat /\ Period(opts) \in Nat /\ MaxLatency \in Nat
         /\ MaxTime \in Nat \ {0}
         /\ Periodic(opts) =>
              /\ opts.deadline > 0 /\ MaxLatency < Period(opts)
              /\ HasDeadlineTimer(opts) => opts.deadline + 2 * MaxLatency <= Period(opts)
              /\ ~HasDeadlineTimer(opts) => opts.deadline = Period(opts)
         /\ ~Periodic(opts) => ~HasDeadlineTimer(opts) /\ Period(opts) = 0
<1>1. opts \in Options
  BY DEF TypeOK
<1>2. /\ opts.deadline \in Nat /\ Period(opts) \in Nat /\ opts.sec \in Nat /\ opts.nsec \in Nat
      /\ opts.deadline <= Period(opts) /\ (Periodic(opts) => opts.deadline > 0)
  BY <1>1, OptionTypes, OptionsAssumption
<1>3. MaxLatency \in Nat /\ MaxTime \in Nat \ {0} /\ TicksPerSecond \in Nat
  BY EnvironmentAssumption
<1>4. ~Periodic(opts) => Period(opts) = 0
  <2> SUFFICES ASSUME ~Periodic(opts) PROVE Period(opts) = 0
    OBVIOUS
  <2>1. opts.sec = 0 /\ opts.nsec = 0
    BY <1>2 DEF Periodic
  <2> QED
    BY <1>3, <2>1 DEF Period
<1>5. Periodic(opts) => IF HasDeadlineTimer(opts)
                        THEN opts.deadline + 2 * MaxLatency <= Period(opts)
                        ELSE MaxLatency < Period(opts)
  BY <1>1 DEF Slack
<1>6. HasDeadlineTimer(opts) <=> (Periodic(opts) \/ opts.synch) /\ opts.deadline # Period(opts)
  BY DEF HasDeadlineTimer
<1> QED
  BY <1>2, <1>3, <1>4, <1>5, <1>6

-----------------------------------------------------------------------------
(* The invariant: the clock, the timers and the main thread. *)

(* The numbers and sets the invariant is about. *)
LEMMA TimeTypes ==
  ASSUME IInv
  PROVE  /\ now \in Nat /\ now > 0 /\ periodLeft \in Nat /\ deadlineLeft \in Nat /\ latency \in Nat
         /\ pending \subseteq {"period", "deadline"}
         /\ start \in [Clock -> Nat] /\ periodEnd \in [Clock -> Nat] /\ jobEnd \in [Clock -> Nat]
         /\ jobDeadline \in [Clock -> Nat] /\ lastDeadline \in [Clock -> Nat]
         /\ Time(start) \in Nat /\ Time(periodEnd) \in Nat /\ Time(jobEnd) \in Nat
         /\ Time(jobDeadline) \in Nat
BY TimeFacts DEF IInv, TypeOK, StampInv

(* The first states: nothing is stamped, no deadline is armed. *)
LEMMA TimeInit ==
  ASSUME ProperEnvironment, Slack, Init
  PROVE  TimeInv
<1>1. /\ TypeOK /\ Uniform(Unset) /\ Time(Unset) = 0
  BY InitType DEF Uniform, Time, Unset, Clock
<1>2. MaxTime \in Nat \ {0} /\ MaxLatency \in Nat /\ SynchDelay \in Nat \ {0}
  BY EnvironmentAssumption
<1>3. UniformInv
  BY <1>1 DEF Init, UniformInv
<1>4. OrderInv
  BY <1>1, <1>2 DEF Init, OrderInv
<1>5. TimerInv
  BY <1>1, <1>2, OptionSlack DEF Init, TimerInv
<1>6. AheadInv /\ StampedInv
  BY <1>1 DEF Init, AheadInv, StampedInv
<1> QED
  BY <1>3, <1>4, <1>5, <1>6 DEF TimeInv

(* Time passes. *)
LEMMA TickTimes ==
  ASSUME ProperEnvironment, Slack, IInv, TimeInv, Tick
  PROVE  TimeInv'
<1>1. /\ UNCHANGED <<opts, pc, start, periodEnd, jobEnd, jobDeadline, lastDeadline>>
      /\ pc # "ended"
  BY DEF Tick, stamps, ProperEnvironment
<1>2. /\ now' = IF now < MaxTime THEN now + 1 ELSE MaxTime
      /\ latency' = IF pending = {} THEN 0 ELSE latency + 1
      /\ pending # {} => latency < MaxLatency
      /\ periodLeft' = IF periodLeft = 1 THEN Period(opts)
                       ELSE IF periodLeft = 0 THEN 0 ELSE periodLeft - 1
      /\ deadlineLeft' = IF deadlineLeft = 1 THEN 0
                         ELSE IF deadlineLeft = 0 THEN 0 ELSE deadlineLeft - 1
      /\ "period" \in pending' <=> "period" \in pending \/ periodLeft = 1
      /\ "deadline" \in pending' <=> "deadline" \in pending \/ deadlineLeft = 1
      /\ pending' = {} <=> pending = {} /\ periodLeft # 1 /\ deadlineLeft # 1
  BY DEF Tick, CountDown
<1>3. /\ opts.deadline \in Nat /\ Period(opts) \in Nat /\ MaxLatency \in Nat
      /\ MaxTime \in Nat \ {0} /\ (Periodic(opts) => MaxLatency < Period(opts))
  BY OptionSlack DEF IInv
<1>4. Period(opts)' = Period(opts) /\ Periodic(opts)' = Periodic(opts)
      /\ HasDeadlineTimer(opts)' = HasDeadlineTimer(opts)
  BY <1>1
<1>5. UniformInv'
  BY <1>1 DEF TimeInv, UniformInv
<1>6. OrderInv'
  BY <1>1, <1>2, <1>3, TimeTypes DEF TimeInv, OrderInv
<1>7. TimerInv'
  BY <1>1, <1>2, <1>3, <1>4, TimeTypes DEF TimeInv, TimerInv
<1>8. Periodic(opts) /\ now' < MaxTime => Expiry' = Expiry /\ now' = now + 1 /\ now < MaxTime
  BY <1>1, <1>2, <1>3, TimeTypes DEF TimeInv, TimerInv, Expiry
<1>9. AheadInv'
  BY <1>1, <1>2, <1>3, <1>4, <1>8, TimeTypes DEF TimeInv, AheadInv, TimerInv
<1>10. StampedInv'
  BY <1>1 DEF TimeInv, StampedInv, Near
<1> QED
  BY <1>5, <1>6, <1>7, <1>9, <1>10 DEF TimeInv

(* The deadline's handler runs no later than the latency after the         *)
(* deadline, and at most once before the period ends.                      *)
LEMMA DeadlineTimes ==
  ASSUME ProperEnvironment, Slack, IInv, TimeInv, DeadlineHandler
  PROVE  TimeInv'
<1>1. /\ UNCHANGED <<opts, pc, now, periodLeft, deadlineLeft, start, periodEnd, jobEnd>>
      /\ "deadline" \in pending /\ "deadline" \notin pending'
      /\ "period" \in pending' <=> "period" \in pending
      /\ pending' = {} <=> "period" \notin pending
      /\ latency' = 0 /\ lastDeadline' = Stamp /\ jobDeadline' = StampIfUnset(jobDeadline)
  <2>1. "deadline" \in pending /\ pending' = pending \ {"deadline"} /\ latency' = 0
    BY DEF DeadlineHandler, Deliver
  <2>2. /\ "deadline" \notin pending'
        /\ "period" \in pending' <=> "period" \in pending
        /\ pending' = {} <=> "period" \notin pending
    BY <2>1, TimeTypes
  <2> QED
    BY <2>1, <2>2 DEF DeadlineHandler, timers
<1>2. /\ Uniform(jobDeadline) /\ Time(start) > 0 /\ HasDeadlineTimer(opts) /\ deadlineLeft = 0
      /\ Periodic(opts)
  BY <1>1, TimeTypes, OptionSlack DEF TimeInv, UniformInv, OrderInv, TimerInv, IInv
<1>3. /\ Uniform(jobDeadline')
      /\ Time(jobDeadline') = IF Time(jobDeadline) = 0 THEN now ELSE Time(jobDeadline)
      /\ Time(jobDeadline) > 0 => jobDeadline' = jobDeadline
  BY <1>1, <1>2, TimeTypes, StampTimes
<1>4. Time(jobDeadline) = 0 => lastDeadline' = jobDeadline'
  <2> SUFFICES ASSUME Time(jobDeadline) = 0 PROVE Stamp = StampIfUnset(jobDeadline)
    BY <1>1
  <2>1. jobDeadline = Unset
    BY <1>2, TimeTypes, TimeFacts
  <2> QED
    BY <2>1 DEF StampIfUnset, Unset, Stamp
<1>5. /\ opts.deadline \in Nat /\ Period(opts) \in Nat /\ MaxLatency \in Nat
      /\ MaxTime \in Nat \ {0}
  BY OptionSlack DEF IInv
<1>6. Expiry' = Expiry
  BY <1>1 DEF Expiry
<1>7. UniformInv'
  BY <1>1, <1>3 DEF TimeInv, UniformInv
<1>8. OrderInv'
  BY <1>1, <1>2, <1>3, <1>5, TimeTypes DEF TimeInv, OrderInv
<1>9. TimerInv'
  BY <1>1, <1>2, <1>5, TimeTypes DEF TimeInv, TimerInv
<1>10. AheadInv'
  BY <1>1, <1>2, <1>3, <1>4, <1>5, <1>6, TimeTypes DEF TimeInv, AheadInv
<1>11. StampedInv'
  <2>1. CASE Time(jobDeadline) > 0
    BY <1>1, <1>3, <2>1, TimeTypes DEF TimeInv, StampedInv, Near
  <2>2. CASE Time(jobDeadline) = 0
    <3>1. now < MaxTime => now = Time(start) + opts.deadline + latency /\ latency <= MaxLatency
      BY <1>1, <1>2, <2>2 DEF TimeInv, AheadInv, TimerInv
    <3> QED
      BY <1>1, <1>3, <1>5, <2>2, <3>1, TimeTypes DEF StampedInv, Near
  <2> QED
    BY <2>1, <2>2, TimeTypes
<1> QED
  BY <1>7, <1>8, <1>9, <1>10, <1>11 DEF TimeInv

-----------------------------------------------------------------------------
(* The period handler. *)

(* Its body in times: the first deadline, and what is released or kept.    *)
LEMMA BodyTimes ==
  ASSUME ProperEnvironment, IInv, UniformInv, pc # "ended",
         NEW posts \in {0, 1}, PeriodHandlerBody(posts)
  PROVE  /\ FirstDeadline \in [Clock -> Nat] /\ Uniform(FirstDeadline)
         /\ Time(FirstDeadline)
              = IF ~HasDeadlineTimer(opts) /\ Time(jobDeadline) = 0 THEN now
                ELSE Time(jobDeadline)
         /\ Uniform(start') /\ Uniform(periodEnd') /\ Uniform(jobDeadline') /\ Uniform(jobEnd')
         /\ HasDeadlineTimer(opts) => lastDeadline' = lastDeadline
         /\ deadlineLeft' = IF HasDeadlineTimer(opts) THEN opts.deadline ELSE deadlineLeft
         /\ IF Time(start) = 0 \/ Time(jobEnd) > 0
            THEN /\ Time(start') = now /\ Time(periodEnd') = 0 /\ Time(jobEnd') = 0
                 /\ Time(jobDeadline') = 0
            ELSE /\ start' = start /\ jobEnd' = jobEnd
                 /\ Time(periodEnd') = IF Time(periodEnd) = 0 THEN now ELSE Time(periodEnd)
                 /\ jobDeadline' = FirstDeadline
<1>1. /\ Uniform(start) /\ Uniform(periodEnd) /\ Uniform(jobDeadline) /\ Uniform(jobEnd)
      /\ now \in Nat /\ start \in [Clock -> Nat] /\ periodEnd \in [Clock -> Nat]
      /\ jobEnd \in [Clock -> Nat] /\ jobDeadline \in [Clock -> Nat]
      /\ Time(start) \in Nat /\ Time(jobEnd) \in Nat
  BY TimeTypes DEF UniformInv
<1>2. /\ FirstDeadline \in [Clock -> Nat] /\ Uniform(FirstDeadline)
      /\ Time(FirstDeadline)
           = IF ~HasDeadlineTimer(opts) /\ Time(jobDeadline) = 0 THEN now
             ELSE Time(jobDeadline)
  BY <1>1, StampTimes DEF FirstDeadline
<1>3. ReleaseNext <=> Time(start) = 0 \/ Time(jobEnd) > 0
  BY <1>1, TimeFacts DEF ReleaseNext
<1>4. CASE ReleaseNext
  <2>1. start' = Stamp /\ periodEnd' = Unset /\ jobEnd' = Unset /\ jobDeadline' = Unset
    BY <1>4, Zenon DEF PeriodHandlerBody, ResetStamps
  <2>2. /\ Uniform(start') /\ Uniform(periodEnd') /\ Uniform(jobDeadline') /\ Uniform(jobEnd')
        /\ Time(start') = now /\ Time(periodEnd') = 0 /\ Time(jobEnd') = 0
        /\ Time(jobDeadline') = 0
    BY <1>1, <2>1, StampTimes
  <2>3. /\ HasDeadlineTimer(opts) => lastDeadline' = lastDeadline
        /\ deadlineLeft' = IF HasDeadlineTimer(opts) THEN opts.deadline ELSE deadlineLeft
    BY DEF PeriodHandlerBody, LatestDeadline
  <2> QED
    BY <1>2, <1>3, <1>4, <2>2, <2>3, Zenon
<1>5. CASE ~ReleaseNext
  <2>1. /\ start' = start /\ jobEnd' = jobEnd /\ periodEnd' = StampIfUnset(periodEnd)
        /\ jobDeadline' = FirstDeadline
    BY <1>5, Zenon DEF PeriodHandlerBody
  <2>2. /\ Uniform(start') /\ Uniform(periodEnd') /\ Uniform(jobDeadline') /\ Uniform(jobEnd')
        /\ Time(periodEnd') = IF Time(periodEnd) = 0 THEN now ELSE Time(periodEnd)
    BY <1>1, <1>2, <2>1, StampTimes
  <2>3. /\ HasDeadlineTimer(opts) => lastDeadline' = lastDeadline
        /\ deadlineLeft' = IF HasDeadlineTimer(opts) THEN opts.deadline ELSE deadlineLeft
    BY DEF PeriodHandlerBody, LatestDeadline
  <2> QED
    BY <1>2, <1>3, <1>5, <2>1, <2>2, <2>3, Zenon
<1> QED
  BY <1>4, <1>5

(* The handler of a period finds the first deadline stamped where it was,  *)
(* or stamps it itself, when the period's end is the deadline.             *)
LEMMA FirstDeadlineTimes ==
  ASSUME ProperEnvironment, Slack, IInv, TimeInv, PeriodHandler, Time(start) > 0
  PROVE  /\ Time(FirstDeadline) \in Nat
         /\ Time(FirstDeadline) > 0 /\ Time(start) <= Time(FirstDeadline)
         /\ Periodic(opts) => Near(Time(FirstDeadline))
<1>1. /\ "period" \in pending /\ "deadline" \notin pending /\ PeriodHandlerBody(1)
      /\ pc # "ended"
  BY DEF PeriodHandler, Deliver, IInv, StampInv
<1>2. Time(FirstDeadline) = IF ~HasDeadlineTimer(opts) /\ Time(jobDeadline) = 0 THEN now
                            ELSE Time(jobDeadline)
  BY <1>1, BodyTimes DEF TimeInv
<1>3. /\ opts.deadline \in Nat /\ Period(opts) \in Nat /\ MaxLatency \in Nat
      /\ MaxTime \in Nat \ {0}
      /\ HasDeadlineTimer(opts) => Periodic(opts)
      /\ Periodic(opts) /\ ~HasDeadlineTimer(opts) => opts.deadline = Period(opts)
  BY OptionSlack DEF IInv
<1>4. HasDeadlineTimer(opts) => Time(jobDeadline) > 0
  BY <1>1, <1>3, TimeTypes DEF TimeInv, AheadInv, TimerInv
<1>5. CASE Time(jobDeadline) > 0
  BY <1>2, <1>5, TimeTypes DEF TimeInv, StampedInv, OrderInv
<1>6. CASE Time(jobDeadline) = 0
  <2>1. ~HasDeadlineTimer(opts) /\ Time(FirstDeadline) = now
    BY <1>2, <1>4, <1>6
  <2>2. Periodic(opts) /\ now < MaxTime =>
          /\ Time(start) + Period(opts) - MaxLatency <= now
          /\ now <= Time(start) + Period(opts) + MaxLatency
    BY <1>1, <1>3, <1>6, <2>1, TimeTypes DEF TimeInv, AheadInv, TimerInv, Expiry
  <2> QED
    BY <1>3, <2>1, <2>2, TimeTypes DEF TimeInv, OrderInv, Near
<1> QED
  BY <1>5, <1>6, TimeTypes

(* A period handled late starts its job late by no more than the latency.  *)
LEMMA PeriodTimes ==
  ASSUME ProperEnvironment, Slack, IInv, TimeInv, PeriodHandler
  PROVE  TimeInv'
<1>1. /\ "period" \in pending /\ "deadline" \notin pending /\ PeriodHandlerBody(1)
      /\ pc # "ended" /\ pending' = {} /\ latency' = 0
      /\ UNCHANGED <<opts, pc, now, periodLeft>>
  BY TimeTypes DEF PeriodHandler, Deliver, IInv, StampInv
<1>2. /\ opts.deadline \in Nat /\ Period(opts) \in Nat /\ MaxLatency \in Nat
      /\ MaxTime \in Nat \ {0}
      /\ HasDeadlineTimer(opts) =>
           Periodic(opts) /\ opts.deadline > 0 /\ opts.deadline + 2 * MaxLatency <= Period(opts)
  BY OptionSlack DEF IInv
<1>3. Period(opts)' = Period(opts) /\ Periodic(opts)' = Periodic(opts)
      /\ HasDeadlineTimer(opts)' = HasDeadlineTimer(opts)
  BY <1>1
<1>4. /\ Uniform(start') /\ Uniform(periodEnd') /\ Uniform(jobDeadline') /\ Uniform(jobEnd')
      /\ HasDeadlineTimer(opts) => lastDeadline' = lastDeadline
      /\ deadlineLeft' = IF HasDeadlineTimer(opts) THEN opts.deadline ELSE deadlineLeft
      /\ IF Time(start) = 0 \/ Time(jobEnd) > 0
         THEN /\ Time(start') = now /\ Time(periodEnd') = 0 /\ Time(jobEnd') = 0
              /\ Time(jobDeadline') = 0
         ELSE /\ start' = start /\ jobEnd' = jobEnd
              /\ Time(periodEnd') = IF Time(periodEnd) = 0 THEN now ELSE Time(periodEnd)
              /\ jobDeadline' = FirstDeadline
      /\ Time(FirstDeadline)
           = IF ~HasDeadlineTimer(opts) /\ Time(jobDeadline) = 0 THEN now ELSE Time(jobDeadline)
  BY <1>1, BodyTimes DEF TimeInv
<1>5. Time(start) > 0 =>
        /\ Time(FirstDeadline) \in Nat
        /\ Time(FirstDeadline) > 0 /\ Time(start) <= Time(FirstDeadline)
        /\ Periodic(opts) => Near(Time(FirstDeadline))
  BY FirstDeadlineTimes
<1>6. Periodic(opts) =>
        /\ periodLeft + latency = Period(opts) /\ latency <= MaxLatency /\ periodLeft > 0
        /\ Expiry \in Int /\ now = Expiry + latency /\ Expiry' = Expiry + Period(opts)
  BY <1>1, <1>2, TimeTypes DEF TimeInv, TimerInv, Expiry
<1>7. UniformInv'
  BY <1>1, <1>4 DEF UniformInv
<1>8. OrderInv'
  BY <1>1, <1>4, <1>5, TimeTypes DEF TimeInv, OrderInv
<1>9. TimerInv'
  BY <1>1, <1>2, <1>3, <1>4, <1>6, TimeTypes DEF TimeInv, TimerInv
<1>10. CASE Time(start) = 0 \/ Time(jobEnd) > 0
  <2>1. AheadInv'
    BY <1>1, <1>2, <1>3, <1>4, <1>6, <1>10, TimeTypes DEF AheadInv
  <2>2. StampedInv'
    BY <1>4, <1>10 DEF StampedInv
  <2> QED
    BY <1>7, <1>8, <1>9, <2>1, <2>2 DEF TimeInv
<1>11. CASE ~(Time(start) = 0 \/ Time(jobEnd) > 0)
  <2>1. Time(start) > 0 /\ Time(start') = Time(start) /\ Time(jobDeadline') > 0
        /\ Time(periodEnd') > 0
    BY <1>4, <1>5, <1>11, TimeTypes
  <2>2. AheadInv'
    BY <1>1, <1>2, <1>3, <1>4, <1>6, <2>1, TimeTypes DEF TimeInv, AheadInv
  <2>3. StampedInv'
    BY <1>1, <1>3, <1>4, <1>5, <1>11, <2>1 DEF StampedInv, Near
  <2> QED
    BY <1>7, <1>8, <1>9, <2>2, <2>3 DEF TimeInv
<1> QED
  BY <1>10, <1>11

-----------------------------------------------------------------------------
(* The main thread. *)

(* Most of its steps touch neither time nor stamps. *)
LEMMA SameTimes ==
  ASSUME TimeInv, pc' = "ended" <=> pc = "ended",
         UNCHANGED <<opts, now, timers, pending, latency, stamps>>
  PROVE  TimeInv'
<1>1. UNCHANGED <<opts, now, periodLeft, deadlineLeft, pending, latency, start, periodEnd,
                  jobEnd, jobDeadline, lastDeadline>>
  BY DEF timers, stamps
<1>2. UniformInv'
  BY <1>1 DEF TimeInv, UniformInv
<1>3. OrderInv' /\ TimerInv'
  BY <1>1 DEF TimeInv, OrderInv, TimerInv
<1>4. AheadInv' /\ StampedInv'
  BY <1>1 DEF TimeInv, AheadInv, StampedInv, Near, Expiry
<1> QED
  BY <1>2, <1>3, <1>4 DEF TimeInv

(* Its steps that do: the stamps around the job, and the report of a job   *)
(* without a period.                                                       *)
LEMMA MainTimes ==
  ASSUME ProperEnvironment, Slack, IInv, TimeInv, MainThread
  PROVE  TimeInv'
<1>1. CASE LoopTest \/ WaitForPeriod \/ LogData \/ FinalWait
  <2>1. /\ UNCHANGED <<opts, now, timers, pending, latency, stamps>>
        /\ pc # "ended" /\ pc' # "ended"
    BY <1>1 DEF LoopTest, WaitForPeriod, LogData, FinalWait, LeaveWait, AfterLastJob, At
  <2> QED
    BY <2>1, SameTimes
<1>2. CASE BeginJob
  <2>1. /\ pc = "begin" /\ pc' = "running" /\ start' = StampIfUnset(start)
        /\ UNCHANGED <<opts, now, periodLeft, deadlineLeft, pending, latency, periodEnd, jobEnd,
                       jobDeadline, lastDeadline>>
    BY <1>2 DEF BeginJob, At, timers
  <2>2. /\ Uniform(start) /\ Uniform(start')
        /\ Time(start) > 0 => start' = start
        /\ Time(start) = 0 => Time(start') = now
    BY <2>1, TimeTypes, StampTimes DEF TimeInv, UniformInv
  <2>3. Periodic(opts) => Time(start) > 0
    BY <2>1, <2>2, JobInProgress, TimeTypes, TimeFacts
  <2>4. UniformInv'
    BY <2>1, <2>2 DEF TimeInv, UniformInv
  <2>5. OrderInv'
    BY <2>1, <2>2, TimeTypes DEF TimeInv, OrderInv
  <2>6. TimerInv'
    BY <2>1 DEF TimeInv, TimerInv
  <2>7. AheadInv' /\ StampedInv'
    BY <2>1, <2>2, <2>3, TimeTypes DEF TimeInv, AheadInv, StampedInv, Near, Expiry
  <2> QED
    BY <2>4, <2>5, <2>6, <2>7 DEF TimeInv
<1>3. CASE EndJob
  <2>1. /\ pc = "running" /\ pc' = "ended"
        /\ jobEnd' = [jobEnd EXCEPT !["clocks"] = Stamp["clocks"]]
        /\ UNCHANGED <<opts, now, periodLeft, deadlineLeft, pending, latency, start, periodEnd,
                       jobDeadline, lastDeadline>>
    BY <1>3 DEF EndJob, At, timers
  <2>2. Time(jobEnd') = now
    BY <2>1, TimeTypes DEF Time, Clock, Stamp, ProperEnvironment
  <2>3. Time(start) > 0
    BY <2>1, TimeTypes, TimeFacts DEF IInv, StampInv, TimeInv, UniformInv
  <2>4. UniformInv'
    BY <2>1, <2>2 DEF TimeInv, UniformInv
  <2>5. OrderInv'
    BY <2>1, <2>2, <2>3, TimeTypes DEF TimeInv, OrderInv
  <2>6. TimerInv' /\ AheadInv' /\ StampedInv'
    BY <2>1 DEF TimeInv, TimerInv, AheadInv, StampedInv, Near, Expiry
  <2> QED
    BY <2>4, <2>5, <2>6 DEF TimeInv
<1>4. CASE EndStampSecs
  <2>1. /\ pc = "ended" /\ pc' = "log"
        /\ jobEnd' = [jobEnd EXCEPT !["secs"] = Stamp["secs"]]
        /\ UNCHANGED <<opts, now, periodLeft, deadlineLeft, pending, latency, start, periodEnd,
                       jobDeadline, lastDeadline>>
    BY <1>4 DEF EndStampSecs, At, timers
  <2>2. Time(jobEnd') = Time(jobEnd) /\ jobEnd'["secs"] = now /\ Time(jobEnd) = now
    BY <2>1, TimeTypes DEF Time, Clock, Stamp, ProperEnvironment, TimeInv, UniformInv
  <2>3. UniformInv'
    BY <2>1, <2>2 DEF TimeInv, UniformInv, Uniform, Time
  <2>4. OrderInv'
    BY <2>1, <2>2 DEF TimeInv, OrderInv
  <2>5. TimerInv' /\ AheadInv' /\ StampedInv'
    BY <2>1 DEF TimeInv, TimerInv, AheadInv, StampedInv, Near, Expiry
  <2> QED
    BY <2>3, <2>4, <2>5 DEF TimeInv
<1>5. CASE CountJob
  <2>1. /\ pc = "count" /\ pc' = "loop"
        /\ UNCHANGED <<opts, now, periodLeft, pending, latency>>
    BY <1>5 DEF CountJob, At
  <2>2. CASE Periodic(opts)
    BY <1>5, <2>1, <2>2, SameTimes DEF CountJob, timers
  <2>3. CASE ~Periodic(opts)
    <3>1. PeriodHandlerBody(0) /\ ~HasDeadlineTimer(opts)
      BY <1>5, <2>3, OptionSlack DEF CountJob, IInv
    <3>2. /\ Uniform(start') /\ Uniform(periodEnd') /\ Uniform(jobDeadline') /\ Uniform(jobEnd')
          /\ deadlineLeft' = deadlineLeft
          /\ IF Time(start) = 0 \/ Time(jobEnd) > 0
             THEN /\ Time(start') = now /\ Time(periodEnd') = 0 /\ Time(jobEnd') = 0
                  /\ Time(jobDeadline') = 0
             ELSE /\ start' = start /\ jobEnd' = jobEnd
                  /\ Time(periodEnd') = IF Time(periodEnd) = 0 THEN now ELSE Time(periodEnd)
                  /\ jobDeadline' = FirstDeadline
          /\ Time(FirstDeadline) = IF Time(jobDeadline) = 0 THEN now ELSE Time(jobDeadline)
      BY <2>1, <3>1, BodyTimes DEF TimeInv
    <3>3. UniformInv'
      BY <2>1, <3>2 DEF UniformInv
    <3>4. OrderInv'
      BY <2>1, <3>1, <3>2, TimeTypes DEF TimeInv, OrderInv, TimerInv
    <3>5. TimerInv' /\ AheadInv' /\ StampedInv'
      BY <2>1, <2>3, <3>2 DEF TimeInv, TimerInv, AheadInv, StampedInv
    <3> QED
      BY <3>3, <3>4, <3>5 DEF TimeInv
  <2> QED
    BY <2>2, <2>3
<1> QED
  BY <1>1, <1>2, <1>3, <1>4, <1>5 DEF MainThread

(* Every step keeps the times where they belong. *)
LEMMA TimeStep ==
  ASSUME ProperEnvironment, Slack, IInv, TimeInv, [Next]_vars
  PROVE  TimeInv'
<1>1. CASE QuitHandler \/ Terminated \/ UNCHANGED vars
  <2>1. UNCHANGED <<opts, pc, now, timers, pending, latency, stamps>>
    BY <1>1 DEF QuitHandler, Terminated, vars
  <2> QED
    BY <2>1, SameTimes
<1> QED
  BY <1>1, TickTimes, DeadlineTimes, PeriodTimes, MainTimes DEF Next

-----------------------------------------------------------------------------
(* The rows. *)

RowInv == JobRowComplete /\ VerdictWithinLatency

(* A row the handler's body writes is true to its job. *)
LEMMA BodyRow ==
  ASSUME ProperEnvironment, Slack, IInv, TimeInv, RowInv, pc # "ended", opts' = opts,
         NEW posts \in {0, 1}, PeriodHandlerBody(posts),
         Time(start) > 0 =>
           /\ Time(FirstDeadline) \in Nat /\ Time(start) <= Time(FirstDeadline)
           /\ Periodic(opts) => Near(Time(FirstDeadline))
  PROVE  RowInv'
<1>1. /\ Uniform(start) /\ Uniform(jobEnd) /\ Uniform(periodEnd) /\ WorkingClocks = Clock
      /\ opts.deadline \in Nat /\ MaxLatency \in Nat /\ MaxTime \in Nat
  BY OptionSlack DEF TimeInv, UniformInv, ProperEnvironment, IInv
<1>2. CASE SomeSet(start) /\ SomeSet(jobEnd)
  <2>1. row' = JobRow /\ Time(start) > 0 /\ Time(jobEnd) > 0
    BY <1>1, <1>2, TimeTypes, TimeFacts DEF PeriodHandlerBody, Report
  <2>2. /\ FirstDeadline \in [Clock -> Nat] /\ Uniform(FirstDeadline)
        /\ StampIfUnset(periodEnd) \in [Clock -> Nat] /\ Uniform(StampIfUnset(periodEnd))
        /\ Time(StampIfUnset(periodEnd)) = IF Time(periodEnd) = 0 THEN now ELSE Time(periodEnd)
    BY <1>1, BodyTimes, TimeTypes, StampTimes DEF TimeInv
  <2>3. \A c \in Clock :
          /\ JobRow.start[c] = Time(start) /\ JobRow.jobEnd[c] = Time(jobEnd)
          /\ JobRow.deadline[c] = Time(FirstDeadline)
          /\ JobRow.periodEnd[c] = Time(StampIfUnset(periodEnd))
    BY <1>1, <2>2, TimeTypes, TimeFacts DEF JobRow
  <2>4. /\ Time(start) <= Time(jobEnd) /\ Time(start) <= Time(FirstDeadline)
        /\ Time(start) <= Time(StampIfUnset(periodEnd))
    BY <2>1, <2>2, TimeTypes DEF TimeInv, OrderInv
  <2>5. JobRowComplete'
    BY <1>1, <2>1, <2>3, <2>4 DEF JobRowComplete
  <2>6. Met(JobRow) <=> Time(jobEnd) <= Time(FirstDeadline)
    BY <2>1, <2>3 DEF Met, Clock
  <2>7. Periodic(opts) /\ Time(jobEnd) < MaxTime /\ Time(FirstDeadline) < MaxTime =>
          IF Met(JobRow) THEN Time(jobEnd) - Time(start) <= opts.deadline + MaxLatency
          ELSE Time(jobEnd) - Time(start) >= opts.deadline - MaxLatency
    BY <1>1, <2>1, <2>6, TimeTypes DEF Near
  <2>8. VerdictWithinLatency'
    BY <1>1, <2>1, <2>3, <2>7 DEF VerdictWithinLatency, Met
  <2> QED
    BY <2>5, <2>8 DEF RowInv
<1>3. CASE ~(SomeSet(start) /\ SomeSet(jobEnd))
  <2>1. row' = row \/ row' = SkippedRow
    BY <1>3 DEF PeriodHandlerBody, Report, report
  <2>2. SkippedRow.kind = "skipped"
    BY DEF SkippedRow, NoRow
  <2> QED
    BY <2>1, <2>2 DEF RowInv, JobRowComplete, VerdictWithinLatency, Met
<1> QED
  BY <1>2, <1>3

(* Only the period handler and the end of a job without a period write.    *)
LEMMA RowStep ==
  ASSUME ProperEnvironment, Slack, IInv, TimeInv, RowInv, [Next]_vars
  PROVE  RowInv'
<1>1. CASE PeriodHandler
  <2>1. PeriodHandlerBody(1) /\ opts' = opts /\ pc # "ended"
    BY <1>1 DEF PeriodHandler, Deliver, IInv, StampInv
  <2> QED
    BY <1>1, <2>1, FirstDeadlineTimes, BodyRow
<1>2. CASE CountJob /\ ~Periodic(opts)
  <2>1. PeriodHandlerBody(0) /\ opts' = opts /\ pc # "ended" /\ ~HasDeadlineTimer(opts)
    BY <1>2, OptionSlack DEF CountJob, At, IInv
  <2>2. /\ Time(FirstDeadline) \in Nat
        /\ Time(FirstDeadline) = IF Time(jobDeadline) = 0 THEN now ELSE Time(jobDeadline)
    BY <2>1, BodyTimes, TimeTypes DEF TimeInv
  <2>3. Time(start) <= Time(FirstDeadline)
    BY <2>2, TimeTypes DEF TimeInv, OrderInv
  <2> QED
    BY <1>2, <2>1, <2>2, <2>3, BodyRow
<1>3. CASE ~PeriodHandler /\ ~(CountJob /\ ~Periodic(opts))
  <2>1. UNCHANGED <<row, opts>>
    BY <1>3 DEF Next, Tick, DeadlineHandler, QuitHandler, MainThread, Terminated, LoopTest,
       WaitForPeriod, BeginJob, EndJob, EndStampSecs, LogData, CountJob, FinalWait, vars, report
  <2> QED
    BY <2>1 DEF RowInv, JobRowComplete, VerdictWithinLatency, Met
<1> QED
  BY <1>1, <1>2, <1>3

(* The invariants hold throughout. *)
LEMMA TimesCorrect ==
  ASSUME ProperEnvironment, Slack
  PROVE  Spec => [](IInv /\ TimeInv /\ RowInv)
<1>1. Init => TimeInv /\ RowInv
  <2> SUFFICES ASSUME Init PROVE TimeInv /\ RowInv
    OBVIOUS
  <2>1. row.kind = "none"
    BY DEF Init, NoRow
  <2> QED
    BY <2>1, TimeInit DEF RowInv, JobRowComplete, VerdictWithinLatency
<1>2. IInv /\ TimeInv /\ RowInv /\ [Next]_vars => TimeInv' /\ RowInv'
  BY TimeStep, RowStep
<1> QED
  BY <1>1, <1>2, InvCorrect, PTL DEF Spec

(* A job's row has every stamp, in the order things happened.              *)
THEOREM RowCorrect ==
  ASSUME ProperEnvironment, Slack
  PROVE  Spec => []JobRowComplete
<1>1. RowInv => JobRowComplete
  BY DEF RowInv
<1> QED
  BY <1>1, TimesCorrect, PTL

(* The verdict of a row is about the job's own first deadline, to within   *)
(* the latency of a handler, however many periods the job overruns.        *)
THEOREM VerdictCorrect ==
  ASSUME ProperEnvironment, Slack
  PROVE  Spec => []VerdictWithinLatency
<1>1. RowInv => VerdictWithinLatency
  BY DEF RowInv
<1> QED
  BY <1>1, TimesCorrect, PTL

(* A skipped deadline has its row from the job's second period end on, not *)
(* before: the first deadline is told apart from the later ones although   *)
(* one static variable holds whichever came last.                          *)
THEOREM SkipsCorrect ==
  ASSUME ProperEnvironment, Slack
  PROVE  Spec => SkipsOnlyLaterDeadlines
<1> DEFINE Later == \A c \in WorkingClocks : now >= start[c] + 2 * Period(opts) - MaxLatency
<1>1. ASSUME IInv, TimeInv, [Next]_vars, row'.kind = "skipped", row' # row, now < MaxTime
      PROVE  Later
  <2>1. /\ Uniform(start) /\ Uniform(jobDeadline) /\ WorkingClocks = Clock
        /\ pc # "ended" => Uniform(jobEnd)
        /\ Period(opts) \in Nat /\ MaxLatency \in Nat /\ MaxTime \in Nat
        /\ ~Periodic(opts) => Period(opts) = 0 /\ ~HasDeadlineTimer(opts)
    <3>1. /\ Uniform(start) /\ Uniform(jobDeadline) /\ WorkingClocks = Clock
          /\ pc # "ended" => Uniform(jobEnd)
      BY <1>1 DEF TimeInv, UniformInv, ProperEnvironment
    <3>2. TypeOK
      BY <1>1 DEF IInv
    <3> QED
      BY <3>1, <3>2, OptionSlack
  <2>2. SUFFICES now >= Time(start) + 2 * Period(opts) - MaxLatency
    BY <1>1, <2>1, TimeTypes, TimeFacts
  <2>3. CASE ~Periodic(opts)
    BY <1>1, <2>1, <2>3, TimeTypes DEF TimeInv, OrderInv
  <2>4. CASE Periodic(opts)
    <3>1. PeriodHandler
      BY <1>1, <2>4 DEF Next, Tick, DeadlineHandler, QuitHandler, MainThread, Terminated,
         LoopTest, WaitForPeriod, BeginJob, EndJob, EndStampSecs, LogData, CountJob, FinalWait,
         vars, report
    <3>2. PeriodHandlerBody(1) /\ "period" \in pending /\ "deadline" \notin pending
      BY <3>1 DEF PeriodHandler, Deliver
    <3>3. SomeSet(start) /\ ~SomeSet(jobEnd) /\ SkipDue
      BY <1>1, <3>2 DEF PeriodHandlerBody, Report, report, JobRow
    <3>4. Time(start) > 0
      BY <1>1, <2>1, <3>3, TimeTypes, TimeFacts
    <3>5. Time(periodEnd) > 0
      <4>1. CASE HasDeadlineTimer(opts)
        <5>1. lastDeadline # jobDeadline
          BY <3>3, <4>1 DEF SkipDue, LatestDeadline, FirstDeadline
        <5>2. Time(jobDeadline) > 0
          BY <1>1, <2>4, <3>2, <3>4, <4>1, TimeTypes DEF TimeInv, AheadInv, TimerInv
        <5> QED
          BY <1>1, <2>4, <3>4, <4>1, <5>1, <5>2, TimeTypes DEF TimeInv, AheadInv
      <4>2. CASE ~HasDeadlineTimer(opts)
        <5>1. Stamp # StampIfUnset(jobDeadline)
          BY <3>3, <4>2 DEF SkipDue, LatestDeadline, FirstDeadline
        <5>2. Time(jobDeadline) > 0
          <6> SUFFICES ASSUME Time(jobDeadline) = 0 PROVE Stamp = StampIfUnset(jobDeadline)
            BY <1>1, <5>1, TimeTypes
          <6>1. jobDeadline = Unset
            BY <1>1, <2>1, TimeTypes, TimeFacts
          <6> QED
            BY <6>1 DEF Stamp, StampIfUnset, Unset
        <5> QED
          BY <1>1, <2>4, <3>4, <4>2, <5>2 DEF TimeInv, AheadInv
      <4> QED
        BY <4>1, <4>2
    <3>6. Time(start) + 2 * Period(opts) - MaxLatency <= Expiry
      BY <1>1, <2>4, <3>4, <3>5 DEF TimeInv, AheadInv
    <3>7. Expiry = now - latency
      BY <1>1, <2>1, <2>4, <3>2, TimeTypes DEF TimeInv, TimerInv, Expiry
    <3> QED
      BY <1>1, <2>1, <3>6, <3>7, TimeTypes
  <2> QED
    BY <2>3, <2>4
<1>2. IInv /\ TimeInv /\ [Next]_vars
        => [row'.kind = "skipped" /\ row' # row /\ now < MaxTime => Later]_vars
  BY <1>1
<1> QED
  BY <1>2, TimesCorrect, PTL DEF Spec, SkipsOnlyLaterDeadlines
=============================================================================
