---------------------------- MODULE PeriodicTask ----------------------------
(***************************************************************************)
(* What RT-Bench promises of the jobs of one benchmark, without timers,    *)
(* semaphores, signals or timestamps: a job is released by the end of the  *)
(* previous period, started once, finished once and reported once, and the *)
(* report of a job is what releases the next one (mainpage.markdown:111-   *)
(* 122, the comment of period_handler in periodic_benchmark.c:247-273).    *)
(***************************************************************************)
EXTENDS Naturals

VARIABLES
  phase,     \* where the job in progress stands
  reported   \* how many jobs have a row in the report

taskVars == <<phase, reported>>

Phases == {"idle", "released", "running", "finished"}

TaskInit == phase = "idle" /\ reported = 0

(* The first period begins: nothing to report yet. *)
FirstRelease == phase = "idle" /\ phase' = "released" /\ UNCHANGED reported

(* A job starts; with no period and no synchronised start, the first one   *)
(* starts at once.                                                         *)
StartJob == phase \in {"idle", "released"} /\ phase' = "running" /\ UNCHANGED reported

FinishJob == phase = "running" /\ phase' = "finished" /\ UNCHANGED reported

(* One step reports the finished job and releases the next. *)
ReportAndRelease ==
  /\ phase = "finished"
  /\ phase' = "released"
  /\ reported' = reported + 1

TaskNext == FirstRelease \/ StartJob \/ FinishJob \/ ReportAndRelease

TaskSpec == TaskInit /\ [][TaskNext]_taskVars
=============================================================================
