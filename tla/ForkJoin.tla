------------------------------ MODULE ForkJoin ------------------------------
(***************************************************************************)
(* What RT-Bench promises a multi-threaded benchmark, without mutexes,     *)
(* counters, semaphores or a status variable: the workers work only while  *)
(* a job is open, a job is opened only when all of them wait for it and    *)
(* closed only when all of them have done their work (3-Extending_rt-      *)
(* bench.markdown, "Multi-thread benchmark", steps 2 to 4).                *)
(***************************************************************************)
CONSTANT Workers

VARIABLES
  gate,  \* is a job open?
  did    \* how far each worker is with the job

forkJoinVars == <<gate, did>>

Everyone(state) == did = [w \in Workers |-> state]

ForkJoinInit == gate = "closed" /\ Everyone("waiting")

Open == gate = "closed" /\ Everyone("waiting") /\ gate' = "open" /\ UNCHANGED did

Work(w) ==
  /\ gate = "open" /\ did[w] = "waiting"
  /\ did' = [did EXCEPT ![w] = "working"]
  /\ UNCHANGED gate

Done(w) ==
  /\ did[w] = "working"
  /\ did' = [did EXCEPT ![w] = "worked"]
  /\ UNCHANGED gate

Close == gate = "open" /\ Everyone("worked") /\ gate' = "closed" /\ UNCHANGED did

(* A worker is ready again, once the job it worked for is not open.        *)
Rest(w) ==
  /\ gate # "open" /\ did[w] = "worked"
  /\ did' = [did EXCEPT ![w] = "waiting"]
  /\ UNCHANGED gate

(* The end of the program, or a worker that fails while it works: no job   *)
(* is ever opened again.                                                   *)
Abort == gate' = "aborted" /\ UNCHANGED did

Fail(w) ==
  /\ did[w] = "working"
  /\ did' = [did EXCEPT ![w] = "worked"]
  /\ gate' = "aborted"

ForkJoinNext ==
  \/ Open \/ Close \/ Abort
  \/ \E w \in Workers : Work(w) \/ Done(w) \/ Fail(w) \/ Rest(w)

ForkJoinSpec == ForkJoinInit /\ [][ForkJoinNext]_forkJoinVars
=============================================================================
