----------------------------- MODULE MCExperiments -----------------------------
(* Instances of Experiments for TLC: four cores, two interfering benchmarks. *)
EXTENDS Experiments

Script(t, benchmarks, list) ==
  [test |-> t, draw |-> "no", benchmarks |-> benchmarks, interfering |-> list,
   fifo |-> TRUE, deadline |-> "none", fifo_interfering |-> TRUE, threshold_valid |-> TRUE,
   graph_inputs |-> FALSE, target_core |-> {3}, system_core |-> {0}]

One == <<TRUE>>
Two == <<TRUE, TRUE>>

(* Each test and all of them, with and without interference; benchmarks    *)
(* without arguments; all cores but one excluded.                          *)
MCRuns ==
  {Script(t, Two, list) : t \in Tests \union {"all"}, list \in {<<>>, Two}}
    \union {Script(t, <<TRUE, FALSE>>, <<>>) : t \in {"WCET", "WSS"}}
    \union {Script("WCET", One, <<TRUE, FALSE>>), Script("sched", One, <<FALSE, TRUE>>)}
    \union {Script("overhead", <<>>, <<>>)}
    \union {[Script(t, One, Two) EXCEPT !.system_core = {0, 1, 2}] : t \in {"WCET", "sched"}}
    \union {[Script("WCET", One, Two) EXCEPT !.system_core = {0, 2}],
            [Script("sched", One, Two) EXCEPT !.system_core = {0, 1}]}

(* What test_init() refuses, drawing only, SCHED_DEADLINE, a wrong         *)
(* threshold.                                                              *)
MCOthers ==
  LET s == Script("WCET", One, One) IN
  {[s EXCEPT !.fifo = FALSE], [s EXCEPT !.deadline = "some"],
   [s EXCEPT !.fifo = FALSE, !.deadline = "some"], [s EXCEPT !.fifo_interfering = FALSE],
   [s EXCEPT !.benchmarks = <<>>], [s EXCEPT !.draw = "only"],
   [s EXCEPT !.draw = "only", !.graph_inputs = TRUE, !.test = "all"],
   [s EXCEPT !.threshold_valid = FALSE]}
    \union {[s EXCEPT !.fifo = FALSE, !.deadline = "all", !.test = t] : t \in Tests}

MCConfigs == MCRuns \union MCOthers


MCSizes == 1 .. 9
=============================================================================
