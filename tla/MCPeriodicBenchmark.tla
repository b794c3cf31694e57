------------------------ MODULE MCPeriodicBenchmark -------------------------
(* Instances of PeriodicBenchmark for TLC. *)
EXTENDS PeriodicBenchmark

(* The usages of 1-Usage.markdown, with two jobs: an explicit and an       *)
(* implicit deadline, a synchronised start, the continuous execution model *)
(* with and without a synchronised start.                                  *)
Opt(sec, nsec, deadline, synch) ==
  [sec |-> sec, nsec |-> nsec, deadline |-> deadline, tasks |-> 2, synch |-> synch]

MCOptions == {Opt(1, 0, 1, FALSE), Opt(1, 0, 3, FALSE), Opt(1, 0, 1, TRUE),
              Opt(0, 0, 0, FALSE), Opt(0, 0, 0, TRUE)}

(* A period of a second and a half. *)
MCFractional == {Opt(1, 1, 3, FALSE)}
=============================================================================
