--------------------------- MODULE MCPerfSampler ----------------------------
(* Instances of PerfSampler for TLC. *)
EXTENDS PerfSampler

(* With and without profiling, arguments and a core of its own. *)
AllOptions == [args : {0, 1}, profiling : BOOLEAN, sameCore : BOOLEAN]

(* Profiling of a benchmark with an argument. *)
Profiled == [args : {1}, profiling : {TRUE}, sameCore : BOOLEAN]
=============================================================================
