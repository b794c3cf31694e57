------------------------------ MODULE Experiments ------------------------------
(***************************************************************************)
(* The test scripts: base.py and the tests it drives, WCET.py,             *)
(* schedulability.py, WSS.py and overhead.py.  A script tries to move all  *)
(* other processes to the system's cores, runs its tests one by one,       *)
(* some of them next to interfering benchmarks it starts and stops, and    *)
(* restores the machine after every test.                                  *)
(*                                                                         *)
(* A run of a benchmark is external: it comes back, well or not, with as   *)
(* many missed deadlines as it likes.  An interfering benchmark runs until *)
(* it is sent SIGINT and ends some time after.  What is measured is not in *)
(* the model, but who else runs when it is.                                *)
(***************************************************************************)
EXTENDS Integers, Sequences, FiniteSetsExt, WSSSearch

CONSTANTS
  Configs,  \* the command lines of the script
  NumCpus,  \* physical cores
  UtilInc,  \* --utilization-increase, in percent
  MaxRuns   \* runs per benchmark of the search for the WCET looked at

Tests == {"WCET", "sched", "WSS", "overhead"}

(* What a command line says: the test, the benchmarks and the interfering  *)
(* ones (of each, whether it has arguments), which of the scheduling       *)
(* parameters are given, the cores.                                        *)
CommandLines ==
  [test : Tests \union {"all"}, draw : {"no", "yes", "only"},
   benchmarks : Seq(BOOLEAN), interfering : Seq(BOOLEAN),
   fifo : BOOLEAN, deadline : {"none", "some", "all"}, fifo_interfering : BOOLEAN,
   threshold_valid : BOOLEAN, graph_inputs : BOOLEAN,
   target_core : SUBSET Nat, system_core : SUBSET Nat]

ASSUME ExperimentsAssumption ==
  /\ Configs \subseteq CommandLines
  /\ NumCpus \in Nat \ {0, 1} /\ UtilInc \in 1 .. 99 /\ MaxRuns \in Nat \ {0}

VARIABLES
  config,         \* args, but for the interfering benchmarks
  interfering,    \* args["interfering"]: of each, whether it has arguments
  tests,          \* the tests still to run
  test,           \* the test that is executed
  pc,             \* where the script is
  others,         \* the cores the other processes of the machine are moved to
  procs,          \* the interfering benchmarks that were ever started
  int_processes,  \* params["int_processes"], a set of indices of procs
  res,            \* params["res"]
  wcet,           \* params["WCET"]: how the WCETs were measured
  worst_runtimes, \* the same of the search that is going on
  quiet,          \* no interfering benchmark was running when this run started
  bmark,          \* the benchmark under test
  step            \* of a search for a WCET its runs, of a schedulability test its steps

envVars == <<others, procs, int_processes>>
paramVars == <<res, wcet>>
loopVars == <<worst_runtimes, quiet, bmark, step>>
vars == <<config, interfering, tests, test, pc, envVars, paramVars, loopVars, wssVars>>

Measuring == pc \in {"wcetRun", "schedRun", "wssRun", "overheadRun"}
Over == {"done", "exit", "raised", "stuck"}

Measured == [bmark : Nat, quiet : BOOLEAN]
Processes == [prog : Nat, core : 0 .. NumCpus - 1, state : {"running", "stopping", "gone"}]

TypeOK ==
  /\ config \in Configs
  /\ interfering \in {config.interfering, <<>>}
  /\ tests \in Seq(Tests) /\ test \in Tests \union {"none"}
  /\ pc \in {"init", "next", "interfere", "wcet", "wcetRun", "schedCheck", "schedInterfere",
             "sched", "schedRun", "wss", "wssRun", "overhead", "overheadRun",
             "teardown"} \union Over
  /\ others \in {"default", "system", "all"}
  /\ procs \in Seq(Processes)
  /\ int_processes \subseteq 1 .. Len(procs)
  /\ res \in {0, -1}
  /\ wcet \in Seq(Measured) /\ worst_runtimes \in Seq(Measured)
  /\ quiet \in BOOLEAN /\ bmark \in Nat /\ step \in Nat
  /\ WSSTypeOK

(* The tests main() runs for --test-type.                                  *)
TestsOf(c) == IF c.test = "all" THEN <<"WCET", "sched", "WSS", "overhead">> ELSE <<c.test>>

Init ==
  /\ config \in Configs
  /\ interfering = config.interfering
  /\ tests = TestsOf(config) /\ test = "none"
  /\ pc = "init"
  /\ others = "default" /\ procs = <<>> /\ int_processes = {}
  /\ res = 0 /\ wcet = <<>>
  /\ worst_runtimes = <<>> /\ quiet = FALSE /\ bmark = 0 /\ step = 0
  /\ WSSInit

-----------------------------------------------------------------------------
(* The environment                                                         *)

(* What test_init() refuses.                                               *)
InitError(c) ==
  \/ c.draw # "only" /\ ~ c.fifo /\ c.deadline = "none"
  \/ c.fifo /\ c.deadline # "none"
  \/ c.deadline = "some"
  \/ ~ c.fifo_interfering /\ c.interfering # <<>>
  \/ c.draw # "only" /\ c.benchmarks = <<>> /\ c.test # "overhead"
  \/ c.draw = "only" /\ ~ c.graph_inputs

(* move_processes(): without a list from ps nothing is moved, and neither  *)
(* caller looks at the result.                                             *)
MoveProcesses(cores) == others' \in {cores, others}

(* A failing detect_cores() sets "res:", so that main() looks for the test *)
(* in arguments that are None.                                             *)
TestInit ==
  /\ pc = "init"
  /\ \/ InitError(config) /\ res' = -1 /\ pc' = "exit" /\ UNCHANGED others
     \/ /\ ~ InitError(config) /\ config.draw = "only"
        /\ pc' = "next" /\ UNCHANGED <<res, others>>
     \/ /\ ~ InitError(config) /\ config.draw # "only"
        /\ MoveProcesses("system")
        /\ pc' = "next" /\ UNCHANGED res
     \/ /\ ~ InitError(config) /\ config.draw # "only"
        /\ pc' = "raised" /\ UNCHANGED <<res, others>>
  /\ UNCHANGED <<config, interfering, tests, test, procs, int_processes, wcet, loopVars, wssVars>>

(* convert_corelist_to_list() and the cores interfering benchmarks get, in *)
(* turn: neither core 0 nor one of the target's or of the system's.        *)
PossibleCores_Target == (1 .. NumCpus - 1) \ config.system_core  \* mutant
PossibleCores == (1 .. NumCpus - 1) \ (config.target_core \union config.system_core)
Below(c) == {d \in PossibleCores : d < c}
CoreOf(i) ==
  CHOOSE c \in PossibleCores : Cardinality(Below(c)) = (i - 1) % Cardinality(PossibleCores)

(* A benchmark without arguments is given no command line of its own: the  *)
(* one of the benchmark before it is run again, on that one's core.        *)
CommandOf(i) == Max({j \in 1 .. i : interfering[j]})
Spawned(n, state) ==
  [i \in 1 .. n |-> [prog |-> CommandOf(i), core |-> CoreOf(CommandOf(i)), state |-> state]]

(* stop_interfering(): SIGINT, and no wait for the end.                    *)
Interrupted(P) ==
  [p \in DOMAIN procs |->
     IF p \in P /\ procs[p].state = "running" THEN [procs[p] EXCEPT !.state = "stopping"]
     ELSE procs[p]]

(* start_interfering(), and the callers' test of its result for an empty   *)
(* list: the None of a failure passes it.  Without a possible core the     *)
(* assignment of the cores does not end.                                   *)
StartInterfering(then) ==
  LET n == Len(interfering) IN
  \/ /\ n = 0
     /\ int_processes' = {} /\ pc' = then /\ UNCHANGED procs
  \/ /\ n > 0 /\ PossibleCores = {}
     /\ pc' = "stuck" /\ UNCHANGED <<procs, int_processes>>
  \/ /\ n > 0 /\ PossibleCores # {} /\ interfering[1]
     /\ procs' = procs \o Spawned(n, "running")
     /\ int_processes' = Len(procs) + 1 .. Len(procs) + n
     /\ pc' = then
  \/ /\ n > 0 /\ PossibleCores # {}
     /\ \E failed \in 1 .. n :
          /\ failed = 1 \/ interfering[1]
          /\ procs' = procs \o Spawned(failed - 1, "stopping")
     /\ int_processes' = {} /\ pc' = then

(* An interfering benchmark ends after its SIGINT.                         *)
Die ==
  /\ \E p \in DOMAIN procs :
       procs[p].state = "stopping" /\ procs' = [procs EXCEPT ![p].state = "gone"]
  /\ UNCHANGED <<config, interfering, tests, test, pc, others, int_processes, paramVars,
                 loopVars, wssVars>>

TestTeardown_StopsNone ==  \* mutant
  /\ pc = "teardown"
  /\ IF config.draw # "only" THEN MoveProcesses("all") ELSE UNCHANGED others
  /\ pc' = "next"
  /\ UNCHANGED <<config, interfering, tests, test, procs, int_processes, paramVars, loopVars,
                 wssVars>>
TestTeardown ==
  /\ pc = "teardown"
  /\ IF config.draw # "only" THEN MoveProcesses("all") ELSE UNCHANGED others
  /\ procs' = IF interfering # <<>> THEN Interrupted(int_processes) ELSE procs
  /\ pc' = "next"
  /\ UNCHANGED <<config, interfering, tests, test, int_processes, paramVars, loopVars, wssVars>>

-----------------------------------------------------------------------------
(* main()                                                                  *)

(* schedulability.execute() wants its WCETs without interference.          *)
InterferingFor_Kept(t) == interfering  \* mutant
InterferingFor(t) == IF t = "sched" THEN <<>> ELSE interfering

(* The next test begins; when graphs only are wanted it draws them from    *)
(* files that may lack its data.                                           *)
NextTest ==
  /\ pc = "next" /\ tests # <<>>
  /\ test' = Head(tests) /\ tests' = Tail(tests)
  /\ bmark' = 1 /\ step' = 1 /\ worst_runtimes' = <<>>
  /\ \/ /\ config.draw = "only"
        /\ res' \in {0, -1}
        /\ pc' = "teardown"
        /\ UNCHANGED <<interfering, wssVars>>
     \/ /\ config.draw # "only"
        /\ interfering' = InterferingFor(test')
        /\ pc' = IF test' = "WSS" THEN "wss" ELSE "interfere"
        /\ IF test' = "WSS" THEN WSSRestart ELSE UNCHANGED wssVars
        /\ UNCHANGED res
  /\ UNCHANGED <<config, envVars, wcet, quiet>>

End ==
  /\ pc = "next" /\ tests = <<>>
  /\ pc' = "done"
  /\ UNCHANGED <<config, interfering, tests, test, envVars, paramVars, loopVars, wssVars>>

Interfere ==
  /\ pc = "interfere"
  /\ StartInterfering(IF test = "overhead" THEN "overhead" ELSE "wcet")
  /\ UNCHANGED <<config, interfering, tests, test, others, paramVars, loopVars, wssVars>>

(* A benchmark is run; the parameters of SCHED_DEADLINE are integers, of   *)
(* which the command line cannot be joined.                                *)
Run(from, running) ==
  /\ pc = from
  /\ pc' = IF config.deadline = "all" THEN "raised" ELSE running
  /\ quiet' = \A p \in DOMAIN procs : procs[p].state = "gone"
  /\ UNCHANGED <<config, interfering, tests, test, envVars, paramVars, worst_runtimes, bmark,
                 step, wssVars>>

(* The end of a test's work on a benchmark: its label needs an argument;   *)
(* the next benchmark, or the end of the test.                             *)
Advance(again, end) ==
  /\ pc' = IF ~ config.benchmarks[bmark] THEN "raised"
           ELSE IF bmark < Len(config.benchmarks) THEN again ELSE end
  /\ bmark' = bmark + 1 /\ step' = 1

AllTested == config.benchmarks[bmark] /\ bmark = Len(config.benchmarks)

-----------------------------------------------------------------------------
(* worst_case_exec_test(), called by main() or by schedulability.py        *)

WCETReturns == IF test = "sched" THEN "schedCheck" ELSE "teardown"

(* The -1 of a wrong threshold cannot be unpacked.                         *)
RunWCET ==
  \/ config.threshold_valid /\ Run("wcet", "wcetRun")
  \/ ~ config.threshold_valid /\ pc = "wcet" /\ pc' = "raised"
       /\ UNCHANGED <<config, interfering, tests, test, envVars, paramVars, loopVars, wssVars>>

(* The run fails: an error that is left in "res:".                         *)
WCETFails ==
  /\ pc = "wcetRun"
  /\ pc' = WCETReturns
  /\ UNCHANGED <<config, interfering, tests, test, envVars, paramVars, loopVars, wssVars>>

(* Too many deadlines are missed: again, with a longer deadline.           *)
WCETMisses ==
  /\ pc = "wcetRun" /\ step < MaxRuns
  /\ step' = step + 1 /\ pc' = "wcet"
  /\ UNCHANGED <<config, interfering, tests, test, envVars, paramVars, worst_runtimes, quiet,
                 bmark, wssVars>>

WCETFound ==
  /\ pc = "wcetRun"
  /\ worst_runtimes' = Append(worst_runtimes, [bmark |-> bmark, quiet |-> quiet])
  /\ Advance("wcet", WCETReturns)
  /\ IF AllTested THEN wcet' = worst_runtimes' /\ res' = 0 ELSE UNCHANGED paramVars
  /\ UNCHANGED <<config, interfering, tests, test, envVars, quiet, wssVars>>

-----------------------------------------------------------------------------
(* sched_test()                                                            *)

(* The WCETs are those in params, whoever has put them there.              *)
CheckWCET ==
  /\ pc = "schedCheck"
  /\ interfering' = config.interfering
  /\ IF wcet = <<>> THEN res' = -1 /\ pc' = "teardown" ELSE UNCHANGED res /\ pc' = "schedInterfere"
  /\ bmark' = 1 /\ step' = 1
  /\ UNCHANGED <<config, tests, test, envVars, wcet, worst_runtimes, quiet, wssVars>>

SchedInterfere ==
  /\ pc = "schedInterfere"
  /\ StartInterfering("sched")
  /\ UNCHANGED <<config, interfering, tests, test, others, paramVars, loopVars, wssVars>>

RunSched == step * UtilInc <= 100 /\ Run("sched", "schedRun")

SchedStep ==
  /\ pc = "schedRun"
  /\ step' = step + 1 /\ pc' = "sched"
  /\ UNCHANGED <<config, interfering, tests, test, envVars, paramVars, worst_runtimes, quiet,
                 bmark, wssVars>>

(* A failing run ends the loop over the benchmarks with a -1 that the      *)
(* results of those before it overwrite.                                   *)
SchedFails ==
  /\ pc = "schedRun"
  /\ res' = 0 /\ pc' = "teardown"
  /\ UNCHANGED <<config, interfering, tests, test, envVars, wcet, loopVars, wssVars>>

SchedDone ==
  /\ pc = "sched" /\ step * UtilInc > 100
  /\ Advance("sched", "teardown")
  /\ res' = IF AllTested THEN 0 ELSE res
  /\ UNCHANGED <<config, interfering, tests, test, envVars, wcet, worst_runtimes, quiet, wssVars>>

-----------------------------------------------------------------------------
(* wss_test() and overhead_test()                                          *)

RunWSS == Searching /\ Run("wss", "wssRun")

WSSProbe ==
  /\ pc = "wssRun"
  /\ \E ok \in BOOLEAN : Probe(ok)
  /\ pc' = "wss"
  /\ UNCHANGED <<config, interfering, tests, test, envVars, paramVars, loopVars>>

WSSDone ==
  /\ pc = "wss" /\ ~ Searching
  /\ Advance("wss", "teardown")
  /\ IF pc' = "wss" THEN WSSRestart ELSE UNCHANGED wssVars
  /\ res' = IF AllTested THEN 0 ELSE res
  /\ UNCHANGED <<config, interfering, tests, test, envVars, wcet, worst_runtimes, quiet>>

RunOverhead == Run("overhead", "overheadRun")

(* Nothing catches the exception of a run that fails.                      *)
OverheadDone ==
  /\ pc = "overheadRun"
  /\ \/ res' = 0 /\ pc' = "teardown"
     \/ pc' = "raised" /\ UNCHANGED res
  /\ UNCHANGED <<config, interfering, tests, test, envVars, wcet, loopVars, wssVars>>

-----------------------------------------------------------------------------
WSSStep == RunWSS \/ WSSProbe \/ WSSDone

Next ==
  \/ TestInit \/ NextTest \/ End \/ TestTeardown \/ Interfere
  \/ RunWCET \/ WCETFails \/ WCETMisses \/ WCETFound
  \/ CheckWCET \/ SchedInterfere \/ RunSched \/ SchedStep \/ SchedFails \/ SchedDone
  \/ WSSStep \/ RunOverhead \/ OverheadDone
  \/ Die

(* A run of the search has a period and a deadline of a whole second and   *)
(* comes back.                                                             *)
Spec == Init /\ [][Next]_vars /\ WF_vars(WSSStep)

-----------------------------------------------------------------------------
(* Properties                                                              *)

(* The rows that go to a file named "interfering" (WCET.py:88-94) are      *)
(* measured while every interfering benchmark that was asked for runs, on  *)
(* a core that is neither core 0 nor the target's nor the system's         *)
(* (base.py:95), and all other rows while none does but those that were    *)
(* told to end.  The known exceptions are a start that failed, which       *)
(* leaves no processes, and benchmarks without arguments.                  *)
InterferenceInPlace ==
  Measuring =>
    IF interfering # <<>> /\ test # "WSS"
    THEN int_processes # {} =>
           \A i \in DOMAIN interfering : interfering[i] =>
             \E p \in int_processes :
               /\ procs[p].prog = i /\ procs[p].state = "running"
               /\ procs[p].core \notin {0} \union config.target_core \union config.system_core
    ELSE \A p \in DOMAIN procs : procs[p].state # "running"

(* When the script comes to its end every interfering benchmark it has     *)
(* started, by whatever test, has been stopped (base.py:596): none is      *)
(* forgotten when params["int_processes"] is overwritten.                  *)
NoneLeft == pc = "done" => \A p \in DOMAIN procs : procs[p].state # "running"

(* The deadlines of the schedulability test come, for each benchmark in    *)
(* its turn, from a WCET of that benchmark, whichever test has measured it *)
(* and whatever failed before; and "we want a WCET without interference"   *)
(* (schedulability.py:221): no interfering benchmark ran next to it.  Only *)
(* a script that has run other tests next to interfering benchmarks need   *)
(* not get one without: they may be ending, or its own search may fail.    *)
SchedOwnWCET ==
  pc = "schedRun" =>
    /\ wcet[bmark].bmark = bmark
    /\ config.test # "all" \/ config.interfering = <<>> => wcet[bmark].quiet

(* The search for a working set size ends (WSS.py:183).                    *)
WSSEnds == pc = "wss" ~> pc \in {"teardown", "raised"}
=============================================================================
