--------------------------- MODULE ExperimentsProofs ---------------------------
(***************************************************************************)
(* The test scripts, for every machine and every set of command lines:     *)
(* what the search of WSS.py finds, and that every measurement of a script *)
(* is taken next to the benchmarks that are meant to run and no others.    *)
(***************************************************************************)
EXTENDS Experiments, FiniteSetTheorems, WellFoundedInduction, SequenceTheorems, TLAPS

-----------------------------------------------------------------------------
(* The search of WSS.py, whatever script it belongs to                     *)

(* While no limit has succeeded, the last one failed and is the lower      *)
(* bound; it has been doubled.                                             *)
Doubling ==
  /\ wss_upper_bound = 0
  /\ \/ current_wss = 1 /\ last_wss = 0 /\ wss_lower_bound = 1
     \/ /\ last_wss = wss_lower_bound /\ current_wss = 2 * last_wss
        /\ last_wss < needed + Slack

(* Afterwards the bounds enclose the size, the limit to try lies halfway   *)
(* and the last one is a bound; only a first limit that succeeds leaves a  *)
(* lower bound that has not failed.                                        *)
Halving ==
  /\ wss_upper_bound >= needed
  /\ wss_lower_bound <= wss_upper_bound
  /\ wss_lower_bound < needed + Slack \/ wss_upper_bound = 1
  /\ current_wss = (wss_lower_bound + wss_upper_bound) \div 2
  /\ last_wss \in {wss_lower_bound, wss_upper_bound}

Bounds ==
  /\ needed \in Nat \ {0}
  /\ {current_wss, last_wss, wss_lower_bound, wss_upper_bound} \subseteq Nat
  /\ wss_lower_bound >= 1
  /\ Doubling \/ Halving

LEMMA BoundsInit == WSSInit => Bounds
  BY WSSAssumption DEF WSSAssumption, WSSInit, Bounds, Doubling

LEMMA Halved ==
  ASSUME NEW a \in Nat, NEW b \in Nat, a <= b
  PROVE  (a + b) \div 2 \in a .. b
  OBVIOUS

LEMMA HalfIsBound ==
  ASSUME NEW a \in Nat, NEW b \in Nat, a <= b, (a + b) \div 2 \in {a, b}
  PROVE  b \in {a, a + 1}
  OBVIOUS

LEMMA BoundsStep == Bounds /\ [WSSNext]_wssVars => Bounds'
<1> SUFFICES ASSUME Bounds, [WSSNext]_wssVars PROVE Bounds'
  OBVIOUS
<1> USE WSSAssumption DEF WSSAssumption
<1>1. CASE UNCHANGED wssVars
  BY <1>1 DEF wssVars, Bounds, Doubling, Halving
<1>2. CASE WSSNext
  <2>1. PICK ok \in BOOLEAN : Probe(ok)
    BY <1>2 DEF WSSNext
  <2>2. needed' = needed /\ last_wss' = current_wss
    BY <2>1 DEF Probe
  <2>3. current_wss \in Nat /\ current_wss >= 1
    <3>1. CASE Doubling
      BY <3>1 DEF Bounds, Doubling
    <3>2. CASE Halving
      BY <3>2, Halved DEF Bounds, Halving
    <3> QED
      BY <3>1, <3>2 DEF Bounds
  <2>4. CASE ok = TRUE
    <3>1. /\ wss_lower_bound' = wss_lower_bound /\ wss_upper_bound' = current_wss
          /\ current_wss >= needed
          /\ current_wss' = (wss_lower_bound + current_wss) \div 2
      BY <2>1, <2>3, <2>4 DEF Probe, NextLimit, Outcome, Bounds
    <3>2. wss_lower_bound <= current_wss
      <4>1. CASE Doubling
        BY <4>1 DEF Bounds, Doubling
      <4>2. CASE Halving
        BY <4>2, Halved DEF Bounds, Halving
      <4> QED
        BY <4>1, <4>2 DEF Bounds
    <3>3. wss_lower_bound < needed + Slack \/ current_wss = 1
      <4>1. CASE Doubling
        BY <4>1 DEF Bounds, Doubling
      <4>2. CASE Halving
        BY <4>2, <2>3, Halved DEF Bounds, Halving
      <4> QED
        BY <4>1, <4>2 DEF Bounds
    <3>4. Halving'
      BY <2>2, <3>1, <3>2, <3>3 DEF Halving
    <3>5. current_wss' \in Nat
      BY <2>3, <3>1, <3>2, Halved DEF Bounds
    <3> QED
      BY <2>2, <2>3, <3>1, <3>4, <3>5 DEF Bounds
  <2>5. CASE ok = FALSE
    <3>1. /\ wss_lower_bound' = current_wss /\ wss_upper_bound' = wss_upper_bound
          /\ current_wss < needed + Slack
          /\ current_wss' = IF wss_upper_bound > 0
                            THEN (current_wss + wss_upper_bound) \div 2 ELSE current_wss * 2
      <4>1. /\ wss_lower_bound' = current_wss /\ wss_upper_bound' = wss_upper_bound
            /\ FALSE \in Outcome(current_wss)
        BY <2>1, <2>5 DEF Probe
      <4>2. current_wss < needed + Slack
        <5> SUFFICES ASSUME current_wss >= needed + Slack PROVE FALSE
          BY <2>3 DEF Bounds
        <5>1. ~ (current_wss < needed)
          BY <2>3 DEF Bounds
        <5>2. Outcome(current_wss) = {TRUE}
          BY <5>1 DEF Outcome
        <5> QED
          BY <4>1, <5>2
      <4>3. current_wss' = NextLimit(current_wss, wss_upper_bound)
        BY <2>1, <4>1 DEF Probe
      <4> QED
        BY <4>1, <4>2, <4>3 DEF NextLimit
    <3>2. CASE Doubling
      <4>1. Doubling'
        BY <2>2, <2>3, <3>1, <3>2 DEF Doubling
      <4> QED
        BY <2>2, <2>3, <3>1, <3>2, <4>1 DEF Bounds, Doubling
    <3>3. CASE Halving
      <4>1. wss_upper_bound \in Nat /\ wss_upper_bound > 0 /\ current_wss <= wss_upper_bound
        BY <3>3, Halved DEF Bounds, Halving
      <4>2. Halving'
        BY <2>2, <2>3, <3>1, <3>3, <4>1 DEF Halving
      <4>3. current_wss' \in Nat
        BY <2>3, <3>1, <4>1, Halved
      <4> QED
        BY <2>2, <2>3, <3>1, <4>1, <4>2, <4>3 DEF Bounds
    <3> QED
      BY <3>2, <3>3 DEF Bounds
  <2> QED
    BY <2>4, <2>5
<1> QED
  BY <1>1, <1>2

(* A limit can follow itself only when at most one byte lies between the   *)
(* bounds.                                                                 *)
LEMMA BoundsBracket == Bounds => WSSBracket
<1> SUFFICES ASSUME Bounds, current_wss = last_wss PROVE WSSBracket
  BY DEF WSSBracket, Searching
<1> USE WSSAssumption DEF WSSAssumption
<1>1. CASE Doubling
  BY <1>1 DEF Bounds, Doubling
<1>2. CASE Halving
  <2>1. wss_upper_bound \in {wss_lower_bound, wss_lower_bound + 1}
    <3>1. (wss_lower_bound + wss_upper_bound) \div 2 \in {wss_lower_bound, wss_upper_bound}
      BY <1>2 DEF Halving
    <3> QED
      BY <1>2, <3>1, HalfIsBound DEF Bounds, Halving
  <2>2. wss_upper_bound \in {current_wss, current_wss + 1}
    BY <1>2, <2>1 DEF Bounds, Halving
  <2>3. wss_upper_bound \in needed .. needed + Slack
    BY <1>2, <2>1 DEF Bounds, Halving
  <2> QED
    BY <2>2, <2>3 DEF WSSBracket
<1> QED
  BY <1>1, <1>2 DEF Bounds

(* The search of WSS.py ends with a limit that succeeds and is at most     *)
(* Slack above the size needed, and returns it or one byte less.           *)
THEOREM SearchCorrect == WSSSpec => []WSSBracket
<1>1. Bounds /\ [WSSNext]_wssVars => Bounds'
  BY BoundsStep
<1> QED
  BY BoundsInit, <1>1, BoundsBracket, PTL DEF WSSSpec

-----------------------------------------------------------------------------
(* The operators of the model                                              *)

(* A set of natural numbers has a least element.                           *)
LEMMA LeastElement ==
  ASSUME NEW T, T \subseteq Nat, T # {}
  PROVE  \E x \in T : \A y \in T : x <= y
<1>1. IsWellFoundedOn(OpToRel(<, Nat), Nat)
  BY NatLessThanWellFounded
<1>2. PICK x \in T : \A y \in T : <<y, x>> \notin OpToRel(<, Nat)
  BY <1>1, WFMin
<1>3. ASSUME NEW y \in T PROVE x <= y
  <2>1. ~ (y < x)
    BY <1>2 DEF OpToRel
  <2> QED
    BY <2>1
<1> QED
  BY <1>3

LEMMA GreatestElement ==
  ASSUME NEW n \in Nat, NEW T, T \subseteq 1 .. n, T # {}
  PROVE  Max(T) \in T /\ \A y \in T : Max(T) >= y
<1>1. {n - y : y \in T} \subseteq Nat /\ {n - y : y \in T} # {}
  OBVIOUS
<1>2. PICK x \in T : \A y \in {n - z : z \in T} : n - x <= y
  BY <1>1, LeastElement
<1>3. \A y \in T : x >= y
  BY <1>2
<1> QED
  BY <1>3 DEF Max

LEMMA CoresFinite == IsFiniteSet(PossibleCores) /\ \A c \in PossibleCores : c \in Nat
<1>1. PossibleCores \subseteq 1 .. NumCpus - 1
  BY DEF PossibleCores
<1>2. IsFiniteSet(1 .. NumCpus - 1)
  BY ExperimentsAssumption, FS_Interval DEF ExperimentsAssumption
<1>3. IsFiniteSet(PossibleCores)
  BY <1>1, <1>2, FS_Subset
<1> QED
  BY <1>1, <1>3, ExperimentsAssumption DEF ExperimentsAssumption

(* The core of every interfering benchmark is a possible one: each number  *)
(* of cores below some core of a set is that of one core of the set.       *)
LEMMA CoreIsPossible ==
  ASSUME PossibleCores # {}, NEW i \in Nat \ {0}
  PROVE  CoreOf(i) \in PossibleCores
<1> DEFINE n == Cardinality(PossibleCores)
           r == (i - 1) % n
           T == {m \in Nat : Cardinality(Below(m)) > r}
<1>1. \A m \in Nat : IsFiniteSet(Below(m)) /\ Cardinality(Below(m)) \in Nat
  BY CoresFinite, FS_Subset, FS_CardinalityType DEF Below
<1>2. n \in Nat \ {0} /\ r \in 0 .. n - 1
  <2>1. n \in Nat \ {0}
    BY CoresFinite, FS_CardinalityType, FS_EmptySet
  <2> QED
    BY <2>1
<1>3. NumCpus \in T
  <2>1. Below(NumCpus) = PossibleCores
    BY ExperimentsAssumption DEF ExperimentsAssumption, Below, PossibleCores
  <2> QED
    BY <1>2, <2>1, ExperimentsAssumption DEF ExperimentsAssumption
<1>4. PICK m \in T : \A k \in T : m <= k
  BY <1>3, LeastElement
<1>5. m \in Nat \ {0}
  <2>1. Below(0) = {}
    BY CoresFinite DEF Below
  <2> QED
    BY <1>2, <1>4, <2>1, FS_EmptySet
<1>6. Cardinality(Below(m - 1)) <= r
  BY <1>1, <1>2, <1>4, <1>5
<1>7. m - 1 \in PossibleCores /\ Cardinality(Below(m)) = Cardinality(Below(m - 1)) + 1
  <2>1. CASE m - 1 \notin PossibleCores
    <3>1. Below(m) = Below(m - 1)
      BY <1>5, <2>1, CoresFinite DEF Below
    <3> QED
      BY <1>1, <1>2, <1>4, <1>6, <3>1
  <2>2. CASE m - 1 \in PossibleCores
    <3>1. Below(m) = Below(m - 1) \cup {m - 1} /\ m - 1 \notin Below(m - 1)
      BY <1>5, <2>2, CoresFinite DEF Below
    <3>2. IsFiniteSet(Below(m - 1))
      BY <1>1, <1>5
    <3>3. Cardinality(Below(m - 1) \cup {m - 1}) = Cardinality(Below(m - 1)) + 1
      BY <3>1, <3>2, FS_AddElement
    <3> QED
      BY <2>2, <3>1, <3>3
  <2> QED
    BY <2>1, <2>2
<1>8. Cardinality(Below(m - 1)) = r
  BY <1>1, <1>2, <1>4, <1>5, <1>6, <1>7
<1> QED
  BY <1>7, <1>8 DEF CoreOf
LEMMA ListsTyped ==
  ASSUME config \in Configs, interfering \in {config.interfering, <<>>}
  PROVE  /\ interfering \in Seq(BOOLEAN) /\ config.benchmarks \in Seq(BOOLEAN)
         /\ Len(interfering) \in Nat /\ Len(config.benchmarks) \in Nat
<1>1. config \in CommandLines
  BY ExperimentsAssumption DEF ExperimentsAssumption
<1>2. <<>> \in Seq(BOOLEAN)
  BY EmptySeq
<1>3. config.benchmarks \in Seq(BOOLEAN) /\ config.interfering \in Seq(BOOLEAN)
  BY <1>1 DEF CommandLines
<1> QED
  BY <1>2, <1>3, LenProperties

LEMMA CommandIsBefore ==
  ASSUME interfering \in Seq(BOOLEAN), NEW i \in 1 .. Len(interfering), interfering[1]
  PROVE  CommandOf(i) \in 1 .. i /\ (interfering[i] => CommandOf(i) = i)
<1> DEFINE T == {j \in 1 .. i : interfering[j]}
<1>1. T \subseteq 1 .. i /\ 1 \in T
  OBVIOUS
<1>2. Max(T) \in T /\ \A y \in T : Max(T) >= y
  <2>1. i \in Nat
    BY LenProperties
  <2> HIDE DEF T
  <2> QED
    BY <1>1, <2>1, GreatestElement
<1>3. CommandOf(i) = Max(T)
  BY DEF CommandOf
<1> QED
  BY <1>1, <1>2, <1>3

(* The processes a start creates.                                          *)
LEMMA SpawnedProcesses ==
  ASSUME TypeOK, PossibleCores # {}, NEW n \in 0 .. Len(interfering), n = 0 \/ interfering[1],
         NEW state \in {"running", "stopping", "gone"}
  PROVE  /\ Spawned(n, state) \in Seq(Processes) /\ Len(Spawned(n, state)) = n
         /\ \A i \in 1 .. n : /\ Spawned(n, state)[i].state = state
                              /\ Spawned(n, state)[i].core \in PossibleCores
                              /\ interfering[i] => Spawned(n, state)[i].prog = i
<1>1. interfering \in Seq(BOOLEAN)
  BY ListsTyped DEF TypeOK
<1>2. PossibleCores \subseteq 0 .. NumCpus - 1
  BY ExperimentsAssumption DEF ExperimentsAssumption, PossibleCores
<1>3. ASSUME NEW i \in 1 .. n
      PROVE  /\ CommandOf(i) \in Nat \ {0} /\ CoreOf(CommandOf(i)) \in PossibleCores
             /\ interfering[i] => CommandOf(i) = i
  <2>1. CommandOf(i) \in 1 .. i /\ (interfering[i] => CommandOf(i) = i)
    BY <1>1, CommandIsBefore
  <2>2. CommandOf(i) \in Nat \ {0}
    BY <2>1
  <2> QED
    BY <2>1, <2>2, CoreIsPossible
<1>4. n \in Nat
  BY ListsTyped DEF TypeOK
<1>5. Spawned(n, state) \in [1 .. n -> Processes]
  BY <1>2, <1>3 DEF Spawned, Processes
<1>6. Spawned(n, state) \in Seq(Processes) /\ Len(Spawned(n, state)) = n
  BY <1>4, <1>5, SeqDef, LenProperties
<1> QED
  BY <1>3, <1>6 DEF Spawned
-----------------------------------------------------------------------------
(* The inductive invariant                                                 *)

NoneRunning == \A p \in DOMAIN procs : procs[p].state # "running"

(* Which tests come to which place.                                        *)
Places ==
  /\ pc \in {"wcet", "wcetRun"} => test \in {"WCET", "sched"}
  /\ pc \in {"schedCheck", "schedInterfere", "sched", "schedRun"} => test = "sched"
  /\ pc \in {"wss", "wssRun"} => test = "WSS"
  /\ pc \in {"overhead", "overheadRun"} => test = "overhead"
  /\ pc = "interfere" => test \in {"WCET", "sched", "overhead"}
  /\ pc = "init" => test = "none"
  /\ test = "none" => pc \in {"init", "next", "done", "exit", "raised"}
  /\ config.draw = "only" => pc \in {"init", "exit", "next", "teardown", "done"}

(* A test is one of those asked for, and the benchmark under test is one   *)
(* of the command line's.                                                  *)
UnderTest ==
  /\ config.test = "all" \/ test \in {"none", config.test}
  /\ pc \notin {"init", "exit", "raised"} /\ config.draw # "only" =>
       config.benchmarks # <<>> \/ config.test = "overhead"
  /\ pc \in {"interfere", "wcet", "wcetRun", "schedInterfere", "sched", "schedRun", "wss", "wssRun"}
     /\ test # "overhead" => bmark \in 1 .. Len(config.benchmarks)

(* The interfering benchmarks that run are those of int_processes, and     *)
(* none does between two tests, without a list of them, and until the      *)
(* schedulability test starts its own.                                     *)
Owned == \A p \in DOMAIN procs : procs[p].state = "running" => p \in int_processes

Hushed ==
  /\ interfering = <<>> => NoneRunning
  /\ pc \in {"init", "next", "done", "interfere", "schedCheck", "schedInterfere", "wss",
             "wssRun"} => NoneRunning
  /\ test = "sched" /\ pc \in {"interfere", "wcet", "wcetRun", "schedCheck"} => interfering = <<>>

(* The processes a successful start has left run every benchmark of the    *)
(* list that has arguments, on a possible core.                            *)
Runs(i) ==
  \E p \in int_processes :
    procs[p].prog = i /\ procs[p].state = "running" /\ procs[p].core \in PossibleCores
InPlace ==
  pc \in {"wcet", "wcetRun", "sched", "schedRun", "overhead", "overheadRun"}
  /\ interfering # <<>> /\ int_processes # {} =>
    \A i \in DOMAIN interfering : interfering[i] => Runs(i)

(* A script for one test runs it once.                                     *)
Scheduled ==
  /\ test = "none" => tests = TestsOf(config)
  /\ test # "none" /\ config.test # "all" => tests = <<>>

(* A script without interfering benchmarks starts none, and a script for   *)
(* the schedulability test alone none before it has its WCETs.             *)
Calm == config.test = "sched" \/ config.interfering = <<>>
Unstarted ==
  /\ config.interfering = <<>> => procs = <<>>
  /\ config.test = "sched" =>
       /\ test = "none" => procs = <<>>
       /\ pc \in {"interfere", "wcet", "wcetRun", "schedCheck", "schedInterfere"} => procs = <<>>

(* The WCETs of the benchmarks are measured in turn, with none left out,   *)
(* and quietly in a calm script; those of a search that fails are dropped. *)
Rows(rows) == \A i \in 1 .. Len(rows) : rows[i].bmark = i /\ (Calm => rows[i].quiet)
OwnWCET ==
  /\ pc = "wcetRun" /\ Calm => quiet
  /\ pc \in {"interfere", "wcet", "wcetRun"} => Len(worst_runtimes) = bmark - 1 /\ Rows(worst_runtimes)
  /\ wcet # <<>> => Len(wcet) = Len(config.benchmarks) /\ Rows(wcet)
  /\ pc \in {"schedInterfere", "sched", "schedRun"} => wcet # <<>>

(* A run of the search is that of a search that goes on.                   *)
SearchOn == Bounds /\ (pc = "wssRun" => Searching)

-----------------------------------------------------------------------------
(* Starting and stopping the interfering benchmarks                        *)

LEMMA Started ==
  ASSUME TypeOK, NoneRunning, NEW then, then # "stuck", StartInterfering(then)
  PROVE  /\ procs' \in Seq(Processes) /\ int_processes' \subseteq 1 .. Len(procs')
         /\ pc' \in {then, "stuck"}
         /\ interfering = <<>> => procs' = procs /\ int_processes' = {}
         /\ \A p \in DOMAIN procs' : procs'[p].state = "running" => p \in int_processes'
         /\ pc' = then /\ int_processes' # {} =>
              \A i \in DOMAIN interfering : interfering[i] =>
                \E p \in int_processes' : /\ procs'[p].prog = i /\ procs'[p].state = "running"
                                          /\ procs'[p].core \in PossibleCores
<1> DEFINE n == Len(interfering)
<1>1. /\ interfering \in Seq(BOOLEAN) /\ n \in Nat /\ DOMAIN interfering = 1 .. n
      /\ interfering = <<>> <=> n = 0
      /\ n = Len(interfering)
  BY ListsTyped, LenProperties, EmptySeq DEF TypeOK
<1> HIDE DEF n
<1>2. procs \in Seq(Processes) /\ Len(procs) \in Nat /\ DOMAIN procs = 1 .. Len(procs)
  BY LenProperties DEF TypeOK
<1>3. CASE n = 0 /\ int_processes' = {} /\ pc' = then /\ UNCHANGED procs
  BY <1>1, <1>2, <1>3 DEF NoneRunning
<1>4. CASE n > 0 /\ PossibleCores = {} /\ pc' = "stuck" /\ UNCHANGED <<procs, int_processes>>
  BY <1>1, <1>2, <1>4 DEF NoneRunning, TypeOK
<1>5. CASE /\ n > 0 /\ PossibleCores # {} /\ interfering[1]
           /\ procs' = procs \o Spawned(n, "running")
           /\ int_processes' = Len(procs) + 1 .. Len(procs) + n
           /\ pc' = then
  <2> DEFINE new == Spawned(n, "running")
  <2>1. /\ new \in Seq(Processes) /\ Len(new) = n
        /\ \A i \in 1 .. n : /\ new[i].state = "running" /\ new[i].core \in PossibleCores
                             /\ interfering[i] => new[i].prog = i
    <3>1. n \in 0 .. Len(interfering)
      BY <1>1
    <3>2. PossibleCores # {} /\ interfering[1]
      BY <1>5
    <3> QED
      BY <3>1, <3>2, SpawnedProcesses
  <2> HIDE DEF new
  <2>2. /\ procs' \in Seq(Processes) /\ Len(procs') = Len(procs) + n
        /\ \A p \in 1 .. Len(procs) + n :
             procs'[p] = IF p <= Len(procs) THEN procs[p] ELSE new[p - Len(procs)]
    <3>1. procs' = procs \o new
      BY <1>5 DEF new
    <3> QED
      BY <1>2, <2>1, <3>1, ConcatProperties
  <2>3. DOMAIN procs' = 1 .. Len(procs) + n
    BY <2>2, LenProperties
  <2>4. \A p \in DOMAIN procs' : procs'[p].state = "running" => p \in int_processes'
    BY <1>1, <1>2, <1>5, <2>2, <2>3 DEF NoneRunning
  <2>5. ASSUME NEW i \in 1 .. n, interfering[i]
        PROVE  \E p \in int_processes' : /\ procs'[p].prog = i /\ procs'[p].state = "running"
                                         /\ procs'[p].core \in PossibleCores
    <3>1. PICK p \in Nat : p = Len(procs) + i /\ p - Len(procs) = i
      BY <1>1, <1>2
    <3>2. p \in int_processes' /\ p \in 1 .. Len(procs) + n /\ p > Len(procs)
      BY <1>1, <1>2, <1>5, <3>1
    <3>3. procs'[p] = new[i]
      BY <1>2, <2>2, <3>1, <3>2
    <3>4. new[i].prog = i /\ new[i].state = "running" /\ new[i].core \in PossibleCores
      BY <2>1, <2>5
    <3> QED
      BY <3>2, <3>3, <3>4
  <2>6. int_processes' \subseteq 1 .. Len(procs')
    BY <1>1, <1>2, <1>5, <2>2
  <2>7. interfering # <<>> /\ pc' = then
    BY <1>1, <1>5
  <2> QED
    BY <1>1, <2>2, <2>4, <2>5, <2>6, <2>7
<1>6. CASE /\ n > 0 /\ PossibleCores # {}
           /\ \E failed \in 1 .. n :
                 /\ failed = 1 \/ interfering[1]
                 /\ procs' = procs \o Spawned(failed - 1, "stopping")
           /\ int_processes' = {} /\ pc' = then
  <2>1. PICK k \in 0 .. Len(interfering) : /\ k = 0 \/ interfering[1]
                                           /\ procs' = procs \o Spawned(k, "stopping")
    <3>1. PICK failed \in 1 .. n : /\ failed = 1 \/ interfering[1]
                                   /\ procs' = procs \o Spawned(failed - 1, "stopping")
      BY <1>6
    <3>2. failed - 1 \in 0 .. Len(interfering)
      BY <1>1
    <3> QED
      BY <3>1, <3>2
  <2> DEFINE new == Spawned(k, "stopping")
  <2>2. /\ new \in Seq(Processes) /\ Len(new) = k
        /\ \A i \in 1 .. k : new[i].state = "stopping"
    <3>1. k = 0 \/ interfering[1]
      BY <2>1
    <3>2. PossibleCores # {}
      BY <1>6
    <3> QED
      BY <3>1, <3>2, SpawnedProcesses
  <2>3. procs' = procs \o new
    BY <2>1
  <2> HIDE DEF new
  <2>4. /\ procs' \in Seq(Processes) /\ Len(procs') = Len(procs) + k
        /\ \A p \in 1 .. Len(procs) + k :
             procs'[p] = IF p <= Len(procs) THEN procs[p] ELSE new[p - Len(procs)]
    BY <1>2, <2>2, <2>3, ConcatProperties
  <2>5. DOMAIN procs' = 1 .. Len(procs) + k
    BY <2>4, LenProperties
  <2>6. ASSUME NEW p \in DOMAIN procs' PROVE procs'[p].state # "running"
    <3>1. CASE p <= Len(procs)
      BY <1>2, <2>4, <2>5, <3>1 DEF NoneRunning
    <3>2. CASE p > Len(procs)
      <4>1. p - Len(procs) \in 1 .. k
        BY <1>2, <2>5, <3>2
      <4> QED
        BY <1>2, <2>2, <2>4, <2>5, <3>2, <4>1
    <3> QED
      BY <1>2, <2>5, <3>1, <3>2
  <2> QED
    BY <1>1, <1>6, <2>4, <2>6
<1> QED
  BY <1>3, <1>4, <1>5, <1>6 DEF StartInterfering, n

(* After the SIGINTs none of the processes that were told to end runs.     *)
LEMMA Stopped ==
  ASSUME TypeOK, Owned, procs' = Interrupted(int_processes)
  PROVE  procs' \in Seq(Processes) /\ Len(procs') = Len(procs) /\ NoneRunning'
<1>1. procs \in Seq(Processes) /\ procs \in [1 .. Len(procs) -> Processes] /\ Len(procs) \in Nat
  BY LenProperties DEF TypeOK
<1>2. procs' \in [1 .. Len(procs) -> Processes]
  BY <1>1 DEF Interrupted, Processes
<1>3. procs' \in Seq(Processes) /\ Len(procs') = Len(procs)
  BY <1>1, <1>2, SeqDef, LenProperties
<1>4. NoneRunning'
  BY <1>1 DEF Interrupted, NoneRunning, Owned, Processes
<1> QED
  BY <1>3, <1>4

LEMMA Died ==
  ASSUME TypeOK, Die
  PROVE  /\ procs' \in Seq(Processes) /\ Len(procs') = Len(procs) /\ DOMAIN procs' = DOMAIN procs
         /\ procs = <<>> => procs' = <<>>
         /\ \A p \in DOMAIN procs : /\ procs'[p].state = "running" <=> procs[p].state = "running"
                                  /\ procs'[p].prog = procs[p].prog
                                  /\ procs'[p].core = procs[p].core
<1>1. procs \in Seq(Processes) /\ procs \in [1 .. Len(procs) -> Processes] /\ Len(procs) \in Nat
  BY LenProperties DEF TypeOK
<1>2. PICK p \in DOMAIN procs :
        procs[p].state = "stopping" /\ procs' = [procs EXCEPT ![p].state = "gone"]
  BY DEF Die
<1>3. procs' \in [1 .. Len(procs) -> Processes]
  BY <1>1, <1>2 DEF Processes
<1>4. procs' \in Seq(Processes) /\ Len(procs') = Len(procs)
  BY <1>1, <1>3, SeqDef, LenProperties
<1>5. procs # <<>>
  BY <1>1, <1>2, EmptySeq
<1> QED
  BY <1>1, <1>2, <1>4, <1>5 DEF Processes

-----------------------------------------------------------------------------
(* The next test and the benchmarks of the command line                    *)

(* The next test is a test; that of a script for one test is its last.     *)
LEMMA NextTestTyped ==
  ASSUME TypeOK, NextTest
  PROVE  /\ test' \in Tests
         /\ tests = TestsOf(config) /\ config.test # "all" => test' = config.test /\ tests' = <<>>
<1>1. test' = Head(tests) /\ tests' = Tail(tests) /\ tests # <<>> /\ tests \in Seq(Tests)
  BY DEF NextTest, TypeOK
<1>2. tests[1] \in Tests /\ Head(tests) = tests[1]
  BY <1>1, ElementOfSeq
<1>3. ASSUME tests = TestsOf(config), config.test # "all"
      PROVE  test' = config.test /\ tests' = <<>>
  <2>1. tests = <<config.test>>
    BY <1>3 DEF TestsOf
  <2> QED
    BY <1>1, <2>1
<1> QED
  BY <1>1, <1>2, <1>3

LEMMA SomeBenchmark ==
  ASSUME TypeOK, config.benchmarks # <<>> PROVE 1 \in 1 .. Len(config.benchmarks)
  BY ListsTyped, EmptySeq DEF TypeOK

-----------------------------------------------------------------------------
(* Each part of the invariant and the steps                                *)

LEMMA TestsTyped == ASSUME config \in Configs PROVE TestsOf(config) \in Seq(Tests)
<1>1. config.test \in Tests \union {"all"}
  BY ExperimentsAssumption DEF ExperimentsAssumption, CommandLines
<1>2. CASE config.test = "all"
  BY <1>2 DEF TestsOf, Tests
<1>3. CASE config.test \in Tests
  <2>1. TestsOf(config) = <<config.test>>
    BY <1>3 DEF TestsOf, Tests
  <2> QED
    BY <1>3, <2>1
<1> QED
  BY <1>1, <1>2, <1>3

LEMMA TypeInit == Init => TypeOK
<1> SUFFICES ASSUME Init PROVE TypeOK
  OBVIOUS
<1>1. tests \in Seq(Tests)
  BY TestsTyped DEF Init
<1>2. procs \in Seq(Processes) /\ wcet \in Seq(Measured) /\ worst_runtimes \in Seq(Measured)
  BY EmptySeq DEF Init
<1>3. WSSTypeOK
  BY DEF Init, WSSInit, WSSTypeOK
<1> QED
  BY <1>1, <1>2, <1>3 DEF Init, TypeOK

LEMMA TypeStep == TypeOK /\ Owned /\ Hushed /\ [Next]_vars => TypeOK'
<1> SUFFICES ASSUME TypeOK, Owned, Hushed, [Next]_vars PROVE TypeOK'
  OBVIOUS
<1> USE DEF envVars, paramVars, loopVars, wssVars, TypeOK, WSSTypeOK, Over
<1>1. CASE TestInit
  BY <1>1 DEF TestInit, MoveProcesses
<1>2. CASE NextTest
  <2>1. test' \in Tests /\ tests' \in Seq(Tests)
    BY <1>2, HeadTailProperties DEF NextTest
  <2>2. worst_runtimes' \in Seq(Measured)
    BY <1>2, EmptySeq DEF NextTest
  <2> QED
    BY <1>2, <2>1, <2>2 DEF NextTest, InterferingFor, WSSRestart
<1>3. CASE End
  BY <1>3 DEF End
<1>4. CASE TestTeardown
  BY <1>4, Stopped DEF TestTeardown, MoveProcesses
<1>5. CASE Interfere
  <2>1. NoneRunning
    BY <1>5 DEF Interfere, Hushed
  <2> QED
    BY <1>5, <2>1, Started DEF Interfere
<1>6. CASE RunWCET
  BY <1>6 DEF RunWCET, Run
<1>7. CASE WCETFails
  BY <1>7 DEF WCETFails, WCETReturns
<1>8. CASE WCETMisses
  BY <1>8 DEF WCETMisses
<1>9. CASE WCETFound
  <2>1. worst_runtimes' \in Seq(Measured)
    BY <1>9, AppendProperties DEF WCETFound, Measured
  <2>2. pc' \in {"raised", "wcet", "schedCheck", "teardown"} /\ bmark' \in Nat /\ step' = 1
    BY <1>9 DEF WCETFound, Advance, WCETReturns
  <2>3. wcet' \in {wcet, worst_runtimes'} /\ res' \in {res, 0}
    BY <1>9 DEF WCETFound
  <2> QED
    BY <1>9, <2>1, <2>2, <2>3 DEF WCETFound
<1>10. CASE CheckWCET
  BY <1>10 DEF CheckWCET
<1>11. CASE SchedInterfere
  <2>1. NoneRunning
    BY <1>11 DEF SchedInterfere, Hushed
  <2> QED
    BY <1>11, <2>1, Started DEF SchedInterfere
<1>12. CASE RunSched
  BY <1>12 DEF RunSched, Run
<1>13. CASE SchedStep
  BY <1>13 DEF SchedStep
<1>14. CASE SchedFails
  BY <1>14 DEF SchedFails
<1>15. CASE SchedDone
  BY <1>15 DEF SchedDone, Advance, AllTested
<1>16. CASE RunWSS
  BY <1>16 DEF RunWSS, Run
<1>17. CASE WSSProbe
  <2>1. WSSTypeOK'
    BY <1>17 DEF WSSProbe, Probe, NextLimit
  <2> QED
    BY <1>17, <2>1 DEF WSSProbe
<1>18. CASE WSSDone
  <2>1. WSSTypeOK'
    BY <1>18 DEF WSSDone, WSSRestart
  <2> QED
    BY <1>18, <2>1 DEF WSSDone, Advance, AllTested
<1>19. CASE RunOverhead
  BY <1>19 DEF RunOverhead, Run
<1>20. CASE OverheadDone
  BY <1>20 DEF OverheadDone
<1>21. CASE Die
  BY <1>21, Died DEF Die
<1>22. CASE UNCHANGED vars
  BY <1>22 DEF vars
<1> QED
  BY <1>1, <1>2, <1>3, <1>4, <1>5, <1>6, <1>7, <1>8, <1>9, <1>10, <1>11, <1>12, <1>13, <1>14, <1>15, <1>16, <1>17, <1>18, <1>19, <1>20, <1>21, <1>22 DEF Next, WSSStep

LEMMA PlacesStep == TypeOK /\ Places /\ [Next]_vars => Places'
<1> SUFFICES ASSUME TypeOK, Places, [Next]_vars PROVE Places'
  OBVIOUS
<1> USE DEF envVars, paramVars, loopVars, wssVars, Places, Measuring, Over
<1>1. CASE TestInit
  BY <1>1 DEF TestInit
<1>2. CASE NextTest
  BY <1>2, NextTestTyped DEF NextTest, Tests
<1>3. CASE End
  BY <1>3 DEF End
<1>4. CASE TestTeardown
  BY <1>4 DEF TestTeardown
<1>5. CASE Interfere
  BY <1>5 DEF Interfere, StartInterfering
<1>6. CASE RunWCET
  BY <1>6 DEF RunWCET, Run
<1>7. CASE WCETFails
  BY <1>7 DEF WCETFails, WCETReturns
<1>8. CASE WCETMisses
  BY <1>8 DEF WCETMisses
<1>9. CASE WCETFound
  BY <1>9 DEF WCETFound, Advance, AllTested, WCETReturns
<1>10. CASE CheckWCET
  BY <1>10 DEF CheckWCET
<1>11. CASE SchedInterfere
  BY <1>11 DEF SchedInterfere, StartInterfering
<1>12. CASE RunSched
  BY <1>12 DEF RunSched, Run
<1>13. CASE SchedStep
  BY <1>13 DEF SchedStep
<1>14. CASE SchedFails
  BY <1>14 DEF SchedFails
<1>15. CASE SchedDone
  BY <1>15 DEF SchedDone, Advance, AllTested
<1>16. CASE RunWSS
  BY <1>16 DEF RunWSS, Run
<1>17. CASE WSSProbe
  BY <1>17 DEF WSSProbe
<1>18. CASE WSSDone
  BY <1>18 DEF WSSDone, Advance, AllTested
<1>19. CASE RunOverhead
  BY <1>19 DEF RunOverhead, Run
<1>20. CASE OverheadDone
  BY <1>20 DEF OverheadDone
<1>21. CASE Die
  BY <1>21 DEF Die
<1>22. CASE UNCHANGED vars
  BY <1>22 DEF vars
<1> QED
  BY <1>1, <1>2, <1>3, <1>4, <1>5, <1>6, <1>7, <1>8, <1>9, <1>10, <1>11, <1>12, <1>13, <1>14, <1>15, <1>16, <1>17, <1>18, <1>19, <1>20, <1>21, <1>22 DEF Next, WSSStep

LEMMA UnderTestStep == TypeOK /\ Places /\ UnderTest /\ Scheduled /\ [Next]_vars => UnderTest'
<1> SUFFICES ASSUME TypeOK, Places, UnderTest, Scheduled, [Next]_vars PROVE UnderTest'
  OBVIOUS
<1> USE DEF envVars, paramVars, loopVars, wssVars, UnderTest, Over
<1>1. CASE TestInit
  BY <1>1 DEF TestInit, InitError, Places
<1>2. CASE NextTest
  <2>1. config.test = "all" \/ test' = config.test
    BY <1>2, NextTestTyped DEF NextTest, Scheduled
  <2> QED
    BY <1>2, <2>1, SomeBenchmark DEF NextTest
<1>3. CASE End
  BY <1>3 DEF End
<1>4. CASE TestTeardown
  BY <1>4 DEF TestTeardown
<1>5. CASE Interfere
  BY <1>5 DEF Interfere, StartInterfering
<1>6. CASE RunWCET
  BY <1>6 DEF RunWCET, Run
<1>7. CASE WCETFails
  BY <1>7 DEF WCETFails, WCETReturns
<1>8. CASE WCETMisses
  BY <1>8 DEF WCETMisses
<1>9. CASE WCETFound
  BY <1>9 DEF WCETFound, Advance, AllTested, WCETReturns
<1>10. CASE CheckWCET
  BY <1>10, SomeBenchmark DEF CheckWCET, Places
<1>11. CASE SchedInterfere
  BY <1>11 DEF SchedInterfere, StartInterfering
<1>12. CASE RunSched
  BY <1>12 DEF RunSched, Run
<1>13. CASE SchedStep
  BY <1>13 DEF SchedStep
<1>14. CASE SchedFails
  BY <1>14 DEF SchedFails
<1>15. CASE SchedDone
  BY <1>15 DEF SchedDone, Advance, AllTested
<1>16. CASE RunWSS
  BY <1>16 DEF RunWSS, Run
<1>17. CASE WSSProbe
  BY <1>17 DEF WSSProbe
<1>18. CASE WSSDone
  BY <1>18 DEF WSSDone, Advance, AllTested
<1>19. CASE RunOverhead
  BY <1>19 DEF RunOverhead, Run
<1>20. CASE OverheadDone
  BY <1>20 DEF OverheadDone
<1>21. CASE Die
  BY <1>21 DEF Die
<1>22. CASE UNCHANGED vars
  BY <1>22 DEF vars
<1> QED
  BY <1>1, <1>2, <1>3, <1>4, <1>5, <1>6, <1>7, <1>8, <1>9, <1>10, <1>11, <1>12, <1>13, <1>14, <1>15, <1>16, <1>17, <1>18, <1>19, <1>20, <1>21, <1>22 DEF Next, WSSStep

LEMMA ScheduledStep == TypeOK /\ Scheduled /\ [Next]_vars => Scheduled'
<1> SUFFICES ASSUME TypeOK, Scheduled, [Next]_vars PROVE Scheduled'
  OBVIOUS
<1> USE DEF envVars, paramVars, loopVars, wssVars, Scheduled, TestsOf
<1>1. CASE TestInit
  BY <1>1 DEF TestInit
<1>2. CASE NextTest
  <2>1. config' = config /\ test' # "none"
    BY <1>2, NextTestTyped DEF NextTest, Tests
  <2>2. CASE test = "none" /\ config.test # "all"
    <3>1. tests' = <<>>
      BY <1>2, <2>2 DEF NextTest
    <3> QED
      BY <2>1, <3>1
  <2>3. CASE test # "none" /\ config.test # "all"
    BY <1>2, <2>3 DEF NextTest
  <2>4. CASE config.test = "all"
    BY <2>1, <2>4
  <2> QED
    BY <2>2, <2>3, <2>4
<1>3. CASE End
  BY <1>3 DEF End
<1>4. CASE TestTeardown
  BY <1>4 DEF TestTeardown
<1>5. CASE Interfere
  BY <1>5 DEF Interfere, StartInterfering
<1>6. CASE RunWCET
  BY <1>6 DEF RunWCET, Run
<1>7. CASE WCETFails
  BY <1>7 DEF WCETFails, WCETReturns
<1>8. CASE WCETMisses
  BY <1>8 DEF WCETMisses
<1>9. CASE WCETFound
  BY <1>9 DEF WCETFound, Advance, AllTested, WCETReturns
<1>10. CASE CheckWCET
  BY <1>10 DEF CheckWCET
<1>11. CASE SchedInterfere
  BY <1>11 DEF SchedInterfere, StartInterfering
<1>12. CASE RunSched
  BY <1>12 DEF RunSched, Run
<1>13. CASE SchedStep
  BY <1>13 DEF SchedStep
<1>14. CASE SchedFails
  BY <1>14 DEF SchedFails
<1>15. CASE SchedDone
  BY <1>15 DEF SchedDone, Advance, AllTested
<1>16. CASE RunWSS
  BY <1>16 DEF RunWSS, Run
<1>17. CASE WSSProbe
  BY <1>17 DEF WSSProbe
<1>18. CASE WSSDone
  BY <1>18 DEF WSSDone, Advance, AllTested
<1>19. CASE RunOverhead
  BY <1>19 DEF RunOverhead, Run
<1>20. CASE OverheadDone
  BY <1>20 DEF OverheadDone
<1>21. CASE Die
  BY <1>21 DEF Die
<1>22. CASE UNCHANGED vars
  BY <1>22 DEF vars
<1> QED
  BY <1>1, <1>2, <1>3, <1>4, <1>5, <1>6, <1>7, <1>8, <1>9, <1>10, <1>11, <1>12, <1>13, <1>14, <1>15, <1>16, <1>17, <1>18, <1>19, <1>20, <1>21, <1>22 DEF Next, WSSStep

LEMMA OwnedStep == TypeOK /\ Owned /\ Hushed /\ [Next]_vars => Owned'
<1> SUFFICES ASSUME TypeOK, Owned, Hushed, [Next]_vars PROVE Owned'
  OBVIOUS
<1> USE DEF envVars, paramVars, loopVars, wssVars, Owned
<1>1. CASE TestInit
  BY <1>1 DEF TestInit
<1>2. CASE NextTest
  BY <1>2 DEF NextTest
<1>3. CASE End
  BY <1>3 DEF End
<1>4. CASE TestTeardown
  <2>1. CASE interfering # <<>>
    BY <1>4, <2>1, Stopped DEF TestTeardown, NoneRunning
  <2>2. CASE interfering = <<>>
    BY <1>4, <2>2 DEF TestTeardown
  <2> QED
    BY <2>1, <2>2
<1>5. CASE Interfere
  <2>1. NoneRunning
    BY <1>5 DEF Interfere, Hushed
  <2> QED
    BY <1>5, <2>1, Started DEF Interfere
<1>6. CASE RunWCET
  BY <1>6 DEF RunWCET, Run
<1>7. CASE WCETFails
  BY <1>7 DEF WCETFails, WCETReturns
<1>8. CASE WCETMisses
  BY <1>8 DEF WCETMisses
<1>9. CASE WCETFound
  BY <1>9 DEF WCETFound, Advance, AllTested, WCETReturns
<1>10. CASE CheckWCET
  BY <1>10 DEF CheckWCET
<1>11. CASE SchedInterfere
  <2>1. NoneRunning
    BY <1>11 DEF SchedInterfere, Hushed
  <2> QED
    BY <1>11, <2>1, Started DEF SchedInterfere
<1>12. CASE RunSched
  BY <1>12 DEF RunSched, Run
<1>13. CASE SchedStep
  BY <1>13 DEF SchedStep
<1>14. CASE SchedFails
  BY <1>14 DEF SchedFails
<1>15. CASE SchedDone
  BY <1>15 DEF SchedDone, Advance, AllTested
<1>16. CASE RunWSS
  BY <1>16 DEF RunWSS, Run
<1>17. CASE WSSProbe
  BY <1>17 DEF WSSProbe
<1>18. CASE WSSDone
  BY <1>18 DEF WSSDone, Advance, AllTested
<1>19. CASE RunOverhead
  BY <1>19 DEF RunOverhead, Run
<1>20. CASE OverheadDone
  BY <1>20 DEF OverheadDone
<1>21. CASE Die
  BY <1>21, Died DEF Die
<1>22. CASE UNCHANGED vars
  BY <1>22 DEF vars, NoneRunning
<1> QED
  BY <1>1, <1>2, <1>3, <1>4, <1>5, <1>6, <1>7, <1>8, <1>9, <1>10, <1>11, <1>12, <1>13, <1>14, <1>15, <1>16, <1>17, <1>18, <1>19, <1>20, <1>21, <1>22 DEF Next, WSSStep

LEMMA HushedStep == TypeOK /\ Places /\ Owned /\ Hushed /\ [Next]_vars => Hushed'
<1> SUFFICES ASSUME TypeOK, Places, Owned, Hushed, [Next]_vars PROVE Hushed'
  OBVIOUS
<1> USE DEF envVars, paramVars, loopVars, wssVars, Hushed
<1>1. CASE TestInit
  BY <1>1 DEF TestInit, NoneRunning
<1>2. CASE NextTest
  BY <1>2 DEF NextTest, InterferingFor, NoneRunning
<1>3. CASE End
  BY <1>3 DEF End, NoneRunning
<1>4. CASE TestTeardown
  <2>1. NoneRunning'
    BY <1>4, Stopped DEF TestTeardown, NoneRunning
  <2> QED
    BY <1>4, <2>1 DEF TestTeardown
<1>5. CASE Interfere
  <2>1. NoneRunning /\ pc' \in {"overhead", "wcet", "stuck"}
    BY <1>5 DEF Interfere, StartInterfering
  <2>2. interfering = <<>> => NoneRunning'
    BY <1>5, <2>1, Started DEF Interfere, NoneRunning
  <2> QED
    BY <1>5, <2>1, <2>2 DEF Interfere
<1>6. CASE RunWCET
  BY <1>6 DEF RunWCET, Run, NoneRunning
<1>7. CASE WCETFails
  BY <1>7 DEF WCETFails, WCETReturns, NoneRunning
<1>8. CASE WCETMisses
  BY <1>8 DEF WCETMisses, NoneRunning
<1>9. CASE WCETFound
  BY <1>9 DEF WCETFound, Advance, AllTested, WCETReturns, NoneRunning
<1>10. CASE CheckWCET
  BY <1>10 DEF CheckWCET, NoneRunning
<1>11. CASE SchedInterfere
  <2>1. NoneRunning /\ pc' \in {"sched", "stuck"}
    BY <1>11 DEF SchedInterfere, StartInterfering
  <2>2. interfering = <<>> => NoneRunning'
    BY <1>11, <2>1, Started DEF SchedInterfere, NoneRunning
  <2> QED
    BY <1>11, <2>1, <2>2 DEF SchedInterfere
<1>12. CASE RunSched
  BY <1>12 DEF RunSched, Run, NoneRunning
<1>13. CASE SchedStep
  BY <1>13 DEF SchedStep, NoneRunning
<1>14. CASE SchedFails
  BY <1>14 DEF SchedFails, NoneRunning
<1>15. CASE SchedDone
  BY <1>15 DEF SchedDone, Advance, AllTested, NoneRunning
<1>16. CASE RunWSS
  BY <1>16 DEF RunWSS, Run, NoneRunning
<1>17. CASE WSSProbe
  BY <1>17 DEF WSSProbe, NoneRunning
<1>18. CASE WSSDone
  BY <1>18 DEF WSSDone, Advance, AllTested, NoneRunning
<1>19. CASE RunOverhead
  BY <1>19 DEF RunOverhead, Run, NoneRunning
<1>20. CASE OverheadDone
  BY <1>20 DEF OverheadDone, NoneRunning
<1>21. CASE Die
  <2>1. NoneRunning => NoneRunning'
    BY <1>21, Died DEF NoneRunning
  <2> QED
    BY <1>21, <2>1 DEF Die
<1>22. CASE UNCHANGED vars
  BY <1>22 DEF vars, NoneRunning
<1> QED
  BY <1>1, <1>2, <1>3, <1>4, <1>5, <1>6, <1>7, <1>8, <1>9, <1>10, <1>11, <1>12, <1>13, <1>14, <1>15, <1>16, <1>17, <1>18, <1>19, <1>20, <1>21, <1>22 DEF Next, WSSStep

LEMMA Restarted == WSSRestart => Bounds'
  BY WSSAssumption DEF WSSAssumption, WSSRestart, Bounds, Doubling

LEMMA Unsearched == Bounds /\ UNCHANGED wssVars => Bounds' /\ (Searching => Searching')
  BY BoundsStep DEF wssVars, Searching

LEMMA InPlaceStep == TypeOK /\ Owned /\ Hushed /\ InPlace /\ [Next]_vars => InPlace'
<1> SUFFICES ASSUME TypeOK, Owned, Hushed, InPlace, [Next]_vars PROVE InPlace'
  OBVIOUS
<1> USE DEF envVars, paramVars, loopVars, wssVars, InPlace, Over
<1>1. CASE TestInit
  BY <1>1 DEF TestInit
<1>2. CASE NextTest
  BY <1>2 DEF NextTest
<1>3. CASE End
  BY <1>3 DEF End
<1>4. CASE TestTeardown
  BY <1>4 DEF TestTeardown
<1>5. CASE Interfere
  <2>1. NoneRunning /\ config' = config /\ interfering' = interfering
    BY <1>5 DEF Interfere, Hushed
  <2>2. PossibleCores' = PossibleCores
    BY <2>1 DEF PossibleCores
  <2> QED
    BY <1>5, <2>1, <2>2, Started DEF Interfere, Runs
<1>6. CASE RunWCET
  <2>1. pc = "wcet" /\ UNCHANGED <<config, interfering, procs, int_processes>>
    BY <1>6 DEF RunWCET, Run
  <2> QED
    BY <2>1 DEF Runs, PossibleCores
<1>7. CASE WCETFails
  BY <1>7 DEF WCETFails, WCETReturns
<1>8. CASE WCETMisses
  BY <1>8 DEF WCETMisses, Runs, PossibleCores
<1>9. CASE WCETFound
  BY <1>9 DEF WCETFound, Advance, AllTested, WCETReturns, Runs, PossibleCores
<1>10. CASE CheckWCET
  BY <1>10 DEF CheckWCET
<1>11. CASE SchedInterfere
  <2>1. NoneRunning /\ config' = config /\ interfering' = interfering
    BY <1>11 DEF SchedInterfere, Hushed
  <2>2. PossibleCores' = PossibleCores
    BY <2>1 DEF PossibleCores
  <2> QED
    BY <1>11, <2>1, <2>2, Started DEF SchedInterfere, Runs
<1>12. CASE RunSched
  BY <1>12 DEF RunSched, Run, Runs, PossibleCores
<1>13. CASE SchedStep
  BY <1>13 DEF SchedStep, Runs, PossibleCores
<1>14. CASE SchedFails
  BY <1>14 DEF SchedFails
<1>15. CASE SchedDone
  BY <1>15 DEF SchedDone, Advance, AllTested, Runs, PossibleCores
<1>16. CASE RunWSS
  BY <1>16 DEF RunWSS, Run
<1>17. CASE WSSProbe
  BY <1>17 DEF WSSProbe
<1>18. CASE WSSDone
  BY <1>18 DEF WSSDone, Advance, AllTested
<1>19. CASE RunOverhead
  BY <1>19 DEF RunOverhead, Run, Runs, PossibleCores
<1>20. CASE OverheadDone
  BY <1>20 DEF OverheadDone
<1>21. CASE Die
  <2>1. PossibleCores' = PossibleCores
    BY <1>21 DEF Die, PossibleCores
  <2>2. \A i \in DOMAIN interfering : Runs(i) => Runs(i)'
    BY <1>21, <2>1, Died DEF Die, Runs, TypeOK
  <2> QED
    BY <1>21, <2>2 DEF Die
<1>22. CASE UNCHANGED vars
  BY <1>22 DEF vars, Runs, PossibleCores
<1> QED
  BY <1>1, <1>2, <1>3, <1>4, <1>5, <1>6, <1>7, <1>8, <1>9, <1>10, <1>11, <1>12, <1>13, <1>14, <1>15, <1>16, <1>17, <1>18, <1>19, <1>20, <1>21, <1>22 DEF Next, WSSStep

LEMMA SearchOnStep == TypeOK /\ SearchOn /\ [Next]_vars => SearchOn'
<1> SUFFICES ASSUME TypeOK, SearchOn, [Next]_vars PROVE SearchOn'
  OBVIOUS
<1> USE DEF envVars, paramVars, loopVars, wssVars, SearchOn, Over
<1>1. CASE TestInit
  BY <1>1, Unsearched DEF TestInit
<1>2. CASE NextTest
  <2>1. Bounds'
    BY <1>2, Restarted, Unsearched DEF NextTest
  <2> QED
    BY <1>2, <2>1 DEF NextTest
<1>3. CASE End
  BY <1>3, Unsearched DEF End
<1>4. CASE TestTeardown
  BY <1>4, Unsearched DEF TestTeardown
<1>5. CASE Interfere
  BY <1>5, Unsearched DEF Interfere, StartInterfering
<1>6. CASE RunWCET
  BY <1>6, Unsearched DEF RunWCET, Run
<1>7. CASE WCETFails
  BY <1>7, Unsearched DEF WCETFails, WCETReturns
<1>8. CASE WCETMisses
  BY <1>8, Unsearched DEF WCETMisses
<1>9. CASE WCETFound
  BY <1>9, Unsearched DEF WCETFound, Advance, AllTested, WCETReturns
<1>10. CASE CheckWCET
  BY <1>10, Unsearched DEF CheckWCET
<1>11. CASE SchedInterfere
  BY <1>11, Unsearched DEF SchedInterfere, StartInterfering
<1>12. CASE RunSched
  BY <1>12, Unsearched DEF RunSched, Run
<1>13. CASE SchedStep
  BY <1>13, Unsearched DEF SchedStep
<1>14. CASE SchedFails
  BY <1>14, Unsearched DEF SchedFails
<1>15. CASE SchedDone
  BY <1>15, Unsearched DEF SchedDone, Advance, AllTested
<1>16. CASE RunWSS
  BY <1>16, Unsearched DEF RunWSS, Run
<1>17. CASE WSSProbe
  <2>1. WSSNext
    BY <1>17, Unsearched DEF WSSProbe, WSSNext
  <2> QED
    BY <1>17, <2>1, BoundsStep DEF WSSProbe
<1>18. CASE WSSDone
  <2>1. Bounds'
    BY <1>18, Restarted, Unsearched DEF WSSDone
  <2> QED
    BY <1>18, <2>1 DEF WSSDone, Advance
<1>19. CASE RunOverhead
  BY <1>19, Unsearched DEF RunOverhead, Run
<1>20. CASE OverheadDone
  BY <1>20, Unsearched DEF OverheadDone
<1>21. CASE Die
  BY <1>21, Unsearched DEF Die
<1>22. CASE UNCHANGED vars
  BY <1>22, Unsearched DEF vars
<1> QED
  BY <1>1, <1>2, <1>3, <1>4, <1>5, <1>6, <1>7, <1>8, <1>9, <1>10, <1>11, <1>12, <1>13, <1>14, <1>15, <1>16, <1>17, <1>18, <1>19, <1>20, <1>21, <1>22 DEF Next, WSSStep

LEMMA UnstartedStep ==
  TypeOK /\ Places /\ UnderTest /\ Scheduled /\ Hushed /\ Unstarted /\ [Next]_vars => Unstarted'
<1> SUFFICES ASSUME TypeOK, Places, UnderTest, Scheduled, Hushed, Unstarted, [Next]_vars
             PROVE  Unstarted'
  OBVIOUS
<1> USE DEF envVars, paramVars, loopVars, wssVars, Unstarted, Over
<1>1. CASE TestInit
  BY <1>1 DEF TestInit, Places, UnderTest
<1>2. CASE NextTest
  <2>1. UNCHANGED <<config, procs>> /\ test' # "none"
    BY <1>2, NextTestTyped DEF NextTest, Tests
  <2>2. config.test = "sched" => test = "none"
    BY <1>2, NextTestTyped DEF NextTest, Scheduled
  <2> QED
    BY <2>1, <2>2
<1>3. CASE End
  BY <1>3 DEF End, Places, UnderTest
<1>4. CASE TestTeardown
  <2>1. procs = <<>> => procs' = <<>>
    <3> SUFFICES ASSUME procs = <<>> PROVE procs' = <<>>
      OBVIOUS
    <3>1. Interrupted(int_processes) = [p \in {} |-> procs[p]]
      BY DEF Interrupted
    <3> QED
      BY <1>4, <3>1 DEF TestTeardown
  <2> QED
    BY <1>4, <2>1 DEF TestTeardown, Places, UnderTest
<1>5. CASE Interfere
  <2>1. interfering = <<>> => procs' = procs
    BY <1>5 DEF Interfere, StartInterfering
  <2>2. config.interfering = <<>> => interfering = <<>>
    BY DEF TypeOK
  <2>3. config.test = "sched" => interfering = <<>>
    BY <1>5 DEF Interfere, Places, UnderTest, Hushed
  <2> QED
    BY <1>5, <2>1, <2>2, <2>3 DEF Interfere, StartInterfering, Places, UnderTest
<1>6. CASE RunWCET
  BY <1>6 DEF RunWCET, Run
<1>7. CASE WCETFails
  BY <1>7 DEF WCETFails, WCETReturns, Places, UnderTest
<1>8. CASE WCETMisses
  BY <1>8 DEF WCETMisses, Places, UnderTest
<1>9. CASE WCETFound
  BY <1>9 DEF WCETFound, Advance, AllTested, WCETReturns, Places, UnderTest
<1>10. CASE CheckWCET
  BY <1>10 DEF CheckWCET, Places, UnderTest
<1>11. CASE SchedInterfere
  <2>1. interfering = <<>> => procs' = procs
    BY <1>11 DEF SchedInterfere, StartInterfering
  <2>2. config.interfering = <<>> => interfering = <<>>
    BY DEF TypeOK
  <2> QED
    BY <1>11, <2>1, <2>2 DEF SchedInterfere, StartInterfering, Places
<1>12. CASE RunSched
  BY <1>12 DEF RunSched, Run, Places, UnderTest
<1>13. CASE SchedStep
  BY <1>13 DEF SchedStep, Places, UnderTest
<1>14. CASE SchedFails
  BY <1>14 DEF SchedFails, Places, UnderTest
<1>15. CASE SchedDone
  BY <1>15 DEF SchedDone, Advance, AllTested, Places, UnderTest
<1>16. CASE RunWSS
  BY <1>16 DEF RunWSS, Run, Places, UnderTest
<1>17. CASE WSSProbe
  BY <1>17 DEF WSSProbe, Places, UnderTest
<1>18. CASE WSSDone
  BY <1>18 DEF WSSDone, Advance, AllTested, Places, UnderTest
<1>19. CASE RunOverhead
  BY <1>19 DEF RunOverhead, Run, Places, UnderTest
<1>20. CASE OverheadDone
  BY <1>20 DEF OverheadDone, Places, UnderTest
<1>21. CASE Die
  BY <1>21 DEF Die
<1>22. CASE UNCHANGED vars
  BY <1>22 DEF vars
<1> QED
  BY <1>1, <1>2, <1>3, <1>4, <1>5, <1>6, <1>7, <1>8, <1>9, <1>10, <1>11, <1>12, <1>13, <1>14, <1>15, <1>16, <1>17, <1>18, <1>19, <1>20, <1>21, <1>22 DEF Next, WSSStep

LEMMA OwnWCETStep == TypeOK /\ Places /\ UnderTest /\ Unstarted /\ OwnWCET /\ [Next]_vars => OwnWCET'
<1> SUFFICES ASSUME TypeOK, Places, UnderTest, Unstarted, OwnWCET, [Next]_vars PROVE OwnWCET'
  OBVIOUS
<1> USE DEF envVars, paramVars, loopVars, wssVars, OwnWCET, Rows, Calm, Over
<1>1. CASE TestInit
  BY <1>1 DEF TestInit
<1>2. CASE NextTest
  <2>1. Len(worst_runtimes') = 0 /\ bmark' = 1
    BY <1>2 DEF NextTest
  <2> QED
    BY <1>2, <2>1 DEF NextTest
<1>3. CASE End
  BY <1>3 DEF End
<1>4. CASE TestTeardown
  BY <1>4 DEF TestTeardown
<1>5. CASE Interfere
  BY <1>5 DEF Interfere, StartInterfering
<1>6. CASE RunWCET
  <2>1. /\ pc = "wcet" /\ pc' \in {"wcetRun", "raised"}
        /\ UNCHANGED <<config, wcet, worst_runtimes, bmark>>
    BY <1>6 DEF RunWCET, Run
  <2>2. procs = <<>> /\ pc' = "wcetRun" => quiet'
    BY <1>6 DEF RunWCET, Run
  <2>3. Calm => procs = <<>>
    BY <2>1 DEF Unstarted
  <2> QED
    BY <2>1, <2>2, <2>3
<1>7. CASE WCETFails
  BY <1>7 DEF WCETFails, WCETReturns
<1>8. CASE WCETMisses
  BY <1>8 DEF WCETMisses
<1>9. CASE WCETFound
  <2> DEFINE row == [bmark |-> bmark, quiet |-> quiet]
  <2>1. /\ Calm => quiet
        /\ Len(worst_runtimes) = bmark - 1 /\ Rows(worst_runtimes)
        /\ bmark \in 1 .. Len(config.benchmarks)
    BY <1>9 DEF WCETFound, Places, UnderTest
  <2>2. worst_runtimes \in Seq(Measured) /\ row \in Measured
    BY DEF TypeOK, Measured
  <2>3. worst_runtimes' = Append(worst_runtimes, row)
    BY <1>9 DEF WCETFound
  <2> HIDE DEF row
  <2>4. Len(worst_runtimes') = bmark /\ Rows(worst_runtimes')
    <3>1. /\ Len(worst_runtimes') = Len(worst_runtimes) + 1
          /\ \A i \in 1 .. Len(worst_runtimes) : worst_runtimes'[i] = worst_runtimes[i]
          /\ worst_runtimes'[Len(worst_runtimes) + 1] = row
      BY <2>2, <2>3, AppendProperties
    <3>2. row.bmark = bmark /\ (Calm => row.quiet)
      BY <2>1 DEF row
    <3>3. Len(worst_runtimes) + 1 = bmark
      BY <2>1, ListsTyped DEF TypeOK
    <3>4. ASSUME NEW i \in 1 .. bmark
          PROVE  worst_runtimes'[i].bmark = i /\ (Calm => worst_runtimes'[i].quiet)
      <4>1. CASE i = bmark
        BY <3>1, <3>2, <3>3, <4>1
      <4>2. CASE i \in 1 .. Len(worst_runtimes)
        BY <2>1, <3>1, <4>2
      <4> QED
        BY <2>1, <3>3, <4>1, <4>2, ListsTyped DEF TypeOK
    <3> QED
      BY <3>1, <3>3, <3>4
  <2>5. /\ bmark' = bmark + 1 /\ config' = config
        /\ pc' \in {"raised", "wcet", "schedCheck", "teardown"}
        /\ \/ wcet' = wcet
           \/ wcet' = worst_runtimes' /\ bmark = Len(config.benchmarks)
    BY <1>9, <2>1 DEF WCETFound, Advance, AllTested, WCETReturns
  <2>6. wcet' # <<>> => Len(wcet') = Len(config.benchmarks) /\ Rows(wcet')
    BY <2>1, <2>4, <2>5
  <2>7. Len(worst_runtimes') = bmark' - 1
    BY <2>1, <2>4, <2>5
  <2> QED
    BY <2>1, <2>4, <2>5, <2>6, <2>7
<1>10. CASE CheckWCET
  BY <1>10 DEF CheckWCET, Places, UnderTest
<1>11. CASE SchedInterfere
  BY <1>11 DEF SchedInterfere, StartInterfering, Places
<1>12. CASE RunSched
  BY <1>12 DEF RunSched, Run, Places, UnderTest
<1>13. CASE SchedStep
  BY <1>13 DEF SchedStep, Places, UnderTest
<1>14. CASE SchedFails
  BY <1>14 DEF SchedFails, Places, UnderTest
<1>15. CASE SchedDone
  BY <1>15 DEF SchedDone, Advance, AllTested, Places, UnderTest
<1>16. CASE RunWSS
  BY <1>16 DEF RunWSS, Run, Places, UnderTest
<1>17. CASE WSSProbe
  BY <1>17 DEF WSSProbe, Places, UnderTest
<1>18. CASE WSSDone
  BY <1>18 DEF WSSDone, Advance, AllTested, Places, UnderTest
<1>19. CASE RunOverhead
  BY <1>19 DEF RunOverhead, Run, Places, UnderTest
<1>20. CASE OverheadDone
  BY <1>20 DEF OverheadDone, Places, UnderTest
<1>21. CASE Die
  BY <1>21, Died DEF Die
<1>22. CASE UNCHANGED vars
  BY <1>22 DEF vars
<1> QED
  BY <1>1, <1>2, <1>3, <1>4, <1>5, <1>6, <1>7, <1>8, <1>9, <1>10, <1>11, <1>12, <1>13, <1>14, <1>15, <1>16, <1>17, <1>18, <1>19, <1>20, <1>21, <1>22 DEF Next, WSSStep

-----------------------------------------------------------------------------
(* The theorems                                                            *)

IInv ==
  /\ TypeOK /\ Places /\ UnderTest /\ Scheduled /\ Unstarted
  /\ Owned /\ Hushed /\ InPlace /\ OwnWCET /\ SearchOn

LEMMA InvInit == Init => IInv
<1> SUFFICES ASSUME Init PROVE IInv
  OBVIOUS
<1>1. TypeOK
  BY TypeInit
<1>2. DOMAIN procs = {}
  BY DEF Init
<1>3. Places /\ UnderTest /\ Scheduled /\ Unstarted
  BY DEF Init, Places, UnderTest, Scheduled, Unstarted
<1>4. Owned /\ Hushed /\ InPlace
  BY <1>2 DEF Init, Owned, Hushed, NoneRunning, InPlace
<1>5. OwnWCET
  BY DEF Init, OwnWCET
<1>6. SearchOn
  BY BoundsInit DEF Init, SearchOn
<1> QED
  BY <1>1, <1>3, <1>4, <1>5, <1>6 DEF IInv

LEMMA InvStep == IInv /\ [Next]_vars => IInv'
  BY TypeStep, PlacesStep, UnderTestStep, ScheduledStep, UnstartedStep, OwnedStep, HushedStep, InPlaceStep,
     OwnWCETStep, SearchOnStep DEF IInv

LEMMA InvHolds == Spec => []IInv
  BY InvInit, InvStep, PTL DEF Spec

(* The scripts keep their types, a core that exists for every interfering  *)
(* benchmark among them (base.py:95).                                      *)
THEOREM ScriptTypeCorrect == Spec => []TypeOK
<1>1. IInv => TypeOK
  BY DEF IInv
<1> QED
  BY <1>1, InvHolds, PTL

(* Every row is measured next to the interfering benchmarks its file says, *)
(* on their own cores, or next to none that was not told to end            *)
(* (WCET.py:88-94).                                                        *)
THEOREM MeasuredInPlace == Spec => []InterferenceInPlace
<1>1. IInv => InterferenceInPlace
  <2> SUFFICES ASSUME IInv, Measuring PROVE InterferenceInPlace
    BY DEF InterferenceInPlace
  <2>1. CASE interfering # <<>> /\ test # "WSS"
    <3>1. pc \in {"wcetRun", "schedRun", "overheadRun"}
      BY <2>1 DEF IInv, Measuring, Places
    <3>2. int_processes # {} => \A i \in DOMAIN interfering : interfering[i] => Runs(i)
      BY <2>1, <3>1 DEF IInv, InPlace
    <3> QED
      BY <2>1, <3>2 DEF InterferenceInPlace, Runs, PossibleCores
  <2>2. CASE interfering = <<>> \/ test = "WSS"
    <3>1. NoneRunning
      BY <2>2 DEF IInv, Measuring, Places, Hushed
    <3> QED
      BY <2>2, <3>1 DEF InterferenceInPlace, NoneRunning
  <2> QED
    BY <2>1, <2>2
<1> QED
  BY <1>1, InvHolds, PTL

(* A script that comes to its end has stopped what it has started          *)
(* (base.py:596), whatever tests it ran and however their starts failed.   *)
THEOREM NoneIsLeft == Spec => []NoneLeft
<1>1. IInv => NoneLeft
  BY DEF IInv, Hushed, NoneRunning, NoneLeft
<1> QED
  BY <1>1, InvHolds, PTL

(* The schedulability test uses for each benchmark a WCET that is its own, *)
(* after whatever tests and failures; in a script for that test alone, or  *)
(* without interfering benchmarks, it was measured with none of them next  *)
(* to it (schedulability.py:221).                                          *)
THEOREM OwnWCETQuiet == Spec => []SchedOwnWCET
<1>1. IInv => SchedOwnWCET
  <2> SUFFICES ASSUME IInv, pc = "schedRun"
               PROVE  /\ wcet[bmark].bmark = bmark
                      /\ config.test # "all" \/ config.interfering = <<>> => wcet[bmark].quiet
    BY DEF SchedOwnWCET
  <2>1. bmark \in 1 .. Len(config.benchmarks) /\ (config.test # "all" => config.test = "sched")
    BY DEF IInv, Places, UnderTest
  <2>2. Len(wcet) = Len(config.benchmarks) /\ Rows(wcet)
    BY DEF IInv, OwnWCET
  <2> QED
    BY <2>1, <2>2 DEF Rows, Calm
<1> QED
  BY <1>1, InvHolds, PTL

(* Every search a script makes, of one benchmark after the other, ends     *)
(* with a limit that succeeds and is at most the slack above the size      *)
(* needed (WSS.py:183).                                                    *)
THEOREM ScriptSearchCorrect == Spec => []WSSBracket
<1>1. IInv => WSSBracket
  BY BoundsBracket DEF IInv, SearchOn
<1> QED
  BY <1>1, InvHolds, PTL
=============================================================================
