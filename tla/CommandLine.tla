------------------------------ MODULE CommandLine -----------------------------
(***************************************************************************)
(* The command line of a benchmark: main.c.  argp hands the options to     *)
(* parse_opt() one at a time, in order; each writes its members of the     *)
(* execution options or ends the program, and a configuration file stands  *)
(* for the options it lists.  ARGP_KEY_END checks the members against each *)
(* other and asks the kernel for the scheduling policy; main() then fills  *)
(* in the deadline.                                                        *)
(*                                                                         *)
(* An option is a record [key, num, text, set, fields]: its letter, its    *)
(* argument as a number, what the text of the argument is where that       *)
(* matters, the cores it lists, and the options of a configuration file.   *)
(* A time is counted in 1/Fine nanoseconds, so that rounding to            *)
(* nanoseconds is visible.  An address is a number, NULL is 0.             *)
(***************************************************************************)
EXTENDS Integers, Sequences

CONSTANTS
  Kilo,        \* 1024, the factor of an order of magnitude
  SizeBound,   \* 2^w, w the width of size_t
  CountBound,  \* 2^64, the bound of an unsigned long long
  NSec,        \* nanoseconds in a second, 10^9
  Fine,        \* parts of a nanosecond a double tells apart
  MaxPrio,     \* sched_get_priority_max(SCHED_FIFO)
  CpuSetSize,  \* CPU_SETSIZE: a core above it is dropped by CPU_SET
  PerfSupport  \* FEAT_PERF_SUPPORT is enabled in the build

ASSUME CommandLineAssumption ==
  /\ {Kilo, SizeBound, CountBound, NSec, Fine, MaxPrio, CpuSetSize} \subseteq Nat \ {0}
  /\ PerfSupport \in BOOLEAN

NoPrio == 100
LOG_LEVEL_MIN == 0
LOG_LEVEL_FILE == 2
LOG_LEVEL_INFO == 3
LOG_LEVEL_DEBUG == 5
LOG_LEVEL_MAX == 6

(* How the parsing ends: the program goes on, argp_error, argp_failure,    *)
(* the help text or an unknown field of the configuration file.            *)
Outcomes == {"go", "usage", "failure", "help", "unknown"}

(* What argp hands over; strtoul() has read the numbers of some options.   *)
Unsigned == {"b", "H", "f", "T", "D", "P", "M", "C", "B"}
Words(Fields) ==
  {a \in [key : STRING, num : Int, text : STRING, set : SUBSET Nat, fields : Fields] :
     a.key \in Unsigned => a.num \in Nat}
Options == Words(Seq(Words({<<>>})))

(* struct execution_options, with the verbosity of logging.c; where the    *)
(* heap's file name is a string of the configuration file it does not      *)
(* outlive that file ("freed").                                            *)
ExecutionOptions ==
  [args_num : Nat, output_path : BOOLEAN, verbosity : LOG_LEVEL_MIN + 1 .. LOG_LEVEL_MAX - 1,
   parsed_deadline : Int, deadline_sec : Int, deadline_nsec : Int,
   parsed_period : Int, period_sec : Int, period_nsec : Int,
   heap_size : 0 .. SizeBound - 1, heap_address : Nat,
   heap_file_path : {"none", "devmem", "file", "freed"},
   core_affinity : SUBSET (0 .. CpuSetSize - 1), tasks_to_launch : 0 .. CountBound - 1,
   prio : Nat, runtime : Nat, deadline : Nat, period : Nat, synch_start : BOOLEAN,
   memory_profiling_enable : Nat, memory_profiling_core_affinity : SUBSET (0 .. CpuSetSize - 1),
   memory_profiling_time_bucket : Nat]

(* ARGP_KEY_INIT.  The bucket is in units of 10 ms.                        *)
DefaultOptions ==
  [args_num |-> 0, output_path |-> FALSE, verbosity |-> LOG_LEVEL_INFO,
   parsed_deadline |-> 0, deadline_sec |-> 0, deadline_nsec |-> 0,
   parsed_period |-> 0, period_sec |-> 0, period_nsec |-> 0,
   heap_size |-> 0, heap_address |-> 0, heap_file_path |-> "none",
   core_affinity |-> {}, tasks_to_launch |-> 0,
   prio |-> NoPrio, runtime |-> 0, deadline |-> 0, period |-> 0, synch_start |-> FALSE,
   memory_profiling_enable |-> 0, memory_profiling_core_affinity |-> {},
   memory_profiling_time_bucket |-> 1]

-----------------------------------------------------------------------------
(* Conversions of the arguments                                            *)

(* The magnitudes fall through: G multiplies three times, in size_t.       *)
HeapSize(n, magnitude) ==
  (CASE magnitude = "G" -> n * Kilo * Kilo * Kilo
     [] magnitude = "M" -> n * Kilo * Kilo
     [] magnitude = "K" -> n * Kilo
     [] OTHER -> n) % SizeBound

Abs(n) == IF n < 0 THEN -n ELSE n
Sign(n) == IF n < 0 THEN -1 ELSE 1

(* lround(trunc(t)), and lround((t - trunc(t)) * 10^9), away from zero: it *)
(* may be a whole second.                                                  *)
SecondsOf(t) == Sign(t) * (Abs(t) \div (NSec * Fine))
NanosecondsOf(t) == Sign(t) * ((2 * (Abs(t) % (NSec * Fine)) + Fine) \div (2 * Fine))

(* CPU_SET ignores what does not fit the mask.                             *)
CpuSet(mask, cores) == mask \union {c \in cores : c < CpuSetSize}

-----------------------------------------------------------------------------
(* interpret_opt(): [o, exit] after an option                              *)

Stop(p, how) == [p EXCEPT !.exit = how]

OptMemLimit(p, a) ==
  IF a.text = "junk" THEN Stop(p, "failure")
  ELSE IF a.text \in {"", "K", "M", "G"}
       THEN [p EXCEPT !.o.heap_size = HeapSize(a.num, a.text)]
       ELSE Stop(p, "usage")

(* An address selects /dev/mem; a file forgets an earlier address.         *)
OptHeap_KeepAddress(p, a) ==  \* mutant
  CASE a.text = "range" -> Stop(p, "failure")
    [] a.text = "address" -> [p EXCEPT !.o.heap_address = a.num, !.o.heap_file_path = "devmem"]
    [] OTHER -> [p EXCEPT !.o.heap_file_path = "file"]
OptHeap(p, a) ==
  CASE a.text = "range" -> Stop(p, "failure")
    [] a.text = "address" -> [p EXCEPT !.o.heap_address = a.num, !.o.heap_file_path = "devmem"]
    [] OTHER -> [p EXCEPT !.o.heap_address = 0, !.o.heap_file_path = "file"]

(* Text that is no number is read as 0.                                    *)
OptTime(p, a) ==
  IF a.text = "range" THEN Stop(p, "failure")
  ELSE IF a.text = "huge" THEN Stop(p, "usage")
  ELSE LET sec == SecondsOf(a.num)
           nsec == NanosecondsOf(a.num)
       IN  IF a.key = "d"
           THEN [p EXCEPT !.o.parsed_deadline = a.num, !.o.deadline_sec = sec,
                          !.o.deadline_nsec = nsec]
           ELSE [p EXCEPT !.o.parsed_period = a.num, !.o.period_sec = sec,
                          !.o.period_nsec = nsec]

OptLogLevel(p, a) ==
  IF a.num > LOG_LEVEL_MIN /\ a.num < LOG_LEVEL_MAX
  THEN [p EXCEPT !.o.verbosity = a.num]
  ELSE Stop(p, "usage")

(* The cores of every -c are added to one mask.                            *)
OptAffinity(p, a) ==
  LET mask == CpuSet(p.o.core_affinity, a.set) IN
  IF a.text = "junk" \/ mask = {} THEN Stop(p, "failure")
  ELSE [p EXCEPT !.o.core_affinity = mask]

OptTasks(p, a) ==
  IF a.text = "range" THEN Stop(p, "failure")
  ELSE [p EXCEPT !.o.tasks_to_launch = a.num % CountBound]

InterpretOpt(p, a) ==
  CASE a.key = "b" -> [p EXCEPT !.o.args_num = a.num]
    [] a.key = "m" -> OptMemLimit(p, a)
    [] a.key = "H" -> OptHeap(p, a)
    [] a.key \in {"d", "p"} -> OptTime(p, a)
    [] a.key = "o" -> [p EXCEPT !.o.output_path = TRUE]
    [] a.key = "l" -> OptLogLevel(p, a)
    [] a.key = "c" -> OptAffinity(p, a)
    [] a.key = "t" -> OptTasks(p, a)
    [] a.key = "h" -> Stop(p, "help")
    [] a.key = "f" -> [p EXCEPT !.o.prio = a.num]
    [] a.key = "T" -> [p EXCEPT !.o.runtime = a.num]
    [] a.key = "D" -> [p EXCEPT !.o.deadline = a.num]
    [] a.key = "P" -> [p EXCEPT !.o.period = a.num]
    [] a.key = "s" -> [p EXCEPT !.o.synch_start = TRUE]
    [] a.key = "M" /\ PerfSupport -> [p EXCEPT !.o.memory_profiling_enable = a.num]
    [] a.key = "C" /\ PerfSupport ->
         [p EXCEPT !.o.memory_profiling_core_affinity = CpuSet(@, {a.num})]
    [] a.key = "B" /\ PerfSupport -> [p EXCEPT !.o.memory_profiling_time_bucket = a.num]
    [] OTHER -> Stop(p, "usage")

-----------------------------------------------------------------------------
(* parse_opt() and main()                                                  *)

(* field_to_abbrv_mapping(): the options a configuration file may name;    *)
(* the synchronised start and the help are not among them.                 *)
FileFields == {"d", "p", "c", "m", "H", "t", "f", "D", "P", "T", "l", "o", "b"}
                \union IF PerfSupport THEN {"M", "C", "B"} ELSE {}

(* -g: one field of the file after the other,                              *)
ParseField(p, f) == IF f.key \in FileFields THEN InterpretOpt(p, f) ELSE Stop(p, "unknown")

(* then its strings are freed, the name of the heap's file among them.     *)
FileRead(p, fields) ==
  IF p.o.heap_file_path = "file" /\ \E i \in DOMAIN fields :
                                       fields[i].key = "H" /\ fields[i].text = "file"
  THEN [p EXCEPT !.o.heap_file_path = "freed"]
  ELSE p

IsFile(a) == a.key = "g" /\ a.text # "missing"

ParseOpt(p, a) ==
  IF IsFile(a) THEN FileRead(p, a.fields)
  ELSE IF a.key = "g" THEN Stop(p, "usage") ELSE InterpretOpt(p, a)

(* The checks of ARGP_KEY_END, up to the scheduling policies.              *)
Consistent(o) ==
  /\ ~ (o.parsed_deadline > o.parsed_period)
  /\ ~ (o.prio # NoPrio /\ (o.period > 0 \/ o.deadline > 0 \/ o.runtime > 0))
  /\ ~ ((o.deadline > 0 \/ o.runtime > 0) /\ o.period = 0)
  /\ ~ (o.heap_address # 0 /\ o.heap_size = 0)
  /\ ~ (o.heap_file_path # "none" /\ o.heap_size = 0)

(* set_sched_fifo_prio(): the priority is capped; the kernel refuses 0 and *)
(* a caller without the right (root).                                      *)
FifoSet(prio, root) ==
  LET capped == IF prio > MaxPrio THEN MaxPrio ELSE prio IN root /\ capped >= 1

(* set_sched_deadline(): a missing deadline is the period, a missing       *)
(* runtime the deadline; the kernel wants runtime <= deadline <= period.   *)
DeadlineSet(period, deadline, runtime, root) ==
  LET d == IF deadline = 0 THEN period ELSE deadline
      r == IF runtime = 0 THEN d ELSE runtime
  IN  period # 0 /\ root /\ r <= d /\ d <= period

ParseEnd(p, root) ==
  IF \/ ~ Consistent(p.o)
     \/ p.o.prio # NoPrio /\ ~ FifoSet(p.o.prio, root)
     \/ p.o.period > 0 /\ ~ DeadlineSet(p.o.period, p.o.deadline, p.o.runtime, root)
  THEN Stop(p, "usage")
  ELSE p

(* main(): a missing deadline is the period.                               *)
ImplicitDeadline(o) ==
  IF o.parsed_deadline = 0 /\ o.parsed_period > 0
  THEN [o EXCEPT !.parsed_deadline = o.parsed_period, !.deadline_sec = o.period_sec,
                 !.deadline_nsec = o.period_nsec]
  ELSE o
=============================================================================
