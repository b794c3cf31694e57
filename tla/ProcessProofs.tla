----------------------------- MODULE ProcessProofs -----------------------------
(***************************************************************************)
(* The theorems about a process: the inductive invariant of                *)
(* ProcessInvariant holds initially and is kept by every action, one lemma *)
(* per action; the properties follow from it.                              *)
(***************************************************************************)
EXTENDS ProcessInvariant
-----------------------------------------------------------------------------
(* Parsing                                                                 *)

(* The defaults are options,                                               *)
LEMMA DefaultTypes == DefaultOptions \in ExecutionOptions
  BY LineNumbers
    DEF DefaultOptions, ExecutionOptions, NoPrio, LOG_LEVEL_MIN, LOG_LEVEL_MAX, LOG_LEVEL_INFO

(* and consistent ones.                                                    *)
LEMMA DefaultAgrees == Agrees(DefaultOptions)
<1>1. NSec * Fine \in Nat \ {0} /\ 2 * Fine \in Nat \ {0} /\ Fine \in Nat \ {0}
  BY LineNumbers
<1>2. Abs(0) = 0 /\ Sign(0) = 1
  BY DEF Abs, Sign
<1>3. \A k \in Nat \ {0} : 0 \div k = 0 /\ 0 % k = 0
  OBVIOUS
<1>4. (2 * 0 + Fine) \div (2 * Fine) = 0
  BY <1>1
<1>5. SecondsOf(0) = 0 /\ NanosecondsOf(0) = 0
  BY <1>1, <1>2, <1>3, <1>4 DEF SecondsOf, NanosecondsOf
<1> QED
  BY <1>5 DEF Agrees, DefaultOptions

(* The invariant holds at first.                                           *)
LEMMA InitHolds == Init => IInv
<1> SUFFICES ASSUME Init PROVE IInv
  OBVIOUS
<1>1. /\ prog \in Programs /\ opts = DefaultOptions /\ outcome = "parsing" /\ arg = 0 /\ field = 0
      /\ pc = "parse" /\ exit = "none" /\ status = "none" /\ at = "none" /\ hooks = {}
      /\ held = {"stdin"} /\ pmcs = 0 /\ created = <<>> /\ armed = FALSE
      /\ group = "none" /\ master = "no" /\ names = IF prog.joins THEN {"sem", "shm"} ELSE {}
      /\ mt = "disabled" /\ sampling = FALSE /\ posts = 0 /\ synchDone = FALSE
      /\ started = FALSE /\ jobEnded = FALSE /\ jobs = 0 /\ expiries = 0
      /\ watcher = "disabled" /\ heap_size = 0 /\ mapped = 0 /\ shift = 0 /\ brk = 0 /\ room = 0
      /\ dlRoom = 0 /\ fds = {} /\ misfreed = {} /\ extended = FALSE
      /\ aborted = "none" /\ before = {}
  BY DEF Init, WatcherInit
<1>2. owner \in [Blocks -> Owners] /\ (\A b \in Blocks : owner[b] = "none")
      /\ Known \subseteq Blocks
  BY KnownBlocks DEF Init, WatcherInit, Owners
<1>3. prog.line \in Seq(Options) /\ Len(prog.line) \in Nat
  <2>1. prog \in [line : Seq(Options), bench : {"single", "threads"}, root : BOOLEAN, joins : BOOLEAN]
    BY <1>1, ProcessAssumption DEF ProcessAssumption
  <2> QED
    BY <2>1
<1>4. /\ DefaultOptions \in ExecutionOptions /\ Agrees(DefaultOptions)
      /\ CellSize \in Nat /\ Pmcs \in Nat /\ MaxExpiries \in Nat
  BY DefaultTypes, DefaultAgrees, NumbersHold, ProcessAssumption DEF Numbers, ProcessAssumption
<1>5. WatcherTypeOK
  <2>1. extended \in BOOLEAN /\ fds \subseteq {"heap", "pagemap"} /\ misfreed \subseteq Blocks
    BY <1>1
  <2>2. {heap_size, mapped, shift, brk, room, dlRoom} \subseteq Nat
    BY <1>1
  <2> QED
    BY <1>1, <1>2, <2>1, <2>2 DEF WatcherTypeOK, Fixed
<1>6. ProgType
  BY <1>1, <1>2, <1>3, <1>4, <1>5 DEF ProgType, Outcomes
<1>7. ExitType
  BY <1>1, <1>2, <1>3, <1>4, <1>5 DEF ExitType, SetupSteps
<1>8. ResType
  <2>1. armed \in BOOLEAN
    BY <1>1
  <2>2. created \in Seq({"perfTimer", "deadlineTimer", "periodTimer"})
    BY <1>1
  <2>3. names \subseteq {"sem", "shm"}
    BY <1>1
  <2>4. held \subseteq Resources /\ pmcs \in 0 .. Pmcs /\ group = "none" /\ master = "no"
    BY <1>1, <1>4 DEF Resources
  <2> QED
    BY <2>1, <2>2, <2>3, <2>4 DEF ResType
<1>9. JobType
  <2>1. {sampling, synchDone, started, jobEnded} \subseteq BOOLEAN
    BY <1>1
  <2>2. {posts, jobs} \subseteq Nat /\ expiries \in 0 .. MaxExpiries
    BY <1>1, <1>4
  <2>3. mt = "disabled"
    BY <1>1
  <2> QED
    BY <2>1, <2>2, <2>3 DEF JobType
<1>10. MemType
  BY <1>1, <1>2, <1>3, <1>4, <1>5 DEF MemType
<1>11. Fresh
  BY <1>1, <1>2, <1>3, <1>4, <1>5 DEF Fresh, Known, Later, Wrapped, Owners
<1>12. Whose
  BY <1>1, <1>2, <1>3, <1>4, <1>5
    DEF Whose, FreedByItsAllocator, Fixed, AfterWatcher, UntilOnExit, UntilSigint, UntilNames,
        UntilWatcher, Known, Later, Wrapped, Owners
<1>13. HeapKept
  BY <1>1, <1>2, <1>3, <1>4, <1>5 DEF HeapKept, Fixed
<1>14. RoomKept
  BY <1>1, <1>2, <1>3, <1>4, <1>5 DEF RoomKept
<1>15. Counted
  BY <1>1, <1>2, <1>3, <1>4, <1>5 DEF Counted, Running, SetupSteps
<1>16. Held
  BY <1>1, <1>2, <1>3, <1>4, <1>5
    DEF Held, Fixed, SamplerHas, GroupHas, Timers, Known, Later, Wrapped, Owners
<1>17. Mastered
  <2>1. pc = "parse" /\ group = "none" /\ hooks = {}
        /\ names = IF prog.joins THEN {"sem", "shm"} ELSE {}
    BY <1>1
  <2>2. ~ prog.joins => names = {}
    BY <2>1
  <2> QED
    BY <2>1, <2>2 DEF Mastered, Running, SetupSteps, UntilOnExit
<1>18. Interrupted
  BY <1>1, <1>2, <1>3, <1>4, <1>5 DEF Interrupted
<1>19. Written
  BY <1>1, <1>2, <1>3, <1>4, <1>5 DEF Written, ParsedConsistent, DefaultOptions, Agrees
<1> QED
  BY <1>6, <1>7, <1>8, <1>9, <1>10, <1>11, <1>12, <1>13, <1>14, <1>15, <1>16, <1>17, <1>18,
     <1>19 DEF IInv

(* While the options are read.                                             *)
LEMMA Parsing ==
  ASSUME IInv, pc = "parse"
  PROVE  /\ prog.line \in Seq(Options) /\ Len(prog.line) \in Nat /\ arg \in Nat /\ field \in Nat
         /\ opts \in ExecutionOptions /\ Agrees(opts) /\ outcome = "parsing"
         /\ [o |-> opts, exit |-> "go"] \in Parses
<1>1. prog \in [line : Seq(Options), bench : {"single", "threads"}, root : BOOLEAN, joins : BOOLEAN]
  BY ProcessAssumption DEF IInv, ProgType, ProcessAssumption
<1>2. prog.line \in Seq(Options) /\ Len(prog.line) \in Nat
  BY <1>1
<1>3. opts \in ExecutionOptions /\ Agrees(opts) /\ outcome = "parsing"
  BY DEF IInv, ProgType, Written, Agrees
<1>4. [o |-> opts, exit |-> "go"] \in Parses
  BY <1>3 DEF Parses, Outcomes
<1> QED
  BY <1>2, <1>3, <1>4 DEF IInv, ProgType

(* An option is read.                                                      *)
LEMMA ParseOptionKeeps == ASSUME IInv, ParseOption PROVE IInv'
<1>1. ProgType /\ ExitType /\ ResType /\ JobType /\ MemType /\ Fresh /\ Whose
      /\ HeapKept /\ RoomKept /\ Counted /\ Held /\ Mastered /\ Interrupted /\ Written
  BY DEF IInv
<1>2. UNCHANGED <<held, pmcs, created, armed, group, master, names, mt, sampling, posts,
      synchDone, started, jobEnded, jobs, expiries, aborted, before, prog>>
  BY DEF ParseOption, resVars, groupVars, jobVars
<1>3. /\ WatcherTypeOK' /\ UNCHANGED <<config, brk, misfreed>> /\ pc = "parse"
      /\ Known \subseteq Blocks /\ \A x \in Blocks : owner[x] \in Owners
      /\ \A x \in Blocks \ {"args", "outputPath"} : owner'[x] = owner[x]
      /\ owner'["args"] \in {owner["args"], "libc"}
      /\ owner'["outputPath"] \in {owner["outputPath"], "libc"}
      /\ arg' \in 0 .. Len(prog.line) /\ field' \in Nat
      /\ \/ /\ outcome' \in Outcomes \ {"go"} /\ pc' = "exited" /\ exit' = "call"
            /\ status' = IF outcome' \in {"usage", "failure"} THEN "failure" ELSE "success"
            /\ UNCHANGED <<opts, owner, at, hooks>>
         \/ /\ UNCHANGED <<outcome, pc, exitVars>> /\ opts' \in ExecutionOptions /\ Agrees(opts')
            /\ outcome = "parsing"
  <2> DEFINE a == prog.line[arg + 1]
             within == IsFile(a) /\ field < Len(a.fields)
             now == [o |-> opts, exit |-> "go"]
             p == IF within THEN ParseField(now, a.fields[field + 1]) ELSE ParseOpt(now, a)
  <2>1. /\ pc = "parse" /\ arg < Len(prog.line)
        /\ arg' = (IF within THEN arg ELSE arg + 1)
        /\ field' = (IF within THEN field + 1 ELSE 0)
        /\ IF p.exit # "go" THEN ParsingStops(p.exit)
           ELSE /\ opts' = p.o
                /\ owner' = [b \in Blocks |->
                     IF (b = "args" /\ p.o.args_num > 0) \/ (b = "outputPath" /\ p.o.output_path)
                     THEN "libc" ELSE owner[b]]
                /\ UNCHANGED <<outcome, pc, exitVars>>
        /\ UNCHANGED <<config, brk, room, extended, dlRoom, misfreed>>
    BY DEF ParseOption
  <2>2. /\ prog.line \in Seq(Options) /\ Len(prog.line) \in Nat /\ arg \in Nat /\ field \in Nat
        /\ Agrees(opts) /\ outcome = "parsing" /\ now \in Parses
    BY <2>1, Parsing
  <2>3. /\ a.num \in Int /\ a.set \in SUBSET Nat /\ (a.key \in Unsigned => a.num \in Nat)
        /\ a.fields \in Seq(Words({<<>>}))
    BY <2>1, <2>2, LineType
  <2>4. within => /\ a.fields[field + 1].num \in Int /\ a.fields[field + 1].set \in SUBSET Nat
                  /\ a.fields[field + 1].key \in Unsigned => a.fields[field + 1].num \in Nat
    BY <2>2, <2>3, FieldsType
  <2>5. p \in Parses /\ Agrees(p.o)
    <3> HIDE DEF a
    <3>1. CASE within
      BY <2>2, <2>4, <3>1, FieldType
    <3>2. CASE ~ within
      BY <2>2, <2>3, <3>2, OptionType
    <3> QED
      BY <3>1, <3>2
  <2>6. arg' \in 0 .. Len(prog.line) /\ field' \in Nat
    <3> HIDE DEF within
    <3> QED
      BY <2>1, <2>2
  <2>7. /\ WatcherTypeOK /\ owner \in [Blocks -> Owners] /\ Known \subseteq Blocks
        /\ {"args", "outputPath"} \subseteq Blocks
    BY <1>1, KnownBlocks DEF MemType, WatcherTypeOK, Known
  <2> HIDE DEF p, within
  <2>8. CASE p.exit # "go"
    <3>1. /\ outcome' = p.exit /\ pc' = "exited" /\ exit' = "call"
          /\ status' = IF p.exit \in {"usage", "failure"} THEN "failure" ELSE "success"
          /\ UNCHANGED <<opts, owner, at, hooks>>
      BY <2>1, <2>8 DEF ParsingStops
    <3>2. WatcherTypeOK'
      BY <2>1, <2>7, <3>1, MemoryStays DEF watcherVars, memory
    <3>3. p.exit \in Outcomes
      BY <2>5 DEF Parses
    <3> QED
      BY <2>1, <2>6, <2>7, <2>8, <3>1, <3>2, <3>3
  <2>9. CASE p.exit = "go"
    <3> DEFINE taken(b) == (b = "args" /\ p.o.args_num > 0) \/ (b = "outputPath" /\ p.o.output_path)
    <3>1. opts' = p.o /\ UNCHANGED <<outcome, pc, exitVars>>
          /\ owner' = [b \in Blocks |-> IF taken(b) THEN "libc" ELSE owner[b]]
      BY <2>1, <2>9
    <3>2. \A b \in Blocks \ {"args", "outputPath"} : ~ taken(b)
      OBVIOUS
    <3> HIDE DEF taken
    <3>3. owner' \in [Blocks -> Owners]
      BY <2>7, <3>1 DEF Owners
    <3>4. WatcherTypeOK'
      BY <2>1, <2>7, <3>3 DEF WatcherTypeOK, config
    <3>5. opts' \in ExecutionOptions /\ Agrees(opts')
      BY <2>5, <3>1 DEF Parses
    <3> QED
      BY <2>1, <2>2, <2>6, <2>7, <3>1, <3>2, <3>4, <3>5
  <2> QED
    BY <2>8, <2>9
<1>4. ProgType'
  BY <1>1, <1>2, <1>3
  DEF config, exitVars, ProgType, Outcomes
<1>5. ExitType'
  BY <1>1, <1>2, <1>3
  DEF config, exitVars, ExitType, SetupSteps, JobSteps, StopSteps, Over
<1>6. ResType'
  BY <1>1, <1>2, <1>3
  DEF config, exitVars, ResType, Resources
<1>7. JobType'
  BY <1>1, <1>2, <1>3
  DEF config, exitVars, JobType
<1>8. MemType'
  BY <1>1, <1>2, <1>3
  DEF config, exitVars, MemType, Known, Later, Wrapped
<1>9. Fresh'
  BY <1>1, <1>2, <1>3
  DEF config, exitVars, Fresh, Wrapped, Later, Known, Running, SetupSteps, JobSteps,
     UntilOnExit, UntilSigint, UntilNames, UntilWatcher, UntilData, UntilHeader,
     UntilThread, UntilOutput, UntilFopen, Owners
<1>10. Whose'
  BY <1>1, <1>2, <1>3
  DEF config, exitVars, Wraps, Whose, AfterWatcher, FreedByItsAllocator, Fixed, Over,
     UntilOnExit, UntilSigint, UntilNames, UntilWatcher, Known, Later, Wrapped, Owners
<1>11. HeapKept'
  <2>1. /\ watcher = "disabled" /\ brk' = 0 /\ mapped' = 0 /\ watcher' = watcher
        /\ brk <= heap_size * CellSize /\ brk = 0 /\ heap_size' = heap_size
    BY <1>1, <1>3
       DEF Whose, HeapKept, UntilWatcher, UntilNames, UntilSigint, UntilOnExit, config
  <2> QED
    BY <2>1 DEF HeapKept, Fixed
<1>12. RoomKept'
  <2>1. watcher' # "enabled" /\ UNCHANGED before
    BY <1>1, <1>2, <1>3 DEF config, Whose, UntilOnExit, UntilSigint, UntilNames, UntilWatcher
  <2> QED
    BY <1>1, <2>1 DEF RoomKept
<1>13. Counted'
  BY <1>1, <1>2, <1>3
  DEF config, exitVars, Counted, Profiling, Running, SetupSteps, JobSteps, StopSteps, Over,
     UntilOnExit, UntilSigint, Outcomes
<1>14. Held'
  <2>1. /\ pc = "parse" /\ held \intersect SamplerHas = {} /\ owner["samples"] = "none"
        /\ owner["moreSamples"] = "none" /\ ~ sampling /\ mapped = 0
    BY <1>1, <1>3
      DEF Held, Fresh, HeapKept, Later, UntilWatcher, UntilNames, UntilSigint, UntilOnExit
  <2>2. \A x \in {"samples", "moreSamples", "groupNames", "threadInfo", "file"} : owner'[x] = owner[x]
    BY <1>3 DEF Known, Later, Wrapped
  <2>3. pc' \notin {"pagemap", "samplerThread"}
    BY <1>3
  <2> QED
    BY <1>1, <1>2, <1>3, <2>1, <2>2, <2>3 DEF Held, config, SamplerHas, GroupHas, Timers
<1>15. Mastered'
  BY <1>1, <1>2, <1>3
  DEF config, exitVars, Mastered, Running, SetupSteps, JobSteps, UntilOnExit, UntilSigint,
     UntilNames
<1>16. Interrupted'
  BY <1>1, <1>2, <1>3
  DEF config, exitVars, Interrupted, SwitchAgrees, Profiling, Kept, SamplerHas, GroupHas,
     StopSteps, Over, ToData, ToWatcher, ToOptions, ToOutput, ToSampler, ToDeadline,
     ToPeriod, ToPmcs, Known, Later, Wrapped, Owners
<1>17. Written'
  <2>1. CASE outcome' \in Outcomes \ {"go"} /\ pc' = "exited"
    BY <2>1 DEF Written, ParsedConsistent, Outcomes
  <2>2. CASE UNCHANGED <<outcome, pc>> /\ Agrees(opts') /\ outcome = "parsing"
    BY <2>2 DEF Written, ParsedConsistent, Agrees
  <2> QED
    BY <1>3, <2>1, <2>2
<1> QED
  BY <1>4, <1>5, <1>6, <1>7, <1>8, <1>9, <1>10, <1>11, <1>12, <1>13, <1>14, <1>15, <1>16,
     <1>17 DEF IInv

(* The options are checked and main() goes on.                             *)
LEMMA ParseKeeps == ASSUME IInv, Parse PROVE IInv'
<1>1. ProgType /\ ExitType /\ ResType /\ JobType /\ MemType /\ Fresh /\ Whose
      /\ HeapKept /\ RoomKept /\ Counted /\ Held /\ Mastered /\ Interrupted /\ Written
  BY DEF IInv
<1>2. UNCHANGED <<held, pmcs, created, armed, group, master, names, mt, sampling, posts,
      synchDone, started, jobEnded, jobs, expiries, aborted, before, prog, arg, field>>
  BY DEF Parse, resVars, groupVars, jobVars
<1>3. /\ WatcherTypeOK' /\ UNCHANGED <<config, brk, misfreed, owner>> /\ pc = "parse"
      /\ Known \subseteq Blocks
      /\ \/ /\ outcome' \in Outcomes \ {"go"} /\ pc' = "exited" /\ exit' = "call"
            /\ status' = IF outcome' \in {"usage", "failure"} THEN "failure" ELSE "success"
            /\ UNCHANGED <<opts, owner, at, hooks>>
         \/ /\ outcome' = "go" /\ pc' = "sampler" /\ UNCHANGED exitVars
            /\ opts' \in ExecutionOptions /\ ConsistentOptions(opts')
  <2> DEFINE now == [o |-> opts, exit |-> "go"]
             p == ParseEnd(now, prog.root)
  <2>1. /\ pc = "parse"
        /\ IF p.exit # "go" THEN ParsingStops(p.exit)
           ELSE /\ opts' = ImplicitDeadline(p.o) /\ outcome' = "go"
                /\ Goto("sampler") /\ UNCHANGED owner
        /\ UNCHANGED <<config, brk, room, extended, dlRoom, misfreed>>
    BY DEF Parse
  <2>2. opts \in ExecutionOptions /\ Agrees(opts) /\ outcome = "parsing" /\ now \in Parses
    BY <2>1, Parsing
  <2>3. p \in Parses /\ (p.exit = "go" => p.o = opts /\ Consistent(opts))
    BY <2>2, EndType
  <2> HIDE DEF p
  <2>4. UNCHANGED owner
    BY <2>1 DEF ParsingStops
  <2>5. WatcherTypeOK' /\ Known \subseteq Blocks
    BY <1>1, <2>1, <2>4, MemoryStays, KnownBlocks DEF MemType, watcherVars, memory
  <2>6. CASE p.exit # "go"
    <3>1. /\ outcome' = p.exit /\ pc' = "exited" /\ exit' = "call"
          /\ status' = IF p.exit \in {"usage", "failure"} THEN "failure" ELSE "success"
          /\ UNCHANGED <<opts, owner, at, hooks>>
      BY <2>1, <2>6 DEF ParsingStops
    <3>2. p.exit \in Outcomes
      BY <2>3 DEF Parses
    <3> QED
      BY <2>1, <2>5, <2>6, <3>1, <3>2
  <2>7. CASE p.exit = "go"
    <3>1. opts' = ImplicitDeadline(opts) /\ outcome' = "go" /\ Goto("sampler")
      BY <2>1, <2>3, <2>7
    <3>2. opts' \in ExecutionOptions /\ ConsistentOptions(opts')
      BY <2>2, <2>3, <2>7, <3>1, ImplicitType, FinalOptions
    <3> QED
      BY <2>1, <2>4, <2>5, <3>1, <3>2 DEF Goto
  <2> QED
    BY <2>6, <2>7
<1>4. ProgType'
  BY <1>1, <1>2, <1>3
  DEF config, exitVars, ProgType, Outcomes
<1>5. ExitType'
  BY <1>1, <1>2, <1>3
  DEF config, exitVars, ExitType, SetupSteps, JobSteps, StopSteps, Over
<1>6. ResType'
  BY <1>1, <1>2, <1>3
  DEF config, exitVars, ResType, Resources
<1>7. JobType'
  BY <1>1, <1>2, <1>3
  DEF config, exitVars, JobType
<1>8. MemType'
  BY <1>1, <1>2, <1>3
  DEF config, exitVars, MemType, Known, Later, Wrapped
<1>9. Fresh'
  BY <1>1, <1>2, <1>3
  DEF config, exitVars, Fresh, Wrapped, Later, Known, Running, SetupSteps, JobSteps,
     UntilOnExit, UntilSigint, UntilNames, UntilWatcher, UntilData, UntilHeader,
     UntilThread, UntilOutput, UntilFopen, Owners
<1>10. Whose'
  BY <1>1, <1>2, <1>3
  DEF config, exitVars, Wraps, Whose, AfterWatcher, FreedByItsAllocator, Fixed, Over,
     UntilOnExit, UntilSigint, UntilNames, UntilWatcher, Known, Later, Wrapped, Owners
<1>11. HeapKept'
  <2>1. /\ watcher = "disabled" /\ brk' = 0 /\ mapped' = 0 /\ watcher' = watcher
        /\ brk <= heap_size * CellSize /\ brk = 0 /\ heap_size' = heap_size
    BY <1>1, <1>3
       DEF Whose, HeapKept, UntilWatcher, UntilNames, UntilSigint, UntilOnExit, config
  <2> QED
    BY <2>1 DEF HeapKept, Fixed
<1>12. RoomKept'
  <2>1. watcher' # "enabled" /\ UNCHANGED before
    BY <1>1, <1>2, <1>3 DEF config, Whose, UntilOnExit, UntilSigint, UntilNames, UntilWatcher
  <2> QED
    BY <1>1, <2>1 DEF RoomKept
<1>13. Counted'
  BY <1>1, <1>2, <1>3
  DEF config, exitVars, Counted, Profiling, Running, SetupSteps, JobSteps, StopSteps, Over,
     UntilOnExit, UntilSigint, Outcomes
<1>14. Held'
  <2>1. /\ pc = "parse" /\ held \intersect SamplerHas = {} /\ owner["samples"] = "none"
        /\ owner["moreSamples"] = "none" /\ ~ sampling /\ mapped = 0
    BY <1>1, <1>3
      DEF Held, Fresh, HeapKept, Later, UntilWatcher, UntilNames, UntilSigint, UntilOnExit
  <2>2. owner' = owner
    BY <1>3
  <2>3. pc' \notin {"pagemap", "samplerThread"}
    BY <1>3
  <2> QED
    BY <1>1, <1>2, <1>3, <2>1, <2>2, <2>3 DEF Held, config, SamplerHas, GroupHas, Timers
<1>15. Mastered'
  BY <1>1, <1>2, <1>3
  DEF config, exitVars, Mastered, Running, SetupSteps, JobSteps, UntilOnExit, UntilSigint,
     UntilNames
<1>16. Interrupted'
  BY <1>1, <1>2, <1>3
  DEF config, exitVars, Interrupted, SwitchAgrees, Profiling, Kept, SamplerHas, GroupHas,
     StopSteps, Over, ToData, ToWatcher, ToOptions, ToOutput, ToSampler, ToDeadline,
     ToPeriod, ToPmcs, Known, Later, Wrapped, Owners
<1>17. Written'
  <2>1. CASE outcome' \in Outcomes \ {"go"} /\ pc' = "exited"
    BY <2>1 DEF Written, ParsedConsistent, Outcomes
  <2>2. CASE outcome' = "go" /\ pc' = "sampler" /\ ConsistentOptions(opts')
    BY <2>2 DEF Written, ParsedConsistent, ConsistentOptions
  <2> QED
    BY <1>3, <2>1, <2>2
<1> QED
  BY <1>4, <1>5, <1>6, <1>7, <1>8, <1>9, <1>10, <1>11, <1>12, <1>13, <1>14, <1>15, <1>16,
     <1>17 DEF IInv
-----------------------------------------------------------------------------
(* The sampler, the exit's hooks and the counters                          *)

(* The sampler's file.                                                     *)
LEMMA OpenSamplerFileKeeps == ASSUME IInv, OpenSamplerFile PROVE IInv'
<1>1. ProgType /\ ExitType /\ ResType /\ JobType /\ MemType /\ Fresh /\ Whose
      /\ HeapKept /\ RoomKept /\ Counted /\ Held /\ Mastered /\ Interrupted /\ Written
  BY DEF IInv
<1>2. WatcherTypeOK'
  BY <1>1, MemoryStays DEF OpenSamplerFile, MemType, memVars
<1>3. ProgType'
  BY <1>1, <1>2
  DEF OpenSamplerFile, Goto, progVars, exitVars, resVars, groupVars, jobVars, memVars,
     watcherVars, config, memory, ProgType
<1>4. ExitType'
  <2>1. pc' \in {"samplerThread", "onExit"} /\ UNCHANGED exitVars
    BY DEF OpenSamplerFile, Goto
  <2> QED
    BY <1>1, <2>1 DEF ExitType, exitVars, SetupSteps
<1>5. ResType'
  BY <1>1, <1>2
  DEF OpenSamplerFile, Goto, progVars, exitVars, resVars, groupVars, jobVars, memVars,
     watcherVars, config, memory, ResType, Resources
<1>6. JobType'
  BY <1>1, <1>2
  DEF OpenSamplerFile, Goto, progVars, exitVars, resVars, groupVars, jobVars, memVars,
     watcherVars, config, memory, JobType
<1>7. MemType'
  BY <1>1, <1>2
  DEF OpenSamplerFile, Goto, progVars, exitVars, resVars, groupVars, jobVars, memVars,
     watcherVars, config, memory, MemType
<1>8. Fresh'
  BY <1>1, <1>2
  DEF OpenSamplerFile, Goto, progVars, exitVars, resVars, groupVars, jobVars, memVars,
     watcherVars, config, memory, Fresh, Wrapped, Later, Known, Running, SetupSteps,
     JobSteps, UntilOnExit, UntilSigint, UntilNames, UntilWatcher, UntilData, UntilHeader,
     UntilThread, UntilOutput, UntilFopen
<1>9. Whose'
  BY <1>1, <1>2
  DEF OpenSamplerFile, Goto, progVars, exitVars, resVars, groupVars, jobVars, memVars,
     watcherVars, config, memory, Whose, AfterWatcher, FreedByItsAllocator, Fixed, Over,
     UntilOnExit, UntilSigint, UntilNames, UntilWatcher
<1>10. HeapKept'
  BY <1>1, <1>2
  DEF OpenSamplerFile, Goto, progVars, exitVars, resVars, groupVars, jobVars, memVars,
     watcherVars, config, memory, HeapKept, Fixed, UntilOnExit, UntilSigint, UntilNames,
     UntilWatcher
<1>11. RoomKept'
  BY <1>1, <1>2
  DEF OpenSamplerFile, Goto, progVars, exitVars, resVars, groupVars, jobVars, memVars,
     watcherVars, config, memory, RoomKept, Taken, Allocated
<1>12. Counted'
  BY <1>1, <1>2
  DEF OpenSamplerFile, Goto, progVars, exitVars, resVars, groupVars, jobVars, memVars,
     watcherVars, config, memory, Counted, Profiling, Running, SetupSteps, JobSteps,
     StopSteps, Over, UntilOnExit, UntilSigint
<1>13. Held'
  BY <1>1, <1>2
  DEF OpenSamplerFile, Goto, progVars, exitVars, resVars, groupVars, jobVars, memVars,
     watcherVars, config, memory, Held, AlignedHeap, Profiling, SamplerHas, GroupHas, Timers
<1>14. Mastered'
  BY <1>1, <1>2
  DEF OpenSamplerFile, Goto, progVars, exitVars, resVars, groupVars, jobVars, memVars,
     watcherVars, config, memory, Mastered, Running, SetupSteps, JobSteps, UntilOnExit,
     UntilSigint, UntilNames
<1>15. Interrupted'
  BY <1>1, <1>2
  DEF OpenSamplerFile, Goto, progVars, exitVars, resVars, groupVars, jobVars, memVars,
     watcherVars, config, memory, Interrupted, SwitchAgrees, Profiling, Kept, SamplerHas,
     GroupHas, StopSteps, Over, ToData, ToWatcher, ToOptions, ToOutput, ToSampler,
     ToDeadline, ToPeriod, ToPmcs
<1>16. Written'
  BY <1>1, <1>2
  DEF OpenSamplerFile, Goto, progVars, exitVars, resVars, groupVars, jobVars, memVars,
     watcherVars, config, memory, Written, ParsedConsistent
<1> QED
  BY <1>3, <1>4, <1>5, <1>6, <1>7, <1>8, <1>9, <1>10, <1>11, <1>12, <1>13, <1>14, <1>15,
     <1>16 DEF IInv

(* The sampler's list, timer and thread.                                   *)
LEMMA SetupPerfSamplerKeeps == ASSUME IInv, SetupPerfSampler PROVE IInv'
<1>1. ProgType /\ ExitType /\ ResType /\ JobType /\ MemType /\ Fresh /\ Whose
      /\ HeapKept /\ RoomKept /\ Counted /\ Held /\ Mastered /\ Interrupted /\ Written
  BY DEF IInv
<1>2. UNCHANGED <<prog, opts, outcome, arg, field, pmcs, armed, group, master, names, mt,
      sampling, posts, synchDone, started, jobEnded, jobs, expiries, aborted, before>>
  BY DEF SetupPerfSampler, progVars, resVars, groupVars, jobVars, memVars
<1>3. /\ WatcherTypeOK' /\ UNCHANGED <<config, brk, misfreed>>
      /\ Known \subseteq Blocks
      /\ \A x \in Blocks : owner[x] \in Owners
      /\ owner'["samples"] \in {owner["samples"], "libc"}
      /\ \A x \in Blocks \ {"samples"} : owner'[x] = owner[x]
      /\ pc = "samplerThread"
      /\ \/ UNCHANGED <<held, created>>
         \/ held' = held \union {"perfTimer"} /\ created' = Append(created, "perfTimer")
         \/ /\ held' = held \union {"perfTimer", "sampler"} /\ pc' = "onExit"
            /\ created' = Append(created, "perfTimer")
      /\ \/ pc' \in {"crashed", "onExit"} /\ UNCHANGED exitVars
         \/ /\ pc' \in {"stopThreads", "exited"} /\ exit' = "return" /\ UNCHANGED <<at, hooks>>
            /\ status' \in {"success", "failure"} /\ "sampler" \notin held'
  <2>1. /\ pc = "samplerThread" /\ watcher = "disabled" /\ WatcherTypeOK /\ Known \subseteq Blocks
        /\ owner \in [Blocks -> Owners] /\ "samples" \in Blocks /\ "sampler" \notin held
    BY <1>1, KnownBlocks
       DEF SetupPerfSampler, Whose, UntilWatcher, UntilNames, UntilSigint, UntilOnExit, MemType,
           WatcherTypeOK, Known, Counted
  <2>2. RealMalloc("samples") \/ UNCHANGED watcherVars
    BY DEF SetupPerfSampler
  <2>3. /\ WatcherTypeOK' /\ UNCHANGED <<config, brk, misfreed>>
        /\ Known \subseteq Blocks
        /\ \A x \in Blocks : owner[x] \in Owners
        /\ owner'["samples"] \in {owner["samples"], "libc"}
        /\ \A x \in Blocks \ {"samples"} : owner'[x] = owner[x]
    <3>1. CASE RealMalloc("samples")
      BY <2>1, <3>1, RealMallocDoes
    <3>2. CASE UNCHANGED watcherVars
      BY <2>1, <3>2, MemoryStays DEF watcherVars, memory
    <3> QED
      BY <2>2, <3>1, <3>2
  <2>4. \/ Crash /\ UNCHANGED <<held, created>>
        \/ /\ ReturnWith(-1) \/ ReturnWith(1)
           /\ \/ UNCHANGED <<held, created>>
              \/ created' = Append(created, "perfTimer") /\ held' = held \union {"perfTimer"}
        \/ /\ created' = Append(created, "perfTimer")
           /\ held' = held \union {"perfTimer", "sampler"}
           /\ Goto("onExit")
    BY Zenon DEF SetupPerfSampler, TimerFails, TimerSet
  <2> QED
    BY <2>1, <2>3, <2>4 DEF Crash, ReturnWith, FirstStop, Goto
<1>4. ProgType'
  BY <1>1, <1>2, <1>3
  DEF config, exitVars, ProgType
<1>5. ExitType'
  <2>1. \/ pc' \in {"crashed", "onExit"} /\ UNCHANGED exitVars
        \/ /\ pc' \in {"stopThreads", "exited"} /\ exit' = "return" /\ UNCHANGED <<at, hooks>>
           /\ status' \in {"success", "failure"}
    BY <1>3
  <2> QED
    BY <1>1, <2>1 DEF ExitType, exitVars, SetupSteps, StopSteps, Over
<1>6. ResType'
  <2>1. created' \in {created, Append(created, "perfTimer")}
    BY <1>3
  <2>2. created' \in Seq({"perfTimer", "deadlineTimer", "periodTimer"})
    BY <1>1, <2>1 DEF ResType
  <2>3. held' \in {held, held \union {"perfTimer"}, held \union {"perfTimer", "sampler"}}
    BY <1>3
  <2>4. held' \subseteq Resources
    BY <1>1, <2>3 DEF ResType, Resources
  <2> QED
    BY <1>1, <1>2, <2>2, <2>4 DEF ResType
<1>7. JobType'
  BY <1>1, <1>2, <1>3
  DEF config, exitVars, JobType
<1>8. MemType'
  BY <1>1, <1>2, <1>3
  DEF config, exitVars, MemType, Known, Later, Wrapped
<1>9. Fresh'
  BY <1>1, <1>2, <1>3
  DEF config, exitVars, Fresh, Wrapped, Later, Known, Running, SetupSteps, JobSteps,
     UntilOnExit, UntilSigint, UntilNames, UntilWatcher, UntilData, UntilHeader,
     UntilThread, UntilOutput, UntilFopen, Owners
<1>10. Whose'
  BY <1>1, <1>2, <1>3
  DEF config, exitVars, Wraps, Whose, AfterWatcher, FreedByItsAllocator, Fixed, Over,
     UntilOnExit, UntilSigint, UntilNames, UntilWatcher, Known, Later, Wrapped, Owners
<1>11. HeapKept'
  BY <1>1, <1>2, <1>3
  DEF config, exitVars, HeapKept, Fixed, UntilOnExit, UntilSigint, UntilNames, UntilWatcher
<1>12. RoomKept'
  <2>1. watcher' # "enabled" /\ UNCHANGED before
    BY <1>1, <1>2, <1>3 DEF config, Whose, UntilOnExit, UntilSigint, UntilNames, UntilWatcher
  <2> QED
    BY <1>1, <2>1 DEF RoomKept
<1>13. Counted'
  <2>1. pc = "samplerThread" /\ Profiling /\ jobs = 0 /\ pmcs = 0 /\ "onExit" \notin hooks
        /\ exit = "none" /\ status = "none"
    BY <1>1, <1>3
       DEF Counted, Held, SetupSteps, Running, UntilSigint, UntilOnExit
  <2>2. UNCHANGED <<hooks, jobs, pmcs, opts, outcome>>
    BY <1>2, <1>3 DEF exitVars
  <2>3. \/ pc' \in {"crashed", "onExit"} /\ UNCHANGED <<exit, status>>
        \/ /\ pc' \in {"stopThreads", "exited"} /\ exit' = "return" /\ "sampler" \notin held'
    BY <1>3 DEF exitVars
  <2>4. Profiling'
    BY <2>1, <2>2 DEF Profiling
  <2> QED
    BY <2>1, <2>2, <2>3, <2>4
    DEF Counted, Running, SetupSteps, JobSteps, StopSteps, Over, UntilOnExit, UntilSigint
<1>14. Held'
  BY <1>1, <1>2, <1>3
  DEF config, exitVars, Held, AlignedHeap, Profiling, SamplerHas, GroupHas, Timers, Known,
     Later, Wrapped, Owners
<1>15. Mastered'
  BY <1>1, <1>2, <1>3
  DEF config, exitVars, Mastered, Running, SetupSteps, JobSteps, UntilOnExit, UntilSigint,
     UntilNames
<1>16. Interrupted'
  BY <1>1, <1>2, <1>3
  DEF config, exitVars, Interrupted, SwitchAgrees, Profiling, Kept, SamplerHas, GroupHas,
     StopSteps, Over, ToData, ToWatcher, ToOptions, ToOutput, ToSampler, ToDeadline,
     ToPeriod, ToPmcs, Known, Later, Wrapped, Owners
<1>17. Written'
  BY <1>1, <1>2, <1>3
  DEF config, exitVars, Written, ParsedConsistent
<1> QED
  BY <1>4, <1>5, <1>6, <1>7, <1>8, <1>9, <1>10, <1>11, <1>12, <1>13, <1>14, <1>15, <1>16,
     <1>17 DEF IInv

(* From here on an exit runs stop_benchmark().                             *)
LEMMA RegisterOnExitKeeps == ASSUME IInv, RegisterOnExit PROVE IInv'
<1>1. ProgType /\ ExitType /\ ResType /\ JobType /\ MemType /\ Fresh /\ Whose
      /\ HeapKept /\ RoomKept /\ Counted /\ Held /\ Mastered /\ Interrupted /\ Written
  BY DEF IInv
<1>2. WatcherTypeOK'
  BY <1>1, MemoryStays DEF RegisterOnExit, MemType, memVars
<1>3. ProgType'
  BY <1>1, <1>2
  DEF RegisterOnExit, Goto, ReturnWith, FirstStop, progVars, exitVars, resVars, groupVars,
     jobVars, memVars, watcherVars, config, memory, ProgType
<1>4. ExitType'
  BY <1>1, <1>2
  DEF RegisterOnExit, Goto, ReturnWith, FirstStop, progVars, exitVars, resVars, groupVars,
     jobVars, memVars, watcherVars, config, memory, ExitType, SetupSteps, JobSteps,
     StopSteps, Over
<1>5. ResType'
  BY <1>1, <1>2
  DEF RegisterOnExit, Goto, ReturnWith, FirstStop, progVars, exitVars, resVars, groupVars,
     jobVars, memVars, watcherVars, config, memory, ResType, Resources
<1>6. JobType'
  BY <1>1, <1>2
  DEF RegisterOnExit, Goto, ReturnWith, FirstStop, progVars, exitVars, resVars, groupVars,
     jobVars, memVars, watcherVars, config, memory, JobType
<1>7. MemType'
  BY <1>1, <1>2
  DEF RegisterOnExit, Goto, ReturnWith, FirstStop, progVars, exitVars, resVars, groupVars,
     jobVars, memVars, watcherVars, config, memory, MemType
<1>8. Fresh'
  BY <1>1, <1>2
  DEF RegisterOnExit, Goto, ReturnWith, FirstStop, progVars, exitVars, resVars, groupVars,
     jobVars, memVars, watcherVars, config, memory, Fresh, Wrapped, Later, Known, Running,
     SetupSteps, JobSteps, UntilOnExit, UntilSigint, UntilNames, UntilWatcher, UntilData,
     UntilHeader, UntilThread, UntilOutput, UntilFopen
<1>9. Whose'
  BY <1>1, <1>2
  DEF RegisterOnExit, Goto, ReturnWith, FirstStop, progVars, exitVars, resVars, groupVars,
     jobVars, memVars, watcherVars, config, memory, Whose, AfterWatcher,
     FreedByItsAllocator, Fixed, Over, UntilOnExit, UntilSigint, UntilNames, UntilWatcher
<1>10. HeapKept'
  BY <1>1, <1>2
  DEF RegisterOnExit, Goto, ReturnWith, FirstStop, progVars, exitVars, resVars, groupVars,
     jobVars, memVars, watcherVars, config, memory, HeapKept, Fixed, UntilOnExit,
     UntilSigint, UntilNames, UntilWatcher
<1>11. RoomKept'
  BY <1>1, <1>2
  DEF RegisterOnExit, Goto, ReturnWith, FirstStop, progVars, exitVars, resVars, groupVars,
     jobVars, memVars, watcherVars, config, memory, RoomKept, Taken, Allocated
<1>12. Counted'
  BY <1>1, <1>2
  DEF RegisterOnExit, Goto, ReturnWith, FirstStop, progVars, exitVars, resVars, groupVars,
     jobVars, memVars, watcherVars, config, memory, Counted, Profiling, Running, SetupSteps,
     JobSteps, StopSteps, Over, UntilOnExit, UntilSigint
<1>13. Held'
  BY <1>1, <1>2
  DEF RegisterOnExit, Goto, ReturnWith, FirstStop, progVars, exitVars, resVars, groupVars,
     jobVars, memVars, watcherVars, config, memory, Held, AlignedHeap, Profiling,
     SamplerHas, GroupHas, Timers
<1>14. Mastered'
  BY <1>1, <1>2
  DEF RegisterOnExit, Goto, ReturnWith, FirstStop, progVars, exitVars, resVars, groupVars,
     jobVars, memVars, watcherVars, config, memory, Mastered, Running, SetupSteps, JobSteps,
     UntilOnExit, UntilSigint, UntilNames
<1>15. Interrupted'
  BY <1>1, <1>2
  DEF RegisterOnExit, Goto, ReturnWith, FirstStop, progVars, exitVars, resVars, groupVars,
     jobVars, memVars, watcherVars, config, memory, Interrupted, SwitchAgrees, Profiling,
     Kept, SamplerHas, GroupHas, StopSteps, Over, ToData, ToWatcher, ToOptions, ToOutput,
     ToSampler, ToDeadline, ToPeriod, ToPmcs
<1>16. Written'
  BY <1>1, <1>2
  DEF RegisterOnExit, Goto, ReturnWith, FirstStop, progVars, exitVars, resVars, groupVars,
     jobVars, memVars, watcherVars, config, memory, Written, ParsedConsistent
<1> QED
  BY <1>3, <1>4, <1>5, <1>6, <1>7, <1>8, <1>9, <1>10, <1>11, <1>12, <1>13, <1>14, <1>15,
     <1>16 DEF IInv

(* The process' cores.                                                     *)
LEMMA SetAffinityKeeps == ASSUME IInv, SetAffinity PROVE IInv'
<1>1. ProgType /\ ExitType /\ ResType /\ JobType /\ MemType /\ Fresh /\ Whose
      /\ HeapKept /\ RoomKept /\ Counted /\ Held /\ Mastered /\ Interrupted /\ Written
  BY DEF IInv
<1>2. WatcherTypeOK'
  BY <1>1, MemoryStays DEF SetAffinity, MemType, memVars
<1>3. ProgType'
  BY <1>1, <1>2
  DEF SetAffinity, Goto, ReturnWith, FirstStop, progVars, exitVars, resVars, groupVars,
     jobVars, memVars, watcherVars, config, memory, ProgType
<1>4. ExitType'
  BY <1>1, <1>2
  DEF SetAffinity, Goto, ReturnWith, FirstStop, progVars, exitVars, resVars, groupVars,
     jobVars, memVars, watcherVars, config, memory, ExitType, SetupSteps, JobSteps,
     StopSteps, Over
<1>5. ResType'
  BY <1>1, <1>2
  DEF SetAffinity, Goto, ReturnWith, FirstStop, progVars, exitVars, resVars, groupVars,
     jobVars, memVars, watcherVars, config, memory, ResType, Resources
<1>6. JobType'
  BY <1>1, <1>2
  DEF SetAffinity, Goto, ReturnWith, FirstStop, progVars, exitVars, resVars, groupVars,
     jobVars, memVars, watcherVars, config, memory, JobType
<1>7. MemType'
  BY <1>1, <1>2
  DEF SetAffinity, Goto, ReturnWith, FirstStop, progVars, exitVars, resVars, groupVars,
     jobVars, memVars, watcherVars, config, memory, MemType
<1>8. Fresh'
  BY <1>1, <1>2
  DEF SetAffinity, Goto, ReturnWith, FirstStop, progVars, exitVars, resVars, groupVars,
     jobVars, memVars, watcherVars, config, memory, Fresh, Wrapped, Later, Known, Running,
     SetupSteps, JobSteps, UntilOnExit, UntilSigint, UntilNames, UntilWatcher, UntilData,
     UntilHeader, UntilThread, UntilOutput, UntilFopen
<1>9. Whose'
  BY <1>1, <1>2
  DEF SetAffinity, Goto, ReturnWith, FirstStop, progVars, exitVars, resVars, groupVars,
     jobVars, memVars, watcherVars, config, memory, Whose, AfterWatcher,
     FreedByItsAllocator, Fixed, Over, UntilOnExit, UntilSigint, UntilNames, UntilWatcher
<1>10. HeapKept'
  BY <1>1, <1>2
  DEF SetAffinity, Goto, ReturnWith, FirstStop, progVars, exitVars, resVars, groupVars,
     jobVars, memVars, watcherVars, config, memory, HeapKept, Fixed, UntilOnExit,
     UntilSigint, UntilNames, UntilWatcher
<1>11. RoomKept'
  BY <1>1, <1>2
  DEF SetAffinity, Goto, ReturnWith, FirstStop, progVars, exitVars, resVars, groupVars,
     jobVars, memVars, watcherVars, config, memory, RoomKept, Taken, Allocated
<1>12. Counted'
  BY <1>1, <1>2
  DEF SetAffinity, Goto, ReturnWith, FirstStop, progVars, exitVars, resVars, groupVars,
     jobVars, memVars, watcherVars, config, memory, Counted, Profiling, Running, SetupSteps,
     JobSteps, StopSteps, Over, UntilOnExit, UntilSigint
<1>13. Held'
  BY <1>1, <1>2
  DEF SetAffinity, Goto, ReturnWith, FirstStop, progVars, exitVars, resVars, groupVars,
     jobVars, memVars, watcherVars, config, memory, Held, AlignedHeap, Profiling,
     SamplerHas, GroupHas, Timers
<1>14. Mastered'
  BY <1>1, <1>2
  DEF SetAffinity, Goto, ReturnWith, FirstStop, progVars, exitVars, resVars, groupVars,
     jobVars, memVars, watcherVars, config, memory, Mastered, Running, SetupSteps, JobSteps,
     UntilOnExit, UntilSigint, UntilNames
<1>15. Interrupted'
  BY <1>1, <1>2
  DEF SetAffinity, Goto, ReturnWith, FirstStop, progVars, exitVars, resVars, groupVars,
     jobVars, memVars, watcherVars, config, memory, Interrupted, SwitchAgrees, Profiling,
     Kept, SamplerHas, GroupHas, StopSteps, Over, ToData, ToWatcher, ToOptions, ToOutput,
     ToSampler, ToDeadline, ToPeriod, ToPmcs
<1>16. Written'
  BY <1>1, <1>2
  DEF SetAffinity, Goto, ReturnWith, FirstStop, progVars, exitVars, resVars, groupVars,
     jobVars, memVars, watcherVars, config, memory, Written, ParsedConsistent
<1> QED
  BY <1>3, <1>4, <1>5, <1>6, <1>7, <1>8, <1>9, <1>10, <1>11, <1>12, <1>13, <1>14, <1>15,
     <1>16 DEF IInv

(* From here on SIGINT exits.                                              *)
LEMMA HandleSigintKeeps == ASSUME IInv, HandleSigint PROVE IInv'
<1>1. ProgType /\ ExitType /\ ResType /\ JobType /\ MemType /\ Fresh /\ Whose
      /\ HeapKept /\ RoomKept /\ Counted /\ Held /\ Mastered /\ Interrupted /\ Written
  BY DEF IInv
<1>2. WatcherTypeOK'
  BY <1>1, MemoryStays DEF HandleSigint, MemType, memVars
<1>3. ProgType'
  BY <1>1, <1>2
  DEF HandleSigint, Goto, ReturnWith, FirstStop, progVars, exitVars, resVars, groupVars,
     jobVars, memVars, watcherVars, config, memory, ProgType
<1>4. ExitType'
  BY <1>1, <1>2
  DEF HandleSigint, Goto, ReturnWith, FirstStop, progVars, exitVars, resVars, groupVars,
     jobVars, memVars, watcherVars, config, memory, ExitType, SetupSteps, JobSteps,
     StopSteps, Over
<1>5. ResType'
  BY <1>1, <1>2
  DEF HandleSigint, Goto, ReturnWith, FirstStop, progVars, exitVars, resVars, groupVars,
     jobVars, memVars, watcherVars, config, memory, ResType, Resources
<1>6. JobType'
  BY <1>1, <1>2
  DEF HandleSigint, Goto, ReturnWith, FirstStop, progVars, exitVars, resVars, groupVars,
     jobVars, memVars, watcherVars, config, memory, JobType
<1>7. MemType'
  BY <1>1, <1>2
  DEF HandleSigint, Goto, ReturnWith, FirstStop, progVars, exitVars, resVars, groupVars,
     jobVars, memVars, watcherVars, config, memory, MemType
<1>8. Fresh'
  BY <1>1, <1>2
  DEF HandleSigint, Goto, ReturnWith, FirstStop, progVars, exitVars, resVars, groupVars,
     jobVars, memVars, watcherVars, config, memory, Fresh, Wrapped, Later, Known, Running,
     SetupSteps, JobSteps, UntilOnExit, UntilSigint, UntilNames, UntilWatcher, UntilData,
     UntilHeader, UntilThread, UntilOutput, UntilFopen
<1>9. Whose'
  BY <1>1, <1>2
  DEF HandleSigint, Goto, ReturnWith, FirstStop, progVars, exitVars, resVars, groupVars,
     jobVars, memVars, watcherVars, config, memory, Whose, AfterWatcher,
     FreedByItsAllocator, Fixed, Over, UntilOnExit, UntilSigint, UntilNames, UntilWatcher
<1>10. HeapKept'
  BY <1>1, <1>2
  DEF HandleSigint, Goto, ReturnWith, FirstStop, progVars, exitVars, resVars, groupVars,
     jobVars, memVars, watcherVars, config, memory, HeapKept, Fixed, UntilOnExit,
     UntilSigint, UntilNames, UntilWatcher
<1>11. RoomKept'
  BY <1>1, <1>2
  DEF HandleSigint, Goto, ReturnWith, FirstStop, progVars, exitVars, resVars, groupVars,
     jobVars, memVars, watcherVars, config, memory, RoomKept, Taken, Allocated
<1>12. Counted'
  <2>1. 0 < Pmcs
    BY ProcessAssumption DEF ProcessAssumption
  <2> QED
    BY <1>1, <2>1
    DEF HandleSigint, Goto, ReturnWith, FirstStop, progVars, resVars, jobVars, Counted,
        Profiling, Running, SetupSteps, JobSteps, StopSteps, Over, UntilOnExit, UntilSigint
<1>13. Held'
  BY <1>1, <1>2
  DEF HandleSigint, Goto, ReturnWith, FirstStop, progVars, exitVars, resVars, groupVars,
     jobVars, memVars, watcherVars, config, memory, Held, AlignedHeap, Profiling,
     SamplerHas, GroupHas, Timers
<1>14. Mastered'
  BY <1>1, <1>2
  DEF HandleSigint, Goto, ReturnWith, FirstStop, progVars, exitVars, resVars, groupVars,
     jobVars, memVars, watcherVars, config, memory, Mastered, Running, SetupSteps, JobSteps,
     UntilOnExit, UntilSigint, UntilNames
<1>15. Interrupted'
  BY <1>1, <1>2
  DEF HandleSigint, Goto, ReturnWith, FirstStop, progVars, exitVars, resVars, groupVars,
     jobVars, memVars, watcherVars, config, memory, Interrupted, SwitchAgrees, Profiling,
     Kept, SamplerHas, GroupHas, StopSteps, Over, ToData, ToWatcher, ToOptions, ToOutput,
     ToSampler, ToDeadline, ToPeriod, ToPmcs
<1>16. Written'
  BY <1>1, <1>2
  DEF HandleSigint, Goto, ReturnWith, FirstStop, progVars, exitVars, resVars, groupVars,
     jobVars, memVars, watcherVars, config, memory, Written, ParsedConsistent
<1> QED
  BY <1>3, <1>4, <1>5, <1>6, <1>7, <1>8, <1>9, <1>10, <1>11, <1>12, <1>13, <1>14, <1>15,
     <1>16 DEF IInv

(* The next performance counter.                                           *)
LEMMA SetupPmcsKeeps == ASSUME IInv, SetupPmcs PROVE IInv'
<1>1. ProgType /\ ExitType /\ ResType /\ JobType /\ MemType /\ Fresh /\ Whose
      /\ HeapKept /\ RoomKept /\ Counted /\ Held /\ Mastered /\ Interrupted /\ Written
  BY DEF IInv
<1>2. WatcherTypeOK'
  BY <1>1, MemoryStays DEF SetupPmcs, MemType, memVars
<1>3. ProgType'
  BY <1>1, <1>2
  DEF SetupPmcs, Goto, ReturnWith, FirstStop, progVars, exitVars, resVars, groupVars,
     jobVars, memVars, watcherVars, config, memory, ProgType
<1>4. ExitType'
  BY <1>1, <1>2
  DEF SetupPmcs, Goto, ReturnWith, FirstStop, progVars, exitVars, resVars, groupVars,
     jobVars, memVars, watcherVars, config, memory, ExitType, SetupSteps, JobSteps,
     StopSteps, Over
<1>5. ResType'
  <2>1. pmcs' \in 0 .. Pmcs
    <3>1. pmcs \in 0 .. Pmcs /\ pmcs < Pmcs /\ Pmcs \in Nat
      BY <1>1, ProcessAssumption DEF SetupPmcs, ResType, Counted, ProcessAssumption
    <3>2. pmcs' \in {pmcs, pmcs + 1}
      BY DEF SetupPmcs
    <3> QED
      BY <3>1, <3>2
  <2> QED
    BY <1>1, <2>1 DEF SetupPmcs, ResType, groupVars
<1>6. JobType'
  BY <1>1, <1>2
  DEF SetupPmcs, Goto, ReturnWith, FirstStop, progVars, exitVars, resVars, groupVars,
     jobVars, memVars, watcherVars, config, memory, JobType
<1>7. MemType'
  BY <1>1, <1>2
  DEF SetupPmcs, Goto, ReturnWith, FirstStop, progVars, exitVars, resVars, groupVars,
     jobVars, memVars, watcherVars, config, memory, MemType
<1>8. Fresh'
  BY <1>1, <1>2
  DEF SetupPmcs, Goto, ReturnWith, FirstStop, progVars, exitVars, resVars, groupVars,
     jobVars, memVars, watcherVars, config, memory, Fresh, Wrapped, Later, Known, Running,
     SetupSteps, JobSteps, UntilOnExit, UntilSigint, UntilNames, UntilWatcher, UntilData,
     UntilHeader, UntilThread, UntilOutput, UntilFopen
<1>9. Whose'
  BY <1>1, <1>2
  DEF SetupPmcs, Goto, ReturnWith, FirstStop, progVars, exitVars, resVars, groupVars,
     jobVars, memVars, watcherVars, config, memory, Whose, AfterWatcher,
     FreedByItsAllocator, Fixed, Over, UntilOnExit, UntilSigint, UntilNames, UntilWatcher
<1>10. HeapKept'
  BY <1>1, <1>2
  DEF SetupPmcs, Goto, ReturnWith, FirstStop, progVars, exitVars, resVars, groupVars,
     jobVars, memVars, watcherVars, config, memory, HeapKept, Fixed, UntilOnExit,
     UntilSigint, UntilNames, UntilWatcher
<1>11. RoomKept'
  BY <1>1, <1>2
  DEF SetupPmcs, Goto, ReturnWith, FirstStop, progVars, exitVars, resVars, groupVars,
     jobVars, memVars, watcherVars, config, memory, RoomKept, Taken, Allocated
<1>12. Counted'
  <2>1. pmcs \in 0 .. Pmcs /\ pmcs < Pmcs /\ Pmcs \in Nat
    BY <1>1, ProcessAssumption DEF SetupPmcs, ResType, Counted, ProcessAssumption
  <2> QED
    BY <1>1, <2>1
    DEF SetupPmcs, Goto, ReturnWith, FirstStop, progVars, exitVars, groupVars, jobVars, Counted,
        Profiling, Running, SetupSteps, JobSteps, StopSteps, Over, UntilOnExit, UntilSigint
<1>13. Held'
  BY <1>1, <1>2
  DEF SetupPmcs, Goto, ReturnWith, FirstStop, progVars, exitVars, resVars, groupVars,
     jobVars, memVars, watcherVars, config, memory, Held, AlignedHeap, Profiling,
     SamplerHas, GroupHas, Timers
<1>14. Mastered'
  BY <1>1, <1>2
  DEF SetupPmcs, Goto, ReturnWith, FirstStop, progVars, exitVars, resVars, groupVars,
     jobVars, memVars, watcherVars, config, memory, Mastered, Running, SetupSteps, JobSteps,
     UntilOnExit, UntilSigint, UntilNames
<1>15. Interrupted'
  BY <1>1, <1>2
  DEF SetupPmcs, Goto, ReturnWith, FirstStop, progVars, exitVars, resVars, groupVars,
     jobVars, memVars, watcherVars, config, memory, Interrupted, SwitchAgrees, Profiling,
     Kept, SamplerHas, GroupHas, StopSteps, Over, ToData, ToWatcher, ToOptions, ToOutput,
     ToSampler, ToDeadline, ToPeriod, ToPmcs
<1>16. Written'
  BY <1>1, <1>2
  DEF SetupPmcs, Goto, ReturnWith, FirstStop, progVars, exitVars, resVars, groupVars,
     jobVars, memVars, watcherVars, config, memory, Written, ParsedConsistent
<1> QED
  BY <1>3, <1>4, <1>5, <1>6, <1>7, <1>8, <1>9, <1>10, <1>11, <1>12, <1>13, <1>14, <1>15,
     <1>16 DEF IInv
-----------------------------------------------------------------------------
(* The synchronised start's resources                                      *)

(* The names of the group and the mapping.                                 *)
LEMMA CreateNamesKeeps == ASSUME IInv, CreateNames PROVE IInv'
<1>1. ProgType /\ ExitType /\ ResType /\ JobType /\ MemType /\ Fresh /\ Whose
      /\ HeapKept /\ RoomKept /\ Counted /\ Held /\ Mastered /\ Interrupted /\ Written
  BY DEF IInv
<1>2. UNCHANGED <<prog, opts, outcome, arg, field, pmcs, created, armed, mt, sampling, posts,
      synchDone, started, jobEnded, jobs, expiries, aborted, before>>
  BY DEF CreateNames, progVars, resVars, groupVars, jobVars, memVars
<1>3. /\ WatcherTypeOK' /\ UNCHANGED <<config, brk, misfreed>>
      /\ Known \subseteq Blocks
      /\ \A x \in Blocks : owner[x] \in Owners
      /\ owner'["groupNames"] \in {owner["groupNames"], "libc"}
      /\ \A x \in Blocks \ {"groupNames"} : owner'[x] = owner[x]
      /\ pc = "names"
      /\ \/ /\ pc' = "watcher" /\ UNCHANGED <<exitVars, held, group, master, names>>
            /\ owner'["groupNames"] = owner["groupNames"]
         \/ /\ group' = "named" /\ UNCHANGED <<held, master, names>>
            /\ pc' \in {"stopThreads", "exited"} /\ exit' = "return" /\ status' = "failure"
            /\ UNCHANGED <<at, hooks>>
         \/ /\ group' = "freed" /\ names' = names \union {"sem"} /\ UNCHANGED <<held, master>>
            /\ owner'["groupNames"] = owner["groupNames"]
            /\ pc' \in {"stopThreads", "exited"} /\ exit' = "return" /\ status' = "failure"
            /\ UNCHANGED <<at, hooks>>
         \/ /\ group' = "mapped" /\ names' = {"sem", "shm"}
            /\ master' = IF "shm" \in names THEN "no" ELSE "creator"
            /\ held' = held \union GroupHas
            /\ pc' \in {"master", "crashed"} /\ UNCHANGED exitVars
  <2>1. /\ pc = "names" /\ watcher = "disabled" /\ WatcherTypeOK /\ Known \subseteq Blocks
        /\ owner \in [Blocks -> Owners] /\ "groupNames" \in Blocks
    BY <1>1, KnownBlocks
       DEF CreateNames, Whose, UntilWatcher, UntilNames, MemType, WatcherTypeOK, Known
  <2> DEFINE F == /\ WatcherTypeOK' /\ UNCHANGED <<config, brk, misfreed>>
                  /\ Known \subseteq Blocks
                  /\ \A x \in Blocks : owner[x] \in Owners
                  /\ owner'["groupNames"] \in {owner["groupNames"], "libc"}
                  /\ \A x \in Blocks \ {"groupNames"} : owner'[x] = owner[x]
  <2>2. UNCHANGED watcherVars => F /\ owner'["groupNames"] = owner["groupNames"]
    BY <2>1, MemoryStays DEF watcherVars, memory
  <2>3. WrapMallocOk("groupNames", FALSE) => F
    BY <2>1, WrapMallocDoes DEF Wraps, Fixed
  <2> HIDE DEF F
  <2>4. CASE ~ opts.synch_start /\ Goto("watcher") /\ UNCHANGED <<held, groupVars, watcherVars>>
    BY <2>1, <2>2, <2>4 DEF Goto, groupVars, F
  <2>5. CASE /\ group' = "named" /\ WrapMallocOk("groupNames", FALSE)
             /\ ReturnWith(-1) /\ UNCHANGED <<held, master, names>>
    BY <2>1, <2>3, <2>5 DEF ReturnWith, FirstStop, F
  <2>6. CASE /\ group' = "freed" /\ names' = names \union {"sem"}
             /\ ReturnWith(-1) /\ UNCHANGED <<held, master, watcherVars>>
    BY <2>1, <2>2, <2>6 DEF ReturnWith, FirstStop, F
  <2>7. CASE /\ group' = "mapped" /\ names' = {"sem", "shm"}
             /\ master' = IF "shm" \in names THEN "no" ELSE "creator"
             /\ held' = held \union {"initSem", "shm", "shmFd"}
             /\ WrapMallocOk("groupNames", FALSE)
             /\ (Goto("master") \/ (Fails("shmMap") /\ Crash))
    BY <2>1, <2>3, <2>7 DEF Goto, Crash, GroupHas, F
  <2> QED
    BY <2>4, <2>5, <2>6, <2>7 DEF CreateNames
<1>4. ProgType'
  BY <1>1, <1>2, <1>3
  DEF config, exitVars, ProgType
<1>5. ExitType'
  <2>1. \/ pc' \in {"watcher", "master", "crashed"} /\ UNCHANGED exitVars
        \/ /\ pc' \in {"stopThreads", "exited"} /\ exit' = "return" /\ status' = "failure"
           /\ UNCHANGED <<at, hooks>>
    BY <1>3
  <2> QED
    BY <1>1, <2>1 DEF ExitType, exitVars, SetupSteps, StopSteps, Over
<1>6. ResType'
  <2>1. /\ group' \in {group, "named", "freed", "mapped"}
        /\ master' \in {master, "no", "creator"}
        /\ names' \in {names, names \union {"sem"}, {"sem", "shm"}}
        /\ held' \in {held, held \union GroupHas}
    BY <1>3
  <2>2. names' \subseteq {"sem", "shm"} /\ held' \subseteq Resources
    BY <1>1, <2>1 DEF ResType, Resources, GroupHas
  <2> QED
    BY <1>1, <1>2, <2>1, <2>2 DEF ResType
<1>7. JobType'
  BY <1>1, <1>2, <1>3
  DEF config, exitVars, JobType
<1>8. MemType'
  BY <1>1, <1>2, <1>3
  DEF config, exitVars, MemType, Known, Later, Wrapped
<1>9. Fresh'
  BY <1>1, <1>2, <1>3
  DEF config, exitVars, Fresh, Wrapped, Later, Known, Running, SetupSteps, JobSteps,
     UntilOnExit, UntilSigint, UntilNames, UntilWatcher, UntilData, UntilHeader,
     UntilThread, UntilOutput, UntilFopen, Owners
<1>10. Whose'
  BY <1>1, <1>2, <1>3
  DEF config, exitVars, Wraps, Whose, AfterWatcher, FreedByItsAllocator, Fixed, Over,
     UntilOnExit, UntilSigint, UntilNames, UntilWatcher, Known, Later, Wrapped, Owners
<1>11. HeapKept'
  BY <1>1, <1>2, <1>3
  DEF config, exitVars, HeapKept, Fixed, UntilOnExit, UntilSigint, UntilNames, UntilWatcher
<1>12. RoomKept'
  <2>1. watcher' # "enabled" /\ UNCHANGED before
    BY <1>1, <1>2, <1>3 DEF config, Whose, UntilOnExit, UntilSigint, UntilNames, UntilWatcher
  <2> QED
    BY <1>1, <2>1 DEF RoomKept
<1>13. Counted'
  BY <1>1, <1>2, <1>3
  DEF config, exitVars, Counted, Profiling, Running, SetupSteps, JobSteps, StopSteps, Over,
     UntilOnExit, UntilSigint
<1>14. Held'
  <2>1. /\ \/ held' = held
           \/ held' = held \union GroupHas /\ group' = "mapped"
        /\ pc' \notin {"parse", "pagemap", "samplerThread"}
        /\ UNCHANGED <<config, opts, sampling, created>>
    BY <1>2, <1>3 DEF config
  <2>2. owner["groupNames"] = "none" /\ owner'["groupNames"] # "none" =>
          group' \in {"named", "mapped"}
    BY <1>3
  <2>3. held \intersect GroupHas = {} /\ owner["groupNames"] = "none"
    BY <1>1, <1>3 DEF Held, Mastered, UntilNames
  <2>4. \A x \in {"samples", "moreSamples", "threadInfo", "file"} : owner'[x] = owner[x]
    BY <1>3 DEF Known, Later, Wrapped
  <2>5. held' \intersect GroupHas # {} => group' = "mapped"
    BY <2>1, <2>3
  <2>6. /\ held' \intersect SamplerHas = held \intersect SamplerHas
        /\ held' \intersect Timers = held \intersect Timers
        /\ "threads" \in held => "threads" \in held'
        /\ "output" \in held => "output" \in held'
    BY <2>1 DEF GroupHas, SamplerHas, Timers
  <2>7. Profiling' = Profiling /\ AlignedHeap' = AlignedHeap
    BY <2>1 DEF Profiling, AlignedHeap
  <2> QED
    BY <1>1, <2>1, <2>2, <2>3, <2>4, <2>5, <2>6, <2>7 DEF Held, config, Fixed
<1>15. Mastered'
  BY <1>1, <1>2, <1>3
  DEF config, exitVars, Mastered, Running, SetupSteps, JobSteps, UntilOnExit, UntilSigint,
     UntilNames
<1>16. Interrupted'
  BY <1>1, <1>2, <1>3
  DEF config, exitVars, Interrupted, SwitchAgrees, Profiling, Kept, SamplerHas, GroupHas,
     StopSteps, Over, ToData, ToWatcher, ToOptions, ToOutput, ToSampler, ToDeadline,
     ToPeriod, ToPmcs, Known, Later, Wrapped, Owners
<1>17. Written'
  BY <1>1, <1>2, <1>3
  DEF config, exitVars, Written, ParsedConsistent
<1> QED
  BY <1>4, <1>5, <1>6, <1>7, <1>8, <1>9, <1>10, <1>11, <1>12, <1>13, <1>14, <1>15, <1>16,
     <1>17 DEF IInv

(* deallocate_synch_resources() gives back what the group has.             *)
LEMMA DeallocateDoes ==
  ASSUME IInv, watcher = "disabled", group # "freed", Deallocate
  PROVE  /\ WatcherTypeOK' /\ UNCHANGED <<config, brk, misfreed, master>>
         /\ Known \subseteq Blocks /\ \A x \in Blocks : owner[x] \in Owners
         /\ \A x \in Blocks : owner'[x] = IF x = "groupNames" THEN "none" ELSE owner[x]
         /\ held' = held \ (IF group = "mapped" THEN GroupHas ELSE {"stdin"})
         /\ names' = IF master = "master" THEN {} ELSE names
         /\ group' = IF group = "none" THEN group ELSE "freed"
<1>1. ResType /\ MemType /\ Held /\ Whose
  BY DEF IInv
<1>2. /\ {"groupNames"} \in SUBSET Blocks /\ Known \subseteq Blocks
      /\ WatcherTypeOK /\ owner \in [Blocks -> Owners]
  BY <1>1, KnownBlocks DEF Known, Later, Wrapped, MemType, WatcherTypeOK
<1>3. /\ held' = held \ (IF group = "mapped" THEN GroupHas ELSE {"stdin"})
      /\ names' = IF master = "master" THEN {} ELSE names
      /\ UNCHANGED master
  BY DEF Deallocate, GroupHas
<1>4. CASE group = "none"
  <2>1. UNCHANGED <<group, watcherVars>> /\ owner["groupNames"] = "none"
    BY <1>1, <1>4 DEF Deallocate, Held
  <2>2. WatcherTypeOK' /\ UNCHANGED <<config, brk, misfreed, owner>>
    BY <1>2, <2>1, MemoryStays DEF watcherVars, memory
  <2> QED
    BY <1>2, <1>3, <1>4, <2>1, <2>2
<1>5. CASE group # "none"
  <2>1. group' = "freed" /\ WrapFree({"groupNames"})
    BY <1>5 DEF Deallocate
  <2>2. Wraps = "libc" /\ watcher \notin Fixed
    BY DEF Wraps, Fixed
  <2>3. /\ WatcherTypeOK' /\ UNCHANGED config /\ brk' = brk
        /\ owner' = [b \in Blocks |-> IF b \in {"groupNames"} THEN "none" ELSE owner[b]]
        /\ misfreed' = misfreed \union {b \in {"groupNames"} : owner[b] \notin {"none", Wraps}}
    BY <1>2, <2>1, <2>2, WrapFreeDoes
  <2>4. owner["groupNames"] \in {"none", "libc"}
    BY <1>1, <1>2 DEF Whose, Wrapped, Owners
  <2>5. misfreed' = misfreed
    BY <2>2, <2>3, <2>4
  <2>6. \A x \in Blocks : owner'[x] = IF x = "groupNames" THEN "none" ELSE owner[x]
    BY <2>3
  <2> QED
    BY <1>2, <1>3, <1>5, <2>1, <2>3, <2>5, <2>6
<1> QED
  BY <1>4, <1>5

(* The creator enters itself as master.                                    *)
LEMMA BecomeMasterKeeps == ASSUME IInv, BecomeMaster PROVE IInv'
<1>1. ProgType /\ ExitType /\ ResType /\ JobType /\ MemType /\ Fresh /\ Whose
      /\ HeapKept /\ RoomKept /\ Counted /\ Held /\ Mastered /\ Interrupted /\ Written
  BY DEF IInv
<1>2. UNCHANGED <<prog, opts, outcome, arg, field, pmcs, created, armed, mt, sampling, posts,
      synchDone, started, jobEnded, jobs, expiries, aborted, before>>
  BY DEF BecomeMaster, progVars, resVars, groupVars, jobVars, memVars
<1>3. /\ WatcherTypeOK' /\ UNCHANGED <<config, brk, misfreed>>
      /\ Known \subseteq Blocks
      /\ \A x \in Blocks : owner[x] \in Owners
      /\ \A x \in Blocks \ {"groupNames"} : owner'[x] = owner[x]
      /\ pc = "master"
      /\ \/ /\ pc' = "watcher" /\ UNCHANGED <<exitVars, held, group, names, owner>>
            /\ master' = IF master = "creator" THEN "master" ELSE master
         \/ /\ owner'["groupNames"] = "none" /\ UNCHANGED master
            /\ held' = held \ (IF group = "mapped" THEN GroupHas ELSE {"stdin"})
            /\ names' = IF master = "master" THEN {} ELSE names
            /\ group' \in {group, "freed"}
            /\ pc' \in {"stopThreads", "exited"} /\ exit' = "return" /\ status' = "failure"
            /\ UNCHANGED <<at, hooks>>
  <2>1. /\ pc = "master" /\ watcher = "disabled" /\ WatcherTypeOK /\ Known \subseteq Blocks
        /\ owner \in [Blocks -> Owners] /\ group # "freed"
    BY <1>1, KnownBlocks
       DEF BecomeMaster, Whose, UntilWatcher, Mastered, Running, SetupSteps, MemType, WatcherTypeOK
  <2>2. CASE /\ master' = IF master = "creator" THEN "master" ELSE master
             /\ Goto("watcher")
             /\ UNCHANGED <<held, group, names, watcherVars>>
    <3>1. WatcherTypeOK' /\ UNCHANGED <<config, brk, misfreed, owner>>
      BY <2>1, <2>2, MemoryStays DEF watcherVars, memory
    <3> QED
      BY <2>1, <2>2, <3>1 DEF Goto
  <2>3. CASE Deallocate /\ ReturnWith(-1)
    <3>1. /\ pc' \in {"stopThreads", "exited"} /\ exit' = "return" /\ status' = "failure"
          /\ UNCHANGED <<at, hooks>>
      BY <2>3 DEF ReturnWith, FirstStop
    <3> QED
      BY <2>1, <2>3, <3>1, DeallocateDoes, KnownBlocks DEF Known
  <2> QED
    BY <2>2, <2>3 DEF BecomeMaster
<1>4. ProgType'
  BY <1>1, <1>2, <1>3
  DEF config, exitVars, ProgType
<1>5. ExitType'
  BY <1>1, <1>2, <1>3
  DEF config, exitVars, ExitType, SetupSteps, JobSteps, StopSteps, Over
<1>6. ResType'
  BY <1>1, <1>2, <1>3
  DEF config, exitVars, ResType, Resources
<1>7. JobType'
  BY <1>1, <1>2, <1>3
  DEF config, exitVars, JobType
<1>8. MemType'
  BY <1>1, <1>2, <1>3
  DEF config, exitVars, MemType, Known, Later, Wrapped
<1>9. Fresh'
  BY <1>1, <1>2, <1>3
  DEF config, exitVars, Fresh, Wrapped, Later, Known, Running, SetupSteps, JobSteps,
     UntilOnExit, UntilSigint, UntilNames, UntilWatcher, UntilData, UntilHeader,
     UntilThread, UntilOutput, UntilFopen, Owners
<1>10. Whose'
  BY <1>1, <1>2, <1>3
  DEF config, exitVars, Wraps, Whose, AfterWatcher, FreedByItsAllocator, Fixed, Over,
     UntilOnExit, UntilSigint, UntilNames, UntilWatcher, Known, Later, Wrapped, Owners
<1>11. HeapKept'
  BY <1>1, <1>2, <1>3
  DEF config, exitVars, HeapKept, Fixed, UntilOnExit, UntilSigint, UntilNames, UntilWatcher
<1>12. RoomKept'
  <2>1. watcher' # "enabled" /\ UNCHANGED before
    BY <1>1, <1>2, <1>3 DEF config, Whose, UntilWatcher
  <2> QED
    BY <1>1, <2>1 DEF RoomKept
<1>13. Counted'
  BY <1>1, <1>2, <1>3
  DEF config, exitVars, Counted, Profiling, Running, SetupSteps, JobSteps, StopSteps, Over,
     UntilOnExit, UntilSigint
<1>14. Held'
  BY <1>1, <1>2, <1>3
  DEF config, exitVars, Held, AlignedHeap, Profiling, SamplerHas, GroupHas, Timers, Known,
     Later, Wrapped, Owners
<1>15. Mastered'
  BY <1>1, <1>2, <1>3
  DEF config, exitVars, Mastered, Running, SetupSteps, JobSteps, UntilOnExit, UntilSigint,
     UntilNames
<1>16. Interrupted'
  BY <1>1, <1>2, <1>3
  DEF config, exitVars, Interrupted, SwitchAgrees, Profiling, Kept, SamplerHas, GroupHas,
     StopSteps, Over, ToData, ToWatcher, ToOptions, ToOutput, ToSampler, ToDeadline,
     ToPeriod, ToPmcs, Known, Later, Wrapped, Owners
<1>17. Written'
  BY <1>1, <1>2, <1>3
  DEF config, exitVars, Written, ParsedConsistent
<1> QED
  BY <1>4, <1>5, <1>6, <1>7, <1>8, <1>9, <1>10, <1>11, <1>12, <1>13, <1>14, <1>15, <1>16,
     <1>17 DEF IInv
-----------------------------------------------------------------------------
(* The memory watcher and the benchmark's own setup                        *)

(* The watcher starts, or fails to.                                        *)
LEMMA StartWatcherKeeps == ASSUME IInv, StartWatcher PROVE IInv'
<1>1. ProgType /\ ExitType /\ ResType /\ JobType /\ MemType /\ Fresh /\ Whose
      /\ HeapKept /\ RoomKept /\ Counted /\ Held /\ Mastered /\ Interrupted /\ Written
  BY DEF IInv
<1>2. UNCHANGED <<prog, opts, outcome, arg, field, held, pmcs, created, armed, group, master,
      names, mt, sampling, posts, synchDone, started, jobEnded, jobs, expiries, aborted>>
  BY DEF StartWatcher, progVars, resVars, groupVars, jobVars, memVars
<1>3. /\ WatcherTypeOK' /\ UNCHANGED <<owner, misfreed>> /\ pc = "watcher"
      /\ before' \subseteq Blocks
      /\ \/ /\ UNCHANGED <<watcherVars, before>>
            /\ \/ pc' = "data" /\ UNCHANGED exitVars
               \/ /\ pc' \in {"stopThreads", "exited"} /\ exit' = "call" /\ status' = "failure"
                  /\ UNCHANGED <<at, hooks>>
         \/ /\ pc' = "pagemap" /\ UNCHANGED exitVars /\ watcher' # "disabled" /\ brk' = 0
            /\ before' = Allocated
            /\ watcher' \notin Fixed => mapped' = mapped /\ room' >= heap_size'
            /\ watcher' \in Fixed =>
                 /\ mapped' = RoundUp(heap_size', PageSize)
                 /\ shift' = (opts.heap_address % PageSize) * CellSize
  <2>1. /\ WatcherTypeOK /\ pc = "watcher" /\ brk = 0
        /\ opts.heap_size \in Nat /\ opts.heap_address \in Nat /\ before \subseteq Blocks
    BY <1>1, LineNumbers
       DEF StartWatcher, MemType, HeapKept, UntilWatcher, ProgType, ExecutionOptions
  <2>2. CASE UNCHANGED <<watcherVars, before>> /\ (Goto("data") \/ CallExit)
    BY <2>1, <2>2, MemoryStays DEF Goto, CallExit, FirstStop, watcherVars, memory
  <2>3. ASSUME NEW kind \in Fixed, Goto("pagemap"), before' = {b \in Blocks : owner[b] # "none"},
               \/ StartEnabled(opts.heap_size)
               \/ StartFixed(opts.heap_size, opts.heap_address, kind)
        PROVE  /\ WatcherTypeOK' /\ UNCHANGED <<owner, misfreed>> /\ before' \subseteq Blocks
               /\ pc' = "pagemap" /\ UNCHANGED exitVars /\ watcher' # "disabled" /\ brk' = 0
               /\ before' = Allocated
               /\ watcher' \notin Fixed => mapped' = mapped /\ room' >= heap_size'
               /\ watcher' \in Fixed =>
                    /\ mapped' = RoundUp(heap_size', PageSize)
                    /\ shift' = (opts.heap_address % PageSize) * CellSize
    <3>1. /\ WatcherTypeOK' /\ UNCHANGED <<owner, misfreed>> /\ watcher' # "disabled"
          /\ heap_size' = opts.heap_size
      BY <2>1, <2>3, StartDoes
    <3>2. CASE StartEnabled(opts.heap_size)
      BY <2>1, <2>3, <3>1, <3>2 DEF StartEnabled, Goto, Allocated, Fixed
    <3>3. CASE StartFixed(opts.heap_size, opts.heap_address, kind)
      BY <2>1, <2>3, <3>1, <3>3 DEF StartFixed, Goto, Allocated
    <3> QED
      BY <2>3, <3>2, <3>3
  <2>4. \/ UNCHANGED <<watcherVars, before>> /\ (Goto("data") \/ CallExit)
        \/ /\ Goto("pagemap") /\ before' = {b \in Blocks : owner[b] # "none"}
           /\ \/ StartEnabled(opts.heap_size)
              \/ StartFixed(opts.heap_size, opts.heap_address, "fixed")
              \/ StartFixed(opts.heap_size, opts.heap_address, "file")
    BY DEF StartWatcher, StartFails
  <2>5. "fixed" \in Fixed /\ "file" \in Fixed
    BY DEF Fixed
  <2> QED
    BY <2>1, <2>2, <2>3, <2>4, <2>5
<1>4. ProgType'
  BY <1>1, <1>2, <1>3
  DEF watcherVars, config, memory, exitVars, ProgType
<1>5. ExitType'
  BY <1>1, <1>2, <1>3
  DEF watcherVars, config, memory, exitVars, ExitType, SetupSteps, JobSteps, StopSteps, Over
<1>6. ResType'
  BY <1>1, <1>2, <1>3
  DEF watcherVars, config, memory, exitVars, ResType, Resources
<1>7. JobType'
  BY <1>1, <1>2, <1>3
  DEF watcherVars, config, memory, exitVars, JobType
<1>8. MemType'
  BY <1>1, <1>2, <1>3
  DEF watcherVars, config, memory, exitVars, MemType, Known, Later, Wrapped
<1>9. Fresh'
  BY <1>1, <1>2, <1>3
  DEF watcherVars, config, memory, exitVars, Fresh, Wrapped, Later, Known, Running, SetupSteps,
      JobSteps,
     UntilOnExit, UntilSigint, UntilNames, UntilWatcher, UntilData, UntilHeader,
     UntilThread, UntilOutput, UntilFopen, Owners
<1>10. Whose'
  <2>1. /\ \A b \in Wrapped : owner[b] = "none"
        /\ watcher = "disabled" /\ pc = "watcher"
    BY <1>1, <1>3 DEF Fresh, Whose, Later, UntilWatcher
  <2>2. \/ UNCHANGED watcher /\ pc' \in {"data", "stopThreads", "exited"}
        \/ pc' = "pagemap"
    BY <1>3 DEF watcherVars, config
  <2>3. UNCHANGED <<owner, misfreed>>
    BY <1>3
  <2> QED
    BY <1>1, <2>1, <2>2, <2>3
      DEF Wraps, Whose, AfterWatcher, FreedByItsAllocator, Fixed, Over, UntilOnExit,
          UntilSigint, UntilNames, UntilWatcher, Known, Later, Wrapped, Owners
<1>11. HeapKept'
  <2>1. heap_size' \in Nat /\ CellSize \in Nat /\ PageSize \in Nat
    BY <1>3, NumbersHold DEF WatcherTypeOK, Numbers
  <2>2. heap_size' * CellSize \in Nat
    <3>1. \A n, k \in Nat : n * k \in Nat
      OBVIOUS
    <3> QED
      BY <2>1, <3>1
  <2>3. CASE UNCHANGED watcherVars
    BY <1>1, <1>2, <1>3, <2>3
       DEF HeapKept, watcherVars, config, memory, UntilWatcher, UntilNames, UntilSigint,
           UntilOnExit
  <2>4. CASE /\ pc' = "pagemap" /\ brk' = 0
             /\ watcher' \in Fixed =>
                  /\ mapped' = RoundUp(heap_size', PageSize)
                  /\ shift' = (opts.heap_address % PageSize) * CellSize
    BY <1>2, <2>2, <2>4
       DEF HeapKept, UntilWatcher, UntilNames, UntilSigint, UntilOnExit
  <2> QED
    BY <1>3, <2>3, <2>4
<1>12. RoomKept'
  <2>1. CASE UNCHANGED <<watcherVars, before>>
    BY <1>1, <2>1 DEF RoomKept, Taken, Allocated, watcherVars, config, memory
  <2>2. CASE before' = Allocated /\ (watcher' \notin Fixed => room' >= heap_size')
    <3>1. before' \intersect Later = {}
      BY <1>1, <1>3, <2>2 DEF Fresh, UntilWatcher, Allocated
    <3>2. Taken' \in SUBSET Blocks /\ room' \in Nat /\ heap_size' \in Nat
      BY <1>3 DEF Taken, Allocated, WatcherTypeOK
    <3>3. Bytes[Taken'] \in Nat
      BY <3>2, BytesOf
    <3>4. watcher' = "enabled" => heap_size' <= room' + Bytes[Taken']
      BY <2>2, <3>2, <3>3 DEF Fixed
    <3> QED
      BY <3>1, <3>4 DEF RoomKept
  <2> QED
    BY <1>3, <2>1, <2>2
<1>13. Counted'
  BY <1>1, <1>2, <1>3
  DEF watcherVars, config, memory, exitVars, Counted, Profiling, Running, SetupSteps, JobSteps,
      StopSteps, Over,
     UntilOnExit, UntilSigint
<1>14. Held'
  <2>1. mapped = 0 /\ fds = {} /\ watcher = "disabled" /\ pc = "watcher"
    BY <1>1, <1>3 DEF HeapKept, Held, Whose, UntilWatcher
  <2>2. \/ UNCHANGED <<watcher, fds, mapped>> /\ pc' \in {"data", "stopThreads", "exited"}
        \/ pc' = "pagemap" /\ watcher' # "disabled" /\ (watcher' \notin Fixed => mapped' = mapped)
    BY <1>3 DEF watcherVars, config
  <2>3. UNCHANGED owner
    BY <1>3
  <2> QED
    BY <1>1, <1>2, <2>1, <2>2, <2>3 DEF Held, AlignedHeap, Profiling, SamplerHas, GroupHas, Timers
<1>15. Mastered'
  BY <1>1, <1>2, <1>3
  DEF watcherVars, config, memory, exitVars, Mastered, Running, SetupSteps, JobSteps,
      UntilOnExit, UntilSigint,
     UntilNames
<1>16. Interrupted'
  BY <1>1, <1>2, <1>3
  DEF watcherVars, config, memory, exitVars, Interrupted, SwitchAgrees, Profiling, Kept,
      SamplerHas, GroupHas,
     StopSteps, Over, ToData, ToWatcher, ToOptions, ToOutput, ToSampler, ToDeadline,
     ToPeriod, ToPmcs, Known, Later, Wrapped, Owners
<1>17. Written'
  BY <1>1, <1>2, <1>3
  DEF watcherVars, config, memory, exitVars, Written, ParsedConsistent
<1> QED
  BY <1>4, <1>5, <1>6, <1>7, <1>8, <1>9, <1>10, <1>11, <1>12, <1>13, <1>14, <1>15, <1>16,
     <1>17 DEF IInv

(* The watcher's second file.                                              *)
LEMMA OpenPagemapKeeps == ASSUME IInv, OpenPagemap PROVE IInv'
<1>1. ProgType /\ ExitType /\ ResType /\ JobType /\ MemType /\ Fresh /\ Whose
      /\ HeapKept /\ RoomKept /\ Counted /\ Held /\ Mastered /\ Interrupted /\ Written
  BY DEF IInv
<1>2. UNCHANGED <<prog, opts, outcome, arg, field, held, pmcs, created, armed, group, master,
      names, mt, sampling, posts, synchDone, started, jobEnded, jobs, expiries, aborted,
      before>>
  BY DEF OpenPagemap, progVars, resVars, groupVars, jobVars, memVars
<1>3. /\ WatcherTypeOK' /\ UNCHANGED <<watcher, heap_size, mapped, shift, memory>>
      /\ pc = "pagemap"
      /\ \/ pc' = "data" /\ UNCHANGED exitVars
         \/ /\ pc' \in {"stopThreads", "exited"} /\ exit' = "call" /\ status' = "failure"
            /\ UNCHANGED <<at, hooks>>
  <2>1. /\ pc = "pagemap" /\ UNCHANGED <<watcher, heap_size, mapped, shift, memory>>
        /\ fds' = fds \/ fds' = fds \union {"pagemap"}
        /\ Goto("data") \/ CallExit
    BY Zenon DEF OpenPagemap
  <2>2. WatcherTypeOK'
    BY <1>1, <2>1 DEF MemType, WatcherTypeOK, memory
  <2> QED
    BY <2>1, <2>2 DEF Goto, CallExit, FirstStop
<1>4. ProgType'
  BY <1>1, <1>2, <1>3
  DEF memory, exitVars, ProgType
<1>5. ExitType'
  BY <1>1, <1>2, <1>3
  DEF memory, exitVars, ExitType, SetupSteps, JobSteps, StopSteps, Over
<1>6. ResType'
  BY <1>1, <1>2, <1>3
  DEF memory, exitVars, ResType, Resources
<1>7. JobType'
  BY <1>1, <1>2, <1>3
  DEF memory, exitVars, JobType
<1>8. MemType'
  BY <1>1, <1>2, <1>3
  DEF memory, exitVars, MemType, Known, Later, Wrapped
<1>9. Fresh'
  BY <1>1, <1>2, <1>3
  DEF memory, exitVars, Fresh, Wrapped, Later, Known, Running, SetupSteps, JobSteps,
     UntilOnExit, UntilSigint, UntilNames, UntilWatcher, UntilData, UntilHeader,
     UntilThread, UntilOutput, UntilFopen, Owners
<1>10. Whose'
  BY <1>1, <1>2, <1>3
  DEF memory, exitVars, Wraps, Whose, AfterWatcher, FreedByItsAllocator, Fixed, Over,
     UntilOnExit, UntilSigint, UntilNames, UntilWatcher, Known, Later, Wrapped, Owners
<1>11. HeapKept'
  BY <1>1, <1>2, <1>3
  DEF memory, exitVars, HeapKept, Fixed, UntilOnExit, UntilSigint, UntilNames, UntilWatcher
<1>12. RoomKept'
  BY <1>1, <1>2, <1>3 DEF RoomKept, Taken, Allocated, memory
<1>13. Counted'
  BY <1>1, <1>2, <1>3
  DEF memory, exitVars, Counted, Profiling, Running, SetupSteps, JobSteps, StopSteps, Over,
     UntilOnExit, UntilSigint
<1>14. Held'
  BY <1>1, <1>2, <1>3
  DEF memory, exitVars, Held, AlignedHeap, Profiling, SamplerHas, GroupHas, Timers, Known,
     Later, Wrapped, Owners
<1>15. Mastered'
  BY <1>1, <1>2, <1>3
  DEF memory, exitVars, Mastered, Running, SetupSteps, JobSteps, UntilOnExit, UntilSigint,
     UntilNames
<1>16. Interrupted'
  BY <1>1, <1>2, <1>3
  DEF memory, exitVars, Interrupted, SwitchAgrees, Profiling, Kept, SamplerHas, GroupHas,
     StopSteps, Over, ToData, ToWatcher, ToOptions, ToOutput, ToSampler, ToDeadline,
     ToPeriod, ToPmcs, Known, Later, Wrapped, Owners
<1>17. Written'
  BY <1>1, <1>2, <1>3
  DEF memory, exitVars, Written, ParsedConsistent
<1> QED
  BY <1>4, <1>5, <1>6, <1>7, <1>8, <1>9, <1>10, <1>11, <1>12, <1>13, <1>14, <1>15, <1>16,
     <1>17 DEF IInv

(* The benchmark's data.                                                   *)
LEMMA InitDataKeeps == ASSUME IInv, InitData PROVE IInv'
<1>1. ProgType /\ ExitType /\ ResType /\ JobType /\ MemType /\ Fresh /\ Whose
      /\ HeapKept /\ RoomKept /\ Counted /\ Held /\ Mastered /\ Interrupted /\ Written
  BY DEF IInv
<1>2. UNCHANGED <<prog, opts, outcome, arg, field, held, pmcs, created, armed, group, master,
      names, mt, sampling, posts, synchDone, started, jobEnded, jobs, expiries, before>>
  BY DEF InitData, progVars, resVars, groupVars, jobVars, memVars
<1>3. /\ WatcherTypeOK' /\ UNCHANGED <<config, misfreed>>
      /\ owner'["data"] \in {owner["data"], Wraps}
      /\ \A x \in Blocks \ {"data"} : owner'[x] = owner[x]
      /\ watcher \notin Fixed => brk' = brk
      /\ brk' = brk \/ brk' <= heap_size * CellSize
      /\ aborted' \in {aborted, "data"} /\ Known \subseteq Blocks
      /\ \A x \in Blocks : owner[x] \in Owners
  <2>1. WrapMallocOk("data", FALSE) \/ WrapMallocAborts("data", FALSE) \/ UNCHANGED watcherVars
    BY Zenon DEF InitData, Allocate, WrapMallocNull, WrapMmapAborts
  <2>2. aborted' \in {aborted, "data"}
    BY Zenon DEF InitData, Allocate
  <2>3. "data" \in Blocks /\ Known \subseteq Blocks /\ owner \in [Blocks -> Owners]
        /\ WatcherTypeOK
    BY <1>1, KnownBlocks DEF Known, Later, Wrapped, MemType, WatcherTypeOK
  <2>4. CASE WrapMallocOk("data", FALSE)
    BY <2>2, <2>3, <2>4, WrapMallocDoes
  <2>5. CASE WrapMallocAborts("data", FALSE)
    BY <2>2, <2>3, <2>5, WrapMallocAbortsDoes
  <2>6. CASE UNCHANGED watcherVars
    BY <2>2, <2>3, <2>6, MemoryStays DEF watcherVars, memory
  <2> QED
    BY <2>1, <2>4, <2>5, <2>6
<1>4. /\ pc = "data"
      /\ \/ pc' \in {"header", "publish"} /\ UNCHANGED exitVars
         \/ pc' \in {"stopThreads", "exited"} /\ exit' \in {"return", "call"}
              /\ status' = "failure" /\ UNCHANGED <<at, hooks>>
  <2>1. \/ Goto(IF Threads THEN "header" ELSE "publish") \/ ReturnWith(-1) \/ CallExit
    BY Zenon DEF InitData, Allocate
  <2>2. pc = "data"
    BY DEF InitData
  <2> QED
    BY <2>1, <2>2 DEF Goto, ReturnWith, CallExit, FirstStop
<1>5. ProgType'
  BY <1>1, <1>2, <1>3, <1>4
  DEF config, exitVars, ProgType
<1>6. ExitType'
  BY <1>1, <1>2, <1>3, <1>4
  DEF config, exitVars, ExitType, SetupSteps, JobSteps, StopSteps, Over
<1>7. ResType'
  BY <1>1, <1>2, <1>3, <1>4
  DEF config, exitVars, ResType, Resources
<1>8. JobType'
  BY <1>1, <1>2, <1>3, <1>4
  DEF config, exitVars, JobType
<1>9. MemType'
  BY <1>1, <1>2, <1>3, <1>4
  DEF config, exitVars, MemType, Known, Later, Wrapped
<1>10. Fresh'
  BY <1>1, <1>2, <1>3, <1>4
  DEF config, exitVars, Fresh, Wrapped, Later, Known, Running, SetupSteps, JobSteps,
     UntilOnExit, UntilSigint, UntilNames, UntilWatcher, UntilData, UntilHeader,
     UntilThread, UntilOutput, UntilFopen, Owners
<1>11. Whose'
  BY <1>1, <1>2, <1>3, <1>4
  DEF config, exitVars, Wraps, Whose, AfterWatcher, FreedByItsAllocator, Fixed, Over,
     UntilOnExit, UntilSigint, UntilNames, UntilWatcher, Known, Later, Wrapped, Owners
<1>12. HeapKept'
  BY <1>1, <1>2, <1>3, <1>4
  DEF config, exitVars, HeapKept, Fixed, UntilOnExit, UntilSigint, UntilNames, UntilWatcher
<1>13. RoomKept'
  <2>1. "data" \in Blocks /\ "data" \in Later /\ owner["data"] = "none"
    BY <1>1, KnownBlocks
      DEF InitData, Fresh, Wrapped, Later, Known, Running, SetupSteps, JobSteps, UntilOnExit,
          UntilSigint, UntilNames, UntilWatcher, UntilData, UntilHeader, UntilThread,
          UntilOutput, UntilFopen, Owners
  <2>2. UNCHANGED before
    BY DEF InitData
  <2>3. WrapMallocOk("data", FALSE) \/ WrapMallocAborts("data", FALSE) \/ UNCHANGED watcherVars
    BY Zenon DEF InitData, Allocate, WrapMallocNull, WrapMmapAborts
  <2>4. UNCHANGED watcherVars => RoomKept'
    BY <1>1, <2>2 DEF RoomKept, Taken, Allocated, watcherVars, config, memory
  <2> QED
    BY <1>1, <2>1, <2>2, <2>3, <2>4, RoomAfterWrapMalloc, RoomAfterAbort
<1>14. Counted'
  BY <1>1, <1>2, <1>3, <1>4
  DEF config, exitVars, Counted, Profiling, Running, SetupSteps, JobSteps, StopSteps, Over,
     UntilOnExit, UntilSigint
<1>15. Held'
  BY <1>1, <1>2, <1>3, <1>4
  DEF config, exitVars, Held, AlignedHeap, Profiling, SamplerHas, GroupHas, Timers, Known,
     Later, Wrapped, Owners
<1>16. Mastered'
  BY <1>1, <1>2, <1>3, <1>4
  DEF config, exitVars, Mastered, Running, SetupSteps, JobSteps, UntilOnExit, UntilSigint,
     UntilNames
<1>17. Interrupted'
  BY <1>1, <1>2, <1>3, <1>4
  DEF config, exitVars, Interrupted, SwitchAgrees, Profiling, Kept, SamplerHas, GroupHas,
     StopSteps, Over, ToData, ToWatcher, ToOptions, ToOutput, ToSampler, ToDeadline,
     ToPeriod, ToPmcs, Known, Later, Wrapped, Owners
<1>18. Written'
  BY <1>1, <1>2, <1>3, <1>4
  DEF config, exitVars, Written, ParsedConsistent
<1> QED
  BY <1>5, <1>6, <1>7, <1>8, <1>9, <1>10, <1>11, <1>12, <1>13, <1>14, <1>15, <1>16, <1>17,
     <1>18 DEF IInv

(* The header, from libc.                                                  *)
LEMMA InitHeaderKeeps == ASSUME IInv, InitHeader PROVE IInv'
<1>1. ProgType /\ ExitType /\ ResType /\ JobType /\ MemType /\ Fresh /\ Whose
      /\ HeapKept /\ RoomKept /\ Counted /\ Held /\ Mastered /\ Interrupted /\ Written
  BY DEF IInv
<1>2. UNCHANGED <<prog, opts, outcome, arg, field, held, pmcs, created, armed, group, master,
      names, mt, sampling, posts, synchDone, started, jobEnded, jobs, expiries, aborted,
      before>>
  BY DEF InitHeader, progVars, resVars, groupVars, jobVars, memVars
<1>3. /\ WatcherTypeOK' /\ UNCHANGED <<config, brk, misfreed>>
      /\ owner'["header"] \in {owner["header"], "libc"}
      /\ \A x \in Blocks \ {"header"} : owner'[x] = owner[x]
      /\ Known \subseteq Blocks
      /\ \A x \in Blocks : owner[x] \in Owners
  <2>1. RealMalloc("header") \/ UNCHANGED watcherVars
    BY DEF InitHeader
  <2>2. "header" \in Blocks /\ Known \subseteq Blocks /\ owner \in [Blocks -> Owners]
        /\ WatcherTypeOK
    BY <1>1, KnownBlocks DEF Known, Later, Wrapped, MemType, WatcherTypeOK
  <2>3. CASE RealMalloc("header")
    BY <2>2, <2>3, RealMallocDoes
  <2>4. CASE UNCHANGED watcherVars
    BY <2>2, <2>4, MemoryStays DEF watcherVars, memory
  <2> QED
    BY <2>1, <2>3, <2>4
<1>4. pc = "header" /\ pc' \in {"thread"} /\ UNCHANGED exitVars
  BY DEF InitHeader, Goto, ReturnWith, FirstStop, CallExit, Crash
<1>5. ProgType'
  BY <1>1, <1>2, <1>3, <1>4
  DEF config, exitVars, ProgType
<1>6. ExitType'
  BY <1>1, <1>2, <1>3, <1>4
  DEF config, exitVars, ExitType, SetupSteps, JobSteps, StopSteps, Over
<1>7. ResType'
  BY <1>1, <1>2, <1>3, <1>4
  DEF config, exitVars, ResType, Resources
<1>8. JobType'
  BY <1>1, <1>2, <1>3, <1>4
  DEF config, exitVars, JobType
<1>9. MemType'
  BY <1>1, <1>2, <1>3, <1>4
  DEF config, exitVars, MemType, Known, Later, Wrapped
<1>10. Fresh'
  BY <1>1, <1>2, <1>3, <1>4
  DEF config, exitVars, Fresh, Wrapped, Later, Known, Running, SetupSteps, JobSteps,
     UntilOnExit, UntilSigint, UntilNames, UntilWatcher, UntilData, UntilHeader,
     UntilThread, UntilOutput, UntilFopen, Owners
<1>11. Whose'
  BY <1>1, <1>2, <1>3, <1>4
  DEF config, exitVars, Wraps, Whose, AfterWatcher, FreedByItsAllocator, Fixed, Over,
     UntilOnExit, UntilSigint, UntilNames, UntilWatcher, Known, Later, Wrapped, Owners
<1>12. HeapKept'
  BY <1>1, <1>2, <1>3, <1>4
  DEF config, exitVars, HeapKept, Fixed, UntilOnExit, UntilSigint, UntilNames, UntilWatcher
<1>13. RoomKept'
  <2>1. "header" \in Blocks /\ "header" \in Later
    BY KnownBlocks DEF Known, Later, Wrapped
  <2>2. UNCHANGED before /\ owner["header"] = "none"
    BY <1>1 DEF InitHeader, Fresh, Wrapped, Later, Known, Running, SetupSteps, JobSteps,
         UntilOnExit, UntilSigint, UntilNames, UntilWatcher, UntilData, UntilHeader,
         UntilThread, UntilOutput, UntilFopen, Owners
  <2>3. RealMalloc("header") \/ UNCHANGED watcherVars
    BY DEF InitHeader
  <2>4. UNCHANGED watcherVars => RoomKept'
    BY <1>1, <2>2 DEF RoomKept, Taken, Allocated, watcherVars, config, memory
  <2> QED
    BY <1>1, <2>1, <2>2, <2>3, <2>4, RoomAfterMalloc DEF MemType
<1>14. Counted'
  BY <1>1, <1>2, <1>3, <1>4
  DEF config, exitVars, Counted, Profiling, Running, SetupSteps, JobSteps, StopSteps, Over,
     UntilOnExit, UntilSigint
<1>15. Held'
  BY <1>1, <1>2, <1>3, <1>4
  DEF config, exitVars, Held, AlignedHeap, Profiling, SamplerHas, GroupHas, Timers, Known,
     Later, Wrapped, Owners
<1>16. Mastered'
  BY <1>1, <1>2, <1>3, <1>4
  DEF config, exitVars, Mastered, Running, SetupSteps, JobSteps, UntilOnExit, UntilSigint,
     UntilNames
<1>17. Interrupted'
  BY <1>1, <1>2, <1>3, <1>4
  DEF config, exitVars, Interrupted, SwitchAgrees, Profiling, Kept, SamplerHas, GroupHas,
     StopSteps, Over, ToData, ToWatcher, ToOptions, ToOutput, ToSampler, ToDeadline,
     ToPeriod, ToPmcs, Known, Later, Wrapped, Owners
<1>18. Written'
  BY <1>1, <1>2, <1>3, <1>4
  DEF config, exitVars, Written, ParsedConsistent
<1> QED
  BY <1>5, <1>6, <1>7, <1>8, <1>9, <1>10, <1>11, <1>12, <1>13, <1>14, <1>15, <1>16, <1>17,
     <1>18 DEF IInv

(* The threads' records, and the threads.                                  *)
LEMMA InitThreadKeeps == ASSUME IInv, InitThread PROVE IInv'
<1>1. ProgType /\ ExitType /\ ResType /\ JobType /\ MemType /\ Fresh /\ Whose
      /\ HeapKept /\ RoomKept /\ Counted /\ Held /\ Mastered /\ Interrupted /\ Written
  BY DEF IInv
<1>2. UNCHANGED <<prog, opts, outcome, arg, field, pmcs, created, armed, group, master, names,
      sampling, posts, synchDone, started, jobEnded, jobs, expiries, before>>
  BY DEF InitThread, progVars, resVars, groupVars, jobVars, memVars
<1>3. /\ WatcherTypeOK' /\ UNCHANGED <<config, misfreed>>
      /\ owner'["threadInfo"] \in {owner["threadInfo"], Wraps}
      /\ \A x \in Blocks \ {"threadInfo"} : owner'[x] = owner[x]
      /\ watcher \notin Fixed => brk' = brk
      /\ brk' = brk \/ brk' <= heap_size * CellSize
      /\ aborted' \in {aborted, "threadInfo"} /\ Known \subseteq Blocks
      /\ \A x \in Blocks : owner[x] \in Owners
  <2>1. WrapMallocOk("threadInfo", FALSE) \/ WrapMallocAborts("threadInfo", FALSE)
        \/ UNCHANGED watcherVars
    BY Zenon DEF InitThread, Allocate, WrapMallocNull
  <2>2. aborted' \in {aborted, "threadInfo"}
    BY Zenon DEF InitThread, Allocate
  <2>3. "threadInfo" \in Blocks /\ Known \subseteq Blocks /\ owner \in [Blocks -> Owners]
        /\ WatcherTypeOK
    BY <1>1, KnownBlocks DEF Known, Later, Wrapped, MemType, WatcherTypeOK
  <2>4. CASE WrapMallocOk("threadInfo", FALSE)
    BY <2>2, <2>3, <2>4, WrapMallocDoes
  <2>5. CASE WrapMallocAborts("threadInfo", FALSE)
    BY <2>2, <2>3, <2>5, WrapMallocAbortsDoes
  <2>6. CASE UNCHANGED watcherVars
    BY <2>2, <2>3, <2>6, MemoryStays DEF watcherVars, memory
  <2> QED
    BY <2>1, <2>4, <2>5, <2>6
<1>4. /\ pc = "thread"
      /\ \/ pc' = "publish" /\ UNCHANGED exitVars /\ held' = held \union {"threads"}
         \/ pc' \in {"stopThreads", "exited"} /\ exit' \in {"return", "call"}
              /\ status' = "failure" /\ UNCHANGED <<at, hooks>>
              /\ held' = held /\ owner'["threadInfo"] = owner["threadInfo"]
  <2>1. \/ WrapMallocOk("threadInfo", FALSE) /\ Goto("publish")
        \/ WrapMallocNull("threadInfo", FALSE) /\ ReturnWith(-1)
        \/ WrapMallocAborts("threadInfo", FALSE) /\ CallExit
    BY Zenon DEF InitThread, Allocate
  <2>2. /\ pc = "thread"
        /\ held' = IF pc' = "publish" THEN held \union {"threads"} ELSE held
    BY DEF InitThread
  <2>3. CASE WrapMallocOk("threadInfo", FALSE) /\ Goto("publish")
    BY <2>2, <2>3 DEF Goto
  <2>4. CASE WrapMallocNull("threadInfo", FALSE) /\ ReturnWith(-1)
    <3>1. owner' = owner
      BY <2>4 DEF WrapMallocNull, watcherVars, memory
    <3> QED
      BY <2>2, <2>4, <3>1 DEF ReturnWith, FirstStop
  <2>5. CASE WrapMallocAborts("threadInfo", FALSE) /\ CallExit
    <3>1. owner' = owner
      BY <2>5 DEF WrapMallocAborts
    <3> QED
      BY <2>2, <2>5, <3>1 DEF CallExit, FirstStop
  <2> QED
    BY <2>1, <2>3, <2>4, <2>5
<1>5. mt' \in {"err", "initializing"}
  BY DEF InitThread
<1>6. ProgType'
  BY <1>1, <1>2, <1>3, <1>4, <1>5
  DEF config, exitVars, ProgType
<1>7. ExitType'
  BY <1>1, <1>2, <1>3, <1>4, <1>5
  DEF config, exitVars, ExitType, SetupSteps, JobSteps, StopSteps, Over
<1>8. ResType'
  BY <1>1, <1>2, <1>3, <1>4, <1>5
  DEF config, exitVars, ResType, Resources
<1>9. JobType'
  BY <1>1, <1>2, <1>3, <1>4, <1>5
  DEF config, exitVars, JobType
<1>10. MemType'
  BY <1>1, <1>2, <1>3, <1>4, <1>5
  DEF config, exitVars, MemType, Known, Later, Wrapped
<1>11. Fresh'
  BY <1>1, <1>2, <1>3, <1>4, <1>5
  DEF config, exitVars, Fresh, Wrapped, Later, Known, Running, SetupSteps, JobSteps,
     UntilOnExit, UntilSigint, UntilNames, UntilWatcher, UntilData, UntilHeader,
     UntilThread, UntilOutput, UntilFopen, Owners
<1>12. Whose'
  BY <1>1, <1>2, <1>3, <1>4, <1>5
  DEF config, exitVars, Wraps, Whose, AfterWatcher, FreedByItsAllocator, Fixed, Over,
     UntilOnExit, UntilSigint, UntilNames, UntilWatcher, Known, Later, Wrapped, Owners
<1>13. HeapKept'
  BY <1>1, <1>2, <1>3, <1>4, <1>5
  DEF config, exitVars, HeapKept, Fixed, UntilOnExit, UntilSigint, UntilNames, UntilWatcher
<1>14. RoomKept'
  <2>1. "threadInfo" \in Blocks /\ "threadInfo" \in Later /\ owner["threadInfo"] = "none"
    BY <1>1, KnownBlocks
      DEF InitThread, Fresh, Wrapped, Later, Known, Running, SetupSteps, JobSteps, UntilOnExit,
          UntilSigint, UntilNames, UntilWatcher, UntilData, UntilHeader, UntilThread,
          UntilOutput, UntilFopen, Owners
  <2>2. UNCHANGED before
    BY DEF InitThread
  <2>3. WrapMallocOk("threadInfo", FALSE) \/ WrapMallocAborts("threadInfo", FALSE)
        \/ UNCHANGED watcherVars
    BY Zenon DEF InitThread, Allocate, WrapMallocNull
  <2>4. UNCHANGED watcherVars => RoomKept'
    BY <1>1, <2>2 DEF RoomKept, Taken, Allocated, watcherVars, config, memory
  <2> QED
    BY <1>1, <2>1, <2>2, <2>3, <2>4, RoomAfterWrapMalloc, RoomAfterAbort
<1>15. Counted'
  BY <1>1, <1>2, <1>3, <1>4, <1>5
  DEF config, exitVars, Counted, Profiling, Running, SetupSteps, JobSteps, StopSteps, Over,
     UntilOnExit, UntilSigint
<1>16. Held'
  BY <1>1, <1>2, <1>3, <1>4, <1>5
  DEF config, exitVars, Held, AlignedHeap, Profiling, SamplerHas, GroupHas, Timers, Known,
     Later, Wrapped, Owners
<1>17. Mastered'
  BY <1>1, <1>2, <1>3, <1>4, <1>5
  DEF config, exitVars, Mastered, Running, SetupSteps, JobSteps, UntilOnExit, UntilSigint,
     UntilNames
<1>18. Interrupted'
  BY <1>1, <1>2, <1>3, <1>4, <1>5
  DEF config, exitVars, Interrupted, SwitchAgrees, Profiling, Kept, SamplerHas, GroupHas,
     StopSteps, Over, ToData, ToWatcher, ToOptions, ToOutput, ToSampler, ToDeadline,
     ToPeriod, ToPmcs, Known, Later, Wrapped, Owners
<1>19. Written'
  BY <1>1, <1>2, <1>3, <1>4, <1>5
  DEF config, exitVars, Written, ParsedConsistent
<1> QED
  BY <1>6, <1>7, <1>8, <1>9, <1>10, <1>11, <1>12, <1>13, <1>14, <1>15, <1>16, <1>17, <1>18,
     <1>19 DEF IInv

(* The setup of the threads is over.                                       *)
LEMMA PublishKeeps == ASSUME IInv, Publish PROVE IInv'
<1>1. ProgType /\ ExitType /\ ResType /\ JobType /\ MemType /\ Fresh /\ Whose
      /\ HeapKept /\ RoomKept /\ Counted /\ Held /\ Mastered /\ Interrupted /\ Written
  BY DEF IInv
<1>2. WatcherTypeOK'
  BY <1>1, MemoryStays DEF Publish, MemType, memVars
<1>3. ProgType'
  BY <1>1, <1>2
  DEF Publish, Goto, progVars, exitVars, resVars, groupVars, jobVars, memVars, watcherVars,
     config, memory, ProgType
<1>4. ExitType'
  BY <1>1, <1>2
  DEF Publish, Goto, progVars, exitVars, resVars, groupVars, jobVars, memVars, watcherVars,
     config, memory, ExitType, SetupSteps, JobSteps, StopSteps, Over
<1>5. ResType'
  BY <1>1, <1>2
  DEF Publish, Goto, progVars, exitVars, resVars, groupVars, jobVars, memVars, watcherVars,
     config, memory, ResType, Resources
<1>6. JobType'
  BY <1>1, <1>2
  DEF Publish, Goto, progVars, exitVars, resVars, groupVars, jobVars, memVars, watcherVars,
     config, memory, JobType
<1>7. MemType'
  BY <1>1, <1>2
  DEF Publish, Goto, progVars, exitVars, resVars, groupVars, jobVars, memVars, watcherVars,
     config, memory, MemType
<1>8. Fresh'
  BY <1>1, <1>2
  DEF Publish, Goto, progVars, exitVars, resVars, groupVars, jobVars, memVars, watcherVars,
     config, memory, Fresh, Wrapped, Later, Known, Running, SetupSteps, JobSteps,
     UntilOnExit, UntilSigint, UntilNames, UntilWatcher, UntilData, UntilHeader,
     UntilThread, UntilOutput, UntilFopen
<1>9. Whose'
  BY <1>1, <1>2
  DEF Publish, Goto, progVars, exitVars, resVars, groupVars, jobVars, memVars, watcherVars,
     config, memory, Whose, AfterWatcher, FreedByItsAllocator, Fixed, Over, UntilOnExit,
     UntilSigint, UntilNames, UntilWatcher
<1>10. HeapKept'
  BY <1>1, <1>2
  DEF Publish, Goto, progVars, exitVars, resVars, groupVars, jobVars, memVars, watcherVars,
     config, memory, HeapKept, Fixed, UntilOnExit, UntilSigint, UntilNames, UntilWatcher
<1>11. RoomKept'
  BY <1>1, <1>2
  DEF Publish, Goto, progVars, exitVars, resVars, groupVars, jobVars, memVars, watcherVars,
     config, memory, RoomKept, Taken, Allocated
<1>12. Counted'
  BY <1>1, <1>2
  DEF Publish, Goto, progVars, exitVars, resVars, groupVars, jobVars, memVars, watcherVars,
     config, memory, Counted, Profiling, Running, SetupSteps, JobSteps, StopSteps, Over,
     UntilOnExit, UntilSigint
<1>13. Held'
  BY <1>1, <1>2
  DEF Publish, Goto, progVars, exitVars, resVars, groupVars, jobVars, memVars, watcherVars,
     config, memory, Held, AlignedHeap, Profiling, SamplerHas, GroupHas, Timers
<1>14. Mastered'
  BY <1>1, <1>2
  DEF Publish, Goto, progVars, exitVars, resVars, groupVars, jobVars, memVars, watcherVars,
     config, memory, Mastered, Running, SetupSteps, JobSteps, UntilOnExit, UntilSigint,
     UntilNames
<1>15. Interrupted'
  BY <1>1, <1>2
  DEF Publish, Goto, progVars, exitVars, resVars, groupVars, jobVars, memVars, watcherVars,
     config, memory, Interrupted, SwitchAgrees, Profiling, Kept, SamplerHas, GroupHas,
     StopSteps, Over, ToData, ToWatcher, ToOptions, ToOutput, ToSampler, ToDeadline,
     ToPeriod, ToPmcs
<1>16. Written'
  BY <1>1, <1>2
  DEF Publish, Goto, progVars, exitVars, resVars, groupVars, jobVars, memVars, watcherVars,
     config, memory, Written, ParsedConsistent
<1> QED
  BY <1>3, <1>4, <1>5, <1>6, <1>7, <1>8, <1>9, <1>10, <1>11, <1>12, <1>13, <1>14, <1>15,
     <1>16 DEF IInv

(* The name of the output file.                                            *)
LEMMA NameOutputKeeps == ASSUME IInv, NameOutput PROVE IInv'
<1>1. ProgType /\ ExitType /\ ResType /\ JobType /\ MemType /\ Fresh /\ Whose
      /\ HeapKept /\ RoomKept /\ Counted /\ Held /\ Mastered /\ Interrupted /\ Written
  BY DEF IInv
<1>2. UNCHANGED <<prog, opts, outcome, arg, field, held, pmcs, created, armed, group, master,
      names, mt, sampling, posts, synchDone, started, jobEnded, jobs, expiries, before>>
  BY DEF NameOutput, progVars, resVars, groupVars, jobVars, memVars
<1>3. /\ WatcherTypeOK' /\ UNCHANGED <<config, misfreed>>
      /\ owner'["fname"] \in {owner["fname"], Wraps}
      /\ \A x \in Blocks \ {"fname"} : owner'[x] = owner[x]
      /\ watcher \notin Fixed => brk' = brk
      /\ brk' = brk \/ brk' <= heap_size * CellSize
      /\ aborted' \in {aborted, "fname"} /\ Known \subseteq Blocks
      /\ \A x \in Blocks : owner[x] \in Owners
  <2>1. WrapMallocOk("fname", FALSE) \/ WrapMallocAborts("fname", FALSE) \/ UNCHANGED watcherVars
    BY Zenon DEF NameOutput, Allocate, WrapMallocNull
  <2>2. aborted' \in {aborted, "fname"}
    BY Zenon DEF NameOutput, Allocate
  <2>3. "fname" \in Blocks /\ Known \subseteq Blocks /\ owner \in [Blocks -> Owners]
        /\ WatcherTypeOK
    BY <1>1, KnownBlocks DEF Known, Later, Wrapped, MemType, WatcherTypeOK
  <2>4. CASE WrapMallocOk("fname", FALSE)
    BY <2>2, <2>3, <2>4, WrapMallocDoes
  <2>5. CASE WrapMallocAborts("fname", FALSE)
    BY <2>2, <2>3, <2>5, WrapMallocAbortsDoes
  <2>6. CASE UNCHANGED watcherVars
    BY <2>2, <2>3, <2>6, MemoryStays DEF watcherVars, memory
  <2> QED
    BY <2>1, <2>4, <2>5, <2>6
<1>4. /\ pc = "output"
      /\ \/ pc' \in {"fopen", "crashed"} /\ UNCHANGED exitVars
         \/ pc' \in {"stopThreads", "exited"} /\ exit' \in {"return", "call"}
              /\ status' = "failure" /\ UNCHANGED <<at, hooks>>
  BY DEF NameOutput, Allocate, Goto, Crash, CallExit, FirstStop
<1>5. ProgType'
  BY <1>1, <1>2, <1>3, <1>4
  DEF config, exitVars, ProgType
<1>6. ExitType'
  BY <1>1, <1>2, <1>3, <1>4
  DEF config, exitVars, ExitType, SetupSteps, JobSteps, StopSteps, Over
<1>7. ResType'
  BY <1>1, <1>2, <1>3, <1>4
  DEF config, exitVars, ResType, Resources
<1>8. JobType'
  BY <1>1, <1>2, <1>3, <1>4
  DEF config, exitVars, JobType
<1>9. MemType'
  BY <1>1, <1>2, <1>3, <1>4
  DEF config, exitVars, MemType, Known, Later, Wrapped
<1>10. Fresh'
  BY <1>1, <1>2, <1>3, <1>4
  DEF config, exitVars, Fresh, Wrapped, Later, Known, Running, SetupSteps, JobSteps,
     UntilOnExit, UntilSigint, UntilNames, UntilWatcher, UntilData, UntilHeader,
     UntilThread, UntilOutput, UntilFopen, Owners
<1>11. Whose'
  BY <1>1, <1>2, <1>3, <1>4
  DEF config, exitVars, Wraps, Whose, AfterWatcher, FreedByItsAllocator, Fixed, Over,
     UntilOnExit, UntilSigint, UntilNames, UntilWatcher, Known, Later, Wrapped, Owners
<1>12. HeapKept'
  BY <1>1, <1>2, <1>3, <1>4
  DEF config, exitVars, HeapKept, Fixed, UntilOnExit, UntilSigint, UntilNames, UntilWatcher
<1>13. RoomKept'
  <2>1. "fname" \in Blocks /\ "fname" \in Later /\ owner["fname"] = "none"
    BY <1>1, KnownBlocks
      DEF NameOutput, Fresh, Wrapped, Later, Known, Running, SetupSteps, JobSteps, UntilOnExit,
          UntilSigint, UntilNames, UntilWatcher, UntilData, UntilHeader, UntilThread,
          UntilOutput, UntilFopen, Owners
  <2>2. UNCHANGED before
    BY DEF NameOutput
  <2>3. WrapMallocOk("fname", FALSE) \/ WrapMallocAborts("fname", FALSE) \/ UNCHANGED watcherVars
    BY Zenon DEF NameOutput, Allocate, WrapMallocNull
  <2>4. UNCHANGED watcherVars => RoomKept'
    BY <1>1, <2>2 DEF RoomKept, Taken, Allocated, watcherVars, config, memory
  <2> QED
    BY <1>1, <2>1, <2>2, <2>3, <2>4, RoomAfterWrapMalloc, RoomAfterAbort
<1>14. Counted'
  BY <1>1, <1>2, <1>3, <1>4
  DEF config, exitVars, Counted, Profiling, Running, SetupSteps, JobSteps, StopSteps, Over,
     UntilOnExit, UntilSigint
<1>15. Held'
  BY <1>1, <1>2, <1>3, <1>4
  DEF config, exitVars, Held, AlignedHeap, Profiling, SamplerHas, GroupHas, Timers, Known,
     Later, Wrapped, Owners
<1>16. Mastered'
  BY <1>1, <1>2, <1>3, <1>4
  DEF config, exitVars, Mastered, Running, SetupSteps, JobSteps, UntilOnExit, UntilSigint,
     UntilNames
<1>17. Interrupted'
  BY <1>1, <1>2, <1>3, <1>4
  DEF config, exitVars, Interrupted, SwitchAgrees, Profiling, Kept, SamplerHas, GroupHas,
     StopSteps, Over, ToData, ToWatcher, ToOptions, ToOutput, ToSampler, ToDeadline,
     ToPeriod, ToPmcs, Known, Later, Wrapped, Owners
<1>18. Written'
  BY <1>1, <1>2, <1>3, <1>4
  DEF config, exitVars, Written, ParsedConsistent
<1> QED
  BY <1>5, <1>6, <1>7, <1>8, <1>9, <1>10, <1>11, <1>12, <1>13, <1>14, <1>15, <1>16, <1>17,
     <1>18 DEF IInv

(* The output file, from libc.                                             *)
LEMMA OpenOutputKeeps == ASSUME IInv, OpenOutput PROVE IInv'
<1>1. ProgType /\ ExitType /\ ResType /\ JobType /\ MemType /\ Fresh /\ Whose
      /\ HeapKept /\ RoomKept /\ Counted /\ Held /\ Mastered /\ Interrupted /\ Written
  BY DEF IInv
<1>2. UNCHANGED <<prog, opts, outcome, arg, field, pmcs, created, armed, group, master, names, mt,
      sampling, posts, synchDone, started, jobEnded, jobs, expiries, aborted, before>>
  BY DEF OpenOutput, progVars, resVars, groupVars, jobVars, memVars
<1>3. /\ WatcherTypeOK' /\ UNCHANGED <<config, brk, misfreed>>
      /\ owner'["file"] \in {owner["file"], "libc"}
      /\ \A x \in Blocks \ {"file"} : owner'[x] = owner[x]
      /\ Known \subseteq Blocks
      /\ \A x \in Blocks : owner[x] \in Owners
  <2>1. RealMalloc("file") \/ UNCHANGED watcherVars
    BY DEF OpenOutput
  <2>2. "file" \in Blocks /\ Known \subseteq Blocks /\ owner \in [Blocks -> Owners]
        /\ WatcherTypeOK
    BY <1>1, KnownBlocks DEF Known, Later, Wrapped, MemType, WatcherTypeOK
  <2>3. CASE RealMalloc("file")
    BY <2>2, <2>3, RealMallocDoes
  <2>4. CASE UNCHANGED watcherVars
    BY <2>2, <2>4, MemoryStays DEF watcherVars, memory
  <2> QED
    BY <2>1, <2>3, <2>4
<1>4. pc = "fopen" /\ pc' \in {"freeName"} /\ UNCHANGED exitVars
  BY DEF OpenOutput, Goto, ReturnWith, FirstStop, CallExit, Crash
<1>5. \/ held' = held \union {"output"}
      \/ held' = held /\ \A x \in Blocks : owner'[x] = owner[x]
  BY DEF OpenOutput, watcherVars, memory
<1>6. ProgType'
  BY <1>1, <1>2, <1>3, <1>4, <1>5
  DEF config, exitVars, ProgType
<1>7. ExitType'
  BY <1>1, <1>2, <1>3, <1>4, <1>5
  DEF config, exitVars, ExitType, SetupSteps, JobSteps, StopSteps, Over
<1>8. ResType'
  BY <1>1, <1>2, <1>3, <1>4, <1>5
  DEF config, exitVars, ResType, Resources
<1>9. JobType'
  BY <1>1, <1>2, <1>3, <1>4, <1>5
  DEF config, exitVars, JobType
<1>10. MemType'
  BY <1>1, <1>2, <1>3, <1>4, <1>5
  DEF config, exitVars, MemType, Known, Later, Wrapped
<1>11. Fresh'
  BY <1>1, <1>2, <1>3, <1>4, <1>5
  DEF config, exitVars, Fresh, Wrapped, Later, Known, Running, SetupSteps, JobSteps,
     UntilOnExit, UntilSigint, UntilNames, UntilWatcher, UntilData, UntilHeader,
     UntilThread, UntilOutput, UntilFopen, Owners
<1>12. Whose'
  BY <1>1, <1>2, <1>3, <1>4, <1>5
  DEF config, exitVars, Wraps, Whose, AfterWatcher, FreedByItsAllocator, Fixed, Over,
     UntilOnExit, UntilSigint, UntilNames, UntilWatcher, Known, Later, Wrapped, Owners
<1>13. HeapKept'
  BY <1>1, <1>2, <1>3, <1>4, <1>5
  DEF config, exitVars, HeapKept, Fixed, UntilOnExit, UntilSigint, UntilNames, UntilWatcher
<1>14. RoomKept'
  <2>1. "file" \in Blocks /\ "file" \in Later
    BY KnownBlocks DEF Known, Later, Wrapped
  <2>2. UNCHANGED before /\ owner["file"] = "none"
    BY <1>1 DEF OpenOutput, Fresh, Wrapped, Later, Known, Running, SetupSteps, JobSteps,
         UntilOnExit, UntilSigint, UntilNames, UntilWatcher, UntilData, UntilHeader,
         UntilThread, UntilOutput, UntilFopen, Owners
  <2>3. RealMalloc("file") \/ UNCHANGED watcherVars
    BY DEF OpenOutput
  <2>4. UNCHANGED watcherVars => RoomKept'
    BY <1>1, <2>2 DEF RoomKept, Taken, Allocated, watcherVars, config, memory
  <2> QED
    BY <1>1, <2>1, <2>2, <2>3, <2>4, RoomAfterMalloc DEF MemType
<1>15. Counted'
  BY <1>1, <1>2, <1>3, <1>4, <1>5
  DEF config, exitVars, Counted, Profiling, Running, SetupSteps, JobSteps, StopSteps, Over,
     UntilOnExit, UntilSigint
<1>16. Held'
  BY <1>1, <1>2, <1>3, <1>4, <1>5
  DEF config, exitVars, Held, AlignedHeap, Profiling, SamplerHas, GroupHas, Timers, Known,
     Later, Wrapped, Owners
<1>17. Mastered'
  BY <1>1, <1>2, <1>3, <1>4, <1>5
  DEF config, exitVars, Mastered, Running, SetupSteps, JobSteps, UntilOnExit, UntilSigint,
     UntilNames
<1>18. Interrupted'
  BY <1>1, <1>2, <1>3, <1>4, <1>5
  DEF config, exitVars, Interrupted, SwitchAgrees, Profiling, Kept, SamplerHas, GroupHas,
     StopSteps, Over, ToData, ToWatcher, ToOptions, ToOutput, ToSampler, ToDeadline,
     ToPeriod, ToPmcs, Known, Later, Wrapped, Owners
<1>19. Written'
  BY <1>1, <1>2, <1>3, <1>4, <1>5
  DEF config, exitVars, Written, ParsedConsistent
<1> QED
  BY <1>6, <1>7, <1>8, <1>9, <1>10, <1>11, <1>12, <1>13, <1>14, <1>15, <1>16, <1>17, <1>18,
     <1>19 DEF IInv

(* The name is released.                                                   *)
LEMMA FreeNameKeeps == ASSUME IInv, FreeName PROVE IInv'
<1>1. ProgType /\ ExitType /\ ResType /\ JobType /\ MemType /\ Fresh /\ Whose
      /\ HeapKept /\ RoomKept /\ Counted /\ Held /\ Mastered /\ Interrupted /\ Written
  BY DEF IInv
<1>2. UNCHANGED <<prog, opts, outcome, arg, field, held, pmcs, created, armed, group, master,
      names, mt, sampling, posts, synchDone, started, jobEnded, jobs, expiries, aborted,
      before>>
  BY DEF FreeName, progVars, resVars, groupVars, jobVars, memVars
<1>3. /\ WatcherTypeOK' /\ UNCHANGED <<config, extended>>
      /\ \A x \in Blocks : owner[x] \in Owners
      /\ \A x \in Blocks : owner'[x] = IF x \in {"fname"} THEN "none" ELSE owner[x]
      /\ misfreed' = misfreed \union {b \in {"fname"} : owner[b] \notin {"none", Wraps}}
      /\ watcher \notin Fixed => brk' = brk
      /\ brk' = brk \/ brk' <= heap_size * CellSize
      /\ Known \subseteq Blocks
  <2>1. {"fname"} \in SUBSET Blocks /\ Known \subseteq Blocks
    BY KnownBlocks DEF Known, Later, Wrapped
  <2>2. WatcherTypeOK /\ WrapFree({"fname"})
    BY <1>1 DEF MemType, FreeName
  <2>3. owner \in [Blocks -> Owners]
    BY <2>2 DEF WatcherTypeOK
  <2> DEFINE B == {"fname"}
  <2>4. B \in SUBSET Blocks /\ WrapFree(B)
    BY <2>1, <2>2
  <2> HIDE DEF B
  <2>5. /\ WatcherTypeOK' /\ UNCHANGED <<config, extended>>
        /\ owner' = [b \in Blocks |-> IF b \in B THEN "none" ELSE owner[b]]
        /\ misfreed' = misfreed \union {b \in B : owner[b] \notin {"none", Wraps}}
        /\ watcher \notin Fixed => brk' = brk
        /\ brk' = brk \/ brk' <= heap_size * CellSize
    BY <2>2, <2>4, WrapFreeDoes
  <2>6. \A x \in Blocks : owner'[x] = IF x \in B THEN "none" ELSE owner[x]
    BY <2>5
  <2> QED
    BY <2>1, <2>3, <2>5, <2>6 DEF B
<1>4. /\ pc = "freeName"
      /\ \/ pc' \in {"sem"} /\ UNCHANGED exitVars
         \/ pc' \in {"stopThreads", "exited"} /\ exit' \in {"return", "call"}
              /\ status' = "failure" /\ UNCHANGED <<at, hooks>>
  BY DEF FreeName, Goto, ReturnWith, FirstStop, CallExit, Crash
<1>5. ProgType'
  BY <1>1, <1>2, <1>3, <1>4
  DEF config, exitVars, ProgType
<1>6. ExitType'
  BY <1>1, <1>2, <1>3, <1>4
  DEF config, exitVars, ExitType, SetupSteps, JobSteps, StopSteps, Over
<1>7. ResType'
  BY <1>1, <1>2, <1>3, <1>4
  DEF config, exitVars, ResType, Resources
<1>8. JobType'
  BY <1>1, <1>2, <1>3, <1>4
  DEF config, exitVars, JobType
<1>9. MemType'
  BY <1>1, <1>2, <1>3, <1>4
  DEF config, exitVars, MemType, Known, Later, Wrapped
<1>10. Fresh'
  BY <1>1, <1>2, <1>3, <1>4
  DEF config, exitVars, Fresh, Wrapped, Later, Known, Running, SetupSteps, JobSteps,
     UntilOnExit, UntilSigint, UntilNames, UntilWatcher, UntilData, UntilHeader,
     UntilThread, UntilOutput, UntilFopen, Owners
<1>11. Whose'
  BY <1>1, <1>2, <1>3, <1>4
  DEF config, exitVars, Wraps, Whose, AfterWatcher, FreedByItsAllocator, Fixed, Over,
     UntilOnExit, UntilSigint, UntilNames, UntilWatcher, Known, Later, Wrapped, Owners
<1>12. HeapKept'
  BY <1>1, <1>2, <1>3, <1>4
  DEF config, exitVars, HeapKept, Fixed, UntilOnExit, UntilSigint, UntilNames, UntilWatcher
<1>13. RoomKept'
  <2>1. {"fname"} \in SUBSET Blocks
    BY KnownBlocks DEF Known, Later, Wrapped
  <2>2. WrapFree({"fname"}) /\ UNCHANGED before
    BY DEF FreeName
  <2>3. watcher = "enabled" => \A b \in Blocks : owner[b] # "dl"
    BY <1>1
      DEF FreeName, StopStep, Wraps, Whose, AfterWatcher, FreedByItsAllocator, Fixed, Over,
          UntilOnExit, UntilSigint, UntilNames, UntilWatcher, Known, Later, Wrapped, Owners
  <2> QED
    BY <1>1, <2>1, <2>2, <2>3, RoomAfterFree
<1>14. Counted'
  BY <1>1, <1>2, <1>3, <1>4
  DEF config, exitVars, Counted, Profiling, Running, SetupSteps, JobSteps, StopSteps, Over,
     UntilOnExit, UntilSigint
<1>15. Held'
  BY <1>1, <1>2, <1>3, <1>4
  DEF config, exitVars, Held, AlignedHeap, Profiling, SamplerHas, GroupHas, Timers, Known,
     Later, Wrapped, Owners
<1>16. Mastered'
  BY <1>1, <1>2, <1>3, <1>4
  DEF config, exitVars, Mastered, Running, SetupSteps, JobSteps, UntilOnExit, UntilSigint,
     UntilNames
<1>17. Interrupted'
  BY <1>1, <1>2, <1>3, <1>4
  DEF config, exitVars, Interrupted, SwitchAgrees, Profiling, Kept, SamplerHas, GroupHas,
     StopSteps, Over, ToData, ToWatcher, ToOptions, ToOutput, ToSampler, ToDeadline,
     ToPeriod, ToPmcs, Known, Later, Wrapped, Owners
<1>18. Written'
  BY <1>1, <1>2, <1>3, <1>4
  DEF config, exitVars, Written, ParsedConsistent
<1> QED
  BY <1>5, <1>6, <1>7, <1>8, <1>9, <1>10, <1>11, <1>12, <1>13, <1>14, <1>15, <1>16, <1>17,
     <1>18 DEF IInv
-----------------------------------------------------------------------------
(* The timers                                                              *)

(* The semaphore of the periods.                                           *)
LEMMA InitSemaphoreKeeps == ASSUME IInv, InitSemaphore PROVE IInv'
<1>1. ProgType /\ ExitType /\ ResType /\ JobType /\ MemType /\ Fresh /\ Whose
      /\ HeapKept /\ RoomKept /\ Counted /\ Held /\ Mastered /\ Interrupted /\ Written
  BY DEF IInv
<1>2. WatcherTypeOK'
  BY <1>1, MemoryStays DEF InitSemaphore, MemType, memVars
<1>3. ProgType'
  BY <1>1, <1>2
  DEF InitSemaphore, Goto, ReturnWith, FirstStop, progVars, exitVars, resVars, groupVars,
     jobVars, memVars, watcherVars, config, memory, ProgType
<1>4. ExitType'
  BY <1>1, <1>2
  DEF InitSemaphore, Goto, ReturnWith, FirstStop, progVars, exitVars, resVars, groupVars,
     jobVars, memVars, watcherVars, config, memory, ExitType, SetupSteps, JobSteps,
     StopSteps, Over
<1>5. ResType'
  BY <1>1, <1>2
  DEF InitSemaphore, Goto, ReturnWith, FirstStop, progVars, exitVars, resVars, groupVars,
     jobVars, memVars, watcherVars, config, memory, ResType, Resources
<1>6. JobType'
  BY <1>1, <1>2
  DEF InitSemaphore, Goto, ReturnWith, FirstStop, progVars, exitVars, resVars, groupVars,
     jobVars, memVars, watcherVars, config, memory, JobType
<1>7. MemType'
  BY <1>1, <1>2
  DEF InitSemaphore, Goto, ReturnWith, FirstStop, progVars, exitVars, resVars, groupVars,
     jobVars, memVars, watcherVars, config, memory, MemType
<1>8. Fresh'
  BY <1>1, <1>2
  DEF InitSemaphore, Goto, ReturnWith, FirstStop, progVars, exitVars, resVars, groupVars,
     jobVars, memVars, watcherVars, config, memory, Fresh, Wrapped, Later, Known, Running,
     SetupSteps, JobSteps, UntilOnExit, UntilSigint, UntilNames, UntilWatcher, UntilData,
     UntilHeader, UntilThread, UntilOutput, UntilFopen
<1>9. Whose'
  BY <1>1, <1>2
  DEF InitSemaphore, Goto, ReturnWith, FirstStop, progVars, exitVars, resVars, groupVars,
     jobVars, memVars, watcherVars, config, memory, Whose, AfterWatcher,
     FreedByItsAllocator, Fixed, Over, UntilOnExit, UntilSigint, UntilNames, UntilWatcher
<1>10. HeapKept'
  BY <1>1, <1>2
  DEF InitSemaphore, Goto, ReturnWith, FirstStop, progVars, exitVars, resVars, groupVars,
     jobVars, memVars, watcherVars, config, memory, HeapKept, Fixed, UntilOnExit,
     UntilSigint, UntilNames, UntilWatcher
<1>11. RoomKept'
  BY <1>1, <1>2
  DEF InitSemaphore, Goto, ReturnWith, FirstStop, progVars, exitVars, resVars, groupVars,
     jobVars, memVars, watcherVars, config, memory, RoomKept, Taken, Allocated
<1>12. Counted'
  <2>1. pc = "sem" /\ UNCHANGED <<jobs, opts, hooks, held, outcome, pmcs>>
    BY DEF InitSemaphore, progVars, resVars, jobVars, Goto, ReturnWith, exitVars
  <2>2. \/ pc' \in {"loop", "deadline"} /\ UNCHANGED <<exit, status>>
        \/ pc' \in {"stopThreads", "exited"} /\ exit' = "return" /\ status' = "failure"
    BY DEF InitSemaphore, Goto, ReturnWith, FirstStop, exitVars
  <2>3. jobs = 0 /\ opts.tasks_to_launch \in Nat
    BY <1>1, <2>1, LineNumbers DEF Counted, SetupSteps, ProgType, ExecutionOptions
  <2> QED
    BY <1>1, <2>1, <2>2, <2>3
    DEF Counted, Profiling, Running, SetupSteps, JobSteps, StopSteps, Over, UntilOnExit,
        UntilSigint
<1>13. Held'
  BY <1>1, <1>2
  DEF InitSemaphore, Goto, ReturnWith, FirstStop, progVars, exitVars, resVars, groupVars,
     jobVars, memVars, watcherVars, config, memory, Held, AlignedHeap, Profiling,
     SamplerHas, GroupHas, Timers
<1>14. Mastered'
  BY <1>1, <1>2
  DEF InitSemaphore, Goto, ReturnWith, FirstStop, progVars, exitVars, resVars, groupVars,
     jobVars, memVars, watcherVars, config, memory, Mastered, Running, SetupSteps, JobSteps,
     UntilOnExit, UntilSigint, UntilNames
<1>15. Interrupted'
  BY <1>1, <1>2
  DEF InitSemaphore, Goto, ReturnWith, FirstStop, progVars, exitVars, resVars, groupVars,
     jobVars, memVars, watcherVars, config, memory, Interrupted, SwitchAgrees, Profiling,
     Kept, SamplerHas, GroupHas, StopSteps, Over, ToData, ToWatcher, ToOptions, ToOutput,
     ToSampler, ToDeadline, ToPeriod, ToPmcs
<1>16. Written'
  BY <1>1, <1>2
  DEF InitSemaphore, Goto, ReturnWith, FirstStop, progVars, exitVars, resVars, groupVars,
     jobVars, memVars, watcherVars, config, memory, Written, ParsedConsistent
<1> QED
  BY <1>3, <1>4, <1>5, <1>6, <1>7, <1>8, <1>9, <1>10, <1>11, <1>12, <1>13, <1>14, <1>15,
     <1>16 DEF IInv

(* The deadline's timer.                                                   *)
LEMMA DeadlineTimerKeeps == ASSUME IInv, DeadlineTimer PROVE IInv'
<1>1. ProgType /\ ExitType /\ ResType /\ JobType /\ MemType /\ Fresh /\ Whose
      /\ HeapKept /\ RoomKept /\ Counted /\ Held /\ Mastered /\ Interrupted /\ Written
  BY DEF IInv
<1>2. WatcherTypeOK'
  BY <1>1, MemoryStays DEF DeadlineTimer, MemType, memVars
<1>3. ProgType'
  BY <1>1, <1>2
  DEF DeadlineTimer, Goto, ReturnWith, FirstStop, TimerSet, TimerFails, progVars, exitVars,
     resVars, groupVars, jobVars, memVars, watcherVars, config, memory, ProgType
<1>4. ExitType'
  BY <1>1, <1>2
  DEF DeadlineTimer, Goto, ReturnWith, FirstStop, TimerSet, TimerFails, progVars, exitVars,
     resVars, groupVars, jobVars, memVars, watcherVars, config, memory, ExitType,
     SetupSteps, JobSteps, StopSteps, Over
<1>5. ResType'
  <2>1. \/ UNCHANGED <<created, held>>
        \/ created' = Append(created, "deadlineTimer") /\ held' = held \union {"deadlineTimer"}
    BY DEF DeadlineTimer, TimerSet, TimerFails
  <2>2. UNCHANGED <<pmcs, group, master, names>> /\ armed' \in BOOLEAN
    BY <1>1 DEF DeadlineTimer, ResType, groupVars
  <2>3. created' \in Seq({"perfTimer", "deadlineTimer", "periodTimer"})
    BY <1>1, <2>1 DEF ResType
  <2> QED
    BY <1>1, <2>1, <2>2, <2>3 DEF ResType, Resources
<1>6. JobType'
  BY <1>1, <1>2
  DEF DeadlineTimer, Goto, ReturnWith, FirstStop, TimerSet, TimerFails, progVars, exitVars,
     resVars, groupVars, jobVars, memVars, watcherVars, config, memory, JobType
<1>7. MemType'
  BY <1>1, <1>2
  DEF DeadlineTimer, Goto, ReturnWith, FirstStop, TimerSet, TimerFails, progVars, exitVars,
     resVars, groupVars, jobVars, memVars, watcherVars, config, memory, MemType
<1>8. Fresh'
  BY <1>1, <1>2
  DEF DeadlineTimer, Goto, ReturnWith, FirstStop, TimerSet, TimerFails, progVars, exitVars,
     resVars, groupVars, jobVars, memVars, watcherVars, config, memory, Fresh, Wrapped,
     Later, Known, Running, SetupSteps, JobSteps, UntilOnExit, UntilSigint, UntilNames,
     UntilWatcher, UntilData, UntilHeader, UntilThread, UntilOutput, UntilFopen
<1>9. Whose'
  BY <1>1, <1>2
  DEF DeadlineTimer, Goto, ReturnWith, FirstStop, TimerSet, TimerFails, progVars, exitVars,
     resVars, groupVars, jobVars, memVars, watcherVars, config, memory, Whose, AfterWatcher,
     FreedByItsAllocator, Fixed, Over, UntilOnExit, UntilSigint, UntilNames, UntilWatcher
<1>10. HeapKept'
  BY <1>1, <1>2
  DEF DeadlineTimer, Goto, ReturnWith, FirstStop, TimerSet, TimerFails, progVars, exitVars,
     resVars, groupVars, jobVars, memVars, watcherVars, config, memory, HeapKept, Fixed,
     UntilOnExit, UntilSigint, UntilNames, UntilWatcher
<1>11. RoomKept'
  BY <1>1, <1>2
  DEF DeadlineTimer, Goto, ReturnWith, FirstStop, TimerSet, TimerFails, progVars, exitVars,
     resVars, groupVars, jobVars, memVars, watcherVars, config, memory, RoomKept, Taken,
     Allocated
<1>12. Counted'
  BY <1>1, <1>2
  DEF DeadlineTimer, Goto, ReturnWith, FirstStop, TimerSet, TimerFails, progVars, exitVars,
     resVars, groupVars, jobVars, memVars, watcherVars, config, memory, Counted, Profiling,
     Running, SetupSteps, JobSteps, StopSteps, Over, UntilOnExit, UntilSigint
<1>13. Held'
  BY <1>1, <1>2
  DEF DeadlineTimer, Goto, ReturnWith, FirstStop, TimerSet, TimerFails, progVars, exitVars,
     resVars, groupVars, jobVars, memVars, watcherVars, config, memory, Held, AlignedHeap,
     Profiling, SamplerHas, GroupHas, Timers
<1>14. Mastered'
  BY <1>1, <1>2
  DEF DeadlineTimer, Goto, ReturnWith, FirstStop, TimerSet, TimerFails, progVars, exitVars,
     resVars, groupVars, jobVars, memVars, watcherVars, config, memory, Mastered, Running,
     SetupSteps, JobSteps, UntilOnExit, UntilSigint, UntilNames
<1>15. Interrupted'
  BY <1>1, <1>2
  DEF DeadlineTimer, Goto, ReturnWith, FirstStop, TimerSet, TimerFails, progVars, exitVars,
     resVars, groupVars, jobVars, memVars, watcherVars, config, memory, Interrupted,
     SwitchAgrees, Profiling, Kept, SamplerHas, GroupHas, StopSteps, Over, ToData,
     ToWatcher, ToOptions, ToOutput, ToSampler, ToDeadline, ToPeriod, ToPmcs
<1>16. Written'
  BY <1>1, <1>2
  DEF DeadlineTimer, Goto, ReturnWith, FirstStop, TimerSet, TimerFails, progVars, exitVars,
     resVars, groupVars, jobVars, memVars, watcherVars, config, memory, Written,
     ParsedConsistent
<1> QED
  BY <1>3, <1>4, <1>5, <1>6, <1>7, <1>8, <1>9, <1>10, <1>11, <1>12, <1>13, <1>14, <1>15,
     <1>16 DEF IInv

(* The group is released.                                                  *)
LEMMA WaitForSynchKeeps == ASSUME IInv, WaitForSynch PROVE IInv'
<1>1. ProgType /\ ExitType /\ ResType /\ JobType /\ MemType /\ Fresh /\ Whose
      /\ HeapKept /\ RoomKept /\ Counted /\ Held /\ Mastered /\ Interrupted /\ Written
  BY DEF IInv
<1>2. WatcherTypeOK'
  BY <1>1, MemoryStays DEF WaitForSynch, MemType, memVars
<1>3. ProgType'
  BY <1>1, <1>2
  DEF WaitForSynch, Goto, ReturnWith, FirstStop, progVars, exitVars, resVars, groupVars,
     jobVars, memVars, watcherVars, config, memory, ProgType
<1>4. ExitType'
  BY <1>1, <1>2
  DEF WaitForSynch, Goto, ReturnWith, FirstStop, progVars, exitVars, resVars, groupVars,
     jobVars, memVars, watcherVars, config, memory, ExitType, SetupSteps, JobSteps,
     StopSteps, Over
<1>5. ResType'
  BY <1>1, <1>2
  DEF WaitForSynch, Goto, ReturnWith, FirstStop, progVars, exitVars, resVars, groupVars,
     jobVars, memVars, watcherVars, config, memory, ResType, Resources
<1>6. JobType'
  BY <1>1, <1>2
  DEF WaitForSynch, Goto, ReturnWith, FirstStop, progVars, exitVars, resVars, groupVars,
     jobVars, memVars, watcherVars, config, memory, JobType
<1>7. MemType'
  BY <1>1, <1>2
  DEF WaitForSynch, Goto, ReturnWith, FirstStop, progVars, exitVars, resVars, groupVars,
     jobVars, memVars, watcherVars, config, memory, MemType
<1>8. Fresh'
  BY <1>1, <1>2
  DEF WaitForSynch, Goto, ReturnWith, FirstStop, progVars, exitVars, resVars, groupVars,
     jobVars, memVars, watcherVars, config, memory, Fresh, Wrapped, Later, Known, Running,
     SetupSteps, JobSteps, UntilOnExit, UntilSigint, UntilNames, UntilWatcher, UntilData,
     UntilHeader, UntilThread, UntilOutput, UntilFopen
<1>9. Whose'
  BY <1>1, <1>2
  DEF WaitForSynch, Goto, ReturnWith, FirstStop, progVars, exitVars, resVars, groupVars,
     jobVars, memVars, watcherVars, config, memory, Whose, AfterWatcher,
     FreedByItsAllocator, Fixed, Over, UntilOnExit, UntilSigint, UntilNames, UntilWatcher
<1>10. HeapKept'
  BY <1>1, <1>2
  DEF WaitForSynch, Goto, ReturnWith, FirstStop, progVars, exitVars, resVars, groupVars,
     jobVars, memVars, watcherVars, config, memory, HeapKept, Fixed, UntilOnExit,
     UntilSigint, UntilNames, UntilWatcher
<1>11. RoomKept'
  BY <1>1, <1>2
  DEF WaitForSynch, Goto, ReturnWith, FirstStop, progVars, exitVars, resVars, groupVars,
     jobVars, memVars, watcherVars, config, memory, RoomKept, Taken, Allocated
<1>12. Counted'
  BY <1>1, <1>2
  DEF WaitForSynch, Goto, ReturnWith, FirstStop, progVars, exitVars, resVars, groupVars,
     jobVars, memVars, watcherVars, config, memory, Counted, Profiling, Running, SetupSteps,
     JobSteps, StopSteps, Over, UntilOnExit, UntilSigint
<1>13. Held'
  BY <1>1, <1>2
  DEF WaitForSynch, Goto, ReturnWith, FirstStop, progVars, exitVars, resVars, groupVars,
     jobVars, memVars, watcherVars, config, memory, Held, AlignedHeap, Profiling,
     SamplerHas, GroupHas, Timers
<1>14. Mastered'
  BY <1>1, <1>2
  DEF WaitForSynch, Goto, ReturnWith, FirstStop, progVars, exitVars, resVars, groupVars,
     jobVars, memVars, watcherVars, config, memory, Mastered, Running, SetupSteps, JobSteps,
     UntilOnExit, UntilSigint, UntilNames
<1>15. Interrupted'
  BY <1>1, <1>2
  DEF WaitForSynch, Goto, ReturnWith, FirstStop, progVars, exitVars, resVars, groupVars,
     jobVars, memVars, watcherVars, config, memory, Interrupted, SwitchAgrees, Profiling,
     Kept, SamplerHas, GroupHas, StopSteps, Over, ToData, ToWatcher, ToOptions, ToOutput,
     ToSampler, ToDeadline, ToPeriod, ToPmcs
<1>16. Written'
  BY <1>1, <1>2
  DEF WaitForSynch, Goto, ReturnWith, FirstStop, progVars, exitVars, resVars, groupVars,
     jobVars, memVars, watcherVars, config, memory, Written, ParsedConsistent
<1> QED
  BY <1>3, <1>4, <1>5, <1>6, <1>7, <1>8, <1>9, <1>10, <1>11, <1>12, <1>13, <1>14, <1>15,
     <1>16 DEF IInv

(* The period's timer.                                                     *)
LEMMA PeriodTimerKeeps == ASSUME IInv, PeriodTimer PROVE IInv'
<1>1. ProgType /\ ExitType /\ ResType /\ JobType /\ MemType /\ Fresh /\ Whose
      /\ HeapKept /\ RoomKept /\ Counted /\ Held /\ Mastered /\ Interrupted /\ Written
  BY DEF IInv
<1>2. WatcherTypeOK'
  BY <1>1, MemoryStays DEF PeriodTimer, MemType, memVars
<1>3. ProgType'
  BY <1>1, <1>2
  DEF PeriodTimer, Goto, ReturnWith, FirstStop, TimerSet, TimerFails, progVars, exitVars,
     resVars, groupVars, jobVars, memVars, watcherVars, config, memory, ProgType
<1>4. ExitType'
  <2>1. \/ pc' = "loop" /\ UNCHANGED exitVars
        \/ pc' \in {"stopThreads", "exited"} /\ exit' = "return" /\ status' = "failure"
              /\ UNCHANGED <<at, hooks>>
    <3>1. Goto("loop") \/ ReturnWith(-1)
      BY Zenon DEF PeriodTimer
    <3> QED
      BY <3>1 DEF Goto, ReturnWith, FirstStop
  <2> QED
    BY <1>1, <2>1 DEF ExitType, exitVars, StopSteps, JobSteps, Over
<1>5. ResType'
  <2>1. \/ UNCHANGED <<created, held>>
        \/ created' = Append(created, "periodTimer") /\ held' = held \union {"periodTimer"}
    BY DEF PeriodTimer, TimerSet, TimerFails
  <2>2. UNCHANGED <<pmcs, group, master, names>> /\ armed' \in BOOLEAN
    BY <1>1 DEF PeriodTimer, ResType, groupVars
  <2>3. created' \in Seq({"perfTimer", "deadlineTimer", "periodTimer"})
    BY <1>1, <2>1 DEF ResType
  <2> QED
    BY <1>1, <2>1, <2>2, <2>3 DEF ResType, Resources
<1>6. JobType'
  BY <1>1, <1>2
  DEF PeriodTimer, Goto, ReturnWith, FirstStop, TimerSet, TimerFails, progVars, exitVars,
     resVars, groupVars, jobVars, memVars, watcherVars, config, memory, JobType
<1>7. MemType'
  BY <1>1, <1>2
  DEF PeriodTimer, Goto, ReturnWith, FirstStop, TimerSet, TimerFails, progVars, exitVars,
     resVars, groupVars, jobVars, memVars, watcherVars, config, memory, MemType
<1>8. Fresh'
  BY <1>1, <1>2
  DEF PeriodTimer, Goto, ReturnWith, FirstStop, TimerSet, TimerFails, progVars, exitVars,
     resVars, groupVars, jobVars, memVars, watcherVars, config, memory, Fresh, Wrapped,
     Later, Known, Running, SetupSteps, JobSteps, UntilOnExit, UntilSigint, UntilNames,
     UntilWatcher, UntilData, UntilHeader, UntilThread, UntilOutput, UntilFopen
<1>9. Whose'
  BY <1>1, <1>2
  DEF PeriodTimer, Goto, ReturnWith, FirstStop, TimerSet, TimerFails, progVars, exitVars,
     resVars, groupVars, jobVars, memVars, watcherVars, config, memory, Whose, AfterWatcher,
     FreedByItsAllocator, Fixed, Over, UntilOnExit, UntilSigint, UntilNames, UntilWatcher
<1>10. HeapKept'
  BY <1>1, <1>2
  DEF PeriodTimer, Goto, ReturnWith, FirstStop, TimerSet, TimerFails, progVars, exitVars,
     resVars, groupVars, jobVars, memVars, watcherVars, config, memory, HeapKept, Fixed,
     UntilOnExit, UntilSigint, UntilNames, UntilWatcher
<1>11. RoomKept'
  BY <1>1, <1>2
  DEF PeriodTimer, Goto, ReturnWith, FirstStop, TimerSet, TimerFails, progVars, exitVars,
     resVars, groupVars, jobVars, memVars, watcherVars, config, memory, RoomKept, Taken,
     Allocated
<1>12. Counted'
  <2>1. /\ pc = "period" /\ UNCHANGED <<jobs, opts, outcome, pmcs>>
        /\ jobs = 0 /\ opts.tasks_to_launch \in Nat
    BY <1>1, LineNumbers
       DEF PeriodTimer, Counted, SetupSteps, progVars, jobVars, ProgType, ExecutionOptions
  <2>2. \/ pc' = "loop" /\ UNCHANGED exitVars
        \/ pc' \in {"stopThreads", "exited"} /\ exit' = "return" /\ status' = "failure"
    <3>1. Goto("loop") \/ ReturnWith(-1)
      BY Zenon DEF PeriodTimer
    <3> QED
      BY <3>1 DEF Goto, ReturnWith, FirstStop
  <2> QED
    BY <1>1, <2>1, <2>2
    DEF Counted, Running, SetupSteps, JobSteps, StopSteps, Over, UntilOnExit, UntilSigint, exitVars
<1>13. Held'
  BY <1>1, <1>2
  DEF PeriodTimer, Goto, ReturnWith, FirstStop, TimerSet, TimerFails, progVars, exitVars,
     resVars, groupVars, jobVars, memVars, watcherVars, config, memory, Held, AlignedHeap,
     Profiling, SamplerHas, GroupHas, Timers
<1>14. Mastered'
  BY <1>1, <1>2
  DEF PeriodTimer, Goto, ReturnWith, FirstStop, TimerSet, TimerFails, progVars, exitVars,
     resVars, groupVars, jobVars, memVars, watcherVars, config, memory, Mastered, Running,
     SetupSteps, JobSteps, UntilOnExit, UntilSigint, UntilNames
<1>15. Interrupted'
  BY <1>1, <1>2
  DEF PeriodTimer, Goto, ReturnWith, FirstStop, TimerSet, TimerFails, progVars, exitVars,
     resVars, groupVars, jobVars, memVars, watcherVars, config, memory, Interrupted,
     SwitchAgrees, Profiling, Kept, SamplerHas, GroupHas, StopSteps, Over, ToData,
     ToWatcher, ToOptions, ToOutput, ToSampler, ToDeadline, ToPeriod, ToPmcs
<1>16. Written'
  BY <1>1, <1>2
  DEF PeriodTimer, Goto, ReturnWith, FirstStop, TimerSet, TimerFails, progVars, exitVars,
     resVars, groupVars, jobVars, memVars, watcherVars, config, memory, Written,
     ParsedConsistent
<1> QED
  BY <1>3, <1>4, <1>5, <1>6, <1>7, <1>8, <1>9, <1>10, <1>11, <1>12, <1>13, <1>14, <1>15,
     <1>16 DEF IInv
-----------------------------------------------------------------------------
(* The jobs                                                                *)

(* The head of the loop.                                                   *)
LEMMA LoopKeeps == ASSUME IInv, Loop PROVE IInv'
<1>1. ProgType /\ ExitType /\ ResType /\ JobType /\ MemType /\ Fresh /\ Whose
      /\ HeapKept /\ RoomKept /\ Counted /\ Held /\ Mastered /\ Interrupted /\ Written
  BY DEF IInv
<1>2. WatcherTypeOK'
  BY <1>1, MemoryStays DEF Loop, MemType, memVars
<1>3. ProgType'
  BY <1>1, <1>2
  DEF Loop, Goto, ReturnWith, FirstStop, Periodic, progVars, exitVars, resVars, groupVars,
     jobVars, memVars, watcherVars, config, memory, ProgType
<1>4. ExitType'
  <2>1. pc' \in {"wait", "start", "last", "stopThreads", "exited"}
    BY DEF Loop, Goto, ReturnWith, FirstStop
  <2>2. UNCHANGED <<exit, status>> \/ (exit' = "return" /\ status' = "success")
    BY DEF Loop, Goto, ReturnWith, FirstStop, exitVars
  <2>3. UNCHANGED <<at, hooks>>
    BY DEF Loop, Goto, ReturnWith, exitVars
  <2> QED
    BY <1>1, <2>1, <2>2, <2>3 DEF ExitType, SetupSteps, JobSteps, StopSteps, Over
<1>5. ResType'
  BY <1>1, <1>2
  DEF Loop, Goto, ReturnWith, FirstStop, Periodic, progVars, exitVars, resVars, groupVars,
     jobVars, memVars, watcherVars, config, memory, ResType, Resources
<1>6. JobType'
  BY <1>1, <1>2
  DEF Loop, Goto, ReturnWith, FirstStop, Periodic, progVars, exitVars, resVars, groupVars,
     jobVars, memVars, watcherVars, config, memory, JobType
<1>7. MemType'
  BY <1>1, <1>2
  DEF Loop, Goto, ReturnWith, FirstStop, Periodic, progVars, exitVars, resVars, groupVars,
     jobVars, memVars, watcherVars, config, memory, MemType
<1>8. Fresh'
  BY <1>1, <1>2
  DEF Loop, Goto, ReturnWith, FirstStop, Periodic, progVars, exitVars, resVars, groupVars,
     jobVars, memVars, watcherVars, config, memory, Fresh, Wrapped, Later, Known, Running,
     SetupSteps, JobSteps, UntilOnExit, UntilSigint, UntilNames, UntilWatcher, UntilData,
     UntilHeader, UntilThread, UntilOutput, UntilFopen
<1>9. Whose'
  BY <1>1, <1>2
  DEF Loop, Goto, ReturnWith, FirstStop, Periodic, progVars, exitVars, resVars, groupVars,
     jobVars, memVars, watcherVars, config, memory, Whose, AfterWatcher,
     FreedByItsAllocator, Fixed, Over, UntilOnExit, UntilSigint, UntilNames, UntilWatcher
<1>10. HeapKept'
  BY <1>1, <1>2
  DEF Loop, Goto, ReturnWith, FirstStop, Periodic, progVars, exitVars, resVars, groupVars,
     jobVars, memVars, watcherVars, config, memory, HeapKept, Fixed, UntilOnExit,
     UntilSigint, UntilNames, UntilWatcher
<1>11. RoomKept'
  BY <1>1, <1>2
  DEF Loop, Goto, ReturnWith, FirstStop, Periodic, progVars, exitVars, resVars, groupVars,
     jobVars, memVars, watcherVars, config, memory, RoomKept, Taken, Allocated
<1>12. Counted'
  <2>1. /\ pc = "loop" /\ jobs \in Nat /\ opts.tasks_to_launch \in Nat
        /\ UNCHANGED <<jobs, opts, hooks, held, outcome>>
    BY <1>1, LineNumbers
       DEF Loop, Goto, ReturnWith, JobType, ProgType, ExecutionOptions, progVars, resVars, jobVars,
           exitVars
  <2>2. CASE jobs < opts.tasks_to_launch \/ opts.tasks_to_launch = 0
    <3>1. pc' \in {"wait", "start"} /\ UNCHANGED <<exit, status>>
      BY <2>2 DEF Loop, Goto, exitVars
    <3> QED
      BY <1>1, <2>1, <2>2, <3>1
         DEF Counted, Profiling, Running, SetupSteps, JobSteps, StopSteps, Over, UntilOnExit,
               UntilSigint
  <2>3. CASE ~ (jobs < opts.tasks_to_launch \/ opts.tasks_to_launch = 0)
    <3>1. jobs = opts.tasks_to_launch /\ jobs > 0
      BY <1>1, <2>1, <2>3 DEF Counted
    <3>2. \/ pc' = "last" /\ UNCHANGED <<exit, status>>
          \/ pc' \in {"stopThreads", "exited"} /\ exit' = "return"
      BY <2>3 DEF Loop, Goto, ReturnWith, FirstStop, exitVars
    <3> QED
      BY <1>1, <2>1, <3>1, <3>2
         DEF Counted, Profiling, Running, SetupSteps, JobSteps, StopSteps, Over, UntilOnExit,
               UntilSigint
  <2> QED
    BY <2>2, <2>3
<1>13. Held'
  BY <1>1, <1>2
  DEF Loop, Goto, ReturnWith, FirstStop, Periodic, progVars, exitVars, resVars, groupVars,
     jobVars, memVars, watcherVars, config, memory, Held, AlignedHeap, Profiling,
     SamplerHas, GroupHas, Timers
<1>14. Mastered'
  BY <1>1, <1>2
  DEF Loop, Goto, ReturnWith, FirstStop, Periodic, progVars, exitVars, resVars, groupVars,
     jobVars, memVars, watcherVars, config, memory, Mastered, Running, SetupSteps, JobSteps,
     UntilOnExit, UntilSigint, UntilNames
<1>15. Interrupted'
  BY <1>1, <1>2
  DEF Loop, Goto, ReturnWith, FirstStop, Periodic, progVars, exitVars, resVars, groupVars,
     jobVars, memVars, watcherVars, config, memory, Interrupted, SwitchAgrees, Profiling,
     Kept, SamplerHas, GroupHas, StopSteps, Over, ToData, ToWatcher, ToOptions, ToOutput,
     ToSampler, ToDeadline, ToPeriod, ToPmcs
<1>16. Written'
  BY <1>1, <1>2
  DEF Loop, Goto, ReturnWith, FirstStop, Periodic, progVars, exitVars, resVars, groupVars,
     jobVars, memVars, watcherVars, config, memory, Written, ParsedConsistent
<1> QED
  BY <1>3, <1>4, <1>5, <1>6, <1>7, <1>8, <1>9, <1>10, <1>11, <1>12, <1>13, <1>14, <1>15,
     <1>16 DEF IInv

(* A period begins.                                                        *)
LEMMA WaitPeriodKeeps == ASSUME IInv, WaitPeriod PROVE IInv'
<1>1. ProgType /\ ExitType /\ ResType /\ JobType /\ MemType /\ Fresh /\ Whose
      /\ HeapKept /\ RoomKept /\ Counted /\ Held /\ Mastered /\ Interrupted /\ Written
  BY DEF IInv
<1>2. WatcherTypeOK'
  BY <1>1, MemoryStays DEF WaitPeriod, MemType, memVars
<1>3. ProgType'
  BY <1>1, <1>2
  DEF WaitPeriod, Goto, progVars, exitVars, resVars, groupVars, jobVars, memVars,
     watcherVars, config, memory, ProgType
<1>4. ExitType'
  BY <1>1, <1>2
  DEF WaitPeriod, Goto, progVars, exitVars, resVars, groupVars, jobVars, memVars,
     watcherVars, config, memory, ExitType, SetupSteps, JobSteps, StopSteps, Over
<1>5. ResType'
  BY <1>1, <1>2
  DEF WaitPeriod, Goto, progVars, exitVars, resVars, groupVars, jobVars, memVars,
     watcherVars, config, memory, ResType, Resources
<1>6. JobType'
  BY <1>1, <1>2
  DEF WaitPeriod, Goto, progVars, exitVars, resVars, groupVars, jobVars, memVars,
     watcherVars, config, memory, JobType
<1>7. MemType'
  BY <1>1, <1>2
  DEF WaitPeriod, Goto, progVars, exitVars, resVars, groupVars, jobVars, memVars,
     watcherVars, config, memory, MemType
<1>8. Fresh'
  BY <1>1, <1>2
  DEF WaitPeriod, Goto, progVars, exitVars, resVars, groupVars, jobVars, memVars,
     watcherVars, config, memory, Fresh, Wrapped, Later, Known, Running, SetupSteps,
     JobSteps, UntilOnExit, UntilSigint, UntilNames, UntilWatcher, UntilData, UntilHeader,
     UntilThread, UntilOutput, UntilFopen
<1>9. Whose'
  BY <1>1, <1>2
  DEF WaitPeriod, Goto, progVars, exitVars, resVars, groupVars, jobVars, memVars,
     watcherVars, config, memory, Whose, AfterWatcher, FreedByItsAllocator, Fixed, Over,
     UntilOnExit, UntilSigint, UntilNames, UntilWatcher
<1>10. HeapKept'
  BY <1>1, <1>2
  DEF WaitPeriod, Goto, progVars, exitVars, resVars, groupVars, jobVars, memVars,
     watcherVars, config, memory, HeapKept, Fixed, UntilOnExit, UntilSigint, UntilNames,
     UntilWatcher
<1>11. RoomKept'
  BY <1>1, <1>2
  DEF WaitPeriod, Goto, progVars, exitVars, resVars, groupVars, jobVars, memVars,
     watcherVars, config, memory, RoomKept, Taken, Allocated
<1>12. Counted'
  BY <1>1, <1>2
  DEF WaitPeriod, Goto, progVars, exitVars, resVars, groupVars, jobVars, memVars,
     watcherVars, config, memory, Counted, Profiling, Running, SetupSteps, JobSteps,
     StopSteps, Over, UntilOnExit, UntilSigint
<1>13. Held'
  BY <1>1, <1>2
  DEF WaitPeriod, Goto, progVars, exitVars, resVars, groupVars, jobVars, memVars,
     watcherVars, config, memory, Held, AlignedHeap, Profiling, SamplerHas, GroupHas, Timers
<1>14. Mastered'
  BY <1>1, <1>2
  DEF WaitPeriod, Goto, progVars, exitVars, resVars, groupVars, jobVars, memVars,
     watcherVars, config, memory, Mastered, Running, SetupSteps, JobSteps, UntilOnExit,
     UntilSigint, UntilNames
<1>15. Interrupted'
  BY <1>1, <1>2
  DEF WaitPeriod, Goto, progVars, exitVars, resVars, groupVars, jobVars, memVars,
     watcherVars, config, memory, Interrupted, SwitchAgrees, Profiling, Kept, SamplerHas,
     GroupHas, StopSteps, Over, ToData, ToWatcher, ToOptions, ToOutput, ToSampler,
     ToDeadline, ToPeriod, ToPmcs
<1>16. Written'
  BY <1>1, <1>2
  DEF WaitPeriod, Goto, progVars, exitVars, resVars, groupVars, jobVars, memVars,
     watcherVars, config, memory, Written, ParsedConsistent
<1> QED
  BY <1>3, <1>4, <1>5, <1>6, <1>7, <1>8, <1>9, <1>10, <1>11, <1>12, <1>13, <1>14, <1>15,
     <1>16 DEF IInv

(* The job takes its memory.                                               *)
LEMMA StartJobKeeps == ASSUME IInv, StartJob PROVE IInv'
<1>1. ProgType /\ ExitType /\ ResType /\ JobType /\ MemType /\ Fresh /\ Whose
      /\ HeapKept /\ RoomKept /\ Counted /\ Held /\ Mastered /\ Interrupted /\ Written
  BY DEF IInv
<1>2. UNCHANGED <<prog, opts, outcome, arg, field, held, pmcs, created, armed, group, master,
      names, posts, synchDone, jobEnded, jobs, expiries, before>>
  BY DEF StartJob, progVars, resVars, groupVars, jobVars, memVars
<1>3. /\ WatcherTypeOK' /\ UNCHANGED <<config, misfreed>>
      /\ owner'["job"] \in {owner["job"], Wraps}
      /\ \A x \in Blocks \ {"job"} : owner'[x] = owner[x]
      /\ watcher \notin Fixed => brk' = brk
      /\ brk' = brk \/ brk' <= heap_size * CellSize
      /\ aborted' \in {aborted, "job"} /\ Known \subseteq Blocks
      /\ \A x \in Blocks : owner[x] \in Owners
  <2>1. WrapMallocOk("job", Threads) \/ WrapMallocAborts("job", Threads) \/ UNCHANGED watcherVars
    BY Zenon DEF StartJob, Allocate, WrapMallocNull
  <2>2. aborted' \in {aborted, "job"}
    BY Zenon DEF StartJob, Allocate
  <2>3. "job" \in Blocks /\ Known \subseteq Blocks /\ owner \in [Blocks -> Owners]
        /\ WatcherTypeOK
    BY <1>1, KnownBlocks DEF Known, Later, Wrapped, MemType, WatcherTypeOK
  <2>4. CASE WrapMallocOk("job", Threads)
    BY <2>2, <2>3, <2>4, WrapMallocDoes
  <2>5. CASE WrapMallocAborts("job", Threads)
    BY <2>2, <2>3, <2>5, WrapMallocAbortsDoes
  <2>6. CASE UNCHANGED watcherVars
    BY <2>2, <2>3, <2>6, MemoryStays DEF watcherVars, memory
  <2> QED
    BY <2>1, <2>4, <2>5, <2>6
<1>4. /\ pc = "start"
      /\ \/ pc' = "run" /\ UNCHANGED exitVars
         \/ pc' \in {"stopThreads", "exited"} /\ exit' \in {"return", "call"}
              /\ status' = "failure" /\ UNCHANGED <<at, hooks>>
  <2>1. Goto("run") \/ CallExit
    BY Zenon DEF StartJob, Allocate
  <2>2. pc = "start"
    BY DEF StartJob
  <2> QED
    BY <2>1, <2>2 DEF Goto, CallExit, FirstStop
<1>5. /\ mt' \in {mt, "enabled"}
      /\ sampling' \in BOOLEAN /\ started' \in BOOLEAN /\ (sampling' => Profiling)
  <2>1. mt' \in {mt, "enabled"}
    BY DEF StartJob
  <2>2. sampling' = Profiling /\ started' = TRUE
    BY DEF StartJob
  <2>3. sampling' \in BOOLEAN
    BY <2>2 DEF Profiling
  <2> QED
    BY <2>1, <2>2, <2>3
<1>6. ProgType'
  BY <1>1, <1>2, <1>3, <1>4, <1>5
  DEF config, exitVars, ProgType
<1>7. ExitType'
  BY <1>1, <1>2, <1>3, <1>4, <1>5
  DEF config, exitVars, ExitType, SetupSteps, JobSteps, StopSteps, Over
<1>8. ResType'
  BY <1>1, <1>2, <1>3, <1>4, <1>5
  DEF config, exitVars, ResType, Resources
<1>9. JobType'
  BY <1>1, <1>2, <1>3, <1>4, <1>5
  DEF config, exitVars, JobType
<1>10. MemType'
  BY <1>1, <1>2, <1>3, <1>4, <1>5
  DEF config, exitVars, MemType, Known, Later, Wrapped
<1>11. Fresh'
  BY <1>1, <1>2, <1>3, <1>4, <1>5
  DEF config, exitVars, Fresh, Wrapped, Later, Known, Running, SetupSteps, JobSteps,
     UntilOnExit, UntilSigint, UntilNames, UntilWatcher, UntilData, UntilHeader,
     UntilThread, UntilOutput, UntilFopen, Owners
<1>12. Whose'
  BY <1>1, <1>2, <1>3, <1>4, <1>5
  DEF config, exitVars, Wraps, Whose, AfterWatcher, FreedByItsAllocator, Fixed, Over,
     UntilOnExit, UntilSigint, UntilNames, UntilWatcher, Known, Later, Wrapped, Owners
<1>13. HeapKept'
  BY <1>1, <1>2, <1>3, <1>4, <1>5
  DEF config, exitVars, HeapKept, Fixed, UntilOnExit, UntilSigint, UntilNames, UntilWatcher
<1>14. RoomKept'
  <2>1. "job" \in Blocks /\ "job" \in Later /\ owner["job"] = "none"
    BY <1>1, KnownBlocks
      DEF StartJob, Fresh, Wrapped, Later, Known, Running, SetupSteps, JobSteps, UntilOnExit,
          UntilSigint, UntilNames, UntilWatcher, UntilData, UntilHeader, UntilThread,
          UntilOutput, UntilFopen, Owners
  <2>2. UNCHANGED before
    BY DEF StartJob
  <2>3. WrapMallocOk("job", Threads) \/ WrapMallocAborts("job", Threads) \/ UNCHANGED watcherVars
    BY Zenon DEF StartJob, Allocate, WrapMallocNull
  <2>4. UNCHANGED watcherVars => RoomKept'
    BY <1>1, <2>2 DEF RoomKept, Taken, Allocated, watcherVars, config, memory
  <2> QED
    BY <1>1, <2>1, <2>2, <2>3, <2>4, RoomAfterWrapMalloc, RoomAfterAbort
<1>15. Counted'
  BY <1>1, <1>2, <1>3, <1>4, <1>5
  DEF config, exitVars, Counted, Profiling, Running, SetupSteps, JobSteps, StopSteps, Over,
     UntilOnExit, UntilSigint
<1>16. Held'
  BY <1>1, <1>2, <1>3, <1>4, <1>5
  DEF config, exitVars, Held, AlignedHeap, Profiling, SamplerHas, GroupHas, Timers, Known,
     Later, Wrapped, Owners
<1>17. Mastered'
  BY <1>1, <1>2, <1>3, <1>4, <1>5
  DEF config, exitVars, Mastered, Running, SetupSteps, JobSteps, UntilOnExit, UntilSigint,
     UntilNames
<1>18. Interrupted'
  BY <1>1, <1>2, <1>3, <1>4, <1>5
  DEF config, exitVars, Interrupted, SwitchAgrees, Profiling, Kept, SamplerHas, GroupHas,
     StopSteps, Over, ToData, ToWatcher, ToOptions, ToOutput, ToSampler, ToDeadline,
     ToPeriod, ToPmcs, Known, Later, Wrapped, Owners
<1>19. Written'
  BY <1>1, <1>2, <1>3, <1>4, <1>5
  DEF config, exitVars, Written, ParsedConsistent
<1> QED
  BY <1>6, <1>7, <1>8, <1>9, <1>10, <1>11, <1>12, <1>13, <1>14, <1>15, <1>16, <1>17, <1>18,
     <1>19 DEF IInv

(* The job gives it back.                                                  *)
LEMMA EndJobKeeps == ASSUME IInv, EndJob PROVE IInv'
<1>1. ProgType /\ ExitType /\ ResType /\ JobType /\ MemType /\ Fresh /\ Whose
      /\ HeapKept /\ RoomKept /\ Counted /\ Held /\ Mastered /\ Interrupted /\ Written
  BY DEF IInv
<1>2. UNCHANGED <<prog, opts, outcome, arg, field, held, pmcs, created, armed, group, master,
      names, posts, synchDone, started, expiries, aborted, before>>
  BY DEF EndJob, progVars, resVars, groupVars, jobVars, memVars
<1>3. /\ WatcherTypeOK' /\ UNCHANGED <<config, extended>>
      /\ \A x \in Blocks : owner[x] \in Owners
      /\ \A x \in Blocks : owner'[x] = IF x \in {"job"} THEN "none" ELSE owner[x]
      /\ misfreed' = misfreed \union {b \in {"job"} : owner[b] \notin {"none", Wraps}}
      /\ watcher \notin Fixed => brk' = brk
      /\ brk' = brk \/ brk' <= heap_size * CellSize
      /\ Known \subseteq Blocks
  <2>1. {"job"} \in SUBSET Blocks /\ Known \subseteq Blocks
    BY KnownBlocks DEF Known, Later, Wrapped
  <2>2. WatcherTypeOK /\ WrapFree({"job"})
    BY <1>1 DEF MemType, EndJob
  <2>3. owner \in [Blocks -> Owners]
    BY <2>2 DEF WatcherTypeOK
  <2> DEFINE B == {"job"}
  <2>4. B \in SUBSET Blocks /\ WrapFree(B)
    BY <2>1, <2>2
  <2> HIDE DEF B
  <2>5. /\ WatcherTypeOK' /\ UNCHANGED <<config, extended>>
        /\ owner' = [b \in Blocks |-> IF b \in B THEN "none" ELSE owner[b]]
        /\ misfreed' = misfreed \union {b \in B : owner[b] \notin {"none", Wraps}}
        /\ watcher \notin Fixed => brk' = brk
        /\ brk' = brk \/ brk' <= heap_size * CellSize
    BY <2>2, <2>4, WrapFreeDoes
  <2>6. \A x \in Blocks : owner'[x] = IF x \in B THEN "none" ELSE owner[x]
    BY <2>5
  <2> QED
    BY <2>1, <2>3, <2>5, <2>6 DEF B
<1>4. pc = "run" /\ pc' \in {"loop"} /\ UNCHANGED exitVars
  BY DEF EndJob, Goto, ReturnWith, FirstStop, CallExit, Crash
<1>5. /\ mt' \in {mt, "waiting_end"} /\ sampling' = FALSE
      /\ jobs' = jobs + 1 /\ jobEnded' \in BOOLEAN
      /\ jobs \in Nat /\ jobs + 1 \in Nat /\ opts.tasks_to_launch \in Nat
  <2>1. mt' \in {mt, "waiting_end"} /\ jobs' = jobs + 1
    BY DEF EndJob
  <2>2. sampling' = FALSE /\ jobEnded' = ~ Continuous
    BY DEF EndJob
  <2>3. jobEnded' \in BOOLEAN
    BY <2>2 DEF Continuous
  <2>4. jobs \in Nat /\ opts.tasks_to_launch \in Nat
    BY <1>1, LineNumbers DEF JobType, ProgType, ExecutionOptions
  <2> QED
    BY <2>1, <2>2, <2>3, <2>4
<1>6. ProgType'
  BY <1>1, <1>2, <1>3, <1>4, <1>5
  DEF config, exitVars, ProgType
<1>7. ExitType'
  BY <1>1, <1>2, <1>3, <1>4, <1>5
  DEF config, exitVars, ExitType, SetupSteps, JobSteps, StopSteps, Over
<1>8. ResType'
  BY <1>1, <1>2, <1>3, <1>4, <1>5
  DEF config, exitVars, ResType, Resources
<1>9. JobType'
  BY <1>1, <1>2, <1>3, <1>4, <1>5
  DEF config, exitVars, JobType
<1>10. MemType'
  BY <1>1, <1>2, <1>3, <1>4, <1>5
  DEF config, exitVars, MemType, Known, Later, Wrapped
<1>11. Fresh'
  BY <1>1, <1>2, <1>3, <1>4, <1>5
  DEF config, exitVars, Fresh, Wrapped, Later, Known, Running, SetupSteps, JobSteps,
     UntilOnExit, UntilSigint, UntilNames, UntilWatcher, UntilData, UntilHeader,
     UntilThread, UntilOutput, UntilFopen, Owners
<1>12. Whose'
  BY <1>1, <1>2, <1>3, <1>4, <1>5
  DEF config, exitVars, Wraps, Whose, AfterWatcher, FreedByItsAllocator, Fixed, Over,
     UntilOnExit, UntilSigint, UntilNames, UntilWatcher, Known, Later, Wrapped, Owners
<1>13. HeapKept'
  BY <1>1, <1>2, <1>3, <1>4, <1>5
  DEF config, exitVars, HeapKept, Fixed, UntilOnExit, UntilSigint, UntilNames, UntilWatcher
<1>14. RoomKept'
  <2>1. {"job"} \in SUBSET Blocks
    BY KnownBlocks DEF Known, Later, Wrapped
  <2>2. WrapFree({"job"}) /\ UNCHANGED before
    BY DEF EndJob
  <2>3. watcher = "enabled" => \A b \in Blocks : owner[b] # "dl"
    BY <1>1
      DEF EndJob, StopStep, Wraps, Whose, AfterWatcher, FreedByItsAllocator, Fixed, Over,
          UntilOnExit, UntilSigint, UntilNames, UntilWatcher, Known, Later, Wrapped, Owners
  <2> QED
    BY <1>1, <2>1, <2>2, <2>3, RoomAfterFree
<1>15. Counted'
  BY <1>1, <1>2, <1>3, <1>4, <1>5
  DEF config, exitVars, Counted, Profiling, Running, SetupSteps, JobSteps, StopSteps, Over,
     UntilOnExit, UntilSigint
<1>16. Held'
  BY <1>1, <1>2, <1>3, <1>4, <1>5
  DEF config, exitVars, Held, AlignedHeap, Profiling, SamplerHas, GroupHas, Timers, Known,
     Later, Wrapped, Owners
<1>17. Mastered'
  BY <1>1, <1>2, <1>3, <1>4, <1>5
  DEF config, exitVars, Mastered, Running, SetupSteps, JobSteps, UntilOnExit, UntilSigint,
     UntilNames
<1>18. Interrupted'
  BY <1>1, <1>2, <1>3, <1>4, <1>5
  DEF config, exitVars, Interrupted, SwitchAgrees, Profiling, Kept, SamplerHas, GroupHas,
     StopSteps, Over, ToData, ToWatcher, ToOptions, ToOutput, ToSampler, ToDeadline,
     ToPeriod, ToPmcs, Known, Later, Wrapped, Owners
<1>19. Written'
  BY <1>1, <1>2, <1>3, <1>4, <1>5
  DEF config, exitVars, Written, ParsedConsistent
<1> QED
  BY <1>6, <1>7, <1>8, <1>9, <1>10, <1>11, <1>12, <1>13, <1>14, <1>15, <1>16, <1>17, <1>18,
     <1>19 DEF IInv

(* The last period is over.                                                *)
LEMMA LastPeriodKeeps == ASSUME IInv, LastPeriod PROVE IInv'
<1>1. ProgType /\ ExitType /\ ResType /\ JobType /\ MemType /\ Fresh /\ Whose
      /\ HeapKept /\ RoomKept /\ Counted /\ Held /\ Mastered /\ Interrupted /\ Written
  BY DEF IInv
<1>2. WatcherTypeOK'
  BY <1>1, MemoryStays DEF LastPeriod, MemType, memVars
<1>3. ProgType'
  BY <1>1, <1>2
  DEF LastPeriod, Goto, ReturnWith, FirstStop, progVars, exitVars, resVars, groupVars,
     jobVars, memVars, watcherVars, config, memory, ProgType
<1>4. ExitType'
  BY <1>1, <1>2
  DEF LastPeriod, Goto, ReturnWith, FirstStop, progVars, exitVars, resVars, groupVars,
     jobVars, memVars, watcherVars, config, memory, ExitType, SetupSteps, JobSteps,
     StopSteps, Over
<1>5. ResType'
  BY <1>1, <1>2
  DEF LastPeriod, Goto, ReturnWith, FirstStop, progVars, exitVars, resVars, groupVars,
     jobVars, memVars, watcherVars, config, memory, ResType, Resources
<1>6. JobType'
  BY <1>1, <1>2
  DEF LastPeriod, Goto, ReturnWith, FirstStop, progVars, exitVars, resVars, groupVars,
     jobVars, memVars, watcherVars, config, memory, JobType
<1>7. MemType'
  BY <1>1, <1>2
  DEF LastPeriod, Goto, ReturnWith, FirstStop, progVars, exitVars, resVars, groupVars,
     jobVars, memVars, watcherVars, config, memory, MemType
<1>8. Fresh'
  BY <1>1, <1>2
  DEF LastPeriod, Goto, ReturnWith, FirstStop, progVars, exitVars, resVars, groupVars,
     jobVars, memVars, watcherVars, config, memory, Fresh, Wrapped, Later, Known, Running,
     SetupSteps, JobSteps, UntilOnExit, UntilSigint, UntilNames, UntilWatcher, UntilData,
     UntilHeader, UntilThread, UntilOutput, UntilFopen
<1>9. Whose'
  BY <1>1, <1>2
  DEF LastPeriod, Goto, ReturnWith, FirstStop, progVars, exitVars, resVars, groupVars,
     jobVars, memVars, watcherVars, config, memory, Whose, AfterWatcher,
     FreedByItsAllocator, Fixed, Over, UntilOnExit, UntilSigint, UntilNames, UntilWatcher
<1>10. HeapKept'
  BY <1>1, <1>2
  DEF LastPeriod, Goto, ReturnWith, FirstStop, progVars, exitVars, resVars, groupVars,
     jobVars, memVars, watcherVars, config, memory, HeapKept, Fixed, UntilOnExit,
     UntilSigint, UntilNames, UntilWatcher
<1>11. RoomKept'
  BY <1>1, <1>2
  DEF LastPeriod, Goto, ReturnWith, FirstStop, progVars, exitVars, resVars, groupVars,
     jobVars, memVars, watcherVars, config, memory, RoomKept, Taken, Allocated
<1>12. Counted'
  BY <1>1, <1>2
  DEF LastPeriod, Goto, ReturnWith, FirstStop, progVars, exitVars, resVars, groupVars,
     jobVars, memVars, watcherVars, config, memory, Counted, Profiling, Running, SetupSteps,
     JobSteps, StopSteps, Over, UntilOnExit, UntilSigint
<1>13. Held'
  BY <1>1, <1>2
  DEF LastPeriod, Goto, ReturnWith, FirstStop, progVars, exitVars, resVars, groupVars,
     jobVars, memVars, watcherVars, config, memory, Held, AlignedHeap, Profiling,
     SamplerHas, GroupHas, Timers
<1>14. Mastered'
  BY <1>1, <1>2
  DEF LastPeriod, Goto, ReturnWith, FirstStop, progVars, exitVars, resVars, groupVars,
     jobVars, memVars, watcherVars, config, memory, Mastered, Running, SetupSteps, JobSteps,
     UntilOnExit, UntilSigint, UntilNames
<1>15. Interrupted'
  BY <1>1, <1>2
  DEF LastPeriod, Goto, ReturnWith, FirstStop, progVars, exitVars, resVars, groupVars,
     jobVars, memVars, watcherVars, config, memory, Interrupted, SwitchAgrees, Profiling,
     Kept, SamplerHas, GroupHas, StopSteps, Over, ToData, ToWatcher, ToOptions, ToOutput,
     ToSampler, ToDeadline, ToPeriod, ToPmcs
<1>16. Written'
  BY <1>1, <1>2
  DEF LastPeriod, Goto, ReturnWith, FirstStop, progVars, exitVars, resVars, groupVars,
     jobVars, memVars, watcherVars, config, memory, Written, ParsedConsistent
<1> QED
  BY <1>3, <1>4, <1>5, <1>6, <1>7, <1>8, <1>9, <1>10, <1>11, <1>12, <1>13, <1>14, <1>15,
     <1>16 DEF IInv

(* The sampler's thread takes another buffer.                              *)
LEMMA AddSampleBufferKeeps == ASSUME IInv, AddSampleBuffer PROVE IInv'
<1>1. ProgType /\ ExitType /\ ResType /\ JobType /\ MemType /\ Fresh /\ Whose
      /\ HeapKept /\ RoomKept /\ Counted /\ Held /\ Mastered /\ Interrupted /\ Written
  BY DEF IInv
<1>2. UNCHANGED <<prog, opts, outcome, arg, field, held, pmcs, created, armed, group, master,
      names, mt, sampling, posts, synchDone, started, jobEnded, jobs, expiries, aborted,
      before>>
  BY DEF AddSampleBuffer, progVars, resVars, groupVars, jobVars, memVars
<1>3. /\ WatcherTypeOK' /\ UNCHANGED <<config, brk, misfreed>>
      /\ owner'["moreSamples"] \in {owner["moreSamples"], "libc"}
      /\ \A x \in Blocks \ {"moreSamples"} : owner'[x] = owner[x]
      /\ Known \subseteq Blocks
      /\ \A x \in Blocks : owner[x] \in Owners
  <2>1. RealMalloc("moreSamples") \/ UNCHANGED watcherVars
    BY DEF AddSampleBuffer
  <2>2. "moreSamples" \in Blocks /\ Known \subseteq Blocks /\ owner \in [Blocks -> Owners]
        /\ WatcherTypeOK
    BY <1>1, KnownBlocks DEF Known, Later, Wrapped, MemType, WatcherTypeOK
  <2>3. CASE RealMalloc("moreSamples")
    BY <2>2, <2>3, RealMallocDoes
  <2>4. CASE UNCHANGED watcherVars
    BY <2>2, <2>4, MemoryStays DEF watcherVars, memory
  <2> QED
    BY <2>1, <2>3, <2>4
<1>4. /\ UNCHANGED <<pc, exitVars>> /\ pc \notin Over
      /\ "sampler" \in held /\ sampling
  BY DEF AddSampleBuffer
<1>5. ProgType'
  BY <1>1, <1>2, <1>3, <1>4
  DEF config, exitVars, ProgType
<1>6. ExitType'
  BY <1>1, <1>2, <1>3, <1>4
  DEF config, exitVars, ExitType, SetupSteps, JobSteps, StopSteps, Over
<1>7. ResType'
  BY <1>1, <1>2, <1>3, <1>4
  DEF config, exitVars, ResType, Resources
<1>8. JobType'
  BY <1>1, <1>2, <1>3, <1>4
  DEF config, exitVars, JobType
<1>9. MemType'
  BY <1>1, <1>2, <1>3, <1>4
  DEF config, exitVars, MemType, Known, Later, Wrapped
<1>10. Fresh'
  BY <1>1, <1>2, <1>3, <1>4
  DEF config, exitVars, Fresh, Wrapped, Later, Known, Running, SetupSteps, JobSteps,
     UntilOnExit, UntilSigint, UntilNames, UntilWatcher, UntilData, UntilHeader,
     UntilThread, UntilOutput, UntilFopen, Owners
<1>11. Whose'
  BY <1>1, <1>2, <1>3, <1>4
  DEF config, exitVars, Wraps, Whose, AfterWatcher, FreedByItsAllocator, Fixed, Over,
     UntilOnExit, UntilSigint, UntilNames, UntilWatcher, Known, Later, Wrapped, Owners
<1>12. HeapKept'
  BY <1>1, <1>2, <1>3, <1>4
  DEF config, exitVars, HeapKept, Fixed, UntilOnExit, UntilSigint, UntilNames, UntilWatcher
<1>13. RoomKept'
  <2>1. "moreSamples" \in Blocks /\ "moreSamples" \in Later
    BY KnownBlocks DEF Known, Later, Wrapped
  <2>2. UNCHANGED before /\ owner["moreSamples"] = "none"
    BY DEF AddSampleBuffer
  <2>3. RealMalloc("moreSamples") \/ UNCHANGED watcherVars
    BY DEF AddSampleBuffer
  <2>4. UNCHANGED watcherVars => RoomKept'
    BY <1>1, <2>2 DEF RoomKept, Taken, Allocated, watcherVars, config, memory
  <2> QED
    BY <1>1, <2>1, <2>2, <2>3, <2>4, RoomAfterMalloc DEF MemType
<1>14. Counted'
  BY <1>1, <1>2, <1>3, <1>4
  DEF config, exitVars, Counted, Profiling, Running, SetupSteps, JobSteps, StopSteps, Over,
     UntilOnExit, UntilSigint
<1>15. Held'
  BY <1>1, <1>2, <1>3, <1>4
  DEF config, exitVars, Held, AlignedHeap, Profiling, SamplerHas, GroupHas, Timers, Known,
     Later, Wrapped, Owners
<1>16. Mastered'
  BY <1>1, <1>2, <1>3, <1>4
  DEF config, exitVars, Mastered, Running, SetupSteps, JobSteps, UntilOnExit, UntilSigint,
     UntilNames
<1>17. Interrupted'
  BY <1>1, <1>2, <1>3, <1>4
  DEF config, exitVars, Interrupted, SwitchAgrees, Profiling, Kept, SamplerHas, GroupHas,
     StopSteps, Over, ToData, ToWatcher, ToOptions, ToOutput, ToSampler, ToDeadline,
     ToPeriod, ToPmcs, Known, Later, Wrapped, Owners
<1>18. Written'
  BY <1>1, <1>2, <1>3, <1>4
  DEF config, exitVars, Written, ParsedConsistent
<1> QED
  BY <1>5, <1>6, <1>7, <1>8, <1>9, <1>10, <1>11, <1>12, <1>13, <1>14, <1>15, <1>16, <1>17,
     <1>18 DEF IInv
-----------------------------------------------------------------------------
(* The signals                                                             *)

(* period_handler() runs.                                                  *)
LEMMA PeriodExpiresKeeps == ASSUME IInv, PeriodExpires PROVE IInv'
<1>1. ProgType /\ ExitType /\ ResType /\ JobType /\ MemType /\ Fresh /\ Whose
      /\ HeapKept /\ RoomKept /\ Counted /\ Held /\ Mastered /\ Interrupted /\ Written
  BY DEF IInv
<1>2. WatcherTypeOK'
  BY <1>1, MemoryStays DEF PeriodExpires, MemType, memVars
<1>3. ProgType'
  BY <1>1, <1>2
  DEF PeriodExpires, ExitFrom, FirstStop, progVars, exitVars, resVars, groupVars, jobVars,
     memVars, watcherVars, config, memory, ProgType
<1>4. ExitType'
  <2>1. \/ UNCHANGED <<pc, exitVars>>
        \/ /\ pc' \in {"stopThreads", "exited"} /\ exit' \in {"handler", "again"}
           /\ status' = "failure" /\ UNCHANGED <<at, hooks>>
    BY DEF PeriodExpires, ExitFrom, FirstStop
  <2> QED
    BY <1>1, <2>1 DEF ExitType, exitVars, StopSteps, Over
<1>5. ResType'
  BY <1>1, <1>2
  DEF PeriodExpires, ExitFrom, FirstStop, progVars, exitVars, resVars, groupVars, jobVars,
     memVars, watcherVars, config, memory, ResType, Resources
<1>6. JobType'
  <2>1. /\ UNCHANGED <<mt, sampling, synchDone, jobs>>
        /\ expiries < MaxExpiries /\ expiries' = expiries + 1
    BY DEF PeriodExpires
  <2>2. posts' \in {posts, posts + 1}
    BY DEF PeriodExpires
  <2>3. started' \in {started, TRUE} /\ jobEnded' \in {jobEnded, FALSE}
    BY Zenon DEF PeriodExpires
  <2>4. started' \in BOOLEAN /\ jobEnded' \in BOOLEAN
    BY <1>1, <2>3 DEF JobType
  <2>5. posts' \in Nat /\ expiries' \in 0 .. MaxExpiries
    BY <1>1, <2>1, <2>2, ProcessAssumption DEF JobType, ProcessAssumption
  <2> QED
    BY <1>1, <2>1, <2>4, <2>5 DEF JobType
<1>7. MemType'
  BY <1>1, <1>2
  DEF PeriodExpires, ExitFrom, FirstStop, progVars, exitVars, resVars, groupVars, jobVars,
     memVars, watcherVars, config, memory, MemType
<1>8. Fresh'
  BY <1>1, <1>2
  DEF PeriodExpires, ExitFrom, FirstStop, progVars, exitVars, resVars, groupVars, jobVars,
     memVars, watcherVars, config, memory, Fresh, Wrapped, Later, Known, Running,
     SetupSteps, JobSteps, UntilOnExit, UntilSigint, UntilNames, UntilWatcher, UntilData,
     UntilHeader, UntilThread, UntilOutput, UntilFopen
<1>9. Whose'
  <2>1. \/ UNCHANGED pc
        \/ pc \in Running /\ pc' = "stopThreads"
        \/ pc' = "exited"
    BY <1>1 DEF PeriodExpires, ExitFrom, FirstStop, Counted
  <2>2. pc \notin Over /\ UNCHANGED <<watcher, owner, misfreed>>
    BY DEF PeriodExpires, memVars, watcherVars, config, memory
  <2> QED
    BY <1>1, <2>1, <2>2
    DEF Whose, FreedByItsAllocator, Running, SetupSteps, JobSteps, AfterWatcher, Over,
        UntilWatcher,
        UntilNames, UntilSigint, UntilOnExit
<1>10. HeapKept'
  BY <1>1, <1>2
  DEF PeriodExpires, ExitFrom, FirstStop, progVars, exitVars, resVars, groupVars, jobVars,
     memVars, watcherVars, config, memory, HeapKept, Fixed, UntilOnExit, UntilSigint,
     UntilNames, UntilWatcher
<1>11. RoomKept'
  BY <1>1, <1>2
  DEF PeriodExpires, ExitFrom, FirstStop, progVars, exitVars, resVars, groupVars, jobVars,
     memVars, watcherVars, config, memory, RoomKept, Taken, Allocated
<1>12. Counted'
  BY <1>1, <1>2
  DEF PeriodExpires, ExitFrom, FirstStop, progVars, exitVars, resVars, groupVars, jobVars,
     memVars, watcherVars, config, memory, Counted, Profiling, Running, SetupSteps,
     JobSteps, StopSteps, Over, UntilOnExit, UntilSigint
<1>13. Held'
  BY <1>1, <1>2
  DEF PeriodExpires, ExitFrom, FirstStop, progVars, exitVars, resVars, groupVars, jobVars,
     memVars, watcherVars, config, memory, Held, AlignedHeap, Profiling, SamplerHas,
     GroupHas, Timers
<1>14. Mastered'
  BY <1>1, <1>2
  DEF PeriodExpires, ExitFrom, FirstStop, progVars, exitVars, resVars, groupVars, jobVars,
     memVars, watcherVars, config, memory, Mastered, Running, SetupSteps, JobSteps,
     UntilOnExit, UntilSigint, UntilNames
<1>15. Interrupted'
  BY <1>1, <1>2
  DEF PeriodExpires, ExitFrom, FirstStop, progVars, exitVars, resVars, groupVars, jobVars,
     memVars, watcherVars, config, memory, Interrupted, SwitchAgrees, Profiling, Kept,
     SamplerHas, GroupHas, StopSteps, Over, ToData, ToWatcher, ToOptions, ToOutput,
     ToSampler, ToDeadline, ToPeriod, ToPmcs
<1>16. Written'
  BY <1>1, <1>2
  DEF PeriodExpires, ExitFrom, FirstStop, progVars, exitVars, resVars, groupVars, jobVars,
     memVars, watcherVars, config, memory, Written, ParsedConsistent
<1> QED
  BY <1>3, <1>4, <1>5, <1>6, <1>7, <1>8, <1>9, <1>10, <1>11, <1>12, <1>13, <1>14, <1>15,
     <1>16 DEF IInv

(* quit_handler() runs, or SIGINT kills.                                   *)
LEMMA SigintKeeps == ASSUME IInv, Sigint PROVE IInv'
<1>1. ProgType /\ ExitType /\ ResType /\ JobType /\ MemType /\ Fresh /\ Whose
      /\ HeapKept /\ RoomKept /\ Counted /\ Held /\ Mastered /\ Interrupted /\ Written
  BY DEF IInv
<1>2. WatcherTypeOK'
  BY <1>1, MemoryStays DEF Sigint, MemType, memVars
<1>3. ProgType'
  BY <1>1, <1>2
  DEF Sigint, ExitFrom, FirstStop, Over, progVars, exitVars, resVars, groupVars, jobVars,
     memVars, watcherVars, config, memory, ProgType
<1>4. ExitType'
  <2>1. /\ pc' \in {"stopThreads", "exited", "killed"} /\ UNCHANGED hooks
        /\ exit' \in {exit, "sigint", "again"} /\ status' \in {status, "success"}
    BY DEF Sigint, ExitFrom, FirstStop, exitVars
  <2>2. at' = at \/ (exit = "none" /\ pc \notin Over /\ at' = pc)
    BY DEF Sigint, ExitFrom, exitVars
  <2>3. at' \in {"none"} \union SetupSteps \union JobSteps
    BY <1>1, <2>2 DEF ExitType, Counted, Running
  <2> QED
    BY <1>1, <2>1, <2>3 DEF ExitType, StopSteps, Over
<1>5. ResType'
  BY <1>1, <1>2
  DEF Sigint, ExitFrom, FirstStop, Over, progVars, exitVars, resVars, groupVars, jobVars,
     memVars, watcherVars, config, memory, ResType, Resources
<1>6. JobType'
  BY <1>1, <1>2
  DEF Sigint, ExitFrom, FirstStop, Over, progVars, exitVars, resVars, groupVars, jobVars,
     memVars, watcherVars, config, memory, JobType
<1>7. MemType'
  BY <1>1, <1>2
  DEF Sigint, ExitFrom, FirstStop, Over, progVars, exitVars, resVars, groupVars, jobVars,
     memVars, watcherVars, config, memory, MemType
<1>8. Fresh'
  BY <1>1, <1>2
  DEF Sigint, ExitFrom, FirstStop, Over, progVars, exitVars, resVars, groupVars, jobVars,
     memVars, watcherVars, config, memory, Fresh, Wrapped, Later, Known, Running,
     SetupSteps, JobSteps, UntilOnExit, UntilSigint, UntilNames, UntilWatcher, UntilData,
     UntilHeader, UntilThread, UntilOutput, UntilFopen
<1>9. Whose'
  BY <1>1
    DEF Sigint, ExitFrom, FirstStop, exitVars, memVars, watcherVars, config, memory, Whose,
        FreedByItsAllocator, Fixed, Counted, Running, SetupSteps, JobSteps, AfterWatcher, Over,
        UntilOnExit, UntilSigint, UntilNames, UntilWatcher
<1>10. HeapKept'
  BY <1>1, <1>2
  DEF Sigint, ExitFrom, FirstStop, Over, progVars, exitVars, resVars, groupVars, jobVars,
     memVars, watcherVars, config, memory, HeapKept, Fixed, UntilOnExit, UntilSigint,
     UntilNames, UntilWatcher
<1>11. RoomKept'
  BY <1>1, <1>2
  DEF Sigint, ExitFrom, FirstStop, Over, progVars, exitVars, resVars, groupVars, jobVars,
     memVars, watcherVars, config, memory, RoomKept, Taken, Allocated
<1>12. Counted'
  BY <1>1, <1>2
  DEF Sigint, ExitFrom, FirstStop, Over, progVars, exitVars, resVars, groupVars, jobVars,
     memVars, watcherVars, config, memory, Counted, Profiling, Running, SetupSteps,
     JobSteps, StopSteps, Over, UntilOnExit, UntilSigint
<1>13. Held'
  BY <1>1, <1>2
  DEF Sigint, ExitFrom, FirstStop, Over, progVars, exitVars, resVars, groupVars, jobVars,
     memVars, watcherVars, config, memory, Held, AlignedHeap, Profiling, SamplerHas,
     GroupHas, Timers
<1>14. Mastered'
  BY <1>1, <1>2
  DEF Sigint, ExitFrom, FirstStop, Over, progVars, exitVars, resVars, groupVars, jobVars,
     memVars, watcherVars, config, memory, Mastered, Running, SetupSteps, JobSteps,
     UntilOnExit, UntilSigint, UntilNames
<1>15. Interrupted'
  BY <1>1
    DEF Sigint, ExitFrom, FirstStop, progVars, exitVars, resVars, groupVars, jobVars, memVars,
        watcherVars, config, memory, Counted, Running, SetupSteps, JobSteps, UntilOnExit,
        Mastered, Interrupted, SwitchAgrees, Profiling, Kept, SamplerHas, GroupHas, StopSteps,
        Over, ToData, ToWatcher, ToOptions, ToOutput, ToSampler, ToDeadline, ToPeriod, ToPmcs
<1>16. Written'
  BY <1>1, <1>2
  DEF Sigint, ExitFrom, FirstStop, Over, progVars, exitVars, resVars, groupVars, jobVars,
     memVars, watcherVars, config, memory, Written, ParsedConsistent
<1> QED
  BY <1>3, <1>4, <1>5, <1>6, <1>7, <1>8, <1>9, <1>10, <1>11, <1>12, <1>13, <1>14, <1>15,
     <1>16 DEF IInv
-----------------------------------------------------------------------------
(* stop_benchmark()                                                        *)

(* The threads end.                                                        *)
LEMMA StopThreadsKeeps == ASSUME IInv, StopThreads PROVE IInv'
<1>1. ProgType /\ ExitType /\ ResType /\ JobType /\ MemType /\ Fresh /\ Whose
      /\ HeapKept /\ RoomKept /\ Counted /\ Held /\ Mastered /\ Interrupted /\ Written
  BY DEF IInv
<1>2. UNCHANGED <<prog, opts, outcome, arg, field, pmcs, created, armed, group, master, names,
      sampling, posts, synchDone, started, jobEnded, jobs, expiries, aborted, before>>
  BY DEF StopThreads, progVars, resVars, groupVars, jobVars, memVars
<1>3. /\ WatcherTypeOK' /\ UNCHANGED <<config, extended>>
      /\ \A x \in Blocks : owner[x] \in Owners
      /\ \A x \in Blocks : owner'[x] = IF x \in {"threadInfo"} THEN "none" ELSE owner[x]
      /\ misfreed' = misfreed \union {b \in {"threadInfo"} : owner[b] \notin {"none", Wraps}}
      /\ watcher \notin Fixed => brk' = brk
      /\ brk' = brk \/ brk' <= heap_size * CellSize
      /\ Known \subseteq Blocks
  <2>1. {"threadInfo"} \in SUBSET Blocks /\ Known \subseteq Blocks
    BY KnownBlocks DEF Known, Later, Wrapped
  <2>2. WatcherTypeOK /\ owner \in [Blocks -> Owners]
    BY <1>1 DEF MemType, WatcherTypeOK
  <2>3. WrapFree({"threadInfo"}) \/ (UNCHANGED watcherVars
        /\ \A x \in {"threadInfo"} : owner[x] = "none")
    BY <1>1 DEF StopThreads, Held
  <2> DEFINE B == {"threadInfo"}
  <2>4. B \in SUBSET Blocks
    BY <2>1
  <2>5. WrapFree(B) \/ (UNCHANGED watcherVars /\ \A x \in B : owner[x] = "none")
    BY <2>3
  <2> HIDE DEF B
  <2>6. /\ WatcherTypeOK' /\ UNCHANGED <<config, extended>>
        /\ owner' = [b \in Blocks |-> IF b \in B THEN "none" ELSE owner[b]]
        /\ misfreed' = misfreed \union {b \in B : owner[b] \notin {"none", Wraps}}
        /\ watcher \notin Fixed => brk' = brk
        /\ brk' = brk \/ brk' <= heap_size * CellSize
    <3>1. CASE WrapFree(B)
      BY <2>2, <2>4, <3>1, WrapFreeDoes
    <3>2. CASE UNCHANGED watcherVars /\ \A x \in B : owner[x] = "none"
      <4>1. owner = [b \in Blocks |-> IF b \in B THEN "none" ELSE owner[b]]
        BY <2>2, <3>2
      <4> QED
        BY <2>2, <3>2, <4>1, MemoryStays DEF watcherVars, memory
    <3> QED
      BY <2>5, <3>1, <3>2
  <2>7. \A x \in Blocks : owner'[x] = IF x \in B THEN "none" ELSE owner[x]
    BY <2>6
  <2> QED
    BY <2>1, <2>2, <2>6, <2>7 DEF B
<1>4. pc = "stopThreads" /\ pc' \in {"stopData"} /\ UNCHANGED exitVars
  BY DEF StopThreads, StopStep, Goto, ReturnWith, FirstStop, CallExit, Crash
<1>5. held' = held \ {"threads"} /\ mt' \in {mt, "disabled"}
  BY DEF StopThreads
<1>6. ProgType'
  BY <1>1, <1>2, <1>3, <1>4, <1>5
  DEF config, exitVars, ProgType
<1>7. ExitType'
  BY <1>1, <1>2, <1>3, <1>4, <1>5
  DEF config, exitVars, ExitType, SetupSteps, JobSteps, StopSteps, Over
<1>8. ResType'
  BY <1>1, <1>2, <1>3, <1>4, <1>5
  DEF config, exitVars, ResType, Resources
<1>9. JobType'
  BY <1>1, <1>2, <1>3, <1>4, <1>5
  DEF config, exitVars, JobType
<1>10. MemType'
  BY <1>1, <1>2, <1>3, <1>4, <1>5
  DEF config, exitVars, MemType, Known, Later, Wrapped
<1>11. Fresh'
  BY <1>1, <1>2, <1>3, <1>4, <1>5
  DEF config, exitVars, Fresh, Wrapped, Later, Known, Running, SetupSteps, JobSteps,
     UntilOnExit, UntilSigint, UntilNames, UntilWatcher, UntilData, UntilHeader,
     UntilThread, UntilOutput, UntilFopen, Owners
<1>12. Whose'
  BY <1>1, <1>2, <1>3, <1>4, <1>5
  DEF config, exitVars, Wraps, Whose, AfterWatcher, FreedByItsAllocator, Fixed, Over,
     UntilOnExit, UntilSigint, UntilNames, UntilWatcher, Known, Later, Wrapped, Owners
<1>13. HeapKept'
  BY <1>1, <1>2, <1>3, <1>4, <1>5
  DEF config, exitVars, HeapKept, Fixed, UntilOnExit, UntilSigint, UntilNames, UntilWatcher
<1>14. RoomKept'
  <2>1. {"threadInfo"} \in SUBSET Blocks
    BY KnownBlocks DEF Known, Later, Wrapped
  <2>2. (WrapFree({"threadInfo"}) \/ UNCHANGED watcherVars) /\ UNCHANGED before
    BY DEF StopThreads
  <2>3. watcher = "enabled" => \A b \in Blocks : owner[b] # "dl"
    BY <1>1, <1>4
      DEF Wraps, Whose, AfterWatcher, FreedByItsAllocator, Fixed, Over, UntilOnExit,
          UntilSigint, UntilNames, UntilWatcher, Known, Later, Wrapped, Owners
  <2>4. UNCHANGED watcherVars => RoomKept'
    BY <1>1, <2>2 DEF RoomKept, Taken, Allocated, watcherVars, config, memory
  <2> QED
    BY <1>1, <2>1, <2>2, <2>3, <2>4, RoomAfterFree
<1>15. Counted'
  BY <1>1, <1>2, <1>3, <1>4, <1>5
  DEF config, exitVars, Counted, Profiling, Running, SetupSteps, JobSteps, StopSteps, Over,
     UntilOnExit, UntilSigint
<1>16. Held'
  BY <1>1, <1>2, <1>3, <1>4, <1>5
  DEF config, exitVars, Held, AlignedHeap, Profiling, SamplerHas, GroupHas, Timers, Known,
     Later, Wrapped, Owners
<1>17. Mastered'
  BY <1>1, <1>2, <1>3, <1>4, <1>5
  DEF config, exitVars, Mastered, Running, SetupSteps, JobSteps, UntilOnExit, UntilSigint,
     UntilNames
<1>18. Interrupted'
  BY <1>1, <1>2, <1>3, <1>4, <1>5
  DEF config, exitVars, Interrupted, SwitchAgrees, Profiling, Kept, SamplerHas, GroupHas,
     StopSteps, Over, ToData, ToWatcher, ToOptions, ToOutput, ToSampler, ToDeadline,
     ToPeriod, ToPmcs, Known, Later, Wrapped, Owners
<1>19. Written'
  BY <1>1, <1>2, <1>3, <1>4, <1>5
  DEF config, exitVars, Written, ParsedConsistent
<1> QED
  BY <1>6, <1>7, <1>8, <1>9, <1>10, <1>11, <1>12, <1>13, <1>14, <1>15, <1>16, <1>17, <1>18,
     <1>19 DEF IInv

(* The benchmark's data is freed.                                          *)
LEMMA StopDataKeeps == ASSUME IInv, StopData PROVE IInv'
<1>1. ProgType /\ ExitType /\ ResType /\ JobType /\ MemType /\ Fresh /\ Whose
      /\ HeapKept /\ RoomKept /\ Counted /\ Held /\ Mastered /\ Interrupted /\ Written
  BY DEF IInv
<1>2. UNCHANGED <<prog, opts, outcome, arg, field, held, pmcs, created, armed, group, master,
      names, mt, sampling, posts, synchDone, started, jobEnded, jobs, expiries, aborted,
      before>>
  BY DEF StopData, progVars, resVars, groupVars, jobVars, memVars
<1>3. /\ WatcherTypeOK' /\ UNCHANGED <<config, extended>>
      /\ \A x \in Blocks : owner[x] \in Owners
      /\ \A x \in Blocks : owner'[x] = IF x \in {"data", "header"} THEN "none" ELSE owner[x]
      /\ misfreed' = misfreed \union {b \in {"data", "header"} : owner[b] \notin {"none", Wraps}}
      /\ watcher \notin Fixed => brk' = brk
      /\ brk' = brk \/ brk' <= heap_size * CellSize
      /\ Known \subseteq Blocks
  <2>1. {"data", "header"} \in SUBSET Blocks /\ Known \subseteq Blocks
    BY KnownBlocks DEF Known, Later, Wrapped
  <2>2. WatcherTypeOK /\ WrapFree({"data", "header"})
    BY <1>1 DEF MemType, StopData
  <2>3. owner \in [Blocks -> Owners]
    BY <2>2 DEF WatcherTypeOK
  <2> DEFINE B == {"data", "header"}
  <2>4. B \in SUBSET Blocks /\ WrapFree(B)
    BY <2>1, <2>2
  <2> HIDE DEF B
  <2>5. /\ WatcherTypeOK' /\ UNCHANGED <<config, extended>>
        /\ owner' = [b \in Blocks |-> IF b \in B THEN "none" ELSE owner[b]]
        /\ misfreed' = misfreed \union {b \in B : owner[b] \notin {"none", Wraps}}
        /\ watcher \notin Fixed => brk' = brk
        /\ brk' = brk \/ brk' <= heap_size * CellSize
    BY <2>2, <2>4, WrapFreeDoes
  <2>6. \A x \in Blocks : owner'[x] = IF x \in B THEN "none" ELSE owner[x]
    BY <2>5
  <2> QED
    BY <2>1, <2>3, <2>5, <2>6 DEF B
<1>4. pc = "stopData" /\ pc' \in {"stopWatcher"} /\ UNCHANGED exitVars
  BY DEF StopData, StopStep, Goto, ReturnWith, FirstStop, CallExit, Crash
<1>5. ProgType'
  BY <1>1, <1>2, <1>3, <1>4
  DEF config, exitVars, ProgType
<1>6. ExitType'
  BY <1>1, <1>2, <1>3, <1>4
  DEF config, exitVars, ExitType, SetupSteps, JobSteps, StopSteps, Over
<1>7. ResType'
  BY <1>1, <1>2, <1>3, <1>4
  DEF config, exitVars, ResType, Resources
<1>8. JobType'
  BY <1>1, <1>2, <1>3, <1>4
  DEF config, exitVars, JobType
<1>9. MemType'
  BY <1>1, <1>2, <1>3, <1>4
  DEF config, exitVars, MemType, Known, Later, Wrapped
<1>10. Fresh'
  BY <1>1, <1>2, <1>3, <1>4
  DEF config, exitVars, Fresh, Wrapped, Later, Known, Running, SetupSteps, JobSteps,
     UntilOnExit, UntilSigint, UntilNames, UntilWatcher, UntilData, UntilHeader,
     UntilThread, UntilOutput, UntilFopen, Owners
<1>11. Whose'
  BY <1>1, <1>2, <1>3, <1>4
  DEF config, exitVars, Wraps, Whose, AfterWatcher, FreedByItsAllocator, Fixed, Over,
     UntilOnExit, UntilSigint, UntilNames, UntilWatcher, Known, Later, Wrapped, Owners
<1>12. HeapKept'
  BY <1>1, <1>2, <1>3, <1>4
  DEF config, exitVars, HeapKept, Fixed, UntilOnExit, UntilSigint, UntilNames, UntilWatcher
<1>13. RoomKept'
  <2>1. {"data", "header"} \in SUBSET Blocks
    BY KnownBlocks DEF Known, Later, Wrapped
  <2>2. WrapFree({"data", "header"}) /\ UNCHANGED before
    BY DEF StopData
  <2>3. watcher = "enabled" => \A b \in Blocks : owner[b] # "dl"
    BY <1>1
      DEF StopData, StopStep, Wraps, Whose, AfterWatcher, FreedByItsAllocator, Fixed, Over,
          UntilOnExit, UntilSigint, UntilNames, UntilWatcher, Known, Later, Wrapped, Owners
  <2> QED
    BY <1>1, <2>1, <2>2, <2>3, RoomAfterFree
<1>14. Counted'
  BY <1>1, <1>2, <1>3, <1>4
  DEF config, exitVars, Counted, Profiling, Running, SetupSteps, JobSteps, StopSteps, Over,
     UntilOnExit, UntilSigint
<1>15. Held'
  BY <1>1, <1>2, <1>3, <1>4
  DEF config, exitVars, Held, AlignedHeap, Profiling, SamplerHas, GroupHas, Timers, Known,
     Later, Wrapped, Owners
<1>16. Mastered'
  BY <1>1, <1>2, <1>3, <1>4
  DEF config, exitVars, Mastered, Running, SetupSteps, JobSteps, UntilOnExit, UntilSigint,
     UntilNames
<1>17. Interrupted'
  BY <1>1, <1>2, <1>3, <1>4
  DEF config, exitVars, Interrupted, SwitchAgrees, Profiling, Kept, SamplerHas, GroupHas,
     StopSteps, Over, ToData, ToWatcher, ToOptions, ToOutput, ToSampler, ToDeadline,
     ToPeriod, ToPmcs, Known, Later, Wrapped, Owners
<1>18. Written'
  BY <1>1, <1>2, <1>3, <1>4
  DEF config, exitVars, Written, ParsedConsistent
<1> QED
  BY <1>5, <1>6, <1>7, <1>8, <1>9, <1>10, <1>11, <1>12, <1>13, <1>14, <1>15, <1>16, <1>17,
     <1>18 DEF IInv

(* The watcher stops.                                                      *)
LEMMA StopWatcherKeeps == ASSUME IInv, StopWatcher PROVE IInv'
<1>1. ProgType /\ ExitType /\ ResType /\ JobType /\ MemType /\ Fresh /\ Whose
      /\ HeapKept /\ RoomKept /\ Counted /\ Held /\ Mastered /\ Interrupted /\ Written
  BY DEF IInv
<1>2. UNCHANGED <<prog, opts, outcome, arg, field, held, pmcs, created, armed, group, master,
      names, mt, sampling, posts, synchDone, started, jobEnded, jobs, expiries, aborted,
      before>>
  BY DEF StopWatcher, progVars, resVars, groupVars, jobVars, memVars
<1>3. /\ WatcherTypeOK' /\ watcher' = "disabled"
      /\ UNCHANGED <<heap_size, shift, memory>>
      /\ fds' = {} /\ (AlignedHeap => mapped' = 0)
  <2>1. StopMemoryWatcher /\ WatcherTypeOK
    BY <1>1 DEF StopWatcher, MemType
  <2>2. WatcherTypeOK' /\ watcher' = "disabled" /\ UNCHANGED <<heap_size, shift, memory>>
    BY <2>1, StopDoes
  <2>3. watcher \in Fixed /\ AlignedHeap => shift % PageSize = 0
    <3>1. CellSize \in Nat /\ PageSize \in Nat \ {0}
      BY NumbersHold DEF Numbers
    <3>2. 0 * CellSize = 0 /\ 0 % PageSize = 0
      BY <3>1
    <3> QED
      BY <1>1, <3>2 DEF HeapKept, AlignedHeap
  <2>4. fds' = {} /\ (AlignedHeap => mapped' = 0)
    BY <1>1, <2>1, <2>3 DEF StopMemoryWatcher, Held, Fixed, watcherVars, config
  <2> QED
    BY <2>2, <2>4
<1>4. pc = "stopWatcher" /\ pc' \in {"stopOptions"} /\ UNCHANGED exitVars
  BY DEF StopWatcher, StopStep, Goto, ReturnWith, FirstStop, CallExit, Crash
<1>5. ProgType'
  BY <1>1, <1>2, <1>3, <1>4
  DEF config, exitVars, memory, ProgType
<1>6. ExitType'
  BY <1>1, <1>2, <1>3, <1>4
  DEF config, exitVars, memory, ExitType, SetupSteps, JobSteps, StopSteps, Over
<1>7. ResType'
  BY <1>1, <1>2, <1>3, <1>4
  DEF config, exitVars, memory, ResType, Resources
<1>8. JobType'
  BY <1>1, <1>2, <1>3, <1>4
  DEF config, exitVars, memory, JobType
<1>9. MemType'
  BY <1>1, <1>2, <1>3, <1>4
  DEF config, exitVars, memory, MemType, Known, Later, Wrapped
<1>10. Fresh'
  BY <1>1, <1>2, <1>3, <1>4
  DEF config, exitVars, memory, Fresh, Wrapped, Later, Known, Running, SetupSteps, JobSteps,
     UntilOnExit, UntilSigint, UntilNames, UntilWatcher, UntilData, UntilHeader,
     UntilThread, UntilOutput, UntilFopen, Owners
<1>11. Whose'
  BY <1>1, <1>2, <1>3, <1>4
  DEF config, exitVars, memory, Wraps, Whose, AfterWatcher, FreedByItsAllocator, Fixed, Over,
     UntilOnExit, UntilSigint, UntilNames, UntilWatcher, Known, Later, Wrapped, Owners
<1>12. HeapKept'
  BY <1>1, <1>2, <1>3, <1>4
  DEF config, exitVars, memory, HeapKept, Fixed, UntilOnExit, UntilSigint, UntilNames, UntilWatcher
<1>13. RoomKept'
  <2>1. watcher' # "enabled" /\ UNCHANGED before
    BY <1>2, <1>3
  <2> QED
    BY <1>1, <2>1 DEF RoomKept
<1>14. Counted'
  BY <1>1, <1>2, <1>3, <1>4
  DEF config, exitVars, memory, Counted, Profiling, Running, SetupSteps, JobSteps, StopSteps, Over,
     UntilOnExit, UntilSigint
<1>15. Held'
  BY <1>1, <1>2, <1>3, <1>4
  DEF config, exitVars, memory, Held, AlignedHeap, Profiling, SamplerHas, GroupHas, Timers, Known,
     Later, Wrapped, Owners
<1>16. Mastered'
  BY <1>1, <1>2, <1>3, <1>4
  DEF config, exitVars, memory, Mastered, Running, SetupSteps, JobSteps, UntilOnExit, UntilSigint,
     UntilNames
<1>17. Interrupted'
  BY <1>1, <1>2, <1>3, <1>4
  DEF config, exitVars, memory, Interrupted, SwitchAgrees, Profiling, Kept, SamplerHas, GroupHas,
     StopSteps, Over, ToData, ToWatcher, ToOptions, ToOutput, ToSampler, ToDeadline,
     ToPeriod, ToPmcs, Known, Later, Wrapped, Owners
<1>18. Written'
  BY <1>1, <1>2, <1>3, <1>4
  DEF config, exitVars, memory, Written, ParsedConsistent
<1> QED
  BY <1>5, <1>6, <1>7, <1>8, <1>9, <1>10, <1>11, <1>12, <1>13, <1>14, <1>15, <1>16, <1>17,
     <1>18 DEF IInv

(* The copies of the options are freed.                                    *)
LEMMA StopOptionsKeeps == ASSUME IInv, StopOptions PROVE IInv'
<1>1. ProgType /\ ExitType /\ ResType /\ JobType /\ MemType /\ Fresh /\ Whose
      /\ HeapKept /\ RoomKept /\ Counted /\ Held /\ Mastered /\ Interrupted /\ Written
  BY DEF IInv
<1>2. UNCHANGED <<prog, opts, outcome, arg, field, held, pmcs, created, armed, group, master,
      names, mt, sampling, posts, synchDone, started, jobEnded, jobs, expiries, aborted,
      before>>
  BY DEF StopOptions, progVars, resVars, groupVars, jobVars, memVars
<1>3. /\ WatcherTypeOK' /\ UNCHANGED <<config, brk, misfreed>>
      /\ owner'["args"] \in {owner["args"], "none"}
      /\ owner'["outputPath"] \in {owner["outputPath"], "none"}
      /\ exit # "return" => owner'["args"] = "none" /\ owner'["outputPath"] = "none"
      /\ \A x \in Blocks \ {"args", "outputPath"} : owner'[x] = owner[x]
      /\ Known \subseteq Blocks
      /\ \A x \in Blocks : owner[x] \in Owners
  <2>1. /\ {"args", "outputPath"} \in SUBSET Blocks /\ {"args"} \in SUBSET Blocks
        /\ Known \subseteq Blocks
    BY KnownBlocks DEF Known, Later, Wrapped
  <2>2. WatcherTypeOK /\ owner \in [Blocks -> Owners]
    BY <1>1 DEF MemType, WatcherTypeOK
  <2>3. \/ WrapFree({"args", "outputPath"})
        \/ exit = "return" /\ (WrapFree({"args"}) \/ UNCHANGED watcherVars)
    BY DEF StopOptions, FrameLive
  <2>4. ASSUME NEW B \in SUBSET {"args", "outputPath"}, WrapFree(B)
        PROVE  /\ WatcherTypeOK' /\ UNCHANGED <<config, brk, misfreed>>
               /\ \A x \in Blocks : owner'[x] = IF x \in B THEN "none" ELSE owner[x]
    <3>1. B \in SUBSET Blocks
      BY <2>1
    <3>2. watcher = "disabled" /\ Wraps = "libc"
      BY <1>1 DEF StopOptions, StopStep, Whose, AfterWatcher, Wraps, Fixed
    <3>3. /\ WatcherTypeOK' /\ UNCHANGED config
          /\ owner' = [b \in Blocks |-> IF b \in B THEN "none" ELSE owner[b]]
          /\ misfreed' = misfreed \union {b \in B : owner[b] \notin {"none", Wraps}}
          /\ watcher \notin Fixed => brk' = brk
      BY <2>2, <2>4, <3>1, WrapFreeDoes
    <3>4. \A b \in B : owner[b] \in {"none", "libc"}
      BY <1>1, <2>2, <3>1 DEF Whose, Wrapped, Owners
    <3>5. brk' = brk
      BY <3>2, <3>3 DEF Fixed
    <3>6. misfreed' = misfreed
      BY <3>2, <3>3, <3>4
    <3> QED
      BY <3>3, <3>5, <3>6
  <2>5. CASE WrapFree({"args", "outputPath"})
    <3>1. /\ WatcherTypeOK' /\ UNCHANGED <<config, brk, misfreed>>
          /\ \A x \in Blocks : owner'[x] = IF x \in {"args", "outputPath"} THEN "none" ELSE owner[x]
      BY <2>4, <2>5
    <3> QED
      BY <2>1, <2>2, <3>1
  <2>6. CASE exit = "return" /\ WrapFree({"args"})
    <3>1. /\ WatcherTypeOK' /\ UNCHANGED <<config, brk, misfreed>>
          /\ \A x \in Blocks : owner'[x] = IF x \in {"args"} THEN "none" ELSE owner[x]
      BY <2>4, <2>6
    <3> QED
      BY <2>1, <2>2, <2>6, <3>1
  <2>7. CASE exit = "return" /\ UNCHANGED watcherVars
    BY <2>1, <2>2, <2>7, MemoryStays DEF watcherVars, memory
  <2> QED
    BY <2>3, <2>5, <2>6, <2>7
<1>4. /\ pc = "stopOptions" /\ UNCHANGED exitVars
      /\ pc' = "stopOutput" \/ (pc' = "crashed" /\ exit = "return")
  BY DEF StopOptions, StopStep, Goto, Crash, FrameLive
<1>5. ProgType'
  BY <1>1, <1>2, <1>3, <1>4
  DEF config, exitVars, ProgType
<1>6. ExitType'
  BY <1>1, <1>2, <1>3, <1>4
  DEF config, exitVars, ExitType, SetupSteps, JobSteps, StopSteps, Over
<1>7. ResType'
  BY <1>1, <1>2, <1>3, <1>4
  DEF config, exitVars, ResType, Resources
<1>8. JobType'
  BY <1>1, <1>2, <1>3, <1>4
  DEF config, exitVars, JobType
<1>9. MemType'
  BY <1>1, <1>2, <1>3, <1>4
  DEF config, exitVars, MemType, Known, Later, Wrapped
<1>10. Fresh'
  BY <1>1, <1>2, <1>3, <1>4
  DEF config, exitVars, Fresh, Wrapped, Later, Known, Running, SetupSteps, JobSteps,
     UntilOnExit, UntilSigint, UntilNames, UntilWatcher, UntilData, UntilHeader,
     UntilThread, UntilOutput, UntilFopen, Owners
<1>11. Whose'
  BY <1>1, <1>2, <1>3, <1>4
  DEF config, exitVars, Wraps, Whose, AfterWatcher, FreedByItsAllocator, Fixed, Over,
     UntilOnExit, UntilSigint, UntilNames, UntilWatcher, Known, Later, Wrapped, Owners
<1>12. HeapKept'
  BY <1>1, <1>2, <1>3, <1>4
  DEF config, exitVars, HeapKept, Fixed, UntilOnExit, UntilSigint, UntilNames, UntilWatcher
<1>13. RoomKept'
  <2>1. watcher' # "enabled" /\ UNCHANGED before
    BY <1>1, <1>2, <1>3, <1>4
      DEF config, Wraps, Whose, AfterWatcher, FreedByItsAllocator, Fixed, Over, UntilOnExit,
          UntilSigint, UntilNames, UntilWatcher, Known, Later, Wrapped, Owners
  <2> QED
    BY <1>1, <2>1 DEF RoomKept
<1>14. Counted'
  BY <1>1, <1>2, <1>3, <1>4
  DEF config, exitVars, Counted, Profiling, Running, SetupSteps, JobSteps, StopSteps, Over,
     UntilOnExit, UntilSigint
<1>15. Held'
  BY <1>1, <1>2, <1>3, <1>4
  DEF config, exitVars, Held, AlignedHeap, Profiling, SamplerHas, GroupHas, Timers, Known,
     Later, Wrapped, Owners
<1>16. Mastered'
  BY <1>1, <1>2, <1>3, <1>4
  DEF config, exitVars, Mastered, Running, SetupSteps, JobSteps, UntilOnExit, UntilSigint,
     UntilNames
<1>17. Interrupted'
  BY <1>1, <1>2, <1>3, <1>4
  DEF config, exitVars, Interrupted, SwitchAgrees, Profiling, Kept, SamplerHas, GroupHas,
     StopSteps, Over, ToData, ToWatcher, ToOptions, ToOutput, ToSampler, ToDeadline,
     ToPeriod, ToPmcs, Known, Later, Wrapped, Owners
<1>18. Written'
  BY <1>1, <1>2, <1>3, <1>4
  DEF config, exitVars, Written, ParsedConsistent
<1> QED
  BY <1>5, <1>6, <1>7, <1>8, <1>9, <1>10, <1>11, <1>12, <1>13, <1>14, <1>15, <1>16, <1>17,
     <1>18 DEF IInv

(* The output file is closed.                                              *)
LEMMA StopOutputKeeps == ASSUME IInv, StopOutput PROVE IInv'
<1>1. ProgType /\ ExitType /\ ResType /\ JobType /\ MemType /\ Fresh /\ Whose
      /\ HeapKept /\ RoomKept /\ Counted /\ Held /\ Mastered /\ Interrupted /\ Written
  BY DEF IInv
<1>2. UNCHANGED <<prog, opts, outcome, arg, field, pmcs, created, armed, group, master, names, mt,
      sampling, posts, synchDone, started, jobEnded, jobs, expiries, aborted, before>>
  BY DEF StopOutput, progVars, resVars, groupVars, jobVars, memVars
<1>3. /\ WatcherTypeOK' /\ UNCHANGED <<config, brk, misfreed>>
      /\ owner'["file"] = "none" /\ held' = held \ {"output"}
      /\ \A x \in Blocks \ {"file"} : owner'[x] = owner[x]
      /\ Known \subseteq Blocks
      /\ \A x \in Blocks : owner[x] \in Owners
  <2>1. /\ "file" \in Blocks /\ Known \subseteq Blocks /\ owner \in [Blocks -> Owners]
        /\ WatcherTypeOK /\ held' = held \ {"output"}
    BY <1>1, KnownBlocks DEF Known, Later, Wrapped, MemType, WatcherTypeOK, StopOutput
  <2>2. RealFree("file") \/ (UNCHANGED watcherVars /\ owner["file"] = "none")
    BY <1>1 DEF StopOutput, Held
  <2>3. CASE RealFree("file")
    BY <2>1, <2>3, RealFreeDoes
  <2>4. CASE UNCHANGED watcherVars /\ owner["file"] = "none"
    BY <2>1, <2>4, MemoryStays DEF watcherVars, memory
  <2> QED
    BY <2>2, <2>3, <2>4
<1>4. pc = "stopOutput" /\ pc' \in {"stopSampler"} /\ UNCHANGED exitVars
  BY DEF StopOutput, StopStep, Goto, ReturnWith, FirstStop, CallExit, Crash
<1>5. ProgType'
  BY <1>1, <1>2, <1>3, <1>4
  DEF config, exitVars, ProgType
<1>6. ExitType'
  BY <1>1, <1>2, <1>3, <1>4
  DEF config, exitVars, ExitType, SetupSteps, JobSteps, StopSteps, Over
<1>7. ResType'
  BY <1>1, <1>2, <1>3, <1>4
  DEF config, exitVars, ResType, Resources
<1>8. JobType'
  BY <1>1, <1>2, <1>3, <1>4
  DEF config, exitVars, JobType
<1>9. MemType'
  BY <1>1, <1>2, <1>3, <1>4
  DEF config, exitVars, MemType, Known, Later, Wrapped
<1>10. Fresh'
  BY <1>1, <1>2, <1>3, <1>4
  DEF config, exitVars, Fresh, Wrapped, Later, Known, Running, SetupSteps, JobSteps,
     UntilOnExit, UntilSigint, UntilNames, UntilWatcher, UntilData, UntilHeader,
     UntilThread, UntilOutput, UntilFopen, Owners
<1>11. Whose'
  BY <1>1, <1>2, <1>3, <1>4
  DEF config, exitVars, Wraps, Whose, AfterWatcher, FreedByItsAllocator, Fixed, Over,
     UntilOnExit, UntilSigint, UntilNames, UntilWatcher, Known, Later, Wrapped, Owners
<1>12. HeapKept'
  BY <1>1, <1>2, <1>3, <1>4
  DEF config, exitVars, HeapKept, Fixed, UntilOnExit, UntilSigint, UntilNames, UntilWatcher
<1>13. RoomKept'
  <2>1. watcher' # "enabled" /\ UNCHANGED before
    BY <1>1, <1>2, <1>3, <1>4
      DEF config, Wraps, Whose, AfterWatcher, FreedByItsAllocator, Fixed, Over, UntilOnExit,
          UntilSigint, UntilNames, UntilWatcher, Known, Later, Wrapped, Owners
  <2> QED
    BY <1>1, <2>1 DEF RoomKept
<1>14. Counted'
  BY <1>1, <1>2, <1>3, <1>4
  DEF config, exitVars, Counted, Profiling, Running, SetupSteps, JobSteps, StopSteps, Over,
     UntilOnExit, UntilSigint
<1>15. Held'
  BY <1>1, <1>2, <1>3, <1>4
  DEF config, exitVars, Held, AlignedHeap, Profiling, SamplerHas, GroupHas, Timers, Known,
     Later, Wrapped, Owners
<1>16. Mastered'
  BY <1>1, <1>2, <1>3, <1>4
  DEF config, exitVars, Mastered, Running, SetupSteps, JobSteps, UntilOnExit, UntilSigint,
     UntilNames
<1>17. Interrupted'
  BY <1>1, <1>2, <1>3, <1>4
  DEF config, exitVars, Interrupted, SwitchAgrees, Profiling, Kept, SamplerHas, GroupHas,
     StopSteps, Over, ToData, ToWatcher, ToOptions, ToOutput, ToSampler, ToDeadline,
     ToPeriod, ToPmcs, Known, Later, Wrapped, Owners
<1>18. Written'
  BY <1>1, <1>2, <1>3, <1>4
  DEF config, exitVars, Written, ParsedConsistent
<1> QED
  BY <1>5, <1>6, <1>7, <1>8, <1>9, <1>10, <1>11, <1>12, <1>13, <1>14, <1>15, <1>16, <1>17,
     <1>18 DEF IInv

(* The sampler is torn down, or what its switch reads as says not to.      *)
LEMMA StopSamplerKeeps == ASSUME IInv, StopSampler PROVE IInv'
<1>1. ProgType /\ ExitType /\ ResType /\ JobType /\ MemType /\ Fresh /\ Whose
      /\ HeapKept /\ RoomKept /\ Counted /\ Held /\ Mastered /\ Interrupted /\ Written
  BY DEF IInv
<1>2. UNCHANGED <<prog, opts, outcome, arg, field, pmcs, created, armed, group, master, names, mt,
      sampling, posts, synchDone, started, jobEnded, jobs, expiries, aborted, before>>
  BY DEF StopSampler, progVars, resVars, groupVars, jobVars, memVars
<1>3. /\ WatcherTypeOK' /\ UNCHANGED <<config, brk, misfreed>>
      /\ Known \subseteq Blocks
      /\ \A x \in Blocks : owner[x] \in Owners
      /\ \A x \in Blocks \ {"samples", "moreSamples"} : owner'[x] = owner[x]
      /\ UNCHANGED exitVars /\ pc = "stopSampler"
      /\ \/ /\ pc' = "stopDeadline" /\ UNCHANGED <<owner, held>>
            /\ exit # "return" /\ SwitchAgrees => ~ Profiling
         \/ /\ pc' = "crashed" /\ UNCHANGED <<owner, held>> /\ "samplerFile" \notin held
            /\ exit # "return" /\ SwitchAgrees => Profiling
         \/ /\ pc' = "stopDeadline" /\ held' = held \ SamplerHas
            /\ owner'["samples"] = "none" /\ owner'["moreSamples"] = "none"
  <2>1. /\ {"samples", "moreSamples"} \in SUBSET Blocks /\ Known \subseteq Blocks
        /\ WatcherTypeOK /\ owner \in [Blocks -> Owners] /\ UNCHANGED exitVars /\ pc = "stopSampler"
    BY <1>1, KnownBlocks
       DEF Known, Later, Wrapped, MemType, WatcherTypeOK, StopSampler, Goto, Crash
  <2>2. PICK switch \in IF PerfSupport THEN Switches ELSE {FALSE} :
          \/ ~ switch /\ Goto("stopDeadline") /\ UNCHANGED <<held, watcherVars>>
          \/ switch /\ "samplerFile" \notin held /\ Crash /\ UNCHANGED <<held, watcherVars>>
          \/ /\ switch /\ "samplerFile" \in held
             /\ WrapFree({"samples", "moreSamples"})
             /\ held' = held \ {"perfTimer", "sampler", "samplerFile"}
             /\ Goto("stopDeadline")
    BY DEF StopSampler
  <2>3. opts.args_num \in Nat
    BY <1>1 DEF ProgType, ExecutionOptions
  <2>4. exit # "return" /\ SwitchAgrees => (switch <=> Profiling)
    <3>1. CASE PerfSupport
      <4>1. opts.args_num # 0 <=> opts.args_num > 0
        BY <2>3
      <4>2. exit # "return" => switch = (opts.args_num # 0)
        BY Zenon, <2>2, <3>1 DEF Switches, FrameLive
      <4> QED
        BY Zenon, <3>1, <4>1, <4>2 DEF SwitchAgrees
    <3>2. CASE ~ PerfSupport
      BY <2>2, <3>2 DEF Profiling
    <3> QED
      BY <3>1, <3>2
  <2>5. CASE ~ switch /\ Goto("stopDeadline") /\ UNCHANGED <<held, watcherVars>>
    <3>1. WatcherTypeOK' /\ UNCHANGED <<config, brk, misfreed, owner>>
      BY <2>1, <2>5, MemoryStays DEF watcherVars, memory
    <3>2. exit # "return" /\ SwitchAgrees => ~ Profiling
      BY <2>4, <2>5
    <3> QED
      BY <2>1, <2>5, <3>1, <3>2 DEF Goto
  <2>6. CASE switch /\ "samplerFile" \notin held /\ Crash /\ UNCHANGED <<held, watcherVars>>
    <3>1. WatcherTypeOK' /\ UNCHANGED <<config, brk, misfreed, owner>>
      BY <2>1, <2>6, MemoryStays DEF watcherVars, memory
    <3>2. exit # "return" /\ SwitchAgrees => Profiling
      BY <2>4, <2>6
    <3> QED
      BY <2>1, <2>6, <3>1, <3>2 DEF Crash
  <2>7. CASE /\ switch /\ "samplerFile" \in held
             /\ WrapFree({"samples", "moreSamples"})
             /\ held' = held \ {"perfTimer", "sampler", "samplerFile"}
             /\ Goto("stopDeadline")
    <3>1. watcher = "disabled" /\ Wraps = "libc"
      BY <1>1, <2>1 DEF Whose, AfterWatcher, Wraps, Fixed
    <3>2. /\ WatcherTypeOK' /\ UNCHANGED config
          /\ owner' = [b \in Blocks |-> IF b \in {"samples", "moreSamples"} THEN "none" ELSE owner[b]]
          /\ misfreed' = misfreed \union
                {b \in {"samples", "moreSamples"} : owner[b] \notin {"none", Wraps}}
          /\ watcher \notin Fixed => brk' = brk
      BY <2>1, <2>7, WrapFreeDoes
    <3>3. \A b \in {"samples", "moreSamples"} : owner[b] \in {"none", "libc"}
      BY <1>1, <2>1 DEF Whose, Wrapped, Owners
    <3>4. brk' = brk /\ misfreed' = misfreed
      BY <3>1, <3>2, <3>3 DEF Fixed
    <3>5. /\ \A x \in Blocks \ {"samples", "moreSamples"} : owner'[x] = owner[x]
          /\ owner'["samples"] = "none" /\ owner'["moreSamples"] = "none"
      BY <2>1, <3>2
    <3> QED
      BY <2>1, <2>7, <3>2, <3>4, <3>5 DEF Goto, SamplerHas
  <2> QED
    BY <2>2, <2>5, <2>6, <2>7
<1>4. ProgType'
  BY <1>1, <1>2, <1>3
  DEF config, exitVars, ProgType
<1>5. ExitType'
  BY <1>1, <1>2, <1>3
  DEF config, exitVars, ExitType, SetupSteps, JobSteps, StopSteps, Over
<1>6. ResType'
  BY <1>1, <1>2, <1>3
  DEF config, exitVars, ResType, Resources
<1>7. JobType'
  BY <1>1, <1>2, <1>3
  DEF config, exitVars, JobType
<1>8. MemType'
  BY <1>1, <1>2, <1>3
  DEF config, exitVars, MemType, Known, Later, Wrapped
<1>9. Fresh'
  BY <1>1, <1>2, <1>3
  DEF config, exitVars, Fresh, Wrapped, Later, Known, Running, SetupSteps, JobSteps,
     UntilOnExit, UntilSigint, UntilNames, UntilWatcher, UntilData, UntilHeader,
     UntilThread, UntilOutput, UntilFopen, Owners
<1>10. Whose'
  BY <1>1, <1>2, <1>3
  DEF config, exitVars, Wraps, Whose, AfterWatcher, FreedByItsAllocator, Fixed, Over,
     UntilOnExit, UntilSigint, UntilNames, UntilWatcher, Known, Later, Wrapped, Owners
<1>11. HeapKept'
  BY <1>1, <1>2, <1>3
  DEF config, exitVars, HeapKept, Fixed, UntilOnExit, UntilSigint, UntilNames, UntilWatcher
<1>12. RoomKept'
  <2>1. watcher' # "enabled" /\ UNCHANGED before
    BY <1>1, <1>2, <1>3 DEF config, Whose, AfterWatcher
  <2> QED
    BY <1>1, <2>1 DEF RoomKept
<1>13. Counted'
  BY <1>1, <1>2, <1>3
  DEF config, exitVars, Counted, Profiling, Running, SetupSteps, JobSteps, StopSteps, Over,
     UntilOnExit, UntilSigint
<1>14. Held'
  BY <1>1, <1>2, <1>3
  DEF config, exitVars, Held, AlignedHeap, Profiling, SamplerHas, GroupHas, Timers, Known,
     Later, Wrapped, Owners
<1>15. Mastered'
  BY <1>1, <1>2, <1>3
  DEF config, exitVars, Mastered, Running, SetupSteps, JobSteps, UntilOnExit, UntilSigint,
     UntilNames
<1>16. Interrupted'
  BY <1>1, <1>2, <1>3
  DEF config, exitVars, Interrupted, Held, SwitchAgrees, Profiling, Kept, SamplerHas, GroupHas,
     StopSteps, Over, ToData, ToWatcher, ToOptions, ToOutput, ToSampler, ToDeadline,
     ToPeriod, ToPmcs, Known, Later, Wrapped, Owners
<1>17. Written'
  BY <1>1, <1>2, <1>3
  DEF config, exitVars, Written, ParsedConsistent
<1> QED
  BY <1>4, <1>5, <1>6, <1>7, <1>8, <1>9, <1>10, <1>11, <1>12, <1>13, <1>14, <1>15, <1>16,
     <1>17 DEF IInv

(* The deadline's timer is deleted.                                        *)
LEMMA StopDeadlineKeeps == ASSUME IInv, StopDeadline PROVE IInv'
<1>1. ProgType /\ ExitType /\ ResType /\ JobType /\ MemType /\ Fresh /\ Whose
      /\ HeapKept /\ RoomKept /\ Counted /\ Held /\ Mastered /\ Interrupted /\ Written
  BY DEF IInv
<1>2. WatcherTypeOK'
  BY <1>1, MemoryStays DEF StopDeadline, MemType, memVars
<1>3. ProgType'
  BY <1>1, <1>2
  DEF StopDeadline, StopStep, Goto, Deleted, progVars, exitVars, resVars, groupVars,
     jobVars, memVars, watcherVars, config, memory, ProgType
<1>4. ExitType'
  BY <1>1, <1>2
  DEF StopDeadline, StopStep, Goto, Deleted, progVars, exitVars, resVars, groupVars,
     jobVars, memVars, watcherVars, config, memory, ExitType, SetupSteps, JobSteps,
     StopSteps, Over
<1>5. ResType'
  BY <1>1, <1>2
  DEF StopDeadline, StopStep, Goto, Deleted, progVars, exitVars, resVars, groupVars,
     jobVars, memVars, watcherVars, config, memory, ResType, Resources
<1>6. JobType'
  BY <1>1, <1>2
  DEF StopDeadline, StopStep, Goto, Deleted, progVars, exitVars, resVars, groupVars,
     jobVars, memVars, watcherVars, config, memory, JobType
<1>7. MemType'
  BY <1>1, <1>2
  DEF StopDeadline, StopStep, Goto, Deleted, progVars, exitVars, resVars, groupVars,
     jobVars, memVars, watcherVars, config, memory, MemType
<1>8. Fresh'
  BY <1>1, <1>2
  DEF StopDeadline, StopStep, Goto, Deleted, progVars, exitVars, resVars, groupVars,
     jobVars, memVars, watcherVars, config, memory, Fresh, Wrapped, Later, Known, Running,
     SetupSteps, JobSteps, UntilOnExit, UntilSigint, UntilNames, UntilWatcher, UntilData,
     UntilHeader, UntilThread, UntilOutput, UntilFopen
<1>9. Whose'
  BY <1>1, <1>2
  DEF StopDeadline, StopStep, Goto, Deleted, progVars, exitVars, resVars, groupVars,
     jobVars, memVars, watcherVars, config, memory, Whose, AfterWatcher,
     FreedByItsAllocator, Fixed, Over, UntilOnExit, UntilSigint, UntilNames, UntilWatcher
<1>10. HeapKept'
  BY <1>1, <1>2
  DEF StopDeadline, StopStep, Goto, Deleted, progVars, exitVars, resVars, groupVars,
     jobVars, memVars, watcherVars, config, memory, HeapKept, Fixed, UntilOnExit,
     UntilSigint, UntilNames, UntilWatcher
<1>11. RoomKept'
  BY <1>1, <1>2
  DEF StopDeadline, StopStep, Goto, Deleted, progVars, exitVars, resVars, groupVars,
     jobVars, memVars, watcherVars, config, memory, RoomKept, Taken, Allocated
<1>12. Counted'
  BY <1>1, <1>2
  DEF StopDeadline, StopStep, Goto, Deleted, progVars, exitVars, resVars, groupVars,
     jobVars, memVars, watcherVars, config, memory, Counted, Profiling, Running, SetupSteps,
     JobSteps, StopSteps, Over, UntilOnExit, UntilSigint
<1>13. Held'
  BY <1>1, <1>2
  DEF StopDeadline, StopStep, Goto, Deleted, progVars, exitVars, resVars, groupVars,
     jobVars, memVars, watcherVars, config, memory, Held, AlignedHeap, Profiling,
     SamplerHas, GroupHas, Timers
<1>14. Mastered'
  BY <1>1, <1>2
  DEF StopDeadline, StopStep, Goto, Deleted, progVars, exitVars, resVars, groupVars,
     jobVars, memVars, watcherVars, config, memory, Mastered, Running, SetupSteps, JobSteps,
     UntilOnExit, UntilSigint, UntilNames
<1>15. Interrupted'
  <2>1. held' = Deleted("deadlineTimer")
    BY DEF StopDeadline
  <2> QED
    BY <1>1, <2>1
    DEF StopDeadline, StopStep, Goto, Deleted, Held, Timers, progVars, exitVars, resVars,
        groupVars, jobVars, memVars, watcherVars, config, memory,
        Interrupted, SwitchAgrees, Profiling, Kept, SamplerHas, GroupHas, StopSteps, Over,
        ToData, ToWatcher, ToOptions, ToOutput, ToSampler, ToDeadline, ToPeriod, ToPmcs
<1>16. Written'
  BY <1>1, <1>2
  DEF StopDeadline, StopStep, Goto, Deleted, progVars, exitVars, resVars, groupVars,
     jobVars, memVars, watcherVars, config, memory, Written, ParsedConsistent
<1> QED
  BY <1>3, <1>4, <1>5, <1>6, <1>7, <1>8, <1>9, <1>10, <1>11, <1>12, <1>13, <1>14, <1>15,
     <1>16 DEF IInv

(* The period's timer is deleted.                                          *)
LEMMA StopPeriodKeeps == ASSUME IInv, StopPeriod PROVE IInv'
<1>1. ProgType /\ ExitType /\ ResType /\ JobType /\ MemType /\ Fresh /\ Whose
      /\ HeapKept /\ RoomKept /\ Counted /\ Held /\ Mastered /\ Interrupted /\ Written
  BY DEF IInv
<1>2. WatcherTypeOK'
  BY <1>1, MemoryStays DEF StopPeriod, MemType, memVars
<1>3. ProgType'
  BY <1>1, <1>2
  DEF StopPeriod, StopStep, Goto, Deleted, progVars, exitVars, resVars, groupVars, jobVars,
     memVars, watcherVars, config, memory, ProgType
<1>4. ExitType'
  BY <1>1, <1>2
  DEF StopPeriod, StopStep, Goto, Deleted, progVars, exitVars, resVars, groupVars, jobVars,
     memVars, watcherVars, config, memory, ExitType, SetupSteps, JobSteps, StopSteps, Over
<1>5. ResType'
  BY <1>1, <1>2
  DEF StopPeriod, StopStep, Goto, Deleted, progVars, exitVars, resVars, groupVars, jobVars,
     memVars, watcherVars, config, memory, ResType, Resources
<1>6. JobType'
  BY <1>1, <1>2
  DEF StopPeriod, StopStep, Goto, Deleted, progVars, exitVars, resVars, groupVars, jobVars,
     memVars, watcherVars, config, memory, JobType
<1>7. MemType'
  BY <1>1, <1>2
  DEF StopPeriod, StopStep, Goto, Deleted, progVars, exitVars, resVars, groupVars, jobVars,
     memVars, watcherVars, config, memory, MemType
<1>8. Fresh'
  BY <1>1, <1>2
  DEF StopPeriod, StopStep, Goto, Deleted, progVars, exitVars, resVars, groupVars, jobVars,
     memVars, watcherVars, config, memory, Fresh, Wrapped, Later, Known, Running,
     SetupSteps, JobSteps, UntilOnExit, UntilSigint, UntilNames, UntilWatcher, UntilData,
     UntilHeader, UntilThread, UntilOutput, UntilFopen
<1>9. Whose'
  BY <1>1, <1>2
  DEF StopPeriod, StopStep, Goto, Deleted, progVars, exitVars, resVars, groupVars, jobVars,
     memVars, watcherVars, config, memory, Whose, AfterWatcher, FreedByItsAllocator, Fixed,
     Over, UntilOnExit, UntilSigint, UntilNames, UntilWatcher
<1>10. HeapKept'
  BY <1>1, <1>2
  DEF StopPeriod, StopStep, Goto, Deleted, progVars, exitVars, resVars, groupVars, jobVars,
     memVars, watcherVars, config, memory, HeapKept, Fixed, UntilOnExit, UntilSigint,
     UntilNames, UntilWatcher
<1>11. RoomKept'
  BY <1>1, <1>2
  DEF StopPeriod, StopStep, Goto, Deleted, progVars, exitVars, resVars, groupVars, jobVars,
     memVars, watcherVars, config, memory, RoomKept, Taken, Allocated
<1>12. Counted'
  BY <1>1, <1>2
  DEF StopPeriod, StopStep, Goto, Deleted, progVars, exitVars, resVars, groupVars, jobVars,
     memVars, watcherVars, config, memory, Counted, Profiling, Running, SetupSteps,
     JobSteps, StopSteps, Over, UntilOnExit, UntilSigint
<1>13. Held'
  BY <1>1, <1>2
  DEF StopPeriod, StopStep, Goto, Deleted, progVars, exitVars, resVars, groupVars, jobVars,
     memVars, watcherVars, config, memory, Held, AlignedHeap, Profiling, SamplerHas,
     GroupHas, Timers
<1>14. Mastered'
  BY <1>1, <1>2
  DEF StopPeriod, StopStep, Goto, Deleted, progVars, exitVars, resVars, groupVars, jobVars,
     memVars, watcherVars, config, memory, Mastered, Running, SetupSteps, JobSteps,
     UntilOnExit, UntilSigint, UntilNames
<1>15. Interrupted'
  <2>1. held' = Deleted("periodTimer")
    BY DEF StopPeriod
  <2> QED
    BY <1>1, <2>1
    DEF StopPeriod, StopStep, Goto, Deleted, Held, Timers, progVars, exitVars, resVars,
        groupVars, jobVars, memVars, watcherVars, config, memory,
        Interrupted, SwitchAgrees, Profiling, Kept, SamplerHas, GroupHas, StopSteps, Over,
        ToData, ToWatcher, ToOptions, ToOutput, ToSampler, ToDeadline, ToPeriod, ToPmcs
<1>16. Written'
  BY <1>1, <1>2
  DEF StopPeriod, StopStep, Goto, Deleted, progVars, exitVars, resVars, groupVars, jobVars,
     memVars, watcherVars, config, memory, Written, ParsedConsistent
<1> QED
  BY <1>3, <1>4, <1>5, <1>6, <1>7, <1>8, <1>9, <1>10, <1>11, <1>12, <1>13, <1>14, <1>15,
     <1>16 DEF IInv

(* The counters are closed.                                                *)
LEMMA StopPmcsKeeps == ASSUME IInv, StopPmcs PROVE IInv'
<1>1. ProgType /\ ExitType /\ ResType /\ JobType /\ MemType /\ Fresh /\ Whose
      /\ HeapKept /\ RoomKept /\ Counted /\ Held /\ Mastered /\ Interrupted /\ Written
  BY DEF IInv
<1>2. WatcherTypeOK'
  BY <1>1, MemoryStays DEF StopPmcs, MemType, memVars
<1>3. ProgType'
  BY <1>1, <1>2
  DEF StopPmcs, StopStep, Goto, progVars, exitVars, resVars, groupVars, jobVars, memVars,
     watcherVars, config, memory, ProgType
<1>4. ExitType'
  BY <1>1, <1>2
  DEF StopPmcs, StopStep, Goto, progVars, exitVars, resVars, groupVars, jobVars, memVars,
     watcherVars, config, memory, ExitType, SetupSteps, JobSteps, StopSteps, Over
<1>5. ResType'
  <2>1. pmcs' \in 0 .. Pmcs
    BY ProcessAssumption DEF StopPmcs, ProcessAssumption
  <2> QED
    BY <1>1, <2>1 DEF StopPmcs, ResType, groupVars
<1>6. JobType'
  BY <1>1, <1>2
  DEF StopPmcs, StopStep, Goto, progVars, exitVars, resVars, groupVars, jobVars, memVars,
     watcherVars, config, memory, JobType
<1>7. MemType'
  BY <1>1, <1>2
  DEF StopPmcs, StopStep, Goto, progVars, exitVars, resVars, groupVars, jobVars, memVars,
     watcherVars, config, memory, MemType
<1>8. Fresh'
  BY <1>1, <1>2
  DEF StopPmcs, StopStep, Goto, progVars, exitVars, resVars, groupVars, jobVars, memVars,
     watcherVars, config, memory, Fresh, Wrapped, Later, Known, Running, SetupSteps,
     JobSteps, UntilOnExit, UntilSigint, UntilNames, UntilWatcher, UntilData, UntilHeader,
     UntilThread, UntilOutput, UntilFopen
<1>9. Whose'
  BY <1>1, <1>2
  DEF StopPmcs, StopStep, Goto, progVars, exitVars, resVars, groupVars, jobVars, memVars,
     watcherVars, config, memory, Whose, AfterWatcher, FreedByItsAllocator, Fixed, Over,
     UntilOnExit, UntilSigint, UntilNames, UntilWatcher
<1>10. HeapKept'
  BY <1>1, <1>2
  DEF StopPmcs, StopStep, Goto, progVars, exitVars, resVars, groupVars, jobVars, memVars,
     watcherVars, config, memory, HeapKept, Fixed, UntilOnExit, UntilSigint, UntilNames,
     UntilWatcher
<1>11. RoomKept'
  BY <1>1, <1>2
  DEF StopPmcs, StopStep, Goto, progVars, exitVars, resVars, groupVars, jobVars, memVars,
     watcherVars, config, memory, RoomKept, Taken, Allocated
<1>12. Counted'
  BY <1>1, <1>2
  DEF StopPmcs, StopStep, Goto, progVars, exitVars, resVars, groupVars, jobVars, memVars,
     watcherVars, config, memory, Counted, Profiling, Running, SetupSteps, JobSteps,
     StopSteps, Over, UntilOnExit, UntilSigint
<1>13. Held'
  BY <1>1, <1>2
  DEF StopPmcs, StopStep, Goto, progVars, exitVars, resVars, groupVars, jobVars, memVars,
     watcherVars, config, memory, Held, AlignedHeap, Profiling, SamplerHas, GroupHas, Timers
<1>14. Mastered'
  BY <1>1, <1>2
  DEF StopPmcs, StopStep, Goto, progVars, exitVars, resVars, groupVars, jobVars, memVars,
     watcherVars, config, memory, Mastered, Running, SetupSteps, JobSteps, UntilOnExit,
     UntilSigint, UntilNames
<1>15. Interrupted'
  BY <1>1, <1>2
  DEF StopPmcs, StopStep, Goto, progVars, exitVars, resVars, groupVars, jobVars, memVars,
     watcherVars, config, memory, Interrupted, SwitchAgrees, Profiling, Kept, SamplerHas,
     GroupHas, StopSteps, Over, ToData, ToWatcher, ToOptions, ToOutput, ToSampler,
     ToDeadline, ToPeriod, ToPmcs
<1>16. Written'
  BY <1>1, <1>2
  DEF StopPmcs, StopStep, Goto, progVars, exitVars, resVars, groupVars, jobVars, memVars,
     watcherVars, config, memory, Written, ParsedConsistent
<1> QED
  BY <1>3, <1>4, <1>5, <1>6, <1>7, <1>8, <1>9, <1>10, <1>11, <1>12, <1>13, <1>14, <1>15,
     <1>16 DEF IInv

(* The group's resources are given back.                                   *)
LEMMA StopGroupKeeps == ASSUME IInv, StopGroup PROVE IInv'
<1>1. ProgType /\ ExitType /\ ResType /\ JobType /\ MemType /\ Fresh /\ Whose
      /\ HeapKept /\ RoomKept /\ Counted /\ Held /\ Mastered /\ Interrupted /\ Written
  BY DEF IInv
<1>2. UNCHANGED <<prog, opts, outcome, arg, field, pmcs, created, armed, mt, sampling, posts,
      synchDone, started, jobEnded, jobs, expiries, aborted, before>>
  BY DEF StopGroup, progVars, resVars, groupVars, jobVars, memVars
<1>3. /\ WatcherTypeOK' /\ UNCHANGED <<config, brk, misfreed, master, exitVars>>
      /\ Known \subseteq Blocks
      /\ \A x \in Blocks : owner[x] \in Owners
      /\ \A x \in Blocks \ {"groupNames"} : owner'[x] = owner[x]
      /\ pc = "stopGroup"
      /\ \/ pc' = "crashed" /\ group = "freed" /\ UNCHANGED <<held, group, names, owner>>
         \/ /\ pc' = "exited" /\ owner'["groupNames"] = "none"
            /\ held' = held \ (IF group = "mapped" THEN GroupHas ELSE {"stdin"})
            /\ names' = IF master = "master" THEN {} ELSE names
            /\ group' \in {group, "freed"}
  <2>1. /\ pc = "stopGroup" /\ watcher = "disabled" /\ WatcherTypeOK /\ Known \subseteq Blocks
        /\ owner \in [Blocks -> Owners]
    BY <1>1, KnownBlocks DEF StopGroup, Whose, AfterWatcher, MemType, WatcherTypeOK
  <2>2. CASE group = "freed"
    <3>1. Crash /\ UNCHANGED <<held, group, master, names, watcherVars>>
      BY <2>2 DEF StopGroup
    <3>2. WatcherTypeOK' /\ UNCHANGED <<config, brk, misfreed, owner>>
      BY <2>1, <3>1, MemoryStays DEF watcherVars, memory
    <3> QED
      BY <2>1, <2>2, <3>1, <3>2 DEF Crash
  <2>3. CASE group # "freed"
    <3>1. Deallocate /\ Goto("exited")
      BY <2>3 DEF StopGroup
    <3> QED
      BY <2>1, <2>3, <3>1, DeallocateDoes, KnownBlocks DEF Goto, Known
  <2> QED
    BY <2>2, <2>3
<1>4. ProgType'
  BY <1>1, <1>2, <1>3
  DEF config, exitVars, ProgType
<1>5. ExitType'
  BY <1>1, <1>2, <1>3
  DEF config, exitVars, ExitType, SetupSteps, JobSteps, StopSteps, Over
<1>6. ResType'
  BY <1>1, <1>2, <1>3
  DEF config, exitVars, ResType, Resources
<1>7. JobType'
  BY <1>1, <1>2, <1>3
  DEF config, exitVars, JobType
<1>8. MemType'
  BY <1>1, <1>2, <1>3
  DEF config, exitVars, MemType, Known, Later, Wrapped
<1>9. Fresh'
  BY <1>1, <1>2, <1>3
  DEF config, exitVars, Fresh, Wrapped, Later, Known, Running, SetupSteps, JobSteps,
     UntilOnExit, UntilSigint, UntilNames, UntilWatcher, UntilData, UntilHeader,
     UntilThread, UntilOutput, UntilFopen, Owners
<1>10. Whose'
  BY <1>1, <1>2, <1>3
  DEF config, exitVars, Wraps, Whose, AfterWatcher, FreedByItsAllocator, Fixed, Over,
     UntilOnExit, UntilSigint, UntilNames, UntilWatcher, Known, Later, Wrapped, Owners
<1>11. HeapKept'
  BY <1>1, <1>2, <1>3
  DEF config, exitVars, HeapKept, Fixed, UntilOnExit, UntilSigint, UntilNames, UntilWatcher
<1>12. RoomKept'
  <2>1. watcher' # "enabled" /\ UNCHANGED before
    BY <1>1, <1>2, <1>3 DEF config, Whose, AfterWatcher
  <2> QED
    BY <1>1, <2>1 DEF RoomKept
<1>13. Counted'
  BY <1>1, <1>2, <1>3
  DEF config, exitVars, Counted, Profiling, Running, SetupSteps, JobSteps, StopSteps, Over,
     UntilOnExit, UntilSigint
<1>14. Held'
  BY <1>1, <1>2, <1>3
  DEF config, exitVars, Held, AlignedHeap, Profiling, SamplerHas, GroupHas, Timers, Known,
     Later, Wrapped, Owners
<1>15. Mastered'
  BY <1>1, <1>2, <1>3
  DEF config, exitVars, Mastered, Running, SetupSteps, JobSteps, UntilOnExit, UntilSigint,
     UntilNames
<1>16. Interrupted'
  BY <1>1, <1>2, <1>3
  DEF config, exitVars, Interrupted, Held, SwitchAgrees, Profiling, Kept, SamplerHas, GroupHas,
     StopSteps, Over, ToData, ToWatcher, ToOptions, ToOutput, ToSampler, ToDeadline,
     ToPeriod, ToPmcs, Known, Later, Wrapped, Owners
<1>17. Written'
  BY <1>1, <1>2, <1>3
  DEF config, exitVars, Written, ParsedConsistent
<1> QED
  BY <1>4, <1>5, <1>6, <1>7, <1>8, <1>9, <1>10, <1>11, <1>12, <1>13, <1>14, <1>15, <1>16,
     <1>17 DEF IInv
-----------------------------------------------------------------------------
(* A step that changes nothing.                                            *)
LEMMA StutterKeeps == ASSUME IInv, UNCHANGED vars PROVE IInv'
<1>1. UNCHANGED <<opts, prog, outcome, arg, field, pc, exit, status, at, hooks, held, pmcs, created,
                  armed, group, master, names, mt, sampling, posts, synchDone, started, jobEnded,
                  jobs, expiries, aborted, before, config, memory>>
  BY DEF vars, progVars, exitVars, resVars, groupVars, jobVars, memVars, watcherVars
<1>2. UNCHANGED watcherVars
  BY <1>1 DEF watcherVars
<1>3. ProgType'
  BY <1>1
  DEF IInv, config, memory, ProgType
<1>4. ExitType'
  BY <1>1
  DEF IInv, config, memory, ExitType
<1>5. ResType'
  BY <1>1
  DEF IInv, config, memory, ResType
<1>6. JobType'
  BY <1>1
  DEF IInv, config, memory, JobType
<1>7. MemType'
  BY <1>1, <1>2, MemoryStays DEF IInv, MemType
<1>8. Fresh'
  BY <1>1
  DEF IInv, config, memory, Fresh
<1>9. Whose'
  BY <1>1
  DEF IInv, config, memory, Whose, FreedByItsAllocator
<1>10. HeapKept'
  BY <1>1
  DEF IInv, config, memory, HeapKept
<1>11. RoomKept'
  BY <1>1
  DEF IInv, config, memory, RoomKept, Taken, Allocated
<1>12. Counted'
  BY <1>1
  DEF IInv, config, memory, Counted, Profiling
<1>13. Held'
  BY <1>1
  DEF IInv, config, memory, Held, Profiling, AlignedHeap
<1>14. Mastered'
  BY <1>1
  DEF IInv, config, memory, Mastered
<1>15. Interrupted'
  BY <1>1
  DEF IInv, config, memory, Interrupted, SwitchAgrees, Profiling, Kept
<1>16. Written'
  BY <1>1
  DEF IInv, config, memory, Written, ParsedConsistent
<1> QED
  BY <1>3, <1>4, <1>5, <1>6, <1>7, <1>8, <1>9, <1>10, <1>11, <1>12, <1>13, <1>14, <1>15,
     <1>16 DEF IInv
-----------------------------------------------------------------------------
(* The theorems                                                            *)

(* Every step keeps the invariant,                                         *)
LEMMA StepKeeps == ASSUME IInv, Next PROVE IInv'
<1>1. CASE Setup
  BY <1>1, ParseOptionKeeps, ParseKeeps, OpenSamplerFileKeeps, SetupPerfSamplerKeeps,
     RegisterOnExitKeeps, SetAffinityKeeps, HandleSigintKeeps, SetupPmcsKeeps, CreateNamesKeeps,
     BecomeMasterKeeps, StartWatcherKeeps, OpenPagemapKeeps, InitDataKeeps, InitHeaderKeeps,
     InitThreadKeeps, PublishKeeps, NameOutputKeeps, OpenOutputKeeps, FreeNameKeeps,
     InitSemaphoreKeeps, DeadlineTimerKeeps, WaitForSynchKeeps, PeriodTimerKeeps DEF Setup
<1>2. CASE Jobs
  BY <1>2, LoopKeeps, WaitPeriodKeeps, StartJobKeeps, EndJobKeeps, LastPeriodKeeps,
     AddSampleBufferKeeps DEF Jobs
<1>3. CASE StopBenchmark
  BY <1>3, StopThreadsKeeps, StopDataKeeps, StopWatcherKeeps, StopOptionsKeeps, StopOutputKeeps,
     StopSamplerKeeps, StopDeadlineKeeps, StopPeriodKeeps, StopPmcsKeeps, StopGroupKeeps
     DEF StopBenchmark
<1> QED
  BY <1>1, <1>2, <1>3, PeriodExpiresKeeps, SigintKeeps DEF Next

(* so every state of a process satisfies it.                               *)
THEOREM Invariant == Spec => []IInv
<1>1. IInv /\ [Next]_vars => IInv'
  BY StepKeeps, StutterKeeps
<1> QED
  BY InitHolds, <1>1, PTL DEF Spec

(* A process is always in a state the code has names for: main.c,          *)
(* periodic_benchmark.c and memory_watcher.c for the types of their        *)
(* members.                                                                *)
THEOREM TypeCorrect == Spec => []TypeOK
<1>1. IInv => TypeOK
  BY TypeParts DEF IInv
<1> QED
  BY Invariant, <1>1, PTL

(* The options a program runs with are consistent (main.c:518-538, 711),   *)
(* whatever the command line and the configuration files on it.            *)
THEOREM ParsedConsistentHolds == Spec => []ParsedConsistent
<1>1. IInv => ParsedConsistent
  BY DEF IInv, Written
<1> QED
  BY Invariant, <1>1, PTL

(* No block but the header is freed by another allocator than the one it   *)
(* came from (memory_watcher.c:497).                                       *)
THEOREM FreedByItsAllocatorHolds == Spec => []FreedByItsAllocator
<1>1. IInv => FreedByItsAllocator
  BY DEF IInv, Whose
<1> QED
  BY Invariant, <1>1, PTL

(* Success is reported for a reason (main.c:747).                          *)
THEOREM FailureReportedHolds == Spec => []FailureReported
<1>1. IInv => FailureReported
  BY DEF IInv, Counted, FailureReported
<1> QED
  BY Invariant, <1>1, PTL

(* With an address at the start of a page, and a build whose addresses     *)
(* count bytes (optional_features.h:62-74), what rtbench_sbrk() hands out  *)
(* lies inside the mapping (memory_watcher.c:218, 431).                    *)
THEOREM HeapInMappingHolds ==
  ASSUME CellSize = 1
  PROVE  Spec => [](AlignedHeap => HeapInMapping)
<1>1. ASSUME IInv, AlignedHeap, watcher \in Fixed PROVE shift + brk <= mapped
  <2>1. heap_size \in Nat /\ brk \in Nat /\ PageSize \in Nat \ {0}
    BY <1>1, NumbersHold DEF IInv, MemType, WatcherTypeOK, Numbers
  <2>2. brk <= heap_size * CellSize /\ mapped = RoundUp(heap_size, PageSize) /\ shift = 0 * CellSize
    BY <1>1 DEF IInv, HeapKept, AlignedHeap
  <2>3. heap_size * CellSize = heap_size /\ shift = 0
    BY <2>1, <2>2
  <2>4. heap_size <= mapped /\ mapped \in Nat
    BY <2>1, <2>2, RoundUpBounds
  <2> QED
    BY <2>1, <2>2, <2>3, <2>4
<1>2. IInv => (AlignedHeap => HeapInMapping)
  BY <1>1 DEF HeapInMapping
<1> QED
  BY Invariant, <1>2, PTL

(* SIGINT terminates a process in a clean way (periodic_benchmark.c:210),  *)
(* whatever it interrupts; but munmap() refuses an address inside a page.  *)
THEOREM CleanInterruptHolds == Spec => [](AlignedHeap => CleanInterrupt)
<1>1. ASSUME IInv, AlignedHeap, pc \in Over, exit = "sigint", at # "master", SwitchAgrees,
             ~ (Profiling /\ pc = "crashed" /\ "samplerFile" \notin held)
      PROVE  Clean
  <2>1. Interrupted /\ Held /\ Fresh /\ ResType /\ MemType
    BY <1>1 DEF IInv
  <2>2. pc = "exited"
    BY <1>1, <2>1 DEF Interrupted, Over, StopSteps
  <2>3. /\ held \intersect SamplerHas = {} /\ held \intersect GroupHas = {}
        /\ Kept("deadlineTimer") /\ Kept("periodTimer") /\ pmcs = 0
        /\ "threads" \notin held /\ "output" \notin held
        /\ watcher = "disabled" /\ (~ prog.joins => names = {})
        /\ \A b \in {"args", "outputPath", "groupNames", "samples", "moreSamples", "data", "header",
                     "threadInfo", "file"} : owner[b] = "none"
    BY <1>1, <2>1, <2>2 DEF Interrupted, ToData, ToWatcher, ToOptions, ToOutput, ToSampler,
       ToDeadline, ToPeriod, ToPmcs
  <2>4. fds = {} /\ mapped = 0
    BY <1>1, <2>1, <2>3 DEF Held, Fixed
  <2>5. \A h \in held : h = "stdin" \/ (created # <<>> /\ h = created[1])
    BY <2>1, <2>3 DEF ResType, Resources, SamplerHas, GroupHas, Kept
  <2>6. \A b \in Blocks \ Known : owner[b] = "none"
    BY <2>1 DEF Fresh
  <2>7. {b \in Blocks : owner[b] # "none"} \subseteq {"job", "fname"}
    BY <2>3, <2>6 DEF Known, Later, Wrapped
  <2>8. held \subseteq {"stdin"} \union (IF created = <<>> THEN {} ELSE {created[1]})
    BY <2>5
  <2> QED
    BY <2>2, <2>3, <2>4, <2>7, <2>8 DEF Clean
<1>2. IInv => (AlignedHeap => CleanInterrupt)
  BY <1>1 DEF CleanInterrupt
<1> QED
  BY Invariant, <1>2, PTL

-----------------------------------------------------------------------------
(* The limit of -m                                                         *)

OverLimit == heap_size' < Bytes[(Taken' \union {aborted'}) \intersect Blocks]

(* When libc has to move the program break for a block of the benchmark's, *)
(* the limit is passed with that block,                                    *)
LEMMA MallocOverLimit ==
  ASSUME MemType, RoomKept, NEW b \in Blocks, b \in Later, owner[b] = "none", RealMalloc(b),
         UNCHANGED before, extended', ~ extended
  PROVE  OverLimit
<1>1. /\ watcher = "enabled" /\ room < Size[b] /\ b \notin before /\ heap_size' = heap_size
      /\ owner' = [owner EXCEPT ![b] = "libc"] /\ owner \in [Blocks -> Owners]
  <2>1. watcher = "enabled" /\ ~ (room >= Size[b])
    BY DEF RealMalloc
  <2>2. b \notin before /\ room \in Nat /\ Size[b] \in Nat /\ owner \in [Blocks -> Owners]
    BY BlocksFinite DEF RoomKept, MemType, WatcherTypeOK
  <2>3. heap_size' = heap_size /\ owner' = [owner EXCEPT ![b] = "libc"]
    BY RealMallocDoes DEF config, MemType
  <2> QED
    BY <2>1, <2>2, <2>3
<1> DEFINE B == (Taken' \union {aborted'}) \intersect Blocks
<1>2. /\ Taken \in SUBSET Blocks /\ Taken' \in SUBSET Blocks
      /\ b \in Taken' /\ Taken' \ {b} = Taken
  BY <1>1 DEF Taken, Allocated
<1>3. Bytes[Taken'] = Size[b] + Bytes[Taken]
  BY <1>2, BytesRemove
<1>4. B \in SUBSET Blocks /\ Taken' \in SUBSET B
  BY <1>2
<1>5. Bytes[Taken'] <= Bytes[B]
  BY <1>4, BytesSubset
<1>6. {Bytes[Taken], Bytes[Taken'], Bytes[B], Size[b], room, heap_size} \subseteq Nat
  BY <1>2, <1>4, BytesOf, BlocksFinite DEF MemType, WatcherTypeOK
<1>7. heap_size <= room + Bytes[Taken]
  BY <1>1 DEF RoomKept
<1>8. heap_size' < Bytes[B]
  <2> HIDE DEF Taken, B
  <2> QED
    BY <1>1, <1>3, <1>5, <1>6, <1>7
<1> QED
  BY <1>8 DEF OverLimit

(* and so it is when the wrapped malloc() ends the program for a block,    *)
LEMMA AbortOverLimit ==
  ASSUME MemType, RoomKept, NEW b \in Blocks, b \in Later, owner[b] = "none", NEW threaded,
         WrapMallocAborts(b, threaded), UNCHANGED before, aborted' = b, ~ extended
  PROVE  OverLimit
<1>1. /\ watcher = "enabled" /\ room < Size[b] /\ b \notin before
      /\ UNCHANGED <<heap_size, owner>> /\ owner \in [Blocks -> Owners]
  BY DEF WrapMallocAborts, RoomKept, config, MemType, WatcherTypeOK
<1> DEFINE B == (Taken' \union {aborted'}) \intersect Blocks
<1>2. Taken \in SUBSET Blocks /\ B \in SUBSET Blocks /\ b \in B /\ B \ {b} = Taken
  BY <1>1 DEF Taken, Allocated
<1>3. Bytes[B] = Size[b] + Bytes[Taken]
  BY <1>2, BytesRemove
<1>4. {Bytes[Taken], Size[b], room, heap_size} \subseteq Nat
  BY <1>2, BytesOf, BlocksFinite DEF MemType, WatcherTypeOK
<1>5. heap_size <= room + Bytes[Taken]
  BY <1>1 DEF RoomKept
<1>6. heap_size' < Bytes[B]
  <2> HIDE DEF Taken, B
  <2> QED
    BY <1>1, <1>3, <1>4, <1>5
<1> QED
  BY <1>6 DEF OverLimit

(* which is the only way it moves the break.                               *)
LEMMA WrapMallocKeepsBreak ==
  ASSUME NEW b, NEW threaded, WrapMallocOk(b, threaded), ~ extended
  PROVE  ~ extended'
<1>1. CASE watcher \in Fixed
  BY <1>1 DEF WrapMallocOk, DlMalloc
<1>2. CASE watcher \notin Fixed
  BY <1>2 DEF WrapMallocOk, RealMalloc
<1> QED
  BY <1>1, <1>2

LEMMA RealMallocKeepsBreak ==
  ASSUME NEW b, RealMalloc(b), watcher # "enabled"
  PROVE  extended' = extended
  BY DEF RealMalloc

LEMMA WrapFreeKeepsBreak == ASSUME NEW B, WrapFree(B) PROVE extended' = extended
  BY DEF WrapFree

(* The program break moves under the watcher only when the blocks taken    *)
(* since it started exceed the limit (memory_watcher.c:376).               *)
THEOREM ExtendedOverLimitHolds == Spec => ExtendedOverLimit
<1>1. ASSUME IInv, Next, extended', ~ extended PROVE OverLimit
  <2>1. /\ MemType /\ RoomKept /\ Fresh /\ Known \subseteq Blocks
        /\ pc \in UntilWatcher => watcher = "disabled"
    BY <1>1, KnownBlocks DEF IInv, Whose
  <2>2. ASSUME ParseOption \/ Parse \/ OpenSamplerFile \/ RegisterOnExit \/ SetAffinity
               \/ HandleSigint \/ SetupPmcs \/ Publish \/ InitSemaphore \/ DeadlineTimer
               \/ WaitForSynch \/ PeriodTimer \/ Loop \/ WaitPeriod \/ LastPeriod
               \/ PeriodExpires \/ Sigint \/ StopDeadline \/ StopPeriod \/ StopPmcs
               \/ OpenPagemap
        PROVE  extended' = extended
    BY <2>2, Zenon DEF ParseOption, Parse, OpenSamplerFile, RegisterOnExit, SetAffinity,
       HandleSigint, SetupPmcs, Publish, InitSemaphore, DeadlineTimer, WaitForSynch, PeriodTimer,
       Loop, WaitPeriod, LastPeriod, PeriodExpires, Sigint, StopDeadline, StopPeriod, StopPmcs,
       OpenPagemap, memVars, watcherVars, memory
  <2>3. ASSUME FreeName \/ EndJob \/ BecomeMaster \/ StopThreads \/ StopData \/ StopOptions
               \/ StopSampler \/ StopGroup
        PROVE  extended' = extended
    <3>1. UNCHANGED watcherVars \/ \E B : WrapFree(B)
      BY <2>3, Zenon DEF FreeName, EndJob, BecomeMaster, StopThreads, StopData, StopOptions,
         StopSampler, StopGroup, Deallocate
    <3> QED
      BY <3>1, WrapFreeKeepsBreak DEF watcherVars, memory
  <2>4. ASSUME StopWatcher \/ StopOutput PROVE extended' = extended
    BY <2>4 DEF StopWatcher, StopMemoryWatcher, StopOutput, RealFree, watcherVars, memory
  <2>5. ASSUME SetupPerfSampler \/ CreateNames PROVE FALSE
    <3>1. watcher # "enabled"
      BY <2>1, <2>5 DEF SetupPerfSampler, CreateNames, UntilWatcher, UntilNames, UntilSigint,
         UntilOnExit
    <3>2. \/ UNCHANGED watcherVars \/ RealMalloc("samples")
          \/ WrapMallocOk("groupNames", FALSE)
      BY <2>5, Zenon DEF SetupPerfSampler, CreateNames
    <3>3. WrapMallocOk("groupNames", FALSE) => ~ extended'
      BY <1>1, WrapMallocKeepsBreak, Zenon
    <3>4. RealMalloc("samples") => extended' = extended
      BY <3>1, RealMallocKeepsBreak, Zenon
    <3> QED
      BY <1>1, <3>2, <3>3, <3>4, Zenon DEF watcherVars, memory
  <2>6. ASSUME StartWatcher PROVE ~ extended'
    BY <1>1, <2>6 DEF StartWatcher, StartEnabled, StartFixed, StartFails, watcherVars, memory
  <2>7. ASSUME NEW b \in {"header", "file", "moreSamples"}, RealMalloc(b), owner[b] = "none",
               UNCHANGED before
        PROVE  OverLimit
    BY <1>1, <2>1, <2>7, MallocOverLimit DEF Known, Later
  <2>8. CASE InitHeader \/ OpenOutput \/ AddSampleBuffer
    <3>1. \E b \in {"header", "file", "moreSamples"} : RealMalloc(b) /\ owner[b] = "none"
      BY <1>1, <2>1, <2>8 DEF InitHeader, OpenOutput, AddSampleBuffer, Fresh, UntilHeader,
         UntilFopen, watcherVars, memory
    <3>2. UNCHANGED before
      BY <2>8 DEF InitHeader, OpenOutput, AddSampleBuffer, memVars
    <3> QED
      BY <2>7, <3>1, <3>2
  <2>9. CASE InitData \/ InitThread \/ NameOutput \/ StartJob
    <3>1. \E b \in Wrapped, t \in BOOLEAN :
             /\ owner[b] = "none"
             /\ \/ WrapMallocOk(b, t) \/ UNCHANGED watcherVars
                \/ WrapMallocAborts(b, t) /\ aborted' = b
      <4> DEFINE Asks(b, t) ==
            /\ owner[b] = "none"
            /\ \/ WrapMallocOk(b, t) \/ UNCHANGED watcherVars
               \/ WrapMallocAborts(b, t) /\ aborted' = b
      <4>1. CASE InitData
        <5>1. owner["data"] = "none" /\ FALSE \in BOOLEAN
          BY <2>1, <4>1 DEF InitData, Fresh, UntilData, UntilThread, UntilOutput, Running, SetupSteps,
             JobSteps, Threads
        <5>2. Asks("data", FALSE)
          BY <5>1, <4>1, Zenon DEF InitData, Allocate, WrapMallocNull, WrapMmapAborts
        <5> QED
          BY <5>1, <5>2 DEF Wrapped
      <4>2. CASE InitThread
        <5>1. owner["threadInfo"] = "none" /\ FALSE \in BOOLEAN
          BY <2>1, <4>2 DEF InitThread, Fresh, UntilData, UntilThread, UntilOutput, Running, SetupSteps,
             JobSteps, Threads
        <5>2. Asks("threadInfo", FALSE)
          BY <5>1, <4>2, Zenon DEF InitThread, Allocate, WrapMallocNull
        <5> QED
          BY <5>1, <5>2 DEF Wrapped
      <4>3. CASE NameOutput
        <5>1. owner["fname"] = "none" /\ FALSE \in BOOLEAN
          BY <2>1, <4>3 DEF NameOutput, Fresh, UntilData, UntilThread, UntilOutput, Running, SetupSteps,
             JobSteps, Threads
        <5>2. Asks("fname", FALSE)
          BY <5>1, <4>3, Zenon DEF NameOutput, Allocate, WrapMallocNull
        <5> QED
          BY <5>1, <5>2 DEF Wrapped
      <4>4. CASE StartJob
        <5>1. owner["job"] = "none" /\ Threads \in BOOLEAN
          BY <2>1, <4>4 DEF StartJob, Fresh, UntilData, UntilThread, UntilOutput, Running, SetupSteps,
             JobSteps, Threads
        <5>2. Asks("job", Threads)
          BY <5>1, <4>4, Zenon DEF StartJob, Allocate, WrapMallocNull
        <5> QED
          BY <5>1, <5>2 DEF Wrapped
      <4> QED
        BY <2>9, <4>1, <4>2, <4>3, <4>4
    <3>2. UNCHANGED before
      BY <2>9 DEF InitData, InitThread, NameOutput, StartJob
    <3> QED
      BY <1>1, <2>1, <3>1, <3>2, WrapMallocKeepsBreak, AbortOverLimit
      DEF Known, Later, watcherVars, memory
  <2>10. CASE Setup
    BY <1>1, <2>2, <2>3, <2>5, <2>6, <2>8, <2>9, <2>10, Zenon DEF Setup
  <2>11. CASE Jobs
    BY <1>1, <2>2, <2>3, <2>8, <2>9, <2>11, Zenon DEF Jobs
  <2>12. CASE StopBenchmark
    BY <1>1, <2>2, <2>3, <2>4, <2>12, Zenon DEF StopBenchmark
  <2> QED
    BY <1>1, <2>2, <2>10, <2>11, <2>12, Zenon DEF Next
<1>2. IInv /\ [Next]_vars => [extended' /\ ~ extended => OverLimit]_vars
  BY <1>1
<1> QED
  BY Invariant, <1>2, PTL DEF Spec, ExtendedOverLimit, OverLimit
=============================================================================
