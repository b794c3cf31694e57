--------------------------- MODULE PerfSamplerProofs ------------------------
(***************************************************************************)
(* The sampler's list of buffers, for every length of the first buffer,    *)
(* every number of jobs and of buffers that memory allows, and for every   *)
(* interleaving of the sampler with the main thread; the samples' base     *)
(* when the sampler has the main thread's core; and what is in the log.    *)
(***************************************************************************)
EXTENDS PerfSampler, TLAPS

Cells == [samples : Nat, sum : [base : Int, at : Int]]

(* The place the sampler is at: the last buffer, unless it is out of       *)
(* memory, and in it a place within the buffer, but for a full buffer that *)
(* is about to be replaced.                                                *)
PlaceInv ==
  /\ counter \in Nat
  /\ current \in {0, Len(list)}
  /\ current # 0 =>
       /\ counter <= Len(list[current])
       /\ sampler # "full" => counter < Len(list[current])
  /\ sampler = "count" /\ ~Stopped => current # 0

(* Every place before it holds a sample, no other does. *)
Filled ==
  current # 0 =>
    \A i \in 1..current : \A j \in 1..Len(list[i]) :
      list[i][j].samples > 0 <=> i < current \/ j <= counter

ListInv ==
  /\ list \in Seq(Seq(Cells))
  /\ \A i \in 1..Len(list) : Len(list[i]) > 0
  /\ base \in Int /\ launched \in Nat

IInv == ListInv /\ PlaceInv /\ Filled

-----------------------------------------------------------------------------
(* Lists of buffers. *)

(* Replacing a cell changes no length and no other cell.                   *)
LEMMA CellReplaced ==
  ASSUME NEW C, NEW l \in Seq(Seq(C)), NEW i \in 1..Len(l), NEW j \in 1..Len(l[i]), NEW cell \in C
  PROVE  LET new == [l EXCEPT ![i] = [l[i] EXCEPT ![j] = cell]]
         IN  /\ new \in Seq(Seq(C)) /\ Len(new) = Len(l)
             /\ \A m \in 1..Len(l) :
                  /\ Len(new[m]) = Len(l[m])
                  /\ \A n \in 1..Len(l[m]) :
                       new[m][n] = IF m = i /\ n = j THEN cell ELSE l[m][n]
<1> DEFINE row == [l[i] EXCEPT ![j] = cell]
           new == [l EXCEPT ![i] = row]
<1>1. l[i] \in Seq(C)
  OBVIOUS
<1>2. row \in Seq(C) /\ Len(row) = Len(l[i])
  BY <1>1
<1>3. \A n \in 1..Len(l[i]) : row[n] = IF n = j THEN cell ELSE l[i][n]
  BY <1>1
<1> HIDE DEF row
<1>4. new \in Seq(Seq(C)) /\ Len(new) = Len(l)
  BY <1>2
<1>5. \A m \in 1..Len(l) : new[m] = IF m = i THEN row ELSE l[m]
  BY <1>2
<1> HIDE DEF new
<1>6. /\ new \in Seq(Seq(C)) /\ Len(new) = Len(l)
      /\ \A m \in 1..Len(l) :
           /\ Len(new[m]) = Len(l[m])
           /\ \A n \in 1..Len(l[m]) : new[m][n] = IF m = i /\ n = j THEN cell ELSE l[m][n]
  BY <1>2, <1>3, <1>4, <1>5
<1> QED
  BY <1>6 DEF new, row

(* Appending a buffer changes no other.                                    *)
LEMMA BufferAppended ==
  ASSUME NEW C, NEW l \in Seq(Seq(C)), NEW b \in Seq(C)
  PROVE  /\ Append(l, b) \in Seq(Seq(C)) /\ Len(Append(l, b)) = Len(l) + 1
         /\ \A m \in 1..Len(l) : Append(l, b)[m] = l[m]
         /\ Append(l, b)[Len(l) + 1] = b
OBVIOUS

(* A fresh buffer has no samples. *)
LEMMA FreshBuffer ==
  ASSUME NEW n \in Nat
  PROVE  /\ Buffer(n) \in Seq(Cells) /\ Len(Buffer(n)) = n
         /\ \A j \in 1..n : Buffer(n)[j].samples = 0
BY DEF Buffer, EmptyCell, NoSum, Cells

-----------------------------------------------------------------------------
(* The invariant. *)

(* The first buffer is empty. *)
LEMMA InvInit == Init => IInv
<1> SUFFICES ASSUME Init PROVE IInv
  OBVIOUS
<1>1. FirstLength \in Nat \ {0}
  BY SamplerAssumption
<1>2. Buffer(FirstLength) \in Seq(Cells) /\ Len(Buffer(FirstLength)) = FirstLength
      /\ \A j \in 1..FirstLength : Buffer(FirstLength)[j].samples = 0
  BY <1>1, FreshBuffer
<1>3. base = 0 /\ launched = 0 /\ counter = 0 /\ current = Len(list) /\ sampler # "count"
  BY DEF Init
<1>4. CASE opts.profiling
  <2>1. list = <<Buffer(FirstLength)>>
    BY <1>4 DEF Init
  <2>2. list \in Seq(Seq(Cells)) /\ Len(list) = 1 /\ list[1] = Buffer(FirstLength)
    BY <1>2, <2>1
  <2>3. \A i \in 1..Len(list) : i = 1
    BY <2>2
  <2> QED
    BY <1>1, <1>2, <1>3, <2>2, <2>3 DEF IInv, ListInv, PlaceInv, Filled
<1>5. CASE ~opts.profiling
  <2>1. list = <<>>
    BY <1>5 DEF Init
  <2> QED
    BY <1>3, <2>1 DEF IInv, ListInv, PlaceInv, Filled
<1> QED
  BY <1>4, <1>5

(* Most steps leave the buffers and the place alone. *)
LEMMA QuietStep ==
  ASSUME IInv, ~Stopped, UNCHANGED <<base, list, current, counter>>, launched' \in Nat,
         sampler' = sampler \/ (sampler # "full" /\ sampler' # "count")
  PROVE  IInv'
<1>1. ListInv'
  BY DEF IInv, ListInv
<1>2. PlaceInv'
  BY DEF IInv, PlaceInv
<1>3. Filled'
  BY DEF IInv, Filled
<1> QED
  BY <1>1, <1>2, <1>3 DEF IInv

(* The cell the sampler is at. *)
LEMMA AtCell ==
  ASSUME IInv, current # 0, sampler # "full"
  PROVE  /\ current \in 1..Len(list) /\ counter + 1 \in 1..Len(list[current])
         /\ list \in Seq(Seq(Cells)) /\ list[current][counter + 1] \in Cells
         /\ current = Len(list)
<1>1. /\ list \in Seq(Seq(Cells)) /\ current = Len(list) /\ current # 0 /\ counter \in Nat
      /\ counter < Len(list[current])
  BY DEF IInv, ListInv, PlaceInv
<1>2. current \in 1..Len(list) /\ list[current] \in Seq(Cells)
  BY <1>1
<1>3. counter + 1 \in 1..Len(list[current])
  BY <1>1, <1>2
<1> QED
  BY <1>1, <1>2, <1>3

(* A sum is stored in the cell the sampler is at, which stays uncounted.   *)
LEMMA StoreStep ==
  ASSUME IInv, ~Stopped, sampler \in {"base", "sample"}, sampler' = "count",
         NEW job \in Int, Store(job), UNCHANGED <<current, counter, launched>>, base' \in Int
  PROVE  IInv'
<1>1. CASE current = 0
  <2>1. list' = list /\ Stopped'
    BY <1>1 DEF Store, Stopped
  <2> QED
    BY <1>1, <2>1 DEF IInv, ListInv, PlaceInv, Filled
<1>2. CASE current # 0
  <2> DEFINE k == counter + 1
             cell == [list[current][k] EXCEPT !.sum = [base |-> job, at |-> JobNow]]
  <2>1. /\ current \in 1..Len(list) /\ k \in 1..Len(list[current])
        /\ list \in Seq(Seq(Cells)) /\ list[current][k] \in Cells /\ current = Len(list)
    BY <1>2, AtCell
  <2>2. JobNow \in Int
    BY DEF JobNow, IInv, ListInv
  <2>3. cell \in Cells /\ cell.samples = list[current][k].samples
    BY <2>1, <2>2 DEF Cells
  <2>4. list' = [list EXCEPT ![current] = [list[current] EXCEPT ![k] = cell]]
    BY <1>2 DEF Store
  <2> HIDE DEF cell, k
  <2>5. /\ list' \in Seq(Seq(Cells)) /\ Len(list') = Len(list)
        /\ \A m \in 1..Len(list) :
             /\ Len(list'[m]) = Len(list[m])
             /\ \A n \in 1..Len(list[m]) :
                  list'[m][n] = IF m = current /\ n = k THEN cell ELSE list[m][n]
    BY <2>1, <2>3, <2>4, CellReplaced
  <2>6. ListInv'
    BY <2>5 DEF IInv, ListInv
  <2>7. PlaceInv'
    BY <1>2, <2>1, <2>5 DEF IInv, PlaceInv
  <2>8. Filled'
    <3> SUFFICES ASSUME NEW i \in 1..current, NEW j \in 1..Len(list'[i])
                 PROVE  list'[i][j].samples > 0 <=> i < current \/ j <= counter
      BY DEF Filled
    <3>1. i \in 1..Len(list)
      BY <2>1
    <3>2. /\ j \in 1..Len(list[i])
          /\ list'[i][j] = IF i = current /\ j = k THEN cell ELSE list[i][j]
      BY <2>5, <3>1
    <3>3. list'[i][j].samples = list[i][j].samples
      BY <2>3, <3>2
    <3>4. list[i][j].samples > 0 <=> i < current \/ j <= counter
      BY <1>2, <3>2 DEF IInv, Filled
    <3> QED
      BY <3>3, <3>4
  <2> QED
    BY <2>6, <2>7, <2>8 DEF IInv
<1> QED
  BY <1>1, <1>2

(* Counting it makes it the last one filled. *)
LEMMA CountStep ==
  ASSUME IInv, CountSample
  PROVE  IInv'
<1> DEFINE k == counter + 1
           cell == [list[current][k] EXCEPT !.samples = @ + 1]
<1>1. /\ sampler = "count" /\ sampler' = "full" /\ ~Stopped /\ counter' = k
      /\ UNCHANGED <<base, current, launched>>
  BY DEF CountSample, SamplerAt
<1>2. current # 0
  BY <1>1 DEF IInv, PlaceInv
<1>3. /\ current \in 1..Len(list) /\ k \in 1..Len(list[current])
      /\ list \in Seq(Seq(Cells)) /\ list[current][k] \in Cells /\ current = Len(list)
  BY <1>1, <1>2, AtCell
<1>4. cell \in Cells /\ cell.samples > 0
  <2>1. \A r \in Cells : /\ [r EXCEPT !.samples = @ + 1] \in Cells
                         /\ [r EXCEPT !.samples = @ + 1].samples = r.samples + 1
                         /\ r.samples + 1 > 0
    BY DEF Cells
  <2> QED
    BY <1>3, <2>1
<1>5. list' = [list EXCEPT ![current] = [list[current] EXCEPT ![k] = cell]]
  BY DEF CountSample
<1> HIDE DEF cell
<1>6. /\ list' \in Seq(Seq(Cells)) /\ Len(list') = Len(list)
      /\ \A m \in 1..Len(list) :
           /\ Len(list'[m]) = Len(list[m])
           /\ \A n \in 1..Len(list[m]) :
                list'[m][n] = IF m = current /\ n = k THEN cell ELSE list[m][n]
  BY <1>3, <1>4, <1>5, CellReplaced
<1>7. ListInv'
  BY <1>1, <1>6 DEF IInv, ListInv
<1>8. PlaceInv'
  BY <1>1, <1>3, <1>6 DEF IInv, PlaceInv
<1>9. Filled'
  <2> SUFFICES ASSUME NEW i \in 1..current, NEW j \in 1..Len(list[i])
               PROVE  list'[i][j].samples > 0 <=> i < current \/ j <= k
    BY <1>1, <1>3, <1>6 DEF Filled
  <2>1. list[i][j].samples > 0 <=> i < current \/ j <= counter
    BY <1>2 DEF IInv, Filled
  <2>2. list'[i][j] = IF i = current /\ j = k THEN cell ELSE list[i][j]
    BY <1>3, <1>6
  <2> QED
    BY <1>3, <1>4, <2>1, <2>2 DEF IInv, PlaceInv
<1> QED
  BY <1>7, <1>8, <1>9 DEF IInv

(* A full buffer is followed by a fresh one, or by none. *)
LEMMA FullStep ==
  ASSUME IInv, TestFull
  PROVE  IInv'
<1>1. sampler = "full" /\ ~Stopped /\ UNCHANGED <<base, launched>>
  BY DEF TestFull, SamplerAt, buffers
<1>2. CASE current = 0
  <2>1. /\ Stopped' /\ sampler' = "full"
        /\ UNCHANGED <<base, list, current, counter, launched>>
    BY <1>2 DEF TestFull, SamplerAt, Stopped, buffers
  <2> QED
    BY <1>1, <2>1, QuietStep DEF IInv, ListInv
<1>3. CASE current # 0
  <2>1. /\ sampler' = "sigwait" /\ counter \in Nat /\ counter <= Len(list[current])
        /\ list \in Seq(Seq(Cells)) /\ current = Len(list) /\ current \in 1..Len(list)
    BY <1>3 DEF TestFull, SamplerAt, IInv, PlaceInv, ListInv
  <2>2. Len(list[current]) \in Nat \ {0}
    BY <2>1 DEF IInv, ListInv
  <2>3. CASE counter # Len(list[current])
    <3>1. UNCHANGED <<base, list, current, counter, launched>>
      BY <1>1, <1>3, <2>3 DEF TestFull, BufferFull, buffers
    <3> QED
      BY <2>1, <2>2, <2>3, <3>1 DEF IInv, ListInv, PlaceInv, Filled
  <2>4. CASE counter = Len(list[current])
    <3> DEFINE fresh == Buffer(NextLength(Len(list[current])))
    <3>1. /\ fresh \in Seq(Cells) /\ Len(fresh) > 0
          /\ \A j \in 1..Len(fresh) : fresh[j].samples = 0
      <4>1. NextLength(Len(list[current])) \in Nat \ {0}
        BY <2>2 DEF NextLength
      <4> QED
        BY <4>1, FreshBuffer
    <3>2. /\ counter' = 0
          /\ \/ list' = Append(list, fresh) /\ current' = current + 1
             \/ list' = list /\ current' = 0
      BY <1>3, <2>4 DEF TestFull, BufferFull
    <3> HIDE DEF fresh
    <3>3. CASE list' = list /\ current' = 0
      BY <1>1, <2>1, <3>2, <3>3 DEF IInv, ListInv, PlaceInv, Filled
    <3>4. CASE list' = Append(list, fresh) /\ current' = current + 1
      <4>1. /\ list' \in Seq(Seq(Cells)) /\ Len(list') = Len(list) + 1
            /\ \A m \in 1..Len(list) : list'[m] = list[m]
            /\ list'[Len(list) + 1] = fresh
        BY <2>1, <3>1, <3>4, BufferAppended
      <4>2. ListInv'
        <5>1. \A m \in 1..Len(list') : m \in 1..Len(list) \/ m = Len(list) + 1
          BY <2>1, <4>1
        <5>2. \A m \in 1..Len(list') : Len(list'[m]) > 0
          BY <3>1, <4>1, <5>1 DEF IInv, ListInv
        <5> QED
          BY <1>1, <4>1, <5>2 DEF IInv, ListInv
      <4>3. PlaceInv'
        BY <2>1, <3>1, <3>2, <3>4, <4>1 DEF PlaceInv
      <4>4. Filled'
        <5> SUFFICES ASSUME NEW i \in 1..Len(list) + 1, NEW j \in 1..Len(list'[i])
                     PROVE  list'[i][j].samples > 0 <=> i < Len(list) + 1
          BY <2>1, <3>2, <3>4 DEF Filled
        <5>1. CASE i = Len(list) + 1
          BY <3>1, <4>1, <5>1
        <5>2. CASE i \in 1..Len(list)
          BY <1>3, <2>1, <2>4, <4>1, <5>2 DEF IInv, Filled
        <5> QED
          BY <2>1, <5>1, <5>2
      <4> QED
        BY <4>2, <4>3, <4>4 DEF IInv
    <3> QED
      BY <3>2, <3>3, <3>4
  <2> QED
    BY <2>3, <2>4
<1> QED
  BY <1>2, <1>3

(* Every step keeps the list and the place. *)
LEMMA InvNext == ASSUME IInv, [Next]_vars PROVE IInv'
<1>1. launched \in Nat /\ base \in Int
  BY DEF IInv, ListInv
<1>2. CASE TestAlive \/ TestActive \/ TestFirst \/ ClaimFirst \/ SignalTaken
  BY <1>1, <1>2, QuietStep
  DEF TestAlive, TestActive, TestFirst, ClaimFirst, SignalTaken, SamplerAt, buffers
<1>3. CASE TakeBase
  <2>1. JobNow \in Int
    BY <1>1 DEF JobNow
  <2> QED
    BY <1>3, <2>1, StoreStep DEF TakeBase, SamplerAt
<1>4. CASE TakeSample
  BY <1>1, <1>4, StoreStep DEF TakeSample, SamplerAt
<1>5. CASE TimerExpires \/ QuitHandler \/ (Main /\ ~JoinSampler)
  <2>1. ~Stopped /\ sampler' = sampler /\ UNCHANGED <<base, list, current, counter>>
        /\ launched' \in Nat
    <3> USE <1>1 DEF buffers, MainAt
    <3>1. CASE TimerExpires \/ QuitHandler
      BY <3>1 DEF TimerExpires, QuitHandler
    <3>2. CASE LoopTest \/ StartSampling \/ StartFirst \/ JobReturns \/ StopSampling \/ StopFirst
      BY <3>2 DEF LoopTest, StartSampling, StartFirst, JobReturns, StopSampling, StopFirst
    <3>3. CASE CountJob
      BY <3>3 DEF CountJob
    <3>4. CASE ReadSwitch \/ LogNoFile
      BY <3>4 DEF ReadSwitch, LogNoFile
    <3>5. CASE LogCell
      BY <3>5 DEF LogCell
    <3>6. CASE NextBuffer
      BY <3>6 DEF NextBuffer
    <3>7. CASE DeleteTimer \/ SendLastSignal \/ ClearAlive
      BY <3>7 DEF DeleteTimer, SendLastSignal, ClearAlive
    <3> QED
      BY <1>5, <3>1, <3>2, <3>3, <3>4, <3>5, <3>6, <3>7 DEF Main
  <2> QED
    BY <2>1, QuietStep
<1>6. CASE JoinSampler
  <2>1. /\ sampler = "gone" /\ sampler' = sampler /\ list' = <<>> /\ current' = 0
        /\ UNCHANGED <<base, counter, launched>>
    BY <1>6 DEF JoinSampler
  <2> QED
    BY <2>1 DEF IInv, ListInv, PlaceInv, Filled
<1>7. CASE UNCHANGED vars
  BY <1>7 DEF vars, buffers, IInv, ListInv, PlaceInv, Filled, Stopped
<1> QED
  BY <1>2, <1>3, <1>4, <1>5, <1>6, <1>7, CountStep, FullStep DEF Next, Sampler, Main

(* The sampler never writes past the end of a buffer, and its list has no  *)
(* gap at which log_samples() would stop early.                            *)
THEOREM NextCellCorrect == Spec => []NextCellFree
<1>1. IInv => NextCellFree
  BY DEF IInv, PlaceInv, Filled, NextCellFree
<1>2. IInv /\ [Next]_vars => IInv'
  BY InvNext
<1> QED
  BY InvInit, <1>1, <1>2, PTL DEF Spec

-----------------------------------------------------------------------------
(* Whose base a sample is measured from. *)

Sampling == {"first", "claim", "base", "sample"}

(* On one core the main thread is never between the tests of the flags and *)
(* the sample they were made for, so a base that is taken is the running   *)
(* job's, and it is cleared before the next job's sampling begins.         *)
FlagsInv ==
  /\ sampler \in Sampling => active
  /\ sampler = "sample" => firstTaken
  /\ active /\ firstTaken /\ sampler # "base" => base = launched + 1
  /\ main \in {"loop", "start", "count"} => ~active /\ ~firstTaken
  /\ main = "stopFirst" => ~active
  /\ ~opts.profiling => ~active /\ ~firstTaken /\ main # "start"

(* The sample under way has its own job's base, too. *)
CellsInv ==
  /\ sampler = "count" /\ ~Stopped => OwnBase(list[current][counter + 1])
  /\ \A i \in 1..Len(list) : \A j \in 1..Len(list[i]) :
       list[i][j].samples > 0 => OwnBase(list[i][j])

SeparateInv == opts.sameCore => FlagsInv /\ CellsInv

(* Steps that leave the list and the place alone. *)
LEMMA SameCells ==
  ASSUME CellsInv, UNCHANGED <<list, current, counter>>,
         sampler' # "count" \/ (sampler' = sampler /\ ~Stopped)
  PROVE  CellsInv'
BY DEF CellsInv, OwnBase

(* The options never change. *)
LEMMA OptsStep == ASSUME [Next]_vars PROVE opts' = opts
<1>1. CASE Sampler
  BY <1>1 DEF Sampler, TestAlive, TestActive, TestFirst, ClaimFirst, TakeBase, TakeSample,
              CountSample, TestFull, SignalTaken
<1>2. CASE Main
  BY <1>2 DEF Main, LoopTest, StartSampling, StartFirst, JobReturns, StopSampling, StopFirst,
              CountJob, ReadSwitch, LogNoFile, LogCell, NextBuffer, DeleteTimer, SendLastSignal,
              ClearAlive, JoinSampler
<1> QED
  BY <1>1, <1>2 DEF Next, TimerExpires, QuitHandler, vars

(* The flags on one core. *)
LEMMA FlagsStep ==
  ASSUME ListInv, FlagsInv, opts.sameCore, [Next]_vars
  PROVE  FlagsInv'
<1> USE DEF FlagsInv, Sampling, SamplerAt, flags, buffers
<1>1. launched \in Nat /\ opts' = opts
  BY OptsStep DEF ListInv
<1> USE <1>1
<1>2. CASE TestAlive \/ TestActive \/ TestFirst \/ ClaimFirst
  BY <1>2 DEF TestAlive, TestActive, TestFirst, ClaimFirst
<1>3. CASE TakeBase
  BY <1>3 DEF TakeBase, JobNow
<1>4. CASE TakeSample \/ CountSample
  BY <1>4 DEF TakeSample, CountSample
<1>5. CASE TestFull \/ SignalTaken
  BY <1>5 DEF TestFull, SignalTaken
<1>6. CASE TimerExpires
  BY <1>6 DEF TimerExpires
<1>7. ASSUME Main \/ QuitHandler
      PROVE  FlagsInv'
  <2>1. sampler \notin Sampling
    BY <1>7 DEF Main, QuitHandler, MainAt, SamplerWaits, LoopTest, StartSampling, StartFirst,
                JobReturns, StopSampling, StopFirst, CountJob, ReadSwitch, LogNoFile, LogCell,
                NextBuffer, DeleteTimer, SendLastSignal, ClearAlive, JoinSampler
  <2> USE <2>1 DEF MainAt
  <2>2. CASE LoopTest \/ JobReturns \/ ReadSwitch \/ LogNoFile
    <3>1. CASE LoopTest
      BY <3>1 DEF LoopTest
    <3>2. CASE JobReturns
      BY <3>2 DEF JobReturns
    <3>3. CASE ReadSwitch
      BY <3>3 DEF ReadSwitch
    <3>4. CASE LogNoFile
      BY <3>4 DEF LogNoFile
    <3> QED
      BY <2>2, <3>1, <3>2, <3>3, <3>4
  <2>3. CASE StartSampling \/ StartFirst
    BY <2>3 DEF StartSampling, StartFirst, FirstAfterSwitch
  <2>4. CASE StopSampling \/ StopFirst
    BY <2>4 DEF StopSampling, StopFirst, FirstAfterSwitch, ActiveAfterStop
  <2>5. CASE CountJob
    BY <2>5 DEF CountJob
  <2>6. CASE QuitHandler
    BY <2>6 DEF QuitHandler
  <2>7. CASE LogCell
    BY <2>7 DEF LogCell
  <2>8. CASE NextBuffer
    BY <2>8 DEF NextBuffer
  <2>9. CASE DeleteTimer \/ SendLastSignal
    <3>1. CASE DeleteTimer
      BY <3>1 DEF DeleteTimer
    <3>2. CASE SendLastSignal
      BY <3>2 DEF SendLastSignal
    <3> QED
      BY <2>9, <3>1, <3>2
  <2>10. CASE ClearAlive \/ JoinSampler
    BY <2>10 DEF ClearAlive, JoinSampler
  <2> QED
    BY <1>7, <2>2, <2>3, <2>4, <2>5, <2>6, <2>7, <2>8, <2>9, <2>10 DEF Main
<1>8. CASE UNCHANGED vars
  BY <1>8 DEF vars
<1> QED
  BY <1>2, <1>3, <1>4, <1>5, <1>6, <1>7, <1>8 DEF Next, Sampler

(* A sum is stored with the base of the job it belongs to. *)
LEMMA OwnBaseStored ==
  ASSUME IInv, CellsInv, ~Stopped, sampler \in {"base", "sample"}, sampler' = "count",
         active, Store(launched + 1), UNCHANGED <<current, counter>>, UNCHANGED main
  PROVE  CellsInv'
<1>1. CASE current = 0
  BY <1>1 DEF Store, Stopped, CellsInv, OwnBase
<1>2. CASE current # 0
  <2> DEFINE k == counter + 1
             cell == [list[current][k] EXCEPT !.sum = [base |-> launched + 1, at |-> JobNow]]
  <2>1. /\ current \in 1..Len(list) /\ k \in 1..Len(list[current])
        /\ list \in Seq(Seq(Cells)) /\ list[current][k] \in Cells /\ current = Len(list)
    BY <1>2, AtCell
  <2>2. JobNow = launched + 1 /\ launched \in Nat
    BY DEF JobNow, IInv, ListInv
  <2>3. cell \in Cells /\ OwnBase(cell)
    <3>1. \A r \in Cells, sum \in [base : Int, at : Int] :
            [r EXCEPT !.sum = sum] \in Cells /\ [r EXCEPT !.sum = sum].sum = sum
      BY DEF Cells
    <3>2. [base |-> launched + 1, at |-> JobNow] \in [base : Int, at : Int]
      BY <2>2
    <3>3. cell \in Cells /\ cell.sum = [base |-> launched + 1, at |-> JobNow]
      BY <2>1, <3>1, <3>2
    <3> QED
      BY <2>2, <3>3 DEF OwnBase
  <2>4. list' = [list EXCEPT ![current] = [list[current] EXCEPT ![k] = cell]]
    BY <1>2 DEF Store
  <2> HIDE DEF cell, k
  <2>5. /\ Len(list') = Len(list)
        /\ \A m \in 1..Len(list) :
             /\ Len(list'[m]) = Len(list[m])
             /\ \A n \in 1..Len(list[m]) :
                  list'[m][n] = IF m = current /\ n = k THEN cell ELSE list[m][n]
    BY <2>1, <2>3, <2>4, CellReplaced
  <2>6. list'[current][k] = cell
    BY <2>1, <2>5
  <2>7. \A i \in 1..Len(list') : \A j \in 1..Len(list'[i]) :
          list'[i][j].samples > 0 => OwnBase(list'[i][j])
    BY <2>3, <2>5 DEF CellsInv
  <2> QED
    BY <2>3, <2>6, <2>7 DEF CellsInv, OwnBase, k
<1> QED
  BY <1>1, <1>2

(* Counting it changes no sum. *)
LEMMA OwnBaseCounted ==
  ASSUME IInv, CellsInv, CountSample
  PROVE  CellsInv'
<1> DEFINE k == counter + 1
           cell == [list[current][k] EXCEPT !.samples = @ + 1]
<1>1. sampler = "count" /\ sampler' = "full" /\ ~Stopped
  BY DEF CountSample, SamplerAt
<1>2. current # 0
  BY <1>1 DEF IInv, PlaceInv
<1>3. /\ current \in 1..Len(list) /\ k \in 1..Len(list[current])
      /\ list \in Seq(Seq(Cells)) /\ list[current][k] \in Cells
  BY <1>1, <1>2, AtCell
<1>4. OwnBase(list[current][k])
  BY <1>1 DEF CellsInv
<1>5. cell \in Cells /\ OwnBase(cell)
  <2>1. \A r \in Cells : /\ [r EXCEPT !.samples = @ + 1] \in Cells
                         /\ [r EXCEPT !.samples = @ + 1].sum = r.sum
    BY DEF Cells
  <2> QED
    BY <1>3, <1>4, <2>1 DEF OwnBase
<1>6. list' = [list EXCEPT ![current] = [list[current] EXCEPT ![k] = cell]]
  BY DEF CountSample
<1> HIDE DEF cell, k
<1>7. /\ Len(list') = Len(list)
      /\ \A m \in 1..Len(list) :
           /\ Len(list'[m]) = Len(list[m])
           /\ \A n \in 1..Len(list[m]) :
                list'[m][n] = IF m = current /\ n = k THEN cell ELSE list[m][n]
  BY <1>3, <1>5, <1>6, CellReplaced
<1>8. \A i \in 1..Len(list') : \A j \in 1..Len(list'[i]) :
        list'[i][j].samples > 0 => OwnBase(list'[i][j])
  BY <1>5, <1>7 DEF CellsInv
<1> QED
  BY <1>1, <1>8 DEF CellsInv

(* A fresh buffer has no sample. *)
LEMMA OwnBaseFull ==
  ASSUME IInv, CellsInv, TestFull
  PROVE  CellsInv'
<1>1. sampler' # "count" /\ list \in Seq(Seq(Cells)) /\ sampler = "full"
  BY DEF TestFull, SamplerAt, IInv, ListInv
<1>2. CASE list' = list
  BY <1>1, <1>2 DEF CellsInv, OwnBase
<1>3. CASE list' # list
  <2> DEFINE fresh == Buffer(NextLength(Len(list[current])))
  <2>1. current # 0 /\ list' = Append(list, fresh)
    BY <1>3 DEF TestFull, buffers
  <2>2. Len(list[current]) \in Nat
    BY <1>1, <2>1 DEF IInv, PlaceInv, ListInv
  <2>3. fresh \in Seq(Cells) /\ \A j \in 1..Len(fresh) : fresh[j].samples = 0
    <3>1. NextLength(Len(list[current])) \in Nat
      BY <2>2 DEF NextLength
    <3> QED
      BY <3>1, FreshBuffer
  <2> HIDE DEF fresh
  <2>4. /\ Len(list') = Len(list) + 1 /\ \A m \in 1..Len(list) : list'[m] = list[m]
        /\ list'[Len(list) + 1] = fresh
    BY <1>1, <2>1, <2>3, BufferAppended
  <2>5. \A m \in 1..Len(list') : m \in 1..Len(list) \/ m = Len(list) + 1
    BY <1>1, <2>4
  <2>6. \A i \in 1..Len(list') : \A j \in 1..Len(list'[i]) :
          list'[i][j].samples > 0 => OwnBase(list'[i][j])
    BY <2>3, <2>4, <2>5 DEF CellsInv
  <2> QED
    BY <1>1, <2>6 DEF CellsInv
<1> QED
  BY <1>2, <1>3

(* The cells. *)
LEMMA CellsStep ==
  ASSUME IInv, FlagsInv, CellsInv, [Next]_vars
  PROVE  CellsInv'
<1>1. launched \in Nat
  BY DEF IInv, ListInv
<1>2. CASE TestAlive \/ TestActive \/ TestFirst \/ ClaimFirst \/ SignalTaken
  BY <1>2, SameCells
  DEF TestAlive, TestActive, TestFirst, ClaimFirst, SignalTaken, SamplerAt, buffers
<1>3. CASE TakeBase
  BY <1>3, OwnBaseStored DEF TakeBase, SamplerAt, JobNow, FlagsInv, Sampling
<1>4. CASE TakeSample
  BY <1>4, OwnBaseStored DEF TakeSample, SamplerAt, FlagsInv, Sampling
<1>5. CASE TimerExpires \/ QuitHandler \/ (Main /\ ~JoinSampler)
  <2>1. ~Stopped /\ sampler' = sampler /\ UNCHANGED <<list, current, counter>>
    <3> USE DEF buffers, MainAt
    <3>1. CASE TimerExpires \/ QuitHandler
      BY <3>1 DEF TimerExpires, QuitHandler
    <3>2. CASE LoopTest \/ StartSampling \/ StartFirst \/ JobReturns \/ StopSampling \/ StopFirst
      BY <3>2 DEF LoopTest, StartSampling, StartFirst, JobReturns, StopSampling, StopFirst
    <3>3. CASE CountJob \/ ReadSwitch \/ LogNoFile
      BY <3>3 DEF CountJob, ReadSwitch, LogNoFile
    <3>4. CASE LogCell
      BY <3>4 DEF LogCell
    <3>5. CASE NextBuffer
      BY <3>5 DEF NextBuffer
    <3>6. CASE DeleteTimer \/ SendLastSignal \/ ClearAlive
      BY <3>6 DEF DeleteTimer, SendLastSignal, ClearAlive
    <3> QED
      BY <1>5, <3>1, <3>2, <3>3, <3>4, <3>5, <3>6 DEF Main
  <2> QED
    BY <2>1, SameCells
<1>6. CASE JoinSampler
  <2>1. sampler' = "gone" /\ list' = <<>>
    BY <1>6 DEF JoinSampler
  <2> QED
    BY <2>1 DEF CellsInv
<1>7. CASE UNCHANGED vars
  BY <1>7 DEF vars, buffers, CellsInv, OwnBase, Stopped
<1> QED
  BY <1>2, <1>3, <1>4, <1>5, <1>6, <1>7, OwnBaseCounted, OwnBaseFull DEF Next, Sampler, Main

(* With the sampler on the main thread's core, no sample is measured from  *)
(* another job's base, and none is taken outside of a job.                 *)
THEOREM SeparatedCorrect == Spec => []SamplesSeparated
<1>1. Init => SeparateInv
  <2> SUFFICES ASSUME Init PROVE SeparateInv
    OBVIOUS
  <2>1. IInv /\ ~active /\ ~firstTaken /\ sampler \in {"alive", "none"} /\ main = "loop"
    BY InvInit DEF Init
  <2>2. FlagsInv
    BY <2>1 DEF FlagsInv, Sampling
  <2>3. current = Len(list) /\ counter = 0 /\ list \in Seq(Seq(Cells))
    BY <2>1 DEF Init, IInv, ListInv
  <2>4. \A i \in 1..Len(list) : i = 1
    BY DEF Init
  <2>5. \A i \in 1..Len(list) : \A j \in 1..Len(list[i]) : ~(list[i][j].samples > 0)
    BY <2>1, <2>3, <2>4 DEF IInv, Filled
  <2> QED
    BY <2>1, <2>2, <2>5 DEF SeparateInv, CellsInv
<1>2. IInv /\ SeparateInv /\ [Next]_vars => SeparateInv'
  BY FlagsStep, CellsStep, OptsStep DEF SeparateInv, IInv
<1>3. SeparateInv => SamplesSeparated
  BY DEF SeparateInv, CellsInv, SamplesSeparated
<1>4. IInv /\ [Next]_vars => IInv'
  BY InvNext
<1> QED
  BY InvInit, <1>1, <1>2, <1>3, <1>4, PTL DEF Spec

-----------------------------------------------------------------------------
(* What a step does to the list. *)

(* The cell the sampler is at becomes another one. *)
Rewritten(cell) ==
  /\ Len(list') = Len(list)
  /\ \A m \in 1..Len(list) :
       /\ Len(list'[m]) = Len(list[m])
       /\ \A n \in 1..Len(list[m]) :
            list'[m][n] = IF m = current /\ n = counter + 1 THEN cell ELSE list[m][n]

(* A fresh buffer comes behind the last one. *)
Extended ==
  /\ current = Len(list) /\ Len(list) > 0
  /\ Len(list') = Len(list) + 1
  /\ \A m \in 1..Len(list) : list'[m] = list[m]
  /\ Len(list'[Len(list) + 1]) = 2 * Len(list[Len(list)])
  /\ \A n \in 1..Len(list'[Len(list) + 1]) : list'[Len(list) + 1][n] = EmptyCell

(* The cell the sampler is at holds no sample yet. *)
LEMMA CellEmpty ==
  ASSUME IInv, current # 0, sampler # "full"
  PROVE  ~(list[current][counter + 1].samples > 0)
<1>1. current \in 1..Len(list) /\ counter + 1 \in 1..Len(list[current]) /\ counter \in Nat
  BY AtCell DEF IInv, PlaceInv
<1>2. \A i \in 1..current : \A j \in 1..Len(list[i]) :
        list[i][j].samples > 0 <=> i < current \/ j <= counter
  BY DEF IInv, Filled
<1>3. current \in 1..current /\ ~(current < current) /\ ~(counter + 1 <= counter)
  BY <1>1
<1> QED
  BY <1>1, <1>2, <1>3

(* Storing a sum. *)
LEMMA StoreEffect ==
  ASSUME IInv, current # 0, sampler # "full", NEW job \in Int, Store(job)
  PROVE  \E cell \in Cells : /\ Rewritten(cell)
                            /\ cell.samples = list[current][counter + 1].samples
                            /\ cell.sum = [base |-> job, at |-> JobNow]
<1> DEFINE k == counter + 1
           cell == [list[current][k] EXCEPT !.sum = [base |-> job, at |-> JobNow]]
<1>1. /\ current \in 1..Len(list) /\ k \in 1..Len(list[current])
      /\ list \in Seq(Seq(Cells)) /\ list[current][k] \in Cells
  BY AtCell
<1>2. JobNow \in Int
  BY DEF JobNow, IInv, ListInv
<1>3. /\ cell \in Cells
      /\ cell.samples = list[current][k].samples
      /\ cell.sum = [base |-> job, at |-> JobNow]
  <2>1. \A r \in Cells, s \in [base : Int, at : Int] :
          /\ [r EXCEPT !.sum = s] \in Cells
          /\ [r EXCEPT !.sum = s].sum = s /\ [r EXCEPT !.sum = s].samples = r.samples
    BY DEF Cells
  <2>2. [base |-> job, at |-> JobNow] \in [base : Int, at : Int]
    BY <1>2
  <2> QED
    BY <1>1, <2>1, <2>2
<1>4. list' = [list EXCEPT ![current] = [list[current] EXCEPT ![k] = cell]]
  BY DEF Store
<1> HIDE DEF cell
<1>5. Rewritten(cell)
  BY <1>1, <1>3, <1>4, CellReplaced DEF Rewritten
<1> QED
  BY <1>3, <1>5

(* Counting the sample. *)
LEMMA CountEffect ==
  ASSUME IInv, CountSample
  PROVE  /\ current # 0
         /\ \E cell \in Cells : /\ Rewritten(cell)
                               /\ cell.samples = list[current][counter + 1].samples + 1
                               /\ cell.sum = list[current][counter + 1].sum
<1> DEFINE k == counter + 1
           cell == [list[current][k] EXCEPT !.samples = @ + 1]
<1>1. sampler = "count" /\ ~Stopped
  BY DEF CountSample, SamplerAt
<1>2. current # 0
  BY <1>1 DEF IInv, PlaceInv
<1>3. /\ current \in 1..Len(list) /\ k \in 1..Len(list[current])
      /\ list \in Seq(Seq(Cells)) /\ list[current][k] \in Cells
  BY <1>1, <1>2, AtCell
<1>4. /\ cell \in Cells
      /\ cell.samples = list[current][k].samples + 1 /\ cell.sum = list[current][k].sum
  <2>1. \A r \in Cells : /\ [r EXCEPT !.samples = @ + 1] \in Cells
                         /\ [r EXCEPT !.samples = @ + 1].samples = r.samples + 1
                         /\ [r EXCEPT !.samples = @ + 1].sum = r.sum
    BY DEF Cells
  <2> QED
    BY <1>3, <2>1
<1>5. list' = [list EXCEPT ![current] = [list[current] EXCEPT ![k] = cell]]
  BY DEF CountSample
<1> HIDE DEF cell
<1>6. Rewritten(cell)
  BY <1>3, <1>4, <1>5, CellReplaced DEF Rewritten
<1> QED
  BY <1>2, <1>4, <1>6

(* The test of a full buffer. *)
LEMMA FullEffect ==
  ASSUME IInv, TestFull
  PROVE  \/ current = 0 /\ crashed' /\ UNCHANGED <<list, current, counter>>
         \/ /\ current # 0 /\ counter < Len(list[current]) /\ sampler' = "sigwait"
            /\ UNCHANGED <<list, current, counter>>
         \/ /\ current # 0 /\ counter = Len(list[current]) /\ sampler' = "sigwait"
            /\ counter' = 0
            /\ \/ list' = list /\ current' = 0
               \/ Extended /\ current' = Len(list')
<1>1. CASE current = 0
  BY <1>1 DEF TestFull, buffers
<1>2. CASE current # 0
  <2>1. /\ sampler' = "sigwait" /\ counter \in Nat /\ counter <= Len(list[current])
        /\ list \in Seq(Seq(Cells)) /\ current = Len(list) /\ current \in 1..Len(list)
    BY <1>2 DEF TestFull, SamplerAt, IInv, PlaceInv, ListInv
  <2>2. Len(list[current]) \in Nat \ {0}
    BY <2>1 DEF IInv, ListInv
  <2>3. CASE counter # Len(list[current])
    <3>1. UNCHANGED <<list, current, counter>>
      BY <1>2, <2>3 DEF TestFull, BufferFull, buffers
    <3> QED
      BY <1>2, <2>1, <2>2, <2>3, <3>1
  <2>4. CASE counter = Len(list[current])
    <3> DEFINE size == NextLength(Len(list[current]))
               fresh == Buffer(size)
    <3>1. size \in Nat /\ size = 2 * Len(list[current])
      BY <2>2 DEF NextLength
    <3>2. /\ counter' = 0
          /\ \/ list' = Append(list, fresh) /\ current' = current + 1
             \/ list' = list /\ current' = 0
      BY <1>2, <2>4 DEF TestFull, BufferFull
    <3> HIDE DEF size
    <3>3. fresh \in Seq(Cells) /\ Len(fresh) = size
      BY <3>1, FreshBuffer
    <3>4. \A n \in 1..Len(fresh) : fresh[n] = EmptyCell
      BY <3>3 DEF Buffer
    <3> HIDE DEF fresh
    <3>5. CASE list' = Append(list, fresh) /\ current' = current + 1
      <4>1. /\ Len(list') = Len(list) + 1
            /\ \A m \in 1..Len(list) : list'[m] = list[m]
            /\ list'[Len(list) + 1] = fresh
        BY <2>1, <3>3, <3>5, BufferAppended
      <4>2. Extended
        BY <2>1, <3>1, <3>3, <3>4, <4>1 DEF Extended
      <4> QED
        BY <1>2, <2>1, <2>4, <3>2, <3>5, <4>1, <4>2
    <3> QED
      BY <1>2, <2>1, <2>4, <3>2, <3>5
  <2> QED
    BY <2>3, <2>4
<1> QED
  BY <1>1, <1>2

(* All other steps but the last leave the list and the place alone. *)
LEMMA OtherEffect ==
  ASSUME TimerExpires \/ QuitHandler \/ (Main /\ ~JoinSampler) \/ TestAlive \/ TestActive
           \/ TestFirst \/ ClaimFirst \/ SignalTaken
  PROVE  UNCHANGED <<base, list, current, counter>>
<1> USE DEF buffers
<1>1. CASE TimerExpires \/ QuitHandler
  BY <1>1 DEF TimerExpires, QuitHandler
<1>2. CASE TestAlive \/ TestActive \/ TestFirst \/ ClaimFirst \/ SignalTaken
  BY <1>2 DEF TestAlive, TestActive, TestFirst, ClaimFirst, SignalTaken
<1>3. CASE Main /\ ~JoinSampler
  BY <1>3 DEF Main, LoopTest, StartSampling, StartFirst, JobReturns, StopSampling, StopFirst,
              CountJob, ReadSwitch, LogNoFile, LogCell, NextBuffer, DeleteTimer, SendLastSignal,
              ClearAlive
<1> QED
  BY <1>1, <1>2, <1>3
-----------------------------------------------------------------------------
(* Types, and when sampling is on. *)

Stopping == {"stop", "log", "next", "delete", "kill", "clear", "join", "exited"}

(* Sampling is on in a job only, unless SIGINT has ended that job.         *)
Running ==
  /\ active => launched < Jobs
  /\ main \in {"start", "startFirst", "job", "stopSampling", "stopFirst", "count"} =>
       launched < Jobs
  /\ main \in {"loop", "start", "stopFirst", "count"} => ~active
  /\ main \in Stopping /\ ~interrupted => ~active
  /\ ~opts.profiling =>
       ~active /\ main \notin {"start", "startFirst", "stopSampling", "stopFirst"}

Scalars ==
  /\ opts \in Options
  /\ main \in {"loop", "start", "startFirst", "job", "stopSampling", "stopFirst", "count",
               "stop", "log", "next", "delete", "kill", "clear", "join", "exited"}
  /\ sampler \in {"none", "alive", "active", "first", "claim", "base", "sample", "count",
                  "full", "sigwait", "gone"}
  /\ alive \in BOOLEAN /\ active \in BOOLEAN /\ firstTaken \in BOOLEAN /\ timer \in BOOLEAN
  /\ tick \in BOOLEAN /\ last \in BOOLEAN /\ interrupted \in BOOLEAN /\ crashed \in BOOLEAN
  /\ base \in 0..Jobs /\ launched \in 0..Jobs /\ ticks \in 0..MaxTicks

(* The buffers double in length, a sample that is counted has a sum, and   *)
(* without memory for another buffer all of them are full.                 *)
Doubled ==
  \A i \in 1..Len(list) : Len(list[i]) = IF i = 1 THEN FirstLength ELSE 2 * Len(list[i - 1])

Summed ==
  /\ \A i \in 1..Len(list) : \A j \in 1..Len(list[i]) :
       /\ list[i][j] \in Cell
       /\ list[i][j].samples > 0 => list[i][j].sum # NoSum
       /\ current = 0 => list[i][j].samples > 0
  /\ sampler = "count" /\ ~Stopped => list[current][counter + 1].sum # NoSum

(* A row is a sample that had its sum. *)
RowsTyped ==
  /\ log \in Seq(Cell)
  /\ \A n \in 1..Len(log) : log[n].sum # NoSum

(* Where log_samples() is. *)
CursorInv ==
  /\ main \in {"loop", "start", "startFirst", "job", "stopSampling", "stopFirst", "count",
               "stop"} =>
       cursor = <<1, 1>> /\ log = <<>>
  /\ ~opts.profiling => log = <<>> /\ main \notin {"next", "delete", "kill", "clear", "join"}
  /\ opts.profiling /\ main # "exited" => Len(list) > 0
  /\ opts.profiling /\ main \in {"log", "next"} =>
       cursor[1] \in 1..Len(list) /\ cursor[2] \in 1..Len(list[cursor[1]]) + 1

TypesInv == Scalars /\ Running /\ Doubled /\ Summed /\ RowsTyped /\ CursorInv

(* The first buffer is as long as it is asked for. *)
LEMMA TypesInit == Init => TypesInv
<1> SUFFICES ASSUME Init PROVE TypesInv
  OBVIOUS
<1>1. /\ Options \subseteq OptionRecord /\ Jobs \in Nat \ {0} /\ FirstLength \in Nat \ {0}
      /\ MaxTicks \in Nat
  BY SamplerAssumption
<1>2. Scalars
  <2>1. opts.profiling \in BOOLEAN
    BY <1>1 DEF Init, OptionRecord
  <2>2. sampler \in {"alive", "none"} /\ alive \in BOOLEAN /\ timer \in BOOLEAN
    <3>1. CASE opts.profiling = TRUE
      BY <3>1 DEF Init
    <3>2. CASE opts.profiling = FALSE
      BY <3>2 DEF Init
    <3> QED
      BY <2>1, <3>1, <3>2
  <2>3. base \in 0..Jobs /\ launched \in 0..Jobs /\ ticks \in 0..MaxTicks
    BY <1>1 DEF Init
  <2>4. /\ active \in BOOLEAN /\ firstTaken \in BOOLEAN /\ tick \in BOOLEAN /\ last \in BOOLEAN
        /\ interrupted \in BOOLEAN /\ crashed \in BOOLEAN /\ opts \in Options /\ main = "loop"
    BY DEF Init
  <2> QED
    BY <2>2, <2>3, <2>4 DEF Scalars
<1>3. Running
  BY <1>1 DEF Init, Running, Stopping
<1>4. /\ Doubled
      /\ \A i \in 1..Len(list) : \A j \in 1..Len(list[i]) : list[i][j] = EmptyCell
      /\ opts.profiling => Len(list) > 0
  <2>1. CASE opts.profiling
    <3>1. list = <<Buffer(FirstLength)>>
      BY <2>1 DEF Init
    <3>2. Len(list) = 1 /\ list[1] = Buffer(FirstLength) /\ \A i \in 1..Len(list) : i = 1
      BY <3>1
    <3>3. /\ Len(Buffer(FirstLength)) = FirstLength
          /\ \A j \in 1..FirstLength : Buffer(FirstLength)[j] = EmptyCell
      BY <1>1, FreshBuffer DEF Buffer
    <3> QED
      BY <3>2, <3>3 DEF Doubled
  <2>2. CASE ~opts.profiling
    <3>1. list = <<>>
      BY <2>2 DEF Init
    <3> QED
      BY <2>2, <3>1 DEF Doubled
  <2> QED
    BY <2>1, <2>2
<1>5. current = Len(list) /\ sampler # "count"
  BY DEF Init
<1>6. EmptyCell \in Cell /\ ~(EmptyCell.samples > 0)
  BY <1>1 DEF EmptyCell, NoSum, Cell, Sum
<1>7. Summed
  <2>1. list \in Seq(Seq(Cells))
    BY InvInit DEF IInv, ListInv
  <2>2. current = 0 => \A i \in 1..Len(list) : FALSE
    BY <1>5, <2>1
  <2> QED
    BY <1>4, <1>5, <1>6, <2>2 DEF Summed
<1>8. RowsTyped
  BY DEF Init, RowsTyped
<1>9. CursorInv
  BY <1>4 DEF Init, CursorInv
<1> QED
  BY <1>2, <1>3, <1>4, <1>7, <1>8, <1>9 DEF TypesInv

(* The flags and the counts. *)
LEMMA ScalarsStep ==
  ASSUME Scalars, Running, [Next]_vars
  PROVE  Scalars'
<1> USE DEF Scalars, SamplerAt, MainAt, flags, buffers, signals
<1>1. Jobs \in Nat /\ MaxTicks \in Nat
  BY SamplerAssumption
<1> USE <1>1
<1>2. CASE TimerExpires
  BY <1>2 DEF TimerExpires
<1>3. CASE TestAlive \/ TestActive \/ TestFirst \/ ClaimFirst \/ SignalTaken
  <2>1. CASE TestAlive
    BY <2>1 DEF TestAlive
  <2>2. CASE TestActive
    BY <2>2 DEF TestActive
  <2>3. CASE TestFirst
    BY <2>3 DEF TestFirst
  <2>4. CASE ClaimFirst
    BY <2>4 DEF ClaimFirst
  <2>5. CASE SignalTaken
    BY <2>5 DEF SignalTaken
  <2> QED
    BY <1>3, <2>1, <2>2, <2>3, <2>4, <2>5
<1>4. CASE TakeBase \/ TakeSample
  <2>1. JobNow \in 0..Jobs
    BY DEF JobNow, Running
  <2> QED
    BY <1>4, <2>1 DEF TakeBase, TakeSample, Store
<1>5. CASE CountSample
  BY <1>5 DEF CountSample
<1>6. CASE TestFull
  <2>1. CASE current = 0
    BY <1>6, <2>1 DEF TestFull
  <2>2. CASE current # 0
    BY <1>6, <2>2 DEF TestFull
  <2> QED
    BY <2>1, <2>2
<1>7. CASE LoopTest \/ StartSampling \/ StartFirst \/ JobReturns \/ StopSampling \/ StopFirst
  <2>1. CASE LoopTest
    BY <2>1 DEF LoopTest
  <2>2. CASE StartSampling
    BY <2>2 DEF StartSampling
  <2>3. CASE StartFirst
    BY <2>3 DEF StartFirst, FirstAfterSwitch
  <2>4. CASE JobReturns
    BY <2>4 DEF JobReturns
  <2>5. CASE StopSampling
    BY <2>5 DEF StopSampling, ActiveAfterStop
  <2>6. CASE StopFirst
    BY <2>6 DEF StopFirst, FirstAfterSwitch
  <2> QED
    BY <1>7, <2>1, <2>2, <2>3, <2>4, <2>5, <2>6
<1>8. CASE CountJob
  BY <1>8 DEF CountJob, Running
<1>9. CASE QuitHandler \/ ReadSwitch \/ LogNoFile
  BY <1>9 DEF QuitHandler, ReadSwitch, LogNoFile
<1>10. CASE LogCell
  BY <1>10 DEF LogCell
<1>11. CASE NextBuffer
  BY <1>11 DEF NextBuffer
<1>12. CASE DeleteTimer \/ SendLastSignal \/ ClearAlive \/ JoinSampler
  <2>1. CASE DeleteTimer
    BY <2>1 DEF DeleteTimer
  <2>2. CASE SendLastSignal
    BY <2>2 DEF SendLastSignal
  <2>3. CASE ClearAlive
    BY <2>3 DEF ClearAlive
  <2>4. CASE JoinSampler
    BY <2>4 DEF JoinSampler
  <2> QED
    BY <1>12, <2>1, <2>2, <2>3, <2>4
<1>13. CASE UNCHANGED vars
  BY <1>13 DEF vars
<1> QED
  BY <1>2, <1>3, <1>4, <1>5, <1>6, <1>7, <1>8, <1>9, <1>10, <1>11, <1>12, <1>13
  DEF Next, Sampler, Main

(* Sampling is stopped before the job is counted. *)
LEMMA RunningStep ==
  ASSUME Scalars, Running, [Next]_vars
  PROVE  Running'
<1>1. Jobs \in Nat /\ launched \in 0..Jobs /\ opts' = opts
  BY SamplerAssumption, OptsStep DEF Scalars
<1> USE <1>1 DEF Running, Stopping, MainAt, flags
<1>2. CASE TimerExpires \/ Sampler
  <2>1. UNCHANGED <<main, active, launched, interrupted>>
    BY <1>2 DEF TimerExpires, Sampler, TestAlive, TestActive, TestFirst, ClaimFirst, TakeBase,
                TakeSample, CountSample, TestFull, SignalTaken
  <2> QED
    BY <2>1
<1>3. CASE LoopTest
  BY <1>3 DEF LoopTest
<1>4. CASE StartSampling \/ StartFirst
  BY <1>4 DEF StartSampling, StartFirst
<1>5. CASE JobReturns
  BY <1>5 DEF JobReturns
<1>6. CASE StopSampling \/ StopFirst
  BY <1>6 DEF StopSampling, StopFirst, ActiveAfterStop
<1>7. CASE CountJob
  BY <1>7 DEF CountJob
<1>8. CASE QuitHandler
  BY <1>8 DEF QuitHandler
<1>9. CASE ReadSwitch \/ LogNoFile
  BY <1>9 DEF ReadSwitch, LogNoFile
<1>10. CASE LogCell
  BY <1>10 DEF LogCell
<1>11. CASE NextBuffer
  BY <1>11 DEF NextBuffer
<1>12. CASE DeleteTimer \/ SendLastSignal \/ ClearAlive \/ JoinSampler
  <2>1. CASE DeleteTimer
    BY <2>1 DEF DeleteTimer
  <2>2. CASE SendLastSignal
    BY <2>2 DEF SendLastSignal
  <2>3. CASE ClearAlive \/ JoinSampler
    BY <2>3 DEF ClearAlive, JoinSampler
  <2> QED
    BY <1>12, <2>1, <2>2, <2>3
<1>13. CASE UNCHANGED vars
  BY <1>13 DEF vars
<1> QED
  BY <1>2, <1>3, <1>4, <1>5, <1>6, <1>7, <1>8, <1>9, <1>10, <1>11, <1>12, <1>13 DEF Next, Main

(* The kinds of steps, by what they do to the list. *)
Quiet == /\ UNCHANGED <<list, current, counter>>
         /\ sampler' = "count" => Stopped' \/ (sampler = "count" /\ ~Stopped)

Stored(cell) ==
  /\ sampler \in {"base", "sample"} /\ sampler' = "count" /\ current # 0 /\ ~Stopped
  /\ Rewritten(cell) /\ UNCHANGED <<current, counter>>
  /\ cell.samples = list[current][counter + 1].samples
  /\ cell.sum \in {[base |-> JobNow, at |-> JobNow], [base |-> base, at |-> JobNow]}

Counted(cell) ==
  /\ sampler = "count" /\ sampler' = "full" /\ current # 0 /\ ~Stopped
  /\ Rewritten(cell) /\ current' = current /\ counter' = counter + 1
  /\ cell.samples = list[current][counter + 1].samples + 1
  /\ cell.sum = list[current][counter + 1].sum

WasFull ==
  /\ sampler = "full" /\ sampler' = "sigwait" /\ counter' = 0
  /\ current # 0 /\ counter = Len(list[current])

Emptied == list' = <<>> /\ current' = 0 /\ sampler' = "gone" /\ main = "join" /\ main' = "exited"

LEMMA StepKinds ==
  ASSUME IInv, [Next]_vars
  PROVE  \/ Quiet
         \/ Sampler /\ \E cell \in Cells : Stored(cell)
         \/ Sampler /\ \E cell \in Cells : Counted(cell)
         \/ Sampler /\ WasFull /\ list' = list /\ current' = 0
         \/ Sampler /\ WasFull /\ Extended /\ current' = Len(list')
         \/ Emptied
<1>1. JobNow \in Int /\ base \in Int
  BY DEF JobNow, IInv, ListInv
<1>2. CASE TestAlive \/ TestActive \/ TestFirst \/ ClaimFirst \/ SignalTaken
  <2>1. sampler' # "count"
    BY <1>2 DEF TestAlive, TestActive, TestFirst, ClaimFirst, SignalTaken, SamplerAt
  <2> QED
    BY <1>2, <2>1, OtherEffect DEF Quiet
<1>3. CASE TakeBase \/ TakeSample
  <2>1. PICK job \in {JobNow, base} : Store(job)
    BY <1>3 DEF TakeBase, TakeSample
  <2>2. /\ ~Stopped /\ sampler \in {"base", "sample"} /\ sampler' = "count"
        /\ UNCHANGED <<current, counter>>
    BY <1>3 DEF TakeBase, TakeSample, SamplerAt
  <2>3. CASE current = 0
    BY <2>1, <2>2, <2>3 DEF Store, Quiet, Stopped
  <2>4. CASE current # 0
    <3>1. PICK cell \in Cells : /\ Rewritten(cell)
                                /\ cell.samples = list[current][counter + 1].samples
                                /\ cell.sum = [base |-> job, at |-> JobNow]
      BY <1>1, <2>1, <2>2, <2>4, StoreEffect
    <3>2. Stored(cell)
      BY <2>1, <2>2, <2>4, <3>1 DEF Stored
    <3> QED
      BY <1>3, <3>2 DEF Sampler
  <2> QED
    BY <2>3, <2>4
<1>4. CASE CountSample
  <2>1. PICK cell \in Cells : /\ Rewritten(cell) /\ current # 0
                              /\ cell.samples = list[current][counter + 1].samples + 1
                              /\ cell.sum = list[current][counter + 1].sum
    BY <1>4, CountEffect
  <2>2. Counted(cell)
    BY <1>4, <2>1 DEF Counted, CountSample, SamplerAt
  <2> QED
    BY <1>4, <2>2 DEF Sampler
<1>5. CASE TestFull
  <2>1. sampler = "full" /\ sampler' \in {"full", "sigwait"}
    BY <1>5 DEF TestFull, SamplerAt
  <2> QED
    BY <1>5, <2>1, FullEffect DEF Sampler, Quiet, WasFull
<1>6. CASE TimerExpires \/ QuitHandler \/ (Main /\ ~JoinSampler)
  <2>1. sampler' = sampler /\ ~Stopped
    <3>1. CASE TimerExpires \/ QuitHandler
      BY <3>1 DEF TimerExpires, QuitHandler, MainAt
    <3>2. CASE Main /\ ~JoinSampler
      BY <3>2 DEF Main, LoopTest, StartSampling, StartFirst, JobReturns, StopSampling, StopFirst,
                  CountJob, ReadSwitch, LogNoFile, LogCell, NextBuffer, DeleteTimer,
                  SendLastSignal, ClearAlive, MainAt
    <3> QED
      BY <1>6, <3>1, <3>2
  <2> QED
    BY <1>6, <2>1, OtherEffect DEF Quiet
<1>7. CASE JoinSampler
  BY <1>7 DEF JoinSampler, MainAt, Emptied
<1>8. CASE UNCHANGED vars
  BY <1>8 DEF vars, buffers, Quiet, Stopped
<1> QED
  BY <1>2, <1>3, <1>4, <1>5, <1>6, <1>7, <1>8 DEF Next, Sampler, Main

(* Each buffer is twice as long as the one before it. *)
LEMMA DoubledStep ==
  ASSUME IInv, Doubled, [Next]_vars
  PROVE  Doubled'
<1>1. list \in Seq(Seq(Cells)) /\ Len(list) \in Nat
  BY DEF IInv, ListInv
<1>2. CASE list' = list
  BY <1>2 DEF Doubled
<1>3. CASE list' = <<>>
  BY <1>3 DEF Doubled
<1>4. ASSUME NEW cell, Rewritten(cell)
      PROVE  Doubled'
  <2> SUFFICES ASSUME NEW i \in 1..Len(list')
               PROVE  Len(list'[i]) = IF i = 1 THEN FirstLength ELSE 2 * Len(list'[i - 1])
    BY DEF Doubled
  <2>1. i \in 1..Len(list) /\ (i # 1 => i - 1 \in 1..Len(list))
    BY <1>1, <1>4 DEF Rewritten
  <2>2. \A m \in 1..Len(list) : Len(list'[m]) = Len(list[m])
    BY <1>4 DEF Rewritten
  <2> QED
    BY <2>1, <2>2 DEF Doubled
<1>5. CASE Extended
  <2> SUFFICES ASSUME NEW i \in 1..Len(list')
               PROVE  Len(list'[i]) = IF i = 1 THEN FirstLength ELSE 2 * Len(list'[i - 1])
    BY DEF Doubled
  <2>1. CASE i \in 1..Len(list)
    <3>1. i # 1 => i - 1 \in 1..Len(list)
      BY <1>1, <2>1
    <3> QED
      BY <1>5, <2>1, <3>1 DEF Doubled, Extended
  <2>2. CASE i = Len(list) + 1
    <3>1. i # 1 /\ i - 1 = Len(list) /\ Len(list) \in 1..Len(list)
      BY <1>1, <1>5, <2>2 DEF Extended
    <3> QED
      BY <1>5, <2>2, <3>1 DEF Extended
  <2> QED
    BY <1>1, <1>5, <2>1, <2>2 DEF Extended
<1> QED
  BY <1>2, <1>3, <1>4, <1>5, StepKinds DEF Quiet, Stored, Counted, Emptied

(* A sum is stored before it is counted, and counted once. *)
LEMMA SummedStep ==
  ASSUME IInv, Scalars, Running, Summed, [Next]_vars
  PROVE  Summed'
<1>1. list \in Seq(Seq(Cells)) /\ Len(list) \in Nat
  BY DEF IInv, ListInv
<1>2. CASE Quiet
  BY <1>2 DEF Quiet, Summed
<1>3. ASSUME NEW cell \in Cells, Stored(cell)
      PROVE  Summed'
  <2>1. /\ current \in 1..Len(list) /\ counter + 1 \in 1..Len(list[current])
        /\ ~(list[current][counter + 1].samples > 0) /\ current # 0
    BY <1>3, AtCell, CellEmpty DEF Stored
  <2>2. cell.sum \in Sum /\ cell.sum # NoSum
    <3>1. JobNow \in 0..Jobs /\ base \in 0..Jobs /\ Jobs \in Nat
      BY SamplerAssumption DEF JobNow, Running, Scalars
    <3>2. \A b, a \in 0..Jobs : /\ [base |-> b, at |-> a] \in Sum
                                /\ [base |-> b, at |-> a].base # NoSum.base
      BY <3>1 DEF Sum, NoSum
    <3>3. PICK b, a \in 0..Jobs : cell.sum = [base |-> b, at |-> a]
      BY <1>3, <3>1 DEF Stored
    <3> QED
      BY <3>2, <3>3
  <2>3. cell.samples = 0
    BY <1>3, <2>1 DEF Stored, Cells
  <2>4. cell \in Cell
    <3>1. \A r \in Cells : r.samples = 0 /\ r.sum \in Sum => r \in Cell
      BY DEF Cells, Cell
    <3> QED
      BY <2>2, <2>3, <3>1
  <2>5. /\ UNCHANGED <<current, counter>> /\ current # 0 /\ Len(list') = Len(list)
        /\ \A m \in 1..Len(list) :
             /\ Len(list'[m]) = Len(list[m])
             /\ \A n \in 1..Len(list[m]) :
                  list'[m][n] = IF m = current /\ n = counter + 1 THEN cell ELSE list[m][n]
    BY <1>3 DEF Stored, Rewritten
  <2>6. \A m \in 1..Len(list) : \A n \in 1..Len(list[m]) :
          /\ list'[m][n] \in Cell
          /\ list'[m][n].samples > 0 => list'[m][n].sum # NoSum
    BY <2>2, <2>4, <2>5 DEF Summed
  <2>7. list'[current][counter + 1] = cell
    BY <2>1, <2>5
  <2> QED
    BY <2>2, <2>5, <2>6, <2>7 DEF Summed
<1>4. ASSUME NEW cell \in Cells, Counted(cell)
      PROVE  Summed'
  <2>1. /\ current \in 1..Len(list) /\ counter + 1 \in 1..Len(list[current])
        /\ ~(list[current][counter + 1].samples > 0) /\ list[current][counter + 1] \in Cells
    BY <1>4, AtCell, CellEmpty DEF Counted
  <2>2. cell.sum # NoSum /\ list[current][counter + 1] \in Cell
    BY <1>4, <2>1 DEF Counted, Summed
  <2>3. cell.samples = 1 /\ cell.sum \in Sum
    <3>1. list[current][counter + 1].samples = 0 /\ list[current][counter + 1].sum \in Sum
      BY <2>1, <2>2 DEF Cell
    <3> QED
      BY <1>4, <3>1 DEF Counted
  <2>4. cell \in Cell
    <3>1. \A r \in Cells : r.samples = 1 /\ r.sum \in Sum => r \in Cell
      BY DEF Cells, Cell
    <3> QED
      BY <2>3, <3>1
  <2>5. /\ sampler' = "full" /\ current' # 0 /\ Len(list') = Len(list)
        /\ \A m \in 1..Len(list) :
             /\ Len(list'[m]) = Len(list[m])
             /\ \A n \in 1..Len(list[m]) :
                  list'[m][n] = IF m = current /\ n = counter + 1 THEN cell ELSE list[m][n]
    BY <1>4 DEF Counted, Rewritten
  <2>6. \A m \in 1..Len(list) : \A n \in 1..Len(list[m]) :
          /\ list'[m][n] \in Cell
          /\ list'[m][n].samples > 0 => list'[m][n].sum # NoSum
    BY <2>2, <2>4, <2>5 DEF Summed
  <2> QED
    BY <2>5, <2>6 DEF Summed
<1>5. CASE WasFull /\ list' = list /\ current' = 0
  <2>1. \A i \in 1..Len(list) : \A j \in 1..Len(list[i]) : list[i][j].samples > 0
    BY <1>1, <1>5 DEF IInv, Filled, PlaceInv, WasFull
  <2> QED
    BY <1>5, <2>1 DEF Summed, WasFull
<1>6. CASE WasFull /\ Extended /\ current' = Len(list')
  <2>1. EmptyCell \in Cell /\ ~(EmptyCell.samples > 0)
    BY SamplerAssumption DEF EmptyCell, NoSum, Cell, Sum
  <2>2. \A m \in 1..Len(list') : m \in 1..Len(list) \/ m = Len(list) + 1
    BY <1>1, <1>6 DEF Extended
  <2>3. \A m \in 1..Len(list') : \A n \in 1..Len(list'[m]) :
          /\ list'[m][n] \in Cell
          /\ list'[m][n].samples > 0 => list'[m][n].sum # NoSum
    BY <1>6, <2>1, <2>2 DEF Summed, Extended
  <2>4. current' # 0 /\ sampler' = "sigwait"
    BY <1>1, <1>6 DEF Extended, WasFull
  <2> QED
    BY <2>3, <2>4 DEF Summed
<1>7. CASE Emptied
  BY <1>7 DEF Emptied, Summed
<1> QED
  BY <1>2, <1>3, <1>4, <1>5, <1>6, <1>7, StepKinds

(* Until it is freed, the list keeps its buffers, their lengths and the    *)
(* samples in them.                                                        *)
Kept ==
  /\ Len(list) <= Len(list')
  /\ \A i \in 1..Len(list) :
       /\ Len(list'[i]) = Len(list[i])
       /\ \A j \in 1..Len(list[i]) : list[i][j].samples > 0 => list'[i][j] = list[i][j]

LEMMA ListKept ==
  ASSUME IInv, [Next]_vars
  PROVE  Kept \/ Emptied
<1>1. list \in Seq(Seq(Cells)) /\ Len(list) \in Nat
  BY DEF IInv, ListInv
<1>2. CASE list' = list
  BY <1>1, <1>2 DEF Kept
<1>3. ASSUME NEW cell, Rewritten(cell), current # 0, sampler # "full"
      PROVE  Kept
  <2>1. ~(list[current][counter + 1].samples > 0)
    BY <1>3, CellEmpty
  <2> QED
    BY <1>1, <1>3, <2>1 DEF Kept, Rewritten
<1>4. CASE Extended
  BY <1>1, <1>4 DEF Kept, Extended
<1> QED
  BY <1>2, <1>3, <1>4, StepKinds DEF Quiet, Stored, Counted

(* Only log_samples() writes rows. *)
LEMMA SamplerOutput ==
  ASSUME TimerExpires \/ Sampler
  PROVE  UNCHANGED <<opts, main, active, launched, interrupted, cursor, log>>
BY DEF TimerExpires, Sampler, TestAlive, TestActive, TestFirst, ClaimFirst, TakeBase, TakeSample,
       CountSample, TestFull, SignalTaken, output, flags

(* The steps of the main thread before and after log_samples(). *)
LEMMA MainOutput ==
  ASSUME Main \/ QuitHandler, ~LogCell, ~NextBuffer
  PROVE  UNCHANGED <<cursor, log>>
BY DEF Main, LoopTest, StartSampling, StartFirst, JobReturns, StopSampling, StopFirst, CountJob,
       QuitHandler, ReadSwitch, LogNoFile, DeleteTimer, SendLastSignal, ClearAlive, JoinSampler,
       output

(* The cell log_samples() is at, and what it makes of it. *)
RowHere == cursor[2] <= Len(list[cursor[1]]) /\ list[cursor[1]][cursor[2]].samples > 0

LEMMA LogEffect ==
  ASSUME IInv, CursorInv, LogCell
  PROVE  /\ main = "log" /\ opts.profiling /\ UNCHANGED <<opts, list, current, counter, sampler>>
         /\ UNCHANGED interrupted
         /\ cursor[1] \in 1..Len(list) /\ cursor[2] \in 1..Len(list[cursor[1]]) + 1
         /\ \/ /\ RowHere /\ main' = "log"
               /\ log' = Append(log, list[cursor[1]][cursor[2]])
               /\ cursor' = <<cursor[1], cursor[2] + 1>>
            \/ ~RowHere /\ main' = "next" /\ UNCHANGED <<cursor, log>>
<1>1. main = "log" /\ opts.profiling /\ UNCHANGED <<opts, list, current, counter, sampler>>
      /\ UNCHANGED interrupted
  BY DEF LogCell, MainAt, buffers
<1>2. cursor[1] \in 1..Len(list) /\ cursor[2] \in 1..Len(list[cursor[1]]) + 1
  BY <1>1 DEF CursorInv
<1>3. CASE RowHere
  <2>1. /\ main' = "log" /\ log' = Append(log, list[cursor[1]][cursor[2]])
        /\ cursor' = <<cursor[1], cursor[2] + 1>>
    BY <1>3 DEF LogCell, MainAt, RowHere, RowThere
  <2> QED
    BY <1>1, <1>2, <1>3, <2>1
<1>4. CASE ~RowHere
  <2>1. main' = "next" /\ UNCHANGED <<cursor, log>>
    BY <1>4 DEF LogCell, MainAt, RowHere, RowThere, output
  <2> QED
    BY <1>1, <1>2, <1>4, <2>1
<1> QED
  BY <1>3, <1>4

LEMMA NextEffect ==
  ASSUME IInv, CursorInv, NextBuffer
  PROVE  /\ main = "next" /\ UNCHANGED <<opts, list, current, counter, sampler, log>>
         /\ UNCHANGED interrupted /\ opts.profiling
         /\ cursor[1] \in 1..Len(list) /\ cursor[2] \in 1..Len(list[cursor[1]]) + 1
         /\ cursor' = <<cursor[1] + 1, 1>>
         /\ \/ cursor[1] < Len(list) /\ main' = "log"
            \/ cursor[1] = Len(list) /\ main' = "delete"
<1>1. main = "next" /\ UNCHANGED <<opts, list, current, counter, sampler, log>>
      /\ UNCHANGED interrupted /\ cursor' = <<cursor[1] + 1, 1>>
      /\ main' = IF cursor[1] < Len(list) THEN "log" ELSE "delete"
  BY DEF NextBuffer, MainAt, buffers
<1>2. opts.profiling
  BY <1>1 DEF CursorInv
<1>3. cursor[1] \in 1..Len(list) /\ cursor[2] \in 1..Len(list[cursor[1]]) + 1
  BY <1>1, <1>2 DEF CursorInv
<1>4. Len(list) \in Nat
  BY DEF IInv, ListInv
<1> QED
  BY <1>1, <1>2, <1>3, <1>4

(* A row is a sample that is counted, and its sum is there. *)
LEMMA RowsTypedStep ==
  ASSUME IInv, CursorInv, Summed, RowsTyped, [Next]_vars
  PROVE  RowsTyped'
<1>1. CASE log' = log
  BY <1>1 DEF RowsTyped
<1>2. CASE LogCell
  <2>1. CASE log' # log
    <3> DEFINE row == list[cursor[1]][cursor[2]]
    <3>1. /\ cursor[1] \in 1..Len(list) /\ cursor[2] \in 1..Len(list[cursor[1]])
          /\ row.samples > 0 /\ log' = Append(log, row)
      <4>1. Len(list[cursor[1]]) \in Nat
        BY <1>2, LogEffect DEF IInv, ListInv
      <4> QED
        BY <1>2, <2>1, <4>1, LogEffect DEF RowHere
    <3>2. row \in Cell /\ row.sum # NoSum
      BY <3>1 DEF Summed
    <3> HIDE DEF row
    <3>3. /\ log \in Seq(Cell) /\ Len(log') = Len(log) + 1
          /\ log' \in Seq(Cell)
          /\ log'[Len(log) + 1] = row /\ \A n \in 1..Len(log) : log'[n] = log[n]
      BY <3>1, <3>2 DEF RowsTyped
    <3>4. \A n \in 1..Len(log') : n \in 1..Len(log) \/ n = Len(log) + 1
      BY <3>3
    <3> QED
      BY <3>2, <3>3, <3>4 DEF RowsTyped
  <2> QED
    BY <1>1, <2>1
<1>3. CASE NextBuffer
  BY <1>1, <1>3, NextEffect
<1> QED
  BY <1>1, <1>2, <1>3, SamplerOutput, MainOutput DEF Next, vars, output

(* The cursor never leaves the list. *)
LEMMA CursorStep ==
  ASSUME IInv, CursorInv, [Next]_vars
  PROVE  CursorInv'
<1>1. list \in Seq(Seq(Cells)) /\ Len(list) \in Nat
      /\ \A m \in 1..Len(list) : Len(list[m]) \in Nat \ {0}
  BY DEF IInv, ListInv
<1>2. CASE LogCell
  <2>1. /\ main = "log" /\ main' \in {"log", "next"} /\ opts' = opts /\ list' = list
        /\ opts.profiling
    BY <1>2, LogEffect
  <2>2. cursor'[1] \in 1..Len(list) /\ cursor'[2] \in 1..Len(list[cursor'[1]]) + 1
    BY <1>1, <1>2, LogEffect DEF RowHere
  <2> QED
    BY <2>1, <2>2 DEF CursorInv
<1>3. CASE NextBuffer
  <2>1. /\ main = "next" /\ main' \in {"log", "delete"} /\ opts' = opts /\ list' = list
        /\ opts.profiling
    BY <1>3, NextEffect
  <2>2. cursor'[1] = cursor[1] + 1 /\ cursor'[2] = 1
    BY <1>3, NextEffect
  <2>3. main' = "log" => cursor[1] + 1 \in 1..Len(list)
    BY <1>1, <1>3, NextEffect
  <2>4. main' = "log" => 1 \in 1..Len(list[cursor[1] + 1]) + 1
    BY <1>1, <2>3
  <2> QED
    BY <2>1, <2>2, <2>3, <2>4 DEF CursorInv
<1>4. CASE TimerExpires \/ Sampler
  <2>1. UNCHANGED <<opts, main, cursor, log>>
    BY <1>4, SamplerOutput
  <2>2. Kept
    BY <2>1, ListKept DEF Emptied
  <2> QED
    BY <1>1, <2>1, <2>2 DEF CursorInv, Kept
<1>5. CASE (Main \/ QuitHandler) /\ ~LogCell /\ ~NextBuffer
  <2>1. UNCHANGED <<opts, cursor, log>>
    BY <1>5, MainOutput, OptsStep
  <2>2. CASE JoinSampler
    BY <2>1, <2>2 DEF JoinSampler, MainAt, CursorInv
  <2>3. CASE ReadSwitch
    <3>1. main = "stop" /\ main' \in {"log", "exited"} /\ list' = list
      BY <2>3 DEF ReadSwitch, MainAt, buffers
    <3> QED
      BY <1>1, <2>1, <3>1 DEF CursorInv
  <2>4. CASE LogNoFile
    BY <2>1, <2>4 DEF LogNoFile, MainAt, buffers, CursorInv
  <2>5. CASE DeleteTimer \/ SendLastSignal \/ ClearAlive
    <3>1. /\ main \in {"delete", "kill", "clear"} /\ main' \in {"kill", "clear", "join"}
          /\ list' = list
      BY <2>5 DEF DeleteTimer, SendLastSignal, ClearAlive, MainAt, buffers
    <3> QED
      BY <2>1, <3>1 DEF CursorInv
  <2>6. CASE LoopTest \/ StartSampling \/ StartFirst \/ JobReturns \/ StopSampling \/ StopFirst
             \/ CountJob \/ QuitHandler
    <3> DEFINE Loop == {"loop", "start", "startFirst", "job", "stopSampling", "stopFirst", "count"}
    <3>1. main \in Loop /\ main' \in Loop \union {"stop"} /\ list' = list
      BY <2>6 DEF LoopTest, StartSampling, StartFirst, JobReturns, StopSampling, StopFirst,
                  CountJob, QuitHandler, MainAt, buffers
    <3> QED
      BY <2>1, <3>1 DEF CursorInv
  <2> QED
    BY <1>5, <2>2, <2>3, <2>4, <2>5, <2>6 DEF Main
<1>6. CASE UNCHANGED vars
  BY <1>6 DEF vars, buffers, output, CursorInv
<1> QED
  BY <1>2, <1>3, <1>4, <1>5, <1>6 DEF Next

LEMMA TypesNext ==
  ASSUME IInv, TypesInv, [Next]_vars
  PROVE  TypesInv'
BY ScalarsStep, RunningStep, DoubledStep, SummedStep, RowsTypedStep, CursorStep DEF TypesInv

(* What the variables hold: every buffer is twice as long as the one       *)
(* before it, and no cell is counted twice, however the threads interleave *)
(* (performance_sampler.c:113-156).                                        *)
THEOREM TypeCorrect == Spec => []TypeOK
<1>1. IInv /\ TypesInv => TypeOK
  <2> SUFFICES ASSUME IInv, TypesInv PROVE TypeOK
    OBVIOUS
  <2>1. current \in 0..Len(list) /\ counter \in Nat
    BY DEF IInv, ListInv, PlaceInv
  <2>2. \A i \in 1..Len(list) :
          /\ Len(list[i]) = IF i = 1 THEN FirstLength ELSE 2 * Len(list[i - 1])
          /\ \A j \in 1..Len(list[i]) : list[i][j] \in Cell
    BY DEF TypesInv, Doubled, Summed
  <2>3. \A n \in 1..Len(log) : log[n] \in Cell
    BY DEF TypesInv, RowsTyped
  <2>4. {alive, active, firstTaken, timer, tick, last, interrupted, crashed} \subseteq BOOLEAN
    BY DEF TypesInv, Scalars
  <2> QED
    BY <2>1, <2>2, <2>3, <2>4 DEF TypeOK, TypesInv, Scalars
<1>2. IInv /\ TypesInv /\ [Next]_vars => IInv' /\ TypesInv'
  BY InvNext, TypesNext
<1> QED
  BY InvInit, TypesInit, <1>1, <1>2, PTL DEF Spec

-----------------------------------------------------------------------------
(* What is in the log. *)

UnderWay == sampler \in {"first", "claim", "base", "sample", "count"}

(* The n-th row is the sample at the n-th place. *)
RowsFound ==
  \A n \in 1..Len(log) : \E i \in 1..Len(list) : \E j \in 1..Len(list[i]) :
    Number(i, j) = n /\ Logged(i, j)

(* All places before the cursor are rows, and these are all the rows.      *)
Before(i, j) == i < cursor[1] \/ (i = cursor[1] /\ j < cursor[2])
AtCursor ==
  /\ Len(log) = Number(cursor[1], cursor[2]) - 1
  /\ \A i \in 1..Len(list) : \A j \in 1..Len(list[i]) : Before(i, j) => Logged(i, j)

(* After an empty place at most one sample comes, from another core; if it *)
(* fills its buffer, the next one stays empty.                             *)
NoMore == current = Len(list) /\ counter = 0 /\ ~UnderWay
Passed == cursor[1] = Len(list) \/ (cursor[1] + 1 = Len(list) /\ NoMore)
AtFresh == cursor[1] = Len(list) /\ cursor[2] = 1 /\ NoMore

(* Every sample is a row. *)
Complete ==
  \A i \in 1..Len(list) : \A j \in 1..Len(list[i]) : list[i][j].samples > 0 => Logged(i, j)

RowsInv ==
  ~interrupted /\ opts.profiling =>
    /\ main # "exited" => RowsFound
    /\ main = "log" => AtCursor \/ (AtFresh /\ ~opts.sameCore)
    /\ main = "next" =>
         \/ AtCursor /\ cursor[2] = Len(list[cursor[1]]) + 1
         \/ Passed /\ ~opts.sameCore
         \/ cursor[1] = Len(list) /\ Complete
    /\ main \in {"delete", "kill", "clear", "join"} /\ opts.sameCore => Complete

(* On one core the sampler is idle while the log is written. *)
IdleInv ==
  opts.sameCore /\ ~interrupted /\ main \in Stopping =>
    ~UnderWay /\ (current # 0 => counter < Len(list[current]))

Inv == IInv /\ TypesInv /\ RowsInv /\ IdleInv

(* Sampling is off while the rows are written, so no other sample begins.  *)
LEMMA IdleStep ==
  ASSUME Inv, [Next]_vars
  PROVE  IdleInv'
<1>1. opts' = opts
  BY OptsStep
<1>2. CASE TimerExpires \/ Sampler
  <2>1. UNCHANGED <<main, active, interrupted>>
    BY <1>2, SamplerOutput
  <2>2. SUFFICES ASSUME opts.sameCore, ~interrupted, main \in Stopping
                 PROVE  ~UnderWay' /\ (current' # 0 => counter' < Len(list'[current']))
    BY <1>1, <2>1 DEF IdleInv
  <2>3. ~active /\ ~UnderWay /\ (current # 0 => counter < Len(list[current]))
    BY <2>2 DEF Inv, TypesInv, Running, IdleInv
  <2>4. UNCHANGED <<list, current, counter>>
    <3>1. CASE TestFull
      <4>1. current # 0 => counter # Len(list[current])
        BY <2>3 DEF Inv, IInv, ListInv, PlaceInv
      <4> QED
        BY <3>1, <4>1, FullEffect DEF Inv
    <3>2. CASE ~TestFull
      BY <1>2, <2>3, <3>2, OtherEffect
      DEF Sampler, TakeBase, TakeSample, CountSample, SamplerAt, UnderWay
    <3> QED
      BY <3>1, <3>2
  <2>5. ~UnderWay'
    <3>1. CASE TimerExpires
      BY <2>3, <3>1 DEF TimerExpires, UnderWay
    <3>2. CASE Sampler
      BY <2>3, <3>2 DEF Sampler, TestAlive, TestActive, TestFirst, ClaimFirst, TakeBase,
                        TakeSample, CountSample, TestFull, SignalTaken, SamplerAt, UnderWay
    <3> QED
      BY <1>2, <3>1, <3>2
  <2> QED
    BY <2>3, <2>4, <2>5
<1>3. CASE LoopTest
  <2>1. UNCHANGED <<list, current, counter, sampler>> /\ (opts.sameCore => SamplerWaits)
    BY <1>3 DEF LoopTest, MainAt, buffers
  <2>2. opts.sameCore => sampler \in {"none", "gone", "sigwait"}
    BY <2>1 DEF SamplerWaits
  <2> QED
    BY <1>1, <2>1, <2>2 DEF IdleInv, UnderWay, Inv, IInv, PlaceInv
<1>4. CASE QuitHandler
  BY <1>4 DEF QuitHandler, IdleInv
<1>5. CASE StartSampling \/ StartFirst \/ JobReturns \/ StopSampling \/ StopFirst \/ CountJob
  <2>1. main' \notin Stopping
    BY <1>5 DEF StartSampling, StartFirst, JobReturns, StopSampling, StopFirst, CountJob, MainAt,
                Stopping
  <2> QED
    BY <2>1 DEF IdleInv
<1>6. CASE ReadSwitch \/ LogNoFile \/ LogCell \/ NextBuffer \/ DeleteTimer \/ SendLastSignal
           \/ ClearAlive
  <2>1. main \in Stopping /\ UNCHANGED <<list, current, counter, sampler, interrupted>>
    BY <1>6 DEF ReadSwitch, LogNoFile, LogCell, NextBuffer, DeleteTimer, SendLastSignal,
                ClearAlive, MainAt, buffers, Stopping
  <2> QED
    BY <1>1, <2>1 DEF Inv, IdleInv, UnderWay
<1>7. CASE JoinSampler
  BY <1>7 DEF JoinSampler, MainAt, IdleInv, UnderWay
<1>8. CASE UNCHANGED vars
  BY <1>8 DEF vars, buffers, Inv, IdleInv, UnderWay
<1> QED
  BY <1>2, <1>3, <1>4, <1>5, <1>6, <1>7, <1>8 DEF Next, Main

(* A row stays one. *)
LEMMA LoggedKept ==
  ASSUME Kept, NEW i \in 1..Len(list), NEW j \in 1..Len(list[i]), Logged(i, j),
         Len(log) \in Nat, Len(log') \in Nat, Len(log) <= Len(log'),
         \A n \in 1..Len(log) : log'[n] = log[n]
  PROVE  Logged(i, j)' /\ Number(i, j)' = Number(i, j) /\ j \in 1..Len(list'[i])
<1>1. Len(list'[i]) = Len(list[i]) /\ list'[i][j] = list[i][j]
  BY DEF Kept, Logged
<1>2. Number(i, j)' = Number(i, j)
  BY <1>1 DEF Number
<1>3. Number(i, j) \in 1..Len(log')
  BY DEF Logged
<1> QED
  BY <1>1, <1>2, <1>3 DEF Logged

(* The rows that were found are found again. *)
LEMMA RowsKept ==
  ASSUME IInv, Kept, RowsFound, log' = log, log \in Seq(Cell)
  PROVE  RowsFound'
<1>1. Len(log) \in Nat /\ Len(list) \in Nat /\ Len(list') >= Len(list) /\ Len(log') = Len(log)
  BY DEF IInv, ListInv, Kept
<1> SUFFICES ASSUME NEW n \in 1..Len(log)
             PROVE  \E i \in 1..Len(list') : \E j \in 1..Len(list'[i]) :
                      Number(i, j)' = n /\ Logged(i, j)'
  BY DEF RowsFound
<1>2. PICK i \in 1..Len(list) : \E j \in 1..Len(list[i]) : Number(i, j) = n /\ Logged(i, j)
  BY DEF RowsFound
<1>3. PICK j \in 1..Len(list[i]) : Number(i, j) = n /\ Logged(i, j)
  BY <1>2
<1>4. Logged(i, j)' /\ Number(i, j)' = n /\ j \in 1..Len(list'[i])
  BY <1>1, <1>3, LoggedKept
<1>5. Kept /\ i \in 1..Len(list')
  BY <1>1 DEF Kept
<1> QED
  BY <1>4, <1>5

(* So do all the places before the cursor. *)
LEMMA AtCursorKept ==
  ASSUME IInv, AtCursor, Kept, UNCHANGED <<cursor, log>>, log \in Seq(Cell),
         cursor[1] \in 1..Len(list), cursor[2] \in 1..Len(list[cursor[1]]) + 1
  PROVE  AtCursor'
<1>1. Len(log) \in Nat /\ Len(list) \in Nat /\ Len(log') = Len(log)
      /\ \A m \in 1..Len(list) : Len(list'[m]) = Len(list[m])
  BY DEF IInv, ListInv, Kept
<1>2. Len(log') = Number(cursor[1], cursor[2])' - 1
  BY <1>1 DEF AtCursor, Number
<1>3. ASSUME NEW i \in 1..Len(list'), NEW j \in 1..Len(list'[i]), Before(i, j)'
      PROVE  Logged(i, j)'
  <2>1. Before(i, j)
    BY <1>3 DEF Before
  <2>2. i \in 1..Len(list)
    BY <1>1, <2>1 DEF Before
  <2>3. j \in 1..Len(list[i])
    BY <1>1, <2>2
  <2>4. Logged(i, j)
    BY <2>1, <2>2, <2>3 DEF AtCursor
  <2> QED
    BY <1>1, <2>2, <2>3, <2>4, LoggedKept
<1> QED
  BY <1>2, <1>3 DEF AtCursor

(* With sampling off and an empty buffer, the sampler stays idle. *)
LEMMA NoMoreKept ==
  ASSUME IInv, NoMore, ~active, Len(list) > 0, TimerExpires \/ Sampler
  PROVE  NoMore' /\ list' = list
<1>1. UNCHANGED <<list, current, counter>>
  <2>1. CASE TestFull
    <3>1. current \in 1..Len(list) /\ counter = 0 /\ Len(list[current]) > 0
      BY DEF NoMore, IInv, ListInv
    <3> QED
      BY <2>1, <3>1, FullEffect
  <2>2. CASE ~TestFull
    BY <2>2, OtherEffect DEF Sampler, TakeBase, TakeSample, CountSample, SamplerAt, NoMore, UnderWay
  <2> QED
    BY <2>1, <2>2
<1>2. ~UnderWay'
  <2>1. CASE TimerExpires
    BY <2>1 DEF TimerExpires, NoMore, UnderWay
  <2>2. CASE Sampler
    BY <2>2 DEF Sampler, TestAlive, TestActive, TestFirst, ClaimFirst, TakeBase, TakeSample,
                CountSample, TestFull, SignalTaken, SamplerAt, NoMore, UnderWay
  <2> QED
    BY <2>1, <2>2
<1> QED
  BY <1>1, <1>2 DEF NoMore

(* A buffer that comes behind the cursor's stays empty. *)
LEMMA PassedKept ==
  ASSUME IInv, Passed, ~active, Len(list) > 0, cursor[1] \in 1..Len(list), cursor' = cursor,
         TimerExpires \/ Sampler
  PROVE  Passed'
<1>1. Len(list) \in Nat /\ [Next]_vars /\ main' = main
  BY SamplerOutput DEF IInv, ListInv, Next
<1>2. CASE cursor[1] + 1 = Len(list) /\ NoMore
  BY <1>2, NoMoreKept DEF Passed
<1>3. CASE cursor[1] = Len(list)
  <2>1. CASE Len(list') = Len(list)
    BY <1>3, <2>1 DEF Passed
  <2>2. CASE WasFull /\ Extended /\ current' = Len(list')
    BY <1>1, <1>3, <2>2 DEF Passed, Extended, WasFull, NoMore, UnderWay
  <2> QED
    BY <1>1, <2>1, <2>2, StepKinds DEF Quiet, Stored, Counted, Rewritten, Emptied
<1> QED
  BY <1>2, <1>3 DEF Passed

(* An empty place in the list is behind its last sample. *)
LEMMA EmptyIsEnd ==
  ASSUME IInv, Summed, AtCursor, cursor[1] \in 1..Len(list), cursor[2] \in 1..Len(list[cursor[1]]),
         ~(list[cursor[1]][cursor[2]].samples > 0)
  PROVE  cursor[1] = Len(list) /\ Complete
<1>1. current = Len(list) /\ current # 0 /\ Len(list) \in Nat /\ counter \in Nat
  BY DEF Summed, IInv, ListInv, PlaceInv
<1>2. \A i \in 1..current : \A j \in 1..Len(list[i]) :
        list[i][j].samples > 0 <=> i < current \/ j <= counter
  BY <1>1 DEF IInv, Filled
<1>3. cursor[1] = current /\ counter < cursor[2]
  <2>1. Len(list[cursor[1]]) \in Nat
    BY DEF IInv, ListInv
  <2>2. ~(cursor[1] < current \/ cursor[2] <= counter)
    BY <1>1, <1>2
  <2> QED
    BY <1>1, <2>1, <2>2
<1>4. ASSUME NEW i \in 1..Len(list), NEW j \in 1..Len(list[i]), list[i][j].samples > 0
      PROVE  Logged(i, j)
  <2>1. i < current \/ j <= counter
    BY <1>1, <1>2, <1>4
  <2>2. Len(list[i]) \in Nat /\ Len(list[cursor[1]]) \in Nat
    BY DEF IInv, ListInv
  <2>3. Before(i, j)
    BY <1>1, <1>3, <2>1, <2>2 DEF Before
  <2> QED
    BY <2>3 DEF AtCursor
<1> QED
  BY <1>1, <1>3, <1>4 DEF Complete

(* The sampler's steps while the log is written. *)
LEMMA RowsSampler ==
  ASSUME Inv, TimerExpires \/ Sampler
  PROVE  RowsInv'
<1>1. UNCHANGED <<opts, main, active, interrupted, cursor, log>> /\ [Next]_vars
  BY SamplerOutput DEF Next
<1>2. IInv /\ TypesInv /\ Kept /\ log \in Seq(Cell)
  BY <1>1, ListKept DEF Inv, Emptied, TypesInv, RowsTyped
<1> SUFFICES ASSUME ~interrupted, opts.profiling
             PROVE  RowsInv'
  BY <1>1 DEF RowsInv
<1>3. main # "exited" => RowsFound'
  BY <1>1, <1>2, RowsKept DEF Inv, RowsInv
<1>4. ASSUME main \in {"log", "next"}
      PROVE  /\ ~active /\ Len(list) > 0 /\ Len(list) \in Nat
             /\ cursor[1] \in 1..Len(list) /\ cursor[2] \in 1..Len(list[cursor[1]]) + 1
             /\ Len(list'[cursor[1]]) = Len(list[cursor[1]])
  BY <1>2, <1>4 DEF TypesInv, Running, Stopping, CursorInv, Kept, IInv, ListInv
<1>5. AtCursor /\ main \in {"log", "next"} => AtCursor'
  BY <1>1, <1>2, <1>4, AtCursorKept
<1>6. ASSUME main = "log"
      PROVE  AtCursor' \/ (AtFresh' /\ ~opts.sameCore)
  <2>1. CASE AtCursor
    BY <1>5, <1>6, <2>1
  <2>2. CASE AtFresh /\ ~opts.sameCore
    BY <1>1, <1>2, <1>4, <1>6, <2>2, NoMoreKept DEF AtFresh
  <2> QED
    BY <1>6, <2>1, <2>2 DEF Inv, RowsInv
<1>7. opts.sameCore /\ main \in Stopping => list' = list
  <2>1. SUFFICES ASSUME opts.sameCore, main \in Stopping
                 PROVE  list' = list
    OBVIOUS
  <2>2. ~UnderWay /\ (current # 0 => counter < Len(list[current]))
    BY <2>1 DEF Inv, IdleInv
  <2>3. CASE TestFull
    <3>1. current # 0 => counter # Len(list[current])
      BY <1>2, <2>2 DEF IInv, ListInv, PlaceInv
    <3> QED
      BY <1>2, <2>3, <3>1, FullEffect
  <2>4. CASE ~TestFull
    BY <2>2, <2>4, OtherEffect DEF Sampler, TakeBase, TakeSample, CountSample, SamplerAt, UnderWay
  <2> QED
    BY <2>3, <2>4
<1>8. list' = list /\ Complete => Complete'
  BY <1>1 DEF Complete, Logged, Number
<1>9. ASSUME main = "next"
      PROVE  \/ AtCursor' /\ cursor[2] = Len(list'[cursor[1]]) + 1
             \/ Passed' /\ ~opts.sameCore
             \/ cursor[1] = Len(list') /\ Complete'
  <2>1. CASE AtCursor /\ cursor[2] = Len(list[cursor[1]]) + 1
    BY <1>4, <1>5, <1>9, <2>1
  <2>2. CASE ~opts.sameCore /\ (Passed \/ cursor[1] = Len(list))
    <3>1. Passed
      BY <2>2 DEF Passed
    <3> QED
      BY <1>1, <1>2, <1>4, <1>9, <2>2, <3>1, PassedKept
  <2>3. CASE opts.sameCore /\ cursor[1] = Len(list) /\ Complete
    BY <1>7, <1>8, <1>9, <2>3 DEF Stopping
  <2> QED
    BY <1>9, <2>1, <2>2, <2>3 DEF Inv, RowsInv
<1>10. main \in {"delete", "kill", "clear", "join"} /\ opts.sameCore => Complete'
  BY <1>7, <1>8 DEF Inv, RowsInv, Stopping
<1> QED
  BY <1>1, <1>3, <1>6, <1>9, <1>10 DEF RowsInv

(* The number of a place. *)
LEMMA NumberIs ==
  ASSUME IInv, NEW i \in 1..Len(list), NEW j \in Int
  PROVE  /\ Number(i, j) \in Int /\ Number(i, j) = Len(list[i]) - FirstLength + j
         /\ Number(i, j + 1) = Number(i, j) + 1
<1>1. Len(list[i]) \in Int /\ FirstLength \in Int
  BY SamplerAssumption DEF IInv, ListInv
<1>2. Number(i, j) \in Int /\ Number(i, j) = Len(list[i]) - FirstLength + j
  BY <1>1 DEF Number
<1>3. Number(i, j + 1) = Len(list[i]) - FirstLength + (j + 1)
  BY DEF Number
<1>4. \A k, f \in Int : k - f + (j + 1) = k - f + j + 1
  OBVIOUS
<1>5. Len(list[i]) - FirstLength + (j + 1) = Len(list[i]) - FirstLength + j + 1
  BY <1>1, <1>4
<1> QED
  BY <1>2, <1>3, <1>5

(* The rows are found as long as the list and the log stay. *)
LEMMA SameRows ==
  ASSUME Inv, UNCHANGED <<list, log>>
  PROVE  (RowsFound => RowsFound') /\ (Complete => Complete')
<1>1. Len(list) \in Nat /\ log \in Seq(Cell)
  BY DEF Inv, IInv, ListInv, TypesInv, RowsTyped
<1>2. Kept
  BY <1>1 DEF Kept
<1>3. Complete => Complete'
  BY DEF Complete, Logged, Number
<1> QED
  BY <1>1, <1>2, <1>3, RowsKept DEF Inv

(* A cell is written: one more place before the cursor, one more row.      *)
LEMMA RowsAppend ==
  ASSUME Inv, LogCell, RowHere, ~interrupted
  PROVE  RowsInv'
<1>0. /\ cursor[1] \in 1..Len(list) /\ cursor[2] \in 1..Len(list[cursor[1]]) + 1
      /\ Len(list[cursor[1]]) \in Nat
  BY LogEffect DEF Inv, TypesInv, IInv, ListInv
<1>a. PICK a \in 1..Len(list), b \in Int : a = cursor[1] /\ b = cursor[2]
  BY <1>0
<1>1. /\ main = "log" /\ main' = "log" /\ opts.profiling /\ UNCHANGED <<opts, list, interrupted>>
      /\ log' = Append(log, list[a][b]) /\ cursor' = <<a, b + 1>>
      /\ b \in 1..Len(list[a]) + 1
  BY <1>a, LogEffect DEF Inv, TypesInv
<1>2. /\ list \in Seq(Seq(Cells)) /\ Len(list[a]) \in Nat /\ Len(list) \in Nat
      /\ FirstLength \in Nat
  BY <1>1, SamplerAssumption DEF Inv, IInv, ListInv
<1>3. b \in 1..Len(list[a]) /\ list[a][b].samples > 0
  BY <1>1, <1>2, <1>a DEF RowHere
<1>4. AtCursor
  <2>1. CASE AtFresh
    <3>1. a = current /\ current # 0 /\ counter = 0 /\ b = 1
      BY <1>a, <1>2, <2>1 DEF AtFresh, NoMore
    <3>2. \A i \in 1..current : \A j \in 1..Len(list[i]) :
            list[i][j].samples > 0 <=> i < current \/ j <= counter
      BY <3>1 DEF Inv, IInv, Filled
    <3>3. a \in 1..current /\ ~(a < current) /\ ~(b <= counter)
      BY <3>1
    <3>4. ~(list[a][b].samples > 0)
      BY <1>3, <3>2, <3>3
    <3> QED
      BY <1>3, <3>4
  <2> QED
    BY <1>1, <2>1 DEF Inv, RowsInv
<1>5. log \in Seq(Cell) /\ list[a][b] \in Cell
  BY <1>1, <1>3 DEF Inv, TypesInv, RowsTyped, Summed
<1>6. /\ Len(log) \in Nat /\ Len(log') = Len(log) + 1 /\ log'[Len(log) + 1] = list[a][b]
      /\ \A n \in 1..Len(log) : log'[n] = log[n]
  BY <1>1, <1>5
<1>7. Number(a, b) = Len(log) + 1 /\ Len(log') = Number(a, b + 1) - 1
  <2>1. Len(log) = Number(a, b) - 1
    BY <1>a, <1>4 DEF AtCursor
  <2>2. Number(a, b) = Len(list[a]) - FirstLength + b /\ Number(a, b) \in Int
    BY NumberIs DEF Inv
  <2>3. Number(a, b + 1) = Number(a, b) + 1
    BY NumberIs DEF Inv
  <2> QED
    BY <1>6, <2>1, <2>2, <2>3
<1>8. Kept
  BY <1>1, <1>2 DEF Kept
<1>9. Logged(a, b)' /\ Number(a, b)' = Len(log) + 1
  <2>1. Number(a, b)' = Number(a, b) /\ list'[a][b] = list[a][b]
    BY <1>1 DEF Number
  <2> QED
    BY <1>3, <1>6, <1>7, <2>1 DEF Logged
<1>10. ASSUME NEW i \in 1..Len(list), NEW j \in 1..Len(list[i]), Logged(i, j)
       PROVE  Logged(i, j)' /\ Number(i, j)' = Number(i, j)
  <2>1. Len(log) <= Len(log') /\ Len(log') \in Nat
    BY <1>6
  <2> QED
    BY <1>6, <1>8, <1>10, <2>1, LoggedKept
<1>11. RowsFound'
  <2> SUFFICES ASSUME NEW n \in 1..Len(log')
               PROVE  \E i \in 1..Len(list') : \E j \in 1..Len(list'[i]) :
                        Number(i, j)' = n /\ Logged(i, j)'
    BY DEF RowsFound
  <2>1. CASE n = Len(log) + 1
    <3>1. a \in 1..Len(list') /\ b \in 1..Len(list'[a])
      BY <1>1, <1>3
    <3> QED
      BY <1>9, <2>1, <3>1
  <2>2. CASE n \in 1..Len(log)
    <3>1. RowsFound
      BY <1>1 DEF Inv, RowsInv
    <3>2. PICK i \in 1..Len(list) : \E j \in 1..Len(list[i]) : Number(i, j) = n /\ Logged(i, j)
      BY <2>2, <3>1 DEF RowsFound
    <3>3. PICK j \in 1..Len(list[i]) : Number(i, j) = n /\ Logged(i, j)
      BY <3>2
    <3> QED
      BY <1>1, <1>10, <3>3
  <2> QED
    BY <1>6, <2>1, <2>2
<1>12. AtCursor'
  <2>1. cursor'[1] = a /\ cursor'[2] = b + 1
    BY <1>1
  <2>2. Len(log') = Number(cursor[1], cursor[2])' - 1
    BY <1>1, <1>7, <2>1 DEF Number
  <2>3. ASSUME NEW i \in 1..Len(list), NEW j \in 1..Len(list[i]), Before(i, j)'
        PROVE  Logged(i, j)'
    <3>1. i < a \/ (i = a /\ j < b + 1)
      BY <2>1, <2>3 DEF Before
    <3>2. CASE i = a /\ j = b
      BY <1>9, <3>2
    <3>3. CASE ~(i = a /\ j = b)
      <4>1. i < a \/ (i = a /\ j < b)
        <5>1. j \in Int /\ b \in Int
          BY <1>1
        <5> QED
          BY <3>1, <3>3, <5>1
      <4>2. Before(i, j)
        BY <1>a, <4>1 DEF Before
      <4>3. Logged(i, j)
        BY <1>4, <4>2 DEF AtCursor
      <4> QED
        BY <1>10, <4>3
    <3> QED
      BY <3>2, <3>3
  <2> QED
    BY <1>1, <2>2, <2>3 DEF AtCursor
<1> QED
  BY <1>1, <1>11, <1>12 DEF RowsInv

(* log_samples() stops in a buffer, at its end or at an empty place. *)
LEMMA RowsEnd ==
  ASSUME Inv, LogCell, ~RowHere, ~interrupted
  PROVE  RowsInv'
<1>1. /\ main = "log" /\ main' = "next" /\ opts.profiling
      /\ UNCHANGED <<opts, list, current, counter, sampler, interrupted, cursor, log>>
      /\ cursor[1] \in 1..Len(list) /\ cursor[2] \in 1..Len(list[cursor[1]]) + 1
  BY LogEffect DEF Inv, TypesInv
<1>2. RowsFound'
  BY <1>1, SameRows DEF Inv, RowsInv
<1>3. Len(list[cursor[1]]) \in Nat
  BY <1>1 DEF Inv, IInv, ListInv
<1>4. CASE AtFresh /\ ~opts.sameCore
  BY <1>1, <1>2, <1>4 DEF RowsInv, AtFresh, Passed
<1>5. CASE AtCursor /\ cursor[2] = Len(list[cursor[1]]) + 1
  <2>1. AtCursor'
    BY <1>1, <1>5 DEF AtCursor, Before, Logged, Number
  <2> QED
    BY <1>1, <1>2, <1>5, <2>1 DEF RowsInv
<1>6. CASE AtCursor /\ cursor[2] # Len(list[cursor[1]]) + 1
  <2>1. cursor[2] \in 1..Len(list[cursor[1]]) /\ ~(list[cursor[1]][cursor[2]].samples > 0)
    BY <1>1, <1>3, <1>6 DEF RowHere
  <2>2. cursor[1] = Len(list) /\ Complete
    BY <1>1, <1>6, <2>1, EmptyIsEnd DEF Inv, TypesInv
  <2>3. Complete'
    BY <1>1, <2>2 DEF Complete, Logged, Number
  <2> QED
    BY <1>1, <1>2, <2>2, <2>3 DEF RowsInv
<1> QED
  BY <1>1, <1>4, <1>5, <1>6 DEF Inv, RowsInv

(* The next buffer is twice as long as this one. *)
LEMMA RowsNext ==
  ASSUME Inv, NextBuffer, ~interrupted
  PROVE  RowsInv'
<1> DEFINE a == cursor[1]
<1>1. /\ main = "next" /\ opts.profiling
      /\ UNCHANGED <<opts, list, current, counter, sampler, interrupted, log>>
      /\ a \in 1..Len(list) /\ cursor[2] \in 1..Len(list[a]) + 1
      /\ cursor' = <<a + 1, 1>>
      /\ \/ a < Len(list) /\ main' = "log"
         \/ a = Len(list) /\ main' = "delete"
  BY NextEffect DEF Inv, TypesInv
<1>2. RowsFound'
  BY <1>1, SameRows DEF Inv, RowsInv
<1>3. Len(list) \in Nat /\ FirstLength \in Nat /\ \A m \in 1..Len(list) : Len(list[m]) \in Nat
  BY SamplerAssumption DEF Inv, IInv, ListInv
<1>4. cursor'[1] = a + 1 /\ cursor'[2] = 1
  BY <1>1
<1>5. Complete => Complete'
  BY <1>1 DEF Complete, Logged, Number
<1>6. CASE AtCursor /\ cursor[2] = Len(list[a]) + 1
  <2>1. \A i \in 1..Len(list) : \A j \in 1..Len(list[i]) : i <= a => Logged(i, j)
    <3> SUFFICES ASSUME NEW i \in 1..Len(list), NEW j \in 1..Len(list[i]), i <= a
                 PROVE  Before(i, j)
      BY <1>6 DEF AtCursor
    <3>1. Len(list[i]) \in Nat /\ (i < a \/ i = a)
      BY <1>1, <1>3
    <3> QED
      BY <1>3, <1>6, <3>1 DEF Before
  <2>2. CASE a < Len(list) /\ main' = "log"
    <3>1. a + 1 \in 1..Len(list) /\ Len(list[a + 1]) = 2 * Len(list[a])
      <4>1. PICK m \in 1..Len(list) : m = a + 1 /\ m # 1 /\ m - 1 = a
        BY <1>1, <1>3, <2>2
      <4>2. Len(list[m]) = 2 * Len(list[m - 1])
        BY <4>1 DEF Inv, TypesInv, Doubled
      <4> QED
        BY <4>1, <4>2
    <3>2. Len(log) = Len(list[a]) - FirstLength + cursor[2] - 1
      <4>1. Len(log) = Number(a, cursor[2]) - 1
        BY <1>6 DEF AtCursor
      <4>2. Number(a, cursor[2]) = Len(list[a]) - FirstLength + cursor[2]
        BY DEF Number
      <4> QED
        BY <1>1, <1>3, <4>1, <4>2
    <3>3. Len(log') = Len(list[a + 1]) - FirstLength + 1 - 1
      BY <1>1, <1>3, <1>6, <3>1, <3>2
    <3>4. Len(log') = Number(cursor[1], cursor[2])' - 1
      <4>1. Number(cursor[1], cursor[2])' = Len(list[a + 1]) - FirstLength + 1
        BY <1>1, <1>4 DEF Number
      <4> QED
        BY <1>3, <3>1, <3>3, <4>1
    <3>5. ASSUME NEW i \in 1..Len(list), NEW j \in 1..Len(list[i]), Before(i, j)'
          PROVE  Logged(i, j)'
      <4>1. i < a + 1 \/ (i = a + 1 /\ j < 1)
        BY <1>4, <3>5 DEF Before
      <4>2. i <= a
        BY <1>1, <4>1
      <4> QED
        BY <1>1, <2>1, <4>2 DEF Logged, Number
    <3>6. AtCursor'
      BY <1>1, <3>4, <3>5 DEF AtCursor
    <3> QED
      BY <1>1, <1>2, <2>2, <3>6 DEF RowsInv
  <2>3. CASE a = Len(list) /\ main' = "delete"
    <3>1. Complete
      BY <1>3, <2>1, <2>3 DEF Complete
    <3> QED
      BY <1>1, <1>2, <1>5, <2>3, <3>1 DEF RowsInv
  <2> QED
    BY <1>1, <2>2, <2>3
<1>7. CASE Passed /\ ~opts.sameCore
  <2>1. CASE a < Len(list) /\ main' = "log"
    <3>1. a + 1 = Len(list) /\ NoMore
      BY <1>1, <1>7, <2>1 DEF Passed
    <3>2. AtFresh'
      BY <1>1, <1>4, <3>1 DEF AtFresh, NoMore, UnderWay
    <3> QED
      BY <1>1, <1>2, <1>7, <2>1, <3>2 DEF RowsInv
  <2>2. CASE a = Len(list) /\ main' = "delete"
    BY <1>1, <1>2, <1>7, <2>2 DEF RowsInv
  <2> QED
    BY <1>1, <2>1, <2>2
<1>8. CASE a = Len(list) /\ Complete
  BY <1>1, <1>2, <1>3, <1>5, <1>8 DEF RowsInv
<1> QED
  BY <1>1, <1>6, <1>7, <1>8 DEF Inv, RowsInv

(* The other steps of the main thread. *)
LEMMA RowsMain ==
  ASSUME Inv, Main \/ QuitHandler, ~LogCell, ~NextBuffer
  PROVE  RowsInv'
<1>1. UNCHANGED <<opts, cursor, log>>
  BY MainOutput, OptsStep DEF Next
<1>2. CASE QuitHandler
  BY <1>2 DEF QuitHandler, RowsInv
<1>3. CASE JoinSampler
  BY <1>3 DEF JoinSampler, MainAt, RowsInv
<1>4. CASE LoopTest \/ StartSampling \/ StartFirst \/ JobReturns \/ StopSampling \/ StopFirst
           \/ CountJob \/ ReadSwitch \/ LogNoFile \/ DeleteTimer \/ SendLastSignal \/ ClearAlive
  <2>1. UNCHANGED <<list, interrupted>> /\ main # "exited"
    BY <1>4 DEF LoopTest, StartSampling, StartFirst, JobReturns, StopSampling, StopFirst, CountJob,
                ReadSwitch, LogNoFile, DeleteTimer, SendLastSignal, ClearAlive, MainAt, buffers
  <2>2. RowsFound => RowsFound'
    BY <1>1, <2>1, SameRows
  <2>3. Complete => Complete'
    BY <1>1, <2>1, SameRows
  <2>4. CASE LoopTest \/ StartSampling \/ StartFirst \/ JobReturns \/ StopSampling \/ StopFirst
             \/ CountJob
    <3>1. main' \notin {"log", "next", "delete", "kill", "clear", "join"}
      BY <2>4 DEF LoopTest, StartSampling, StartFirst, JobReturns, StopSampling, StopFirst,
                  CountJob, MainAt
    <3> QED
      BY <1>1, <2>1, <2>2, <3>1 DEF Inv, RowsInv
  <2>5. CASE ReadSwitch
    <3>1. main = "stop" /\ main' \in {"log", "exited"} /\ cursor = <<1, 1>> /\ log = <<>>
      BY <2>5 DEF ReadSwitch, MainAt, Inv, TypesInv, CursorInv
    <3>2. ASSUME opts.profiling
          PROVE  AtCursor'
      <4>1. Len(list) \in Nat \ {0} /\ Len(list[1]) = FirstLength /\ FirstLength \in Nat
        <5>1. Len(list) \in Nat \ {0}
          BY <3>1, <3>2 DEF Inv, IInv, ListInv, TypesInv, CursorInv
        <5> QED
          BY <5>1, SamplerAssumption DEF Inv, TypesInv, Doubled
      <4>2. cursor[1] = 1 /\ cursor[2] = 1 /\ Len(log) = 0
        BY <3>1
      <4>3. \A i \in 1..Len(list) : \A j \in 1..Len(list[i]) : ~Before(i, j)
        BY <4>2 DEF Before
      <4>4. AtCursor
        BY <4>1, <4>2, <4>3 DEF AtCursor, Number
      <4> QED
        BY <1>1, <2>1, <4>4 DEF AtCursor, Before, Logged, Number
    <3> QED
      BY <1>1, <2>1, <2>2, <3>1, <3>2 DEF Inv, RowsInv
  <2>6. CASE LogNoFile
    BY <1>1, <2>6 DEF LogNoFile, RowsInv
  <2>7. CASE DeleteTimer \/ SendLastSignal \/ ClearAlive
    <3>1. /\ main \in {"delete", "kill", "clear"} /\ main' \in {"kill", "clear", "join"}
      BY <2>7 DEF DeleteTimer, SendLastSignal, ClearAlive, MainAt
    <3> QED
      BY <1>1, <2>1, <2>2, <2>3, <3>1 DEF Inv, RowsInv
  <2> QED
    BY <1>4, <2>4, <2>5, <2>6, <2>7
<1> QED
  BY <1>2, <1>3, <1>4 DEF Main

(* The invariant of the rows. *)
LEMMA RowsStep ==
  ASSUME Inv, [Next]_vars
  PROVE  RowsInv'
<1>1. CASE TimerExpires \/ Sampler
  BY <1>1, RowsSampler
<1>2. CASE (LogCell \/ NextBuffer) /\ interrupted
  BY <1>2 DEF LogCell, NextBuffer, RowsInv
<1>3. CASE (LogCell \/ NextBuffer) /\ ~interrupted
  BY <1>3, RowsAppend, RowsEnd, RowsNext
<1>4. CASE (Main \/ QuitHandler) /\ ~LogCell /\ ~NextBuffer
  BY <1>4, RowsMain
<1>5. CASE UNCHANGED vars
  <2>1. UNCHANGED <<opts, main, sampler, list, current, counter, interrupted, cursor, log>>
    BY <1>5 DEF vars, buffers, output
  <2>2. (RowsFound' <=> RowsFound) /\ (AtCursor' <=> AtCursor) /\ (Complete' <=> Complete)
    BY <2>1 DEF RowsFound, AtCursor, Complete, Before, Logged, Number
  <2>3. (AtFresh' <=> AtFresh) /\ (Passed' <=> Passed)
    BY <2>1 DEF AtFresh, Passed, NoMore, UnderWay
  <2> QED
    BY <2>1, <2>2, <2>3 DEF Inv, RowsInv
<1> QED
  BY <1>1, <1>2, <1>3, <1>4, <1>5 DEF Next, Main

LEMMA RowsInit == Init => RowsInv /\ IdleInv
<1> SUFFICES ASSUME Init PROVE RowsInv /\ IdleInv
  OBVIOUS
<1>1. main = "loop" /\ log = <<>>
  BY DEF Init
<1> QED
  BY <1>1 DEF RowsInv, RowsFound, IdleInv, Stopping

LEMMA SpecInv == Spec => []Inv
<1>1. Init => Inv
  BY InvInit, TypesInit, RowsInit DEF Inv
<1>2. Inv /\ [Next]_vars => Inv'
  BY InvNext, TypesNext, RowsStep, IdleStep DEF Inv
<1> QED
  BY <1>1, <1>2, PTL DEF Spec

(* A row of the log is a finished sample; without SIGINT the n-th row is   *)
(* the sample at the n-th place of the list, while the sampler may still   *)
(* be filling it (performance_sampler.c:146-152, 282-291).                 *)
THEOREM LogPrefixCorrect == Spec => []LogIsPrefix
<1>1. Inv => LogIsPrefix
  <2> SUFFICES ASSUME Inv PROVE LogIsPrefix
    OBVIOUS
  <2>1. \A n \in 1..Len(log) : log[n].sum # NoSum
    BY DEF Inv, TypesInv, RowsTyped
  <2>2. ASSUME ~interrupted, main # "exited"
        PROVE  RowsFound
    <3>1. CASE opts.profiling
      BY <2>2, <3>1 DEF Inv, RowsInv
    <3>2. CASE ~opts.profiling
      BY <3>2 DEF Inv, TypesInv, CursorInv, RowsFound
    <3> QED
      BY <3>1, <3>2
  <2> QED
    BY <2>1, <2>2 DEF LogIsPrefix, RowsFound
<1> QED
  BY <1>1, SpecInv, PTL

(* On the main thread's core, and without SIGINT, the log has all the      *)
(* samples when stop_benchmark() turns to the thread                       *)
(* (periodic_benchmark.c:156-174, performance_sampler.c:276-291).          *)
THEOREM LogCompleteCorrect == Spec => []LogComplete
<1>1. Inv => LogComplete
  <2> SUFFICES ASSUME Inv, opts.sameCore, ~interrupted,
                      main \in {"delete", "kill", "clear", "join"}
               PROVE  Complete
    BY DEF LogComplete, Complete
  <2>1. opts.profiling
    BY DEF Inv, TypesInv, CursorInv
  <2> QED
    BY <2>1 DEF Inv, RowsInv
<1> QED
  BY <1>1, SpecInv, PTL
=============================================================================
