--------------------------- MODULE MultithreadProofs ---------------------------
(***************************************************************************)
(* The barriers of a multi-threaded benchmark for any number of workers    *)
(* and jobs, with errors, wakeups out of nothing and SIGINT outside of the *)
(* main thread's critical sections (SafeInterrupts).                       *)
(***************************************************************************)
EXTENDS Multithread, FiniteSetTheorems, TLAPS

(* The workers that have still to count as completed, those about to count *)
(* as ready, and those that are not at the gate.                           *)
Busy == {w \in Workers : pc[w] \notin {"waitEnd", "check", "gone"}}
AtReady == {w \in Workers : pc[w] = "ready"}
Absent == {w \in Workers : pc[w] # "waitEnabled"}

All(labels) == \A w \in Workers : pc[w] \in labels

Leaving == {"join", "exited"}

(* TypeOK without its bounds on the counts.                                *)
TypeInv ==
  /\ pc \in [Threads -> WorkerLabels \cup MainLabels]
  /\ pc["main"] \in MainLabels /\ All(WorkerLabels)
  /\ holder \in [Mutexes -> Threads \cup {"nobody", "lost"}]
  /\ sleeping \subseteq Workers
  /\ status \in MULTITHREAD_ERR..MULTITHREAD_WAITING_END
  /\ threads \subseteq Workers
  /\ ready \in Nat /\ completed \in Nat
  /\ semReady \in {0, 1} /\ semCompleted \in {0, 1}
  /\ launched \in 0..Jobs
  /\ pc["main"] \in {"awaitReady", "resetReady", "enable", "awaitCompleted", "resetCompleted",
                     "end"} => launched < Jobs

(* The main thread knows the workers it has created, but for the one it    *)
(* registers; none passes the start before all are known.                  *)
ThreadsInv ==
  /\ threads # Workers => All({"none", "start", "check", "gone"})
  /\ \A w \in threads : pc[w] # "none"
  /\ pc["main"] # "register" => \A w \in Workers \ threads : pc[w] = "none"

(* Where the threads are while the status is what it is. *)
SetUpInv ==
  /\ status = MULTITHREAD_DISABLED /\ pc["main"] \notin Leaving
       => pc["main"] \in {"create", "destroy"} /\ All({"none"}) /\ threads = {}
  /\ status = MULTITHREAD_INITIALIZING
       => /\ pc["main"] \in {"create", "spawn", "register", "publish", "destroy"} \cup Leaving
          /\ All({"none", "start"})
          /\ pc["main"] \in Leaving => threads = {}
  /\ (status = MULTITHREAD_DISABLED /\ pc["main"] \notin Leaving)
       \/ status = MULTITHREAD_INITIALIZING
       => ready = 0 /\ completed = 0 /\ semReady = 0 /\ semCompleted = 0
  /\ pc["main"] = "publish" => threads = Workers
  /\ pc["main"] \in {"spawn", "register", "publish"} => status = MULTITHREAD_INITIALIZING
  /\ pc["main"] = "create" => status \in {MULTITHREAD_DISABLED, MULTITHREAD_INITIALIZING}

ClosedInv ==
  status \in {MULTITHREAD_WAITING_START, MULTITHREAD_WAITING_END}
    => /\ pc["main"] \in {"job", "awaitReady", "resetReady", "enable", "destroy"}
       /\ threads = Workers /\ All({"start", "check", "ready", "waitEnabled", "waitEnd"})
       /\ completed = 0 /\ semCompleted = 0
       /\ pc["main"] \in {"resetReady", "enable"} => All({"waitEnabled"}) /\ semReady = 0
       /\ pc["main"] = "enable" => ready = 0

OpenInv ==
  status = MULTITHREAD_ENABLED
    => /\ pc["main"] \in {"awaitCompleted", "resetCompleted", "end", "destroy"}
       /\ threads = Workers
       /\ All({"waitEnabled", "test", "run", "fail", "complete", "waitEnd"})
       /\ ready = 0 /\ semReady = 0

ErrorInv ==
  status = MULTITHREAD_ERR /\ pc["main"] \notin Leaving
    => /\ pc["main"] \in {"awaitCompleted", "resetCompleted", "end", "job", "awaitReady",
                          "destroy"}
       /\ threads = Workers
       /\ All({"waitEnabled", "test", "skip", "run", "fail", "complete", "waitEnd", "check",
               "gone"})
       /\ ready = 0 /\ semReady = 0
       /\ pc["main"] \in {"job", "awaitReady"} => Busy = {}

EndInv ==
  /\ pc["main"] \in {"resetCompleted", "end"} => Busy = {} /\ semCompleted = 0
  /\ pc["main"] = "end" => completed = 0
  /\ pc["main"] \in Leaving
       => status \in {MULTITHREAD_ERR, MULTITHREAD_DISABLED, MULTITHREAD_INITIALIZING}

PhaseInv == SetUpInv /\ ClosedInv /\ OpenInv /\ ErrorInv /\ EndInv

(* No count can go past the number of workers, nor a semaphore be posted   *)
(* twice: who has not counted yet leaves room for itself.                  *)
CountInv ==
  /\ completed + Cardinality(Busy) <= Cardinality(Workers)
  /\ ready + Cardinality(AtReady) <= Cardinality(Workers)
  /\ status \in {MULTITHREAD_WAITING_START, MULTITHREAD_WAITING_END}
       => ready + Cardinality(Absent) <= Cardinality(Workers)
  /\ semReady > 0 => ready = Cardinality(Workers)
  /\ semCompleted > 0 => Busy = {}

IInv == TypeInv /\ ThreadsInv /\ PhaseInv /\ CountInv

-----------------------------------------------------------------------------
(* The sets the counts stand for. *)

(* They are finite, and who is about to count as ready is not at the gate. *)
LEMMA SetFacts ==
  /\ IsFiniteSet(Workers) /\ Cardinality(Workers) \in Nat \ {0}
  /\ IsFiniteSet(Busy) /\ Cardinality(Busy) \in Nat /\ Cardinality(Busy) <= Cardinality(Workers)
  /\ IsFiniteSet(AtReady) /\ Cardinality(AtReady) \in Nat
  /\ IsFiniteSet(Absent) /\ Cardinality(Absent) \in Nat
  /\ Cardinality(AtReady) <= Cardinality(Absent)
  /\ Cardinality(Absent) <= Cardinality(Workers)
<1>1. IsFiniteSet(Workers) /\ Workers # {}
  BY MultithreadAssumption DEF MultithreadAssumption
<1>2. Busy \in SUBSET Workers /\ Absent \in SUBSET Workers /\ AtReady \in SUBSET Absent
  BY DEF Busy, Absent, AtReady
<1>3. IsFiniteSet(Busy) /\ Cardinality(Busy) <= Cardinality(Workers)
  BY <1>1, <1>2, FS_Subset
<1>4. IsFiniteSet(Absent) /\ Cardinality(Absent) <= Cardinality(Workers)
  BY <1>1, <1>2, FS_Subset
<1>5. IsFiniteSet(AtReady) /\ Cardinality(AtReady) <= Cardinality(Absent)
  BY <1>2, <1>4, FS_Subset
<1>6. Cardinality(Workers) \in Nat \ {0}
  BY <1>1, FS_CardinalityType, FS_EmptySet
<1> QED
  BY <1>1, <1>3, <1>4, <1>5, <1>6, FS_CardinalityType

(* An empty set has no elements, and a set of at most one has no other.    *)
LEMMA EmptyOrOne ==
  ASSUME NEW S, IsFiniteSet(S)
  PROVE  /\ Cardinality(S) = 0 <=> S = {}
         /\ \A x \in S : Cardinality(S) >= 1 /\ (Cardinality(S) <= 1 => S = {x})
<1>1. Cardinality(S) \in Nat /\ (Cardinality(S) = 0 <=> S = {})
  BY FS_CardinalityType, FS_EmptySet
<1>2. ASSUME NEW x \in S PROVE Cardinality(S) >= 1 /\ (Cardinality(S) <= 1 => S = {x})
  <2>1. Cardinality(S) >= 1
    BY <1>1
  <2>2. Cardinality(S) <= 1 => Cardinality(S) = 1
    BY <1>1, <2>1
  <2>3. Cardinality(S) = 1 => \E y : S = {y}
    BY FS_Singleton
  <2> QED
    BY <2>1, <2>2, <2>3
<1> QED
  BY <1>1, <1>2

(* The size of a set to which or from which one element may move.          *)
Grows(S, T, x) == IF x \in T THEN (IF x \in S THEN 0 ELSE 1) ELSE IF x \in S THEN -1 ELSE 0

LEMMA MovedSize ==
  ASSUME NEW S, IsFiniteSet(S), NEW T, NEW x, T \ {x} = S \ {x}
  PROVE  Cardinality(T) = Cardinality(S) + Grows(S, T, x)
<1>1. Cardinality(S) \in Nat
  BY FS_CardinalityType
<1>2. CASE x \in T
  <2>1. T = S \cup {x}
    BY <1>2
  <2> QED
    BY <1>1, <1>2, <2>1, FS_AddElement DEF Grows
<1>3. CASE x \notin T
  <2>1. T = S \ {x}
    BY <1>3
  <2> QED
    BY <1>1, <1>3, <2>1, FS_RemoveElement DEF Grows
<1> QED
  BY <1>2, <1>3

(* A step that moves one worker moves it into or out of the three sets.    *)
LEMMA SizesWorker ==
  ASSUME TypeInv, NEW p \in Workers, \A w \in Workers \ {p} : pc'[w] = pc[w]
  PROVE  /\ Cardinality(Busy') = Cardinality(Busy) + Grows(Busy, Busy', p)
         /\ Cardinality(AtReady') = Cardinality(AtReady) + Grows(AtReady, AtReady', p)
         /\ Cardinality(Absent') = Cardinality(Absent) + Grows(Absent, Absent', p)
<1>1. /\ Busy' \ {p} = Busy \ {p} /\ AtReady' \ {p} = AtReady \ {p}
      /\ Absent' \ {p} = Absent \ {p}
  BY DEF Busy, AtReady, Absent
<1> QED
  BY <1>1, SetFacts, MovedSize

(* A step that moves no worker leaves them alone. *)
LEMMA SizesMain ==
  ASSUME \A w \in Workers : pc'[w] = pc[w]
  PROVE  Busy' = Busy /\ AtReady' = AtReady /\ Absent' = Absent
BY DEF Busy, AtReady, Absent

-----------------------------------------------------------------------------
(* Types and set-up. *)

(* The threads the main thread knows. *)
LEMMA ThreadsWorker ==
  ASSUME IInv, NEW p \in Workers, Worker(p)
  PROVE  ThreadsInv'
<1> USE MultithreadAssumption
    DEF MultithreadAssumption, IInv, TypeInv, ThreadsInv, PhaseInv, SetUpInv, ClosedInv, OpenInv,
        ErrorInv, EndInv, All, Leaving, Threads, WorkerLabels, MainLabels, Move, In, Leave, SetStatus, WaitForMain, WaitOver,
        AddThreadReady, AddThreadCompleted, Post, counters,
        MULTITHREAD_ERR, MULTITHREAD_DISABLED, MULTITHREAD_INITIALIZING,
        MULTITHREAD_WAITING_START, MULTITHREAD_ENABLED, MULTITHREAD_WAITING_END
<1>1. CASE Lock(p)
  BY <1>1 DEF Lock
<1>2. CASE AwaitInit(p)
  BY <1>2 DEF AwaitInit
<1>3. CASE LoopCheck(p)
  BY <1>3 DEF LoopCheck
<1>4. CASE SignalReady(p)
  BY <1>4 DEF SignalReady
<1>5. CASE AwaitEnabled(p)
  BY <1>5 DEF AwaitEnabled
<1>6. CASE TestStatus(p)
  BY <1>6 DEF TestStatus, AfterStart
<1>7. CASE SkipJob(p)
  BY <1>7 DEF SkipJob
<1>8. CASE RunJob(p)
  BY <1>8 DEF RunJob
<1>9. CASE FailJob(p)
  BY <1>9 DEF FailJob
<1>10. CASE SignalCompleted(p)
  BY <1>10 DEF SignalCompleted
<1>11. CASE AwaitEnd(p)
  BY <1>11 DEF AwaitEnd
<1> QED
  BY <1>1, <1>2, <1>3, <1>4, <1>5, <1>6, <1>7, <1>8, <1>9, <1>10, <1>11 DEF Worker

(* It registers each thread it creates. *)
LEMMA ThreadsMain ==
  ASSUME IInv, Main
  PROVE  ThreadsInv'
<1> USE MultithreadAssumption
    DEF MultithreadAssumption, IInv, TypeInv, ThreadsInv, PhaseInv, SetUpInv, ClosedInv, OpenInv,
        ErrorInv, EndInv, All, Leaving, Threads, WorkerLabels, MainLabels, Move, In, Leave, SetStatus, WaitForMain, WaitOver,
        AddThreadReady, AddThreadCompleted, Post, counters,
        MULTITHREAD_ERR, MULTITHREAD_DISABLED, MULTITHREAD_INITIALIZING,
        MULTITHREAD_WAITING_START, MULTITHREAD_ENABLED, MULTITHREAD_WAITING_END
<1>1. CASE Lock("main")
  BY <1>1 DEF Lock
<1>2. CASE CreateThread
  BY <1>2 DEF CreateThread
<1>3. CASE SpawnThread
  BY <1>3 DEF SpawnThread
<1>4. CASE RegisterThread
  BY <1>4 DEF RegisterThread
<1>5. CASE PublishInit
  BY <1>5 DEF PublishInit
<1>6. CASE NextJob
  BY <1>6 DEF NextJob
<1>7. CASE AwaitReady
  BY <1>7 DEF AwaitReady
<1>8. CASE ResetReady
  BY <1>8 DEF ResetReady
<1>9. CASE EnableJob
  BY <1>9 DEF EnableJob
<1>10. CASE AwaitCompleted
  BY <1>10 DEF AwaitCompleted
<1>11. CASE ResetCompleted
  BY <1>11 DEF ResetCompleted
<1>12. CASE EndJob
  BY <1>12 DEF EndJob
<1>13. CASE DisableThreads
  BY <1>13 DEF DisableThreads
<1>14. CASE NothingToDisable
  BY <1>14 DEF NothingToDisable
<1>15. CASE JoinThreads
  BY <1>15 DEF JoinThreads
<1> QED
  BY <1>1, <1>2, <1>3, <1>4, <1>5, <1>6, <1>7, <1>8, <1>9, <1>10, <1>11, <1>12, <1>13,
     <1>14, <1>15 DEF Main

(* Where the threads may be while a worker moves, *)
LEMMA PhaseWorker ==
  ASSUME IInv, NEW p \in Workers, Worker(p)
  PROVE  PhaseInv'
<1> USE MultithreadAssumption
    DEF MultithreadAssumption, IInv, TypeInv, ThreadsInv, PhaseInv, SetUpInv, ClosedInv, OpenInv,
        ErrorInv, EndInv, All, Leaving, Busy, Threads, WorkerLabels, MainLabels, Move, In, Leave, SetStatus, WaitForMain, WaitOver,
        AddThreadReady, AddThreadCompleted, Post, counters,
        MULTITHREAD_ERR, MULTITHREAD_DISABLED, MULTITHREAD_INITIALIZING,
        MULTITHREAD_WAITING_START, MULTITHREAD_ENABLED, MULTITHREAD_WAITING_END
<1>1. CASE Lock(p)
  BY <1>1 DEF Lock
<1>2. CASE AwaitInit(p)
  BY <1>2 DEF AwaitInit
<1>3. CASE LoopCheck(p)
  BY <1>3 DEF LoopCheck
<1>4. CASE SignalReady(p)
  BY <1>4 DEF SignalReady, LastThread
<1>5. CASE AwaitEnabled(p)
  BY <1>5 DEF AwaitEnabled
<1>6. CASE TestStatus(p)
  BY <1>6 DEF TestStatus, AfterStart
<1>7. CASE SkipJob(p)
  BY <1>7 DEF SkipJob, SkipSignal, LastThread
<1>8. CASE RunJob(p)
  BY <1>8 DEF RunJob
<1>9. CASE FailJob(p)
  BY <1>9 DEF FailJob
<1>10. CASE SignalCompleted(p)
  BY <1>10 DEF SignalCompleted, LastThread
<1>11. CASE AwaitEnd(p)
  BY <1>11 DEF AwaitEnd
<1> QED
  BY <1>1, <1>2, <1>3, <1>4, <1>5, <1>6, <1>7, <1>8, <1>9, <1>10, <1>11 DEF Worker

(* and while the main thread does. *)
LEMMA PhaseMain ==
  ASSUME IInv, Main
  PROVE  PhaseInv'
<1> USE MultithreadAssumption
    DEF MultithreadAssumption, IInv, TypeInv, ThreadsInv, PhaseInv, SetUpInv, ClosedInv, OpenInv,
        ErrorInv, EndInv, All, Leaving, Busy, Threads, WorkerLabels, MainLabels, Move, In, Leave, SetStatus, WaitForMain, WaitOver,
        AddThreadReady, AddThreadCompleted, Post, counters,
        MULTITHREAD_ERR, MULTITHREAD_DISABLED, MULTITHREAD_INITIALIZING,
        MULTITHREAD_WAITING_START, MULTITHREAD_ENABLED, MULTITHREAD_WAITING_END
<1>1. CASE Lock("main")
  BY <1>1 DEF Lock
<1>2. CASE CreateThread
  BY <1>2 DEF CreateThread
<1>3. CASE SpawnThread
  BY <1>3 DEF SpawnThread
<1>4. CASE RegisterThread
  BY <1>4 DEF RegisterThread
<1>5. CASE PublishInit
  BY <1>5 DEF PublishInit
<1>6. CASE NextJob
  BY <1>6 DEF NextJob
<1>7. CASE AwaitReady
  <2>1. Absent = {}
    <3>1. ready = Cardinality(Workers)
      BY <1>7 DEF AwaitReady, CountInv
    <3>2. status \in {MULTITHREAD_WAITING_START, MULTITHREAD_WAITING_END}
      BY <1>7, <3>1, SetFacts DEF AwaitReady
    <3> QED
      BY <3>1, <3>2, SetFacts, EmptyOrOne DEF CountInv
  <2>2. All({"waitEnabled"})
    BY <2>1 DEF Absent
  <2> QED
    BY <1>7, <2>2 DEF AwaitReady
<1>8. CASE ResetReady
  BY <1>8 DEF ResetReady, ReadyAfterReset
<1>9. CASE EnableJob
  BY <1>9 DEF EnableJob
<1>10. CASE AwaitCompleted
  <2>1. Busy = {}
    BY <1>10 DEF AwaitCompleted, CountInv
  <2> QED
    BY <1>10, <2>1 DEF AwaitCompleted
<1>11. CASE ResetCompleted
  BY <1>11 DEF ResetCompleted, CompletedAfterReset
<1>12. CASE EndJob
  BY <1>12 DEF EndJob
<1>13. CASE DisableThreads
  BY <1>13 DEF DisableThreads
<1>14. CASE NothingToDisable
  BY <1>14 DEF NothingToDisable
<1>15. CASE JoinThreads
  BY <1>15 DEF JoinThreads
<1> QED
  BY <1>1, <1>2, <1>3, <1>4, <1>5, <1>6, <1>7, <1>8, <1>9, <1>10, <1>11, <1>12, <1>13,
     <1>14, <1>15 DEF Main

(* Types, and a semaphore that is not posted twice. *)
LEMMA TypeWorker ==
  ASSUME IInv, NEW p \in Workers, Worker(p)
  PROVE  TypeInv'
<1> USE MultithreadAssumption
    DEF MultithreadAssumption, IInv, TypeInv, All, Mutexes, MutexOf, Threads, WorkerLabels, MainLabels, Move, In, Leave, SetStatus, WaitForMain, WaitOver,
        AddThreadReady, AddThreadCompleted, Post, counters,
        MULTITHREAD_ERR, MULTITHREAD_DISABLED, MULTITHREAD_INITIALIZING,
        MULTITHREAD_WAITING_START, MULTITHREAD_ENABLED, MULTITHREAD_WAITING_END
<1>1. CASE Lock(p)
  BY <1>1 DEF Lock
<1>2. CASE AwaitInit(p)
  BY <1>2 DEF AwaitInit
<1>3. CASE LoopCheck(p)
  BY <1>3 DEF LoopCheck
<1>4. CASE SignalReady(p)
  <2>1. p \in AtReady /\ threads = Workers
    BY <1>4 DEF SignalReady, AtReady, ThreadsInv
  <2>2. Cardinality(AtReady) >= 1
    BY <2>1, SetFacts, EmptyOrOne
  <2>3. semReady = 0
    BY <2>2, SetFacts DEF CountInv
  <2> QED
    BY <1>4, <2>3 DEF SignalReady
<1>5. CASE AwaitEnabled(p)
  BY <1>5 DEF AwaitEnabled
<1>6. CASE TestStatus(p)
  BY <1>6 DEF TestStatus, AfterStart
<1>7. CASE SkipJob(p)
  <2>1. p \in Busy
    BY <1>7 DEF SkipJob, Busy
  <2>2. semCompleted = 0
    BY <2>1 DEF CountInv
  <2> QED
    BY <1>7, <2>2 DEF SkipJob, SkipSignal
<1>8. CASE RunJob(p)
  BY <1>8 DEF RunJob
<1>9. CASE FailJob(p)
  BY <1>9 DEF FailJob
<1>10. CASE SignalCompleted(p)
  <2>1. p \in Busy
    BY <1>10 DEF SignalCompleted, Busy
  <2>2. semCompleted = 0
    BY <2>1 DEF CountInv
  <2> QED
    BY <1>10, <2>2 DEF SignalCompleted
<1>11. CASE AwaitEnd(p)
  BY <1>11 DEF AwaitEnd
<1> QED
  BY <1>1, <1>2, <1>3, <1>4, <1>5, <1>6, <1>7, <1>8, <1>9, <1>10, <1>11 DEF Worker

(* What the main thread writes has its type. *)
LEMMA TypeMain ==
  ASSUME IInv, Main
  PROVE  TypeInv'
<1> USE MultithreadAssumption
    DEF MultithreadAssumption, IInv, TypeInv, All, Mutexes, MutexOf, Threads, WorkerLabels, MainLabels, Move, In, Leave, SetStatus, WaitForMain, WaitOver,
        AddThreadReady, AddThreadCompleted, Post, counters,
        MULTITHREAD_ERR, MULTITHREAD_DISABLED, MULTITHREAD_INITIALIZING,
        MULTITHREAD_WAITING_START, MULTITHREAD_ENABLED, MULTITHREAD_WAITING_END
<1> USE DEF PhaseInv, SetUpInv, ClosedInv, OpenInv, ErrorInv, EndInv
<1>1. CASE Lock("main")
  BY <1>1 DEF Lock
<1>2. CASE CreateThread
  BY <1>2 DEF CreateThread
<1>3. CASE SpawnThread
  BY <1>3 DEF SpawnThread
<1>4. CASE RegisterThread
  BY <1>4 DEF RegisterThread
<1>5. CASE PublishInit
  BY <1>5 DEF PublishInit
<1>6. CASE NextJob
  BY <1>6 DEF NextJob
<1>7. CASE AwaitReady
  BY <1>7 DEF AwaitReady
<1>8. CASE ResetReady
  BY <1>8 DEF ResetReady, ReadyAfterReset
<1>9. CASE EnableJob
  BY <1>9 DEF EnableJob
<1>10. CASE AwaitCompleted
  BY <1>10 DEF AwaitCompleted
<1>11. CASE ResetCompleted
  BY <1>11 DEF ResetCompleted, CompletedAfterReset
<1>12. CASE EndJob
  BY <1>12 DEF EndJob
<1>13. CASE DisableThreads
  BY <1>13 DEF DisableThreads
<1>14. CASE NothingToDisable
  BY <1>14 DEF NothingToDisable
<1>15. CASE JoinThreads
  BY <1>15 DEF JoinThreads
<1> QED
  BY <1>1, <1>2, <1>3, <1>4, <1>5, <1>6, <1>7, <1>8, <1>9, <1>10, <1>11, <1>12, <1>13,
     <1>14, <1>15 DEF Main

-----------------------------------------------------------------------------
(* Counts. *)

(* The sets stay sets of workers. *)
LEMMA NextSetFacts ==
  /\ IsFiniteSet(Busy') /\ Cardinality(Busy') \in Nat
  /\ Cardinality(Busy') <= Cardinality(Workers)
  /\ Cardinality(Absent') \in Nat /\ Cardinality(Absent') <= Cardinality(Workers)
  /\ Cardinality(AtReady') \in Nat /\ Cardinality(AtReady') <= Cardinality(Absent')
<1>1. Busy' \in SUBSET Workers /\ Absent' \in SUBSET Workers /\ AtReady' \in SUBSET Absent'
  BY DEF Busy, Absent, AtReady
<1>2. IsFiniteSet(Busy') /\ Cardinality(Busy') <= Cardinality(Workers)
  BY <1>1, SetFacts, FS_Subset
<1>3. IsFiniteSet(Absent') /\ Cardinality(Absent') <= Cardinality(Workers)
  BY <1>1, SetFacts, FS_Subset
<1>4. IsFiniteSet(AtReady') /\ Cardinality(AtReady') <= Cardinality(Absent')
  BY <1>1, <1>3, FS_Subset
<1> QED
  BY <1>2, <1>3, <1>4, FS_CardinalityType

(* What a worker's move from one label to another does to their sizes. *)
Idle == {"waitEnd", "check", "gone"}
Is(condition) == IF condition THEN 1 ELSE 0

LEMMA MovedWorker ==
  ASSUME TypeInv, NEW p \in Workers, NEW label, Move(p, label)
  PROVE  /\ Cardinality(Busy') = Cardinality(Busy) + Is(label \notin Idle) - Is(pc[p] \notin Idle)
         /\ Cardinality(AtReady') = Cardinality(AtReady) + Is(label = "ready") - Is(pc[p] = "ready")
         /\ Cardinality(Absent')
              = Cardinality(Absent) + Is(label # "waitEnabled") - Is(pc[p] # "waitEnabled")
         /\ Cardinality(Busy') = 0 <=> Busy' = {}
         /\ Busy = {} => Cardinality(Busy) = 0
         /\ pc[p] \notin Idle => Cardinality(Busy) >= 1
         /\ pc[p] = "ready" => Cardinality(AtReady) >= 1
<1>1. /\ pc'[p] = label
      /\ \A w \in Workers \ {p} : pc'[w] = pc[w]
  BY DEF Move, TypeInv, Threads
<1>2. /\ p \in Busy <=> pc[p] \notin Idle
      /\ p \in AtReady <=> pc[p] = "ready"
      /\ p \in Absent <=> pc[p] # "waitEnabled"
  BY DEF Busy, AtReady, Absent, Idle
<1>3. /\ p \in Busy' <=> label \notin Idle
      /\ p \in AtReady' <=> label = "ready"
      /\ p \in Absent' <=> label # "waitEnabled"
  BY <1>1 DEF Busy, AtReady, Absent, Idle
<1>4. /\ Cardinality(Busy') = Cardinality(Busy) + Grows(Busy, Busy', p)
      /\ Cardinality(AtReady') = Cardinality(AtReady) + Grows(AtReady, AtReady', p)
      /\ Cardinality(Absent') = Cardinality(Absent) + Grows(Absent, Absent', p)
  BY <1>1, SizesWorker
<1>5. /\ Grows(Busy, Busy', p) = Is(label \notin Idle) - Is(pc[p] \notin Idle)
      /\ Grows(AtReady, AtReady', p) = Is(label = "ready") - Is(pc[p] = "ready")
      /\ Grows(Absent, Absent', p) = Is(label # "waitEnabled") - Is(pc[p] # "waitEnabled")
  BY <1>2, <1>3 DEF Grows, Is
<1>6. /\ Cardinality(Busy') = 0 <=> Busy' = {}
      /\ Busy = {} => Cardinality(Busy) = 0
      /\ p \in Busy => Cardinality(Busy) >= 1
      /\ p \in AtReady => Cardinality(AtReady) >= 1
  BY SetFacts, NextSetFacts, EmptyOrOne
<1>7. /\ Is(label \notin Idle) \in {0, 1} /\ Is(pc[p] \notin Idle) \in {0, 1}
      /\ Is(label = "ready") \in {0, 1} /\ Is(pc[p] = "ready") \in {0, 1}
      /\ Is(label # "waitEnabled") \in {0, 1} /\ Is(pc[p] # "waitEnabled") \in {0, 1}
  BY DEF Is
<1> QED
  BY <1>2, <1>4, <1>5, <1>6, <1>7, SetFacts

(* A move that touches neither the counts nor the status leaves them right *)
(* if it makes nobody busy, nobody ready, and opens no gap at the gate.    *)
LEMMA QuietMove ==
  ASSUME IInv, NEW p \in Workers, NEW label, Move(p, label),
         UNCHANGED <<status, counters>>,
         label \notin Idle => pc[p] \notin Idle, label # "ready",
         label = pc[p] \/ pc[p] # "waitEnabled" \/ status \in {-1, 0, 3}
  PROVE  CountInv'
<1>1. /\ Cardinality(Busy') <= Cardinality(Busy)
      /\ Cardinality(AtReady') <= Cardinality(AtReady)
      /\ label = pc[p] \/ pc[p] # "waitEnabled" => Cardinality(Absent') <= Cardinality(Absent)
      /\ Cardinality(Busy') = 0 <=> Busy' = {}
      /\ Busy = {} => Cardinality(Busy) = 0
  BY MovedWorker, SetFacts DEF Is, IInv
<1> QED
  BY <1>1, SetFacts, NextSetFacts
  DEF CountInv, IInv, TypeInv, counters, MULTITHREAD_WAITING_START, MULTITHREAD_WAITING_END

(* Who counts as completed is no longer busy; the last one leaves nobody.  *)
LEMMA CompletedMove ==
  ASSUME IInv, NEW p \in Workers, NEW label, Move(p, label), label \in Idle,
         pc[p] \in {"skip", "complete"}, AddThreadCompleted, UNCHANGED status
  PROVE  CountInv'
<1>1. /\ Cardinality(Busy') = Cardinality(Busy) - 1
      /\ Cardinality(AtReady') = Cardinality(AtReady)
      /\ Cardinality(Absent') = Cardinality(Absent)
      /\ Cardinality(Busy) >= 1
      /\ Cardinality(Busy') = 0 <=> Busy' = {}
      /\ Busy = {} => Cardinality(Busy) = 0
  BY MovedWorker, SetFacts DEF IInv, Is, Idle
<1>2. threads = Workers
  BY DEF IInv, ThreadsInv, All
<1>3. /\ completed' = completed + 1 /\ UNCHANGED <<ready, semReady, status>>
      /\ semCompleted' = IF completed + 1 >= Cardinality(Workers) THEN semCompleted + 1
                         ELSE semCompleted
  BY <1>2 DEF AddThreadCompleted, Post, LastThread
<1> QED
  BY <1>1, <1>3, SetFacts, NextSetFacts DEF IInv, CountInv, TypeInv

(* Counting leaves room for those who have not counted. *)
LEMMA CountWorker ==
  ASSUME IInv, NEW p \in Workers, Worker(p)
  PROVE  CountInv'
<1> USE DEF IInv, MULTITHREAD_ERR, MULTITHREAD_DISABLED, MULTITHREAD_INITIALIZING,
            MULTITHREAD_WAITING_START, MULTITHREAD_ENABLED, MULTITHREAD_WAITING_END
<1>1. CASE Lock(p)
  <2>1. Busy' = Busy /\ AtReady' = AtReady /\ Absent' = Absent
    BY <1>1, SizesMain DEF Lock
  <2> QED
    BY <1>1, <2>1 DEF Lock, CountInv, counters
<1>2. CASE AwaitInit(p)
  BY <1>2, QuietMove DEF AwaitInit, WaitForMain, Leave, In, Idle
<1>3. CASE LoopCheck(p)
  <2>1. pc[p] = "check" /\ UNCHANGED <<status, counters>>
    BY <1>3 DEF LoopCheck, Leave, In
  <2>2. CASE status >= MULTITHREAD_WAITING_START
    <3>1. Move(p, "ready")
      BY <1>3, <2>2 DEF LoopCheck, Leave
    <3>2. Cardinality(Absent') = Cardinality(Absent)
      BY <2>1, <3>1, MovedWorker, SetFacts DEF Is
    <3>3. /\ status \in {MULTITHREAD_WAITING_START, MULTITHREAD_WAITING_END}
          /\ completed = 0 /\ semCompleted = 0
      BY <2>1, <2>2 DEF TypeInv, PhaseInv, OpenInv, ClosedInv, All
    <3> QED
      BY <2>1, <3>2, <3>3, SetFacts, NextSetFacts DEF CountInv, TypeInv, counters
  <2>3. CASE ~(status >= MULTITHREAD_WAITING_START)
    <3>1. Move(p, "gone")
      BY <1>3, <2>3 DEF LoopCheck, Leave
    <3> QED
      BY <2>1, <3>1, QuietMove DEF Idle
  <2> QED
    BY <2>2, <2>3
<1>4. CASE SignalReady(p)
  <2>1. pc[p] = "ready" /\ Move(p, "waitEnabled")
    BY <1>4 DEF SignalReady, Leave, In
  <2>2. /\ Cardinality(Busy') = Cardinality(Busy)
        /\ Cardinality(AtReady') = Cardinality(AtReady) - 1
        /\ Cardinality(Absent') = Cardinality(Absent) - 1
        /\ Cardinality(AtReady) >= 1
        /\ Cardinality(Busy') = 0 <=> Busy' = {}
        /\ Busy = {} => Cardinality(Busy) = 0
    BY <2>1, MovedWorker, SetFacts DEF Is, Idle
  <2>3. threads = Workers
    BY <2>1 DEF ThreadsInv, All
  <2>4. /\ ready' = ready + 1 /\ UNCHANGED <<completed, semCompleted, status>>
        /\ semReady' = IF ready + 1 >= Cardinality(Workers) THEN semReady + 1 ELSE semReady
    BY <1>4, <2>3 DEF SignalReady, AddThreadReady, Post, LastThread
  <2> QED
    BY <2>2, <2>4, SetFacts, NextSetFacts DEF CountInv, TypeInv
<1>5. CASE AwaitEnabled(p)
  BY <1>5, QuietMove DEF AwaitEnabled, WaitForMain, WaitOver, Leave, In, Idle, TypeInv
<1>6. CASE TestStatus(p)
  BY <1>6, QuietMove DEF TestStatus, AfterStart, Leave, In, Idle
<1>7. CASE SkipJob(p)
  <2>1. /\ pc[p] = "skip" /\ Move(p, "gone") /\ UNCHANGED status
        /\ AddThreadCompleted
    BY <1>7 DEF SkipJob, SkipSignal, Leave, In
  <2> QED
    BY <2>1, CompletedMove DEF Idle
<1>8. CASE RunJob(p)
  BY <1>8, QuietMove DEF RunJob, Idle
<1>9. CASE FailJob(p)
  <2>1. pc[p] = "fail" /\ Move(p, "complete") /\ UNCHANGED counters
    BY <1>9 DEF FailJob, Leave, In
  <2>2. status' = MULTITHREAD_ERR
    BY <1>9 DEF FailJob, SetStatus
  <2>3. /\ Cardinality(Busy') = Cardinality(Busy)
        /\ Cardinality(AtReady') = Cardinality(AtReady)
        /\ Cardinality(Busy') = 0 <=> Busy' = {}
        /\ Busy = {} => Cardinality(Busy) = 0
    BY <2>1, MovedWorker, SetFacts DEF Is, Idle
  <2> QED
    BY <2>1, <2>2, <2>3 DEF CountInv, counters
<1>10. CASE SignalCompleted(p)
  <2>1. /\ pc[p] = "complete" /\ Move(p, "waitEnd") /\ UNCHANGED status
        /\ AddThreadCompleted
    BY <1>10 DEF SignalCompleted, Leave, In
  <2> QED
    BY <2>1, CompletedMove DEF Idle
<1>11. CASE AwaitEnd(p)
  BY <1>11, QuietMove DEF AwaitEnd, WaitForMain, Leave, In, Idle
<1> QED
  BY <1>1, <1>2, <1>3, <1>4, <1>5, <1>6, <1>7, <1>8, <1>9, <1>10, <1>11 DEF Worker

(* The main thread's resets do. *)
LEMMA CountMain ==
  ASSUME IInv, Main
  PROVE  CountInv'
<1> USE MultithreadAssumption, SetFacts, SizesMain, FS_EmptySet
    DEF MultithreadAssumption, IInv, TypeInv, ThreadsInv, PhaseInv, SetUpInv, ClosedInv, OpenInv,
        ErrorInv, EndInv, All, Leaving, CountInv, Threads, WorkerLabels, MainLabels, Move, In, Leave, SetStatus, WaitForMain, WaitOver,
        AddThreadReady, AddThreadCompleted, Post, counters,
        MULTITHREAD_ERR, MULTITHREAD_DISABLED, MULTITHREAD_INITIALIZING,
        MULTITHREAD_WAITING_START, MULTITHREAD_ENABLED, MULTITHREAD_WAITING_END
<1>1. CASE Lock("main")
  BY <1>1 DEF Lock
<1>2. CASE CreateThread
  BY <1>2 DEF CreateThread
<1>3. CASE SpawnThread
  <2>1. \A w \in Workers : pc'[w] = pc[w] \/ (pc[w] = "none" /\ pc'[w] = "start")
    BY <1>3 DEF SpawnThread
  <2>2. Busy' = Busy /\ AtReady' = AtReady /\ Absent' = Absent
    BY <2>1 DEF Busy, AtReady, Absent
  <2> QED
    BY <1>3, <2>2 DEF SpawnThread
<1>4. CASE RegisterThread
  BY <1>4 DEF RegisterThread
<1>5. CASE PublishInit
  BY <1>5 DEF PublishInit
<1>6. CASE NextJob
  BY <1>6 DEF NextJob
<1>7. CASE AwaitReady
  BY <1>7 DEF AwaitReady
<1>8. CASE ResetReady
  BY <1>8 DEF ResetReady, ReadyAfterReset
<1>9. CASE EnableJob
  BY <1>9 DEF EnableJob
<1>10. CASE AwaitCompleted
  BY <1>10 DEF AwaitCompleted
<1>11. CASE ResetCompleted
  BY <1>11 DEF ResetCompleted, CompletedAfterReset
<1>12. CASE EndJob
  BY <1>12 DEF EndJob
<1>13. CASE DisableThreads
  BY <1>13 DEF DisableThreads
<1>14. CASE NothingToDisable
  BY <1>14 DEF NothingToDisable
<1>15. CASE JoinThreads
  BY <1>15 DEF JoinThreads
<1> QED
  BY <1>1, <1>2, <1>3, <1>4, <1>5, <1>6, <1>7, <1>8, <1>9, <1>10, <1>11, <1>12, <1>13,
     <1>14, <1>15 DEF Main

-----------------------------------------------------------------------------
(* The invariant and what follows from it. *)

(* It holds before anything is created, *)
LEMMA InvInit == Init => IInv
<1> SUFFICES ASSUME Init PROVE IInv
  OBVIOUS
<1> USE MultithreadAssumption
    DEF MultithreadAssumption, Init, Threads, WorkerLabels, MainLabels, Mutexes, All, Leaving,
        MULTITHREAD_ERR, MULTITHREAD_DISABLED, MULTITHREAD_INITIALIZING,
        MULTITHREAD_WAITING_START, MULTITHREAD_ENABLED, MULTITHREAD_WAITING_END
<1>1. TypeInv
  BY DEF TypeInv
<1>2. ThreadsInv
  BY DEF ThreadsInv
<1>3. PhaseInv
  BY DEF PhaseInv, SetUpInv, ClosedInv, OpenInv, ErrorInv, EndInv
<1>4. CountInv
  <2>1. AtReady = {} /\ Cardinality(AtReady) = 0
    BY FS_EmptySet DEF AtReady
  <2> QED
    BY <2>1, SetFacts DEF CountInv
<1> QED
  BY <1>1, <1>2, <1>3, <1>4 DEF IInv

(* across a signal that spares the critical sections, *)
LEMMA InvInterrupt ==
  ASSUME SafeInterrupts, IInv, Interrupt
  PROVE  IInv'
<1>0. /\ pc["main"] \notin {"register", "join", "exited"}
      /\ pc' = [pc EXCEPT !["main"] = "destroy"]
      /\ UNCHANGED <<sleeping, status, threads, counters, launched>>
  BY DEF Interrupt, Leaving, Move
<1>1. \A w \in Workers : pc'[w] = pc[w]
  BY <1>0, MultithreadAssumption DEF MultithreadAssumption, IInv, TypeInv, Threads
<1>2. pc'["main"] = "destroy"
  BY <1>0 DEF IInv, TypeInv, Threads
<1>3. Busy' = Busy /\ AtReady' = AtReady /\ Absent' = Absent
  BY <1>1, SizesMain
<1>4. TypeInv'
  BY <1>0, <1>1, <1>2 DEF IInv, TypeInv, Interrupt, All, Threads, MainLabels, counters
<1>5. ThreadsInv'
  BY <1>0, <1>1 DEF IInv, ThreadsInv, All
<1>6. PhaseInv'
  BY <1>0, <1>1, <1>2, <1>3
  DEF IInv, PhaseInv, TypeInv, SetUpInv, ClosedInv, OpenInv, ErrorInv, EndInv, All, Leaving, counters,
      MainLabels,
      MULTITHREAD_ERR, MULTITHREAD_DISABLED, MULTITHREAD_INITIALIZING,
      MULTITHREAD_WAITING_START, MULTITHREAD_ENABLED, MULTITHREAD_WAITING_END
<1>7. CountInv'
  BY <1>0, <1>3 DEF IInv, CountInv, counters
<1> QED
  BY <1>4, <1>5, <1>6, <1>7 DEF IInv

(* and in every other step. *)
LEMMA InvNext == ASSUME SafeInterrupts, IInv, [Next]_vars PROVE IInv'
<1>1. CASE Main
  BY <1>1, TypeMain, ThreadsMain, PhaseMain, CountMain DEF IInv
<1>2. CASE Interrupt
  BY <1>2, InvInterrupt
<1>3. ASSUME NEW w \in Workers, Worker(w) PROVE IInv'
  BY <1>3, TypeWorker, ThreadsWorker, PhaseWorker, CountWorker DEF IInv
<1>4. ASSUME UNCHANGED <<pc, holder, status, threads, counters, launched>>,
             sleeping' \subseteq sleeping
      PROVE  IInv'
  <2>1. TypeInv' /\ ThreadsInv'
    BY <1>4 DEF IInv, TypeInv, ThreadsInv, All, counters
  <2>2. Busy' = Busy /\ AtReady' = AtReady /\ Absent' = Absent
    BY <1>4 DEF Busy, AtReady, Absent
  <2>3. PhaseInv' /\ CountInv'
    BY <1>4, <2>2
    DEF IInv, PhaseInv, SetUpInv, ClosedInv, OpenInv, ErrorInv, EndInv, CountInv, All, counters
  <2> QED
    BY <2>1, <2>3 DEF IInv
<1>5. ASSUME NEW w \in Workers, SpuriousWakeup(w) PROVE IInv'
  BY <1>4, <1>5 DEF SpuriousWakeup
<1>6. CASE Terminated \/ UNCHANGED vars
  BY <1>4, <1>6 DEF Terminated, vars
<1> QED
  BY <1>1, <1>2, <1>3, <1>5, <1>6 DEF Next

(* So it holds throughout. *)
LEMMA Invariant == SafeInterrupts /\ Spec => []IInv
<1> SUFFICES ASSUME SafeInterrupts PROVE Spec => []IInv
  OBVIOUS
<1>1. IInv /\ [Next]_vars => IInv'
  BY InvNext
<1> QED
  BY InvInit, <1>1, PTL DEF Spec

(* The counts never pass the number of workers, and neither semaphore is   *)
(* ever posted twice (lines 187-239).                                      *)
THEOREM TypeCorrect == SafeInterrupts /\ Spec => []TypeOK
<1> SUFFICES ASSUME SafeInterrupts PROVE Spec => []TypeOK
  OBVIOUS
<1>1. IInv => TypeOK
  BY SetFacts DEF IInv, TypeInv, CountInv, TypeOK
<1> QED
  BY Invariant, <1>1, PTL

(* "Ready" is posted for all the workers and "completed" for all of them.  *)
THEOREM SignalsCorrect == SafeInterrupts /\ Spec => []SignalsMeanAll
<1> SUFFICES ASSUME SafeInterrupts PROVE Spec => []SignalsMeanAll
  OBVIOUS
<1>1. ASSUME IInv PROVE SignalsMeanAll
  <2>1. ASSUME semReady > 0, status > MULTITHREAD_DISABLED
        PROVE  \A w \in Workers : pc[w] = "waitEnabled"
    <3>1. ready = Cardinality(Workers)
      BY <1>1, <2>1 DEF IInv, CountInv
    <3>2. pc["main"] \notin Leaving
      BY <1>1, <2>1
      DEF IInv, PhaseInv, EndInv, SetUpInv, Leaving, All, TypeInv, MULTITHREAD_ERR, MULTITHREAD_DISABLED, MULTITHREAD_INITIALIZING
    <3>3. status \in {MULTITHREAD_WAITING_START, MULTITHREAD_WAITING_END}
      BY <1>1, <2>1, <3>1, <3>2, SetFacts
      DEF IInv, TypeInv, PhaseInv, SetUpInv, OpenInv, MULTITHREAD_ERR, MULTITHREAD_DISABLED,
          MULTITHREAD_INITIALIZING, MULTITHREAD_WAITING_START, MULTITHREAD_ENABLED,
          MULTITHREAD_WAITING_END
    <3>4. Absent = {}
      BY <1>1, <3>1, <3>3, SetFacts, EmptyOrOne DEF IInv, CountInv
    <3> QED
      BY <3>4 DEF Absent
  <2>2. semCompleted > 0 => \A w \in Workers : pc[w] \in {"waitEnd", "check", "gone"}
    BY <1>1 DEF IInv, CountInv, Busy
  <2> QED
    BY <2>1, <2>2 DEF SignalsMeanAll
<1> QED
  BY Invariant, <1>1, PTL

(* Between two jobs the main thread is alone with the benchmark's data.    *)
THEOREM QuietCorrect == SafeInterrupts /\ Spec => []NoWorkBetweenJobs
<1> SUFFICES ASSUME SafeInterrupts PROVE Spec => []NoWorkBetweenJobs
  OBVIOUS
<1>1. ASSUME IInv PROVE NoWorkBetweenJobs
  BY <1>1
  DEF IInv, TypeInv, PhaseInv, SetUpInv, ClosedInv, OpenInv, ErrorInv, Busy, All, Leaving,
      NoWorkBetweenJobs, MULTITHREAD_ERR, MULTITHREAD_DISABLED, MULTITHREAD_INITIALIZING,
      MULTITHREAD_WAITING_START, MULTITHREAD_ENABLED, MULTITHREAD_WAITING_END
<1> QED
  BY Invariant, <1>1, PTL

-----------------------------------------------------------------------------
(* The refinement: opening, working, closing and aborting are single steps *)
(* of the code, and everything else leaves the gate alone.                 *)

DidOf == [w \in Workers |-> Did(pc[w])]

(* A step of one worker changes what that worker did, and no more. *)
LEMMA DidMoved ==
  ASSUME TypeInv, NEW p \in Workers, NEW label, Move(p, label)
  PROVE  /\ DidOf' = [DidOf EXCEPT ![p] = Did(label)]
         /\ DidOf[p] = Did(pc[p])
         /\ Did(label) = Did(pc[p]) => DidOf' = DidOf
         /\ pc'["main"] = pc["main"]
<1>1. /\ pc'[p] = label
      /\ \A w \in Workers \ {p} : pc'[w] = pc[w]
      /\ pc'["main"] = pc["main"]
  BY MultithreadAssumption DEF MultithreadAssumption, Move, TypeInv, Threads
<1> QED
  BY <1>1 DEF DidOf

(* A worker's step is one of its steps in ForkJoin, or none. *)
LEMMA StepWorker ==
  ASSUME IInv, NEW p \in Workers, Worker(p)
  PROVE  [Barrier!ForkJoinNext]_<<Gate, DidOf>>
<1> USE DEF IInv, Barrier!ForkJoinNext, Leave, In, Did,
            MULTITHREAD_ERR, MULTITHREAD_DISABLED, MULTITHREAD_INITIALIZING,
            MULTITHREAD_WAITING_START, MULTITHREAD_ENABLED, MULTITHREAD_WAITING_END
<1>1. ASSUME NEW label, Move(p, label), Did(label) = Did(pc[p]), UNCHANGED status
      PROVE  UNCHANGED <<Gate, DidOf>>
  BY <1>1, DidMoved DEF Gate
<1>2. CASE Lock(p)
  BY <1>2 DEF Lock, Gate, DidOf
<1>3. CASE AwaitInit(p) \/ LoopCheck(p) \/ SignalReady(p) \/ AwaitEnabled(p) \/ SkipJob(p)
             \/ SignalCompleted(p)
  BY <1>1, <1>3
  DEF AwaitInit, LoopCheck, SignalReady, AwaitEnabled, SkipJob, SignalCompleted, WaitForMain
<1>4. CASE TestStatus(p)
  <2>1. CASE status <= MULTITHREAD_DISABLED
    BY <1>1, <1>4, <2>1 DEF TestStatus, AfterStart
  <2>2. CASE ~(status <= MULTITHREAD_DISABLED)
    <3>1. pc[p] = "test" /\ Move(p, "run") /\ UNCHANGED status
      BY <1>4, <2>2 DEF TestStatus, AfterStart
    <3>2. status = MULTITHREAD_ENABLED
      BY <2>2, <3>1 DEF TypeInv, PhaseInv, SetUpInv, ClosedInv, All
    <3> QED
      BY <3>1, <3>2, DidMoved DEF Barrier!Work, Gate, DidOf
  <2> QED
    BY <2>1, <2>2
<1>5. CASE RunJob(p)
  <2>1. CASE Move(p, "fail")
    BY <1>1, <1>5, <2>1 DEF RunJob
  <2>2. CASE Move(p, "complete")
    BY <1>5, <2>2, DidMoved DEF RunJob, Barrier!Done, Gate, DidOf
  <2> QED
    BY <1>5, <2>1, <2>2 DEF RunJob
<1>6. CASE FailJob(p)
  <2>1. pc[p] = "fail" /\ Move(p, "complete") /\ status' = MULTITHREAD_ERR
    BY <1>6 DEF FailJob, SetStatus
  <2>2. DidOf[p] = "working" /\ DidOf' = [DidOf EXCEPT ![p] = "worked"] /\ Gate' = "aborted"
    BY <2>1, DidMoved DEF Gate
  <2> QED
    BY <2>2 DEF Barrier!Fail, DidOf
<1>7. CASE AwaitEnd(p)
  <2>1. CASE WaitOver(MULTITHREAD_WAITING_END)
    <3>1. pc[p] = "waitEnd" /\ Move(p, "check") /\ UNCHANGED status
      BY <1>7, <2>1 DEF AwaitEnd, WaitForMain
    <3>2. DidOf[p] = "worked" /\ DidOf' = [DidOf EXCEPT ![p] = "waiting"] /\ Gate' = Gate
      BY <3>1, DidMoved DEF Gate
    <3>3. Gate # "open"
      BY <2>1 DEF WaitOver, Gate
    <3> QED
      BY <3>2, <3>3 DEF Barrier!Rest, DidOf
  <2>2. CASE ~WaitOver(MULTITHREAD_WAITING_END)
    BY <1>1, <1>7, <2>2 DEF AwaitEnd, WaitForMain
  <2> QED
    BY <2>1, <2>2
<1> QED
  BY <1>2, <1>3, <1>4, <1>5, <1>6, <1>7 DEF Worker

(* The main thread opens, closes and aborts, and it finds the workers as   *)
(* ForkJoin wants them.                                                    *)
LEMMA StepMain ==
  ASSUME IInv, Main
  PROVE  [Barrier!ForkJoinNext]_<<Gate, DidOf>>
<1> USE MultithreadAssumption
    DEF MultithreadAssumption, IInv, TypeInv, PhaseInv, SetUpInv, ClosedInv, OpenInv, ErrorInv,
        EndInv, All, Leaving, Threads, MainLabels, Move, Leave, In, SetStatus, Gate,
        MULTITHREAD_ERR, MULTITHREAD_DISABLED, MULTITHREAD_INITIALIZING,
        MULTITHREAD_WAITING_START, MULTITHREAD_ENABLED, MULTITHREAD_WAITING_END
<1>1. ASSUME \A w \in Workers : pc'[w] = pc[w] \/ (pc[w] = "none" /\ pc'[w] = "start")
      PROVE  DidOf' = DidOf
  BY <1>1 DEF DidOf, Did
<1>2. DidOf' = DidOf
  <2>1. CASE SpawnThread
    BY <1>1, <2>1 DEF SpawnThread
  <2>2. CASE ~SpawnThread
    <3>1. \A w \in Workers : pc'[w] = pc[w]
      BY <2>2 DEF Main, Lock, CreateThread, RegisterThread, PublishInit, NextJob, AwaitReady,
             ResetReady, EnableJob, AwaitCompleted, ResetCompleted, EndJob, DisableThreads,
             NothingToDisable, JoinThreads
    <3> QED
      BY <1>1, <3>1
  <2> QED
    BY <2>1, <2>2
<1>3. CASE EnableJob
  <2>1. pc["main"] = "enable" /\ status' = MULTITHREAD_ENABLED /\ Gate = "closed"
    BY <1>3 DEF EnableJob
  <2>2. DidOf = [w \in Workers |-> "waiting"]
    BY <2>1 DEF DidOf, Did
  <2> QED
    BY <1>2, <2>1, <2>2 DEF Barrier!ForkJoinNext, Barrier!Open, Barrier!Everyone, DidOf
<1>4. CASE EndJob
  <2>1. CASE status = MULTITHREAD_ERR
    BY <1>2, <1>4, <2>1 DEF EndJob
  <2>2. CASE status # MULTITHREAD_ERR
    <3>1. pc["main"] = "end" /\ status = MULTITHREAD_ENABLED
      BY <1>4, <2>2 DEF EndJob
    <3>2. DidOf = [w \in Workers |-> "worked"]
      BY <3>1 DEF DidOf, Did, Busy
    <3>3. Gate = "open" /\ Gate' = "closed"
      BY <1>4, <3>1 DEF EndJob
    <3> QED
      BY <1>2, <3>2, <3>3 DEF Barrier!ForkJoinNext, Barrier!Close, Barrier!Everyone, DidOf
  <2> QED
    BY <2>1, <2>2
<1>5. CASE DisableThreads \/ NothingToDisable
  <2>1. Gate' = "aborted"
    BY <1>5 DEF DisableThreads, NothingToDisable
  <2> QED
    BY <1>2, <2>1 DEF Barrier!ForkJoinNext, Barrier!Abort, DidOf
<1>6. CASE Lock("main") \/ CreateThread \/ RegisterThread \/ PublishInit
             \/ NextJob \/ AwaitReady \/ ResetReady \/ AwaitCompleted \/ ResetCompleted
             \/ JoinThreads
  <2>1. Gate' = Gate
    BY <1>6 DEF Lock, CreateThread, RegisterThread, PublishInit, NextJob, AwaitReady,
           ResetReady, AwaitCompleted, ResetCompleted, JoinThreads
  <2> QED
    BY <1>2, <2>1
<1>7. CASE SpawnThread
  <2>1. Gate' = Gate
    BY <1>7 DEF SpawnThread
  <2> QED
    BY <1>2, <2>1
<1> QED
  BY <1>3, <1>4, <1>5, <1>6, <1>7 DEF Main

(* The code implements the gate: jobs open and close only on everyone, and *)
(* an error or the end of the program closes the gate for good.            *)
THEOREM BarrierCorrect == SafeInterrupts /\ Spec => ImplementsForkJoin
<1> SUFFICES ASSUME SafeInterrupts PROVE Spec => ImplementsForkJoin
  OBVIOUS
<1>1. Init => Barrier!ForkJoinInit
  BY MultithreadAssumption
  DEF MultithreadAssumption, Init, Barrier!ForkJoinInit, Barrier!Everyone, Gate, Did, Threads,
      MULTITHREAD_ERR, MULTITHREAD_DISABLED, MULTITHREAD_ENABLED
<1>2. IInv /\ [Next]_vars => [Barrier!ForkJoinNext]_(Barrier!forkJoinVars)
  <2> SUFFICES ASSUME IInv, [Next]_vars
               PROVE  [Barrier!ForkJoinNext]_<<Gate, DidOf>>
    BY DEF Barrier!forkJoinVars, DidOf
  <2>1. CASE Main
    BY <2>1, StepMain
  <2>2. ASSUME NEW w \in Workers, Worker(w) PROVE [Barrier!ForkJoinNext]_<<Gate, DidOf>>
    BY <2>2, StepWorker
  <2>3. CASE Interrupt
    <3>1. pc' = [pc EXCEPT !["main"] = "destroy"] /\ pc["main"] \notin {"join", "exited"}
          /\ UNCHANGED status
      BY <2>3 DEF Interrupt, Move
    <3>2. /\ pc'["main"] = "destroy"
          /\ \A w \in Workers : pc'[w] = pc[w]
      BY <3>1, MultithreadAssumption DEF MultithreadAssumption, IInv, TypeInv, Threads
    <3> QED
      BY <3>1, <3>2 DEF Gate, DidOf
  <2>4. ASSUME UNCHANGED <<pc, status>> PROVE UNCHANGED <<Gate, DidOf>>
    BY <2>4 DEF Gate, DidOf
  <2>5. ASSUME NEW w \in Workers, SpuriousWakeup(w) PROVE UNCHANGED <<Gate, DidOf>>
    BY <2>4, <2>5 DEF SpuriousWakeup
  <2>6. CASE Terminated \/ UNCHANGED vars
    BY <2>4, <2>6 DEF Terminated, vars
  <2> QED
    BY <2>1, <2>2, <2>3, <2>5, <2>6 DEF Next
<1> QED
  BY <1>1, <1>2, Invariant, PTL DEF Spec, ImplementsForkJoin, Barrier!ForkJoinSpec
=============================================================================
