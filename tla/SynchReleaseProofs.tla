--------------------------- MODULE SynchReleaseProofs ---------------------------
(***************************************************************************)
(* The synchronised start for any number of processes and any number of    *)
(* stray signals, when the group's master is set up before the others are  *)
(* started (MasterFirst).                                                  *)
(***************************************************************************)
EXTENDS SynchRelease, FiniteSetTheorems, TLAPS

(* The processes the shared count has counted, those that were not late,   *)
(* and those that have taken a unit of the semaphore.                      *)
Counted == {p \in Procs : pc[p] \in {"preparing", "check", "unmask", "waiting", "mask", "arm",
                                     "running", "late", "failed"}}
Admitted == {p \in Procs : pc[p] \in {"unmask", "waiting", "mask", "arm", "running", "failed"}}
Took == {p \in Procs : pc[p] \in {"mask", "arm", "running", "failed"}}

(* TypeOK without its bounds on what is counted. *)
TypeInv ==
  /\ pc \in [Procs -> Labels] /\ handler \in [Procs -> HandlerLabels]
  /\ masked \in [Procs -> BOOLEAN] /\ pending \in [Procs -> BOOLEAN]
  /\ posted \in [Procs -> Nat] /\ armed \in [Procs -> Nat]
  /\ creator \in Procs \cup {"nobody"} /\ sized \in BOOLEAN /\ status \in BOOLEAN
  /\ initSem \in Procs \cup {"nobody"} /\ master \in Procs \cup {"nobody"}
  /\ unblocker \in Procs \cup {"nobody"} /\ unblocked \in BOOLEAN
  /\ delay \in [at : Nat, carry : BOOLEAN] /\ sem \in Nat
  /\ clock \in Nat /\ helped \in BOOLEAN /\ strays \in 0..MaxStrays

(* Until the memory is set up only the master is there, and nothing has    *)
(* been released; from then on nobody sets it up again.                    *)
MasterInv ==
  /\ status => /\ creator # "nobody" /\ master = creator
               /\ \A p \in Procs : pc[p] \notin {"truncate", "init"}
  /\ ~status => /\ unblocker = "nobody"
                /\ \A p \in Procs : pc[p] \in {"new", "truncate", "lock", "init"}
                /\ \A p \in Procs : pc[p] # "new" => creator = p
  /\ \A p \in Procs : pc[p] = "new" => creator # p
  /\ \A p \in Procs : pc[p] # "new" => creator # "nobody"
  /\ \A p \in Procs : pc[p] \in {"truncate", "init"} => creator = p
  /\ status => \A p \in Procs : pc[p] = "lock" => creator # p

(* The handler runs only on top of a process that waits, or is about to    *)
(* mask the signal again.                                                  *)
HandlerInv ==
  \A p \in Procs :
    /\ pc[p] \notin {"new", "waiting", "mask"} => masked[p]
    /\ pc[p] = "new" => ~pending[p]
    /\ handler[p] # "idle" => pc[p] \in {"waiting", "mask"}

Unblocking(steps) == \E p \in Procs : unblocker = p /\ handler[p] \in steps

(* One unblocker marks the group, publishes an instant and posts, in this  *)
(* order; every unit it has posted is in the semaphore or was taken.       *)
ReleaseInv ==
  /\ \A p \in Procs : handler[p] \in {"store", "delay", "post"} \/ posted[p] > 0
                        => unblocker = p
  /\ unblocker = "nobody" \/ Unblocking({"store"}) => ~unblocked
  /\ unblocker = "nobody" \/ Unblocking({"store", "delay"})
       => delay = NoDelay /\ sem = 0 /\ Took = {} /\ \A p \in Procs : posted[p] = 0
  /\ Unblocking({"idle", "cas", "post"}) => unblocked /\ delay.at > 0
  /\ Unblocking({"delay"}) => unblocked
  /\ \A p \in Procs : unblocker = p => posted[p] = sem + Cardinality(Took)

(* The count is that of the processes it counts, the unblocker posts no    *)
(* more, and when it has finished no fewer than were not late.             *)
CountInv ==
  /\ waiting = Cardinality(Counted)
  /\ \A p \in Procs : posted[p] <= waiting
  /\ \A p \in Procs :
       unblocker = p /\ handler[p] \in {"idle", "cas"} => Cardinality(Admitted) <= posted[p]

IInv == TypeInv /\ MasterInv /\ HandlerInv /\ ReleaseInv /\ CountInv /\ SameStart

-----------------------------------------------------------------------------
(* Types and set-up. *)

(* A step of a process or of its handler keeps the types. *)
LEMMA TypeProcess ==
  ASSUME TypeInv, NEW p \in Procs, Process(p)
  PROVE  TypeInv'
<1> USE DEF TypeInv, own, setup, release, world, Step, HandlerStep, Labels, HandlerLabels, NoDelay
<1>1. CASE OpenShm(p)
  BY <1>1 DEF OpenShm
<1>2. CASE Truncate(p)
  BY <1>2 DEF Truncate
<1>3. CASE LockInit(p)
  BY <1>3 DEF LockInit
<1>4. CASE InitShm(p)
  BY <1>4 DEF InitShm
<1>5. CASE CountIn(p)
  BY <1>5 DEF CountIn
<1>6. CASE FinishInit(p)
  BY <1>6 DEF FinishInit
<1>7. CASE CheckLate(p)
  BY <1>7 DEF CheckLate
<1>8. CASE Unmask(p)
  BY <1>8 DEF Unmask
<1>9. CASE TakeSynch(p)
  BY <1>9 DEF TakeSynch
<1>10. CASE MaskAgain(p)
  BY <1>10 DEF MaskAgain
<1>11. CASE ArmTimer(p)
  BY <1>11 DEF ArmTimer
<1>12. CASE Deliver(p)
  BY <1>12 DEF Deliver
<1>13. CASE CompareAndSwap(p)
  BY <1>13 DEF CompareAndSwap
<1>14. CASE MarkUnblocked(p)
  BY <1>14 DEF MarkUnblocked
<1>15. CASE SetDelay(p)
  BY <1>15 DEF SetDelay
<1>16. CASE PostSynch(p)
  BY <1>16 DEF PostSynch
<1> QED
  BY <1>1, <1>2, <1>3, <1>4, <1>5, <1>6, <1>7, <1>8, <1>9, <1>10, <1>11, <1>12, <1>13, <1>14,
     <1>15, <1>16 DEF Process

(* Only the creator sets the memory up, once. *)
LEMMA MasterProcess ==
  ASSUME MasterFirst, IInv, NEW p \in Procs, Process(p)
  PROVE  MasterInv'
<1> USE SynchAssumption DEF SynchAssumption, IInv, TypeInv, MasterInv, HandlerInv, own, setup,
        release, world, Step, HandlerStep
<1>1. CASE OpenShm(p)
  BY <1>1 DEF OpenShm
<1>2. CASE Truncate(p)
  BY <1>2 DEF Truncate
<1>3. CASE LockInit(p)
  BY <1>3 DEF LockInit
<1>4. CASE InitShm(p)
  BY <1>4 DEF InitShm
<1>5. CASE CountIn(p)
  BY <1>5 DEF CountIn
<1>6. CASE FinishInit(p)
  BY <1>6 DEF FinishInit
<1>7. CASE CheckLate(p)
  BY <1>7 DEF CheckLate
<1>8. CASE Unmask(p)
  BY <1>8 DEF Unmask
<1>9. CASE TakeSynch(p)
  BY <1>9 DEF TakeSynch
<1>10. CASE MaskAgain(p)
  BY <1>10 DEF MaskAgain
<1>11. CASE ArmTimer(p)
  BY <1>11 DEF ArmTimer
<1>12. CASE Deliver(p)
  BY <1>12 DEF Deliver
<1>13. CASE CompareAndSwap(p)
  BY <1>13 DEF CompareAndSwap
<1>14. CASE MarkUnblocked(p)
  BY <1>14 DEF MarkUnblocked
<1>15. CASE SetDelay(p)
  BY <1>15 DEF SetDelay
<1>16. CASE PostSynch(p)
  BY <1>16 DEF PostSynch
<1> QED
  BY <1>1, <1>2, <1>3, <1>4, <1>5, <1>6, <1>7, <1>8, <1>9, <1>10, <1>11, <1>12, <1>13, <1>14,
     <1>15, <1>16 DEF Process

(* The handler starts only where the signal is let through. *)
LEMMA HandlerProcess ==
  ASSUME MasterFirst, IInv, NEW p \in Procs, Process(p)
  PROVE  HandlerInv'
<1> USE DEF IInv, TypeInv, MasterInv, HandlerInv, own, setup, release, world, Step, HandlerStep
<1>1. CASE OpenShm(p)
  BY <1>1 DEF OpenShm
<1>2. CASE Truncate(p)
  BY <1>2 DEF Truncate
<1>3. CASE LockInit(p)
  BY <1>3 DEF LockInit
<1>4. CASE InitShm(p)
  BY <1>4 DEF InitShm
<1>5. CASE CountIn(p)
  BY <1>5 DEF CountIn
<1>6. CASE FinishInit(p)
  BY <1>6 DEF FinishInit
<1>7. CASE CheckLate(p)
  BY <1>7 DEF CheckLate
<1>8. CASE Unmask(p)
  BY <1>8 DEF Unmask
<1>9. CASE TakeSynch(p)
  BY <1>9 DEF TakeSynch
<1>10. CASE MaskAgain(p)
  BY <1>10 DEF MaskAgain
<1>11. CASE ArmTimer(p)
  BY <1>11 DEF ArmTimer
<1>12. CASE Deliver(p)
  BY <1>12 DEF Deliver
<1>13. CASE CompareAndSwap(p)
  BY <1>13 DEF CompareAndSwap
<1>14. CASE MarkUnblocked(p)
  BY <1>14 DEF MarkUnblocked
<1>15. CASE SetDelay(p)
  BY <1>15 DEF SetDelay
<1>16. CASE PostSynch(p)
  BY <1>16 DEF PostSynch
<1> QED
  BY <1>1, <1>2, <1>3, <1>4, <1>5, <1>6, <1>7, <1>8, <1>9, <1>10, <1>11, <1>12, <1>13, <1>14,
     <1>15, <1>16 DEF Process

-----------------------------------------------------------------------------
(* The sets the counters stand for. *)

(* They are finite, and whoever has taken a unit was not late and counts.  *)
LEMMA SetFacts ==
  /\ IsFiniteSet(Procs) /\ Cardinality(Procs) \in Nat
  /\ IsFiniteSet(Counted) /\ Cardinality(Counted) \in Nat
  /\ IsFiniteSet(Admitted) /\ Cardinality(Admitted) \in Nat
  /\ IsFiniteSet(Took) /\ Cardinality(Took) \in Nat
  /\ Cardinality(Counted) <= Cardinality(Procs)
  /\ Cardinality(Admitted) <= Cardinality(Counted)
<1>1. IsFiniteSet(Procs)
  BY SynchAssumption DEF SynchAssumption
<1>2. Counted \in SUBSET Procs /\ Admitted \in SUBSET Counted /\ Took \in SUBSET Procs
  BY DEF Counted, Admitted, Took
<1>3. IsFiniteSet(Counted) /\ Cardinality(Counted) <= Cardinality(Procs)
  BY <1>1, <1>2, FS_Subset
<1>4. IsFiniteSet(Admitted) /\ Cardinality(Admitted) <= Cardinality(Counted)
  BY <1>2, <1>3, FS_Subset
<1>5. IsFiniteSet(Took)
  BY <1>1, <1>2, FS_Subset
<1> QED
  BY <1>1, <1>3, <1>4, <1>5, FS_CardinalityType

(* Process p counts itself in, is not late, takes a unit. *)
Counts(p) == pc[p] = "countIn" /\ pc'[p] = "preparing"
Admits(p) == pc[p] = "check" /\ pc'[p] = "unmask"
Takes(p) == pc[p] = "waiting" /\ pc'[p] = "mask"

(* Each of the three steps adds its process to one of the sets, and no     *)
(* other step changes them.                                                *)
LEMMA SetsProcess ==
  ASSUME MasterFirst, IInv, NEW p \in Procs, Process(p)
  PROVE  /\ Counted' = IF Counts(p) THEN Counted \cup {p} ELSE Counted
         /\ Admitted' = IF Admits(p) THEN Admitted \cup {p} ELSE Admitted
         /\ Took' = IF Takes(p) THEN Took \cup {p} ELSE Took
<1> USE DEF IInv, TypeInv, MasterInv, own, setup, release, world, Step, HandlerStep,
        Counted, Admitted, Took, Counts, Admits, Takes, IsLate
<1>1. CASE OpenShm(p)
  BY <1>1 DEF OpenShm
<1>2. CASE Truncate(p)
  BY <1>2 DEF Truncate
<1>3. CASE LockInit(p)
  BY <1>3 DEF LockInit
<1>4. CASE InitShm(p)
  BY <1>4 DEF InitShm
<1>5. CASE CountIn(p)
  BY <1>5 DEF CountIn
<1>6. CASE FinishInit(p)
  BY <1>6 DEF FinishInit
<1>7. CASE CheckLate(p)
  BY <1>7 DEF CheckLate
<1>8. CASE Unmask(p)
  BY <1>8 DEF Unmask
<1>9. CASE TakeSynch(p)
  BY <1>9 DEF TakeSynch
<1>10. CASE MaskAgain(p)
  BY <1>10 DEF MaskAgain
<1>11. CASE ArmTimer(p)
  BY <1>11 DEF ArmTimer
<1>12. CASE Deliver(p)
  BY <1>12 DEF Deliver
<1>13. CASE CompareAndSwap(p)
  BY <1>13 DEF CompareAndSwap
<1>14. CASE MarkUnblocked(p)
  BY <1>14 DEF MarkUnblocked
<1>15. CASE SetDelay(p)
  BY <1>15 DEF SetDelay
<1>16. CASE PostSynch(p)
  BY <1>16 DEF PostSynch
<1> QED
  BY <1>1, <1>2, <1>3, <1>4, <1>5, <1>6, <1>7, <1>8, <1>9, <1>10, <1>11, <1>12, <1>13, <1>14,
     <1>15, <1>16 DEF Process

(* The sizes of the three sets after a step. *)
LEMMA SizesProcess ==
  ASSUME MasterFirst, IInv, NEW p \in Procs, Process(p)
  PROVE  /\ Cardinality(Counted') = Cardinality(Counted) + (IF Counts(p) THEN 1 ELSE 0)
         /\ ~Admits(p) => Cardinality(Admitted') = Cardinality(Admitted)
         /\ Cardinality(Took') = Cardinality(Took) + (IF Takes(p) THEN 1 ELSE 0)
<1>1. Counts(p) => p \notin Counted
  BY DEF Counts, Counted
<1>2. Takes(p) => p \notin Took
  BY DEF Takes, Took
<1>3. Counts(p) => Cardinality(Counted \cup {p}) = Cardinality(Counted) + 1
  BY <1>1, SetFacts, FS_AddElement
<1>4. Takes(p) => Cardinality(Took \cup {p}) = Cardinality(Took) + 1
  BY <1>2, SetFacts, FS_AddElement
<1>5. Cardinality(Counted') = Cardinality(Counted) + (IF Counts(p) THEN 1 ELSE 0)
  BY <1>3, SetsProcess, SetFacts
<1>6. ~Admits(p) => Cardinality(Admitted') = Cardinality(Admitted)
  BY SetsProcess
<1>7. Cardinality(Took') = Cardinality(Took) + (IF Takes(p) THEN 1 ELSE 0)
  BY <1>4, SetsProcess, SetFacts
<1> QED
  BY <1>5, <1>6, <1>7

-----------------------------------------------------------------------------
(* Release and count. *)

(* The unblocker is one, and what it has posted is in the semaphore or     *)
(* taken.                                                                  *)
LEMMA ReleaseProcess ==
  ASSUME MasterFirst, IInv, NEW p \in Procs, Process(p)
  PROVE  ReleaseInv'
<1> USE SynchAssumption, SetsProcess, SizesProcess, SetFacts
    DEF SynchAssumption, IInv, TypeInv, MasterInv, HandlerInv, ReleaseInv, Unblocking, own, setup,
        release, world, Step, HandlerStep, Admits, Counts, Takes
<1>1. CASE OpenShm(p)
  BY <1>1 DEF OpenShm
<1>2. CASE Truncate(p)
  BY <1>2 DEF Truncate
<1>3. CASE LockInit(p)
  BY <1>3 DEF LockInit
<1>4. CASE InitShm(p)
  BY <1>4 DEF InitShm
<1>5. CASE CountIn(p)
  BY <1>5 DEF CountIn
<1>6. CASE FinishInit(p)
  BY <1>6 DEF FinishInit
<1>7. CASE CheckLate(p)
  BY <1>7 DEF CheckLate
<1>8. CASE Unmask(p)
  BY <1>8 DEF Unmask
<1>9. CASE TakeSynch(p)
  BY <1>9 DEF TakeSynch
<1>10. CASE MaskAgain(p)
  BY <1>10 DEF MaskAgain
<1>11. CASE ArmTimer(p)
  BY <1>11 DEF ArmTimer
<1>12. CASE Deliver(p)
  BY <1>12 DEF Deliver
<1>13. CASE CompareAndSwap(p)
  <2>1. CASE unblocker = "nobody"
    <3>1. unblocker' = p /\ handler' = [handler EXCEPT ![p] = "store"]
      BY <1>13, <2>1 DEF CompareAndSwap, MayUnblock
    <3>2. Unblocking({"store"})' /\ \A q \in Procs : unblocker' = q => q = p
      BY <3>1
    <3>3. /\ Took' = {} /\ Cardinality(Took') = 0
          /\ sem' = 0 /\ posted' = posted /\ ~unblocked' /\ delay' = NoDelay
      BY <1>13, <2>1, FS_EmptySet DEF CompareAndSwap
    <3> QED
      BY <2>1, <3>1, <3>2, <3>3
  <2>2. CASE unblocker # "nobody"
    <3>1. unblocker' = unblocker /\ handler' = [handler EXCEPT ![p] = "idle"]
      BY <1>13, <2>2 DEF CompareAndSwap, MayUnblock
    <3> QED
      BY <1>13, <2>2, <3>1 DEF CompareAndSwap
  <2> QED
    BY <2>1, <2>2
<1>14. CASE MarkUnblocked(p)
  BY <1>14 DEF MarkUnblocked
<1>15. CASE SetDelay(p)
  BY <1>15 DEF SetDelay
<1>16. CASE PostSynch(p)
  BY <1>16 DEF PostSynch, PostsLeft
<1> QED
  BY <1>1, <1>2, <1>3, <1>4, <1>5, <1>6, <1>7, <1>8, <1>9, <1>10, <1>11, <1>12, <1>13, <1>14,
     <1>15, <1>16 DEF Process

(* The count keeps up with the set it counts and with the posts. *)
LEMMA CountProcess ==
  ASSUME MasterFirst, IInv, NEW p \in Procs, Process(p)
  PROVE  CountInv'
<1> USE SynchAssumption, SetsProcess, SizesProcess, SetFacts
    DEF SynchAssumption, IInv, TypeInv, MasterInv, HandlerInv, ReleaseInv, CountInv, Unblocking,
        own, setup, release, world, Step, HandlerStep, Admits, Counts, Takes
<1>1. CASE OpenShm(p)
  BY <1>1 DEF OpenShm
<1>2. CASE Truncate(p)
  BY <1>2 DEF Truncate
<1>3. CASE LockInit(p)
  BY <1>3 DEF LockInit
<1>4. CASE InitShm(p)
  <2>1. ~status
    BY <1>4 DEF InitShm
  <2>2. Counted = {}
    BY <2>1 DEF Counted
  <2> QED
    BY <1>4, <2>1, <2>2, FS_EmptySet DEF InitShm
<1>5. CASE CountIn(p)
  BY <1>5 DEF CountIn
<1>6. CASE FinishInit(p)
  BY <1>6 DEF FinishInit
<1>7. CASE CheckLate(p)
  BY <1>7 DEF CheckLate, IsLate
<1>8. CASE Unmask(p)
  BY <1>8 DEF Unmask
<1>9. CASE TakeSynch(p)
  BY <1>9 DEF TakeSynch
<1>10. CASE MaskAgain(p)
  BY <1>10 DEF MaskAgain
<1>11. CASE ArmTimer(p)
  BY <1>11 DEF ArmTimer
<1>12. CASE Deliver(p)
  BY <1>12 DEF Deliver
<1>13. CASE CompareAndSwap(p)
  BY <1>13 DEF CompareAndSwap, MayUnblock
<1>14. CASE MarkUnblocked(p)
  BY <1>14 DEF MarkUnblocked
<1>15. CASE SetDelay(p)
  BY <1>15 DEF SetDelay
<1>16. CASE PostSynch(p)
  BY <1>16 DEF PostSynch, PostsLeft
<1> QED
  BY <1>1, <1>2, <1>3, <1>4, <1>5, <1>6, <1>7, <1>8, <1>9, <1>10, <1>11, <1>12, <1>13, <1>14,
     <1>15, <1>16 DEF Process

(* Who starts has the instant that was published, and it stays.            *)
LEMMA SameStartProcess ==
  ASSUME MasterFirst, IInv, NEW p \in Procs, Process(p)
  PROVE  SameStart'
<1> USE SynchAssumption DEF SynchAssumption, IInv, TypeInv, MasterInv, HandlerInv, ReleaseInv,
        SameStart, Unblocking, Took, own, setup, release, world, Step, HandlerStep
<1>1. CASE OpenShm(p)
  BY <1>1 DEF OpenShm
<1>2. CASE Truncate(p)
  BY <1>2 DEF Truncate
<1>3. CASE LockInit(p)
  BY <1>3 DEF LockInit
<1>4. CASE InitShm(p)
  BY <1>4 DEF InitShm
<1>5. CASE CountIn(p)
  BY <1>5 DEF CountIn
<1>6. CASE FinishInit(p)
  BY <1>6 DEF FinishInit
<1>7. CASE CheckLate(p)
  BY <1>7 DEF CheckLate
<1>8. CASE Unmask(p)
  BY <1>8 DEF Unmask
<1>9. CASE TakeSynch(p)
  BY <1>9 DEF TakeSynch
<1>10. CASE MaskAgain(p)
  BY <1>10 DEF MaskAgain
<1>11. CASE ArmTimer(p)
  <2>1. status /\ Took # {}
    BY <1>11 DEF ArmTimer
  <2>2. delay.at > 0
    <3>1. unblocker # "nobody" /\ ~Unblocking({"store", "delay"})
      BY <2>1
    <3>2. Unblocking({"idle", "cas", "post"})
      BY <3>1 DEF HandlerLabels
    <3> QED
      BY <3>2
  <2>3. delay # NoDelay
    BY <2>2 DEF NoDelay
  <2> QED
    BY <1>11, <2>1, <2>3 DEF ArmTimer
<1>12. CASE Deliver(p)
  BY <1>12 DEF Deliver
<1>13. CASE CompareAndSwap(p)
  BY <1>13 DEF CompareAndSwap
<1>14. CASE MarkUnblocked(p)
  BY <1>14 DEF MarkUnblocked
<1>15. CASE SetDelay(p)
  BY <1>15 DEF SetDelay
<1>16. CASE PostSynch(p)
  BY <1>16 DEF PostSynch
<1> QED
  BY <1>1, <1>2, <1>3, <1>4, <1>5, <1>6, <1>7, <1>8, <1>9, <1>10, <1>11, <1>12, <1>13, <1>14,
     <1>15, <1>16 DEF Process

-----------------------------------------------------------------------------
(* The invariant. *)

(* A signal that is sent only becomes pending, and at nobody who is new. *)
LEMMA SignalStep ==
  ASSUME IInv, HelperSignals \/ \E p \in Procs : StraySignal(p)
  PROVE  IInv'
<1> USE SynchAssumption DEF SynchAssumption
<1>1. /\ UNCHANGED <<pc, handler, masked, posted, armed, setup, release, clock>>
      /\ pending' \in [Procs -> BOOLEAN] /\ helped' \in BOOLEAN /\ strays' \in 0..MaxStrays
      /\ \A p \in Procs : pc[p] = "new" => pending'[p] = pending[p]
  <2>1. CASE HelperSignals
    BY <2>1 DEF HelperSignals, IInv, TypeInv, MasterInv
  <2>2. CASE \E p \in Procs : StraySignal(p)
    <3>1. PICK p \in Procs : StraySignal(p)
      BY <2>2
    <3>2. strays' \in 0..MaxStrays
      BY <3>1 DEF StraySignal, IInv, TypeInv
    <3> QED
      BY <3>1, <3>2 DEF StraySignal, IInv, TypeInv
  <2> QED
    BY <2>1, <2>2
<1>2. Counted' = Counted /\ Admitted' = Admitted /\ Took' = Took
  BY <1>1 DEF Counted, Admitted, Took
<1>3. TypeInv' /\ MasterInv' /\ HandlerInv'
  BY <1>1 DEF IInv, TypeInv, MasterInv, HandlerInv, setup, release
<1>4. ReleaseInv' /\ CountInv'
  BY <1>1, <1>2 DEF IInv, ReleaseInv, CountInv, Unblocking, setup, release
<1>5. SameStart'
  BY <1>1 DEF IInv, SameStart, release
<1> QED
  BY <1>3, <1>4, <1>5 DEF IInv

(* A step that changes nothing. *)
LEMMA StutterStep == IInv /\ UNCHANGED vars => IInv'
BY DEF IInv, TypeInv, MasterInv, HandlerInv, ReleaseInv, CountInv, SameStart, Unblocking, Counted,
       Admitted, Took, vars, own, setup, release, world

(* Before the first process starts. *)
LEMMA InvInit == Init => IInv
<1> SUFFICES ASSUME Init PROVE IInv
  OBVIOUS
<1> USE SynchAssumption DEF SynchAssumption, Init
<1>1. TypeInv /\ MasterInv /\ HandlerInv
  <2>1. TypeInv
    <3>1. /\ pc \in [Procs -> Labels] /\ handler \in [Procs -> HandlerLabels]
          /\ masked \in [Procs -> BOOLEAN] /\ pending \in [Procs -> BOOLEAN]
          /\ posted \in [Procs -> Nat] /\ armed \in [Procs -> Nat]
      BY DEF Labels, HandlerLabels
    <3>2. delay \in [at : Nat, carry : BOOLEAN]
      BY DEF NoDelay
    <3>3. strays \in 0..MaxStrays /\ sem \in Nat /\ clock \in Nat
      OBVIOUS
    <3> QED
      BY <3>1, <3>2, <3>3 DEF TypeInv
  <2>2. MasterInv
    BY DEF MasterInv
  <2>3. HandlerInv
    BY DEF HandlerInv
  <2> QED
    BY <2>1, <2>2, <2>3
<1>2. Counted = {} /\ Admitted = {} /\ Took = {}
  BY DEF Counted, Admitted, Took
<1>3. ReleaseInv /\ CountInv
  BY <1>2, FS_EmptySet DEF ReleaseInv, CountInv, Unblocking
<1>4. SameStart
  BY DEF SameStart
<1> QED
  BY <1>1, <1>3, <1>4 DEF IInv

(* Every step, of whomever, keeps the invariant. *)
LEMMA InvNext ==
  ASSUME MasterFirst, IInv, [Next]_vars
  PROVE  IInv'
<1>1. CASE \E p \in Procs : Process(p)
  BY <1>1, TypeProcess, MasterProcess, HandlerProcess, ReleaseProcess, CountProcess,
     SameStartProcess DEF IInv
<1>2. CASE HelperSignals \/ \E p \in Procs : StraySignal(p)
  BY <1>2, SignalStep
<1>3. CASE UNCHANGED vars
  BY <1>3, StutterStep
<1> QED
  BY <1>1, <1>2, <1>3 DEF Next, Terminated

(* The invariant holds in every behaviour. *)
LEMMA Invariant == MasterFirst /\ Spec => []IInv
<1> SUFFICES ASSUME MasterFirst PROVE Spec => []IInv
  OBVIOUS
<1>1. IInv /\ [Next]_vars => IInv'
  BY InvNext
<1> QED
  BY InvInit, <1>1, PTL DEF Spec

-----------------------------------------------------------------------------
(* Theorems. *)

(* The bounds of TypeOK: the count, the posts and the semaphore never go   *)
(* past the number of processes.                                           *)
LEMMA TypeBounds == IInv => TypeOK
<1> SUFFICES ASSUME IInv PROVE TypeOK
  OBVIOUS
<1>1. waiting \in 0..Cardinality(Procs)
  BY SetFacts DEF IInv, CountInv
<1>2. \A p \in Procs : posted[p] \in 0..Cardinality(Procs)
  BY <1>1, SetFacts DEF IInv, TypeInv, CountInv
<1>3. sem \in 0..Cardinality(Procs)
  <2>1. CASE unblocker = "nobody"
    BY <2>1, SetFacts DEF IInv, ReleaseInv
  <2>2. CASE unblocker # "nobody"
    <3>1. unblocker \in Procs
      BY <2>2 DEF IInv, TypeInv
    <3>2. posted[unblocker] = sem + Cardinality(Took)
      BY <3>1 DEF IInv, ReleaseInv
    <3> QED
      BY <1>2, <3>1, <3>2, SetFacts DEF IInv, TypeInv
  <2> QED
    BY <2>1, <2>2
<1>4. posted \in [Procs -> 0..Cardinality(Procs)]
  BY <1>2 DEF IInv, TypeInv
<1> QED
  BY <1>1, <1>3, <1>4 DEF IInv, TypeInv, TypeOK

(* The values the shared memory and the processes may hold. *)
THEOREM TypeCorrect == MasterFirst /\ Spec => []TypeOK
BY Invariant, TypeBounds, PTL

(* All benchmarks of a group that start do so at the one published instant *)
(* and none does when that instant is not valid (synch_release.c:73-83).   *)
THEOREM SameStartCorrect == MasterFirst /\ Spec => []SameStart
<1>1. IInv => SameStart
  BY DEF IInv
<1> QED
  BY Invariant, <1>1, PTL

(* When the unblocker has finished there is a unit for every process that  *)
(* waits or is about to.                                                   *)
LEMMA PostsCover == IInv => PostsCoverWaiters
<1> SUFFICES ASSUME IInv, NEW u \in Procs, unblocker = u, handler[u] = "idle"
             PROVE  Cardinality({p \in Procs : pc[p] \in {"unmask", "waiting"}}) <= sem
  BY DEF PostsCoverWaiters, Released
<1> DEFINE Past == {p \in Procs : pc[p] \in {"unmask", "waiting"}}
<1>1. Past = Admitted \ Took /\ Took \subseteq Admitted
  BY DEF Admitted, Took
<1>2. Cardinality(Admitted \ Took) = Cardinality(Admitted) - Cardinality(Admitted \cap Took)
  BY SetFacts, FS_Difference
<1>3. Admitted \cap Took = Took
  BY <1>1
<1>4. Cardinality(Admitted) <= posted[u] /\ posted[u] = sem + Cardinality(Took)
  BY DEF IInv, CountInv, ReleaseInv
<1>5. Cardinality(Past) = Cardinality(Admitted) - Cardinality(Took)
  BY <1>1, <1>2, <1>3
<1>6. sem \in Nat
  BY DEF IInv, TypeInv
<1> HIDE DEF Past
<1>7. Cardinality(Past) <= sem
  BY <1>4, <1>5, <1>6, SetFacts
<1> QED
  BY <1>7 DEF Past

(* No member of the group is left waiting by the posts: it is late or      *)
(* posted for (synch_release.c:110, 129).                                  *)
THEOREM PostsCorrect == MasterFirst /\ Spec => []PostsCoverWaiters
BY Invariant, PostsCover, PTL
=============================================================================
