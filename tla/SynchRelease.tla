---------------------------- MODULE SynchRelease ----------------------------
(***************************************************************************)
(* The synchronised start of a group of benchmarks (synch_release.c): the  *)
(* processes meet in a shared memory one of them, the master, sets up; the *)
(* one that gets SIGNAL_SYNCH_RELEASE, from synch-helper.c or from the     *)
(* user, publishes a common instant and posts the semaphore the others     *)
(* wait on; each then arms its period timer with that instant.             *)
(*                                                                         *)
(* Each process takes one action per access to what it shares. The handler *)
(* of the signal runs on top of the process it interrupts, which goes on   *)
(* when the handler is done. A sem_wait that returns EINTR is repeated     *)
(* (line 321) and leaves no trace; no system call fails.                   *)
(***************************************************************************)
EXTENDS Integers, FiniteSets

CONSTANTS
  Procs,        \* the benchmarks started with -s and the same group name
  GroupSize,    \* the number synch-helper waits for
  MasterFirst,  \* are the others started once the master is set up?
  MaxStrays     \* bound: signals the user sends on top of the helper's

ASSUME SynchAssumption ==
  /\ IsFiniteSet(Procs) /\ Procs # {}
  /\ GroupSize \in Nat \ {0}
  /\ MasterFirst \in BOOLEAN
  /\ MaxStrays \in Nat
  /\ "nobody" \notin Procs

VARIABLES
  pc,         \* where each process is
  handler,    \* where its signal handler is
  masked,     \* is the signal blocked?
  pending,    \* is the signal pending?
  creator,    \* who created the shared memory object: its local master is 1
  sized,      \* the object has been given its size
  initSem,    \* who is inside the init_sem section
  status,     \* shm->status is SYNCH_ENABLED
  master,     \* shm->master_pid
  waiting,    \* shm->waiting_bmarks
  unblocker,  \* shm->unblocker_pid
  unblocked,  \* shm->unblocked
  delay,      \* shm->timer_initial_delay
  sem,        \* shm->synch_sem
  posted,     \* posts of each process' handler
  armed,      \* the instant each period timer is armed for, 0 if not armed
  clock,      \* how many times CLOCK_REALTIME was read
  helped,     \* synch-helper has sent its signal
  strays      \* signals the user has sent

own     == <<pc, handler, masked, pending, posted, armed>>
setup   == <<creator, sized, initSem, status, master, waiting>>
release == <<unblocker, unblocked, delay, sem>>
world   == <<clock, helped, strays>>
vars    == <<own, setup, release, world>>

(* An instant: a reading of the clock, and whether adding the delay makes  *)
(* its nanoseconds overflow the second, which timer_settime refuses.       *)
NoDelay == [at |-> 0, carry |-> FALSE]

Labels == {"new", "truncate", "lock", "init", "countIn", "preparing", "check", "unmask",
           "waiting", "mask", "arm", "running", "late", "failed", "crashed"}
HandlerLabels == {"idle", "cas", "store", "delay", "post"}

Init ==
  /\ pc = [p \in Procs |-> "new"]
  /\ handler = [p \in Procs |-> "idle"]
  /\ masked = [p \in Procs |-> FALSE]
  /\ pending = [p \in Procs |-> FALSE]
  /\ posted = [p \in Procs |-> 0]
  /\ armed = [p \in Procs |-> 0]
  /\ creator = "nobody" /\ sized = FALSE /\ initSem = "nobody" /\ status = FALSE
  /\ master = "nobody" /\ waiting = 0
  /\ unblocker = "nobody" /\ unblocked = FALSE /\ delay = NoDelay /\ sem = 0
  /\ clock = 0 /\ helped = FALSE /\ strays = 0

-----------------------------------------------------------------------------
(* init_synchronised_benchmark_group() and wait_for_synch(). *)

Step(p, from, to) ==
  /\ pc[p] = from
  /\ handler[p] = "idle"
  /\ pc' = [pc EXCEPT ![p] = to]

(* The signal is blocked, and whoever creates the object is the master.    *)
OpenShm(p) ==
  /\ MasterFirst => creator = "nobody" \/ status
  /\ Step(p, "new", IF creator = "nobody" THEN "truncate" ELSE "lock")
  /\ masked' = [masked EXCEPT ![p] = TRUE]
  /\ creator' = IF creator = "nobody" THEN p ELSE creator
  /\ UNCHANGED <<handler, pending, posted, armed, sized, initSem, status, master, waiting,
                 release, world>>

Truncate(p) ==
  /\ Step(p, "truncate", "lock")
  /\ sized' = TRUE
  /\ UNCHANGED <<handler, masked, pending, posted, armed, creator, initSem, status, master,
                 waiting, release, world>>

LockInit(p) ==
  /\ initSem = "nobody"
  /\ Step(p, "lock", IF creator = p THEN "init" ELSE "countIn")
  /\ initSem' = p
  /\ UNCHANGED <<handler, masked, pending, posted, armed, creator, sized, status, master,
                 waiting, release, world>>

(* memset, sem_init, master_pid and status: all inside the init_sem section. *)
InitShm(p) ==
  /\ Step(p, "init", "countIn")
  /\ waiting' = 0
  /\ unblocker' = "nobody" /\ unblocked' = FALSE /\ delay' = NoDelay /\ sem' = 0
  /\ master' = p
  /\ status' = TRUE
  /\ UNCHANGED <<handler, masked, pending, posted, armed, creator, sized, initSem, world>>

(* Memory without a size cannot be touched: SIGBUS kills the process, with *)
(* init_sem still taken.                                                   *)
CountIn(p) ==
  /\ Step(p, "countIn", IF sized THEN "preparing" ELSE "crashed")
  /\ waiting' = IF sized THEN waiting + 1 ELSE waiting
  /\ initSem' = IF sized THEN "nobody" ELSE initSem
  /\ UNCHANGED <<handler, masked, pending, posted, armed, creator, sized, status, master,
                 release, world>>

(* benchmark_init() and the rest of the setup, for as long as it takes.    *)
FinishInit(p) ==
  /\ Step(p, "preparing", "check")
  /\ UNCHANGED <<handler, masked, pending, posted, armed, setup, release, world>>

IsLate_Never == FALSE   \* mutant: late members are let in
IsLate == unblocked

CheckLate(p) ==
  /\ Step(p, "check", IF ~status THEN "arm" ELSE IF IsLate THEN "late" ELSE "unmask")
  /\ UNCHANGED <<handler, masked, pending, posted, armed, setup, release, world>>

Unmask(p) ==
  /\ Step(p, "unmask", "waiting")
  /\ masked' = [masked EXCEPT ![p] = FALSE]
  /\ UNCHANGED <<handler, pending, posted, armed, setup, release, world>>

TakeSynch(p) ==
  /\ Step(p, "waiting", "mask")
  /\ sem > 0
  /\ sem' = sem - 1
  /\ UNCHANGED <<handler, masked, pending, posted, armed, setup, unblocker, unblocked, delay,
                 world>>

MaskAgain(p) ==
  /\ Step(p, "mask", "arm")
  /\ masked' = [masked EXCEPT ![p] = TRUE]
  /\ UNCHANGED <<handler, pending, posted, armed, setup, release, world>>

(* setup_timer(TIMER_ABSTIME): in a group the published instant, which     *)
(* must be there and valid; outside of one the process' own clock.         *)
ArmTimer(p) ==
  LET valid == status => delay # NoDelay /\ ~delay.carry
      instant == IF status THEN delay.at ELSE clock + 1
  IN  /\ Step(p, "arm", IF valid THEN "running" ELSE "failed")
      /\ armed' = IF valid THEN [armed EXCEPT ![p] = instant] ELSE armed
      /\ clock' = IF status THEN clock ELSE clock + 1
      /\ UNCHANGED <<handler, masked, pending, posted, setup, release, helped, strays>>

-----------------------------------------------------------------------------
(* synch_on_start_handler(). Nobody sets group_size, so the test of lines  *)
(* 103-109 never fails; whoever unblocks the signal has seen the status.   *)

HandlerStep(p, from, to) ==
  /\ handler[p] = from
  /\ handler' = [handler EXCEPT ![p] = to]

Deliver(p) ==
  /\ pending[p] /\ ~masked[p]
  /\ HandlerStep(p, "idle", "cas")
  /\ pending' = [pending EXCEPT ![p] = FALSE]
  /\ UNCHANGED <<pc, masked, posted, armed, setup, release, world>>

MayUnblock_Anybody == TRUE   \* mutant: no compare and swap
MayUnblock == unblocker = "nobody"

(* The compare and swap: only one process per group becomes the unblocker. *)
CompareAndSwap(p) ==
  /\ HandlerStep(p, "cas", IF MayUnblock THEN "store" ELSE "idle")
  /\ unblocker' = IF MayUnblock THEN p ELSE unblocker
  /\ UNCHANGED <<pc, masked, pending, posted, armed, setup, unblocked, delay, sem, world>>

MarkUnblocked(p) ==
  /\ HandlerStep(p, "store", "delay")
  /\ unblocked' = TRUE
  /\ UNCHANGED <<pc, masked, pending, posted, armed, setup, unblocker, delay, sem, world>>

(* clock_gettime and the addition of SYNCH_DELAY_REL_NSEC, not normalised. *)
SetDelay(p) ==
  /\ HandlerStep(p, "delay", "post")
  /\ clock' = clock + 1
  /\ \E carry \in BOOLEAN : delay' = [at |-> clock + 1, carry |-> carry]
  /\ UNCHANGED <<pc, masked, pending, posted, armed, setup, unblocker, unblocked, sem,
                 helped, strays>>

PostsLeft_OneLess(p) == posted[p] + 1 < waiting   \* mutant: off by one

(* The loop reads waiting_bmarks anew before every post. *)
PostsLeft(p) == posted[p] < waiting

PostSynch(p) ==
  /\ HandlerStep(p, "post", IF PostsLeft(p) THEN "post" ELSE "idle")
  /\ sem' = IF PostsLeft(p) THEN sem + 1 ELSE sem
  /\ posted' = IF PostsLeft(p) THEN [posted EXCEPT ![p] = @ + 1] ELSE posted
  /\ UNCHANGED <<pc, masked, pending, armed, setup, unblocker, unblocked, delay, world>>

-----------------------------------------------------------------------------
(* Who sends the signal. *)

(* synch-helper polls status and waiting_bmarks, then signals the master.  *)
HelperSignals ==
  /\ ~helped
  /\ status /\ waiting = GroupSize
  /\ helped' = TRUE
  /\ pending' = [pending EXCEPT ![master] = TRUE]
  /\ UNCHANGED <<pc, handler, masked, posted, armed, setup, release, clock, strays>>

(* The user may signal any process, too early, twice or to the wrong one.  *)
StraySignal(p) ==
  /\ strays < MaxStrays
  /\ pc[p] \notin {"new", "late", "failed", "crashed"}
  /\ strays' = strays + 1
  /\ pending' = [pending EXCEPT ![p] = TRUE]
  /\ UNCHANGED <<pc, handler, masked, posted, armed, setup, release, clock, helped>>

Process(p) ==
  \/ OpenShm(p) \/ Truncate(p) \/ LockInit(p) \/ InitShm(p) \/ CountIn(p)
  \/ FinishInit(p) \/ CheckLate(p) \/ Unmask(p) \/ TakeSynch(p) \/ MaskAgain(p)
  \/ ArmTimer(p)
  \/ Deliver(p) \/ CompareAndSwap(p) \/ MarkUnblocked(p) \/ SetDelay(p) \/ PostSynch(p)

Settled(p) == pc[p] \in {"running", "late", "failed", "crashed"} /\ handler[p] = "idle"
Terminated == (\A p \in Procs : Settled(p)) /\ UNCHANGED vars

Next ==
  \/ HelperSignals \/ Terminated
  \/ \E p \in Procs : Process(p) \/ StraySignal(p)

Spec == Init /\ [][Next]_vars

(* The processes and the helper run; init_sem and synch_sem serve everyone *)
(* in the end; the user need not send anything.                            *)
FairSpec == Spec /\ WF_vars(HelperSignals) /\ \A p \in Procs : WF_vars(Process(p))

-----------------------------------------------------------------------------
(* Properties. *)

(* What the variables hold; nobody is posted for who is not counted.       *)
TypeOK ==
  /\ pc \in [Procs -> Labels] /\ handler \in [Procs -> HandlerLabels]
  /\ masked \in [Procs -> BOOLEAN] /\ pending \in [Procs -> BOOLEAN]
  /\ posted \in [Procs -> 0..Cardinality(Procs)] /\ armed \in [Procs -> Nat]
  /\ creator \in Procs \cup {"nobody"} /\ sized \in BOOLEAN /\ status \in BOOLEAN
  /\ initSem \in Procs \cup {"nobody"} /\ master \in Procs \cup {"nobody"}
  /\ waiting \in 0..Cardinality(Procs)
  /\ unblocker \in Procs \cup {"nobody"} /\ unblocked \in BOOLEAN
  /\ delay \in [at : Nat, carry : BOOLEAN] /\ sem \in 0..Cardinality(Procs)
  /\ clock \in Nat /\ helped \in BOOLEAN /\ strays \in 0..MaxStrays

(* All the benchmarks of a group that start do so at the one instant the   *)
(* unblocker has published, whoever else is signalled and however late     *)
(* they wake up; and if that instant is not valid none starts              *)
(* (synch_release.h:22-30, synch_release.c:73-83).                         *)
SameStart ==
  /\ \A p \in Procs : pc[p] = "running" => armed[p] = delay.at /\ ~delay.carry
  /\ \A p \in Procs : pc[p] = "failed" => delay.carry

Released == \E p \in Procs : unblocker = p /\ handler[p] = "idle"

(* When the unblocker has finished, the semaphore holds a unit for every   *)
(* process that waits or is past the test for late ones: the flag is set   *)
(* before the posts and the count read after it (lines 110, 129).          *)
PostsCoverWaiters ==
  Released => Cardinality({p \in Procs : pc[p] \in {"unmask", "waiting"}}) <= sem

(* Nobody waits for ever: the helper finds its number of benchmarks and    *)
(* the release reaches them all.                                           *)
NobodyStranded == \A p \in Procs : pc[p] = "waiting" ~> pc[p] # "waiting"
=============================================================================
