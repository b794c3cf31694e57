--------------------------- MODULE BandwidthProofs ---------------------------
(***************************************************************************)
(* Proofs about BandwidthThreads: whose memory the threads go over, and    *)
(* that the intervals and bytes of a row are those of one job.             *)
(***************************************************************************)
EXTENDS BandwidthThreads, FiniteSetTheorems, WellFoundedInduction, TLAPS

-----------------------------------------------------------------------------
(* Numbers, and the recursive functions over the threads.                  *)

(* What holds of 0 and of k + 1 when it holds of k holds up to n.          *)
LEMMA CountUp ==
  ASSUME NEW n \in Nat, NEW T, 0 \in T, \A k \in 0..(n - 1) : k \in T => k + 1 \in T
  PROVE  \A k \in 0..n : k \in T
<1> DEFINE U == {k \in 0..n : k \notin T}
<1> SUFFICES ASSUME U # {} PROVE FALSE
  OBVIOUS
<1>1. U \subseteq Nat
  OBVIOUS
<1>2. PICK x \in U : \A y \in U : <<y, x>> \notin OpToRel(<, Nat)
  <2>1. IsWellFoundedOn(OpToRel(<, Nat), Nat)
    BY NatLessThanWellFounded
  <2> HIDE DEF U
  <2> QED
    BY <1>1, <2>1, WFMin
<1>3. x \in 1..n /\ x - 1 \in 0..(n - 1) /\ x - 1 + 1 = x
  OBVIOUS
<1>4. x - 1 \in U
  BY <1>3
<1>5. x - 1 < x
  BY <1>3
<1> QED
  BY <1>1, <1>2, <1>4, <1>5 DEF OpToRel

(* A step that keeps within V can be iterated.                             *)
Iterates(g, n, base, F) ==
  /\ g[0] = base
  /\ \A k \in ThreadsOf(n) : g[k + 1] = F[<<k, g[k]>>]

LEMMA Iterated ==
  ASSUME NEW n \in Nat, NEW V, NEW base \in V, NEW F \in [ThreadsOf(n) \X V -> V]
  PROVE  \E g \in [0..n -> V] : Iterates(g, n, base, F)
<1> DEFINE Good(m, g) == \A k \in 0..m : g[k] = IF k = 0 THEN base ELSE F[<<k - 1, g[k - 1]>>]
           T == {m \in 0..n : \E g \in [0..n -> V] : Good(m, g)}
<1>1. 0 \in T
  <2>1. [k \in 0..n |-> base] \in [0..n -> V] /\ Good(0, [k \in 0..n |-> base]) /\ 0 \in 0..n
    OBVIOUS
  <2> HIDE DEF Good
  <2> QED
    BY <2>1
<1>2. ASSUME NEW m \in 0..(n - 1), m \in T PROVE m + 1 \in T
  <2>1. PICK g \in [0..n -> V] : Good(m, g)
    BY <1>2
  <2>2. m \in ThreadsOf(n) /\ m \in 0..n /\ m + 1 \in 0..n /\ m + 1 # 0 /\ m + 1 - 1 = m
    BY DEF ThreadsOf
  <2>3. <<m, g[m]>> \in ThreadsOf(n) \X V
    BY <2>2
  <2> DEFINE h == [g EXCEPT ![m + 1] = F[<<m, g[m]>>]]
  <2>4. h \in [0..n -> V]
    BY <2>3
  <2>5. \A k \in 0..m : h[k] = g[k] /\ (k # 0 => h[k - 1] = g[k - 1])
    BY <2>2
  <2>6. h[m + 1] = F[<<m, h[m]>>]
    BY <2>2
  <2>7. Good(m + 1, h)
    <3> SUFFICES ASSUME NEW k \in 0..(m + 1)
                 PROVE  h[k] = IF k = 0 THEN base ELSE F[<<k - 1, h[k - 1]>>]
      OBVIOUS
    <3>1. CASE k = m + 1
      <4> HIDE DEF h
      <4> QED
        BY <2>2, <2>6, <3>1
    <3>2. CASE k # m + 1
      <4>1. k \in 0..m
        BY <3>2
      <4> HIDE DEF h
      <4> QED
        BY <2>1, <2>5, <4>1
    <3> QED
      BY <3>1, <3>2
  <2> QED
    BY <2>2, <2>4, <2>7
<1>3. n \in T
  <2>1. \A m \in 0..(n - 1) : m \in T => m + 1 \in T
    BY <1>2
  <2> HIDE DEF T
  <2> QED
    BY <1>1, <2>1, CountUp
<1> DEFINE Right(g, k) == g[k] = IF k = 0 THEN base ELSE F[<<k - 1, g[k - 1]>>]
<1>4. PICK g \in [0..n -> V] : \A k \in 0..n : Right(g, k)
  BY <1>3
<1>5. g[0] = base
  <2>1. 0 \in 0..n
    OBVIOUS
  <2>2. Right(g, 0)
    <3> HIDE DEF Right
    <3> QED
      BY <1>4, <2>1
  <2> QED
    BY <2>2
<1>6. ASSUME NEW k \in ThreadsOf(n) PROVE g[k + 1] = F[<<k, g[k]>>]
  <2>1. PICK i \in 0..n : i = k + 1 /\ i # 0 /\ i - 1 = k
    BY DEF ThreadsOf
  <2>2. Right(g, i)
    <3> HIDE DEF Right
    <3> QED
      BY <1>4
  <2>3. g[i] = F[<<i - 1, g[i - 1]>>]
    BY <2>1, <2>2
  <2> QED
    BY <2>1, <2>3
<1> HIDE DEF Right
<1> QED
  BY <1>4, <1>5, <1>6 DEF Iterates

(* The prefix sums of the threads' sizes.                                  *)
LEMMA Ends ==
  ASSUME NEW n \in Nat, NEW size \in [ThreadsOf(n) -> Nat]
  PROVE  /\ RegionEnd(size, n) \in [0..n -> Nat]
         /\ RegionEnd(size, n)[0] = 0
         /\ \A k \in ThreadsOf(n) : RegionEnd(size, n)[k + 1] = RegionEnd(size, n)[k] + size[k]
<1> DEFINE F == [p \in ThreadsOf(n) \X Nat |-> p[2] + size[p[1]]]
           G(g) == [k \in 0..n |-> IF k = 0 THEN 0 ELSE g[k - 1] + size[k - 1]]
           R == RegionEnd(size, n)
<1>1. \E g : g = G(g)
  <2>1. F \in [ThreadsOf(n) \X Nat -> Nat]
    OBVIOUS
  <2>2. PICK g \in [0..n -> Nat] : Iterates(g, n, 0, F)
    <3>1. 0 \in Nat
      OBVIOUS
    <3> HIDE DEF F
    <3> QED
      BY <2>1, <3>1, Iterated
  <2>3. ASSUME NEW k \in 0..n, k # 0 PROVE g[k] = g[k - 1] + size[k - 1]
    <3>1. k - 1 \in ThreadsOf(n) /\ k - 1 \in 0..n /\ k - 1 + 1 = k
      BY <2>3 DEF ThreadsOf
    <3>2. g[k] = F[<<k - 1, g[k - 1]>>] /\ <<k - 1, g[k - 1]>> \in ThreadsOf(n) \X Nat
      <4> HIDE DEF F
      <4> QED
        BY <2>2, <3>1 DEF Iterates
    <3> QED
      BY <3>2
  <2> DEFINE H(k) == IF k = 0 THEN 0 ELSE g[k - 1] + size[k - 1]
  <2>4. \A k \in 0..n : g[k] = H(k)
    <3> SUFFICES ASSUME NEW k \in 0..n PROVE g[k] = H(k)
      OBVIOUS
    <3>1. CASE k = 0
      BY <2>2, <3>1 DEF Iterates
    <3>2. CASE k # 0
      BY <2>3, <3>2
    <3> QED
      BY <3>1, <3>2
  <2>5. g = G(g)
    <3>1. g = [k \in 0..n |-> H(k)]
      <4> HIDE DEF H, F
      <4> QED
        BY <2>2, <2>4
    <3> QED
      BY <3>1, Zenon
  <2> QED
    BY <2>5
<1>2. R = CHOOSE g : g = G(g)
  BY DEF RegionEnd
<1>3. R = G(R)
  <2> HIDE DEF G, R
  <2> QED
    BY <1>1, <1>2
<1>4. DOMAIN R = 0..n /\ R[0] = 0
  <2> HIDE DEF R
  <2> QED
    BY <1>3
<1>5. ASSUME NEW k \in ThreadsOf(n) PROVE R[k + 1] = R[k] + size[k]
  <2>1. PICK i \in 0..n : i = k + 1 /\ i # 0 /\ i - 1 = k
    BY DEF ThreadsOf
  <2> DEFINE Right(j) == R[j] = IF j = 0 THEN 0 ELSE R[j - 1] + size[j - 1]
  <2>2. \A j \in 0..n : Right(j)
    <3> HIDE DEF R
    <3> QED
      BY <1>3
  <2>3. Right(i)
    <3> HIDE DEF Right
    <3> QED
      BY <2>2
  <2> HIDE DEF R
  <2> QED
    BY <2>1, <2>3
<1> DEFINE T == {k \in 0..n : R[k] \in Nat}
<1>6. \A k \in 0..n : k \in T
  <2>1. 0 \in T
    BY <1>4
  <2>2. ASSUME NEW k \in 0..(n - 1), k \in T PROVE k + 1 \in T
    <3>1. k \in ThreadsOf(n) /\ k + 1 \in 0..n /\ size[k] \in Nat
      BY DEF ThreadsOf
    <3> HIDE DEF R
    <3> QED
      BY <1>5, <2>2, <3>1
  <2> HIDE DEF T
  <2> QED
    BY <2>1, <2>2, CountUp
<1>7. R \in [0..n -> Nat]
  <2> HIDE DEF R
  <2>1. R = [k \in 0..n |-> R[k]]
    BY <1>3
  <2> QED
    BY <1>6, <2>1
<1> QED
  BY <1>4, <1>5, <1>7

(* The sum up to a later thread is at least that with this one.            *)
LEMMA EndsGrow ==
  ASSUME NEW n \in Nat, NEW size \in [ThreadsOf(n) -> Nat],
         NEW k \in 0..n, NEW l \in 0..n, k <= l
  PROVE  RegionEnd(size, n)[k] <= RegionEnd(size, n)[l]
<1> DEFINE R == RegionEnd(size, n)
           T == {m \in 0..n : k <= m => R[k] <= R[m]}
<1>1. /\ R \in [0..n -> Nat]
      /\ \A m \in ThreadsOf(n) : R[m + 1] = R[m] + size[m]
  BY Ends
<1> HIDE DEF R
<1>2. 0 \in T
  BY <1>1
<1>3. ASSUME NEW m \in 0..(n - 1), m \in T PROVE m + 1 \in T
  <2>1. m \in ThreadsOf(n) /\ m \in 0..n /\ m + 1 \in 0..n
    BY DEF ThreadsOf
  <2>2. R[m + 1] = R[m] + size[m] /\ size[m] \in Nat /\ R[m] \in Nat /\ R[k] \in Nat
    BY <1>1, <2>1
  <2>3. CASE k <= m
    BY <1>3, <2>1, <2>2, <2>3
  <2>4. CASE k = m + 1
    BY <1>1, <2>1, <2>4
  <2>5. CASE k > m + 1
    BY <2>1, <2>5
  <2> QED
    BY <2>3, <2>4, <2>5
<1>4. l \in T
  <2> HIDE DEF T
  <2> QED
    BY <1>2, <1>3, CountUp
<1> QED
  BY <1>4 DEF R

(* The largest size is one that none exceeds.                              *)
LEMMA LargestSize ==
  ASSUME NEW n \in Nat, NEW m \in Nat, NEW size \in [ThreadsOf(n) -> 0..m]
  PROVE  /\ Largest(size, n) \in 0..m
         /\ \A k \in ThreadsOf(n) : size[k] <= Largest(size, n)
<1> DEFINE V == 0..m
           F == [p \in ThreadsOf(n) \X V |-> MaxOf(p[2], size[p[1]])]
           G(g) == [k \in 0..n |-> IF k = 0 THEN 0 ELSE MaxOf(g[k - 1], size[k - 1])]
           L == CHOOSE g : g = G(g)
<1>1. \E g : g = G(g)
  <2>1. F \in [ThreadsOf(n) \X V -> V]
    BY DEF MaxOf
  <2>2. PICK g \in [0..n -> V] : Iterates(g, n, 0, F)
    <3>1. 0 \in V
      OBVIOUS
    <3> HIDE DEF F, V
    <3> QED
      BY <2>1, <3>1, Iterated
  <2>3. ASSUME NEW k \in 0..n, k # 0 PROVE g[k] = MaxOf(g[k - 1], size[k - 1])
    <3>1. k - 1 \in ThreadsOf(n) /\ k - 1 \in 0..n /\ k - 1 + 1 = k
      BY <2>3 DEF ThreadsOf
    <3>2. g[k] = F[<<k - 1, g[k - 1]>>] /\ <<k - 1, g[k - 1]>> \in ThreadsOf(n) \X V
      <4> HIDE DEF F, V
      <4> QED
        BY <2>2, <3>1 DEF Iterates
    <3> QED
      BY <3>2
  <2> DEFINE H(k) == IF k = 0 THEN 0 ELSE MaxOf(g[k - 1], size[k - 1])
  <2>4. \A k \in 0..n : g[k] = H(k)
    <3> SUFFICES ASSUME NEW k \in 0..n PROVE g[k] = H(k)
      OBVIOUS
    <3>1. CASE k = 0
      BY <2>2, <3>1 DEF Iterates
    <3>2. CASE k # 0
      BY <2>3, <3>2
    <3> QED
      BY <3>1, <3>2
  <2>5. g = G(g)
    <3>1. g = [k \in 0..n |-> H(k)]
      <4> HIDE DEF H, F
      <4> QED
        BY <2>2, <2>4
    <3> QED
      BY <3>1, Zenon
  <2> QED
    BY <2>5
<1>2. Largest(size, n) = L[n]
  BY DEF Largest
<1>3. L = G(L)
  <2> HIDE DEF G
  <2> QED
    BY <1>1
<1> HIDE DEF L
<1>4. L[0] = 0
  BY <1>3
<1>5. ASSUME NEW k \in ThreadsOf(n) PROVE L[k + 1] = MaxOf(L[k], size[k])
  <2>1. PICK i \in 0..n : i = k + 1 /\ i # 0 /\ i - 1 = k
    BY DEF ThreadsOf
  <2> DEFINE Right(j) == L[j] = IF j = 0 THEN 0 ELSE MaxOf(L[j - 1], size[j - 1])
  <2>2. \A j \in 0..n : Right(j)
    BY <1>3
  <2>3. Right(i)
    <3> HIDE DEF Right
    <3> QED
      BY <2>2
  <2> QED
    BY <2>1, <2>3
<1> DEFINE T == {k \in 0..n : L[k] \in 0..m /\ \A j \in 0..(k - 1) : size[j] <= L[k]}
<1>6. n \in T
  <2>1. 0 \in T
    BY <1>4
  <2>2. ASSUME NEW k \in 0..(n - 1), k \in T PROVE k + 1 \in T
    <3>1. k \in ThreadsOf(n) /\ k + 1 \in 0..n /\ size[k] \in 0..m /\ L[k] \in 0..m
      BY <2>2 DEF ThreadsOf
    <3>2. L[k + 1] \in 0..m /\ L[k] <= L[k + 1] /\ size[k] <= L[k + 1]
      BY <1>5, <3>1 DEF MaxOf
    <3>3. ASSUME NEW j \in 0..k PROVE size[j] <= L[k + 1]
      <4>1. j \in ThreadsOf(n) /\ size[j] \in 0..m
        BY DEF ThreadsOf
      <4>2. CASE j = k
        BY <3>2, <4>2
      <4>3. CASE j # k
        <5>1. j \in 0..(k - 1)
          BY <4>3
        <5>2. size[j] <= L[k]
          BY <2>2, <5>1
        <5> QED
          BY <3>1, <3>2, <4>1, <5>2
      <4> QED
        BY <4>2, <4>3
    <3> QED
      BY <3>1, <3>2, <3>3
  <2> HIDE DEF T
  <2> QED
    BY <2>1, <2>2, CountUp
<1> QED
  BY <1>2, <1>6 DEF ThreadsOf

(* An int holds less than 2 GB, and what is less than that it holds.       *)
LEMMA Narrowed ==
  ASSUME NEW x \in Int
  PROVE  /\ Narrow(x) \in Int /\ Narrow(x) < HalfInt
         /\ x \in 0..(HalfInt - 1) => Narrow(x) = x
<1> DEFINE m == 2 * HalfInt
           y == x + HalfInt
<1>1. HalfInt \in Nat \ {0}
  BY BandwidthAssumption DEF BandwidthAssumption
<1>2. m \in Nat \ {0} /\ y \in Int /\ (x \in 0..(HalfInt - 1) => y \in 0..(m - 1))
  BY <1>1
<1>3. y % m \in 0..(m - 1) /\ (y \in 0..(m - 1) => y % m = y)
  <2> HIDE DEF m, y
  <2> QED
    BY <1>2
<1>4. Narrow(x) = (y % m) - HalfInt
  BY DEF Narrow
<1>5. y % m \in 0..(2 * HalfInt - 1) /\ (x \in 0..(HalfInt - 1) => y % m = x + HalfInt)
  BY <1>2, <1>3
<1> HIDE DEF m, y
<1> QED
  BY <1>1, <1>4, <1>5

(* Two instants with the same number of turns of the clock.                *)
LEMMA SameTurn ==
  ASSUME NEW a \in Nat, NEW b \in Nat, NEW c \in Nat, a <= b, b <= c,
         a \div ClockRange = c \div ClockRange
  PROVE  /\ a \div ClockRange = b \div ClockRange
         /\ a % ClockRange <= b % ClockRange /\ b % ClockRange <= c % ClockRange
<1> DEFINE R == ClockRange
<1>1. R \in Nat \ {0}
  BY BandwidthAssumption DEF BandwidthAssumption
<1> HIDE DEF R
<1>2. \A x, y \in Nat : x <= y => x \div R <= y \div R
  BY <1>1
<1>3. a \div R \in Int /\ b \div R \in Int
  BY <1>1
<1>4. a \div R = b \div R
  BY <1>2, <1>3 DEF R
<1>5. \A x, y \in Nat : x <= y /\ x \div R = y \div R => x % R <= y % R
  BY <1>1
<1> QED
  BY <1>4, <1>5 DEF R
-----------------------------------------------------------------------------
(* The inductive invariant.                                                *)

Threads == ThreadsOf(thread_num)
Sizes == [k \in Threads |-> thread_stat[k].t_mem_size]
BytesOf(k) == thread_stat[k].iterations * thread_stat[k].t_mem_size

(* Whose memory is whose, from benchmark_init() on.                        *)
RegionInv ==
  /\ buf_type = "private" =>
       /\ g_mem_size = Narrow(RegionEnd(Sizes, thread_num)[thread_num])
       /\ \A k \in Threads : thread_stat[k].t_mem_ptr = RegionEnd(Sizes, thread_num)[k]
  /\ buf_type = "shared" =>
       \A k \in Threads : thread_stat[k].t_mem_ptr = 0 /\ thread_stat[k].t_mem_size <= g_mem_size

(* A thread's work: so many passes, so many bytes.                         *)
WorkInv ==
  \A k \in spawned :
    /\ did[k] = "working" =>
         /\ thread_stat[k].passes < thread_stat[k].iterations
         /\ thread_stat[k].nread = thread_stat[k].passes * thread_stat[k].t_mem_size
    /\ did[k] \in {"stopping", "worked"} => thread_stat[k].nread = BytesOf(k)

(* Nobody works but in a job that is open, or that the end cuts short.     *)
QuietInv ==
  /\ phase \notin {"open", "quitting"} => \A k \in spawned : did[k] \in {"waiting", "worked"}
  /\ phase \in {"open", "adding", "logging"} => spawned # {}
  /\ phase = "init" => spawned = {} /\ jobs = 0
  /\ phase \in {"starting", "open", "adding", "logging"} => jobs < MaxJobs
  /\ phase \in {"ready", "starting", "open", "adding", "logging"} => data # <<>>

(* The stamps of a thread lie in the job, if the clock does not turn until *)
(* time t.                                                                 *)
Turned(t) == opened \div ClockRange # t \div ClockRange
Started(s, t) == opened % ClockRange <= s.t_start /\ s.t_start <= t % ClockRange
Stopped(s, t) == Started(s, t) /\ s.t_start <= s.t_end /\ s.t_end <= t % ClockRange

StampInv ==
  /\ opened <= now
  /\ phase = "open" /\ ~Turned(now) =>
       \A k \in spawned :
         /\ did[k] # "waiting" => Started(thread_stat[k], now)
         /\ did[k] = "worked" => Stopped(thread_stat[k], now)
  /\ phase \in {"adding", "logging"} =>
       \A k \in spawned :
         /\ thread_stat[k].nread = BytesOf(k)
         /\ ~Turned(closed) => Stopped(thread_stat[k], closed)

(* What the total is of, and what a row holds.                             *)
TotalBytes(sum) ==
  sum.nread = RegionEnd([k \in spawned |-> BytesOf(k)], thread_num)[thread_num]
TotalInterval(sum) ==
  /\ opened % ClockRange <= sum.start /\ sum.end <= closed % ClockRange
  /\ \A k \in Threads : sum.start <= thread_stat[k].t_start /\ thread_stat[k].t_end <= sum.end

TotalInv ==
  /\ phase \in {"starting", "open", "adding"} => total = Nothing
  /\ phase = "logging" /\ AllSpawned => TotalBytes(total)
  /\ phase = "logging" /\ AllSpawned /\ ClockSteady => TotalInterval(total)

IInv ==
  /\ TypeOK /\ RegionInv /\ WorkInv /\ QuietInv /\ StampInv /\ TotalInv
  /\ IntervalOfJob /\ BytesOfJob

-----------------------------------------------------------------------------
(* What the sums over the threads are.                                     *)

LEMMA Constants == HalfInt \in Nat \ {0} /\ ClockRange \in Nat \ {0} /\ MaxJobs \in Nat
  BY BandwidthAssumption DEF BandwidthAssumption

LEMMA ClockReads == ASSUME NEW t \in Nat PROVE t % ClockRange \in 0..(ClockRange - 1)
<1> DEFINE R == ClockRange
<1>1. R \in Nat \ {0}
  BY Constants
<1> HIDE DEF R
<1>2. t % R \in 0..(R - 1)
  BY <1>1
<1> QED
  BY <1>2 DEF R

(* The loop of benchmark_execution(), one thread after the other.          *)
Adds(g) ==
  /\ g \in [0..thread_num -> IntervalType]
  /\ g[0] = Nothing /\ g[thread_num] = AddedUp
  /\ \A k \in Threads : g[k + 1] = AddThread(g[k], thread_stat[k])

LEMMA AddedSums ==
  ASSUME thread_num \in Nat, thread_stat \in [Threads -> StatType], total = Nothing
  PROVE  \E g : Adds(g)
<1> DEFINE n == thread_num
           V == IntervalType
           F == [p \in ThreadsOf(n) \X V |-> AddThread(p[2], thread_stat[p[1]])]
           G(g) == [k \in 0..n |-> IF k = 0 THEN total ELSE AddThread(g[k - 1], thread_stat[k - 1])]
           S == CHOOSE g : g = G(g)
<1>0. Nothing \in V
  BY DEF Nothing, IntervalType
<1>1. ASSUME NEW s \in V, NEW k \in ThreadsOf(n) PROVE AddThread(s, thread_stat[k]) \in V
  <2>1. thread_stat[k] \in StatType
    BY DEF Threads
  <2>2. thread_stat[k].t_start \in Nat /\ thread_stat[k].t_end \in Nat /\ thread_stat[k].nread \in Nat
    BY <2>1 DEF StatType
  <2> QED
    BY <2>2 DEF AddThread, IntervalType
<1>2. F \in [ThreadsOf(n) \X V -> V]
  <2> HIDE DEF V
  <2> QED
    BY <1>1
<1>3. PICK h \in [0..n -> V] : Iterates(h, n, Nothing, F)
  <2> HIDE DEF F, V
  <2> QED
    BY <1>0, <1>2, Iterated
<1> HIDE DEF V
<1>4. ASSUME NEW k \in ThreadsOf(n) PROVE h[k + 1] = AddThread(h[k], thread_stat[k])
  <2>1. h[k + 1] = F[<<k, h[k]>>] /\ <<k, h[k]>> \in ThreadsOf(n) \X V
    <3>1. k \in 0..n
      BY DEF ThreadsOf
    <3> HIDE DEF F
    <3> QED
      BY <1>3, <3>1 DEF Iterates
  <2> QED
    BY <2>1
<1> DEFINE H(k) == IF k = 0 THEN total ELSE AddThread(h[k - 1], thread_stat[k - 1])
<1>5. \A k \in 0..n : h[k] = H(k)
  <2> SUFFICES ASSUME NEW k \in 0..n PROVE h[k] = H(k)
    OBVIOUS
  <2>1. CASE k = 0
    BY <1>3, <2>1 DEF Iterates
  <2>2. CASE k # 0
    <3>1. PICK j \in ThreadsOf(n) : k = j + 1 /\ k - 1 = j
      BY <2>2 DEF ThreadsOf
    <3> QED
      BY <1>4, <2>2, <3>1
  <2> QED
    BY <2>1, <2>2
<1>6. h = G(h)
  <2>1. h = [k \in 0..n |-> H(k)]
    <3> HIDE DEF H, F
    <3> QED
      BY <1>3, <1>5
  <2> QED
    BY <2>1, Zenon
<1>7. S = G(S)
  <2> HIDE DEF G
  <2> QED
    BY <1>6
<1>8. AddedUp = S[n]
  BY DEF AddedUp
<1> HIDE DEF S
<1>9. DOMAIN S = 0..n /\ S[0] = Nothing
  <2>1. 0 \in 0..n
    OBVIOUS
  <2> DEFINE Right(j) == S[j] = IF j = 0 THEN total ELSE AddThread(S[j - 1], thread_stat[j - 1])
  <2>2. DOMAIN S = 0..n /\ \A j \in 0..n : Right(j)
    BY <1>7
  <2>3. Right(0)
    <3> HIDE DEF Right
    <3> QED
      BY <2>1, <2>2
  <2> QED
    BY <2>2, <2>3
<1>10. ASSUME NEW k \in ThreadsOf(n) PROVE S[k + 1] = AddThread(S[k], thread_stat[k])
  <2>1. PICK i \in 0..n : i = k + 1 /\ i # 0 /\ i - 1 = k
    BY DEF ThreadsOf
  <2> DEFINE Right(j) == S[j] = IF j = 0 THEN total ELSE AddThread(S[j - 1], thread_stat[j - 1])
  <2>2. \A j \in 0..n : Right(j)
    BY <1>7
  <2>3. Right(i)
    <3> HIDE DEF Right
    <3> QED
      BY <2>2
  <2> QED
    BY <2>1, <2>3
<1> DEFINE T == {k \in 0..n : S[k] \in V}
<1>11. \A k \in 0..n : k \in T
  <2>1. 0 \in T
    BY <1>0, <1>9
  <2>2. ASSUME NEW k \in 0..(n - 1), k \in T PROVE k + 1 \in T
    <3>1. k \in ThreadsOf(n) /\ k + 1 \in 0..n
      BY DEF ThreadsOf
    <3> QED
      BY <1>1, <1>10, <2>2, <3>1
  <2> HIDE DEF T
  <2> QED
    BY <2>1, <2>2, CountUp
<1>12. S \in [0..n -> V]
  <2>1. S = [k \in 0..n |-> S[k]]
    <3> HIDE DEF V
    <3>1. S = G(S)
      BY <1>7
    <3> QED
      BY <3>1, Zenon
  <2> QED
    BY <1>11, <2>1
<1>13. Adds(S)
  BY <1>8, <1>9, <1>10, <1>12 DEF Adds, Threads, V
<1> QED
  BY <1>13

(* The bytes of the total are those of the threads.                        *)
LEMMA BytesAdded ==
  ASSUME thread_num \in Nat, thread_stat \in [Threads -> StatType], total = Nothing,
         AllSpawned, \A k \in spawned : thread_stat[k].nread = BytesOf(k)
  PROVE  TotalBytes(AddedUp)
<1> DEFINE n == thread_num
           bytes == [k \in spawned |-> BytesOf(k)]
           R == RegionEnd(bytes, n)
<1>1. PICK g : Adds(g)
  BY AddedSums
<1>2. /\ g \in [0..n -> IntervalType] /\ g[0] = Nothing /\ g[n] = AddedUp
      /\ \A k \in ThreadsOf(n) : g[k + 1] = AddThread(g[k], thread_stat[k])
  BY <1>1 DEF Adds, Threads
<1>3. spawned = ThreadsOf(n)
  BY DEF AllSpawned
<1>4. \A k \in ThreadsOf(n) : bytes[k] = thread_stat[k].nread /\ thread_stat[k].nread \in Nat
  BY <1>3 DEF StatType, Threads
<1>5. bytes \in [ThreadsOf(n) -> Nat]
  <2>1. bytes = [k \in ThreadsOf(n) |-> bytes[k]]
    BY <1>3
  <2> HIDE DEF bytes
  <2> QED
    BY <1>4, <2>1
<1> HIDE DEF bytes
<1>6. /\ R[0] = 0 /\ R \in [0..n -> Nat]
      /\ \A k \in ThreadsOf(n) : R[k + 1] = R[k] + bytes[k]
  BY <1>5, Ends
<1> HIDE DEF R
<1> DEFINE T == {k \in 0..n : g[k].nread = R[k]}
<1>7. \A k \in 0..n : k \in T
  <2>1. 0 \in T
    BY <1>2, <1>6 DEF Nothing
  <2>2. ASSUME NEW k \in 0..(n - 1), k \in T PROVE k + 1 \in T
    <3>1. k \in ThreadsOf(n) /\ k + 1 \in 0..n
      BY DEF ThreadsOf
    <3>2. g[k + 1].nread = g[k].nread + thread_stat[k].nread
      <4>1. g[k + 1] = AddThread(g[k], thread_stat[k])
        BY <1>2, <3>1
      <4> QED
        BY <4>1 DEF AddThread
    <3> QED
      BY <1>4, <1>6, <2>2, <3>1, <3>2
  <2> HIDE DEF T
  <2> QED
    BY <2>1, <2>2, CountUp
<1>8. g[n].nread = R[n]
  BY <1>7
<1> QED
  BY <1>2, <1>8 DEF TotalBytes, R, bytes

(* The interval of the total covers the threads', when no stamp is 0.      *)
LEMMA IntervalAdded ==
  ASSUME thread_num \in Nat \ {0}, thread_stat \in [Threads -> StatType], total = Nothing,
         opened \in Nat, closed \in Nat, opened % ClockRange > 0,
         \A k \in Threads : Stopped(thread_stat[k], closed)
  PROVE  TotalInterval(AddedUp)
<1> DEFINE n == thread_num
           o == opened % ClockRange
           c == closed % ClockRange
<1>1. PICK g : Adds(g)
  BY AddedSums
<1>2. /\ g \in [0..n -> IntervalType] /\ g[0] = Nothing /\ g[n] = AddedUp
      /\ \A k \in ThreadsOf(n) : g[k + 1] = AddThread(g[k], thread_stat[k])
  BY <1>1 DEF Adds, Threads
<1>3. o \in Nat \ {0} /\ c \in Nat
  BY ClockReads
<1>4. \A k \in ThreadsOf(n) :
        /\ thread_stat[k].t_start \in Nat /\ thread_stat[k].t_end \in Nat
        /\ o <= thread_stat[k].t_start /\ thread_stat[k].t_start <= thread_stat[k].t_end
        /\ thread_stat[k].t_end <= c
  <2>1. \A k \in ThreadsOf(n) : thread_stat[k] \in StatType /\ Stopped(thread_stat[k], closed)
    BY DEF Threads
  <2> QED
    BY <2>1 DEF Stopped, Started, StatType
<1> HIDE DEF o, c
<1> DEFINE Covers(k) == /\ k > 0 => o <= g[k].start /\ g[k].end <= c /\ g[k].end > 0
                        /\ \A j \in 0..(k - 1) :
                             g[k].start <= thread_stat[j].t_start /\ thread_stat[j].t_end <= g[k].end
           T == {k \in 0..n : Covers(k)}
<1>5. \A k \in 0..n : k \in T
  <2>1. 0 \in T
    BY <1>2
  <2>2. ASSUME NEW k \in 0..(n - 1), k \in T PROVE k + 1 \in T
    <3> DEFINE s == thread_stat[k]
    <3>1. k \in ThreadsOf(n) /\ k + 1 \in 0..n /\ k \in 0..n /\ k \in Nat
      BY DEF ThreadsOf
    <3>2. /\ g[k].start \in Nat /\ g[k].end \in Nat
          /\ g[k + 1].start = IF g[k].start = 0 \/ s.t_start < g[k].start THEN s.t_start ELSE g[k].start
          /\ g[k + 1].end = IF g[k].end = 0 \/ s.t_end > g[k].end THEN s.t_end ELSE g[k].end
      <4>1. g[k + 1] = AddThread(g[k], s) /\ g[k] \in IntervalType
        BY <1>2, <3>1
      <4> HIDE DEF s
      <4> QED
        BY <4>1 DEF AddThread, IntervalType
    <3>3. /\ s.t_start \in Nat /\ s.t_end \in Nat /\ o <= s.t_start
          /\ s.t_start <= s.t_end /\ s.t_end <= c
      BY <1>4, <3>1
    <3> HIDE DEF s
    <3>4. CASE k = 0
      <4>1. g[k].start = 0 /\ g[k].end = 0
        BY <1>2, <3>4 DEF Nothing
      <4>2. g[k + 1].start = s.t_start /\ g[k + 1].end = s.t_end
        BY <3>2, <4>1
      <4>3. \A j \in 0..(k + 1 - 1) : j = k
        BY <3>4
      <4> QED
        BY <1>3, <3>1, <3>3, <4>2, <4>3 DEF s
    <3>5. CASE k # 0
      <4>1. o <= g[k].start /\ g[k].end <= c /\ g[k].end > 0
        BY <2>2, <3>1, <3>5
      <4>2. /\ g[k + 1].start <= g[k].start /\ g[k + 1].start <= s.t_start /\ o <= g[k + 1].start
            /\ g[k].end <= g[k + 1].end /\ s.t_end <= g[k + 1].end /\ g[k + 1].end <= c
            /\ g[k + 1].start \in Nat /\ g[k + 1].end \in Nat
        BY <1>3, <3>2, <3>3, <4>1
      <4>3. ASSUME NEW j \in 0..(k + 1 - 1)
            PROVE  g[k + 1].start <= thread_stat[j].t_start /\ thread_stat[j].t_end <= g[k + 1].end
        <5>1. CASE j = k
          BY <4>2, <5>1 DEF s
        <5>2. CASE j # k
          <6>1. j \in 0..(k - 1) /\ j \in ThreadsOf(n)
            BY <5>2 DEF ThreadsOf
          <6>2. g[k].start <= thread_stat[j].t_start /\ thread_stat[j].t_end <= g[k].end
            BY <2>2, <6>1
          <6>3. thread_stat[j].t_start \in Nat /\ thread_stat[j].t_end \in Nat
            BY <1>4, <6>1
          <6> QED
            BY <3>2, <4>2, <6>2, <6>3
        <5> QED
          BY <5>1, <5>2
      <4> QED
        BY <1>3, <3>1, <3>2, <4>1, <4>2, <4>3
    <3> QED
      BY <3>4, <3>5
  <2> HIDE DEF T
  <2> QED
    BY <2>1, <2>2, CountUp
<1>6. Covers(n) /\ n > 0
  BY <1>5
<1> QED
  BY <1>2, <1>6 DEF TotalInterval, Threads, ThreadsOf, o, c

-----------------------------------------------------------------------------
(* Every step keeps the invariant.                                         *)

Done(k) == did[k] \in {"waiting", "worked"}

LEMMA Types ==
  ASSUME TypeOK
  PROVE  /\ thread_num \in Nat /\ ThreadsOf(thread_num) = Threads
         /\ \A k \in Threads : thread_stat[k] \in StatType
         /\ spawned \subseteq Threads
<1>1. Cardinality(Cores) \in Nat
  BY BandwidthAssumption, FS_CardinalityType DEF BandwidthAssumption
<1> QED
  BY <1>1 DEF TypeOK, Threads

(* The threads' memory and iterations do not change after the start.       *)
LEMMA RegionsKept ==
  ASSUME TypeOK, RegionInv, UNCHANGED setup,
         \A k \in Threads : /\ thread_stat'[k].t_mem_ptr = thread_stat[k].t_mem_ptr
                            /\ thread_stat'[k].t_mem_size = thread_stat[k].t_mem_size
                            /\ thread_stat'[k].iterations = thread_stat[k].iterations
  PROVE  /\ RegionInv'
         /\ \A k \in Threads : BytesOf(k)' = BytesOf(k)
<1>1. Threads' = Threads /\ spawned' = spawned /\ thread_num' = thread_num
      /\ buf_type' = buf_type /\ g_mem_size' = g_mem_size
  BY DEF Threads, setup
<1>2. Sizes' = Sizes
  BY <1>1 DEF Sizes
<1>3. \A k \in Threads : BytesOf(k)' = BytesOf(k)
  BY DEF BytesOf
<1>4. RegionInv'
  <2>1. ASSUME buf_type = "private"
        PROVE  /\ g_mem_size' = Narrow(RegionEnd(Sizes', thread_num')[thread_num'])
               /\ \A k \in Threads' : thread_stat'[k].t_mem_ptr = RegionEnd(Sizes', thread_num')[k]
    BY <1>1, <1>2, <2>1 DEF RegionInv
  <2>2. ASSUME buf_type = "shared"
        PROVE  \A k \in Threads' : /\ thread_stat'[k].t_mem_ptr = 0
                                   /\ thread_stat'[k].t_mem_size <= g_mem_size'
    BY <1>1, <2>2 DEF RegionInv
  <2> QED
    BY <1>1, <2>1, <2>2 DEF RegionInv
<1> QED
  BY <1>3, <1>4

LEMMA StatKept ==
  ASSUME TypeOK, RegionInv, UNCHANGED <<setup, thread_stat>>
  PROVE  /\ RegionInv'
         /\ \A k \in Threads : BytesOf(k)' = BytesOf(k)
  BY RegionsKept

LEMMA InitHolds == Init => IInv
<1> SUFFICES ASSUME Init PROVE IInv
  OBVIOUS
<1> USE DEF Init
<1>1. Threads = {} /\ ThreadsOf(thread_num) = {}
  BY DEF Threads, ThreadsOf
<1>2. <<>> \in [{} -> StatType] /\ <<>> \in [{} -> {"waiting", "working", "stopping", "worked"}]
  OBVIOUS
<1>3. Cardinality(Cores) \in Nat /\ now \in Nat
  BY BandwidthAssumption, FS_CardinalityType DEF BandwidthAssumption
<1>4. TypeOK
  BY <1>1, <1>2, <1>3, Constants DEF TypeOK, Nothing, IntervalType
<1>5. RegionInv
  <2>1. Sizes \in [ThreadsOf(0) -> Nat]
    BY <1>1 DEF Sizes
  <2>2. RegionEnd(Sizes, thread_num)[thread_num] = 0
    BY <2>1, Ends
  <2>3. Narrow(0) = 0
    BY Narrowed, Constants
  <2> QED
    BY <1>1, <2>2, <2>3 DEF RegionInv
<1>6. WorkInv /\ QuietInv /\ TotalInv
  BY DEF WorkInv, QuietInv, TotalInv, AllSpawned, TotalBytes
<1>7. StampInv
  BY <1>3 DEF StampInv
<1>8. IntervalOfJob /\ BytesOfJob
  BY DEF IntervalOfJob, BytesOfJob, Reported
<1> QED
  BY <1>4, <1>5, <1>6, <1>7, <1>8 DEF IInv

(* What benchmark_init() accepts.                                          *)
LEMMA Accepted ==
  ASSUME NEW req \in Requests, NEW mask, mask \subseteq Cores, NEW n,
         n = ThreadNum(req.threads, mask), Accepts(req, mask)
  PROVE  /\ n \in 1..Cardinality(Cores) /\ req.buffer \in {"shared", "private"}
         /\ \A k \in ThreadsOf(n) : /\ Narrow(Token(req.sizes, k)) \in 1..(HalfInt - 1)
                                    /\ Token(req.iterations, k) \in Nat \ {0}
<1>1. req \in RequestType
  BY BandwidthAssumption DEF BandwidthAssumption
<1>2. req.sizes \in Seq(Int) /\ req.iterations \in Seq(Int)
  BY <1>1 DEF RequestType
<1>3. /\ n \in 1..Cardinality(mask) /\ req.buffer \in {"shared", "private"}
      /\ Enough(req.sizes, n) /\ \A kb \in Tokens(req.sizes, n) : SizeValid(kb)
      /\ Enough(req.iterations, n) /\ \A i \in Tokens(req.iterations, n) : IterationsValid(i)
  BY DEF Accepts
<1>4. n \in 1..Cardinality(Cores) /\ n \in Nat \ {0}
  <2>1. IsFiniteSet(Cores) /\ Cardinality(mask) <= Cardinality(Cores)
        /\ Cardinality(mask) \in Nat /\ Cardinality(Cores) \in Nat
    BY BandwidthAssumption, FS_Subset, FS_CardinalityType DEF BandwidthAssumption
  <2> QED
    BY <1>3, <2>1
<1>5. ASSUME NEW list \in Seq(Int), Enough(list, n), NEW k \in ThreadsOf(n)
      PROVE  Token(list, k) \in Int /\ Token(list, k) \in Tokens(list, n)
  <2>1. Len(list) \in Nat /\ Len(list) >= 1
    <3>1. Len(list) \in Nat /\ n >= 1 /\ n \in Nat
      BY <1>4, <1>5
    <3> QED
      BY <1>5, <3>1 DEF Enough
  <2>2. Token(list, k) \in Int
    BY <2>1, <1>4 DEF Token, ThreadsOf
  <2> QED
    BY <2>2 DEF Tokens
<1>6. ASSUME NEW k \in ThreadsOf(n)
      PROVE  /\ Narrow(Token(req.sizes, k)) \in 1..(HalfInt - 1)
             /\ Token(req.iterations, k) \in Nat \ {0}
  <2>1. Token(req.sizes, k) \in Int /\ SizeValid(Token(req.sizes, k))
    BY <1>2, <1>3, <1>5
  <2>2. Token(req.iterations, k) \in Int /\ IterationsValid(Token(req.iterations, k))
    BY <1>2, <1>3, <1>5
  <2>3. /\ Narrow(Token(req.sizes, k)) \in Int /\ Narrow(Token(req.sizes, k)) < HalfInt
        /\ Narrow(Token(req.sizes, k)) > 0
    BY <2>1, Narrowed DEF SizeValid
  <2> QED
    BY <2>2, <2>3, Constants DEF IterationsValid
<1> QED
  BY <1>3, <1>4, <1>6

LEMMA BenchmarkInitKeeps == ASSUME IInv, BenchmarkInit PROVE IInv'
<1> DEFINE Dealt(req, online, mask) ==
             LET n == ThreadNum(req.threads, mask)
                 size == [k \in ThreadsOf(n) |-> Narrow(Token(req.sizes, k))]
             IN /\ mask # {} /\ Accepts(req, mask)
                /\ GlobalSize(req.buffer, size, n) >= 0
                /\ buf_type' = req.buffer /\ thread_num' = n
                /\ g_mem_size' = GlobalSize(req.buffer, size, n)
                /\ thread_stat' = [k \in ThreadsOf(n) |->
                     [t_mem_ptr |-> RegionStart(req.buffer, size, n, k), t_mem_size |-> size[k],
                      iterations |-> Token(req.iterations, k), passes |-> 0,
                      nread |-> 0, t_start |-> 0, t_end |-> 0]]
                /\ spawned' = Spawned(n, mask, online)
                /\ did' = [k \in spawned' |-> "waiting"]
                /\ data' = [k \in 0..n |-> Nothing]
<1>0. \E req \in Requests, online \in SUBSET Cores : \E mask \in SUBSET online : Dealt(req, online, mask)
  BY DEF BenchmarkInit
<1>1. PICK req \in Requests, online \in SUBSET Cores, mask \in SUBSET Cores :
        mask \subseteq online /\ Dealt(req, online, mask)
  <2> HIDE DEF Dealt
  <2> QED
    BY <1>0
<1> DEFINE n == ThreadNum(req.threads, mask)
           size == [k \in ThreadsOf(n) |-> Narrow(Token(req.sizes, k))]
           R == RegionEnd(size, n)
<1>2. /\ Accepts(req, mask) /\ buf_type' = req.buffer /\ thread_num' = n
      /\ g_mem_size' = GlobalSize(req.buffer, size, n) /\ GlobalSize(req.buffer, size, n) >= 0
      /\ thread_stat' = [k \in ThreadsOf(n) |->
           [t_mem_ptr |-> RegionStart(req.buffer, size, n, k), t_mem_size |-> size[k],
            iterations |-> Token(req.iterations, k), passes |-> 0,
            nread |-> 0, t_start |-> 0, t_end |-> 0]]
      /\ spawned' = Spawned(n, mask, online)
      /\ did' = [k \in spawned' |-> "waiting"]
      /\ data' = [k \in 0..n |-> Nothing]
  BY <1>1
<1>3. /\ phase = "init" /\ phase' = "ready" /\ total' = total /\ now' = now
      /\ opened' = opened /\ closed' = closed /\ jobs' = jobs /\ jobs = 0
  BY DEF BenchmarkInit, IInv, QuietInv
<1>4. /\ n \in 1..Cardinality(Cores) /\ req.buffer \in {"shared", "private"}
      /\ \A k \in ThreadsOf(n) : /\ Narrow(Token(req.sizes, k)) \in 1..(HalfInt - 1)
                                 /\ Token(req.iterations, k) \in Nat \ {0}
  <2>1. mask \subseteq Cores
    OBVIOUS
  <2> QED
    BY <1>2, <2>1, Accepted
<1>5. Cardinality(Cores) \in Nat
  BY BandwidthAssumption, FS_CardinalityType DEF BandwidthAssumption
<1>6. n \in Nat \ {0}
  <2> HIDE DEF n
  <2> QED
    BY <1>4, <1>5
<1>7. size \in [ThreadsOf(n) -> 1..(HalfInt - 1)]
  <2> HIDE DEF n
  <2> QED
    BY <1>4
<1>8. spawned' \subseteq ThreadsOf(n)
  <2> DEFINE C == {c \in mask : c < Cardinality(online)}
  <2>1. C \subseteq Cores /\ IsFiniteSet(Cores)
    BY BandwidthAssumption DEF BandwidthAssumption
  <2>2. Cardinality(C) \in Nat
    <3> HIDE DEF C
    <3> QED
      BY <2>1, FS_Subset, FS_CardinalityType
  <2>3. spawned' = ThreadsOf(MinOf(n, Cardinality(C)))
    BY <1>2 DEF Spawned
  <2> HIDE DEF n, C
  <2> QED
    BY <1>6, <2>2, <2>3 DEF MinOf, ThreadsOf
<1> HIDE DEF n, size
<1>9. size \in [ThreadsOf(n) -> Nat] /\ size \in [ThreadsOf(n) -> 0..(HalfInt - 1)]
      /\ HalfInt - 1 \in Nat
  BY <1>7, Constants
<1>10. R \in [0..n -> Nat]
  BY <1>6, <1>9, Ends
<1>11. /\ Largest(size, n) \in 0..(HalfInt - 1)
       /\ \A k \in ThreadsOf(n) : size[k] <= Largest(size, n)
  BY <1>6, <1>9, LargestSize
<1>12. /\ req.buffer = "private" => GlobalSize(req.buffer, size, n) = Narrow(R[n])
       /\ req.buffer = "shared" => GlobalSize(req.buffer, size, n) = Largest(size, n)
       /\ \A k \in ThreadsOf(n) : /\ req.buffer = "private" => RegionStart(req.buffer, size, n, k) = R[k]
                                  /\ req.buffer = "shared" => RegionStart(req.buffer, size, n, k) = 0
  BY DEF GlobalSize, RegionStart
<1>13. g_mem_size' \in 0..(HalfInt - 1)
  <2>1. R[n] \in Int /\ Narrow(R[n]) \in Int /\ Narrow(R[n]) < HalfInt
    <3>1. n \in 0..n
      BY <1>6
    <3>2. R[n] \in Int
      <4> HIDE DEF R
      <4> QED
        BY <1>10, <3>1
    <3> HIDE DEF R
    <3> QED
      BY <3>2, Narrowed
  <2> HIDE DEF R
  <2>2. CASE req.buffer = "private"
    BY <1>2, <1>12, <2>1, <2>2, Constants
  <2>3. CASE req.buffer = "shared"
    BY <1>2, <1>11, <1>12, <2>3
  <2> QED
    BY <1>4, <2>2, <2>3
<1>14. \A k \in ThreadsOf(n) : RegionStart(req.buffer, size, n, k) \in Nat
  <2>1. \A k \in ThreadsOf(n) : k \in 0..n
    BY <1>6 DEF ThreadsOf
  <2> HIDE DEF R
  <2> QED
    BY <1>4, <1>10, <1>12, <2>1
<1>15. Threads' = ThreadsOf(n)
  BY <1>2 DEF Threads
<1>16. thread_stat' \in [Threads' -> StatType]
  <2>1. 0 \in 0..(ClockRange - 1) /\ 0 \in Nat
    BY Constants
  <2>2. \A k \in ThreadsOf(n) : size[k] \in Nat \ {0}
    BY <1>7
  <2>3. ASSUME NEW k \in ThreadsOf(n)
        PROVE  [t_mem_ptr |-> RegionStart(req.buffer, size, n, k), t_mem_size |-> size[k],
                iterations |-> Token(req.iterations, k), passes |-> 0,
                nread |-> 0, t_start |-> 0, t_end |-> 0] \in StatType
    BY <1>4, <1>14, <2>1, <2>2 DEF StatType
  <2> QED
    BY <1>2, <1>15, <2>3
<1>17. data' \in [0..n -> IntervalType] /\ data' # <<>>
  <2>1. Nothing \in IntervalType
    BY DEF Nothing, IntervalType
  <2>2. 0 \in DOMAIN data'
    BY <1>2, <1>6
  <2>3. 0 \notin DOMAIN << >>
    OBVIOUS
  <2> QED
    BY <1>2, <2>1, <2>2, <2>3
<1>18. TypeOK'
  <2>1. TypeOK
    BY DEF IInv
  <2>2. did' \in [spawned' -> {"waiting", "working", "stopping", "worked"}]
    BY <1>2
  <2>3. /\ phase' = "ready" /\ buf_type' \in {"shared", "private"}
        /\ thread_num' \in 0..Cardinality(Cores) /\ ThreadsOf(thread_num') = ThreadsOf(n)
        /\ data' \in [0..thread_num' -> IntervalType]
    BY <1>2, <1>3, <1>4, <1>5, <1>17
  <2> QED
    BY <1>3, <1>8, <1>13, <1>15, <1>16, <2>1, <2>2, <2>3 DEF TypeOK, Threads
<1>19. Sizes' = size
  <2>1. \A k \in ThreadsOf(n) : thread_stat'[k].t_mem_size = size[k]
    BY <1>2
  <2> QED
    BY <1>9, <1>15, <2>1 DEF Sizes
<1>20. RegionInv'
  <2> HIDE DEF R
  <2>1. ASSUME buf_type' = "private"
        PROVE  /\ g_mem_size' = Narrow(R[n])
               /\ \A k \in ThreadsOf(n) : thread_stat'[k].t_mem_ptr = R[k]
    BY <1>2, <1>12, <2>1
  <2>2. ASSUME buf_type' = "shared"
        PROVE  \A k \in ThreadsOf(n) : thread_stat'[k].t_mem_ptr = 0 /\ thread_stat'[k].t_mem_size <= g_mem_size'
    BY <1>2, <1>11, <1>12, <2>2
  <2> QED
    BY <1>2, <1>15, <1>19, <2>1, <2>2 DEF RegionInv, R
<1>21. WorkInv' /\ TotalInv' /\ StampInv'
  BY <1>2, <1>3 DEF WorkInv, TotalInv, IInv, StampInv
<1>22. QuietInv'
  BY <1>2, <1>3, <1>17 DEF QuietInv
<1>23. IntervalOfJob' /\ BytesOfJob'
  BY <1>3 DEF IntervalOfJob, BytesOfJob, Reported
<1> QED
  BY <1>18, <1>20, <1>21, <1>22, <1>23 DEF IInv

(* A thread's step in a job: its own statistics, and what it has reached.  *)
LEMMA ThreadStep ==
  ASSUME IInv, NEW k \in spawned, NEW s \in StatType,
         NEW d \in {"waiting", "working", "stopping", "worked"},
         phase \in {"open", "quitting"},
         s.t_mem_ptr = thread_stat[k].t_mem_ptr, s.t_mem_size = thread_stat[k].t_mem_size,
         s.iterations = thread_stat[k].iterations,
         thread_stat' = [thread_stat EXCEPT ![k] = s], did' = [did EXCEPT ![k] = d],
         UNCHANGED <<phase, setup, total, data, now, opened, closed, jobs>>,
         d = "working" => s.passes < s.iterations /\ s.nread = s.passes * s.t_mem_size,
         d \in {"stopping", "worked"} => s.nread = s.iterations * s.t_mem_size,
         phase = "open" /\ ~Turned(now) => /\ d # "waiting" => Started(s, now)
                                           /\ d = "worked" => Stopped(s, now)
  PROVE  IInv'
<1>1. TypeOK /\ RegionInv /\ WorkInv /\ QuietInv /\ StampInv /\ TotalInv
  BY DEF IInv
<1>2. /\ thread_num \in Nat /\ ThreadsOf(thread_num) = Threads
      /\ \A j \in Threads : thread_stat[j] \in StatType
      /\ spawned \subseteq Threads /\ k \in Threads
  BY <1>1, Types
<1>3. thread_stat \in [Threads -> StatType]
      /\ did \in [spawned -> {"waiting", "working", "stopping", "worked"}]
  BY <1>1, <1>2 DEF TypeOK
<1>4. /\ thread_stat'[k] = s /\ did'[k] = d
      /\ \A j \in Threads : j # k => thread_stat'[j] = thread_stat[j]
      /\ \A j \in spawned : j # k => did'[j] = did[j]
  BY <1>2, <1>3
<1>5. /\ phase' = phase /\ total' = total /\ data' = data /\ now' = now /\ opened' = opened
      /\ closed' = closed /\ jobs' = jobs /\ spawned' = spawned /\ thread_num' = thread_num
      /\ buf_type' = buf_type /\ g_mem_size' = g_mem_size /\ Threads' = Threads
  BY DEF setup, Threads
<1>6. TypeOK'
  <2>1. thread_stat' \in [Threads -> StatType]
    BY <1>3
  <2>2. did' \in [spawned -> {"waiting", "working", "stopping", "worked"}]
    BY <1>3
  <2> QED
    BY <1>1, <1>2, <1>5, <2>1, <2>2 DEF TypeOK
<1>7. RegionInv' /\ \A j \in Threads : BytesOf(j)' = BytesOf(j)
  <2>1. \A j \in Threads : /\ thread_stat'[j].t_mem_ptr = thread_stat[j].t_mem_ptr
                           /\ thread_stat'[j].t_mem_size = thread_stat[j].t_mem_size
                           /\ thread_stat'[j].iterations = thread_stat[j].iterations
    BY <1>4
  <2>2. UNCHANGED setup
    OBVIOUS
  <2> QED
    BY <1>1, <2>1, <2>2, RegionsKept
<1>8. WorkInv'
  <2> SUFFICES ASSUME NEW j \in spawned
               PROVE  /\ did'[j] = "working" =>
                           /\ thread_stat'[j].passes < thread_stat'[j].iterations
                           /\ thread_stat'[j].nread = thread_stat'[j].passes * thread_stat'[j].t_mem_size
                      /\ did'[j] \in {"stopping", "worked"} => thread_stat'[j].nread = BytesOf(j)'
    BY <1>5 DEF WorkInv
  <2>1. CASE j = k
    <3>1. BytesOf(j)' = s.iterations * s.t_mem_size
      BY <1>4, <2>1 DEF BytesOf
    <3> QED
      BY <1>4, <2>1, <3>1
  <2>2. CASE j # k
    <3>1. thread_stat'[j] = thread_stat[j] /\ did'[j] = did[j] /\ BytesOf(j)' = BytesOf(j)
      BY <1>2, <1>4, <1>7, <2>2
    <3> QED
      BY <1>1, <3>1 DEF WorkInv
  <2> QED
    BY <2>1, <2>2
<1>9. QuietInv'
  BY <1>1, <1>5 DEF QuietInv
<1>10. StampInv'
  <2>1. /\ Turned(now)' = Turned(now) /\ phase' \notin {"adding", "logging"} /\ opened' <= now'
    BY <1>1, <1>5 DEF Turned, StampInv
  <2>2. ASSUME phase = "open", ~Turned(now), NEW j \in spawned
        PROVE  /\ did'[j] # "waiting" => Started(thread_stat'[j], now)
               /\ did'[j] = "worked" => Stopped(thread_stat'[j], now)
    <3>1. CASE j = k
      BY <1>4, <2>2, <3>1
    <3>2. CASE j # k
      <4>1. thread_stat'[j] = thread_stat[j] /\ did'[j] = did[j]
        BY <1>2, <1>4, <3>2
      <4> QED
        BY <1>1, <2>2, <4>1 DEF StampInv
    <3> QED
      BY <3>1, <3>2
  <2>3. \A j : /\ Started(thread_stat[j], now)' <=> Started(thread_stat'[j], now)
               /\ Stopped(thread_stat[j], now)' <=> Stopped(thread_stat'[j], now)
    BY <1>5 DEF Started, Stopped
  <2> QED
    BY <1>5, <2>1, <2>2, <2>3 DEF StampInv
<1>11. TotalInv'
  BY <1>1, <1>5 DEF TotalInv
<1>12. IntervalOfJob' /\ BytesOfJob'
  BY <1>5 DEF IntervalOfJob, BytesOfJob, Reported
<1> QED
  BY <1>6, <1>7, <1>8, <1>9, <1>10, <1>11, <1>12 DEF IInv

(* What a thread at work relies on.                                        *)
LEMMA AtWork ==
  ASSUME IInv, NEW k \in spawned, did[k] # "waiting", did[k] # "worked" \/ phase = "open"
  PROVE  /\ phase \in {"open", "quitting"} /\ thread_stat[k] \in StatType
         /\ phase = "open" /\ ~Turned(now) => Started(thread_stat[k], now)
         /\ now \in Nat /\ Usecs \in 0..(ClockRange - 1)
<1>1. TypeOK /\ QuietInv /\ StampInv
  BY DEF IInv
<1>2. thread_stat[k] \in StatType /\ now \in Nat
  <2>1. now \in Nat
    BY <1>1 DEF TypeOK
  <2> QED
    BY <1>1, <2>1, Types
<1>3. phase \in {"open", "quitting"}
  BY <1>1 DEF QuietInv
<1>4. Usecs \in 0..(ClockRange - 1)
  BY <1>2, ClockReads DEF Usecs
<1> QED
  BY <1>1, <1>2, <1>3, <1>4 DEF StampInv

(* The clock's reading, within a turn.                                     *)
LEMMA OpenedBefore ==
  ASSUME IInv, ~Turned(now)
  PROVE  opened % ClockRange <= now % ClockRange
<1>1. opened \in Nat /\ now \in Nat /\ opened <= now /\ opened \div ClockRange = now \div ClockRange
  BY DEF IInv, TypeOK, StampInv, Turned
<1> QED
  BY <1>1, SameTurn, Constants

LEMMA StartWorkKeeps == ASSUME IInv, NEW k \in spawned, StartWork(k) PROVE IInv'
<1> DEFINE s == StartStat(thread_stat[k])
<1>1. TypeOK /\ now \in Nat
  BY DEF IInv, TypeOK
<1>2. thread_stat[k] \in StatType /\ thread_stat \in [Threads -> StatType] /\ k \in Threads
  BY <1>1, Types DEF TypeOK
<1>3. Usecs \in 0..(ClockRange - 1) /\ 0 \in 0..(ClockRange - 1)
  BY <1>1, ClockReads, Constants DEF Usecs
<1>4. /\ s \in StatType /\ s.t_mem_ptr = thread_stat[k].t_mem_ptr
      /\ s.t_mem_size = thread_stat[k].t_mem_size /\ s.iterations = thread_stat[k].iterations
      /\ s.passes = 0 /\ s.nread = 0 /\ s.t_start = Usecs
  BY <1>2, <1>3 DEF StartStat, StatType
<1>5. s.iterations \in Nat \ {0} /\ s.t_mem_size \in Nat
  BY <1>4 DEF StatType
<1>6. s.passes < s.iterations /\ s.nread = s.passes * s.t_mem_size
  BY <1>4, <1>5
<1>7. ~Turned(now) => Started(s, now)
  <2>1. Usecs <= now % ClockRange
    BY <1>3 DEF Usecs
  <2> QED
    BY <1>4, <2>1, OpenedBefore DEF Started, Usecs
<1>8. /\ phase = "open" /\ thread_stat' = [thread_stat EXCEPT ![k] = s]
      /\ did' = [did EXCEPT ![k] = "working"]
      /\ UNCHANGED <<phase, setup, total, data, now, opened, closed, jobs>>
  BY DEF StartWork
<1> HIDE DEF s
<1> QED
  BY <1>4, <1>6, <1>7, <1>8, ThreadStep

LEMMA PassKeeps == ASSUME IInv, NEW k \in spawned, Pass(k) PROVE IInv'
<1> DEFINE t == thread_stat[k]
           s == [t EXCEPT !.passes = @ + 1, !.nread = @ + t.t_mem_size]
           d == IF s.passes >= t.iterations THEN "stopping" ELSE "working"
<1>1. did[k] = "working" /\ TypeOK /\ WorkInv
  BY DEF Pass, IInv
<1>2. /\ phase \in {"open", "quitting"} /\ t \in StatType
      /\ phase = "open" /\ ~Turned(now) => Started(t, now)
  BY <1>1, AtWork
<1>3. k \in Threads /\ thread_stat \in [Threads -> StatType]
  BY <1>1, Types DEF TypeOK
<1>4. /\ t.passes \in Nat /\ t.nread \in Nat /\ t.t_mem_size \in Nat \ {0} /\ t.iterations \in Nat \ {0}
      /\ t.passes < t.iterations /\ t.nread = t.passes * t.t_mem_size
  BY <1>1, <1>2 DEF StatType, WorkInv
<1>5. /\ s \in StatType /\ s.t_mem_ptr = t.t_mem_ptr
      /\ s.t_mem_size = t.t_mem_size /\ s.iterations = t.iterations
      /\ s.passes = t.passes + 1 /\ s.nread = t.nread + t.t_mem_size
      /\ s.t_start = t.t_start /\ s.t_end = t.t_end
  <2>1. t.passes + 1 \in Nat /\ t.nread + t.t_mem_size \in Nat
    BY <1>4
  <2> HIDE DEF t
  <2> QED
    BY <1>2, <2>1 DEF StatType
<1>6. s.nread = s.passes * s.t_mem_size
  <2>1. \A a, b \in Nat : a * b + b = (a + 1) * b
    OBVIOUS
  <2> HIDE DEF s, t
  <2> QED
    BY <1>4, <1>5, <2>1
<1>7. /\ thread_stat' = [thread_stat EXCEPT ![k] = s] /\ did' = [did EXCEPT ![k] = d]
      /\ UNCHANGED <<phase, setup, total, data, now, opened, closed, jobs>>
  <2>1. thread_stat' = [thread_stat EXCEPT ![k] = s]
    BY <1>3 DEF Pass
  <2>2. thread_stat'[k].passes = s.passes
    BY <1>3, <2>1
  <2> QED
    BY <2>1, <2>2 DEF Pass
<1>8. /\ d = "working" => s.passes < s.iterations
      /\ d # "working" => s.passes = s.iterations
      /\ d \in {"working", "stopping"}
  <2> HIDE DEF s, t
  <2> QED
    BY <1>4, <1>5
<1>9. phase = "open" /\ ~Turned(now) => Started(s, now)
  <2> HIDE DEF s, t
  <2> QED
    BY <1>2, <1>5 DEF Started
<1> HIDE DEF s, t, d
<1>10. /\ s.t_mem_ptr = thread_stat[k].t_mem_ptr /\ s.t_mem_size = thread_stat[k].t_mem_size
       /\ s.iterations = thread_stat[k].iterations
  BY <1>5 DEF t
<1>11. d \in {"stopping", "worked"} => s.nread = s.iterations * s.t_mem_size
  BY <1>6, <1>8
<1> QED
  BY <1>2, <1>5, <1>6, <1>7, <1>8, <1>9, <1>10, <1>11, ThreadStep

LEMMA StopWorkKeeps == ASSUME IInv, NEW k \in spawned, StopWork(k) PROVE IInv'
<1> DEFINE t == thread_stat[k]
           s == [t EXCEPT !.t_end = Usecs]
<1>1. did[k] = "stopping" /\ TypeOK /\ WorkInv
  BY DEF StopWork, IInv
<1>2. /\ phase \in {"open", "quitting"} /\ t \in StatType
      /\ phase = "open" /\ ~Turned(now) => Started(t, now)
      /\ Usecs \in 0..(ClockRange - 1)
  BY <1>1, AtWork
<1>3. k \in Threads /\ thread_stat \in [Threads -> StatType]
  BY <1>1, Types DEF TypeOK
<1>4. /\ s \in StatType /\ s.t_mem_ptr = t.t_mem_ptr
      /\ s.t_mem_size = t.t_mem_size /\ s.iterations = t.iterations
      /\ s.nread = t.nread /\ s.t_start = t.t_start /\ s.t_end = Usecs
  <2> HIDE DEF t
  <2> QED
    BY <1>2 DEF StatType
<1>5. s.nread = s.iterations * s.t_mem_size
  <2>1. t.nread = t.iterations * t.t_mem_size
    BY <1>1 DEF WorkInv, BytesOf
  <2> HIDE DEF s, t
  <2> QED
    BY <1>4, <2>1
<1>6. phase = "open" /\ ~Turned(now) => Started(s, now) /\ Stopped(s, now)
  <2>1. Usecs <= now % ClockRange /\ Usecs = now % ClockRange
    BY <1>2 DEF Usecs
  <2> HIDE DEF s, t
  <2> QED
    BY <1>2, <1>4, <2>1 DEF Started, Stopped
<1>7. /\ thread_stat' = [thread_stat EXCEPT ![k] = s] /\ did' = [did EXCEPT ![k] = "worked"]
      /\ UNCHANGED <<phase, setup, total, data, now, opened, closed, jobs>>
  BY <1>3 DEF StopWork
<1> HIDE DEF s
<1> QED
  BY <1>2, <1>4, <1>5, <1>6, <1>7, ThreadStep

(* A step of the main thread leaves the threads' work as it is.            *)
LEMMA MainStep ==
  ASSUME IInv, UNCHANGED <<setup, thread_stat, did>>
  PROVE  /\ RegionInv' /\ WorkInv' /\ Threads' = Threads /\ spawned' = spawned
         /\ thread_num' = thread_num /\ buf_type' = buf_type /\ g_mem_size' = g_mem_size
         /\ \A k \in Threads : BytesOf(k)' = BytesOf(k)
<1>1. /\ Threads' = Threads /\ spawned' = spawned /\ thread_num' = thread_num
      /\ buf_type' = buf_type /\ g_mem_size' = g_mem_size
  BY DEF setup, Threads
<1>2. RegionInv' /\ \A k \in Threads : BytesOf(k)' = BytesOf(k)
  BY StatKept DEF IInv
<1>3. spawned \subseteq Threads
  BY Types DEF IInv
<1>4. WorkInv'
  BY <1>1, <1>2, <1>3 DEF IInv, WorkInv
<1> QED
  BY <1>1, <1>2, <1>4

LEMMA RestKeeps == ASSUME IInv, NEW k \in spawned, Rest(k) PROVE IInv'
<1>1. TypeOK /\ RegionInv /\ WorkInv /\ QuietInv /\ StampInv /\ TotalInv /\ IntervalOfJob /\ BytesOfJob
  BY DEF IInv
<1>2. /\ phase # "open" /\ phase' = phase /\ total' = total /\ data' = data /\ now' = now
      /\ opened' = opened /\ closed' = closed /\ jobs' = jobs /\ spawned' = spawned
      /\ thread_num' = thread_num /\ buf_type' = buf_type /\ g_mem_size' = g_mem_size
      /\ Threads' = Threads /\ thread_stat' = thread_stat
  BY DEF Rest, setup, Threads
<1>3. /\ did' \in [spawned -> {"waiting", "working", "stopping", "worked"}] /\ did'[k] = "waiting"
      /\ \A j \in spawned : j # k => did'[j] = did[j]
  BY <1>1 DEF Rest, TypeOK
<1>4. TypeOK'
  BY <1>1, <1>2, <1>3 DEF TypeOK
<1>5. RegionInv' /\ \A j \in Threads : BytesOf(j)' = BytesOf(j)
  BY <1>1, StatKept DEF Rest
<1>6. spawned \subseteq Threads
  BY <1>1, Types
<1>7. WorkInv'
  BY <1>1, <1>2, <1>3, <1>5, <1>6 DEF WorkInv
<1>8. QuietInv'
  BY <1>1, <1>2, <1>3 DEF QuietInv
<1>9. StampInv'
  <2>2. Turned(closed)' = Turned(closed)
    BY <1>2 DEF Turned
  <2>3. \A j \in spawned : Stopped(thread_stat[j], closed)' <=> Stopped(thread_stat[j], closed)
    BY <1>2 DEF Stopped, Started
  <2> QED
    BY <1>1, <1>2, <1>5, <1>6, <2>2, <2>3 DEF StampInv
<1>10. TotalInv'
  BY <1>1, <1>2 DEF TotalInv, AllSpawned, TotalBytes, TotalInterval, ClockSteady, BytesOf
<1>11. IntervalOfJob' /\ BytesOfJob'
  BY <1>1, <1>2 DEF IntervalOfJob, BytesOfJob, Reported, AllSpawned, ClockSteady
<1> QED
  BY <1>4, <1>5, <1>7, <1>8, <1>9, <1>10, <1>11 DEF IInv

LEMMA BeginJobKeeps == ASSUME IInv, BeginJob PROVE IInv'
<1>1. /\ RegionInv' /\ WorkInv' /\ spawned' = spawned /\ thread_num' = thread_num
      /\ buf_type' = buf_type /\ g_mem_size' = g_mem_size
  BY MainStep DEF BeginJob
<1>2. /\ phase = "ready" /\ jobs < MaxJobs /\ phase' = "starting" /\ total' = Nothing
      /\ thread_stat' = thread_stat /\ did' = did /\ data' = data /\ now' = now
      /\ opened' = opened /\ closed' = closed /\ jobs' = jobs
  BY DEF BeginJob, Cleared
<1>3. TypeOK'
  <2>1. Nothing \in IntervalType
    BY DEF Nothing, IntervalType
  <2> QED
    BY <1>1, <1>2, <2>1 DEF IInv, TypeOK
<1>4. QuietInv' /\ StampInv' /\ TotalInv'
  BY <1>1, <1>2 DEF IInv, QuietInv, StampInv, TotalInv
<1>5. IntervalOfJob' /\ BytesOfJob'
  BY <1>2 DEF IntervalOfJob, BytesOfJob, Reported
<1> QED
  BY <1>1, <1>3, <1>4, <1>5 DEF IInv

LEMMA OpenJobKeeps == ASSUME IInv, OpenJob PROVE IInv'
<1>1. /\ RegionInv' /\ WorkInv' /\ spawned' = spawned /\ thread_num' = thread_num
      /\ buf_type' = buf_type /\ g_mem_size' = g_mem_size
  BY MainStep DEF OpenJob
<1>2. /\ phase = "starting" /\ spawned # {} /\ phase' = "open" /\ opened' = now
      /\ \A k \in spawned : did[k] = "waiting"
      /\ thread_stat' = thread_stat /\ did' = did /\ data' = data /\ now' = now
      /\ total' = total /\ closed' = closed /\ jobs' = jobs
  BY DEF OpenJob
<1>3. TypeOK'
  BY <1>1, <1>2 DEF IInv, TypeOK
<1>4. QuietInv' /\ TotalInv'
  BY <1>1, <1>2 DEF IInv, QuietInv, TotalInv
<1>5. StampInv'
  <2>1. now \in Nat
    BY DEF IInv, TypeOK
  <2> QED
    BY <1>1, <1>2, <2>1 DEF StampInv
<1>6. IntervalOfJob' /\ BytesOfJob'
  BY <1>2 DEF IntervalOfJob, BytesOfJob, Reported
<1> QED
  BY <1>1, <1>3, <1>4, <1>5, <1>6 DEF IInv

LEMMA CloseJobKeeps == ASSUME IInv, CloseJob PROVE IInv'
<1>1. /\ RegionInv' /\ WorkInv' /\ spawned' = spawned /\ thread_num' = thread_num
      /\ buf_type' = buf_type /\ g_mem_size' = g_mem_size
      /\ \A k \in Threads : BytesOf(k)' = BytesOf(k)
  BY MainStep DEF CloseJob
<1>2. /\ phase = "open" /\ phase' = "adding" /\ closed' = now
      /\ \A k \in spawned : did[k] = "worked"
      /\ thread_stat' = thread_stat /\ did' = did /\ data' = data /\ now' = now
      /\ total' = total /\ opened' = opened /\ jobs' = jobs
  BY DEF CloseJob
<1>3. TypeOK'
  BY <1>1, <1>2 DEF IInv, TypeOK
<1>4. QuietInv' /\ TotalInv'
  BY <1>1, <1>2 DEF IInv, QuietInv, TotalInv
<1>5. StampInv'
  <2>1. spawned \subseteq Threads
    BY Types DEF IInv
  <2>2. ASSUME NEW k \in spawned
        PROVE  /\ thread_stat'[k].nread = BytesOf(k)'
               /\ ~Turned(now) => Stopped(thread_stat[k], now)
    BY <1>1, <1>2, <2>1 DEF IInv, WorkInv, StampInv
  <2>3. Turned(closed)' = Turned(now)
        /\ \A k \in spawned : Stopped(thread_stat[k], closed)' <=> Stopped(thread_stat[k], now)
    BY <1>2 DEF Turned, Stopped, Started
  <2>4. opened' <= now'
    BY <1>2 DEF IInv, StampInv
  <2> QED
    BY <1>1, <1>2, <2>2, <2>3, <2>4 DEF StampInv
<1>6. IntervalOfJob' /\ BytesOfJob'
  BY <1>2 DEF IntervalOfJob, BytesOfJob, Reported
<1> QED
  BY <1>1, <1>3, <1>4, <1>5, <1>6 DEF IInv

LEMMA AddUpKeeps == ASSUME IInv, AddUp PROVE IInv'
<1>1. /\ RegionInv' /\ WorkInv' /\ Threads' = Threads /\ spawned' = spawned /\ thread_num' = thread_num
      /\ buf_type' = buf_type /\ g_mem_size' = g_mem_size
      /\ \A k \in Threads : BytesOf(k)' = BytesOf(k)
  BY MainStep DEF AddUp
<1>2. /\ phase = "adding" /\ phase' = "logging" /\ total' = AddedUp
      /\ thread_stat' = thread_stat /\ did' = did /\ data' = data /\ now' = now
      /\ closed' = closed /\ opened' = opened /\ jobs' = jobs
  BY DEF AddUp
<1>3. TypeOK /\ spawned # {} /\ total = Nothing
  BY <1>2 DEF IInv, QuietInv, TotalInv
<1>4. thread_num \in Nat /\ thread_stat \in [Threads -> StatType] /\ spawned \subseteq Threads
  BY <1>3, Types DEF TypeOK
<1>5. \A k \in spawned : /\ thread_stat[k].nread = BytesOf(k)
                         /\ ~Turned(closed) => Stopped(thread_stat[k], closed)
  BY <1>2 DEF IInv, StampInv
<1>6. AddedUp \in IntervalType
  <2>1. PICK g : Adds(g)
    BY <1>3, <1>4, AddedSums
  <2>2. thread_num \in 0..thread_num
    BY <1>4
  <2> HIDE DEF IntervalType
  <2> QED
    BY <2>1, <2>2 DEF Adds
<1>7. TypeOK'
  BY <1>1, <1>2, <1>3, <1>6 DEF TypeOK
<1>8. QuietInv'
  BY <1>1, <1>2 DEF IInv, QuietInv
<1>9. StampInv'
  <2>1. Turned(closed)' = Turned(closed)
        /\ \A k \in spawned : Stopped(thread_stat[k], closed)' <=> Stopped(thread_stat[k], closed)
    BY <1>2 DEF Turned, Stopped, Started
  <2>2. opened' <= now'
    BY <1>2 DEF IInv, StampInv
  <2> QED
    BY <1>1, <1>2, <1>4, <1>5, <2>1, <2>2 DEF StampInv
<1>10. AllSpawned => TotalBytes(AddedUp)
  BY <1>3, <1>4, <1>5, BytesAdded
<1>11. AllSpawned /\ ClockSteady => TotalInterval(AddedUp)
  <2> SUFFICES ASSUME AllSpawned, ClockSteady PROVE TotalInterval(AddedUp)
    OBVIOUS
  <2>1. spawned = Threads
    BY DEF AllSpawned, Threads
  <2>2. thread_num # 0
    BY <1>3, <2>1 DEF Threads, ThreadsOf
  <2>3. \A k \in Threads : Stopped(thread_stat[k], closed)
    BY <1>5, <2>1 DEF ClockSteady, Turned
  <2>4. opened \in Nat /\ closed \in Nat /\ opened % ClockRange > 0
    BY <1>3 DEF TypeOK, ClockSteady
  <2> QED
    BY <1>3, <1>4, <2>2, <2>3, <2>4, IntervalAdded
<1>12. TotalInv'
  <2>1. /\ AllSpawned' = AllSpawned /\ ClockSteady' = ClockSteady
        /\ TotalInterval(total)' <=> TotalInterval(AddedUp)
    BY <1>1, <1>2 DEF AllSpawned, ClockSteady, TotalInterval
  <2>2. TotalBytes(total)' <=> TotalBytes(AddedUp)
    BY <1>1, <1>2, <1>4 DEF TotalBytes, BytesOf
  <2> QED
    BY <1>2, <1>10, <1>11, <2>1, <2>2 DEF TotalInv
<1>13. IntervalOfJob' /\ BytesOfJob'
  BY <1>2 DEF IntervalOfJob, BytesOfJob, Reported
<1> QED
  BY <1>1, <1>7, <1>8, <1>9, <1>12, <1>13 DEF IInv

LEMMA LogDataKeeps == ASSUME IInv, LogData PROVE IInv'
<1>1. /\ RegionInv' /\ WorkInv' /\ Threads' = Threads /\ spawned' = spawned /\ thread_num' = thread_num
      /\ buf_type' = buf_type /\ g_mem_size' = g_mem_size
      /\ \A k \in Threads : BytesOf(k)' = BytesOf(k)
  BY MainStep DEF LogData
<1>2. /\ phase = "logging" /\ phase' = "ready" /\ total' = total /\ jobs' = jobs + 1
      /\ thread_stat' = thread_stat /\ did' = did /\ now' = now
      /\ closed' = closed /\ opened' = opened
      /\ data' = [k \in 0..thread_num |->
                    IF k = 0 THEN total
                    ELSE [start |-> thread_stat[k - 1].t_start, end |-> thread_stat[k - 1].t_end,
                          nread |-> thread_stat[k - 1].nread]]
  BY DEF LogData
<1>3. TypeOK /\ QuietInv /\ StampInv /\ TotalInv
  BY DEF IInv
<1>4. /\ thread_num \in Nat /\ \A k \in Threads : thread_stat[k] \in StatType
      /\ spawned \subseteq Threads /\ total \in IntervalType
  BY <1>3, Types DEF TypeOK
<1>5. \A k \in Threads : /\ thread_stat[k].t_start \in Nat /\ thread_stat[k].t_end \in Nat
                         /\ thread_stat[k].nread \in Nat
  BY <1>4 DEF StatType
<1> DEFINE Row(k) == [start |-> thread_stat[k].t_start, end |-> thread_stat[k].t_end,
                      nread |-> thread_stat[k].nread]
<1>6. /\ data'[0] = total /\ DOMAIN data' = 0..thread_num
      /\ \A k \in 1..thread_num : k - 1 \in Threads /\ data'[k] = Row(k - 1)
  BY <1>2, <1>4 DEF Threads, ThreadsOf
<1>7. \A k \in Threads : /\ Row(k) \in IntervalType /\ Row(k).nread = thread_stat[k].nread
                          /\ Row(k).start = thread_stat[k].t_start /\ Row(k).end = thread_stat[k].t_end
  BY <1>5 DEF IntervalType
<1> HIDE DEF Row
<1>8. data' \in [0..thread_num -> IntervalType] /\ data' # <<>>
  <2>1. ASSUME NEW k \in 1..thread_num PROVE data'[k] \in IntervalType
    BY <1>6, <1>7
  <2>2. \A k \in 0..thread_num : k = 0 \/ k \in 1..thread_num
    BY <1>4
  <2>3. data' = [k \in 0..thread_num |-> data'[k]]
    BY <1>2
  <2>4. 0 \in DOMAIN data' /\ 0 \notin DOMAIN << >>
    BY <1>4, <1>6
  <2>5. \A k \in 0..thread_num : data'[k] \in IntervalType
    BY <1>4, <1>6, <2>1, <2>2
  <2> QED
    BY <2>3, <2>4, <2>5
<1>9. TypeOK'
  <2>1. jobs' \in 0..MaxJobs
    BY <1>2, <1>3, Constants DEF TypeOK, QuietInv
  <2>2. data' \in [0..thread_num' -> IntervalType]
    BY <1>1, <1>8
  <2> QED
    BY <1>1, <1>2, <1>3, <2>1, <2>2 DEF TypeOK
<1>10. QuietInv' /\ TotalInv' /\ StampInv'
  BY <1>1, <1>2, <1>3, <1>8 DEF QuietInv, TotalInv, StampInv
<1>11. AllSpawned' = AllSpawned /\ ClockSteady' = ClockSteady
  BY <1>1, <1>2 DEF AllSpawned, ClockSteady
<1>12. AllSpawned => spawned = Threads
  BY DEF AllSpawned, Threads
<1>13. IntervalOfJob'
  <2> SUFFICES ASSUME AllSpawned, ClockSteady
               PROVE  /\ opened % ClockRange <= data'[0].start /\ data'[0].end <= closed % ClockRange
                      /\ \A k \in 1..thread_num :
                           /\ data'[0].start <= data'[k].start /\ data'[k].start <= data'[k].end
                           /\ data'[k].end <= data'[0].end
    BY <1>1, <1>2, <1>11 DEF IntervalOfJob
  <2>1. TotalInterval(total)
    BY <1>2, <1>3 DEF TotalInv
  <2>2. \A k \in Threads : thread_stat[k].t_start <= thread_stat[k].t_end
    BY <1>2, <1>3, <1>12 DEF StampInv, Stopped, ClockSteady, Turned
  <2> QED
    BY <1>6, <1>7, <2>1, <2>2 DEF TotalInterval
<1>14. BytesOfJob'
  <2> SUFFICES ASSUME AllSpawned
               PROVE  /\ \A k \in spawned : data'[k + 1].nread = BytesOf(k)
                      /\ TotalBytes(total)
    <3>1. \A k \in spawned : BytesOf(k)' = BytesOf(k)
      BY <1>1, <1>4
    <3> QED
      BY <1>1, <1>2, <1>6, <1>11 DEF BytesOfJob, TotalBytes, BytesOf
  <2>1. ASSUME NEW k \in spawned PROVE data'[k + 1].nread = BytesOf(k)
    <3>1. PICK i \in 1..thread_num : i = k + 1 /\ i - 1 = k /\ k \in Threads
      BY <1>4 DEF Threads, ThreadsOf
    <3>2. data'[k + 1].nread = thread_stat[k].nread
      BY <1>6, <1>7, <3>1
    <3> QED
      BY <1>2, <1>3, <3>2 DEF StampInv
  <2> QED
    BY <1>2, <1>3, <2>1 DEF TotalInv
<1> QED
  BY <1>1, <1>9, <1>10, <1>13, <1>14 DEF IInv

(* The program ends: by a failure of benchmark_init(), after the last job, *)
(* at a SIGINT, and by the teardown.                                       *)
LEMMA EndKeeps == ASSUME IInv, InitFails \/ Quit \/ BenchmarkTeardown PROVE IInv'
<1>1. /\ UNCHANGED <<setup, thread_stat, did, total, data, now, opened, closed, jobs>>
      /\ phase' \in {"quitting", "ended"}
      /\ phase' = "ended" => AllJoined
  BY DEF InitFails, Quit, BenchmarkTeardown
<1>2. /\ RegionInv' /\ WorkInv' /\ spawned' = spawned /\ thread_num' = thread_num
      /\ buf_type' = buf_type /\ g_mem_size' = g_mem_size
  BY <1>1, MainStep
<1>3. TypeOK'
  BY <1>1, <1>2 DEF IInv, TypeOK
<1>4. QuietInv' /\ StampInv' /\ TotalInv'
  BY <1>1, <1>2 DEF IInv, QuietInv, StampInv, TotalInv, AllJoined
<1>5. IntervalOfJob' /\ BytesOfJob'
  BY <1>1 DEF IntervalOfJob, BytesOfJob, Reported
<1> QED
  BY <1>2, <1>3, <1>4, <1>5 DEF IInv

LEMMA TickKeeps == ASSUME IInv, Tick PROVE IInv'
<1>1. /\ RegionInv' /\ WorkInv' /\ spawned' = spawned /\ thread_num' = thread_num /\ Threads' = Threads
      /\ buf_type' = buf_type /\ g_mem_size' = g_mem_size
      /\ \A k \in Threads : BytesOf(k)' = BytesOf(k)
  BY MainStep DEF Tick
<1>2. /\ now' = now + 1 /\ phase' = phase /\ thread_stat' = thread_stat /\ did' = did
      /\ total' = total /\ data' = data /\ opened' = opened /\ closed' = closed /\ jobs' = jobs
  BY DEF Tick
<1>3. TypeOK /\ QuietInv /\ StampInv /\ TotalInv /\ IntervalOfJob /\ BytesOfJob
  BY DEF IInv
<1>4. now \in Nat /\ now' \in Nat /\ opened \in Nat /\ opened <= now /\ now <= now'
  BY <1>2, <1>3 DEF TypeOK, StampInv
<1>5. spawned \subseteq Threads /\ \A k \in Threads : thread_stat[k] \in StatType
  BY <1>3, Types
<1>6. TypeOK'
  BY <1>1, <1>2, <1>3, <1>4 DEF TypeOK
<1>7. QuietInv'
  BY <1>1, <1>2, <1>3 DEF QuietInv
<1>8. StampInv'
  <2>1. ASSUME ~Turned(now')
        PROVE  /\ ~Turned(now)
               /\ now % ClockRange \in Nat /\ now' % ClockRange \in Nat
               /\ now % ClockRange <= now' % ClockRange
    <3>1. opened \div ClockRange = now' \div ClockRange
      BY <2>1 DEF Turned
    <3>2. opened \div ClockRange = now \div ClockRange /\ now % ClockRange <= now' % ClockRange
      BY <1>4, <3>1, SameTurn
    <3>3. now % ClockRange \in 0..(ClockRange - 1) /\ now' % ClockRange \in 0..(ClockRange - 1)
      BY <1>4, ClockReads
    <3> QED
      BY <3>2, <3>3, Constants DEF Turned
  <2>2. ASSUME ~Turned(now'), NEW k \in spawned
        PROVE  /\ Started(thread_stat[k], now) => Started(thread_stat[k], now')
               /\ Stopped(thread_stat[k], now) => Stopped(thread_stat[k], now')
    <3> DEFINE a == now % ClockRange
               b == now' % ClockRange
               o == opened % ClockRange
    <3>1. thread_stat[k].t_start \in 0..(ClockRange - 1) /\ thread_stat[k].t_end \in 0..(ClockRange - 1)
      BY <1>5 DEF StatType
    <3>2. thread_stat[k].t_start \in Int /\ thread_stat[k].t_end \in Int
      BY <3>1
    <3>3. a \in Nat /\ b \in Nat /\ a <= b
      BY <2>1, <2>2
    <3>4. /\ Started(thread_stat[k], now) <=> o <= thread_stat[k].t_start /\ thread_stat[k].t_start <= a
          /\ Started(thread_stat[k], now') <=> o <= thread_stat[k].t_start /\ thread_stat[k].t_start <= b
      BY DEF Started
    <3>5. /\ Stopped(thread_stat[k], now) <=> /\ Started(thread_stat[k], now)
                                              /\ thread_stat[k].t_start <= thread_stat[k].t_end
                                              /\ thread_stat[k].t_end <= a
          /\ Stopped(thread_stat[k], now') <=> /\ Started(thread_stat[k], now')
                                               /\ thread_stat[k].t_start <= thread_stat[k].t_end
                                               /\ thread_stat[k].t_end <= b
      BY DEF Stopped
    <3> HIDE DEF a, b, o
    <3> QED
      BY <3>2, <3>3, <3>4, <3>5
  <2>3. /\ (Turned(now)') <=> Turned(now')
        /\ (Turned(closed)') <=> Turned(closed)
    BY <1>2 DEF Turned
  <2>4. \A k \in spawned : /\ (Started(thread_stat[k], now)') <=> Started(thread_stat[k], now')
                           /\ (Stopped(thread_stat[k], now)') <=> Stopped(thread_stat[k], now')
                           /\ (Stopped(thread_stat[k], closed)') <=> Stopped(thread_stat[k], closed)
    BY <1>2 DEF Started, Stopped
  <2>5. ASSUME phase = "open", ~Turned(now'), NEW k \in spawned
        PROVE  /\ did[k] # "waiting" => Started(thread_stat[k], now')
               /\ did[k] = "worked" => Stopped(thread_stat[k], now')
    BY <1>3, <2>1, <2>2, <2>5 DEF StampInv
  <2>6. opened' <= now'
    BY <1>2, <1>4
  <2>7. ASSUME phase \in {"adding", "logging"}, NEW k \in spawned
        PROVE  /\ thread_stat[k].nread = BytesOf(k)'
               /\ ~Turned(closed) => Stopped(thread_stat[k], closed)
    BY <1>1, <1>3, <1>5, <2>7 DEF StampInv
  <2> QED
    BY <1>1, <1>2, <2>3, <2>5, <2>6, <2>7, <2>4 DEF StampInv
<1>9. TotalInv'
  BY <1>1, <1>2, <1>3 DEF TotalInv, AllSpawned, TotalBytes, TotalInterval, ClockSteady, BytesOf
<1>10. IntervalOfJob' /\ BytesOfJob'
  BY <1>1, <1>2, <1>3 DEF IntervalOfJob, BytesOfJob, Reported, AllSpawned, ClockSteady
<1> QED
  BY <1>1, <1>6, <1>7, <1>8, <1>9, <1>10 DEF IInv

LEMMA StutterKeeps == ASSUME IInv, UNCHANGED vars PROVE IInv'
<1> USE DEF vars, setup
<1>1. TypeOK' /\ RegionInv' /\ WorkInv' /\ QuietInv'
  BY DEF IInv, TypeOK, RegionInv, WorkInv, QuietInv, BytesOf, Sizes, Threads
<1>2. StampInv' /\ TotalInv'
  BY DEF IInv, StampInv, TotalInv, Turned, Started, Stopped, BytesOf, AllSpawned,
         TotalBytes, TotalInterval, ClockSteady, Threads
<1>3. IntervalOfJob' /\ BytesOfJob'
  BY DEF IInv, IntervalOfJob, BytesOfJob, Reported, AllSpawned, ClockSteady
<1> QED
  BY <1>1, <1>2, <1>3 DEF IInv

LEMMA NextKeeps == ASSUME IInv, [Next]_vars PROVE IInv'
<1>1. CASE BenchmarkInit
  BY <1>1, BenchmarkInitKeeps
<1>2. CASE InitFails \/ Quit \/ BenchmarkTeardown
  BY <1>2, EndKeeps
<1>3. CASE BeginJob
  BY <1>3, BeginJobKeeps
<1>4. CASE OpenJob
  BY <1>4, OpenJobKeeps
<1>5. CASE CloseJob
  BY <1>5, CloseJobKeeps
<1>6. CASE AddUp
  BY <1>6, AddUpKeeps
<1>7. CASE LogData
  BY <1>7, LogDataKeeps
<1>8. CASE Tick
  BY <1>8, TickKeeps
<1>9. ASSUME NEW k \in spawned, StartWork(k) \/ Pass(k) \/ StopWork(k) \/ Rest(k) PROVE IInv'
  BY <1>9, StartWorkKeeps, PassKeeps, StopWorkKeeps, RestKeeps
<1>10. CASE UNCHANGED vars
  BY <1>10, StutterKeeps
<1> QED
  BY <1>1, <1>2, <1>3, <1>4, <1>5, <1>6, <1>7, <1>8, <1>9, <1>10 DEF Next

LEMMA Inductive == Spec => []IInv
<1>1. IInv /\ [Next]_vars => IInv'
  BY NextKeeps
<1> QED
  BY InitHolds, <1>1, PTL DEF Spec

-----------------------------------------------------------------------------
(* What holds of the program.                                              *)

(* The region of a thread lies within the buffer, and the private regions  *)
(* follow each other.                                                      *)
LEMMA Regions == ASSUME IInv PROVE OwnMemoryOnly
<1> SUFFICES ASSUME Working # {}, Fits PROVE OwnMemoryOnly
  BY DEF OwnMemoryOnly
<1> DEFINE n == thread_num
           R == RegionEnd(Sizes, n)
<1>1. TypeOK /\ RegionInv /\ QuietInv
  BY DEF IInv
<1>2. /\ n \in Nat /\ ThreadsOf(n) = Threads /\ \A k \in Threads : thread_stat[k] \in StatType
      /\ spawned \subseteq Threads
  BY <1>1, Types
<1>3. Working \subseteq Threads
  BY <1>2 DEF Working
<1>4. phase # "ended"
  BY <1>1 DEF QuietInv, Working
<1>5. \A k \in Threads : /\ thread_stat[k].t_mem_size \in Nat \ {0} /\ thread_stat[k].t_mem_ptr \in Nat
                         /\ Sizes[k] = thread_stat[k].t_mem_size
  BY <1>2 DEF StatType, Sizes
<1>6. Sizes \in [ThreadsOf(n) -> Nat]
  BY <1>2, <1>5 DEF Sizes
<1>7. /\ R \in [0..n -> Nat] /\ R[0] = 0
      /\ \A k \in ThreadsOf(n) : R[k + 1] = R[k] + Sizes[k]
      /\ \A k, l \in 0..n : k <= l => R[k] <= R[l]
  BY <1>2, <1>6, Ends, EndsGrow
<1>8. g_mem_size \in Nat
  BY <1>1, Constants DEF TypeOK
<1>9. CASE buf_type = "private"
  <2>1. g_mem_size = R[n] /\ \A k \in Threads : thread_stat[k].t_mem_ptr = R[k]
    <3>1. R[n] < HalfInt
      BY <1>2, <1>9 DEF Fits, Sizes
    <3>2. R[n] \in Nat
      BY <1>2, <1>7
    <3>3. R[n] \in 0..(HalfInt - 1)
      <4> HIDE DEF R
      <4> QED
        BY <3>1, <3>2, Constants
    <3>4. Narrow(R[n]) = R[n]
      <4> HIDE DEF R
      <4> QED
        BY <3>2, <3>3, Narrowed
    <3> QED
      BY <1>1, <1>9, <3>4 DEF RegionInv
  <2> HIDE DEF R
  <2>2. ASSUME NEW k \in Threads
        PROVE  /\ k \in 0..n /\ k + 1 \in 0..n
               /\ R[k] \in Nat /\ R[k + 1] \in Nat /\ R[k + 1] <= g_mem_size
               /\ RegionOf(k) = R[k] .. (R[k + 1] - 1)
    <3>1. k \in Nat /\ k \in 0..n /\ k + 1 \in 0..n /\ n \in 0..n
      BY <1>2 DEF ThreadsOf
    <3>2. R[k + 1] = R[k] + thread_stat[k].t_mem_size /\ thread_stat[k].t_mem_ptr = R[k]
      BY <1>2, <1>5, <1>7, <2>1
    <3>3. R[k + 1] <= R[n] /\ R[k] \in Nat /\ R[k + 1] \in Nat
      BY <1>7, <3>1
    <3>4. RegionOf(k) = R[k] .. (R[k + 1] - 1)
      BY <1>5, <3>2, <3>3 DEF RegionOf
    <3> QED
      BY <2>1, <3>1, <3>3, <3>4
  <2>3. \A k \in Working : RegionOf(k) \subseteq 0..(g_mem_size - 1)
    BY <1>3, <1>8, <2>2
  <2>4. ASSUME NEW k \in Working, NEW l \in Working, k < l PROVE RegionOf(k) \cap RegionOf(l) = {}
    <3>1. R[k + 1] <= R[l]
      <4>1. k + 1 <= l /\ k + 1 \in 0..n /\ l \in 0..n
        BY <1>3, <2>2, <2>4
      <4> QED
        BY <1>7, <4>1
    <3>2. /\ RegionOf(k) = R[k] .. (R[k + 1] - 1) /\ RegionOf(l) = R[l] .. (R[l + 1] - 1)
          /\ R[k] \in Nat /\ R[k + 1] \in Nat /\ R[l] \in Nat
      BY <1>3, <2>2
    <3> QED
      BY <3>1, <3>2
  <2>5. \A k, l \in Working : k # l => k < l \/ l < k
    BY <1>3, <2>2
  <2>6. \A k, l \in Working : k # l => RegionOf(k) \cap RegionOf(l) = {}
    BY <2>4, <2>5
  <2> QED
    BY <1>4, <2>3, <2>6 DEF OwnMemoryOnly
<1>10. CASE buf_type = "shared"
  <2>1. \A k \in Working : RegionOf(k) \subseteq 0..(g_mem_size - 1)
    BY <1>1, <1>3, <1>5, <1>8, <1>10 DEF RegionInv, RegionOf
  <2> QED
    BY <1>4, <1>10, <2>1 DEF OwnMemoryOnly
<1> QED
  BY <1>1, <1>9, <1>10 DEF TypeOK

(* The variables have their types: an accepted thread has memory, some     *)
(* iterations, and stamps of an unsigned int.                              *)
THEOREM TypeCorrect == Spec => []TypeOK
<1>1. IInv => TypeOK
  BY DEF IInv
<1> QED
  BY Inductive, <1>1, PTL

(* For every number of threads and every list of sizes, a thread that      *)
(* works stays in memory that is allocated, and with private buffers in    *)
(* its own (benchmark_init(), lines 415-423 and 496-527).                  *)
THEOREM OwnMemoryHolds == Spec => []OwnMemoryOnly
  BY Inductive, Regions, PTL

(* The interval of a row is one of its job, and covers the work of every   *)
(* thread (benchmark_execution() and benchmark_log_data()).                *)
THEOREM IntervalHolds == Spec => []IntervalOfJob
<1>1. IInv => IntervalOfJob
  BY DEF IInv
<1> QED
  BY Inductive, <1>1, PTL

(* The bytes of a row are those of all the iterations of its job, and the  *)
(* total is their sum over the threads.                                    *)
THEOREM BytesHold == Spec => []BytesOfJob
<1>1. IInv => BytesOfJob
  BY DEF IInv
<1> QED
  BY Inductive, <1>1, PTL
=============================================================================
