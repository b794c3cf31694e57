---------------------------- MODULE ProcessInvariant ----------------------------
(***************************************************************************)
(* Proofs about Process: what the command line leaves, how a process       *)
(* reports, what it gives back, and whose memory it frees.                 *)
(***************************************************************************)
EXTENDS Process, FiniteSetTheorems, WellFoundedInduction, TLAPS

-----------------------------------------------------------------------------
(* The bytes of a set of blocks                                            *)

(* A set of natural numbers has a least element.                           *)
LEMMA LeastNumber ==
  ASSUME NEW T, T \subseteq Nat, T # {}
  PROVE  \E x \in T : \A y \in T : x <= y
<1>1. IsWellFoundedOn(OpToRel(<, Nat), Nat)
  BY NatLessThanWellFounded
<1>2. PICK x \in T : \A y \in T : <<y, x>> \notin OpToRel(<, Nat)
  BY <1>1, WFMin
<1>3. ASSUME NEW y \in T PROVE x <= y
  <2>1. ~ (y < x)
    BY <1>2 DEF OpToRel
  <2> QED
    BY <2>1
<1> QED
  BY <1>3

LEMMA BlocksFinite ==
  ASSUME NEW B \in SUBSET Blocks
  PROVE  /\ IsFiniteSet(B) /\ Cardinality(B) \in Nat
         /\ \A b \in B : Cardinality(B \ {b}) = Cardinality(B) - 1
         /\ \A b \in B : Size[b] \in Nat \ {0}
<1>1. IsFiniteSet(B)
  BY MemoryWatcherAssumption, FS_Subset DEF MemoryWatcherAssumption
<1> QED
  BY <1>1, FS_CardinalityType, FS_RemoveElement, MemoryWatcherAssumption
     DEF MemoryWatcherAssumption

(* The recursion of Bytes has a solution: each application of its body to  *)
(* a function makes it right for sets of one more block.                   *)
One(B) == CHOOSE x \in B : TRUE
Sum(g, B) == IF B = {} THEN 0 ELSE Size[One(B)] + g[B \ {One(B)}]

LEMMA OneOf == ASSUME NEW B, B # {} PROVE One(B) \in B
  BY DEF One

LEMMA BytesExists ==
  \E g \in [SUBSET Blocks -> Nat] : g = [B \in SUBSET Blocks |-> Sum(g, B)]
<1> DEFINE Upto(n) == {g \in [SUBSET Blocks -> Nat] :
                        \A B \in SUBSET Blocks : Cardinality(B) < n => g[B] = Sum(g, B)}
           T == {n \in Nat : Upto(n) = {}}
<1>1. T = {}
  <2> SUFFICES ASSUME T # {} PROVE FALSE
    OBVIOUS
  <2>1. PICK n \in T : \A m \in T : n <= m
    BY LeastNumber
  <2>2. n # 0
    <3>1. [B \in SUBSET Blocks |-> 0] \in Upto(0)
      <4>1. \A B \in SUBSET Blocks : ~ (Cardinality(B) < 0)
        BY BlocksFinite
      <4> QED
        BY <4>1
    <3> QED
      BY <3>1
  <2>3. n - 1 \in Nat /\ n - 1 \notin T
    <3>1. n \in Nat
      OBVIOUS
    <3>2. n - 1 \in Nat /\ ~ (n <= n - 1)
      BY <2>2, <3>1
    <3> HIDE DEF T
    <3> QED
      BY <2>1, <3>2
  <2>4. PICK g \in [SUBSET Blocks -> Nat] :
          \A B \in SUBSET Blocks : Cardinality(B) < n - 1 => g[B] = Sum(g, B)
    BY <2>3
  <2> DEFINE h == [B \in SUBSET Blocks |-> Sum(g, B)]
  <2>5. h \in [SUBSET Blocks -> Nat]
    <3>1. ASSUME NEW B \in SUBSET Blocks PROVE Sum(g, B) \in Nat
      <4>1. CASE B = {}
        BY <4>1 DEF Sum
      <4>2. CASE B # {}
        <5>1. One(B) \in B /\ Size[One(B)] \in Nat /\ B \ {One(B)} \in SUBSET Blocks
          BY <4>2, OneOf, BlocksFinite
        <5> QED
          BY <4>2, <5>1 DEF Sum
      <4> QED
        BY <4>1, <4>2
    <3> QED
      BY <3>1
  <2>6. ASSUME NEW B \in SUBSET Blocks, Cardinality(B) < n PROVE h[B] = Sum(h, B)
    <3>1. CASE B = {}
      BY <3>1 DEF Sum
    <3>2. CASE B # {}
      <4> DEFINE C == B \ {One(B)}
      <4>1. One(B) \in B /\ C \in SUBSET Blocks
        BY <3>2, OneOf
      <4>2. Cardinality(C) < n - 1
        BY <4>1, <2>6, BlocksFinite
      <4>3. g[C] = Sum(g, C) /\ h[C] = Sum(g, C)
        BY <2>4, <4>1, <4>2
      <4> QED
        BY <3>2, <4>1, <4>3 DEF Sum
    <3> QED
      BY <3>1, <3>2
  <2>7. h \in Upto(n)
    BY <2>5, <2>6
  <2> QED
    BY <2>1, <2>7
<1>2. Blocks \in SUBSET Blocks /\ Cardinality(Blocks) + 1 \in Nat
  BY BlocksFinite
<1>3. PICK g : g \in Upto(Cardinality(Blocks) + 1)
  BY <1>1, <1>2
<1>4. \A B \in SUBSET Blocks : Cardinality(B) < Cardinality(Blocks) + 1
  BY <1>2, BlocksFinite, FS_Subset
<1> QED
  BY <1>3, <1>4

LEMMA BytesIs == Bytes = [B \in SUBSET Blocks |-> Sum(Bytes, B)]
<1> DEFINE F(g) == [B \in SUBSET Blocks |->
                     IF B = {} THEN 0
                     ELSE LET b == CHOOSE x \in B : TRUE IN Size[b] + g[B \ {b}]]
<1>1. \E g : g = F(g)
  BY BytesExists DEF Sum, One
<1>2. Bytes = CHOOSE g : g = F(g)
  BY DEF Bytes
<1>3. Bytes = F(Bytes)
  BY <1>1, <1>2
<1> QED
  BY <1>3 DEF Sum, One
(* Bytes add up, whatever the order they are counted in.                   *)
LEMMA BytesOf ==
  ASSUME NEW B \in SUBSET Blocks
  PROVE  /\ Bytes[B] = Sum(Bytes, B)
         /\ Bytes[B] \in Nat
<1>1. \A C \in SUBSET Blocks : Bytes[C] = Sum(Bytes, C)
  BY BytesIs
<1> DEFINE T == {n \in Nat : \E C \in SUBSET Blocks : Cardinality(C) = n /\ Bytes[C] \notin Nat}
<1>2. T = {}
  <2> SUFFICES ASSUME T # {} PROVE FALSE
    OBVIOUS
  <2>1. PICK n \in T : \A m \in T : n <= m
    BY LeastNumber
  <2>2. PICK C \in SUBSET Blocks : Cardinality(C) = n /\ Bytes[C] \notin Nat
    OBVIOUS
  <2>3. C # {}
    <3>1. C = {} => Bytes[C] = 0
      BY <1>1, <2>2 DEF Sum
    <3> QED
      BY <2>2, <3>1
  <2> DEFINE D == C \ {One(C)}
  <2>4. One(C) \in C /\ D \in SUBSET Blocks
    BY <2>3, OneOf
  <2>5. Cardinality(D) \in Nat /\ ~ (n <= Cardinality(D)) /\ Size[One(C)] \in Nat
    BY <2>2, <2>4, BlocksFinite
  <2>6. Cardinality(D) \notin T
    <3> HIDE DEF T, D
    <3> QED
      BY <2>1, <2>5
  <2>7. Bytes[D] \in Nat
    BY <2>4, <2>5, <2>6
  <2>8. Bytes[C] = Size[One(C)] + Bytes[D]
    BY <1>1, <2>2, <2>3 DEF Sum
  <2> HIDE DEF D
  <2> QED
    BY <2>2, <2>5, <2>7, <2>8
<1>3. Cardinality(B) \in Nat
  BY BlocksFinite
<1> QED
  BY <1>1, <1>2, <1>3

LEMMA BytesNone == Bytes[{}] = 0
  BY BytesOf DEF Sum

LEMMA BytesRemove ==
  ASSUME NEW B \in SUBSET Blocks, NEW b \in B
  PROVE  Bytes[B] = Size[b] + Bytes[B \ {b}]
<1> DEFINE Bad(C) == \E c \in C : Bytes[C] # Size[c] + Bytes[C \ {c}]
           T == {n \in Nat : \E C \in SUBSET Blocks : Cardinality(C) = n /\ Bad(C)}
<1>1. T = {}
  <2> SUFFICES ASSUME T # {} PROVE FALSE
    OBVIOUS
  <2>1. PICK n \in T : \A m \in T : n <= m
    BY LeastNumber
  <2>2. PICK C \in SUBSET Blocks : Cardinality(C) = n /\ Bad(C)
    OBVIOUS
  <2>3. PICK c \in C : Bytes[C] # Size[c] + Bytes[C \ {c}]
    BY <2>2
  <2> DEFINE d == One(C)
             D == C \ {d}
             E == C \ {c}
  <2>4. d \in C /\ D \in SUBSET Blocks /\ E \in SUBSET Blocks
    BY OneOf
  <2>5. Bytes[C] = Size[d] + Bytes[D]
    BY BytesOf, <2>4 DEF Sum
  <2>6. c # d
    BY <2>3, <2>5
  <2>7. c \in D /\ d \in E
    BY <2>4, <2>6
  <2>8. /\ Cardinality(D) \in Nat /\ ~ (n <= Cardinality(D))
        /\ Cardinality(E) \in Nat /\ ~ (n <= Cardinality(E))
    BY <2>2, <2>4, BlocksFinite
  <2>9. ~ Bad(D) /\ ~ Bad(E)
    <3>1. Cardinality(D) \notin T /\ Cardinality(E) \notin T
      <4> HIDE DEF T, D, E
      <4> QED
        BY <2>1, <2>8
    <3> QED
      BY <2>4, <2>8, <3>1
  <2>10. Bytes[D] = Size[c] + Bytes[D \ {c}] /\ Bytes[E] = Size[d] + Bytes[E \ {d}]
    BY <2>7, <2>9
  <2>11. D \ {c} = E \ {d} /\ D \ {c} \in SUBSET Blocks
    BY <2>4
  <2>12. Bytes[D \ {c}] \in Nat /\ Size[c] \in Nat /\ Size[d] \in Nat
    BY <2>4, <2>11, BytesOf, BlocksFinite
  <2>13. Bytes[C] = Size[c] + Bytes[E]
    <3> DEFINE x == Bytes[D \ {c}]
    <3>1. x \in Nat /\ Bytes[D] = Size[c] + x /\ Bytes[E] = Size[d] + x
      BY <2>10, <2>11, <2>12
    <3> HIDE DEF x, D, E, d
    <3> QED
      BY <2>5, <2>12, <3>1
  <2> QED
    BY <2>3, <2>13
<1>2. Cardinality(B) \in Nat
  BY BlocksFinite
<1> QED
  BY <1>1, <1>2

LEMMA BytesUnion ==
  ASSUME NEW A \in SUBSET Blocks, NEW B \in SUBSET Blocks, A \intersect B = {}
  PROVE  Bytes[A \union B] = Bytes[A] + Bytes[B]
<1> DEFINE Bad(C) == A \intersect C = {} /\ Bytes[A \union C] # Bytes[A] + Bytes[C]
           T == {n \in Nat : \E C \in SUBSET Blocks : Cardinality(C) = n /\ Bad(C)}
<1>1. T = {}
  <2> SUFFICES ASSUME T # {} PROVE FALSE
    OBVIOUS
  <2>1. PICK n \in T : \A m \in T : n <= m
    BY LeastNumber
  <2>2. PICK C \in SUBSET Blocks : Cardinality(C) = n /\ Bad(C)
    OBVIOUS
  <2>3. C # {}
    <3>1. Bytes[A] \in Nat
      BY BytesOf
    <3>2. Bytes[A] = Bytes[A] + Bytes[{}]
      BY <3>1, BytesNone
    <3>3. A \union {} = A
      OBVIOUS
    <3> QED
      BY <2>2, <3>2, <3>3
  <2>4. PICK c \in C : TRUE
    BY <2>3
  <2> DEFINE D == C \ {c}
  <2>5. D \in SUBSET Blocks /\ Cardinality(D) \in Nat /\ ~ (n <= Cardinality(D))
    BY <2>2, BlocksFinite
  <2>6. Cardinality(D) \notin T
    <3> HIDE DEF T, D
    <3> QED
      BY <2>1, <2>5
  <2>7. Bytes[A \union D] = Bytes[A] + Bytes[D]
    BY <2>2, <2>5, <2>6
  <2>8. (A \union C) \ {c} = A \union D /\ c \in A \union C
    BY <2>2
  <2>9. Bytes[A \union C] = Size[c] + Bytes[A \union D] /\ Bytes[C] = Size[c] + Bytes[D]
    BY <2>8, BytesRemove
  <2>10. {Bytes[A], Bytes[D], Size[c]} \subseteq Nat
    BY <2>5, BytesOf, BlocksFinite
  <2> QED
    BY <2>2, <2>7, <2>9, <2>10
<1>2. Cardinality(B) \in Nat
  BY BlocksFinite
<1> QED
  BY <1>1, <1>2

LEMMA BytesSubset ==
  ASSUME NEW B \in SUBSET Blocks, NEW A \in SUBSET B
  PROVE  Bytes[A] <= Bytes[B] /\ Bytes[B \ A] = Bytes[B] - Bytes[A]
<1>1. A \union (B \ A) = B /\ A \intersect (B \ A) = {}
  OBVIOUS
<1>2. Bytes[B] = Bytes[A] + Bytes[B \ A]
  BY <1>1, BytesUnion
<1>3. {Bytes[A], Bytes[B], Bytes[B \ A]} \subseteq Nat
  BY BytesOf
<1> QED
  BY <1>2, <1>3
-----------------------------------------------------------------------------
(* The memory watcher's operations                                         *)

Numbers == {PageSize, CellSize, DlGranule} \subseteq Nat \ {0} /\ DlOverhead \in Nat

LEMMA NumbersHold == Numbers
  BY MemoryWatcherAssumption DEF MemoryWatcherAssumption, Numbers

LEMMA RoundUpBounds ==
  ASSUME NEW n \in Nat, NEW unit \in Nat \ {0}
  PROVE  RoundUp(n, unit) \in Nat /\ n <= RoundUp(n, unit)
<1> DEFINE m == n + unit - 1
           q == m \div unit
<1>1. m \in Nat /\ q \in Nat /\ m % unit \in 0 .. unit - 1 /\ m = unit * q + (m % unit)
  OBVIOUS
<1>2. q * unit \in Nat /\ q * unit = unit * q
  BY <1>1
<1>3. n <= q * unit
  <2> DEFINE r == m % unit
             p == unit * q
  <2>1. p \in Int /\ r \in Int /\ r <= unit - 1 /\ n + unit - 1 = p + r
    BY <1>1, <1>2
  <2> HIDE DEF p, r, q, m
  <2>2. n <= p
    BY <2>1
  <2> QED
    BY <2>2, <1>2 DEF p
<1> QED
  BY <1>2, <1>3 DEF RoundUp

LEMMA MemoryStays == ASSUME WatcherTypeOK, UNCHANGED watcherVars PROVE WatcherTypeOK'
  BY DEF WatcherTypeOK, watcherVars, config, memory

(* What an allocation by libc does to the memory,                          *)
LEMMA RealMallocDoes ==
  ASSUME WatcherTypeOK, NEW b \in Blocks, RealMalloc(b)
  PROVE  /\ WatcherTypeOK'
         /\ owner' = [owner EXCEPT ![b] = "libc"]
         /\ UNCHANGED <<config, brk, misfreed>>
<1>1. Size[b] \in Nat \ {0}
  BY BlocksFinite
<1>2. room' \in Nat /\ extended' \in BOOLEAN
  <2>1. room \in Nat /\ heap_size \in Nat /\ extended \in BOOLEAN
    BY DEF WatcherTypeOK
  <2>2. extended' \in BOOLEAN
    BY <2>1, Zenon DEF RealMalloc
  <2>3. \/ room' = room
        \/ room >= Size[b] /\ room' = room - Size[b]
        \/ room' = heap_size
    BY Zenon DEF RealMalloc
  <2> QED
    BY <1>1, <2>1, <2>2, <2>3
<1>3. /\ owner' = [owner EXCEPT ![b] = "libc"]
      /\ UNCHANGED <<config, brk, dlRoom, misfreed>>
  BY DEF RealMalloc
<1> QED
  BY <1>2, <1>3 DEF WatcherTypeOK, config, Owners

(* by dlmalloc,                                                            *)
LEMMA SbrkDoes ==
  ASSUME WatcherTypeOK, NEW n \in Int, RtbenchSbrk(n)
  PROVE  brk' \in Nat /\ brk' <= heap_size * CellSize
<1>1. CellSize \in Nat /\ heap_size \in Nat
  BY NumbersHold DEF Numbers, WatcherTypeOK
<1>2. heap_size * CellSize \in Int
  BY <1>1
<1> QED
  BY <1>2 DEF RtbenchSbrk

LEMMA DlMallocDoes ==
  ASSUME WatcherTypeOK, NEW b \in Blocks, DlMalloc(b)
  PROVE  /\ WatcherTypeOK'
         /\ owner' = [owner EXCEPT ![b] = "dl"]
         /\ UNCHANGED <<config, room, extended, misfreed>>
         /\ brk' = brk \/ brk' <= heap_size * CellSize
<1>1. Size[b] \in Nat \ {0}
  BY BlocksFinite
<1>2. DlAsk(b) \in Nat /\ Size[b] <= DlAsk(b)
  <2>1. Size[b] + DlOverhead \in Nat /\ Size[b] <= Size[b] + DlOverhead
    BY <1>1, NumbersHold DEF Numbers
  <2>2. RoundUp(Size[b] + DlOverhead, DlGranule) \in Nat
        /\ Size[b] + DlOverhead <= RoundUp(Size[b] + DlOverhead, DlGranule)
    BY <2>1, NumbersHold, RoundUpBounds DEF Numbers
  <2> QED
    BY <1>1, <2>1, <2>2, NumbersHold DEF DlAsk, Numbers
<1>3. brk' \in Nat /\ dlRoom' \in Nat /\ (brk' = brk \/ brk' <= heap_size * CellSize)
  <2>1. CASE dlRoom >= Size[b]
    BY <2>1, <1>1 DEF DlMalloc, WatcherTypeOK
  <2>2. CASE ~ (dlRoom >= Size[b])
    <3>1. RtbenchSbrk(DlAsk(b)) /\ dlRoom' = dlRoom + DlAsk(b) - Size[b]
      BY <2>2 DEF DlMalloc
    <3>2. dlRoom' \in Nat
      BY <3>1, <1>1, <1>2 DEF WatcherTypeOK
    <3> QED
      BY <3>1, <3>2, <1>2, SbrkDoes
  <2> QED
    BY <2>1, <2>2
<1> QED
  BY <1>3 DEF DlMalloc, WatcherTypeOK, config, Owners

(* by the wrapped malloc(), which may also refuse or end the program,      *)
Wraps == IF watcher \in Fixed THEN "dl" ELSE "libc"

LEMMA WrapMallocDoes ==
  ASSUME WatcherTypeOK, NEW b \in Blocks, NEW threaded, WrapMallocOk(b, threaded)
  PROVE  /\ WatcherTypeOK'
         /\ owner' = [owner EXCEPT ![b] = Wraps]
         /\ UNCHANGED <<config, misfreed>>
         /\ brk' = brk \/ brk' <= heap_size * CellSize
         /\ watcher \notin Fixed => brk' = brk
<1>1. CASE watcher \in Fixed
  BY <1>1, DlMallocDoes DEF WrapMallocOk, Wraps
<1>2. CASE watcher \notin Fixed
  BY <1>2, RealMallocDoes DEF WrapMallocOk, Wraps
<1> QED
  BY <1>1, <1>2

LEMMA WrapMallocAbortsDoes ==
  ASSUME WatcherTypeOK, NEW b \in Blocks, NEW threaded, WrapMallocAborts(b, threaded)
  PROVE  /\ WatcherTypeOK'
         /\ UNCHANGED <<config, brk, dlRoom, owner, misfreed>>
<1>1. Size[b] \in Nat \ {0}
  BY BlocksFinite
<1> QED
  BY <1>1 DEF WrapMallocAborts, WatcherTypeOK, config

(* and by the wrapped free().                                              *)
LEMMA WrapFreeDoes ==
  ASSUME WatcherTypeOK, NEW B \in SUBSET Blocks, WrapFree(B)
  PROVE  /\ WatcherTypeOK'
         /\ owner' = [b \in Blocks |-> IF b \in B THEN "none" ELSE owner[b]]
         /\ misfreed' = misfreed \union {b \in B : owner[b] \notin {"none", Wraps}}
         /\ UNCHANGED <<config, extended>>
         /\ brk' = brk \/ brk' <= heap_size * CellSize
         /\ watcher \notin Fixed => brk' = brk
         /\ watcher = "enabled" =>
              room' = room + Bytes[{b \in B : owner[b] # "none" /\ owner[b] = Wraps}]
<1> DEFINE held0 == {b \in B : owner[b] # "none"}
           own == {b \in held0 : owner[b] = Wraps}
<1>1. owner' = [b \in Blocks |-> IF b \in B THEN "none" ELSE owner[b]]
  BY DEF WrapFree, WatcherTypeOK
<1>2. own \in SUBSET Blocks /\ Bytes[own] \in Nat
  BY BytesOf
<1>3. brk' \in Nat /\ dlRoom' \in Nat /\ room' \in Nat
      /\ (brk' = brk \/ brk' <= heap_size * CellSize)
      /\ (watcher \notin Fixed => brk' = brk)
      /\ (watcher = "enabled" => room' = room + Bytes[own])
  <2>1. CASE watcher \in Fixed
    <3>1. PICK g \in {0, DlGranule} :
                /\ g <= dlRoom + Bytes[own]
                /\ IF g = 0 THEN UNCHANGED brk ELSE RtbenchSbrk(-g)
                /\ dlRoom' = dlRoom + Bytes[own] - g
                /\ UNCHANGED room
      BY <2>1 DEF WrapFree, Wraps
    <3>2. g \in Nat /\ -g \in Int
      BY <3>1, NumbersHold DEF Numbers
    <3>3. dlRoom' \in Nat /\ room' \in Nat
      BY <3>1, <3>2, <1>2 DEF WatcherTypeOK
    <3>4. brk' \in Nat /\ (brk' = brk \/ brk' <= heap_size * CellSize)
      BY <3>1, <3>2, SbrkDoes DEF WatcherTypeOK
    <3> QED
      BY <2>1, <3>3, <3>4 DEF Fixed
  <2>2. CASE watcher \notin Fixed
    <3>1. /\ room' = IF watcher = "enabled" THEN room + Bytes[own] ELSE room
          /\ UNCHANGED <<brk, dlRoom>>
      BY <2>2 DEF WrapFree, Wraps
    <3> QED
      BY <3>1, <1>2 DEF WatcherTypeOK
  <2> QED
    BY <2>1, <2>2
<1>4. UNCHANGED <<config, extended>>
  BY DEF WrapFree
<1>5. misfreed' = misfreed \union {b \in B : owner[b] \notin {"none", Wraps}}
  <2>1. misfreed' = misfreed \union (held0 \ own)
    BY DEF WrapFree, Wraps
  <2> QED
    BY <2>1
<1>6. misfreed' \subseteq Blocks /\ owner' \in [Blocks -> Owners]
  BY <1>1, <1>5 DEF WatcherTypeOK, Owners
<1>7. own = {b \in B : owner[b] # "none" /\ owner[b] = Wraps}
  OBVIOUS
<1>8. WatcherTypeOK'
  BY <1>3, <1>4, <1>6 DEF WatcherTypeOK, config
<1> QED
  BY <1>1, <1>3, <1>4, <1>5, <1>7, <1>8

LEMMA RealFreeDoes ==
  ASSUME WatcherTypeOK, NEW b \in Blocks, RealFree(b)
  PROVE  /\ WatcherTypeOK'
         /\ owner' = [owner EXCEPT ![b] = "none"]
         /\ UNCHANGED <<config, brk, room, extended, dlRoom, misfreed>>
  BY DEF RealFree, WatcherTypeOK, config, Owners

(* The start and the stop of the watcher.                                  *)
LEMMA StartDoes ==
  ASSUME WatcherTypeOK, NEW size \in Nat, NEW address \in Nat, NEW kind \in Fixed,
         StartEnabled(size) \/ StartFixed(size, address, kind)
  PROVE  /\ WatcherTypeOK'
         /\ watcher' # "disabled" /\ heap_size' = size
         /\ UNCHANGED <<owner, misfreed>>
<1>1. RoundUp(size, PageSize) \in Nat
  BY RoundUpBounds, NumbersHold DEF Numbers
<1>2. (address % PageSize) * CellSize \in Nat
  <2>1. address % PageSize \in Nat /\ CellSize \in Nat
    BY NumbersHold DEF Numbers
  <2> QED
    BY <2>1
<1>3. CASE StartEnabled(size)
  <2>1. room' \in Nat
    BY <1>3 DEF StartEnabled
  <2> QED
    BY <1>3, <2>1 DEF WatcherTypeOK, StartEnabled, Fixed
<1>4. CASE StartFixed(size, address, kind)
  <2>1. mapped' \in Nat /\ shift' \in Nat /\ heap_size' \in Nat /\ brk' = 0
    BY <1>1, <1>2, <1>4 DEF StartFixed
  <2> QED
    BY <1>4, <2>1 DEF WatcherTypeOK, StartFixed, Fixed
<1> QED
  BY <1>3, <1>4

LEMMA StopDoes ==
  ASSUME WatcherTypeOK, StopMemoryWatcher
  PROVE  /\ WatcherTypeOK'
         /\ watcher' = "disabled"
         /\ UNCHANGED <<heap_size, shift, memory>>
<1>1. CASE watcher = "disabled"
  <2>1. UNCHANGED watcherVars
    BY <1>1 DEF StopMemoryWatcher
  <2> QED
    BY <1>1, <2>1, MemoryStays DEF watcherVars, config
<1>2. CASE watcher # "disabled"
  <2>1. /\ watcher' = "disabled" /\ fds' = {} /\ UNCHANGED <<heap_size, shift, memory>>
        /\ mapped' \in {0, mapped}
    BY <1>2, Zenon DEF StopMemoryWatcher
  <2> QED
    BY <2>1 DEF WatcherTypeOK, memory
<1> QED
  BY <1>1, <1>2
-----------------------------------------------------------------------------
(* The command line                                                        *)

Parses == [o : ExecutionOptions, exit : Outcomes]

LEMMA LineNumbers ==
  /\ {Kilo, SizeBound, CountBound, NSec, Fine, MaxPrio, CpuSetSize} \subseteq Nat \ {0}
  /\ PerfSupport \in BOOLEAN
  BY CommandLineAssumption DEF CommandLineAssumption

LEMMA StopType ==
  ASSUME NEW p \in Parses, NEW how \in Outcomes
  PROVE  Stop(p, how) \in Parses /\ Stop(p, how).o = p.o /\ Stop(p, how).exit = how
  BY DEF Parses, Stop

LEMMA HeapSizeType ==
  ASSUME NEW n \in Int, NEW magnitude PROVE HeapSize(n, magnitude) \in 0 .. SizeBound - 1
<1> DEFINE k1 == n * Kilo
           k2 == n * Kilo * Kilo
           k3 == n * Kilo * Kilo * Kilo
<1>1. k1 \in Int /\ k2 \in Int /\ k3 \in Int
  BY LineNumbers
<1>2. \A k \in Int : k % SizeBound \in 0 .. SizeBound - 1
  BY LineNumbers
<1> QED
  BY <1>1, <1>2 DEF HeapSize

LEMMA TimeTypes ==
  ASSUME NEW t \in Int PROVE SecondsOf(t) \in Int /\ NanosecondsOf(t) \in Int
<1>1. Abs(t) \in Nat /\ Sign(t) \in Int
  BY DEF Abs, Sign
<1>2. NSec * Fine \in Nat \ {0} /\ 2 * Fine \in Nat \ {0} /\ Fine \in Nat
  BY LineNumbers
<1> DEFINE M == NSec * Fine
           a == Abs(t)
<1>3. a \div M \in Int /\ a % M \in Int
  BY <1>1, <1>2
<1>4. (2 * (a % M) + Fine) \div (2 * Fine) \in Int
  BY <1>2, <1>3
<1> HIDE DEF a, M
<1>5. Sign(t) * (a \div M) \in Int /\ Sign(t) * ((2 * (a % M) + Fine) \div (2 * Fine)) \in Int
  BY <1>1, <1>3, <1>4
<1> QED
  BY <1>5 DEF SecondsOf, NanosecondsOf, a, M

(* What an option writes has the type of its member, and a time and its    *)
(* parts go together.                                                      *)
Agrees(o) ==
  /\ o.deadline_sec = SecondsOf(o.parsed_deadline)
  /\ o.deadline_nsec = NanosecondsOf(o.parsed_deadline)
  /\ o.period_sec = SecondsOf(o.parsed_period)
  /\ o.period_nsec = NanosecondsOf(o.parsed_period)
  /\ o.heap_address # 0 => o.heap_file_path = "devmem"

LEMMA InterpretType ==
  ASSUME NEW p \in Parses, p.exit = "go",
         NEW a, a.num \in Int, a.set \in SUBSET Nat, a.key \in Unsigned => a.num \in Nat
  PROVE  /\ InterpretOpt(p, a) \in Parses
         /\ Agrees(p.o) => Agrees(InterpretOpt(p, a).o)
<1> DEFINE r == InterpretOpt(p, a)
<1>1. CASE a.key = "b"
  BY <1>1 DEF InterpretOpt, Parses, ExecutionOptions, Agrees, Unsigned
<1>2. CASE a.key = "m"
  <2> DEFINE size == HeapSize(a.num, a.text)
             r1 == [p EXCEPT !.o.heap_size = size]
  <2>1. r \in {Stop(p, "failure"), Stop(p, "usage"), r1}
    BY <1>2 DEF InterpretOpt, OptMemLimit
  <2>2. size \in 0 .. SizeBound - 1
    BY HeapSizeType
  <2> HIDE DEF size
  <2>3. r1 \in Parses
    BY <2>2 DEF Parses, ExecutionOptions
  <2>4. Agrees(p.o) => Agrees(r1.o)
    BY DEF Parses, ExecutionOptions, Agrees
  <2> HIDE DEF r1
  <2> QED
    BY <2>1, <2>3, <2>4, StopType DEF Outcomes
<1>3. CASE a.key = "H"
  <2>1. r = OptHeap(p, a) /\ a.num \in Nat
    BY <1>3 DEF InterpretOpt, Unsigned
  <2> DEFINE r1 == [p EXCEPT !.o.heap_address = a.num, !.o.heap_file_path = "devmem"]
             r2 == [p EXCEPT !.o.heap_address = 0, !.o.heap_file_path = "file"]
  <2>2. r1 \in Parses /\ r2 \in Parses
    BY <2>1 DEF Parses, ExecutionOptions
  <2>3. Agrees(p.o) => Agrees(r1.o) /\ Agrees(r2.o)
    BY <2>1 DEF Parses, ExecutionOptions, Agrees
  <2> HIDE DEF r1, r2
  <2>4. r \in {Stop(p, "failure"), r1, r2}
    BY <2>1 DEF OptHeap, r1, r2
  <2> QED
    BY <2>2, <2>3, <2>4, StopType DEF Outcomes
<1>4. CASE a.key \in {"d", "p"}
  <2> DEFINE sec == SecondsOf(a.num)
             nsec == NanosecondsOf(a.num)
             r1 == [p EXCEPT !.o.parsed_deadline = a.num, !.o.deadline_sec = sec,
                             !.o.deadline_nsec = nsec]
             r2 == [p EXCEPT !.o.parsed_period = a.num, !.o.period_sec = sec,
                             !.o.period_nsec = nsec]
  <2>1. r = OptTime(p, a)
    BY <1>4 DEF InterpretOpt
  <2>2. r \in {Stop(p, "failure"), Stop(p, "usage"), r1, r2}
    BY <2>1 DEF OptTime
  <2>3. sec \in Int /\ nsec \in Int
    BY TimeTypes
  <2>4. r1 \in Parses /\ r2 \in Parses
    <3> HIDE DEF sec, nsec
    <3> QED
      BY <2>3 DEF Parses, ExecutionOptions
  <2>5. Agrees(p.o) => Agrees(r1.o) /\ Agrees(r2.o)
    BY DEF Parses, ExecutionOptions, Agrees
  <2> HIDE DEF r1, r2
  <2> QED
    BY <2>2, <2>4, <2>5, StopType DEF Outcomes
<1>5. CASE a.key = "o"
  BY <1>5 DEF InterpretOpt, Parses, ExecutionOptions, Agrees
<1>6. CASE a.key = "l"
  <2> DEFINE r1 == [p EXCEPT !.o.verbosity = a.num]
  <2>1. r = OptLogLevel(p, a)
    BY <1>6 DEF InterpretOpt
  <2>2. a.num > LOG_LEVEL_MIN /\ a.num < LOG_LEVEL_MAX => r1 \in Parses
    BY DEF Parses, ExecutionOptions, LOG_LEVEL_MIN, LOG_LEVEL_MAX
  <2>3. Agrees(p.o) => Agrees(r1.o)
    BY DEF Parses, ExecutionOptions, Agrees
  <2> HIDE DEF r1
  <2> QED
    BY <2>1, <2>2, <2>3, StopType DEF OptLogLevel, Outcomes, r1
<1>7. CASE a.key = "c"
  <2> DEFINE mask == CpuSet(p.o.core_affinity, a.set)
             r1 == [p EXCEPT !.o.core_affinity = mask]
  <2>1. r = OptAffinity(p, a)
    BY <1>7 DEF InterpretOpt
  <2>2. p.o.core_affinity \subseteq 0 .. CpuSetSize - 1
    BY DEF Parses, ExecutionOptions
  <2>3. mask \subseteq 0 .. CpuSetSize - 1
    BY <2>2, LineNumbers DEF CpuSet
  <2> HIDE DEF mask
  <2>4. r1 \in Parses
    BY <2>3 DEF Parses, ExecutionOptions
  <2>5. Agrees(p.o) => Agrees(r1.o)
    BY DEF Parses, ExecutionOptions, Agrees
  <2> HIDE DEF r1
  <2>6. r \in {Stop(p, "failure"), r1}
    BY <2>1 DEF OptAffinity, r1, mask
  <2> QED
    BY <2>4, <2>5, <2>6, StopType DEF Outcomes
<1>8. CASE a.key = "t"
  <2> DEFINE tasks == a.num % CountBound
             r1 == [p EXCEPT !.o.tasks_to_launch = tasks]
  <2>1. r \in {Stop(p, "failure"), r1}
    BY <1>8 DEF InterpretOpt, OptTasks
  <2>2. tasks \in 0 .. CountBound - 1
    BY LineNumbers
  <2> HIDE DEF tasks
  <2>3. r1 \in Parses
    BY <2>2 DEF Parses, ExecutionOptions
  <2>4. Agrees(p.o) => Agrees(r1.o)
    BY DEF Parses, ExecutionOptions, Agrees
  <2> HIDE DEF r1
  <2> QED
    BY <2>1, <2>3, <2>4, StopType DEF Outcomes
<1>9. CASE a.key = "h"
  BY <1>9, StopType DEF InterpretOpt, Outcomes
<1>10. CASE a.key \in {"f", "T", "D", "P", "s"}
  <2>1. a.key = "f" => r = [p EXCEPT !.o.prio = a.num]
    BY DEF InterpretOpt
  <2>2. a.key = "T" => r = [p EXCEPT !.o.runtime = a.num]
    BY DEF InterpretOpt
  <2>3. a.key = "D" => r = [p EXCEPT !.o.deadline = a.num]
    BY DEF InterpretOpt
  <2>4. a.key = "P" => r = [p EXCEPT !.o.period = a.num]
    BY DEF InterpretOpt
  <2>5. a.key = "s" => r = [p EXCEPT !.o.synch_start = TRUE]
    BY DEF InterpretOpt
  <2> HIDE DEF r
  <2>6. a.key # "s" => a.num \in Nat
    BY <1>10 DEF Unsigned
  <2>7. r \in Parses
    <3>1. \A n \in Nat : [p EXCEPT !.o.prio = n] \in Parses
      BY DEF Parses, ExecutionOptions
    <3>2. \A n \in Nat : [p EXCEPT !.o.runtime = n] \in Parses
      BY DEF Parses, ExecutionOptions
    <3>3. \A n \in Nat : [p EXCEPT !.o.deadline = n] \in Parses
      BY DEF Parses, ExecutionOptions
    <3>4. \A n \in Nat : [p EXCEPT !.o.period = n] \in Parses
      BY DEF Parses, ExecutionOptions
    <3>5. [p EXCEPT !.o.synch_start = TRUE] \in Parses
      BY DEF Parses, ExecutionOptions
    <3> QED
      BY <1>10, <2>1, <2>2, <2>3, <2>4, <2>5, <2>6, <3>1, <3>2, <3>3, <3>4, <3>5
  <2>8. Agrees(p.o) => Agrees(r.o)
    BY <1>10, <2>1, <2>2, <2>3, <2>4, <2>5 DEF Parses, ExecutionOptions, Agrees
  <2> QED
    BY <2>7, <2>8 DEF r
<1>11. CASE a.key \in {"M", "B"} /\ PerfSupport
  BY <1>11 DEF InterpretOpt, Parses, ExecutionOptions, Agrees, Unsigned
<1>12. CASE a.key = "C" /\ PerfSupport
  <2> DEFINE mask == CpuSet(p.o.memory_profiling_core_affinity, {a.num})
             r1 == [p EXCEPT !.o.memory_profiling_core_affinity = mask]
  <2>1. r = r1
    BY <1>12 DEF InterpretOpt
  <2>2. p.o.memory_profiling_core_affinity \subseteq 0 .. CpuSetSize - 1 /\ a.num \in Nat
    BY <1>12 DEF Parses, ExecutionOptions, Unsigned
  <2>3. mask \subseteq 0 .. CpuSetSize - 1
    BY <2>2, LineNumbers DEF CpuSet
  <2> HIDE DEF mask
  <2>4. r1 \in Parses
    BY <2>3 DEF Parses, ExecutionOptions
  <2>5. Agrees(p.o) => Agrees(r1.o)
    BY DEF Parses, ExecutionOptions, Agrees
  <2> QED
    BY <2>1, <2>4, <2>5
<1>13. CASE /\ a.key \notin {"b", "m", "H", "d", "p", "o", "l", "c", "t", "h", "f", "T", "D",
                             "P", "s"}
            /\ ~ (a.key \in {"M", "C", "B"} /\ PerfSupport)
  <2>1. r = Stop(p, "usage")
    BY <1>13 DEF InterpretOpt
  <2> QED
    BY <2>1, StopType DEF Outcomes
<1> QED
  BY <1>1, <1>2, <1>3, <1>4, <1>5, <1>6, <1>7, <1>8, <1>9, <1>10, <1>11, <1>12, <1>13

LEMMA FieldType ==
  ASSUME NEW p \in Parses, p.exit = "go",
         NEW a, a.num \in Int, a.set \in SUBSET Nat, a.key \in Unsigned => a.num \in Nat
  PROVE  /\ ParseField(p, a) \in Parses
         /\ Agrees(p.o) => Agrees(ParseField(p, a).o)
  BY InterpretType, StopType DEF ParseField, Outcomes

LEMMA OptionType ==
  ASSUME NEW p \in Parses, p.exit = "go",
         NEW a, a.num \in Int, a.set \in SUBSET Nat, a.key \in Unsigned => a.num \in Nat
  PROVE  /\ ParseOpt(p, a) \in Parses
         /\ Agrees(p.o) => Agrees(ParseOpt(p, a).o)
<1> DEFINE r1 == [p EXCEPT !.o.heap_file_path = "freed"]
<1>1. r1 \in Parses
  BY DEF Parses, ExecutionOptions
<1>2. Agrees(p.o) /\ p.o.heap_file_path = "file" => Agrees(r1.o)
  BY DEF Parses, ExecutionOptions, Agrees
<1> HIDE DEF r1
<1>3. FileRead(p, a.fields) = p \/ (p.o.heap_file_path = "file" /\ FileRead(p, a.fields) = r1)
  BY DEF FileRead, r1
<1>4. ParseOpt(p, a) \in {FileRead(p, a.fields), Stop(p, "usage"), InterpretOpt(p, a)}
  BY DEF ParseOpt
<1> QED
  BY <1>1, <1>2, <1>3, <1>4, InterpretType, StopType DEF Outcomes

(* What a program's line holds.                                            *)
LEMMA LineType ==
  ASSUME NEW line \in Seq(Options), NEW n \in Nat, n < Len(line)
  PROVE  /\ Len(line) \in Nat
         /\ line[n + 1].num \in Int /\ line[n + 1].set \in SUBSET Nat
         /\ line[n + 1].key \in Unsigned => line[n + 1].num \in Nat
         /\ line[n + 1].fields \in Seq(Words({<<>>}))
<1>1. n + 1 \in 1 .. Len(line) /\ Len(line) \in Nat
  OBVIOUS
<1>2. line[n + 1] \in Options
  BY <1>1
<1> QED
  BY <1>1, <1>2 DEF Options, Words

LEMMA FieldsType ==
  ASSUME NEW fields \in Seq(Words({<<>>})), NEW n \in Nat, n < Len(fields)
  PROVE  /\ fields[n + 1].num \in Int /\ fields[n + 1].set \in SUBSET Nat
         /\ fields[n + 1].key \in Unsigned => fields[n + 1].num \in Nat
<1>1. n + 1 \in 1 .. Len(fields)
  OBVIOUS
<1>2. fields[n + 1] \in Words({<<>>})
  BY <1>1
<1> QED
  BY <1>2 DEF Words

LEMMA EndType ==
  ASSUME NEW p \in Parses, p.exit = "go", NEW root
  PROVE  /\ ParseEnd(p, root) \in Parses
         /\ ParseEnd(p, root).exit = "go" => ParseEnd(p, root) = p /\ Consistent(p.o)
  BY StopType DEF ParseEnd, Outcomes

LEMMA ImplicitType ==
  ASSUME NEW o \in ExecutionOptions
  PROVE  ImplicitDeadline(o) \in ExecutionOptions
  BY DEF ImplicitDeadline, ExecutionOptions
(* A longer time is not rounded to less than a shorter one: with m parts   *)
(* in a second, by the seconds or, in the same second, by the rest.        *)
Whole(a) == (a \div (NSec * Fine)) * NSec
              + ((2 * (a % (NSec * Fine)) + Fine) \div (2 * Fine))
Rounded(t) == SecondsOf(t) * NSec + NanosecondsOf(t)

LEMMA ProductMonotone ==
  ASSUME NEW k \in Nat, NEW x \in Int, NEW y \in Int, x <= y
  PROVE  k * x \in Int /\ k * y \in Int /\ k * x <= k * y
<1>1. y - x \in Nat
  OBVIOUS
<1>2. k * (y - x) \in Nat /\ k * (y - x) = k * y - k * x
  BY <1>1
<1>3. k * x \in Int /\ k * y \in Int
  OBVIOUS
<1> QED
  BY <1>2, <1>3

LEMMA QuotientMonotone ==
  ASSUME NEW k \in Nat \ {0}, NEW x \in Nat, NEW y \in Nat, x <= y
  PROVE  x \div k \in Nat /\ y \div k \in Nat /\ x \div k <= y \div k
<1> DEFINE d == x \div k
           e == y \div k
<1>1. /\ d \in Nat /\ x % k \in 0 .. k - 1 /\ x = k * d + (x % k)
      /\ e \in Nat /\ y % k \in 0 .. k - 1 /\ y = k * e + (y % k)
  OBVIOUS
<1>2. ASSUME e < d PROVE FALSE
  <2>1. k * (e + 1) <= k * d /\ k * (e + 1) = k * e + k
    BY <1>1, <1>2, ProductMonotone
  <2>2. k * e \in Nat /\ k * d \in Nat
    BY <1>1
  <2> DEFINE kd == k * d
             ke == k * e
             xr == x % k
             yr == y % k
  <2>3. /\ ke + k <= kd /\ x = kd + xr /\ y = ke + yr /\ xr >= 0 /\ yr <= k - 1
        /\ xr \in Int /\ yr \in Int /\ kd \in Int /\ ke \in Int
    BY <1>1, <2>1, <2>2
  <2> HIDE DEF kd, ke, xr, yr, d, e
  <2> QED
    BY <2>3
<1> QED
  BY <1>1, <1>2

LEMMA WholeMonotone ==
  ASSUME NEW a \in Nat, NEW b \in Nat, a <= b
  PROVE  Whole(a) \in Nat /\ Whole(b) \in Nat /\ Whole(a) <= Whole(b)
<1> DEFINE M == NSec * Fine
           q == a \div M
           r == a % M
           u == b \div M
           v == b % M
           n == (2 * r + Fine) \div (2 * Fine)
           w == (2 * v + Fine) \div (2 * Fine)
<1>1. M \in Nat \ {0} /\ 2 * Fine \in Nat \ {0} /\ Fine \in Nat \ {0} /\ NSec \in Nat \ {0}
  BY LineNumbers
<1>2. /\ q \in Nat /\ r \in 0 .. M - 1 /\ a = M * q + r
      /\ u \in Nat /\ v \in 0 .. M - 1 /\ b = M * u + v
  <2> HIDE DEF M
  <2> QED
    BY <1>1
<1>3. q <= u
  BY <1>1, QuotientMonotone
<1>4. n \in Nat /\ w \in Nat /\ n <= NSec
  <2>1. 2 * r + Fine \in Nat /\ 2 * v + Fine \in Nat
    BY <1>1, <1>2
  <2>2. n \in Nat /\ w \in Nat
    <3> HIDE DEF r, v
    <3> QED
      BY <2>1, <1>1
  <2>3. (2 * Fine) * n <= 2 * r + Fine
    <3> DEFINE x == 2 * r + Fine
               k == 2 * Fine
    <3>1. x \in Nat /\ k \in Nat \ {0}
      BY <1>1, <2>1
    <3> HIDE DEF x, k
    <3>2. x % k \in Nat /\ x = k * (x \div k) + (x % k) /\ k * (x \div k) \in Int
      BY <3>1
    <3>3. k * (x \div k) <= x
      BY <3>1, <3>2
    <3> QED
      BY <3>3 DEF x, k
  <2>4. ASSUME NSec + 1 <= n PROVE FALSE
    <3>1. (2 * Fine) * (NSec + 1) <= (2 * Fine) * n
      BY <1>1, <2>2, <2>4, ProductMonotone
    <3>2. (2 * Fine) * (NSec + 1) = 2 * M + 2 * Fine
      BY <1>1
    <3> DEFINE x == (2 * Fine) * n
    <3>3. x \in Int
      BY <1>1, <2>2
    <3> HIDE DEF x, M, n, r
    <3> QED
      BY <1>1, <1>2, <2>3, <3>1, <3>2, <3>3 DEF x
  <2> QED
    BY <1>1, <2>2, <2>4
<1>5. Whole(a) = q * NSec + n /\ Whole(b) = u * NSec + w
  BY DEF Whole
<1>6. q * NSec \in Nat /\ u * NSec \in Nat
  BY <1>1, <1>2
<1>7. CASE q = u
  <2>1. r <= v
    <3> HIDE DEF q, r, u, v, M
    <3>1. M * u \in Int
      BY <1>1, <1>2
    <3> QED
      BY <1>2, <1>7, <3>1
  <2>2. 2 * r + Fine \in Nat /\ 2 * v + Fine \in Nat /\ 2 * r + Fine <= 2 * v + Fine
    BY <1>1, <1>2, <2>1
  <2>3. n <= w
    <3> HIDE DEF r, v
    <3> QED
      BY <1>1, <2>2, QuotientMonotone
  <2> HIDE DEF q, u, n, w
  <2> QED
    BY <1>4, <1>5, <1>6, <1>7, <2>3
<1>8. CASE q < u
  <2>1. NSec * (q + 1) <= NSec * u
    BY <1>1, <1>2, <1>8, ProductMonotone
  <2>2. NSec * (q + 1) = q * NSec + NSec /\ NSec * u = u * NSec
    BY <1>1, <1>2
  <2> DEFINE x == q * NSec
             y == u * NSec
  <2>3. x + NSec <= y
    BY <2>1, <2>2
  <2> HIDE DEF x, y, n, w
  <2> QED
    BY <1>1, <1>4, <1>5, <1>6, <2>3 DEF x, y
<1> QED
  BY <1>2, <1>3, <1>7, <1>8

LEMMA RoundedIs ==
  ASSUME NEW t \in Int PROVE Rounded(t) = Sign(t) * Whole(Abs(t))
<1> DEFINE a == Abs(t)
           M == NSec * Fine
           q == a \div M
           n == (2 * (a % M) + Fine) \div (2 * Fine)
<1>1. a \in Nat /\ Sign(t) \in {-1, 1}
  BY DEF Abs, Sign
<1>2. M \in Nat \ {0} /\ 2 * Fine \in Nat \ {0} /\ Fine \in Nat /\ NSec \in Nat
  BY LineNumbers
<1>3. q \in Int /\ a % M \in Int
  BY <1>1, <1>2
<1>4. n \in Int
  BY <1>2, <1>3
<1>5. Rounded(t) = (Sign(t) * q) * NSec + Sign(t) * n /\ Whole(a) = q * NSec + n
  BY DEF Rounded, SecondsOf, NanosecondsOf, Whole
<1> HIDE DEF q, n, a
<1>6. (Sign(t) * q) * NSec + Sign(t) * n = Sign(t) * (q * NSec + n)
  BY <1>1, <1>2, <1>3, <1>4
<1> QED
  BY <1>5, <1>6 DEF a

LEMMA RoundedMonotone ==
  ASSUME NEW s \in Int, NEW t \in Int, s <= t
  PROVE  Rounded(s) <= Rounded(t)
<1>1. Abs(s) \in Nat /\ Abs(t) \in Nat
  BY DEF Abs
<1>2. Whole(Abs(s)) \in Nat /\ Whole(Abs(t)) \in Nat
  BY <1>1, WholeMonotone
<1>3. CASE s >= 0
  <2>1. Abs(s) <= Abs(t) /\ Sign(s) = 1 /\ Sign(t) = 1
    BY <1>3 DEF Abs, Sign
  <2>2. Whole(Abs(s)) <= Whole(Abs(t))
    BY <1>1, <2>1, WholeMonotone
  <2> QED
    BY <1>2, <2>1, <2>2, RoundedIs
<1>4. CASE t < 0
  <2>1. Abs(t) <= Abs(s) /\ Sign(s) = -1 /\ Sign(t) = -1
    BY <1>4 DEF Abs, Sign
  <2>2. Whole(Abs(t)) <= Whole(Abs(s))
    BY <1>1, <2>1, WholeMonotone
  <2> QED
    BY <1>2, <2>1, <2>2, RoundedIs
<1>5. CASE s < 0 /\ t >= 0
  <2>1. Sign(s) = -1 /\ Sign(t) = 1
    BY <1>5 DEF Sign
  <2> QED
    BY <1>2, <2>1, RoundedIs
<1> QED
  BY <1>3, <1>4, <1>5

(* The options the program runs with are consistent.                       *)
ConsistentOptions(o) ==
  /\ o.deadline_sec * NSec + o.deadline_nsec <= o.period_sec * NSec + o.period_nsec
  /\ o.heap_file_path # "none" => o.heap_size > 0
  /\ o.heap_address # 0 => o.heap_file_path = "devmem"
  /\ o.prio = NoPrio \/ o.period = 0

LEMMA FinalOptions ==
  ASSUME NEW o \in ExecutionOptions, Agrees(o), Consistent(o)
  PROVE  ConsistentOptions(ImplicitDeadline(o))
<1>1. o.parsed_deadline \in Int /\ o.parsed_period \in Int /\ o.parsed_deadline <= o.parsed_period
  BY DEF ExecutionOptions, Consistent
<1>2. Rounded(o.parsed_deadline) <= Rounded(o.parsed_period)
  BY <1>1, RoundedMonotone
<1>3. o.deadline_sec * NSec + o.deadline_nsec <= o.period_sec * NSec + o.period_nsec
  BY <1>2 DEF Rounded, Agrees
<1>4. /\ o.heap_file_path # "none" => o.heap_size > 0
      /\ o.prio = NoPrio \/ o.period = 0
  BY DEF Consistent, ExecutionOptions
<1>5. o.period_sec * NSec + o.period_nsec \in Int
  <2>1. o.period_sec \in Int /\ o.period_nsec \in Int /\ NSec \in Int
    BY LineNumbers DEF ExecutionOptions
  <2> QED
    BY <2>1
<1> DEFINE o1 == [o EXCEPT !.parsed_deadline = o.parsed_period, !.deadline_sec = o.period_sec,
                           !.deadline_nsec = o.period_nsec]
<1>6. /\ o1.deadline_sec = o.period_sec /\ o1.deadline_nsec = o.period_nsec
      /\ o1.period_sec = o.period_sec /\ o1.period_nsec = o.period_nsec
      /\ o1.heap_file_path = o.heap_file_path /\ o1.heap_size = o.heap_size
      /\ o1.heap_address = o.heap_address /\ o1.prio = o.prio /\ o1.period = o.period
  BY DEF ExecutionOptions
<1>7. ImplicitDeadline(o) \in {o, o1}
  BY DEF ImplicitDeadline
<1> HIDE DEF o1
<1>8. ConsistentOptions(o)
  BY <1>3, <1>4 DEF ConsistentOptions, Agrees
<1>9. ConsistentOptions(o1)
  BY <1>4, <1>5, <1>6 DEF ConsistentOptions, Agrees
<1> QED
  BY <1>7, <1>8, <1>9
-----------------------------------------------------------------------------
(* The inductive invariant                                                 *)

UntilOnExit == {"parse", "sampler", "samplerThread", "onExit"}
UntilSigint == UntilOnExit \union {"affinity", "sigint"}
UntilNames == UntilSigint \union {"pmcs", "names"}
UntilWatcher == UntilNames \union {"master", "watcher"}
UntilData == UntilWatcher \union {"pagemap", "data"}
UntilHeader == UntilData \union {"header"}
UntilThread == UntilHeader \union {"thread"}
UntilOutput == UntilThread \union {"publish", "output"}
UntilFopen == UntilOutput \union {"fopen"}
Running == SetupSteps \union JobSteps
AfterWatcher == {"stopOptions", "stopOutput", "stopSampler", "stopDeadline", "stopPeriod",
                 "stopPmcs", "stopGroup"}

(* The blocks of the wrapped malloc(), those that are allocated after the  *)
(* watcher has started, and all.                                           *)
Wrapped == {"data", "threadInfo", "fname", "job"}
Later == Wrapped \union {"header", "file", "moreSamples"}
Known == Later \union {"args", "outputPath", "groupNames", "samples"}

(* Before its step a block is not allocated.                               *)
Fresh ==
  /\ pc \in UntilWatcher => ~ sampling /\ \A b \in Later : owner[b] = "none"
  /\ pc \in UntilData => owner["data"] = "none"
  /\ pc \in UntilHeader => owner["header"] = "none"
  /\ pc \in UntilThread => owner["threadInfo"] = "none"
  /\ pc \in UntilOutput => owner["fname"] = "none"
  /\ pc \in UntilFopen => owner["file"] = "none"
  /\ pc \in Running \ {"run"} => owner["job"] = "none"
  /\ \A b \in Blocks \ Known : owner[b] = "none"

(* dlmalloc has served the wrapped malloc() only, and while the watcher    *)
(* has the heap fixed it has served nothing else.                          *)
Whose ==
  /\ pc \in UntilWatcher \union AfterWatcher => watcher = "disabled"
  /\ \A b \in Blocks \ Wrapped : owner[b] # "dl"
  /\ watcher \in Fixed => \A b \in Wrapped : owner[b] # "libc"
  /\ watcher \notin Fixed /\ pc \notin AfterWatcher \union Over =>
       \A b \in Wrapped : owner[b] # "dl"
  /\ FreedByItsAllocator

(* The heap is the mapping, its break below its limit.                     *)
HeapKept ==
  /\ brk <= heap_size * CellSize
  /\ pc \in UntilWatcher => brk = 0 /\ mapped = 0
  /\ watcher \in Fixed =>
       /\ mapped = RoundUp(heap_size, PageSize)
       /\ shift = (opts.heap_address % PageSize) * CellSize

(* Until the program break moves, libc has what is left of the limit.      *)
RoomKept ==
  /\ before \intersect Later = {}
  /\ watcher = "enabled" /\ ~ extended => heap_size <= room + Bytes[Taken]

(* Jobs are counted, and success is reported for a reason.                 *)
Counted ==
  /\ pc \in Running => exit = "none" /\ status = "none"
  /\ exit = "none" => pc \in Running \union Over
  /\ pc \in SetupSteps => jobs = 0
  /\ pc \in UntilSigint => pmcs = 0
  /\ pc = "pmcs" => pmcs < Pmcs
  /\ pc \in {"wait", "start", "run"} /\ opts.tasks_to_launch # 0 => jobs < opts.tasks_to_launch
  /\ pc = "loop" /\ opts.tasks_to_launch # 0 => jobs <= opts.tasks_to_launch
  /\ pc = "last" => jobs = opts.tasks_to_launch /\ jobs > 0
  /\ pc \in UntilOnExit => "onExit" \notin hooks
  /\ pc \in UntilOnExit \ {"onExit"} => "sampler" \notin held
  /\ status = "success" =>
       \/ exit \in {"sigint", "again"}
       \/ jobs = opts.tasks_to_launch /\ jobs > 0
       \/ outcome \in {"help", "unknown"}
       \/ Profiling /\ "sampler" \notin held /\ "onExit" \notin hooks

(* What a process holds, and why.                                          *)
AlignedHeap == opts.heap_address % PageSize = 0
SamplerHas == {"samplerFile", "perfTimer", "sampler"}
GroupHas == {"initSem", "shm", "shmFd"}
Timers == {"perfTimer", "deadlineTimer", "periodTimer"}

Held ==
  /\ held \intersect SamplerHas # {} => Profiling
  /\ sampling \/ owner["samples"] # "none" \/ owner["moreSamples"] # "none" => Profiling
  /\ held \intersect GroupHas # {} => group = "mapped"
  /\ held \intersect Timers # {} => created # <<>>
  /\ owner["groupNames"] # "none" => group \in {"named", "mapped"}
  /\ owner["threadInfo"] # "none" => "threads" \in held
  /\ owner["file"] # "none" => "output" \in held
  /\ watcher = "disabled" => fds = {}
  /\ watcher \notin Fixed /\ AlignedHeap => mapped = 0
  /\ pc = "pagemap" => watcher # "disabled"
  /\ pc = "samplerThread" => Profiling
  /\ pc = "parse" => held \intersect SamplerHas = {} /\ owner["samples"] = "none"

(* Who is the group's master, and that SIGINT has stop_benchmark() run.    *)
Mastered ==
  /\ "sigint" \in hooks => "onExit" \in hooks
  /\ pc \in Running \ UntilOnExit => "onExit" \in hooks
  /\ pc \in UntilSigint => "sigint" \notin hooks
  /\ pc \in Running => group \in {"none", "mapped"}
  /\ pc \in UntilNames => group = "none" /\ names = IF prog.joins THEN {"sem", "shm"} ELSE {}
  /\ pc = "master" /\ ~ prog.joins => master = "creator"
  /\ pc \in Running \ {"master"} /\ ~ prog.joins /\ names # {} => master = "master"

(* How far stop_benchmark() has come after SIGINT.                         *)
ToData == {"stopThreads", "stopData"}
ToWatcher == ToData \union {"stopWatcher"}
ToOptions == ToWatcher \union {"stopOptions"}
ToOutput == ToOptions \union {"stopOutput"}
ToSampler == ToOutput \union {"stopSampler"}
ToDeadline == ToSampler \union {"stopDeadline"}
ToPeriod == ToDeadline \union {"stopPeriod"}
ToPmcs == ToPeriod \union {"stopPmcs"}
Kept(timer) == timer \in held => created # <<>> /\ created[1] = timer

Interrupted ==
  exit = "sigint" =>
    /\ pc \in StopSteps \union {"exited", "crashed"}
    /\ pc \in StopSteps => group \in {"none", "mapped"}
    /\ pc \in StopSteps /\ at # "master" /\ ~ prog.joins /\ names # {} => master = "master"
    /\ pc # "stopThreads" => "threads" \notin held /\ owner["threadInfo"] = "none"
    /\ pc \notin ToData => owner["data"] = "none" /\ owner["header"] = "none"
    /\ pc \notin ToWatcher => watcher = "disabled"
    /\ pc \notin ToOptions => owner["args"] = "none" /\ owner["outputPath"] = "none"
    /\ pc \notin ToOutput => "output" \notin held /\ owner["file"] = "none"
    /\ pc = "crashed" /\ SwitchAgrees => Profiling /\ "samplerFile" \notin held
    /\ pc # "crashed" =>
         /\ pc \notin ToSampler /\ SwitchAgrees =>
              /\ held \intersect SamplerHas = {}
              /\ owner["samples"] = "none" /\ owner["moreSamples"] = "none"
         /\ pc \notin ToDeadline => Kept("deadlineTimer")
         /\ pc \notin ToPeriod => Kept("periodTimer")
         /\ pc \notin ToPmcs => pmcs = 0
    /\ pc = "exited" =>
         /\ held \intersect GroupHas = {} /\ owner["groupNames"] = "none"
         /\ at # "master" /\ ~ prog.joins => names = {}

(* While the options are read a time and its parts agree.                  *)
Written ==
  /\ pc = "parse" => outcome = "parsing"
  /\ outcome = "parsing" =>
       /\ opts.deadline_sec = SecondsOf(opts.parsed_deadline)
       /\ opts.deadline_nsec = NanosecondsOf(opts.parsed_deadline)
       /\ opts.period_sec = SecondsOf(opts.parsed_period)
       /\ opts.period_nsec = NanosecondsOf(opts.parsed_period)
       /\ opts.heap_address # 0 => opts.heap_file_path = "devmem"
  /\ ParsedConsistent

(* The types, without the watcher's.                                       *)
ProgType ==
  /\ prog \in Programs /\ opts \in ExecutionOptions /\ outcome \in Outcomes \union {"parsing"}
  /\ arg \in 0 .. Len(prog.line) /\ field \in Nat
ExitType ==
  /\ pc \in SetupSteps \union JobSteps \union StopSteps \union Over
  /\ exit \in {"none", "return", "call", "handler", "sigint", "again"}
  /\ status \in {"none", "success", "failure"}
  /\ at \in {"none"} \union SetupSteps \union JobSteps
  /\ hooks \subseteq {"onExit", "sigint"}
ResType ==
  /\ held \subseteq Resources /\ pmcs \in 0 .. Pmcs
  /\ created \in Seq({"perfTimer", "deadlineTimer", "periodTimer"}) /\ armed \in BOOLEAN
  /\ group \in {"none", "named", "mapped", "freed"}
  /\ master \in {"no", "creator", "master"} /\ names \subseteq {"sem", "shm"}
JobType ==
  /\ mt \in {"disabled", "initializing", "waiting_start", "enabled", "waiting_end", "err"}
  /\ {sampling, synchDone, started, jobEnded} \subseteq BOOLEAN
  /\ {posts, jobs} \subseteq Nat /\ expiries \in 0 .. MaxExpiries
MemType ==
  /\ WatcherTypeOK
  /\ aborted \in Blocks \union {"none"} /\ before \subseteq Blocks

LEMMA TypeParts == TypeOK <=> ProgType /\ ExitType /\ ResType /\ JobType /\ MemType
  BY DEF TypeOK, ProgType, ExitType, ResType, JobType, MemType

IInv ==
  /\ ProgType /\ ExitType /\ ResType /\ JobType /\ MemType
  /\ Fresh /\ Whose /\ HeapKept /\ RoomKept /\ Counted /\ Held /\ Mastered /\ Interrupted
  /\ Written

(* What libc has left of the limit, after an allocation,                   *)
LEMMA RoomAfterMalloc ==
  ASSUME MemType, RoomKept, NEW b \in Blocks, owner[b] = "none", b \in Later \/ watcher # "enabled",
         RealMalloc(b), UNCHANGED before
  PROVE  RoomKept'
<1>1. before' \intersect Later = {}
  BY DEF RoomKept
<1>2. ASSUME watcher' = "enabled", ~ extended' PROVE heap_size' <= room' + Bytes[Taken']
  <2>1. /\ watcher = "enabled" /\ b \notin before /\ heap_size' = heap_size
        /\ owner' = [owner EXCEPT ![b] = "libc"] /\ owner \in [Blocks -> Owners]
    BY <1>2, RealMallocDoes DEF RoomKept, config, MemType, WatcherTypeOK
  <2>2. room' = room - Size[b] /\ ~ extended
    BY <1>2, <2>1 DEF RealMalloc
  <2>3. Taken \in SUBSET Blocks /\ Taken' \in SUBSET Blocks /\ b \in Taken' /\ Taken' \ {b} = Taken
    BY <2>1 DEF Taken, Allocated
  <2>4. Bytes[Taken'] = Size[b] + Bytes[Taken]
    BY <2>3, BytesRemove
  <2>5. Bytes[Taken] \in Nat /\ Size[b] \in Nat /\ room \in Nat /\ heap_size \in Nat
    BY <2>3, BytesOf, BlocksFinite DEF MemType, WatcherTypeOK
  <2>6. heap_size <= room + Bytes[Taken]
    BY <2>1, <2>2 DEF RoomKept
  <2> HIDE DEF Taken
  <2> QED
    BY <2>1, <2>2, <2>4, <2>5, <2>6
<1> QED
  BY <1>1, <1>2 DEF RoomKept

LEMMA RoomAfterWrapMalloc ==
  ASSUME MemType, RoomKept, NEW b \in Blocks, owner[b] = "none", b \in Later \/ watcher # "enabled",
         NEW threaded, WrapMallocOk(b, threaded), UNCHANGED before
  PROVE  RoomKept'
<1>1. CASE watcher \in Fixed
  <2>1. watcher' # "enabled"
    BY <1>1, WrapMallocDoes DEF MemType, config, Fixed
  <2> QED
    BY <2>1 DEF RoomKept
<1>2. CASE watcher \notin Fixed
  BY <1>2, RoomAfterMalloc DEF WrapMallocOk
<1> QED
  BY <1>1, <1>2

LEMMA RoomAfterAbort ==
  ASSUME RoomKept, NEW b, NEW threaded, WrapMallocAborts(b, threaded), UNCHANGED before
  PROVE  RoomKept'
  BY DEF WrapMallocAborts, RoomKept

(* and after blocks are freed, all of which are libc's own.                *)
LEMMA RoomAfterFree ==
  ASSUME MemType, RoomKept, NEW B \in SUBSET Blocks,
         watcher = "enabled" => \A b \in Blocks : owner[b] # "dl",
         WrapFree(B), UNCHANGED before
  PROVE  RoomKept'
<1>1. before' \intersect Later = {}
  BY DEF RoomKept
<1>2. ASSUME watcher' = "enabled", ~ extended' PROVE heap_size' <= room' + Bytes[Taken']
  <2> DEFINE own == {b \in B : owner[b] # "none" /\ owner[b] = Wraps}
             gone == Taken \intersect B
  <2>1. /\ watcher = "enabled" /\ ~ extended /\ heap_size' = heap_size
        /\ room' = room + Bytes[own]
        /\ owner' = [b \in Blocks |-> IF b \in B THEN "none" ELSE owner[b]]
        /\ owner \in [Blocks -> Owners]
    BY <1>2, WrapFreeDoes DEF config, MemType, WatcherTypeOK
  <2>2. Taken \in SUBSET Blocks /\ gone \in SUBSET Taken /\ Taken' = Taken \ gone
    BY <2>1 DEF Taken, Allocated
  <2>3. own \in SUBSET Blocks /\ gone \in SUBSET own
    BY <2>1 DEF Taken, Allocated, Wraps, Fixed, Owners
  <2>4. Bytes[Taken'] = Bytes[Taken] - Bytes[gone] /\ Bytes[gone] <= Bytes[own]
    BY <2>2, <2>3, BytesSubset
  <2>5. {Bytes[Taken], Bytes[gone], Bytes[own], room, heap_size} \subseteq Nat
    BY <2>2, <2>3, BytesOf DEF MemType, WatcherTypeOK
  <2>6. heap_size <= room + Bytes[Taken]
    BY <2>1 DEF RoomKept
  <2> HIDE DEF own, gone
  <2> QED
    BY <2>1, <2>4, <2>5, <2>6
<1> QED
  BY <1>1, <1>2 DEF RoomKept

LEMMA KnownBlocks == Known \subseteq Blocks
  BY ProcessAssumption DEF ProcessAssumption, Known, Later, Wrapped
================================================================================
