----------------------------- MODULE IslandsProofs -----------------------------
(***************************************************************************)
(* Lemmas about Islands that hold under any routing algorithm, for any      *)
(* number of islands, NDRanges and queue slots: what removing schedulers    *)
(* from the free list leaves, and what a submission and a timer callback do *)
(* to the schedulers, to the list and to the work groups.                   *)
(* SimpleRoutingProofs and SlicingRoutingProofs use them.                   *)
(***************************************************************************)
EXTENDS Islands, FunctionTheorems, FiniteSetTheorems, SequenceTheorems,
        WellFoundedInduction, TLAPS

\* A set of naturals that is not empty has a least element. (Inductions are
\* made with this: it needs no operator as a parameter.)
LEMMA LeastNat ==
    ASSUME NEW T \in SUBSET Nat, T # {}
    PROVE  \E x \in T : \A y \in T : x <= y
<1> DEFINE Below == {0 .. x - 1 : x \in T}
<1>1. Below \subseteq FiniteSubsetsOf(Nat) /\ Below # {}
  <2>1. ASSUME NEW x \in T PROVE 0 .. x - 1 \in FiniteSubsetsOf(Nat)
    <3>1. IsFiniteSet(0 .. x - 1)
      BY FS_Interval
    <3>2. 0 .. x - 1 \subseteq Nat
      OBVIOUS
    <3>3. QED
      BY <3>1, <3>2 DEF FiniteSubsetsOf
  <2>2. QED
    BY <2>1
<1>2. \E u \in Below : \A v \in Below : <<v, u>> \notin StrictSubsetOrdering(Nat)
  BY <1>1, WFMin, FS_StrictSubsetOrderingWellFounded
<1>3. PICK x \in T :
         \A y \in T : <<0 .. y - 1, 0 .. x - 1>> \notin StrictSubsetOrdering(Nat)
  BY <1>2
<1>4. ASSUME NEW y \in T, y < x
      PROVE  <<0 .. y - 1, 0 .. x - 1>> \in StrictSubsetOrdering(Nat)
  <2>1. 0 .. y - 1 \subseteq 0 .. x - 1 /\ y \in 0 .. x - 1 /\ y \notin 0 .. y - 1
    BY <1>4
  <2>2. QED
    BY <2>1 DEF StrictSubsetOrdering
<1>5. ASSUME NEW y \in T PROVE x <= y
  <2>1. ~(y < x)
    BY <1>3, <1>4
  <2>2. x \in Nat /\ y \in Nat
    OBVIOUS
  <2>3. QED
    BY <2>1, <2>2
<1>6. QED
  BY <1>5

-----------------------------------------------------------------------------
\* The place a member of a finite set of naturals has in it.
Rank(S, k) == Cardinality({l \in S : l <= k})

\* Counting a finite set of naturals gives each of its members a place of its
\* own, from 1 to the size of the set, and leaves no place out.
LEMMA RankIsBijective ==
    ASSUME NEW S \in SUBSET Nat, IsFiniteSet(S)
    PROVE  /\ Cardinality(S) \in Nat
           /\ \A k \in S : Rank(S, k) \in 1 .. Cardinality(S)
           /\ \A k, l \in S : Rank(S, k) = Rank(S, l) => k = l
           /\ \A j \in 1 .. Cardinality(S) : \E k \in S : Rank(S, k) = j
<1> DEFINE upTo(k) == {l \in S : l <= k}
           f == [k \in S |-> Rank(S, k)]
<1>1. Cardinality(S) \in Nat
  BY FS_CardinalityType
<1>2. ASSUME NEW k \in S
      PROVE  /\ IsFiniteSet(upTo(k)) /\ Rank(S, k) \in 1 .. Cardinality(S)
             /\ Rank(S, k) = Cardinality(upTo(k))
  <2>1. /\ IsFiniteSet(upTo(k)) /\ Cardinality(upTo(k)) <= Cardinality(S)
    BY FS_Subset, upTo(k) \in SUBSET S
  <2>2. Cardinality(upTo(k)) \in Nat /\ Cardinality(upTo(k)) # 0
    <3>1. k \in upTo(k)
      OBVIOUS
    <3>2. upTo(k) # {}
      BY <3>1
    <3> HIDE DEF upTo
    <3>3. QED
      BY <2>1, <3>2, FS_CardinalityType, FS_EmptySet
  <2>3. QED
    BY <1>1, <2>1, <2>2 DEF Rank
<1>3. ASSUME NEW k \in S, NEW l \in S, k < l
      PROVE  Rank(S, k) # Rank(S, l)
  <2>1. upTo(k) \in SUBSET upTo(l) /\ l \in upTo(l) /\ l \notin upTo(k)
    <3>1. k \in Nat /\ l \in Nat /\ \A m \in S : m \in Nat
      OBVIOUS
    <3>2. \A m \in S : m <= k => m <= l
      BY <1>3, <3>1
    <3>3. ~(l <= k) /\ l <= l
      BY <1>3, <3>1
    <3>4. QED
      BY <3>2, <3>3
  <2> HIDE DEF upTo
  <2>2. upTo(k) # upTo(l)
    BY <2>1
  <2>3. QED
    BY <1>2, <2>1, <2>2, FS_Subset
<1>4. \A k, l \in S : Rank(S, k) = Rank(S, l) => k = l
  BY <1>3
<1>5. f \in Injection(S, 1 .. Cardinality(S))
  <2>1. f \in [S -> 1 .. Cardinality(S)]
    BY <1>2
  <2>2. \A k, l \in S : f[k] = f[l] => k = l
    BY <1>4
  <2> HIDE DEF f
  <2>3. QED
    BY <2>1, <2>2 DEF Injection, IsInjective
<1>6. IsFiniteSet(1 .. Cardinality(S)) /\ Cardinality(1 .. Cardinality(S)) = Cardinality(S)
  BY <1>1, FS_Interval
<1>7. f \in Surjection(S, 1 .. Cardinality(S))
  BY <1>5, <1>6, FS_Injection
<1>8. \A j \in 1 .. Cardinality(S) : \E k \in S : Rank(S, k) = j
  BY <1>7 DEF Surjection
<1>9. QED
  BY <1>1, <1>2, <1>4, <1>8

\* remove_free_scheduler keeps the ids that are not in gone and no others, each
\* as often as it was there.
LEMMA Remaining ==
    ASSUME m_free_schedulers \in Seq(Island), NEW gone
    PROVE  LET left == remove_free_scheduler(gone)
           IN  /\ left \in Seq(Island)
               /\ \A i : (\E j \in 1 .. Len(left) : left[j] = i)
                          <=> i \notin gone /\ \E k \in 1 .. Len(m_free_schedulers) :
                                                  m_free_schedulers[k] = i
               /\ (\A j, k \in 1 .. Len(m_free_schedulers) :
                      m_free_schedulers[j] = m_free_schedulers[k] => j = k)
                  => \A j, k \in 1 .. Len(left) : left[j] = left[k] => j = k
<1> DEFINE s == m_free_schedulers
           stay == {k \in 1 .. Len(s) : s[k] \notin gone}
           from(j) == CHOOSE k \in stay : Rank(stay, k) = j
           left == remove_free_scheduler(gone)
           n == Cardinality(stay)
<1>1. stay \in SUBSET Nat /\ IsFiniteSet(stay)
  <2>1. IsFiniteSet(1 .. Len(s)) /\ stay \in SUBSET (1 .. Len(s))
    BY FS_Interval
  <2>2. QED
    BY <2>1, FS_Subset
<1>2. left = [j \in 1 .. n |-> s[from(j)]]
  BY DEF remove_free_scheduler, Rank
<1>3. /\ n \in Nat
      /\ \A k \in stay : Rank(stay, k) \in 1 .. n
      /\ \A k, l \in stay : Rank(stay, k) = Rank(stay, l) => k = l
      /\ \A j \in 1 .. n : \E k \in stay : Rank(stay, k) = j
  <2> HIDE DEF stay
  <2>1. QED
    BY <1>1, RankIsBijective
<1>4. /\ \A j \in 1 .. n : from(j) \in stay /\ Rank(stay, from(j)) = j
      /\ \A k \in stay : from(Rank(stay, k)) = k
  <2> HIDE DEF stay
  <2>1. QED
    BY <1>3
<1>5. \A k \in stay : k \in 1 .. Len(s) /\ s[k] \in Island /\ s[k] \notin gone
  OBVIOUS
<1>6. \A k \in 1 .. Len(s) : s[k] \notin gone => k \in stay
  OBVIOUS
<1> HIDE DEF stay, n, from, left
<1>7. left \in Seq(Island) /\ Len(left) = n
  BY <1>2, <1>3, <1>4, <1>5
<1>8. ASSUME NEW i
      PROVE  (\E j \in 1 .. Len(left) : left[j] = i)
                 <=> i \notin gone /\ \E k \in 1 .. Len(s) : s[k] = i
  BY <1>2, <1>3, <1>4, <1>5, <1>6, <1>7
<1>9. ASSUME \A j, k \in 1 .. Len(s) : s[j] = s[k] => j = k,
             NEW j \in 1 .. Len(left), NEW k \in 1 .. Len(left), left[j] = left[k]
      PROVE  j = k
  <2>1. from(j) \in stay /\ from(k) \in stay /\ s[from(j)] = s[from(k)]
    BY <1>2, <1>4, <1>7, <1>9
  <2>2. from(j) = from(k)
    BY <1>5, <1>9, <2>1
  <2>3. QED
    BY <1>4, <1>7, <2>2
<1>10. QED
  BY <1>7, <1>8, <1>9 DEF left

-----------------------------------------------------------------------------
(* The schedulers and the free list. *)

\* Types of the schedulers' state, without the bounds of TypeOK.
Wgr == [parent : NDRanges, start_x : Nat, size_x : Nat]

\* The types of what the schedulers and the free list are.
SchedTypes ==
    /\ m_in_queue \in [Island -> Seq(Wgr)]
    /\ timer \in [Island -> {"OFF", "ON", "FIRED"}]
    /\ m_free_schedulers \in Seq(Island)
    /\ free_timer \in [active : BOOLEAN, repeat : BOOLEAN, pending : BOOLEAN]

\* A timer runs while its scheduler is busy; the idle ones are on the list, whose
\* timer fires while there are any.
SchedInv == SchedTypes /\ TimerIffBusy /\ FreeIffIdle /\ FreeTimerIffFree

\* A submission of one WGR to each of some schedulers.
Submission(wgr) == /\ DOMAIN wgr \subseteq Island
                   /\ \A i \in DOMAIN wgr : wgr[i] \in Wgr
                   /\ submit_wgr(wgr)

\* What a submission leaves in the queues: the WGR behind those that were there,
\* unless the queue was full; in both cases the queue is not empty.
QueuesAfter(wgr) ==
    /\ m_in_queue' \in [Island -> Seq(Wgr)]
    /\ \A i \in Island :
          /\ m_in_queue'[i] = IF i \in DOMAIN wgr /\ Len(m_in_queue[i]) < QueueCapacity
                              THEN Append(m_in_queue[i], wgr[i]) ELSE m_in_queue[i]
          /\ i \in DOMAIN wgr => m_in_queue'[i] # <<>>
          /\ i \notin DOMAIN wgr => m_in_queue'[i] = m_in_queue[i]

\* submit_wgr puts a WGR at the end of its scheduler's queue.
LEMMA SubmitQueues ==
    ASSUME SchedTypes, NEW wgr, Submission(wgr)
    PROVE  QueuesAfter(wgr)
<1> DEFINE takes(i) == i \in DOMAIN wgr /\ Len(m_in_queue[i]) < QueueCapacity
<1>1. m_in_queue' = [i \in Island |-> IF takes(i) THEN Append(m_in_queue[i], wgr[i])
                                                 ELSE m_in_queue[i]]
  BY DEF Submission, submit_wgr
<1>2. ASSUME NEW i \in Island
      PROVE  /\ m_in_queue[i] \in Seq(Wgr) /\ m_in_queue'[i] \in Seq(Wgr)
             /\ i \in DOMAIN wgr => m_in_queue'[i] # <<>>
  <2>1. m_in_queue[i] \in Seq(Wgr)
    BY DEF SchedTypes
  <2>2. CASE takes(i)
    <3>1. wgr[i] \in Wgr /\ m_in_queue'[i] = Append(m_in_queue[i], wgr[i])
      BY <1>1, <2>2 DEF Submission
    <3>2. QED
      BY <2>1, <3>1, AppendProperties
  <2>3. CASE ~takes(i)
    <3>1. m_in_queue'[i] = m_in_queue[i]
      BY <1>1, <2>3
    <3>2. i \in DOMAIN wgr => Len(m_in_queue[i]) # 0
      BY <2>1, <2>3, CapacityAssumption
    <3>3. QED
      BY <2>1, <3>1, <3>2
  <2>4. QED
    BY <2>2, <2>3
<1>3. QED
  BY <1>1, <1>2 DEF QueuesAfter

\* Every scheduler that is given a WGR works on one, and none is started twice.
LEMMA SubmitTimers ==
    ASSUME SchedTypes, TimerIffBusy, NEW wgr, Submission(wgr)
    PROVE  timer' \in [Island -> {"OFF", "ON", "FIRED"}] /\ TimerIffBusy'
<1> DEFINE starts(i) == i \in DOMAIN wgr /\ timer[i] # "ON" /\ Len(m_in_queue'[i]) < 2
<1>0. ASSUME NEW i \in Island
      PROVE  /\ i \in DOMAIN wgr => m_in_queue'[i] # <<>>
             /\ i \notin DOMAIN wgr => m_in_queue'[i] = m_in_queue[i]
             /\ \/ m_in_queue'[i] = Append(m_in_queue[i], wgr[i])
                \/ m_in_queue'[i] = m_in_queue[i]
  <2>1. QueuesAfter(wgr)
    BY SubmitQueues
  <2>2. QED
    BY <2>1 DEF QueuesAfter
<1>1. timer' = [i \in Island |-> IF starts(i) THEN "ON" ELSE timer[i]]
  BY DEF Submission, submit_wgr, StartsTimer
<1>2. timer' \in [Island -> {"OFF", "ON", "FIRED"}]
  BY <1>1 DEF SchedTypes
<1>3. ASSUME NEW i \in Island
      PROVE  timer'[i] = "OFF" <=> m_in_queue'[i] = <<>>
  <2>1. m_in_queue[i] \in Seq(Wgr) /\ (timer[i] = "OFF" <=> m_in_queue[i] = <<>>)
    BY DEF SchedTypes, TimerIffBusy
  <2>2. CASE i \notin DOMAIN wgr
    BY <1>0, <1>1, <2>1, <2>2
  <2>3. CASE i \in DOMAIN wgr
    <3>1. m_in_queue'[i] # <<>>
      BY <1>0, <2>3
    <3>2. timer[i] = "OFF" => Len(m_in_queue'[i]) < 2
      <4>1. SUFFICES ASSUME Len(m_in_queue[i]) = 0 PROVE Len(m_in_queue'[i]) < 2
        BY <2>1
      <4>2. Len(Append(m_in_queue[i], wgr[i])) = Len(m_in_queue[i]) + 1
        <5>1. wgr[i] \in Wgr
          BY <2>3 DEF Submission
        <5>2. QED
          BY <2>1, <5>1, AppendProperties
      <4>3. QED
        BY <1>0, <4>1, <4>2
    <3>3. QED
      BY <1>1, <2>3, <3>1, <3>2
  <2>4. QED
    BY <2>2, <2>3
<1>4. QED
  BY <1>2, <1>3 DEF TimerIffBusy

\* An empty sequence has no places.
LEMMA EmptyHasNoPlaces ==
    ASSUME NEW S, NEW s \in Seq(S)
    PROVE  s = <<>> <=> \A k \in 1 .. Len(s) : FALSE
<1>1. s # <<>> => 1 \in 1 .. Len(s)
  OBVIOUS
<1>2. QED
  BY <1>1

\* After a submission the free list holds the idle schedulers, and its timer
\* fires if there are any, whichever of its two ways it was set.
LEMMA SubmitFree ==
    ASSUME SchedInv, NEW wgr, Submission(wgr),
           free_timer' \in {FreeTimerAfter(DOMAIN wgr), RearmedFreeTimer(DOMAIN wgr)}
    PROVE  /\ m_free_schedulers' \in Seq(Island) /\ FreeIffIdle'
           /\ free_timer' \in [active : BOOLEAN, repeat : BOOLEAN, pending : BOOLEAN]
           /\ FreeTimerIffFree'
<1> DEFINE gone == DOMAIN wgr
           left == remove_free_scheduler(gone)
<1>0. ASSUME NEW i \in Island
      PROVE  /\ i \in DOMAIN wgr => m_in_queue'[i] # <<>>
             /\ i \notin DOMAIN wgr => m_in_queue'[i] = m_in_queue[i]
  <2>1. QueuesAfter(wgr)
    BY SubmitQueues DEF SchedInv
  <2>2. QED
    BY <2>1 DEF QueuesAfter
<1>1. m_free_schedulers' = left
  BY DEF Submission, submit_wgr
<1>2. /\ left \in Seq(Island)
      /\ \A i : (\E j \in 1 .. Len(left) : left[j] = i)
                 <=> i \notin gone /\ \E k \in 1 .. Len(m_free_schedulers) :
                                          m_free_schedulers[k] = i
      /\ \A j, k \in 1 .. Len(left) : left[j] = left[k] => j = k
  BY Remaining DEF SchedInv, SchedTypes, FreeIffIdle
<1>3. FreeIffIdle'
  <2>1. ASSUME NEW i \in Island
        PROVE  m_in_queue'[i] = <<>> <=> \E j \in 1 .. Len(left) : left[j] = i
    <3>1. m_in_queue[i] = <<>> <=> \E k \in 1 .. Len(m_free_schedulers) :
                                       m_free_schedulers[k] = i
      BY DEF SchedInv, FreeIffIdle
    <3>2. m_in_queue'[i] = <<>> <=> i \notin gone /\ m_in_queue[i] = <<>>
      BY <1>0
    <3>3. QED
      BY <1>2, <3>1, <3>2
  <2> HIDE DEF left
  <2>2. QED
    BY <1>1, <1>2, <2>1 DEF FreeIffIdle
<1>4. /\ left # <<>> => m_free_schedulers # <<>>
      /\ left = <<>> /\ gone = {} => m_free_schedulers = <<>>
  <2> HIDE DEF left
  <2>1. left # <<>> => m_free_schedulers # <<>>
    <3>1. SUFFICES ASSUME left # <<>> PROVE m_free_schedulers # <<>>
      OBVIOUS
    <3>2. 1 \in 1 .. Len(left)
      BY <1>2, <3>1, EmptyHasNoPlaces
    <3>3. PICK k \in 1 .. Len(m_free_schedulers) : m_free_schedulers[k] = left[1]
      BY <1>2, <3>2
    <3>4. QED
      BY <3>3
  <2>2. left = <<>> /\ gone = {} => m_free_schedulers = <<>>
    <3>1. SUFFICES ASSUME left = <<>>, gone = {}, m_free_schedulers # <<>>
                   PROVE  FALSE
      OBVIOUS
    <3>2. m_free_schedulers \in Seq(Island) /\ 1 \in 1 .. Len(m_free_schedulers)
      BY <3>1 DEF SchedInv, SchedTypes
    <3>3. \E j \in 1 .. Len(left) : left[j] = m_free_schedulers[1]
      BY <1>2, <3>1, <3>2
    <3>4. QED
      BY <3>1, <3>3
  <2>3. QED
    BY <2>1, <2>2
<1>5. /\ free_timer' \in [active : BOOLEAN, repeat : BOOLEAN, pending : BOOLEAN]
      /\ FreeTimerIffFree'
  <2> USE DEF SchedInv, SchedTypes, FreeTimerIffFree
  <2>1. CASE left # <<>>
    <3>1. m_free_schedulers # <<>>
      BY <1>4, <2>1
    <3>2. \/ free_timer' = free_timer
          \/ free_timer' = [active |-> TRUE, repeat |-> FALSE, pending |-> FALSE]
      BY <2>1 DEF FreeTimerAfter, RearmedFreeTimer
    <3> HIDE DEF left
    <3>3. CASE free_timer' = free_timer
      BY <1>1, <2>1, <3>1, <3>3
    <3>4. CASE free_timer' = [active |-> TRUE, repeat |-> FALSE, pending |-> FALSE]
      BY <1>1, <2>1, <3>4
    <3>5. QED
      BY <3>2, <3>3, <3>4
  <2>2. CASE left = <<>> /\ gone # {}
    <3>1. free_timer' \in {stop_timer, [stop_timer EXCEPT !.pending = FALSE]}
      BY <2>2 DEF FreeTimerAfter, RearmedFreeTimer
    <3>2. QED
      BY <1>1, <2>2, <3>1 DEF stop_timer
  <2>3. CASE left = <<>> /\ gone = {}
    <3>1. m_free_schedulers = <<>>
      BY <1>4, <2>3
    <3>2. free_timer' \in {free_timer, [free_timer EXCEPT !.pending = FALSE]}
      BY <2>3 DEF FreeTimerAfter, RearmedFreeTimer
    <3>3. QED
      BY <1>1, <2>3, <3>1, <3>2
  <2>4. QED
    BY <2>1, <2>2, <2>3
<1>6. QED
  BY <1>1, <1>2, <1>3, <1>5

\* A submission keeps the schedulers, the list and the timers consistent.
LEMMA SubmitSched ==
    ASSUME SchedInv, NEW wgr, Submission(wgr),
           free_timer' \in {FreeTimerAfter(DOMAIN wgr), RearmedFreeTimer(DOMAIN wgr)}
    PROVE  SchedInv'
<1>1. QueuesAfter(wgr)
  BY SubmitQueues DEF SchedInv
<1>2. QED
  BY <1>1, SubmitTimers, SubmitFree DEF SchedInv, SchedTypes, QueuesAfter

\* A sequence without repetitions is no longer than its elements are many.
LEMMA DistinctFits ==
    ASSUME NEW S, IsFiniteSet(S), NEW len \in Nat, NEW s \in [1 .. len -> S],
           \A j, k \in 1 .. len : s[j] = s[k] => j = k
    PROVE  len <= Cardinality(S)
<1>1. s \in Injection(1 .. len, S)
  BY DEF Injection, IsInjective
<1>2. Cardinality(1 .. len) = len
  BY FS_Interval
<1>3. QED
  BY <1>1, <1>2, FS_Injection

\* The parts of on_timer that concern the schedulers.
LEMMA OnTimerSched ==
    ASSUME SchedInv, NEW i \in Island, on_timer(i)
    PROVE  /\ SchedInv'
           /\ m_in_queue[i] # <<>>
           /\ m_in_queue'[i] = <<>> => Len(m_free_schedulers) < N
<1>1. /\ m_in_queue \in [Island -> Seq(Wgr)]
      /\ timer \in [Island -> {"OFF", "ON", "FIRED"}]
      /\ m_free_schedulers \in Seq(Island) /\ Len(m_free_schedulers) \in Nat
      /\ free_timer \in [active : BOOLEAN, repeat : BOOLEAN, pending : BOOLEAN]
      /\ TimerIffBusy
      /\ (free_timer.active \/ free_timer.pending) <=> m_free_schedulers # <<>>
  BY DEF SchedInv, SchedTypes, FreeTimerIffFree
<1>2. /\ \A j \in Island : m_in_queue[j] = <<>>
                             <=> \E k \in 1 .. Len(m_free_schedulers) :
                                    m_free_schedulers[k] = j
      /\ \A j, k \in 1 .. Len(m_free_schedulers) :
            m_free_schedulers[j] = m_free_schedulers[k] => j = k
  BY DEF SchedInv, FreeIffIdle
<1>3. timer[i] = "FIRED" /\ m_in_queue[i] # <<>> /\ m_in_queue[i] \in Seq(Wgr)
  BY <1>1 DEF on_timer, TimerIffBusy
<1>4. /\ m_in_queue' = [m_in_queue EXCEPT ![i] = Tail(m_in_queue[i])]
      /\ Tail(m_in_queue[i]) \in Seq(Wgr)
  BY <1>3 DEF on_timer
<1>5. /\ m_in_queue' \in [Island -> Seq(Wgr)]
      /\ m_in_queue'[i] = Tail(m_in_queue[i])
      /\ \A j \in Island \ {i} : m_in_queue'[j] = m_in_queue[j]
  BY <1>1, <1>4
<1>6. \A k \in 1 .. Len(m_free_schedulers) : m_free_schedulers[k] # i
  BY <1>2, <1>3
<1>7. Len(m_free_schedulers) < N
  <2>1. m_free_schedulers \in [1 .. Len(m_free_schedulers) -> Island \ {i}]
    <3>1. \A k \in 1 .. Len(m_free_schedulers) : m_free_schedulers[k] \in Island
      BY <1>1
    <3>2. QED
      BY <1>1, <1>6, <3>1
  <2>2. IsFiniteSet(Island) /\ Cardinality(Island) = N
    BY IslandsAssumption, FS_Interval DEF Island
  <2>3. IsFiniteSet(Island \ {i}) /\ Cardinality(Island \ {i}) = N - 1
    BY <2>2, FS_RemoveElement
  <2>4. Len(m_free_schedulers) <= Cardinality(Island \ {i})
    BY <1>1, <1>2, <2>1, <2>3, DistinctFits
  <2>5. QED
    BY <1>1, <2>3, <2>4, IslandsAssumption
<1>8. CASE m_in_queue'[i] = <<>>
  <2>1. /\ timer' = [timer EXCEPT ![i] = "OFF"]
        /\ m_free_schedulers' = Append(m_free_schedulers, i)
        /\ free_timer' = IF free_timer.active THEN free_timer
                         ELSE [free_timer EXCEPT !.active = TRUE, !.repeat = TRUE]
    BY <1>8 DEF on_timer
  <2>2. timer' \in [Island -> {"OFF", "ON", "FIRED"}] /\ TimerIffBusy'
    BY <1>1, <1>5, <1>8, <2>1 DEF TimerIffBusy
  <2>3. /\ m_free_schedulers' \in Seq(Island)
        /\ Len(m_free_schedulers') = Len(m_free_schedulers) + 1
        /\ m_free_schedulers'[Len(m_free_schedulers) + 1] = i
        /\ \A k \in 1 .. Len(m_free_schedulers) :
              m_free_schedulers'[k] = m_free_schedulers[k]
    BY <1>1, <2>1, AppendProperties
  <2>4. \A k : k \in 1 .. Len(m_free_schedulers')
               <=> k \in 1 .. Len(m_free_schedulers) \/ k = Len(m_free_schedulers) + 1
    BY <1>1, <2>3
  <2>5. FreeIffIdle'
    <3>1. ASSUME NEW j \in Island
          PROVE  m_in_queue'[j] = <<>> <=> \E k \in 1 .. Len(m_free_schedulers') :
                                             m_free_schedulers'[k] = j
      <4>1. CASE j = i
        BY <1>1, <1>8, <2>3, <4>1
      <4>2. CASE j # i
        <5>1. m_in_queue'[j] = m_in_queue[j]
          BY <1>5, <4>2
        <5>2. (\E k \in 1 .. Len(m_free_schedulers') : m_free_schedulers'[k] = j)
                <=> \E k \in 1 .. Len(m_free_schedulers) : m_free_schedulers[k] = j
          BY <2>3, <2>4, <4>2
        <5>3. QED
          BY <1>2, <5>1, <5>2
      <4>3. QED
        BY <4>1, <4>2
    <3>2. ASSUME NEW j \in 1 .. Len(m_free_schedulers'),
                 NEW k \in 1 .. Len(m_free_schedulers'),
                 m_free_schedulers'[j] = m_free_schedulers'[k]
          PROVE  j = k
      BY <1>2, <1>6, <2>3, <2>4, <3>2
    <3>3. QED
      BY <3>1, <3>2 DEF FreeIffIdle
  <2>6. /\ free_timer' \in [active : BOOLEAN, repeat : BOOLEAN, pending : BOOLEAN]
        /\ FreeTimerIffFree'
    <3>1. m_free_schedulers' # <<>>
      BY <1>1, <2>3
    <3>2. CASE free_timer.active
      BY <1>1, <2>1, <3>1, <3>2 DEF FreeTimerIffFree
    <3>3. CASE ~free_timer.active
      BY <1>1, <2>1, <3>1, <3>3 DEF FreeTimerIffFree
    <3>4. QED
      BY <3>2, <3>3
  <2>7. QED
    BY <1>3, <1>5, <1>7, <2>2, <2>3, <2>5, <2>6 DEF SchedInv, SchedTypes
<1>9. CASE m_in_queue'[i] # <<>>
  <2>1. timer' = [timer EXCEPT ![i] = "ON"] /\ UNCHANGED freeVars
    BY <1>9 DEF on_timer
  <2>2. timer' \in [Island -> {"OFF", "ON", "FIRED"}] /\ TimerIffBusy'
    BY <1>1, <1>5, <1>9, <2>1 DEF TimerIffBusy
  <2>3. FreeIffIdle'
    BY <1>2, <1>3, <1>5, <1>9, <2>1 DEF FreeIffIdle, freeVars
  <2>4. QED
    BY <1>1, <1>3, <1>5, <1>9, <2>1, <2>2, <2>3
    DEF SchedInv, SchedTypes, FreeTimerIffFree, freeVars
<1>10. QED
  BY <1>8, <1>9

\* A scheduler's timer expires; its callback is due from then on.
LEMMA ExpireSched ==
    ASSUME SchedInv, NEW i \in Island, TimerExpires(i)
    PROVE  SchedInv'
BY DEF SchedInv, SchedTypes, TimerExpires, freeVars, TimerIffBusy, FreeIffIdle,
       FreeTimerIffFree

\* The free list's timer expires.
LEMMA FreeExpireSched ==
    ASSUME SchedInv, FreeTimerExpires
    PROVE  SchedInv'
<1>1. SchedTypes' /\ TimerIffBusy' /\ FreeIffIdle'
  BY DEF SchedInv, SchedTypes, FreeTimerExpires, schedVars, TimerIffBusy, FreeIffIdle
<1>2. FreeTimerIffFree'
  BY DEF SchedInv, SchedTypes, FreeTimerExpires, FreeTimerIffFree
<1>3. QED
  BY <1>1, <1>2 DEF SchedInv

\* The free list's callback finds nothing to do.
LEMMA RearmSched ==
    ASSUME SchedInv, free_timer' = RearmedFreeTimer({}),
           UNCHANGED <<schedVars, m_free_schedulers>>
    PROVE  SchedInv'
<1> DEFINE left == remove_free_scheduler({})
<1>0. /\ m_free_schedulers \in Seq(Island)
      /\ free_timer \in [active : BOOLEAN, repeat : BOOLEAN, pending : BOOLEAN]
      /\ (free_timer.active \/ free_timer.pending) <=> m_free_schedulers # <<>>
  BY DEF SchedInv, SchedTypes, FreeTimerIffFree
<1>1. /\ left \in Seq(Island)
      /\ \A i : (\E j \in 1 .. Len(left) : left[j] = i)
                 <=> \E k \in 1 .. Len(m_free_schedulers) : m_free_schedulers[k] = i
  <2>1. /\ left \in Seq(Island)
        /\ \A i : (\E j \in 1 .. Len(left) : left[j] = i)
                   <=> i \notin {} /\ \E k \in 1 .. Len(m_free_schedulers) :
                                          m_free_schedulers[k] = i
    BY <1>0, Remaining
  <2> HIDE DEF left
  <2>2. QED
    BY <2>1
<1>2. left = <<>> <=> m_free_schedulers = <<>>
  <2> HIDE DEF left
  <2>1. ASSUME left # <<>> PROVE m_free_schedulers # <<>>
    <3>1. 1 \in 1 .. Len(left)
      BY <1>1, <2>1
    <3>2. \E k \in 1 .. Len(m_free_schedulers) : m_free_schedulers[k] = left[1]
      BY <1>1, <3>1
    <3>3. QED
      BY <3>2
  <2>2. ASSUME m_free_schedulers # <<>> PROVE left # <<>>
    <3>1. 1 \in 1 .. Len(m_free_schedulers)
      BY <1>0, <2>2
    <3>2. \E j \in 1 .. Len(left) : left[j] = m_free_schedulers[1]
      BY <1>1, <3>1
    <3>3. QED
      BY <3>2
  <2>3. QED
    BY <2>1, <2>2
<1>3. free_timer' = IF m_free_schedulers # <<>>
                    THEN [active |-> TRUE, repeat |-> FALSE, pending |-> FALSE]
                    ELSE [free_timer EXCEPT !.pending = FALSE]
  BY <1>2 DEF RearmedFreeTimer, FreeTimerAfter
<1>4. FreeTimerIffFree' /\ free_timer' \in [active : BOOLEAN, repeat : BOOLEAN,
                                            pending : BOOLEAN]
  <2>1. CASE m_free_schedulers # <<>>
    <3>1. free_timer' = [active |-> TRUE, repeat |-> FALSE, pending |-> FALSE]
      BY <1>3, <2>1
    <3>2. free_timer'.active /\ m_free_schedulers' # <<>>
      BY <2>1, <3>1
    <3>3. free_timer' \in [active : BOOLEAN, repeat : BOOLEAN, pending : BOOLEAN]
      <4>1. [active |-> TRUE, repeat |-> FALSE, pending |-> FALSE]
               \in [active : BOOLEAN, repeat : BOOLEAN, pending : BOOLEAN]
        OBVIOUS
      <4>2. QED
        BY <3>1, <4>1, Zenon
    <3>4. QED
      BY <3>2, <3>3 DEF FreeTimerIffFree
  <2>2. CASE m_free_schedulers = <<>>
    BY <1>0, <1>3, <2>2 DEF FreeTimerIffFree
  <2>3. QED
    BY <2>1, <2>2
<1>5. QED
  BY <1>4 DEF SchedInv, SchedTypes, schedVars, TimerIffBusy, FreeIffIdle

-----------------------------------------------------------------------------
(* The work groups. *)

\* Types of the NDRanges, without the bounds of TypeOK.
NdrTypes ==
    /\ m_total_size \in [NDRanges -> Nat]
    /\ m_next_wgr \in [NDRanges -> Nat]
    /\ m_wgrs_in_the_wild \in [NDRanges -> Nat]
    /\ ndr_state \in [NDRanges -> {"NONE", "LIVE", "DELETED"}]
    /\ event_state \in [NDRanges -> {"QUEUED", "COMPLETE"}]
    /\ done \in [NDRanges -> SUBSET Nat]

\* The WGRs that the schedulers hold, each with the scheduler that does, and
\* those of one NDRange.
Out == {p \in Island \X Wgr :
           \E k \in 1 .. Len(m_in_queue[p[1]]) : m_in_queue[p[1]][k] = p[2]}
OutOf(n) == {p \in Out : p[2].parent = n}

\* No scheduler holds a WGR twice.
NoneTwice ==
    \A i \in Island : \A j, k \in 1 .. Len(m_in_queue[i]) :
       m_in_queue[i][j] = m_in_queue[i][k] => j = k

\* A WGR that is out belongs to a live NDRange; its work groups were carved, are
\* not done, and are in no other WGR that is out.
OutIsSound ==
    \A p \in Out :
       /\ ndr_state[p[2].parent] = "LIVE"
       /\ Groups(p[2]) \subseteq 0 .. m_next_wgr[p[2].parent] - 1
       /\ Groups(p[2]) \cap done[p[2].parent] = {}
       /\ \A r \in Out : r[2].parent = p[2].parent /\ r # p
                           => Groups(p[2]) \cap Groups(r[2]) = {}

\* The counter of an NDRange is at least the number of its WGRs that are out;
\* it is larger only if a full queue dropped some, and unless it is, what was
\* carved is done or out.
WildIsSound ==
    \A n \in NDRanges :
       /\ Cardinality(OutOf(n)) <= m_wgrs_in_the_wild[n]
       /\ done[n] \subseteq 0 .. m_next_wgr[n] - 1
       /\ Cardinality(OutOf(n)) = m_wgrs_in_the_wild[n]
             => \A w \in 0 .. m_next_wgr[n] - 1 :
                   w \in done[n] \/ \E p \in OutOf(n) : w \in Groups(p[2])

\* What the states of an NDRange mean.
StatesAgree ==
    \A n \in NDRanges :
       /\ ndr_state[n] = "NONE" => m_next_wgr[n] = 0 /\ m_wgrs_in_the_wild[n] = 0
       /\ ndr_state[n] = "DELETED" => m_wgrs_in_the_wild[n] = 0
       /\ ndr_state[n] = "DELETED" <=> event_state[n] = "COMPLETE"

\* No full queue has dropped a WGR.
NoneDropped ==
    \A n \in NDRanges : Cardinality(OutOf(n)) = m_wgrs_in_the_wild[n]

\* What is known of the WGRs and the NDRanges, under any routing algorithm.
GroupsInv == NdrTypes /\ NoneTwice /\ OutIsSound /\ WildIsSound /\ StatesAgree

\* Membership in Out, and the fields of its members.
LEMMA OutMembers ==
    ASSUME SchedTypes
    PROVE  /\ \A i \in Island : \A k \in 1 .. Len(m_in_queue[i]) :
                 <<i, m_in_queue[i][k]>> \in Out
           /\ \A p \in Out : p[1] \in Island /\ p[2] \in Wgr /\ p = <<p[1], p[2]>>
           /\ \A p \in Out : \E k \in 1 .. Len(m_in_queue[p[1]]) :
                                m_in_queue[p[1]][k] = p[2]
<1>1. ASSUME NEW i \in Island, NEW k \in 1 .. Len(m_in_queue[i])
      PROVE  <<i, m_in_queue[i][k]>> \in Out
  <2>1. m_in_queue[i] \in Seq(Wgr)
    BY DEF SchedTypes
  <2>2. m_in_queue[i][k] \in Wgr
    BY <2>1
  <2>3. QED
    BY <2>2 DEF Out
<1>2. \A p \in Out : /\ p[1] \in Island /\ p[2] \in Wgr /\ p = <<p[1], p[2]>>
                     /\ \E k \in 1 .. Len(m_in_queue[p[1]]) : m_in_queue[p[1]][k] = p[2]
  BY DEF Out
<1>3. QED
  BY <1>1, <1>2

\* There are finitely many WGRs out of an NDRange.
LEMMA OutIsFinite ==
    ASSUME SchedTypes, NEW n
    PROVE  IsFiniteSet(OutOf(n)) /\ Cardinality(OutOf(n)) \in Nat
<1> DEFINE last(i) == Len(m_in_queue[i])
           held(i) == {<<i, m_in_queue[i][k]>> : k \in 1 .. last(i)}
           all == {held(i) : i \in Island}
<1>1. ASSUME NEW i \in Island PROVE IsFiniteSet(held(i))
  <2>1. last(i) \in Nat
    BY DEF SchedTypes
  <2>2. IsFiniteSet(1 .. last(i))
    BY <2>1, FS_Interval
  <2> DEFINE f == [k \in 1 .. last(i) |-> <<i, m_in_queue[i][k]>>]
  <2>3. f \in Surjection(1 .. last(i), held(i))
    BY DEF Surjection
  <2> HIDE DEF f, held, last
  <2>4. QED
    BY <2>2, <2>3, FS_Surjection
<1>2. IsFiniteSet(all)
  <2>1. IsFiniteSet(Island)
    BY IslandsAssumption, FS_Interval DEF Island
  <2> DEFINE f == [i \in Island |-> held(i)]
  <2>2. f \in Surjection(Island, all)
    <3> HIDE DEF held
    <3>1. QED
      BY DEF Surjection
  <2> HIDE DEF f, all
  <2>3. QED
    BY <2>1, <2>2, FS_Surjection
<1>3. IsFiniteSet(UNION all)
  <2>1. \A S \in all : IsFiniteSet(S)
    BY <1>1
  <2> HIDE DEF all
  <2>2. QED
    BY <1>2, <2>1, FS_UNION
<1>4. OutOf(n) \in SUBSET (UNION all)
  <2>1. ASSUME NEW p \in OutOf(n) PROVE \E i \in Island : p \in held(i)
    BY OutMembers DEF OutOf
  <2>2. QED
    BY <2>1
<1> HIDE DEF all
<1>5. IsFiniteSet(OutOf(n))
  BY <1>3, <1>4, FS_Subset
<1>6. QED
  BY <1>5, FS_CardinalityType

\* What the callback of scheduler i takes from the WGRs that are out: the one it
\* has finished, no other.
LEMMA OnTimerOut ==
    ASSUME SchedInv, NoneTwice, NEW i \in Island, on_timer(i)
    PROVE  /\ <<i, Head(m_in_queue[i])>> \in Out
           /\ Out' = Out \ {<<i, Head(m_in_queue[i])>>}
           /\ NoneTwice'
<1> DEFINE q == m_in_queue[i]
           w == Head(q)
<1>1. /\ SchedTypes /\ SchedTypes'
      /\ q \in Seq(Wgr) /\ q # <<>>
      /\ m_in_queue' = [m_in_queue EXCEPT ![i] = Tail(q)]
      /\ m_in_queue \in [Island -> Seq(Wgr)]
  <2>1. SchedInv' /\ q # <<>>
    BY OnTimerSched
  <2>2. QED
    BY <2>1 DEF SchedInv, SchedTypes, on_timer
<1>2. /\ m_in_queue'[i] = Tail(q)
      /\ \A j \in Island \ {i} : m_in_queue'[j] = m_in_queue[j]
  BY <1>1
<1>3. /\ Len(q) \in Nat /\ Len(q) >= 1 /\ w = q[1]
      /\ Len(Tail(q)) = Len(q) - 1
      /\ \A k \in 1 .. Len(Tail(q)) : Tail(q)[k] = q[k + 1]
  BY <1>1
<1>4. <<i, w>> \in Out
  <2>1. 1 \in 1 .. Len(q)
    BY <1>3
  <2>2. <<i, m_in_queue[i][1]>> \in Out
    BY <1>1, <2>1, OutMembers
  <2>3. QED
    BY <1>3, <2>2
<1>5. ASSUME NEW j \in Island, NEW k \in 1 .. Len(m_in_queue'[j])
      PROVE  \E l \in 1 .. Len(m_in_queue[j]) :
                /\ m_in_queue[j][l] = m_in_queue'[j][k]
                /\ IF j = i THEN l = k + 1 ELSE l = k
  <2>1. CASE j = i
    <3>1. k \in 1 .. Len(Tail(q)) /\ k + 1 \in 1 .. Len(q)
      <4>1. m_in_queue'[j] = Tail(q)
        BY <1>2, <2>1
      <4>2. k \in 1 .. Len(Tail(q))
        BY <4>1
      <4> HIDE DEF q
      <4>3. QED
        BY <1>3, <4>2
    <3>2. QED
      BY <1>2, <1>3, <2>1, <3>1
  <2>2. CASE j # i
    BY <1>2, <2>2
  <2>3. QED
    BY <2>1, <2>2
<1>6. NoneTwice'
  <2>1. ASSUME NEW j \in Island,
               NEW k \in 1 .. Len(m_in_queue'[j]), NEW l \in 1 .. Len(m_in_queue'[j]),
               m_in_queue'[j][k] = m_in_queue'[j][l]
        PROVE  k = l
    <3>1. PICK kk \in 1 .. Len(m_in_queue[j]) :
                  /\ m_in_queue[j][kk] = m_in_queue'[j][k]
                  /\ IF j = i THEN kk = k + 1 ELSE kk = k
      BY <1>5
    <3>2. PICK ll \in 1 .. Len(m_in_queue[j]) :
                  /\ m_in_queue[j][ll] = m_in_queue'[j][l]
                  /\ IF j = i THEN ll = l + 1 ELSE ll = l
      BY <1>5
    <3>3. kk = ll
      BY <2>1, <3>1, <3>2 DEF NoneTwice
    <3>4. k \in Int /\ l \in Int
      OBVIOUS
    <3>5. QED
      BY <3>1, <3>2, <3>3, <3>4
  <2>2. QED
    BY <2>1 DEF NoneTwice
<1> HIDE DEF w
<1>7. ASSUME NEW p \in Out' PROVE p \in Out /\ p # <<i, w>>
  <2>1. /\ p \in Island \X Wgr
        /\ \E k \in 1 .. Len(m_in_queue'[p[1]]) : m_in_queue'[p[1]][k] = p[2]
    BY DEF Out
  <2>2. PICK k \in 1 .. Len(m_in_queue'[p[1]]) : m_in_queue'[p[1]][k] = p[2]
    BY <2>1
  <2>3. p[1] \in Island
    BY <2>1
  <2>4. PICK l \in 1 .. Len(m_in_queue[p[1]]) :
                /\ m_in_queue[p[1]][l] = m_in_queue'[p[1]][k]
                /\ IF p[1] = i THEN l = k + 1 ELSE l = k
    BY <1>5, <2>2, <2>3
  <2>5. p \in Out
    BY <2>1, <2>2, <2>4 DEF Out
  <2>6. ASSUME p = <<i, w>> PROVE FALSE
    <3>1. p[1] = i /\ p[2] = w
      BY <2>6
    <3>2. m_in_queue[i][l] = m_in_queue[i][1] /\ l = k + 1 /\ l \in 1 .. Len(q)
      BY <1>3, <2>2, <2>4, <3>1
    <3>3. 1 \in 1 .. Len(q)
      BY <1>3
    <3>4. l = 1
      BY <3>2, <3>3 DEF NoneTwice
    <3>5. k \in Nat /\ k >= 1
      BY <1>2, <1>3, <3>1
    <3>6. QED
      BY <3>2, <3>4, <3>5
  <2>7. QED
    BY <2>5, <2>6
<1>8. ASSUME NEW p \in Out, p # <<i, w>> PROVE p \in Out'
  <2>1. p \in Island \X Wgr /\ p[1] \in Island /\ p = <<p[1], p[2]>>
    BY DEF Out
  <2>2. PICK k \in 1 .. Len(m_in_queue[p[1]]) : m_in_queue[p[1]][k] = p[2]
    BY DEF Out
  <2>3. \E l \in 1 .. Len(m_in_queue'[p[1]]) : m_in_queue'[p[1]][l] = p[2]
    <3>1. CASE p[1] = i
      <4>1. k # 1 /\ k \in 1 .. Len(q)
        BY <1>3, <1>8, <2>1, <2>2, <3>1
      <4>2. k - 1 \in 1 .. Len(Tail(q)) /\ (k - 1) + 1 = k
        BY <1>3, <4>1
      <4>3. Tail(q)[k - 1] = q[k]
        BY <1>3, <4>2
      <4>4. QED
        BY <1>2, <2>2, <3>1, <4>2, <4>3
    <3>2. CASE p[1] # i
      BY <1>2, <2>1, <2>2, <3>2
    <3>3. QED
      BY <3>1, <3>2
  <2>4. QED
    BY <2>1, <2>3 DEF Out
<1>9. Out' = Out \ {<<i, w>>}
  BY <1>7, <1>8
<1>10. QED
  BY <1>4, <1>6, <1>9 DEF w

\* A callback leaves the work groups consistent, meets no assertion and uses no
\* deleted NDRange.
LEMMA OnTimerGroups ==
    ASSUME SchedInv, GroupsInv, NEW i \in Island, on_timer(i)
    PROVE  /\ GroupsInv'
           /\ NoneDropped => NoneDropped'
           /\ failed = FALSE => failed' = FALSE
<1>0. PICK w : w = Head(m_in_queue[i])
  OBVIOUS
<1> DEFINE p0 == <<i, w>>
           n == w.parent
           wild == m_wgrs_in_the_wild[n] - 1
<1>1. /\ SchedTypes /\ SchedTypes' /\ NoneTwice /\ NoneTwice'
      /\ p0 \in Out /\ Out' = Out \ {p0}
      /\ m_in_queue'[i] = <<>> => Len(m_free_schedulers) < N
      /\ Len(m_free_schedulers) \in Nat
  BY <1>0, OnTimerSched, OnTimerOut DEF SchedInv, SchedTypes, GroupsInv
<1>2. /\ m_wgrs_in_the_wild' = [m_wgrs_in_the_wild EXCEPT ![n] = wild]
      /\ done' = [done EXCEPT ![n] = done[n] \cup Groups(w)]
      /\ event_state' = IF wild = 0 THEN [event_state EXCEPT ![n] = "COMPLETE"]
                                    ELSE event_state
      /\ ndr_state' = IF wild = 0 THEN [ndr_state EXCEPT ![n] = "DELETED"]
                                  ELSE ndr_state
      /\ m_total_size' = m_total_size /\ m_next_wgr' = m_next_wgr
  BY <1>0 DEF on_timer, mark_as_finished, decrement_wgrs_counter, WasLast, Groups
<1>3. /\ w \in Wgr /\ n \in NDRanges
      /\ ndr_state[n] = "LIVE"
      /\ Groups(w) \subseteq 0 .. m_next_wgr[n] - 1
      /\ Groups(w) \cap done[n] = {}
      /\ \A r \in OutOf(n) : r # p0 => Groups(w) \cap Groups(r[2]) = {}
  <2>1. w \in Wgr /\ p0[1] = i /\ p0[2] = w
    BY <1>1 DEF Out
  <2>2. n \in NDRanges
    BY <2>1 DEF Wgr
  <2> HIDE DEF p0
  <2>3. /\ ndr_state[n] = "LIVE"
        /\ Groups(w) \subseteq 0 .. m_next_wgr[n] - 1
        /\ Groups(w) \cap done[n] = {}
        /\ \A r \in Out : r[2].parent = n /\ r # p0 => Groups(w) \cap Groups(r[2]) = {}
    BY <1>1, <2>1 DEF GroupsInv, OutIsSound
  <2>4. QED
    BY <2>1, <2>2, <2>3 DEF OutOf
<1>4. failed = FALSE => failed' = FALSE
  BY <1>0, <1>1, <1>3 DEF on_timer
<1>5. /\ OutOf(n)' = OutOf(n) \ {p0} /\ p0 \in OutOf(n)
      /\ \A m : m # n => OutOf(m)' = OutOf(m)
  BY <1>1 DEF OutOf
<1>6. /\ Cardinality(OutOf(n)') = Cardinality(OutOf(n)) - 1
      /\ \A m : Cardinality(OutOf(m)) \in Nat
      /\ \A m : Cardinality(OutOf(m)') \in Nat
      /\ IsFiniteSet(OutOf(n)')
  <2>1. \A m : IsFiniteSet(OutOf(m)) /\ Cardinality(OutOf(m)) \in Nat
    BY <1>1, OutIsFinite
  <2>2. \A m : IsFiniteSet(OutOf(m)') /\ Cardinality(OutOf(m)') \in Nat
    <3>1. IsFiniteSet(OutOf(n) \ {p0}) /\ Cardinality(OutOf(n) \ {p0}) \in Nat
      BY <2>1, FS_Subset, FS_CardinalityType
    <3>2. QED
      BY <1>5, <2>1, <3>1
  <2>3. Cardinality(OutOf(n) \ {p0}) = Cardinality(OutOf(n)) - 1
    BY <1>5, <2>1, FS_RemoveElement
  <2>4. QED
    BY <1>5, <2>1, <2>2, <2>3
<1>7. /\ m_wgrs_in_the_wild[n] \in Nat /\ Cardinality(OutOf(n)) <= m_wgrs_in_the_wild[n]
      /\ wild \in Nat /\ Cardinality(OutOf(n)') <= wild
  <2>1. m_wgrs_in_the_wild[n] \in Nat /\ Cardinality(OutOf(n)) <= m_wgrs_in_the_wild[n]
    BY <1>3 DEF GroupsInv, NdrTypes, WildIsSound
  <2>2. QED
    BY <1>6, <2>1
<1>8. NdrTypes'
  <2>1. /\ m_total_size \in [NDRanges -> Nat] /\ m_next_wgr \in [NDRanges -> Nat]
        /\ m_wgrs_in_the_wild \in [NDRanges -> Nat]
        /\ ndr_state \in [NDRanges -> {"NONE", "LIVE", "DELETED"}]
        /\ event_state \in [NDRanges -> {"QUEUED", "COMPLETE"}]
        /\ done \in [NDRanges -> SUBSET Nat]
    BY DEF GroupsInv, NdrTypes
  <2>2. m_wgrs_in_the_wild' \in [NDRanges -> Nat]
    BY <1>2, <1>7, <2>1
  <2>3. ndr_state' \in [NDRanges -> {"NONE", "LIVE", "DELETED"}]
    BY <1>2, <2>1
  <2>4. event_state' \in [NDRanges -> {"QUEUED", "COMPLETE"}]
    BY <1>2, <2>1
  <2>5. done' \in [NDRanges -> SUBSET Nat]
    <3>1. Groups(w) \subseteq Nat
      BY <1>3 DEF Wgr, Groups
    <3>2. QED
      BY <1>2, <1>3, <2>1, <3>1
  <2>6. QED
    BY <1>2, <2>1, <2>2, <2>3, <2>4, <2>5 DEF NdrTypes
<1>9. /\ \A m \in NDRanges \ {n} : /\ m_wgrs_in_the_wild'[m] = m_wgrs_in_the_wild[m]
                                   /\ done'[m] = done[m]
                                   /\ event_state'[m] = event_state[m]
                                   /\ ndr_state'[m] = ndr_state[m]
      /\ m_wgrs_in_the_wild'[n] = wild
      /\ done'[n] = done[n] \cup Groups(w)
      /\ event_state'[n] = IF wild = 0 THEN "COMPLETE" ELSE event_state[n]
      /\ ndr_state'[n] = IF wild = 0 THEN "DELETED" ELSE ndr_state[n]
  BY <1>2, <1>3 DEF GroupsInv, NdrTypes
<1>10. wild = 0 => OutOf(n)' = {}
  BY <1>6, <1>7, FS_EmptySet
<1>11. OutIsSound'
  <2>1. SUFFICES ASSUME NEW p \in Out'
                 PROVE  /\ ndr_state'[p[2].parent] = "LIVE"
                        /\ Groups(p[2]) \subseteq 0 .. m_next_wgr'[p[2].parent] - 1
                        /\ Groups(p[2]) \cap done'[p[2].parent] = {}
                        /\ \A r \in Out' : r[2].parent = p[2].parent /\ r # p
                                            => Groups(p[2]) \cap Groups(r[2]) = {}
    BY DEF OutIsSound, Groups
  <2>2. /\ p \in Out /\ p # p0
        /\ ndr_state[p[2].parent] = "LIVE"
        /\ Groups(p[2]) \subseteq 0 .. m_next_wgr[p[2].parent] - 1
        /\ Groups(p[2]) \cap done[p[2].parent] = {}
        /\ \A r \in Out : r[2].parent = p[2].parent /\ r # p
                            => Groups(p[2]) \cap Groups(r[2]) = {}
    BY <1>1 DEF GroupsInv, OutIsSound
  <2>3. p[2].parent \in NDRanges
    BY <2>2 DEF Out, Wgr
  <2>4. CASE p[2].parent # n
    BY <1>1, <1>2, <1>9, <2>2, <2>3, <2>4
  <2>5. CASE p[2].parent = n
    <3>1. p \in OutOf(n) /\ p \in OutOf(n)'
      BY <1>5, <2>2, <2>5 DEF OutOf
    <3>2. ndr_state'[n] = "LIVE"
      BY <1>3, <1>9, <1>10, <3>1
    <3>3. Groups(w) \cap Groups(p[2]) = {}
      BY <1>3, <2>2, <3>1
    <3>4. Groups(p[2]) \cap done'[n] = {}
      BY <1>9, <2>2, <2>5, <3>3
    <3>5. QED
      BY <1>1, <1>2, <2>2, <2>5, <3>2, <3>4
  <2>6. QED
    BY <2>4, <2>5
<1>12. WildIsSound'
  <2>1. SUFFICES ASSUME NEW m \in NDRanges
                 PROVE  /\ Cardinality(OutOf(m)') <= m_wgrs_in_the_wild'[m]
                        /\ done'[m] \subseteq 0 .. m_next_wgr'[m] - 1
                        /\ Cardinality(OutOf(m)') = m_wgrs_in_the_wild'[m]
                             => \A v \in 0 .. m_next_wgr'[m] - 1 :
                                   v \in done'[m] \/ \E p \in OutOf(m)' : v \in Groups(p[2])
    BY DEF WildIsSound, Groups
  <2>2. /\ Cardinality(OutOf(m)) <= m_wgrs_in_the_wild[m]
        /\ done[m] \subseteq 0 .. m_next_wgr[m] - 1
        /\ Cardinality(OutOf(m)) = m_wgrs_in_the_wild[m]
             => \A v \in 0 .. m_next_wgr[m] - 1 :
                   v \in done[m] \/ \E p \in OutOf(m) : v \in Groups(p[2])
    BY DEF GroupsInv, WildIsSound
  <2>3. CASE m # n
    BY <1>2, <1>5, <1>9, <2>2, <2>3
  <2>4. CASE m = n
    <3>1. Cardinality(OutOf(n)') <= m_wgrs_in_the_wild'[n]
      BY <1>7, <1>9
    <3>2. done'[n] \subseteq 0 .. m_next_wgr'[n] - 1
      BY <1>2, <1>3, <1>9, <2>2, <2>4
    <3>3. ASSUME Cardinality(OutOf(n)') = m_wgrs_in_the_wild'[n],
                 NEW v \in 0 .. m_next_wgr'[n] - 1
          PROVE  v \in done'[n] \/ \E p \in OutOf(n)' : v \in Groups(p[2])
      <4>1. Cardinality(OutOf(n)) = m_wgrs_in_the_wild[n]
        BY <1>6, <1>7, <1>9, <3>3
      <4>2. v \in done[n] \/ \E p \in OutOf(n) : v \in Groups(p[2])
        BY <1>2, <2>2, <2>4, <4>1
      <4>3. p0[2] = w
        OBVIOUS
      <4>4. QED
        BY <1>5, <1>9, <4>2, <4>3
    <3>4. QED
      BY <2>4, <3>1, <3>2, <3>3
  <2>5. QED
    BY <2>3, <2>4
<1>13. StatesAgree'
  <2>1. SUFFICES ASSUME NEW m \in NDRanges
                 PROVE  /\ ndr_state'[m] = "NONE" => m_next_wgr'[m] = 0
                                                      /\ m_wgrs_in_the_wild'[m] = 0
                        /\ ndr_state'[m] = "DELETED" => m_wgrs_in_the_wild'[m] = 0
                        /\ ndr_state'[m] = "DELETED" <=> event_state'[m] = "COMPLETE"
    BY DEF StatesAgree
  <2>2. /\ ndr_state[m] = "NONE" => m_next_wgr[m] = 0 /\ m_wgrs_in_the_wild[m] = 0
        /\ ndr_state[m] = "DELETED" => m_wgrs_in_the_wild[m] = 0
        /\ ndr_state[m] = "DELETED" <=> event_state[m] = "COMPLETE"
    BY DEF GroupsInv, StatesAgree
  <2>3. CASE m # n
    BY <1>2, <1>9, <2>2, <2>3
  <2>4. CASE m = n
    BY <1>3, <1>9, <2>2, <2>4
  <2>5. QED
    BY <2>3, <2>4
<1>14. NoneDropped => NoneDropped'
  <2>1. SUFFICES ASSUME NoneDropped, NEW m \in NDRanges
                 PROVE  Cardinality(OutOf(m)') = m_wgrs_in_the_wild'[m]
    BY DEF NoneDropped
  <2>2. Cardinality(OutOf(m)) = m_wgrs_in_the_wild[m]
    BY <2>1 DEF NoneDropped
  <2>3. CASE m # n
    BY <1>5, <1>9, <2>2, <2>3
  <2>4. CASE m = n
    BY <1>6, <1>7, <1>9, <2>2, <2>4
  <2>5. QED
    BY <2>3, <2>4
<1>15. QED
  BY <1>1, <1>4, <1>8, <1>11, <1>12, <1>13, <1>14 DEF GroupsInv

\* The WGRs of a submission that find room in their queue, with its scheduler.
Sent(wgr) == {<<i, wgr[i]>> :
                 i \in {j \in DOMAIN wgr : Len(m_in_queue[j]) < QueueCapacity}}

\* What a submission adds to the WGRs that are out, when no scheduler in it holds
\* the WGR already.
LEMMA SubmitOut ==
    ASSUME SchedTypes, SchedTypes', NoneTwice, NEW wgr, Submission(wgr),
           \A p \in Out : p[1] \in DOMAIN wgr => p[2] # wgr[p[1]]
    PROVE  /\ Out' = Out \cup Sent(wgr)
           /\ NoneTwice'
<1>1. /\ DOMAIN wgr \subseteq Island
      /\ \A i \in DOMAIN wgr : wgr[i] \in Wgr
  BY DEF Submission
<1>2. ASSUME NEW i \in Island
      PROVE  /\ m_in_queue[i] \in Seq(Wgr)
             /\ m_in_queue'[i] = IF i \in DOMAIN wgr /\ Len(m_in_queue[i]) < QueueCapacity
                                 THEN Append(m_in_queue[i], wgr[i]) ELSE m_in_queue[i]
  <2>1. QueuesAfter(wgr)
    BY SubmitQueues
  <2>2. QED
    BY <2>1 DEF QueuesAfter, SchedTypes
<1>3. ASSUME NEW i \in Island, NEW k \in 1 .. Len(m_in_queue[i])
      PROVE  k \in 1 .. Len(m_in_queue'[i]) /\ m_in_queue'[i][k] = m_in_queue[i][k]
  <2>1. CASE i \in DOMAIN wgr /\ Len(m_in_queue[i]) < QueueCapacity
    <3>1. m_in_queue'[i] = Append(m_in_queue[i], wgr[i])
      BY <1>2, <2>1
    <3>2. /\ Len(m_in_queue'[i]) = Len(m_in_queue[i]) + 1
          /\ m_in_queue'[i][k] = m_in_queue[i][k]
      BY <1>1, <1>2, <2>1, <3>1, AppendProperties
    <3>3. Len(m_in_queue[i]) \in Nat
      BY <1>2
    <3>4. QED
      BY <3>2, <3>3
  <2>2. CASE ~(i \in DOMAIN wgr /\ Len(m_in_queue[i]) < QueueCapacity)
    BY <1>2, <2>2
  <2>3. QED
    BY <2>1, <2>2
<1>4. ASSUME NEW i \in Island, NEW k \in 1 .. Len(m_in_queue'[i]),
             k \notin 1 .. Len(m_in_queue[i])
      PROVE  /\ i \in DOMAIN wgr /\ Len(m_in_queue[i]) < QueueCapacity
             /\ k = Len(m_in_queue[i]) + 1 /\ m_in_queue'[i][k] = wgr[i]
  <2>1. i \in DOMAIN wgr /\ Len(m_in_queue[i]) < QueueCapacity
    BY <1>2, <1>4
  <2>2. m_in_queue'[i] = Append(m_in_queue[i], wgr[i])
    BY <1>2, <2>1
  <2>3. /\ Len(m_in_queue'[i]) = Len(m_in_queue[i]) + 1
        /\ m_in_queue'[i][Len(m_in_queue[i]) + 1] = wgr[i]
    BY <1>1, <1>2, <2>1, <2>2, AppendProperties
  <2>4. Len(m_in_queue[i]) \in Nat
    BY <1>2
  <2>5. k = Len(m_in_queue[i]) + 1
    BY <1>4, <2>3, <2>4
  <2>6. QED
    BY <2>1, <2>3, <2>5
<1>5. ASSUME NEW p \in Out' PROVE p \in Out \cup Sent(wgr)
  <2>1. /\ p[1] \in Island /\ p[2] \in Wgr /\ p = <<p[1], p[2]>>
        /\ \E k \in 1 .. Len(m_in_queue'[p[1]]) : m_in_queue'[p[1]][k] = p[2]
    BY DEF Out
  <2>2. PICK k \in 1 .. Len(m_in_queue'[p[1]]) : m_in_queue'[p[1]][k] = p[2]
    BY <2>1
  <2>3. CASE k \in 1 .. Len(m_in_queue[p[1]])
    <3>1. m_in_queue[p[1]][k] = p[2]
      BY <1>3, <2>1, <2>2, <2>3
    <3>2. QED
      BY <2>1, <2>3, <3>1, OutMembers
  <2>4. CASE k \notin 1 .. Len(m_in_queue[p[1]])
    <3>1. /\ p[1] \in DOMAIN wgr /\ Len(m_in_queue[p[1]]) < QueueCapacity
          /\ p[2] = wgr[p[1]]
      BY <1>4, <2>1, <2>2, <2>4
    <3>2. QED
      BY <2>1, <3>1 DEF Sent
  <2>5. QED
    BY <2>3, <2>4
<1>6. ASSUME NEW p \in Out PROVE p \in Out'
  <2>1. /\ p[1] \in Island /\ p[2] \in Wgr /\ p = <<p[1], p[2]>>
        /\ \E k \in 1 .. Len(m_in_queue[p[1]]) : m_in_queue[p[1]][k] = p[2]
    BY DEF Out
  <2>2. \E k \in 1 .. Len(m_in_queue'[p[1]]) : m_in_queue'[p[1]][k] = p[2]
    BY <1>3, <2>1
  <2>3. p \in Island \X Wgr
    BY <2>1
  <2>4. QED
    BY <2>2, <2>3 DEF Out
<1>7. ASSUME NEW i \in DOMAIN wgr, Len(m_in_queue[i]) < QueueCapacity
      PROVE  <<i, wgr[i]>> \in Out'
  <2>1. i \in Island /\ m_in_queue'[i] = Append(m_in_queue[i], wgr[i])
    BY <1>1, <1>2, <1>7
  <2>2. /\ Len(m_in_queue'[i]) = Len(m_in_queue[i]) + 1
        /\ m_in_queue'[i][Len(m_in_queue[i]) + 1] = wgr[i]
    BY <1>1, <1>2, <2>1, AppendProperties
  <2>3. Len(m_in_queue[i]) + 1 \in 1 .. Len(m_in_queue'[i])
    BY <1>2, <2>1, <2>2
  <2>4. <<i, wgr[i]>> \in Island \X Wgr
    BY <1>1
  <2>5. QED
    BY <2>2, <2>3, <2>4 DEF Out
<1>8. Out' = Out \cup Sent(wgr)
  <2>1. \A p \in Sent(wgr) : p \in Out'
    BY <1>7 DEF Sent
  <2>2. QED
    BY <1>5, <1>6, <2>1
<1>9. NoneTwice'
  <2>1. ASSUME NEW i \in Island,
               NEW j \in 1 .. Len(m_in_queue'[i]), NEW k \in 1 .. Len(m_in_queue'[i]),
               m_in_queue'[i][j] = m_in_queue'[i][k]
        PROVE  j = k
    <3>1. ASSUME NEW l \in 1 .. Len(m_in_queue[i]), i \in DOMAIN wgr
          PROVE  m_in_queue'[i][l] # wgr[i]
      <4>1. <<i, m_in_queue[i][l]>> \in Out
        BY OutMembers
      <4>2. m_in_queue[i][l] # wgr[i]
        BY <3>1, <4>1
      <4>3. QED
        BY <1>3, <4>2
    <3>2. CASE j \in 1 .. Len(m_in_queue[i]) /\ k \in 1 .. Len(m_in_queue[i])
      BY <1>3, <2>1, <3>2 DEF NoneTwice
    <3>3. CASE j \notin 1 .. Len(m_in_queue[i]) /\ k \notin 1 .. Len(m_in_queue[i])
      BY <1>4, <3>3
    <3>4. CASE j \in 1 .. Len(m_in_queue[i]) /\ k \notin 1 .. Len(m_in_queue[i])
      BY <1>4, <2>1, <3>1, <3>4
    <3>5. CASE j \notin 1 .. Len(m_in_queue[i]) /\ k \in 1 .. Len(m_in_queue[i])
      BY <1>4, <2>1, <3>1, <3>5
    <3>6. QED
      BY <3>2, <3>3, <3>4, <3>5
  <2>2. QED
    BY <2>1 DEF NoneTwice
<1>10. QED
  BY <1>8, <1>9

\* No more WGRs are sent than are submitted, and as many exactly if none is dropped.
LEMMA SentCount ==
    ASSUME SchedTypes, NEW wgr, Submission(wgr)
    PROVE  /\ IsFiniteSet(DOMAIN wgr) /\ Cardinality(DOMAIN wgr) \in Nat
           /\ IsFiniteSet(Sent(wgr)) /\ Cardinality(Sent(wgr)) \in Nat
           /\ Cardinality(Sent(wgr)) <= Cardinality(DOMAIN wgr)
           /\ Cardinality(Sent(wgr)) = Cardinality(DOMAIN wgr)
                => \A i \in DOMAIN wgr : <<i, wgr[i]>> \in Sent(wgr)
           /\ (\A i \in DOMAIN wgr : Len(m_in_queue[i]) < QueueCapacity)
                => Cardinality(Sent(wgr)) = Cardinality(DOMAIN wgr)
<1> DEFINE f == [p \in Sent(wgr) |-> p[1]]
<1>1. IsFiniteSet(DOMAIN wgr) /\ Cardinality(DOMAIN wgr) \in Nat
  <2>1. DOMAIN wgr \subseteq Island /\ IsFiniteSet(Island)
    BY IslandsAssumption, FS_Interval DEF Submission, Island
  <2>2. QED
    BY <2>1, FS_Subset, FS_CardinalityType
<1>2. \A p \in Sent(wgr) : p[1] \in DOMAIN wgr /\ p = <<p[1], wgr[p[1]]>>
  BY DEF Sent
<1>3. f \in [Sent(wgr) -> DOMAIN wgr] /\ \A p, r \in Sent(wgr) : f[p] = f[r] => p = r
  BY <1>2
<1>4. \A p \in Sent(wgr) : f[p] = p[1]
  OBVIOUS
<1> HIDE DEF f
<1>5. f \in Injection(Sent(wgr), DOMAIN wgr)
  BY <1>3 DEF Injection, IsInjective
<1>6. /\ IsFiniteSet(Sent(wgr)) /\ Cardinality(Sent(wgr)) <= Cardinality(DOMAIN wgr)
      /\ Cardinality(Sent(wgr)) = Cardinality(DOMAIN wgr)
           => f \in Surjection(Sent(wgr), DOMAIN wgr)
  BY <1>1, <1>5, FS_Injection
<1>7. ASSUME Cardinality(Sent(wgr)) = Cardinality(DOMAIN wgr), NEW i \in DOMAIN wgr
      PROVE  <<i, wgr[i]>> \in Sent(wgr)
  <2>1. \E p \in Sent(wgr) : f[p] = i
    BY <1>6, <1>7 DEF Surjection
  <2>2. QED
    BY <1>2, <1>4, <2>1
<1>8. ASSUME \A i \in DOMAIN wgr : Len(m_in_queue[i]) < QueueCapacity
      PROVE  Cardinality(Sent(wgr)) = Cardinality(DOMAIN wgr)
  <2>1. \A i \in DOMAIN wgr : <<i, wgr[i]>> \in Sent(wgr)
    BY <1>8 DEF Sent
  <2>2. \A i \in DOMAIN wgr : \E p \in Sent(wgr) : f[p] = i
    <3>1. \A i \in DOMAIN wgr : f[<<i, wgr[i]>>] = i
      BY <1>4, <2>1
    <3>2. QED
      BY <2>1, <3>1
  <2>3. f \in Surjection(Sent(wgr), DOMAIN wgr)
    BY <1>3, <2>2 DEF Surjection
  <2>4. Cardinality(DOMAIN wgr) <= Cardinality(Sent(wgr))
    BY <1>6, <2>3, FS_Surjection
  <2>5. Cardinality(DOMAIN wgr) \in Nat /\ Cardinality(Sent(wgr)) \in Nat
    BY <1>1, <1>6, FS_CardinalityType
  <2>6. QED
    BY <1>6, <2>4, <2>5
<1>9. QED
  BY <1>1, <1>6, <1>7, <1>8, FS_CardinalityType

\* The WGRs in wgr, all of n, share out the work groups from .. to - 1.
Carving(wgr, n, from, to) ==
    /\ \A i \in DOMAIN wgr : /\ wgr[i].parent = n
                             /\ Groups(wgr[i]) \subseteq from .. to - 1
    /\ \A i, j \in DOMAIN wgr : i # j => Groups(wgr[i]) \cap Groups(wgr[j]) = {}
    /\ \A v \in from .. to - 1 : \E i \in DOMAIN wgr : v \in Groups(wgr[i])

\* Carving an NDRange further and submitting what was carved, which no scheduler
\* holds yet, leaves the work groups consistent.
LEMMA SubmitGroups ==
    ASSUME SchedInv, SchedInv', GroupsInv,
           NEW wgr, Submission(wgr), NEW n \in NDRanges, NEW to \in Nat,
           m_next_wgr[n] <= to, Carving(wgr, n, m_next_wgr[n], to),
           \A p \in OutOf(n) : p[1] \in DOMAIN wgr => p[2] # wgr[p[1]],
           ndr_state[n] # "DELETED",
           ndr_state' = [ndr_state EXCEPT ![n] = "LIVE"],
           m_next_wgr' = [m_next_wgr EXCEPT ![n] = to],
           m_wgrs_in_the_wild' = [m_wgrs_in_the_wild EXCEPT
                                     ![n] = m_wgrs_in_the_wild[n] + Cardinality(DOMAIN wgr)],
           m_total_size' \in [NDRanges -> Nat],
           UNCHANGED <<event_state, done>>
    PROVE  /\ GroupsInv'
           /\ NoneDropped /\ (\A i \in DOMAIN wgr : Len(m_in_queue[i]) < QueueCapacity)
                => NoneDropped'
<1> DEFINE from == m_next_wgr[n]
<1>1. /\ SchedTypes /\ SchedTypes' /\ NoneTwice
      /\ m_next_wgr \in [NDRanges -> Nat] /\ m_wgrs_in_the_wild \in [NDRanges -> Nat]
      /\ ndr_state \in [NDRanges -> {"NONE", "LIVE", "DELETED"}]
      /\ event_state \in [NDRanges -> {"QUEUED", "COMPLETE"}]
      /\ done \in [NDRanges -> SUBSET Nat]
  BY DEF SchedInv, GroupsInv, NdrTypes
<1>2. Out' = Out \cup Sent(wgr) /\ NoneTwice'
  <2>1. \A p \in Out : p[1] \in DOMAIN wgr => p[2] # wgr[p[1]]
    BY DEF OutOf, Carving
  <2>2. QED
    BY <1>1, <2>1, SubmitOut
<1>3. \A p \in Sent(wgr) : /\ p = <<p[1], wgr[p[1]]>> /\ p[1] \in DOMAIN wgr
                             /\ p[2] = wgr[p[1]] /\ p[2].parent = n
  BY DEF Sent, Carving
<1>4. \A p \in Sent(wgr) : p[1] \in DOMAIN wgr /\ p[2] = wgr[p[1]] /\ p[2] \in Wgr
  BY <1>3 DEF Submission
<1>5. /\ OutOf(n)' = OutOf(n) \cup Sent(wgr)
      /\ OutOf(n) \cap Sent(wgr) = {}
      /\ \A m : m # n => OutOf(m)' = OutOf(m)
  BY <1>2, <1>3 DEF OutOf
<1>6. /\ \A m \in NDRanges \ {n} : /\ m_wgrs_in_the_wild'[m] = m_wgrs_in_the_wild[m]
                                   /\ m_next_wgr'[m] = m_next_wgr[m]
                                   /\ ndr_state'[m] = ndr_state[m]
      /\ m_wgrs_in_the_wild'[n] = m_wgrs_in_the_wild[n] + Cardinality(DOMAIN wgr)
      /\ m_next_wgr'[n] = to
      /\ ndr_state'[n] = "LIVE"
      /\ event_state' = event_state /\ done' = done
  BY <1>1
<1>7. /\ Cardinality(DOMAIN wgr) \in Nat /\ Cardinality(Sent(wgr)) \in Nat
      /\ Cardinality(Sent(wgr)) <= Cardinality(DOMAIN wgr)
      /\ Cardinality(Sent(wgr)) = Cardinality(DOMAIN wgr)
           => \A i \in DOMAIN wgr : <<i, wgr[i]>> \in Sent(wgr)
      /\ (\A i \in DOMAIN wgr : Len(m_in_queue[i]) < QueueCapacity)
           => Cardinality(Sent(wgr)) = Cardinality(DOMAIN wgr)
      /\ Cardinality(OutOf(n)) \in Nat
      /\ Cardinality(OutOf(n)') = Cardinality(OutOf(n)) + Cardinality(Sent(wgr))
  <2>1. /\ IsFiniteSet(DOMAIN wgr) /\ Cardinality(DOMAIN wgr) \in Nat
        /\ IsFiniteSet(Sent(wgr)) /\ Cardinality(Sent(wgr)) \in Nat
        /\ Cardinality(Sent(wgr)) <= Cardinality(DOMAIN wgr)
        /\ Cardinality(Sent(wgr)) = Cardinality(DOMAIN wgr)
             => \A i \in DOMAIN wgr : <<i, wgr[i]>> \in Sent(wgr)
        /\ (\A i \in DOMAIN wgr : Len(m_in_queue[i]) < QueueCapacity)
             => Cardinality(Sent(wgr)) = Cardinality(DOMAIN wgr)
    BY <1>1, SentCount
  <2>2. IsFiniteSet(OutOf(n)) /\ Cardinality(OutOf(n)) \in Nat
    BY <1>1, OutIsFinite
  <2>3. Cardinality(OutOf(n) \cup Sent(wgr))
          = Cardinality(OutOf(n)) + Cardinality(Sent(wgr)) - Cardinality(OutOf(n) \cap Sent(wgr))
    BY <2>1, <2>2, FS_Union
  <2>4. Cardinality(OutOf(n) \cap Sent(wgr)) = 0
    BY <1>5, FS_EmptySet
  <2>5. QED
    BY <1>5, <2>1, <2>2, <2>3, <2>4
<1>8. NdrTypes'
  <2>1. m_next_wgr' \in [NDRanges -> Nat] /\ m_wgrs_in_the_wild' \in [NDRanges -> Nat]
    BY <1>1, <1>7
  <2>2. ndr_state' \in [NDRanges -> {"NONE", "LIVE", "DELETED"}]
    BY <1>1
  <2>3. QED
    BY <1>1, <1>6, <2>1, <2>2 DEF NdrTypes
<1>9. /\ from \in Nat
      /\ done[n] \subseteq 0 .. from - 1
      /\ \A m \in NDRanges \ {n} : ndr_state'[m] = ndr_state[m]
  BY <1>1, <1>6 DEF GroupsInv, WildIsSound
<1>10. \A i \in DOMAIN wgr : /\ Groups(wgr[i]) \subseteq from .. to - 1
                             /\ \A v \in Groups(wgr[i]) : v \in Int /\ from <= v /\ v <= to - 1
  <2>1. \A i \in DOMAIN wgr : Groups(wgr[i]) \subseteq from .. to - 1
    BY DEF Carving
  <2> HIDE DEF from
  <2>2. QED
    BY <1>9, <2>1
<1>11. ASSUME NEW p \in Out
       PROVE  /\ p[2].parent \in NDRanges
              /\ ndr_state[p[2].parent] = "LIVE"
              /\ Groups(p[2]) \subseteq 0 .. m_next_wgr[p[2].parent] - 1
              /\ Groups(p[2]) \cap done[p[2].parent] = {}
              /\ \A r \in Out : r[2].parent = p[2].parent /\ r # p
                                  => Groups(p[2]) \cap Groups(r[2]) = {}
  <2>1. p[2].parent \in NDRanges
    BY DEF Out, Wgr
  <2>2. QED
    BY <2>1 DEF GroupsInv, OutIsSound
<1>12. \A p \in OutOf(n) : Groups(p[2]) \subseteq 0 .. from - 1
  BY <1>11 DEF OutOf
<1>13. ASSUME NEW p \in OutOf(n), NEW i \in DOMAIN wgr
       PROVE  Groups(p[2]) \cap Groups(wgr[i]) = {}
  <2> HIDE DEF from
  <2>1. \A v \in Groups(p[2]) : v \in Int /\ v <= from - 1
    BY <1>9, <1>12
  <2>2. QED
    BY <1>9, <1>10, <2>1
<1> HIDE DEF from
<1>14. OutIsSound'
  <2>1. SUFFICES ASSUME NEW p \in Out'
                 PROVE  /\ ndr_state'[p[2].parent] = "LIVE"
                        /\ Groups(p[2]) \subseteq 0 .. m_next_wgr'[p[2].parent] - 1
                        /\ Groups(p[2]) \cap done'[p[2].parent] = {}
                        /\ \A r \in Out' : r[2].parent = p[2].parent /\ r # p
                                            => Groups(p[2]) \cap Groups(r[2]) = {}
    BY DEF OutIsSound, Groups
  <2>2. CASE p \in Out /\ p[2].parent # n
    BY <1>2, <1>3, <1>6, <1>11, <2>2
  <2>3. CASE p \in Out /\ p[2].parent = n
    <3>1. p \in OutOf(n)
      BY <2>3 DEF OutOf
    <3>2. Groups(p[2]) \subseteq 0 .. to - 1
      <4>1. from <= to
        BY DEF from
      <4>2. QED
        BY <1>9, <1>12, <3>1, <4>1
    <3>3. \A r \in Sent(wgr) : Groups(p[2]) \cap Groups(r[2]) = {}
      BY <1>3, <1>13, <3>1
    <3>4. QED
      BY <1>2, <1>6, <1>11, <2>3, <3>2, <3>3
  <2>4. CASE p \in Sent(wgr)
    <3>1. /\ p = <<p[1], wgr[p[1]]>> /\ p[1] \in DOMAIN wgr
          /\ p[2] = wgr[p[1]] /\ p[2].parent = n
      BY <1>3, <2>4
    <3>2. Groups(p[2]) \subseteq 0 .. to - 1 /\ Groups(p[2]) \cap done[n] = {}
      <4>1. \A v \in Groups(p[2]) : v \in Int /\ from <= v /\ v <= to - 1
        BY <1>10, <3>1
      <4>2. QED
        BY <1>9, <4>1
    <3>3. ASSUME NEW r \in Out', r[2].parent = n, r # p
          PROVE  Groups(p[2]) \cap Groups(r[2]) = {}
      <4>1. CASE r \in Out
        <5>1. r \in OutOf(n)
          BY <3>3, <4>1 DEF OutOf
        <5>2. QED
          BY <1>13, <3>1, <5>1
      <4>2. CASE r \in Sent(wgr)
        BY <1>3, <3>1, <3>3, <4>2 DEF Carving
      <4>3. QED
        BY <1>2, <4>1, <4>2
    <3>4. QED
      BY <1>6, <3>1, <3>2, <3>3
  <2>5. QED
    BY <1>2, <2>2, <2>3, <2>4
<1>15. WildIsSound'
  <2>1. SUFFICES ASSUME NEW m \in NDRanges
                 PROVE  /\ Cardinality(OutOf(m)') <= m_wgrs_in_the_wild'[m]
                        /\ done'[m] \subseteq 0 .. m_next_wgr'[m] - 1
                        /\ Cardinality(OutOf(m)') = m_wgrs_in_the_wild'[m]
                             => \A v \in 0 .. m_next_wgr'[m] - 1 :
                                   v \in done'[m] \/ \E p \in OutOf(m)' : v \in Groups(p[2])
    BY DEF WildIsSound, Groups
  <2>2. /\ Cardinality(OutOf(m)) <= m_wgrs_in_the_wild[m]
        /\ m_wgrs_in_the_wild[m] \in Nat
        /\ done[m] \subseteq 0 .. m_next_wgr[m] - 1
        /\ Cardinality(OutOf(m)) = m_wgrs_in_the_wild[m]
             => \A v \in 0 .. m_next_wgr[m] - 1 :
                   v \in done[m] \/ \E p \in OutOf(m) : v \in Groups(p[2])
    BY <1>1 DEF GroupsInv, WildIsSound
  <2>3. CASE m # n
    BY <1>5, <1>6, <2>2, <2>3
  <2>4. CASE m = n
    <3>1. Cardinality(OutOf(n)') <= m_wgrs_in_the_wild'[n]
      BY <1>6, <1>7, <2>2, <2>4
    <3>2. done'[n] \subseteq 0 .. m_next_wgr'[n] - 1
      <4>1. from <= to
        BY DEF from
      <4>2. QED
        BY <1>6, <1>9, <4>1
    <3>3. ASSUME Cardinality(OutOf(n)') = m_wgrs_in_the_wild'[n],
                 NEW v \in 0 .. m_next_wgr'[n] - 1
          PROVE  v \in done'[n] \/ \E p \in OutOf(n)' : v \in Groups(p[2])
      <4>1. /\ Cardinality(OutOf(n)) = m_wgrs_in_the_wild[n]
            /\ Cardinality(Sent(wgr)) = Cardinality(DOMAIN wgr)
        BY <1>6, <1>7, <2>2, <2>4, <3>3
      <4>2. v \in Int /\ 0 <= v /\ v <= to - 1
        BY <1>6
      <4>3. CASE v < from
        <5>1. v \in 0 .. m_next_wgr[n] - 1
          BY <1>9, <4>2, <4>3 DEF from
        <5>2. v \in done[n] \/ \E p \in OutOf(n) : v \in Groups(p[2])
          BY <2>2, <2>4, <4>1, <5>1
        <5>3. QED
          BY <1>5, <1>6, <5>2
      <4>4. CASE v >= from
        <5>1. v \in from .. to - 1
          BY <1>9, <4>2, <4>4
        <5>2. PICK i \in DOMAIN wgr : v \in Groups(wgr[i])
          BY <5>1 DEF Carving, from
        <5>3. <<i, wgr[i]>> \in Sent(wgr) /\ <<i, wgr[i]>>[2] = wgr[i]
          BY <1>7, <4>1
        <5>4. QED
          BY <1>5, <5>2, <5>3
      <4>5. QED
        BY <1>9, <4>2, <4>3, <4>4
    <3>4. QED
      BY <2>4, <3>1, <3>2, <3>3
  <2>5. QED
    BY <2>3, <2>4
<1>16. StatesAgree'
  BY <1>6 DEF GroupsInv, StatesAgree
<1>17. ASSUME NoneDropped, \A i \in DOMAIN wgr : Len(m_in_queue[i]) < QueueCapacity
       PROVE  NoneDropped'
  <2>1. SUFFICES ASSUME NEW m \in NDRanges
                 PROVE  Cardinality(OutOf(m)') = m_wgrs_in_the_wild'[m]
    BY DEF NoneDropped
  <2>2. Cardinality(OutOf(m)) = m_wgrs_in_the_wild[m]
    BY <1>17 DEF NoneDropped
  <2>3. CASE m # n
    BY <1>5, <1>6, <2>2, <2>3
  <2>4. CASE m = n
    <3>1. Cardinality(Sent(wgr)) = Cardinality(DOMAIN wgr)
      BY <1>7, <1>17
    <3>2. QED
      BY <1>6, <1>7, <2>2, <2>4, <3>1
  <2>5. QED
    BY <2>3, <2>4
<1>18. QED
  BY <1>2, <1>8, <1>14, <1>15, <1>16, <1>17 DEF GroupsInv

\* Steps that touch neither the NDRanges nor the queues.
LEMMA GroupsFrame ==
    ASSUME GroupsInv, UNCHANGED <<ndrVars, m_in_queue>>
    PROVE  GroupsInv' /\ (NoneDropped => NoneDropped')
<1>1. /\ m_total_size' = m_total_size /\ m_next_wgr' = m_next_wgr
      /\ m_wgrs_in_the_wild' = m_wgrs_in_the_wild /\ ndr_state' = ndr_state
      /\ event_state' = event_state /\ done' = done /\ m_in_queue' = m_in_queue
  BY DEF ndrVars
<1>2. Out' = Out /\ \A n : OutOf(n)' = OutOf(n)
  BY <1>1 DEF Out, OutOf
<1>3. NdrTypes'
  BY <1>1 DEF GroupsInv, NdrTypes
<1>4. NoneTwice' /\ StatesAgree'
  BY <1>1 DEF GroupsInv, NoneTwice, StatesAgree
<1>5. OutIsSound'
  BY <1>1, <1>2 DEF GroupsInv, OutIsSound, Groups
<1>6. WildIsSound' /\ (NoneDropped => NoneDropped')
  BY <1>1, <1>2 DEF GroupsInv, WildIsSound, Groups, NoneDropped
<1>7. QED
  BY <1>3, <1>4, <1>5, <1>6 DEF GroupsInv

\* The initial state is consistent.
LEMMA IslandsStart ==
    ASSUME IslandsInit
    PROVE  SchedInv /\ GroupsInv /\ NoneDropped
<1> USE DEF IslandsInit
<1>1. SchedTypes
  <2>1. m_in_queue \in [Island -> Seq(Wgr)] /\ timer \in [Island -> {"OFF", "ON", "FIRED"}]
    OBVIOUS
  <2>2. m_free_schedulers \in Seq(Island)
    BY IslandsAssumption DEF Island
  <2>3. free_timer \in [active : BOOLEAN, repeat : BOOLEAN, pending : BOOLEAN]
    OBVIOUS
  <2>4. QED
    BY <2>1, <2>2, <2>3 DEF SchedTypes
<1>2. TimerIffBusy
  BY DEF TimerIffBusy
<1>3. m_free_schedulers = [i \in 1 .. N |-> i] /\ Len(m_free_schedulers) = N
  BY IslandsAssumption DEF Island
<1>4. FreeIffIdle
  BY <1>3 DEF FreeIffIdle, Island
<1>5. FreeTimerIffFree
  <2>1. m_free_schedulers # <<>>
    BY <1>3, IslandsAssumption
  <2>2. free_timer.active
    OBVIOUS
  <2>3. QED
    BY <2>1, <2>2 DEF FreeTimerIffFree
<1>6. Out = {} /\ \A n : OutOf(n) = {}
  BY DEF Out, OutOf
<1>7. Cardinality({}) = 0
  BY FS_EmptySet
<1>8. NdrTypes /\ NoneTwice /\ OutIsSound /\ StatesAgree
  BY <1>6 DEF NdrTypes, NoneTwice, OutIsSound, StatesAgree
<1>9. WildIsSound /\ NoneDropped
  <2>1. ASSUME NEW n \in NDRanges
        PROVE  /\ Cardinality(OutOf(n)) = 0 /\ m_wgrs_in_the_wild[n] = 0
               /\ done[n] = {} /\ m_next_wgr[n] = 0
    BY <1>6, <1>7
  <2>2. 0 .. 0 - 1 = {}
    OBVIOUS
  <2>3. QED
    BY <2>1, <2>2 DEF WildIsSound, NoneDropped
<1>10. QED
  BY <1>1, <1>2, <1>4, <1>5, <1>8, <1>9 DEF SchedInv, GroupsInv

\* When no queue is longer than its slots, the places that hold WGRs of n and the
\* WGRs of n that are out are as many and hold the same work groups.
LEMMA QueuedIsOut ==
    ASSUME SchedTypes, NoneTwice, NEW n,
           \A i \in Island : Len(m_in_queue[i]) <= QueueCapacity
    PROVE  /\ Cardinality(Queued(n)) = Cardinality(OutOf(n))
           /\ \A q \in Queued(n) : <<q[1], m_in_queue[q[1]][q[2]]>> \in OutOf(n)
           /\ \A p \in OutOf(n) : \E q \in Queued(n) : m_in_queue[q[1]][q[2]] = p[2]
           /\ \A p, q \in Queued(n) :
                 p # q => <<p[1], m_in_queue[p[1]][p[2]]>> # <<q[1], m_in_queue[q[1]][q[2]]>>
<1> DEFINE f == [q \in Queued(n) |-> <<q[1], m_in_queue[q[1]][q[2]]>>]
<1>1. ASSUME NEW q \in Queued(n)
      PROVE  /\ q[1] \in Island /\ q[2] \in 1 .. Len(m_in_queue[q[1]])
             /\ q = <<q[1], q[2]>> /\ m_in_queue[q[1]][q[2]].parent = n
             /\ <<q[1], m_in_queue[q[1]][q[2]]>> \in OutOf(n)
  <2>1. /\ q[1] \in Island /\ q[2] \in 1 .. QueueCapacity /\ q = <<q[1], q[2]>>
        /\ q[2] <= Len(m_in_queue[q[1]]) /\ m_in_queue[q[1]][q[2]].parent = n
    BY DEF Queued
  <2>2. Len(m_in_queue[q[1]]) \in Nat
    BY <2>1 DEF SchedTypes
  <2>3. q[2] \in 1 .. Len(m_in_queue[q[1]])
    BY <2>1, <2>2, CapacityAssumption
  <2>4. <<q[1], m_in_queue[q[1]][q[2]]>> \in Out
    BY <2>1, <2>3, OutMembers
  <2>5. QED
    BY <2>1, <2>3, <2>4 DEF OutOf
<1>2. ASSUME NEW p \in Queued(n), NEW q \in Queued(n), p[1] = q[1],
             m_in_queue[p[1]][p[2]] = m_in_queue[q[1]][q[2]]
      PROVE  p = q
  <2>1. /\ p[1] \in Island
        /\ p[2] \in 1 .. Len(m_in_queue[p[1]])
        /\ q[2] \in 1 .. Len(m_in_queue[p[1]])
        /\ m_in_queue[p[1]][p[2]] = m_in_queue[p[1]][q[2]]
        /\ p = <<p[1], p[2]>> /\ q = <<p[1], q[2]>>
    <3>1. q[2] \in 1 .. Len(m_in_queue[q[1]]) /\ q = <<q[1], q[2]>>
      BY <1>1
    <3>2. QED
      BY <1>1, <1>2, <3>1
  <2>2. p[2] = q[2]
    BY <2>1 DEF NoneTwice
  <2>3. QED
    BY <2>1, <2>2
<1>3. ASSUME NEW p \in OutOf(n)
      PROVE  \E q \in Queued(n) : q[1] = p[1] /\ m_in_queue[q[1]][q[2]] = p[2]
  <2>1. /\ p[1] \in Island /\ p[2].parent = n
        /\ \E k \in 1 .. Len(m_in_queue[p[1]]) : m_in_queue[p[1]][k] = p[2]
    BY OutMembers DEF OutOf
  <2>2. PICK k \in 1 .. Len(m_in_queue[p[1]]) : m_in_queue[p[1]][k] = p[2]
    BY <2>1
  <2>3. Len(m_in_queue[p[1]]) \in Nat /\ Len(m_in_queue[p[1]]) <= QueueCapacity
    BY <2>1 DEF SchedTypes
  <2>4. k \in 1 .. QueueCapacity /\ k <= Len(m_in_queue[p[1]])
    BY <2>3, CapacityAssumption
  <2>5. <<p[1], k>> \in Queued(n)
    BY <2>1, <2>2, <2>4 DEF Queued
  <2>6. QED
    BY <2>2, <2>5
<1>4. \A q \in Queued(n) : f[q] = <<q[1], m_in_queue[q[1]][q[2]]>> /\ f[q] \in OutOf(n)
  BY <1>1
<1>5. f \in [Queued(n) -> OutOf(n)]
  BY <1>1
<1> HIDE DEF f
<1>6. \A p, q \in Queued(n) : f[p] = f[q] => p = q
  <2>1. \A p \in Queued(n) : f[p][1] = p[1] /\ f[p][2] = m_in_queue[p[1]][p[2]]
    BY <1>4
  <2>2. QED
    BY <1>2, <2>1
<1>7. \A p \in OutOf(n) : \E q \in Queued(n) : f[q] = p
  <2>1. \A p \in OutOf(n) : p = <<p[1], p[2]>>
    BY OutMembers DEF OutOf
  <2>2. QED
    BY <1>3, <1>4, <2>1
<1>8. f \in Bijection(Queued(n), OutOf(n))
  BY <1>5, <1>6, <1>7 DEF Bijection, Injection, Surjection, IsInjective
<1>9. IsFiniteSet(OutOf(n))
  BY OutIsFinite
<1>10. Cardinality(Queued(n)) = Cardinality(OutOf(n))
  <2>1. f \in Injection(Queued(n), OutOf(n)) /\ f \in Surjection(Queued(n), OutOf(n))
    BY <1>8 DEF Bijection
  <2>2. /\ IsFiniteSet(Queued(n)) /\ Cardinality(Queued(n)) <= Cardinality(OutOf(n))
    BY <1>9, <2>1, FS_Injection
  <2>3. Cardinality(OutOf(n)) <= Cardinality(Queued(n))
    BY <2>1, <2>2, FS_Surjection
  <2>4. Cardinality(OutOf(n)) \in Nat /\ Cardinality(Queued(n)) \in Nat
    BY <1>9, <2>2, FS_CardinalityType
  <2>5. QED
    BY <2>2, <2>3, <2>4
<1>11. QED
  BY <1>1, <1>3, <1>4, <1>6, <1>10

\* So with nothing dropped the counters are right and every work group that was
\* carved is done or with one scheduler.
LEMMA NothingLost ==
    ASSUME SchedTypes, GroupsInv, NoneDropped,
           \A i \in Island : Len(m_in_queue[i]) <= QueueCapacity
    PROVE  WildCountsQueued /\ NoGroupLostOrRepeated
<1>1. ASSUME NEW n \in NDRanges
      PROVE  /\ m_wgrs_in_the_wild[n] = Cardinality(Queued(n))
             /\ done[n] \cup QueuedGroups(n) = 0 .. m_next_wgr[n] - 1
             /\ done[n] \cap QueuedGroups(n) = {}
             /\ \A p, q \in Queued(n) :
                   p # q => Groups(m_in_queue[p[1]][p[2]])
                               \cap Groups(m_in_queue[q[1]][q[2]]) = {}
  <2> DEFINE at(q) == m_in_queue[q[1]][q[2]]
  <2>1. /\ Cardinality(Queued(n)) = Cardinality(OutOf(n))
        /\ \A q \in Queued(n) : <<q[1], at(q)>> \in OutOf(n)
        /\ \A p \in OutOf(n) : \E q \in Queued(n) : at(q) = p[2]
        /\ \A p, q \in Queued(n) : p # q => <<p[1], at(p)>> # <<q[1], at(q)>>
    BY QueuedIsOut DEF GroupsInv
  <2>2. /\ Cardinality(OutOf(n)) = m_wgrs_in_the_wild[n]
        /\ done[n] \subseteq 0 .. m_next_wgr[n] - 1
        /\ \A v \in 0 .. m_next_wgr[n] - 1 :
              v \in done[n] \/ \E p \in OutOf(n) : v \in Groups(p[2])
    BY DEF NoneDropped, GroupsInv, WildIsSound
  <2> HIDE DEF at
  <2>3. ASSUME NEW q \in Queued(n)
        PROVE  /\ Groups(at(q)) \subseteq 0 .. m_next_wgr[n] - 1
               /\ Groups(at(q)) \cap done[n] = {}
               /\ \A r \in Out : r[2].parent = n /\ r # <<q[1], at(q)>>
                                   => Groups(at(q)) \cap Groups(r[2]) = {}
    <3>1. <<q[1], at(q)>> \in Out /\ at(q).parent = n
      BY <2>1 DEF OutOf
    <3>2. QED
      BY <3>1 DEF GroupsInv, OutIsSound
  <2>4. QueuedGroups(n) = UNION {Groups(at(q)) : q \in Queued(n)}
    BY DEF QueuedGroups, at
  <2>5. done[n] \cup QueuedGroups(n) = 0 .. m_next_wgr[n] - 1
    <3>1. \A v \in 0 .. m_next_wgr[n] - 1 : v \in done[n] \/ v \in QueuedGroups(n)
      BY <2>1, <2>2, <2>4
    <3>2. QueuedGroups(n) \subseteq 0 .. m_next_wgr[n] - 1
      BY <2>3, <2>4
    <3>3. QED
      BY <2>2, <3>1, <3>2
  <2>6. done[n] \cap QueuedGroups(n) = {}
    BY <2>3, <2>4
  <2>7. ASSUME NEW p \in Queued(n), NEW q \in Queued(n), p # q
        PROVE  Groups(at(p)) \cap Groups(at(q)) = {}
    <3>1. /\ <<q[1], at(q)>> \in Out /\ at(q).parent = n
          /\ <<q[1], at(q)>> # <<p[1], at(p)>> /\ <<q[1], at(q)>>[2] = at(q)
      BY <2>1, <2>7 DEF OutOf
    <3>2. QED
      BY <2>3, <3>1
  <2>8. QED
    BY <2>1, <2>2, <2>5, <2>6, <2>7 DEF at
<1>2. QED
  BY <1>1 DEF WildCountsQueued, NoGroupLostOrRepeated
===============================================================================
