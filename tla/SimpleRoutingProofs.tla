-------------------------- MODULE SimpleRoutingProofs --------------------------
(***************************************************************************)
(* What SimpleRouting guarantees for any number of islands, of NDRanges, of *)
(* work groups and of queue slots: the islands' invariant of IslandsProofs  *)
(* and the fact that an NDRange is carved to its end when it is routed.     *)
(***************************************************************************)
EXTENDS SimpleRouting, IslandsProofs

\* The remainder of what is smaller than the divisor.
LEMMA SmallRemainder ==
    ASSUME NEW m \in Nat \ {0}, NEW a \in 0 .. m - 1
    PROVE  a % m = a
OBVIOUS

\* The part of island i: one WGR from its cut to the next.
LEMMA PartOfIsland ==
    ASSUME NEW n, NEW total \in 0 .. MaxWgs, NEW cut \in Cuts(total),
           NEW i \in Island, cut[i + 1] - cut[i] > 0
    PROVE  CarvedWgr(n, cut[i], cut[i + 1] - cut[i], total)
              = [parent |-> n, start_x |-> cut[i], size_x |-> cut[i + 1]]
<1>1. i \in Nat /\ i \in 1 .. N + 1 /\ i + 1 \in 1 .. N + 1
  BY IslandsAssumption DEF Island
<1>2. /\ total \in Nat /\ total <= MaxWgs /\ MaxWgs \in Nat
      /\ UnsignedMod \in Nat /\ UnsignedMod > 2 * MaxWgs
  BY MaxWgsAssumption, UnsignedAssumption
<1>3. /\ cut[i] \in Nat /\ cut[i + 1] \in Nat /\ cut[i + 1] <= total
  <2>1. cut[i] \in 0 .. total /\ cut[i + 1] \in 0 .. total
    BY <1>1 DEF Cuts
  <2>2. QED
    BY <1>2, <2>1
<1> DEFINE a == cut[i]
           b == cut[i + 1]
<1> HIDE DEF a, b
<1>4. a \in Nat /\ b \in Nat /\ b <= total /\ b - a > 0
  BY <1>3 DEF a, b
<1>5. (total - 1) % UnsignedMod = total - 1
  <2>1. UnsignedMod \in Nat \ {0} /\ total - 1 \in 0 .. UnsignedMod - 1
    BY <1>2, <1>4
  <2>2. QED
    BY <2>1, SmallRemainder
<1>6. carve_wgs(a, b - a, total) = b - a
  <2>1. a + (b - a) = b
    BY <1>4
  <2>2. b > total - 1 => total - a = b - a
    BY <1>2, <1>4
  <2>3. QED
    BY <1>5, <2>1, <2>2 DEF carve_wgs
<1>7. a + carve_wgs(a, b - a, total) = b
  BY <1>4, <1>6
<1>8. QED
  BY <1>7 DEF CarvedWgr, a, b

\* The WGRs that route_ndrange submits share out all work groups.
LEMMA PartsAreAll ==
    ASSUME NEW n \in NDRanges, NEW total \in 0 .. MaxWgs, NEW cut \in Cuts(total)
    PROVE  LET chosen == {i \in Island : cut[i + 1] - cut[i] > 0}
               wgr    == [i \in chosen |->
                             CarvedWgr(n, cut[i], cut[i + 1] - cut[i], total)]
           IN  /\ \A i \in chosen : wgr[i] \in Wgr \cap WorkGroupRange
               /\ Carving(wgr, n, 0, total)
               /\ (IF N \in chosen THEN NextWgr(wgr[N]) ELSE cut[N]) = total
<1> DEFINE chosen == {i \in Island : cut[i + 1] - cut[i] > 0}
           wgr    == [i \in chosen |->
                         CarvedWgr(n, cut[i], cut[i + 1] - cut[i], total)]
<1>1. /\ total \in Nat /\ total <= MaxWgs /\ MaxWgs \in Nat /\ N \in Nat /\ N >= 1
  BY MaxWgsAssumption, IslandsAssumption
<1>2. /\ \A j \in 1 .. N + 1 : cut[j] \in Nat /\ cut[j] <= total
      /\ \A j, k \in 1 .. N + 1 : j <= k => cut[j] <= cut[k]
      /\ cut[1] = 0 /\ cut[N + 1] = total
  <2>1. cut \in [1 .. N + 1 -> 0 .. total]
    BY DEF Cuts
  <2>2. QED
    BY <1>1, <2>1 DEF Cuts
<1>3. \A i \in Island : i \in 1 .. N + 1 /\ i + 1 \in 1 .. N + 1 /\ i \in Nat
  BY <1>1 DEF Island
<1>4. ASSUME NEW i \in chosen
      PROVE  /\ i \in Nat /\ i \in Island /\ cut[i] < cut[i + 1]
             /\ wgr[i] = [parent |-> n, start_x |-> cut[i], size_x |-> cut[i + 1]]
             /\ Groups(wgr[i]) = cut[i] .. cut[i + 1] - 1
             /\ cut[i] \in Nat /\ cut[i + 1] \in Nat /\ cut[i + 1] <= total
  <2>1. /\ i \in Island /\ cut[i + 1] - cut[i] > 0
        /\ wgr[i] = CarvedWgr(n, cut[i], cut[i + 1] - cut[i], total)
    OBVIOUS
  <2>2. wgr[i] = [parent |-> n, start_x |-> cut[i], size_x |-> cut[i + 1]]
    BY <2>1, PartOfIsland
  <2> HIDE DEF wgr
  <2>3. Groups(wgr[i]) = cut[i] .. cut[i + 1] - 1
    BY <2>2 DEF Groups
  <2>4. cut[i] \in Nat /\ cut[i + 1] \in Nat /\ cut[i + 1] <= total
    BY <1>2, <1>3, <2>1
  <2>5. QED
    BY <1>3, <2>1, <2>2, <2>3, <2>4
<1>5. /\ DOMAIN wgr = chosen
      /\ \A i \in Island : cut[i + 1] - cut[i] > 0 => i \in chosen
  OBVIOUS
<1> HIDE DEF wgr, chosen
<1>6. ASSUME NEW i \in chosen PROVE wgr[i] \in Wgr \cap WorkGroupRange
  <2>1. /\ cut[i] \in Nat /\ cut[i + 1] \in Nat /\ cut[i] < cut[i + 1]
        /\ cut[i + 1] <= total
    BY <1>4
  <2>2. cut[i] \in 0 .. MaxWgs /\ cut[i + 1] \in 0 .. 2 * MaxWgs
    BY <1>1, <2>1
  <2>3. wgr[i] = [parent |-> n, start_x |-> cut[i], size_x |-> cut[i + 1]]
    BY <1>4
  <2>4. QED
    BY <2>1, <2>2, <2>3 DEF Wgr, WorkGroupRange
<1>7. ASSUME NEW v \in 0 .. total - 1 PROVE \E i \in chosen : v \in Groups(wgr[i])
  <2> DEFINE T == {j \in 1 .. N + 1 : cut[j] > v}
  <2>1. T \in SUBSET Nat /\ N + 1 \in T
    <3>1. N + 1 \in 1 .. N + 1 /\ cut[N + 1] > v
      BY <1>1, <1>2
    <3>2. QED
      BY <3>1
  <2>2. PICK t \in T : \A j \in T : t <= j
    <3> HIDE DEF T
    <3>1. QED
      BY <2>1, LeastNat
  <2>3. t \in 1 .. N + 1 /\ cut[t] > v /\ t # 1
    BY <1>2
  <2>4. /\ t - 1 \in Island /\ (t - 1) + 1 = t /\ t - 1 \in 1 .. N + 1
        /\ ~(t <= t - 1)
    BY <1>1, <2>3 DEF Island
  <2>5. ~(cut[t - 1] > v)
    BY <2>2, <2>4
  <2>6. cut[t] \in Nat /\ cut[t - 1] \in Nat /\ cut[t] - cut[t - 1] > 0
        /\ v \in cut[t - 1] .. cut[t] - 1
    BY <1>2, <2>3, <2>4, <2>5
  <2>7. t - 1 \in chosen
    BY <1>5, <2>4, <2>6
  <2>8. QED
    BY <1>4, <2>4, <2>6, <2>7
<1>8. ASSUME NEW i \in chosen, NEW j \in chosen, i < j
      PROVE  Groups(wgr[i]) \cap Groups(wgr[j]) = {}
  <2>1. i \in Nat /\ j \in Nat /\ i \in Island /\ j \in Island
    BY <1>4
  <2>2. cut[i + 1] <= cut[j]
    <3>1. i + 1 \in 1 .. N + 1 /\ j \in 1 .. N + 1 /\ i + 1 <= j
      BY <1>3, <1>8, <2>1
    <3>2. QED
      BY <1>2, <3>1
  <2>3. /\ Groups(wgr[i]) = cut[i] .. cut[i + 1] - 1 /\ cut[i + 1] \in Nat
        /\ Groups(wgr[j]) = cut[j] .. cut[j + 1] - 1 /\ cut[j] \in Nat
    BY <1>4
  <2>4. QED
    BY <2>2, <2>3
<1>9. Carving(wgr, n, 0, total)
  <2>1. ASSUME NEW i \in chosen
        PROVE  wgr[i].parent = n /\ Groups(wgr[i]) \subseteq 0 .. total - 1
    <3>1. /\ Groups(wgr[i]) = cut[i] .. cut[i + 1] - 1
          /\ cut[i] \in Nat /\ cut[i + 1] \in Nat /\ cut[i + 1] <= total
      BY <1>4
    <3>2. Groups(wgr[i]) \subseteq 0 .. total - 1
      BY <1>1, <3>1
    <3>3. wgr[i] = [parent |-> n, start_x |-> cut[i], size_x |-> cut[i + 1]]
      BY <1>4
    <3>4. QED
      BY <3>2, <3>3
  <2>2. ASSUME NEW i \in chosen, NEW j \in chosen, i # j
        PROVE  Groups(wgr[i]) \cap Groups(wgr[j]) = {}
    <3>1. i < j \/ j < i
      <4>1. i \in Nat /\ j \in Nat
        BY <1>4
      <4>2. QED
        BY <2>2, <4>1
    <3>2. QED
      BY <1>8, <3>1
  <2>3. QED
    BY <1>5, <1>7, <2>1, <2>2 DEF Carving
<1>10. (IF N \in chosen THEN NextWgr(wgr[N]) ELSE cut[N]) = total
  <2>1. CASE N \in chosen
    <3>1. wgr[N] = [parent |-> n, start_x |-> cut[N], size_x |-> cut[N + 1]]
      BY <1>4, <2>1
    <3>2. QED
      BY <1>2, <2>1, <3>1 DEF NextWgr
  <2>2. CASE N \notin chosen
    <3>1. N \in Island /\ N \in 1 .. N + 1 /\ N + 1 \in 1 .. N + 1 /\ N <= N + 1
      BY <1>1 DEF Island
    <3>2. ~(cut[N + 1] - cut[N] > 0) /\ cut[N] <= cut[N + 1]
      BY <1>2, <1>5, <2>2, <3>1
    <3>3. cut[N] = cut[N + 1]
      BY <1>2, <3>1, <3>2
    <3>4. QED
      BY <1>2, <2>2, <3>3
  <2>3. QED
    BY <2>1, <2>2
<1>11. QED
  BY <1>6, <1>9, <1>10 DEF wgr, chosen

-----------------------------------------------------------------------------
\* An NDRange that was routed has been carved to its end.
Routed ==
    \A n \in NDRanges :
       /\ m_total_size[n] \in 0 .. MaxWgs
       /\ ndr_state[n] # "NONE" => m_next_wgr[n] = m_total_size[n]

\* The WGRs that are out are within the bounds of the model.
InBounds == \A p \in Out : p[2] \in WorkGroupRange

\* AlgoSimple gives no scheduler two WGRs of one NDRange.
OncePerIsland == \A p, r \in Out :
                    p[1] = r[1] /\ p[2].parent = r[2].parent => p = r

\* The inductive invariant.
Inv == /\ SchedInv
       /\ GroupsInv
       /\ Routed
       /\ InBounds
       /\ OncePerIsland
       /\ failed = FALSE

\* It holds of the islands before anything was routed.
LEMMA InvInit ==
    ASSUME Init
    PROVE  Inv /\ NoneDropped
<1>1. SchedInv /\ GroupsInv /\ NoneDropped
  BY IslandsStart DEF Init
<1>2. Routed /\ failed = FALSE
  BY MaxWgsAssumption DEF Init, IslandsInit, Routed
<1>3. InBounds /\ OncePerIsland
  BY DEF Init, IslandsInit, InBounds, OncePerIsland, Out
<1>4. QED
  BY <1>1, <1>2, <1>3 DEF Inv

\* Routing an NDRange keeps the invariant; its WGRs are all taken if no
\* scheduler's queue is full.
LEMMA InvRoute ==
    ASSUME Inv, NEW n \in NDRanges, NEW total \in 0 .. MaxWgs,
           NEW cut \in Cuts(total), route_ndrange(n, total, cut)
    PROVE  /\ Inv'
           /\ NoneDropped /\ (\A i \in Island : Len(m_in_queue[i]) < QueueCapacity)
                => NoneDropped'
<1> DEFINE share(i) == cut[i + 1] - cut[i]
           chosen   == {i \in Island : share(i) > 0}
           wgr      == [i \in chosen |-> CarvedWgr(n, cut[i], share(i), total)]
           last     == IF N \in chosen THEN NextWgr(wgr[N]) ELSE cut[N]
<1>1. /\ \A i \in chosen : wgr[i] \in Wgr \cap WorkGroupRange
      /\ Carving(wgr, n, 0, total)
      /\ last = total
  BY PartsAreAll
<1>2. /\ ndr_state[n] = "NONE"
      /\ ndr_state' = [ndr_state EXCEPT ![n] = "LIVE"]
      /\ m_total_size' = [m_total_size EXCEPT ![n] = total]
      /\ m_next_wgr' = [m_next_wgr EXCEPT ![n] = last]
      /\ m_wgrs_in_the_wild' = [m_wgrs_in_the_wild EXCEPT ![n] = Cardinality(chosen)]
      /\ submit_wgr(wgr)
      /\ free_timer' = FreeTimerAfter(chosen)
      /\ failed' = (failed \/ last < total)
      /\ UNCHANGED <<event_state, done>>
  BY DEF route_ndrange
<1>3. DOMAIN wgr = chosen /\ chosen \subseteq Island
  OBVIOUS
<1> HIDE DEF chosen, wgr, last
<1>4. /\ SchedInv /\ GroupsInv /\ Routed /\ InBounds /\ OncePerIsland /\ failed = FALSE
      /\ SchedTypes /\ NoneTwice
      /\ m_total_size \in [NDRanges -> Nat] /\ m_next_wgr \in [NDRanges -> Nat]
      /\ ndr_state \in [NDRanges -> {"NONE", "LIVE", "DELETED"}]
      /\ m_wgrs_in_the_wild[n] = 0 /\ m_next_wgr[n] = 0
  BY <1>2 DEF Inv, SchedInv, GroupsInv, NdrTypes, StatesAgree
<1>5. total \in Nat /\ total <= MaxWgs
  BY MaxWgsAssumption
<1>6. failed' = FALSE
  <2>1. ~(last < total)
    BY <1>1, <1>5
  <2>2. failed' = (failed \/ last < total)
    BY <1>2
  <2>3. QED
    BY <1>4, <2>1, <2>2, Zenon
<1>7. Submission(wgr)
  BY <1>1, <1>2, <1>3 DEF Submission
<1>8. SchedInv'
  BY <1>2, <1>3, <1>4, <1>7, SubmitSched
<1>9. OutOf(n) = {}
  BY <1>2, <1>4 DEF OutOf, GroupsInv, OutIsSound
<1>10. /\ GroupsInv'
       /\ NoneDropped /\ (\A i \in DOMAIN wgr : Len(m_in_queue[i]) < QueueCapacity)
             => NoneDropped'
  <2>1. Carving(wgr, n, m_next_wgr[n], total) /\ m_next_wgr[n] <= total
    BY <1>1, <1>4, <1>5
  <2>2. \A p \in OutOf(n) : p[1] \in DOMAIN wgr => p[2] # wgr[p[1]]
    BY <1>9
  <2>3. m_wgrs_in_the_wild' = [m_wgrs_in_the_wild EXCEPT
                                  ![n] = m_wgrs_in_the_wild[n] + Cardinality(DOMAIN wgr)]
    <3>1. Cardinality(DOMAIN wgr) \in Nat
      BY <1>4, <1>7, SentCount
    <3>2. m_wgrs_in_the_wild[n] + Cardinality(DOMAIN wgr) = Cardinality(chosen)
      BY <1>3, <1>4, <3>1
    <3>3. QED
      BY <1>2, <3>2
  <2>4. m_total_size' \in [NDRanges -> Nat]
    BY <1>2, <1>4, <1>5
  <2>5. m_next_wgr' = [m_next_wgr EXCEPT ![n] = total]
    BY <1>1, <1>2
  <2>6. ndr_state[n] # "DELETED"
    BY <1>2
  <2>7. QED
    BY <1>2, <1>4, <1>5, <1>7, <1>8, <2>1, <2>2, <2>3, <2>4, <2>5, <2>6, SubmitGroups
<1>11. Routed'
  BY <1>1, <1>2, <1>4, <1>5 DEF Routed
<1>12. InBounds' /\ OncePerIsland'
  <2>1. SchedTypes'
    BY <1>8 DEF SchedInv
  <2>2. \A p \in Out : p[1] \in DOMAIN wgr => p[2] # wgr[p[1]]
    BY <1>1, <1>9 DEF OutOf, Carving
  <2>3. Out' = Out \cup Sent(wgr)
    BY <1>4, <1>7, <2>1, <2>2, SubmitOut
  <2>4. \A p \in Sent(wgr) : p[2] \in WorkGroupRange
    BY <1>1, <1>3 DEF Sent
  <2>5. \A p \in Sent(wgr) : p = <<p[1], wgr[p[1]]>> /\ p[2].parent = n
    BY <1>1 DEF Sent, Carving
  <2>6. \A p \in Out : p[2].parent # n
    BY <1>9 DEF OutOf
  <2>7. OncePerIsland'
    BY <1>4, <2>3, <2>5, <2>6 DEF OncePerIsland
  <2>8. QED
    BY <1>4, <2>3, <2>4, <2>7 DEF InBounds
<1>13. QED
  BY <1>3, <1>6, <1>8, <1>10, <1>11, <1>12 DEF Inv

\* Every other step keeps it and drops nothing.
LEMMA InvOthers ==
    ASSUME Inv,
           \/ \E i \in Island : TimerExpires(i) \/ on_timer(i)
           \/ FreeTimerExpires
           \/ FreeTimerCallback
           \/ UNCHANGED vars
    PROVE  Inv' /\ (NoneDropped => NoneDropped')
<1>1. /\ SchedInv /\ GroupsInv /\ Routed /\ InBounds /\ OncePerIsland
      /\ failed = FALSE
  BY DEF Inv
<1>2. ASSUME UNCHANGED <<ndrVars, m_in_queue, failed>>
      PROVE  /\ GroupsInv' /\ Routed' /\ InBounds' /\ OncePerIsland' /\ failed' = FALSE
             /\ NoneDropped => NoneDropped'
  <2>1. GroupsInv' /\ (NoneDropped => NoneDropped')
    BY <1>1, <1>2, GroupsFrame
  <2>2. Routed' /\ InBounds' /\ OncePerIsland' /\ failed' = FALSE
    BY <1>1, <1>2 DEF Routed, InBounds, OncePerIsland, Out, ndrVars
  <2>3. QED
    BY <2>1, <2>2
<1>3. ASSUME NEW i \in Island, TimerExpires(i)
      PROVE  Inv' /\ (NoneDropped => NoneDropped')
  <2>1. SchedInv'
    BY <1>1, <1>3, ExpireSched
  <2>2. QED
    BY <1>2, <1>3, <2>1 DEF TimerExpires, Inv
<1>4. ASSUME NEW i \in Island, on_timer(i)
      PROVE  Inv' /\ (NoneDropped => NoneDropped')
  <2>1. SchedInv' /\ Out' = Out \ {<<i, Head(m_in_queue[i])>>}
    BY <1>1, <1>4, OnTimerSched, OnTimerOut DEF GroupsInv
  <2>2. GroupsInv' /\ failed' = FALSE /\ (NoneDropped => NoneDropped')
    BY <1>1, <1>4, OnTimerGroups
  <2>3. InBounds' /\ OncePerIsland'
    BY <1>1, <2>1 DEF InBounds, OncePerIsland
  <2>4. Routed'
    <3>1. PICK w : w = Head(m_in_queue[i])
      OBVIOUS
    <3>2. /\ m_total_size' = m_total_size /\ m_next_wgr' = m_next_wgr
          /\ \/ ndr_state' = [ndr_state EXCEPT ![w.parent] = "DELETED"]
             \/ ndr_state' = ndr_state
      BY <1>4, <3>1 DEF on_timer, mark_as_finished
    <3>3. <<i, w>> \in Out /\ <<i, w>>[2] = w
      BY <1>1, <1>4, <3>1, OnTimerOut DEF GroupsInv
    <3>4. ndr_state[w.parent] = "LIVE"
      BY <1>1, <3>3 DEF GroupsInv, OutIsSound
    <3>5. ndr_state \in [NDRanges -> {"NONE", "LIVE", "DELETED"}]
      BY <1>1 DEF GroupsInv, NdrTypes
    <3>6. \A m \in NDRanges : ndr_state'[m] # "NONE" => ndr_state[m] # "NONE"
      BY <3>2, <3>4, <3>5
    <3>7. QED
      BY <1>1, <3>2, <3>6 DEF Routed
  <2>5. QED
    BY <2>1, <2>2, <2>3, <2>4 DEF Inv
<1>5. CASE FreeTimerExpires
  <2>1. SchedInv'
    BY <1>1, <1>5, FreeExpireSched
  <2>2. QED
    BY <1>2, <1>5, <2>1 DEF FreeTimerExpires, schedVars, Inv
<1>6. CASE FreeTimerCallback
  <2>1. SchedInv'
    BY <1>1, <1>6, RearmSched DEF FreeTimerCallback
  <2>2. QED
    BY <1>2, <1>6, <2>1 DEF FreeTimerCallback, schedVars, Inv
<1>7. CASE UNCHANGED vars
  <2>1. SchedInv'
    BY <1>1, <1>7 DEF vars, islandVars, schedVars, freeVars, SchedInv, SchedTypes,
                      TimerIffBusy, FreeIffIdle, FreeTimerIffFree
  <2>2. QED
    BY <1>2, <1>7, <2>1 DEF vars, islandVars, schedVars, Inv
<1>8. QED
  BY <1>3, <1>4, <1>5, <1>6, <1>7

\* Every step keeps it.
LEMMA InvStep ==
    ASSUME Inv, [Next]_vars
    PROVE  Inv'
BY InvRoute, InvOthers DEF Next

\* So it holds always.
LEMMA Invariance == Spec => []Inv
<1>1. Init => Inv
  BY InvInit
<1>2. Inv /\ [Next]_vars => Inv'
  BY InvStep
<1>3. QED
  BY <1>1, <1>2, PTL DEF Spec

-----------------------------------------------------------------------------
(* Theorems. *)

\* A scheduler's timer runs exactly while the scheduler has WGRs.
THEOREM TimersFollowWork == Spec => []TimerIffBusy
<1>1. Inv => TimerIffBusy
  BY DEF Inv, SchedInv
<1>2. QED
  BY <1>1, Invariance, PTL

\* The free list holds exactly the idle schedulers, each once.
THEOREM FreeListIsRight == Spec => []FreeIffIdle
<1>1. Inv => FreeIffIdle
  BY DEF Inv, SchedInv
<1>2. QED
  BY <1>1, Invariance, PTL

\* The types of the state follow from the invariant.
LEMMA InvTypes ==
    ASSUME Inv
    PROVE  TypeOK
<1>1. SchedTypes /\ NdrTypes /\ StatesAgree /\ Routed /\ InBounds /\ failed = FALSE
  BY DEF Inv, SchedInv, GroupsInv
<1>2. m_total_size \in [NDRanges -> 0 .. MaxWgs]
  BY <1>1 DEF NdrTypes, Routed
<1>3. m_next_wgr \in [NDRanges -> 0 .. MaxWgs]
  <2>1. ASSUME NEW n \in NDRanges PROVE m_next_wgr[n] \in 0 .. MaxWgs
    <3>1. CASE ndr_state[n] = "NONE"
      BY <1>1, <3>1, MaxWgsAssumption DEF StatesAgree
    <3>2. CASE ndr_state[n] # "NONE"
      BY <1>1, <3>2 DEF Routed
    <3>3. QED
      BY <3>1, <3>2
  <2>2. QED
    BY <1>1, <2>1 DEF NdrTypes
<1>4. m_in_queue \in [Island -> Seq(WorkGroupRange)]
  <2>1. ASSUME NEW i \in Island PROVE m_in_queue[i] \in Seq(WorkGroupRange)
    <3>1. /\ m_in_queue[i] \in Seq(Wgr) /\ Len(m_in_queue[i]) \in Nat
          /\ m_in_queue[i] \in [1 .. Len(m_in_queue[i]) -> Wgr]
      BY <1>1 DEF SchedTypes
    <3>2. ASSUME NEW k \in 1 .. Len(m_in_queue[i])
          PROVE  m_in_queue[i][k] \in WorkGroupRange
      <4>1. <<i, m_in_queue[i][k]>> \in Out
        BY <1>1, OutMembers
      <4>2. QED
        BY <1>1, <4>1 DEF InBounds
    <3>3. m_in_queue[i] \in [1 .. Len(m_in_queue[i]) -> WorkGroupRange]
      BY <3>1, <3>2
    <3>4. QED
      BY <3>1, <3>3, SeqDef
  <2>2. QED
    BY <1>1, <2>1 DEF SchedTypes
<1>5. QED
  BY <1>1, <1>2, <1>3, <1>4 DEF SchedTypes, NdrTypes, TypeOK

\* The types hold, no assertion of the scheduler or of the free list fails, an
\* NDRange is carved completely when it is routed, and none is used after it
\* deleted itself.
THEOREM NothingFails == Spec => []NoFailure
<1>1. Inv => NoFailure
  BY InvTypes DEF Inv, NoFailure
<1>2. QED
  BY <1>1, Invariance, PTL

\* The event of an NDRange is completed, and the NDRange deleted, only when every
\* one of its work groups was executed - even if a full queue dropped some WGRs:
\* those keep the counter from reaching 0.
THEOREM CompletionIsHonest == Spec => []CompleteMeansAllDone
<1>1. ASSUME Inv, NEW n \in NDRanges
      PROVE  /\ ndr_state[n] # "NONE" => m_next_wgr[n] = m_total_size[n]
             /\ event_state[n] = "COMPLETE" => done[n] = 0 .. m_total_size[n] - 1
             /\ event_state[n] = "COMPLETE" <=> ndr_state[n] = "DELETED"
  <2>1. /\ ndr_state[n] # "NONE" => m_next_wgr[n] = m_total_size[n]
        /\ ndr_state[n] = "DELETED" => m_wgrs_in_the_wild[n] = 0
        /\ ndr_state[n] = "DELETED" <=> event_state[n] = "COMPLETE"
    BY <1>1 DEF Inv, Routed, GroupsInv, StatesAgree
  <2>2. ASSUME event_state[n] = "COMPLETE"
        PROVE  done[n] = 0 .. m_total_size[n] - 1
    <3>1. m_wgrs_in_the_wild[n] = 0 /\ m_next_wgr[n] = m_total_size[n]
      BY <2>1, <2>2
    <3>2. IsFiniteSet(OutOf(n)) /\ Cardinality(OutOf(n)) \in Nat
      BY <1>1, OutIsFinite DEF Inv, SchedInv
    <3>3. /\ Cardinality(OutOf(n)) <= m_wgrs_in_the_wild[n]
          /\ done[n] \subseteq 0 .. m_next_wgr[n] - 1
          /\ Cardinality(OutOf(n)) = m_wgrs_in_the_wild[n]
                => \A v \in 0 .. m_next_wgr[n] - 1 :
                      v \in done[n] \/ \E p \in OutOf(n) : v \in Groups(p[2])
      BY <1>1 DEF Inv, GroupsInv, WildIsSound
    <3>4. Cardinality(OutOf(n)) = 0
      BY <3>1, <3>2, <3>3
    <3>5. OutOf(n) = {}
      BY <3>2, <3>4, FS_EmptySet
    <3>6. QED
      BY <3>1, <3>3, <3>4, <3>5
  <2>3. QED
    BY <2>1, <2>2
<1>2. Inv => CompleteMeansAllDone
  BY <1>1 DEF CompleteMeansAllDone
<1>3. QED
  BY <1>2, Invariance, PTL

\* A queue is no longer than the NDRanges whose WGRs it holds are many.
LEMMA QueueFits ==
    ASSUME SchedTypes, NoneTwice, OncePerIsland, NEW i \in Island, NEW T, IsFiniteSet(T),
           \A k \in 1 .. Len(m_in_queue[i]) : m_in_queue[i][k].parent \in T
    PROVE  Len(m_in_queue[i]) <= Cardinality(T)
<1> DEFINE parents == [k \in 1 .. Len(m_in_queue[i]) |-> m_in_queue[i][k].parent]
<1>1. Len(m_in_queue[i]) \in Nat
  BY DEF SchedTypes
<1>2. parents \in [1 .. Len(m_in_queue[i]) -> T]
  OBVIOUS
<1>3. ASSUME NEW j \in 1 .. Len(m_in_queue[i]), NEW k \in 1 .. Len(m_in_queue[i]),
             parents[j] = parents[k]
      PROVE  j = k
  <2>1. <<i, m_in_queue[i][j]>> \in Out /\ <<i, m_in_queue[i][k]>> \in Out
    BY OutMembers
  <2>2. m_in_queue[i][j] = m_in_queue[i][k]
    BY <1>3, <2>1 DEF OncePerIsland
  <2>3. QED
    BY <2>2 DEF NoneTwice
<1> HIDE DEF parents
<1>4. QED
  BY <1>1, <1>2, <1>3, DistinctFits

\* Queues have room when no more NDRanges are routed than a queue has slots. (A
\* scheduler ignores that its queue is full: scheduler_emu.cc:51.)
LEMMA QueuesHaveRoom ==
    ASSUME IsFiniteSet(NDRanges), Cardinality(NDRanges) <= QueueCapacity,
           SchedTypes, NoneTwice, OncePerIsland, NEW i \in Island
    PROVE  /\ Len(m_in_queue[i]) <= QueueCapacity
           /\ \A n \in NDRanges : OutOf(n) = {} => Len(m_in_queue[i]) < QueueCapacity
<1>1. /\ Len(m_in_queue[i]) \in Nat /\ Cardinality(NDRanges) \in Nat
      /\ QueueCapacity \in Nat
  BY FS_CardinalityType, CapacityAssumption DEF SchedTypes
<1>2. ASSUME NEW k \in 1 .. Len(m_in_queue[i])
      PROVE  /\ m_in_queue[i][k].parent \in NDRanges
             /\ <<i, m_in_queue[i][k]>> \in OutOf(m_in_queue[i][k].parent)
  <2>1. <<i, m_in_queue[i][k]>> \in Out
    BY OutMembers
  <2>2. QED
    BY <2>1 DEF OutOf, Out, Wgr
<1>3. Len(m_in_queue[i]) <= QueueCapacity
  <2>1. Len(m_in_queue[i]) <= Cardinality(NDRanges)
    BY <1>2, QueueFits
  <2>2. QED
    BY <1>1, <2>1
<1>4. ASSUME NEW n \in NDRanges, OutOf(n) = {}
      PROVE  Len(m_in_queue[i]) < QueueCapacity
  <2>1. \A k \in 1 .. Len(m_in_queue[i]) : m_in_queue[i][k].parent \in NDRanges \ {n}
    BY <1>2, <1>4
  <2>2. /\ IsFiniteSet(NDRanges \ {n})
        /\ Cardinality(NDRanges \ {n}) = Cardinality(NDRanges) - 1
    BY FS_RemoveElement
  <2>3. Len(m_in_queue[i]) <= Cardinality(NDRanges \ {n})
    BY <2>1, <2>2, QueueFits
  <2>4. QED
    BY <1>1, <2>2, <2>3
<1>5. QED
  BY <1>3, <1>4

\* With no more NDRanges than a queue has slots no WGR is dropped.
LEMMA Conserved ==
    ASSUME IsFiniteSet(NDRanges), Cardinality(NDRanges) <= QueueCapacity
    PROVE  Spec => [](WildCountsQueued /\ NoGroupLostOrRepeated)
<1>1. Init => Inv /\ NoneDropped
  BY InvInit
<1>2. Inv /\ NoneDropped /\ [Next]_vars => Inv' /\ NoneDropped'
  <2>1. SUFFICES ASSUME Inv, NoneDropped, [Next]_vars PROVE Inv' /\ NoneDropped'
    OBVIOUS
  <2>2. ASSUME NEW n \in NDRanges, NEW total \in 0 .. MaxWgs, NEW cut \in Cuts(total),
               route_ndrange(n, total, cut)
        PROVE  Inv' /\ NoneDropped'
    <3>1. SchedTypes /\ NoneTwice /\ OncePerIsland /\ OutIsSound /\ ndr_state[n] = "NONE"
      BY <2>1, <2>2 DEF Inv, SchedInv, GroupsInv, route_ndrange
    <3>2. OutOf(n) = {}
      BY <3>1 DEF OutOf, OutIsSound
    <3>3. \A i \in Island : Len(m_in_queue[i]) < QueueCapacity
      BY <3>1, <3>2, QueuesHaveRoom
    <3>4. QED
      BY <2>1, <2>2, <3>3, InvRoute
  <2>3. QED
    BY <2>1, <2>2, InvOthers DEF Next
<1>3. Inv /\ NoneDropped => WildCountsQueued /\ NoGroupLostOrRepeated
  <2>1. SUFFICES ASSUME Inv, NoneDropped
                 PROVE  WildCountsQueued /\ NoGroupLostOrRepeated
    OBVIOUS
  <2>2. SchedTypes /\ NoneTwice /\ OncePerIsland /\ GroupsInv
    BY <2>1 DEF Inv, SchedInv, GroupsInv
  <2>3. \A i \in Island : Len(m_in_queue[i]) <= QueueCapacity
    BY <2>2, QueuesHaveRoom
  <2>4. QED
    BY <2>1, <2>2, <2>3, NothingLost
<1>4. QED
  BY <1>1, <1>2, <1>3, PTL DEF Spec

\* m_wgrs_in_the_wild counts the WGRs that the schedulers hold: it is 0 when the
\* last of them has ended (NDRange::decrement_wgrs_counter), not earlier or later.
THEOREM WildCountIsRight ==
    ASSUME IsFiniteSet(NDRanges), Cardinality(NDRanges) <= QueueCapacity
    PROVE  Spec => []WildCountsQueued
BY Conserved, PTL

\* Every work group that was carved off an NDRange is done or with exactly one
\* scheduler, whatever the split and however the timers fall (AlgoSimple's
\* submissions, SchedulerEmu::on_timer).
THEOREM EveryGroupExecutedOnce ==
    ASSUME IsFiniteSet(NDRanges), Cardinality(NDRanges) <= QueueCapacity
    PROVE  Spec => []NoGroupLostOrRepeated
BY Conserved, PTL
===============================================================================
