--------------------------- MODULE SlicingRouting ---------------------------
(***************************************************************************)
(* The islands under AlgoSlicing (algo_slicing.cc), the algorithm the       *)
(* dispatcher can be set to by hand: an NDRange waits in m_ndranges and,    *)
(* whenever the free-schedulers timer fires, the one in front has a slice   *)
(* carved from it that fits the time quant of a free island, and goes to    *)
(* the back.                                                                *)
(*                                                                          *)
(* A scheduler is named by its place in Global's vector of schedulers,      *)
(* 1 .. N. The free list holds ids, which the configuration determines, and *)
(* the algorithm takes them for indexes of that vector: what it examines    *)
(* and chooses is the scheduler the id of a free one leads to, if any.      *)
(***************************************************************************)
EXTENDS Islands

CONSTANTS RingCapacity,         \* slots of m_ndranges (10)
          m_min_quant,          \* 30 in the dispatcher
          m_max_idle_threshold, \* 2 in the dispatcher
          WgCosts,              \* values of get_wg_cost_on_island: 0 when the
                                \* bitstream's file has no local_cost
          Ids                   \* values of a scheduler's m_id

ASSUME RingAssumption  == RingCapacity \in Nat \ {0}
ASSUME QuantAssumption == m_min_quant \in Nat /\ m_max_idle_threshold \in Nat
ASSUME CostAssumption  == WgCosts \subseteq Nat
ASSUME IdsAssumption   == Ids \subseteq Nat

VARIABLES m_ndranges, \* the NDRanges with work groups to carve
          wg_cost,    \* the tracker's cost of a work group, per island
          m_id,       \* the id of each scheduler
          dropped     \* history: the WGRs a full m_in_queue did not take

algoVars == <<m_ndranges, wg_cost, m_id, dropped>>
vars == <<islandVars, algoVars>>

\* Distinct regions have distinct ids (module Startup).
Init == /\ IslandsInit
        /\ m_ndranges = <<>>
        /\ wg_cost = [n \in NDRanges |-> [i \in Island |-> 1]]
        /\ m_id \in {id \in [Island -> Ids] :
                       \A i, j \in Island : id[i] = id[j] => i = j}
        /\ dropped = {}

-----------------------------------------------------------------------------
\* A full ring refuses an NDRange, and the dispatcher ignores that.
push_front(n) == IF Len(m_ndranges) = RingCapacity THEN m_ndranges
                                                   ELSE <<n>> \o m_ndranges

\* handle_ndrange_command constructs the NDRange and AlgoSlicing::route_ndrange
\* puts it in front of those that wait.
route_ndrange(n, total, cost) ==
    /\ ~failed
    /\ ndr_state[n] = "NONE"
    /\ ndr_state' = [ndr_state EXCEPT ![n] = "LIVE"]
    /\ m_total_size' = [m_total_size EXCEPT ![n] = total]
    /\ wg_cost' = [wg_cost EXCEPT ![n] = cost]
    /\ m_ndranges' = push_front(n)
    /\ UNCHANGED <<m_next_wgr, m_wgrs_in_the_wild, event_state, done,
                   schedVars, freeVars, failed, m_id, dropped>>

\* Mutant: one work group too many.
Mutant_WgsInQuant(n, i, quant) == quant \div wg_cost[n][i] + 1

\* How many work groups of n island i executes in a quant. (The emulated
\* schedulers never need reconfiguration, so nothing is subtracted.)
WgsInQuant(n, i, quant) == quant \div wg_cost[n][i]

\* The scheduler whose index is the id of scheduler i; 0 if none is.
indexed(i) == IF m_id[i] < N THEN m_id[i] + 1 ELSE 0

\* The schedulers examined, in the order of the free list.
Examined == [k \in 1 .. Len(m_free_schedulers) |-> indexed(m_free_schedulers[k])]

\* The vector is read beyond its end, or quant - reconf_cost is divided by 0.
SelectFails(n) ==
    \E k \in 1 .. Len(m_free_schedulers) :
       Examined[k] # 0 => wg_cost[n][Examined[k]] = 0

\* The first of the best schedulers examined: the one that fits most work groups
\* in the quant and, of several, the one that takes least time; 0 if none fits
\* any.
select_best_scheduler(n, quant) ==
    LET wgs(k)  == WgsInQuant(n, Examined[k], quant)
        cost(k) == wgs(k) * wg_cost[n][Examined[k]]
        fitting == {k \in 1 .. Len(m_free_schedulers) : wgs(k) > 0}
        better(j, k) == \/ wgs(j) > wgs(k)
                        \/ wgs(j) = wgs(k) /\ cost(j) < cost(k)
                        \/ wgs(j) = wgs(k) /\ cost(j) = cost(k) /\ j < k
    IN  IF fitting = {} THEN 0
        ELSE Examined[CHOOSE k \in fitting :
                         \A j \in fitting \ {k} : better(k, j)]

LargerQuant == m_min_quant * m_max_idle_threshold

\* The quant of the slice: the larger one when no free scheduler fits a work
\* group in the smaller.
Quant(n) == IF select_best_scheduler(n, m_min_quant) # 0 THEN m_min_quant
                                                         ELSE LargerQuant

Chosen(n) == select_best_scheduler(n, Quant(n))

\* The free-schedulers timer calls on_free_schedulers.
CallbackDue == free_timer.pending /\ ~failed

\* on_free_schedulers returns early.
NothingToSlice ==
    /\ CallbackDue
    /\ m_ndranges = <<>> \/ m_free_schedulers = <<>>
    /\ free_timer' = RearmedFreeTimer({})
    /\ UNCHANGED <<ndrVars, schedVars, m_free_schedulers, failed, algoVars>>

\* The NDRange popped has deleted itself: its kernel name is read from freed
\* memory, and what happens from then on is not modelled.
PopDeleted ==
    /\ CallbackDue
    /\ m_ndranges # <<>> /\ m_free_schedulers # <<>>
    /\ ndr_state[Head(m_ndranges)] = "DELETED"
    /\ failed' = TRUE
    /\ UNCHANGED <<ndrVars, schedVars, freeVars, algoVars>>

\* The NDRange popped makes select_best_scheduler fail.
PopFails ==
    /\ CallbackDue
    /\ m_ndranges # <<>> /\ m_free_schedulers # <<>>
    /\ ndr_state[Head(m_ndranges)] = "LIVE"
    /\ SelectFails(Head(m_ndranges))
    /\ failed' = TRUE
    /\ UNCHANGED <<ndrVars, schedVars, freeVars, algoVars>>

\* Mutants: an NDRange that fits nowhere stays in front; one that was sliced is
\* forgotten.
Mutant_PutBack == m_ndranges
Mutant_AfterSlice(next) == Tail(m_ndranges)

\* An NDRange that fits nowhere goes to the back.
PutBack == Append(Tail(m_ndranges), Head(m_ndranges))

\* So does one with more work groups (has_more_wgs) after a slice.
AfterSlice(next) == IF next < m_total_size[Head(m_ndranges)]
                    THEN PutBack ELSE Tail(m_ndranges)

\* No scheduler examined fits a work group of the NDRange popped.
FitsNowhere ==
    /\ CallbackDue
    /\ m_ndranges # <<>> /\ m_free_schedulers # <<>>
    /\ ndr_state[Head(m_ndranges)] = "LIVE"
    /\ ~SelectFails(Head(m_ndranges))
    /\ Chosen(Head(m_ndranges)) = 0
    /\ m_ndranges' = PutBack
    /\ free_timer' = RearmedFreeTimer({})
    /\ UNCHANGED <<ndrVars, schedVars, m_free_schedulers, failed, wg_cost,
                   m_id, dropped>>

\* The WGR carved for island i.
NextSlice(n, i) == CarvedWgr(n, m_next_wgr[n], WgsInQuant(n, i, Quant(n)),
                             m_total_size[n])

\* A slice is carved from the NDRange popped and submitted to the chosen one,
\* which may be busy, with a full queue even, if its id is not its index.
Slice ==
    /\ CallbackDue
    /\ m_ndranges # <<>> /\ m_free_schedulers # <<>>
    /\ ndr_state[Head(m_ndranges)] = "LIVE"
    /\ ~SelectFails(Head(m_ndranges))
    /\ \E i \in {Chosen(Head(m_ndranges))} \ {0} :
       \E wgr \in {NextSlice(Head(m_ndranges), i)} :
           /\ m_next_wgr' = [m_next_wgr EXCEPT ![wgr.parent] = NextWgr(wgr)]
           /\ m_wgrs_in_the_wild' = [m_wgrs_in_the_wild EXCEPT ![wgr.parent] = @ + 1]
           /\ submit_wgr([j \in {i} |-> wgr])
           /\ free_timer' = RearmedFreeTimer({i})
           /\ m_ndranges' = AfterSlice(NextWgr(wgr))
           /\ dropped' = IF Len(m_in_queue[i]) < QueueCapacity THEN dropped
                         ELSE dropped \cup {wgr}
    /\ UNCHANGED <<m_total_size, ndr_state, event_state, done, failed, wg_cost,
                   m_id>>

FreeTimerCallback ==
    NothingToSlice \/ PopDeleted \/ PopFails \/ FitsNowhere \/ Slice

\* set_execution_cost for a WGR of scheduler i, which is the time its timer is
\* set to: get_total_size, the factor, is size_x, where the WGR ends.
execution_cost(wgr, i) == wgr.size_x * wg_cost[wgr.parent][i]

\* The schedulers and the clock go on as in Islands.
SchedulerStep(i) == /\ ~failed
                    /\ TimerExpires(i) \/ on_timer(i)
                    /\ UNCHANGED algoVars
ClockStep == ~failed /\ FreeTimerExpires /\ UNCHANGED algoVars

Next == \/ \E n \in NDRanges, total \in 0 .. MaxWgs,
              cost \in [Island -> WgCosts] : route_ndrange(n, total, cost)
        \/ \E i \in Island : SchedulerStep(i)
        \/ ClockStep
        \/ FreeTimerCallback

Spec == Init /\ [][Next]_vars

\* libev serves every expired timer and every pending callback.
Fairness == /\ \A i \in Island : WF_vars(SchedulerStep(i))
            /\ WF_vars(ClockStep)
            /\ WF_vars(FreeTimerCallback)

FairSpec == Spec /\ Fairness

-----------------------------------------------------------------------------
(* Properties. *)

\* An NDRange waits in m_ndranges, once, exactly while it has work groups to
\* carve, unless the ring was full when it came (algo_slicing.cc:141, 158-161).
WaitsIffMoreWork ==
    \A n \in NDRanges :
       LET places == {k \in 1 .. Len(m_ndranges) : m_ndranges[k] = n}
       IN  /\ Cardinality(places) <= 1
           /\ places # {} /\ m_total_size[n] > 0
                 => m_next_wgr[n] < m_total_size[n]
           /\ m_next_wgr[n] \in 1 .. m_total_size[n] - 1 => places # {}

\* The work groups of n that full queues dropped.
DroppedGroups(n) == UNION {Groups(wgr) : wgr \in {d \in dropped : d.parent = n}}

\* Every work group that was carved is done, with exactly one scheduler, or was
\* dropped by the full queue of one whose id is not its index; and an NDRange
\* whose event completes has all those it carved done, so that what it lacks is
\* the rest it did not carve, for which it still waits in m_ndranges
\* (ndrange.cc:188-206, algo_slicing.cc:158-161).
GroupsAccountedFor ==
    \A n \in NDRanges :
       /\ done[n] \cup QueuedGroups(n) \cup DroppedGroups(n)
             = 0 .. m_next_wgr[n] - 1
       /\ done[n] \cap QueuedGroups(n) = {}
       /\ DroppedGroups(n) \cap (done[n] \cup QueuedGroups(n)) = {}
       /\ \A p, q \in Queued(n) :
             p # q => Groups(m_in_queue[p[1]][p[2]])
                         \cap Groups(m_in_queue[q[1]][q[2]]) = {}
       /\ DroppedGroups(n) # {} => \E i \in Island : m_id[i] # i - 1
       /\ event_state[n] = "COMPLETE" =>
             /\ done[n] = 0 .. m_next_wgr[n] - 1
             /\ m_next_wgr[n] < m_total_size[n] =>
                   \E k \in 1 .. Len(m_ndranges) : m_ndranges[k] = n

\* The time an island is occupied by a slice exceeds the quant the slice was made
\* for by that of the work groups carved before it, and by no more: the quant is
\* m_min_quant or, if one work group alone takes longer on the island,
\* m_min_quant * m_max_idle_threshold (algo_slicing.cc:127-154).
OverrunIsStart ==
    \A i \in Island : \A k \in 1 .. Len(m_in_queue[i]) :
       LET wgr   == m_in_queue[i][k]
           cost  == wg_cost[wgr.parent][i]
           quant == IF cost <= m_min_quant THEN m_min_quant ELSE LargerQuant
       IN  execution_cost(wgr, i) <= quant + wgr.start_x * cost

\* An NDRange that was taken and that fits some quant on every island is carved
\* to its end, whatever else waits (unless a deleted NDRange is met first, or an
\* id that is no index, or a cost of 0).
AffordableIsCarved ==
    \A n \in NDRanges :
       /\ \E k \in 1 .. Len(m_ndranges) : m_ndranges[k] = n
       /\ \A i \in Island : wg_cost[n][i] <= LargerQuant
       ~> m_next_wgr[n] >= m_total_size[n] \/ failed
-----------------------------------------------------------------------------
(* What comments say and the code does not do. *)

\* ndrange.cc:190-193, "check if there are any more wgs left - if not, set the
\* attached event to COMPLETE": an NDRange completes when it has none left.
CompleteMeansNoneLeft ==
    \A n \in NDRanges :
       event_state[n] = "COMPLETE" => m_next_wgr[n] >= m_total_size[n]

\* algo_slicing.h:54-55, "we can still use them, but ONLY if total cost is below
\* m_min_quant*m_max_idle_threshold": no slice takes longer than this.
SliceFitsQuant ==
    \A i \in Island : \A k \in 1 .. Len(m_in_queue[i]) :
       execution_cost(m_in_queue[i][k], i) <= LargerQuant
=============================================================================
