------------------------------ MODULE Islands -------------------------------
(***************************************************************************)
(* What the event-loop thread does once a kernel has reached the            *)
(* dispatcher: NDRange objects are carved into work-group ranges (WGRs),    *)
(* which the emulated schedulers, one per reconfigurable island, execute    *)
(* one after the other by waiting for a timer; the FreeSchedulersManager    *)
(* keeps the list of islands with nothing to do and a timer that fires for  *)
(* as long as there are any (ndrange.cc, scheduler_emu.cc,                  *)
(* free_sched_mgr.cc, ev_timer.cc).                                         *)
(*                                                                          *)
(* Every callback runs to its end on the one loop thread, so it is one      *)
(* step; libev's separation of a timer's expiry (which deactivates it) from *)
(* the call of its callback is kept, because other callbacks run between.   *)
(* SimpleRouting and SlicingRouting add the algorithm that submits WGRs.    *)
(***************************************************************************)
EXTENDS Integers, Sequences, FiniteSets

CONSTANTS N,             \* the number of islands, each with a scheduler
          NDRanges,      \* the NDRange objects
          MaxWgs,        \* bound: work groups in an NDRange
          QueueCapacity, \* slots of a scheduler's m_in_queue (100)
          UnsignedMod    \* unsigned arithmetic is modulo UnsignedMod

ASSUME IslandsAssumption  == N \in Nat \ {0}
ASSUME MaxWgsAssumption   == MaxWgs \in Nat
ASSUME CapacityAssumption == QueueCapacity \in Nat /\ QueueCapacity >= 2
ASSUME UnsignedAssumption == UnsignedMod \in Nat /\ UnsignedMod > 2 * MaxWgs

Island == 1 .. N

VARIABLES
    m_total_size,       \* of each NDRange
    m_next_wgr,         \* the first work group not carved yet
    m_wgrs_in_the_wild, \* WGRs carved and not finished
    ndr_state,          \* "NONE", then "LIVE", then "DELETED"
    event_state,        \* of the event the NDRange completes
    m_in_queue,         \* the WGRs submitted to each scheduler
    timer,              \* its m_timer: "OFF", "ON", or "FIRED" (expired, the
                        \* callback not called yet)
    m_free_schedulers,  \* the ids of the schedulers that are free
    free_timer,         \* m_free_sched_timer: active, repeat, pending
    done,               \* history: the work groups of finished WGRs
    failed              \* an assert failed or a deleted NDRange was used

ndrVars   == <<m_total_size, m_next_wgr, m_wgrs_in_the_wild, ndr_state,
               event_state, done>>
schedVars == <<m_in_queue, timer>>
freeVars  == <<m_free_schedulers, free_timer>>
islandVars == <<ndrVars, schedVars, freeVars, failed>>

\* A WGR: its NDRange, its first work group and the one after its last. The
\* code keeps the latter in m_size_x (carve_wgs passes start_coord +
\* wgs_to_carve).
WorkGroupRange == [parent : NDRanges, start_x : 0 .. MaxWgs,
                   size_x : 0 .. 2 * MaxWgs]

\* Global's constructor announces every scheduler as free before the loop
\* thread starts; the first announcement starts the (repeating) timer.
IslandsInit ==
    /\ m_total_size = [n \in NDRanges |-> 0]
    /\ m_next_wgr = [n \in NDRanges |-> 0]
    /\ m_wgrs_in_the_wild = [n \in NDRanges |-> 0]
    /\ ndr_state = [n \in NDRanges |-> "NONE"]
    /\ event_state = [n \in NDRanges |-> "QUEUED"]
    /\ m_in_queue = [i \in Island |-> <<>>]
    /\ timer = [i \in Island |-> "OFF"]
    /\ m_free_schedulers = [i \in Island |-> i]
    /\ free_timer = [active |-> TRUE, repeat |-> TRUE, pending |-> FALSE]
    /\ done = [n \in NDRanges |-> {}]
    /\ failed = FALSE

-----------------------------------------------------------------------------
\* Mutant: the last part is one work group too small.
Mutant_carve_wgs_under(next, num_wgs, total) ==
    IF next + num_wgs > total - 1 THEN total - 1 - next ELSE num_wgs

\* carve_wgs: how many of num_wgs work groups are carved from next on. The
\* bound m_total_size - 1 is unsigned.
carve_wgs(next, num_wgs, total) ==
    IF next + num_wgs > (total - 1) % UnsignedMod THEN total - next
                                                  ELSE num_wgs

\* Mutant: the WGR ends one work group too late.
Mutant_CarvedWgr(n, next, num_wgs, total) ==
    [parent |-> n, start_x |-> next,
     size_x |-> next + carve_wgs(next, num_wgs, total) + 1]

\* The WGR carve_wgs returns.
CarvedWgr(n, next, num_wgs, total) ==
    [parent |-> n, start_x |-> next,
     size_x |-> next + carve_wgs(next, num_wgs, total)]

\* Mutant: the last work group carved is carved again.
Mutant_NextWgr(wgr) == wgr.size_x - 1

\* m_next_wgr after a WGR was carved.
NextWgr(wgr) == wgr.size_x

\* Mutant: the WGR just added is not counted in.
Mutant_StartsTimer(i, occupancy) == timer[i] # "ON" /\ occupancy < 1

\* submit_wgr starts the timer unless it is active or another WGR is ahead,
\* whose callback will do so.
StartsTimer(i, occupancy) == timer[i] # "ON" /\ occupancy < 2

\* Mutant: the scheduler stays on the list.
Mutant_remove_free_scheduler(gone) == m_free_schedulers

\* The list without the ids in gone, in the order it has: its j-th id is the
\* one that j ids that stay lead up to. (Ids are distinct, so removing the first
\* match of an id removes all.)
remove_free_scheduler(gone) ==
    LET stay    == {k \in 1 .. Len(m_free_schedulers) :
                       m_free_schedulers[k] \notin gone}
        rank(k) == Cardinality({l \in stay : l <= k})
    IN  [j \in 1 .. Cardinality(stay) |->
            m_free_schedulers[CHOOSE k \in stay : rank(k) = j]]

\* Mutant: the timer is left running.
Mutant_stop_timer == free_timer

\* ev_timer_stop also takes back a pending callback.
stop_timer == [free_timer EXCEPT !.active = FALSE, !.pending = FALSE]

\* The free list's timer after the schedulers in gone have left the list: it is
\* stopped when none is left.
FreeTimerAfter(gone) ==
    IF gone # {} /\ remove_free_scheduler(gone) = <<>> THEN stop_timer
                                                       ELSE free_timer

\* submit_wgr, for every scheduler in the domain of wgr: the WGR is put in the
\* queue (a full queue drops it), the timer is started if need be, and the
\* scheduler leaves the free list (FreeTimerAfter is the rest of that).
submit_wgr(wgr) ==
    /\ m_in_queue' =
          [i \in Island |->
              IF i \in DOMAIN wgr /\ Len(m_in_queue[i]) < QueueCapacity
              THEN Append(m_in_queue[i], wgr[i]) ELSE m_in_queue[i]]
    /\ timer' =
          [i \in Island |->
              IF i \in DOMAIN wgr /\ StartsTimer(i, Len(m_in_queue'[i]))
              THEN "ON" ELSE timer[i]]
    /\ m_free_schedulers' = remove_free_scheduler(DOMAIN wgr)

-----------------------------------------------------------------------------
\* Mutant: the counter is not decremented.
Mutant_decrement_wgrs_counter(n) == m_wgrs_in_the_wild[n]

decrement_wgrs_counter(n) == m_wgrs_in_the_wild[n] - 1

\* Mutant: the last WGR but one is taken for the last.
Mutant_WasLast(wild) == wild <= 1

WasLast(wild) == wild = 0

\* mark_as_finished and decrement_wgrs_counter: when no WGR is left in the
\* wild the event is completed and the NDRange deletes itself.
mark_as_finished(wgr) ==
    LET n == wgr.parent
        wild == decrement_wgrs_counter(n)
    IN  /\ m_wgrs_in_the_wild' = [m_wgrs_in_the_wild EXCEPT ![n] = wild]
        /\ done' = [done EXCEPT ![n] = @ \cup wgr.start_x .. wgr.size_x - 1]
        /\ event_state' = IF WasLast(wild)
                          THEN [event_state EXCEPT ![n] = "COMPLETE"]
                          ELSE event_state
        /\ ndr_state' = IF WasLast(wild)
                        THEN [ndr_state EXCEPT ![n] = "DELETED"]
                        ELSE ndr_state
        /\ UNCHANGED <<m_total_size, m_next_wgr>>

\* The timer of scheduler i expires: it does not repeat, so libev stops it and
\* makes its callback pending.
TimerExpires(i) ==
    /\ timer[i] = "ON"
    /\ timer' = [timer EXCEPT ![i] = "FIRED"]
    /\ UNCHANGED <<ndrVars, m_in_queue, freeVars, failed>>

\* Scheduler::on_timer: the oldest WGR has finished; go on with the next one or
\* announce the scheduler as free (add_free_scheduler asserts that the list has
\* room, and starts its timer unless that is active).
on_timer(i) ==
    /\ timer[i] = "FIRED"
    /\ mark_as_finished(Head(m_in_queue[i]))
    /\ m_in_queue' = [m_in_queue EXCEPT ![i] = Tail(@)]
    /\ IF m_in_queue'[i] = <<>>
       THEN /\ timer' = [timer EXCEPT ![i] = "OFF"]
            /\ m_free_schedulers' = Append(m_free_schedulers, i)
            /\ free_timer' = IF free_timer.active THEN free_timer
                             ELSE [free_timer EXCEPT !.active = TRUE,
                                                     !.repeat = TRUE]
       ELSE /\ timer' = [timer EXCEPT ![i] = "ON"]
            /\ UNCHANGED freeVars
    /\ failed' = \/ failed
                 \/ ndr_state[Head(m_in_queue[i]).parent] # "LIVE"
                 \/ m_in_queue'[i] = <<>> /\ Len(m_free_schedulers) = N

\* The free-schedulers timer expires. Only a repeating timer stays active.
FreeTimerExpires ==
    /\ free_timer.active /\ ~free_timer.pending
    /\ free_timer' = [free_timer EXCEPT !.active = free_timer.repeat,
                                        !.pending = TRUE]
    /\ UNCHANGED <<ndrVars, schedVars, m_free_schedulers, failed>>

\* Mutant: the repeat interval is cleared and the timer not started again.
Mutant_RearmedFreeTimer(gone) ==
    [FreeTimerAfter(gone) EXCEPT !.repeat = FALSE, !.pending = FALSE]

\* The free list's timer after FreeSchedulersEvTimer::on_timer, whose callback
\* put the schedulers in gone to work: start_timer (0, 0) keeps the timer firing
\* while there are free schedulers. It also clears the repeat interval of a
\* timer that is still active.
RearmedFreeTimer(gone) ==
    IF remove_free_scheduler(gone) # <<>>
    THEN [active |-> TRUE, repeat |-> FALSE, pending |-> FALSE]
    ELSE [FreeTimerAfter(gone) EXCEPT !.pending = FALSE]

-----------------------------------------------------------------------------
(* What the schedulers hold. *)

\* The places in the schedulers' queues that hold a WGR of n.
Queued(n) == {q \in Island \X (1 .. QueueCapacity) :
                 /\ q[2] <= Len(m_in_queue[q[1]])
                 /\ m_in_queue[q[1]][q[2]].parent = n}

\* The work groups of a WGR, and those of n that are still with a scheduler.
Groups(wgr) == wgr.start_x .. wgr.size_x - 1
QueuedGroups(n) == UNION {Groups(m_in_queue[q[1]][q[2]]) : q \in Queued(n)}

-----------------------------------------------------------------------------
(* Properties of the islands under any routing algorithm. *)

\* Type invariant.
TypeOK ==
    /\ m_total_size \in [NDRanges -> 0 .. MaxWgs]
    /\ m_next_wgr \in [NDRanges -> 0 .. MaxWgs]
    /\ m_wgrs_in_the_wild \in [NDRanges -> Nat]
    /\ ndr_state \in [NDRanges -> {"NONE", "LIVE", "DELETED"}]
    /\ event_state \in [NDRanges -> {"QUEUED", "COMPLETE"}]
    /\ m_in_queue \in [Island -> Seq(WorkGroupRange)]
    /\ timer \in [Island -> {"OFF", "ON", "FIRED"}]
    /\ m_free_schedulers \in Seq(Island)
    /\ free_timer \in [active : BOOLEAN, repeat : BOOLEAN, pending : BOOLEAN]
    /\ done \in [NDRanges -> SUBSET Nat]
    /\ failed \in BOOLEAN

\* A scheduler's timer runs (or its callback is due) exactly while it has WGRs:
\* work submitted between expiry and callback is neither started twice nor
\* forgotten (scheduler_emu.cc:53, 105-118).
TimerIffBusy == \A i \in Island : timer[i] = "OFF" <=> m_in_queue[i] = <<>>

\* The free list holds the idle schedulers, each once; so add_free_scheduler's
\* assertion that it is not full (free_sched_mgr.cc:21) holds.
FreeIffIdle ==
    /\ \A i \in Island : m_in_queue[i] = <<>>
                           <=> \E k \in 1 .. Len(m_free_schedulers) :
                                  m_free_schedulers[k] = i
    /\ \A j, k \in 1 .. Len(m_free_schedulers) :
          m_free_schedulers[j] = m_free_schedulers[k] => j = k

\* While a scheduler is free its manager's timer fires ("the idea is to keep on
\* firing for as long as we have free schedulers", ev_timer.cc:85-86), and it
\* is quiet when none is.
FreeTimerIffFree ==
    (free_timer.active \/ free_timer.pending) <=> m_free_schedulers # <<>>

\* m_wgrs_in_the_wild counts the WGRs that some scheduler still holds, so it
\* reaches 0 with the last of them and not earlier (ndrange.cc:188-206).
WildCountsQueued ==
    \A n \in NDRanges : m_wgrs_in_the_wild[n] = Cardinality(Queued(n))

\* Every work group that was carved is executed exactly once: those done and
\* those with the schedulers are the first m_next_wgr ones of the NDRange, and
\* no two WGRs (nor a WGR and what is done) have one in common.
NoGroupLostOrRepeated ==
    \A n \in NDRanges :
       /\ done[n] \cup QueuedGroups(n) = 0 .. m_next_wgr[n] - 1
       /\ done[n] \cap QueuedGroups(n) = {}
       /\ \A p, q \in Queued(n) :
             p # q => Groups(m_in_queue[p[1]][p[2]])
                         \cap Groups(m_in_queue[q[1]][q[2]]) = {}

\* The types hold, no assertion fails and no NDRange is used after it deleted
\* itself (ndrange.cc:197-206: the last WGR's count down deletes it).
NoFailure == TypeOK /\ ~failed
=============================================================================
