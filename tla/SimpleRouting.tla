--------------------------- MODULE SimpleRouting ----------------------------
(***************************************************************************)
(* The islands under AlgoSimple, the algorithm the dispatcher uses: an      *)
(* NDRange is split over the islands as soon as it arrives. Which split is  *)
(* the cheapest is the subject of AlgoSimple.tla; here it is any one, given *)
(* by the cut points between the parts of consecutive islands.              *)
(***************************************************************************)
EXTENDS Islands

\* cut[i] is where island i's part starts, cut[N + 1] where the last one ends.
Cuts(total) == {cut \in [1 .. N + 1 -> 0 .. total] :
                   /\ cut[1] = 0 /\ cut[N + 1] = total
                   /\ \A i, j \in 1 .. N + 1 : i <= j => cut[i] <= cut[j]}

vars == islandVars

Init == IslandsInit

\* handle_ndrange_command: construct the NDRange and route it. Every island
\* with a share gets one WGR carved from where the previous one ended.
route_ndrange(n, total, cut) ==
    LET share(i)  == cut[i + 1] - cut[i]
        chosen    == {i \in Island : share(i) > 0}
        wgr       == [i \in chosen |-> CarvedWgr(n, cut[i], share(i), total)]
        last      == IF N \in chosen THEN NextWgr(wgr[N]) ELSE cut[N]
    IN  /\ ndr_state[n] = "NONE"
        /\ ndr_state' = [ndr_state EXCEPT ![n] = "LIVE"]
        /\ m_total_size' = [m_total_size EXCEPT ![n] = total]
        /\ m_next_wgr' = [m_next_wgr EXCEPT ![n] = last]
        /\ m_wgrs_in_the_wild' =
              [m_wgrs_in_the_wild EXCEPT ![n] = Cardinality(chosen)]
        /\ submit_wgr(wgr)
        /\ free_timer' = FreeTimerAfter(chosen)
        /\ failed' = (failed \/ last < total)
        /\ UNCHANGED <<event_state, done>>

\* The free-schedulers timer calls AlgoSlicing, which has no NDRanges.
FreeTimerCallback ==
    /\ free_timer.pending
    /\ free_timer' = RearmedFreeTimer({})
    /\ UNCHANGED <<ndrVars, schedVars, m_free_schedulers, failed>>

Next == \/ \E n \in NDRanges, total \in 0 .. MaxWgs :
              \E cut \in Cuts(total) : route_ndrange(n, total, cut)
        \/ \E i \in Island : TimerExpires(i) \/ on_timer(i)
        \/ FreeTimerExpires
        \/ FreeTimerCallback

Spec == Init /\ [][Next]_vars

\* libev serves every expired timer and every pending callback; nobody is
\* obliged to enqueue a kernel.
Fairness == \A i \in Island : WF_vars(TimerExpires(i)) /\ WF_vars(on_timer(i))

FairSpec == Spec /\ Fairness

-----------------------------------------------------------------------------
(* Properties. *)

\* An NDRange is carved completely when it is routed, its event is completed
\* only after all its work groups were executed, and it is then that it is
\* deleted.
CompleteMeansAllDone ==
    \A n \in NDRanges :
       /\ ndr_state[n] # "NONE" => m_next_wgr[n] = m_total_size[n]
       /\ event_state[n] = "COMPLETE" => done[n] = 0 .. m_total_size[n] - 1
       /\ event_state[n] = "COMPLETE" <=> ndr_state[n] = "DELETED"

\* An NDRange with work groups completes. (CmdQueue's NDRangeFinishes is fair
\* because of this.)
RoutedNDRangeCompletes ==
    \A n \in NDRanges : ndr_state[n] = "LIVE" /\ m_total_size[n] > 0
                           ~> event_state[n] = "COMPLETE"
=============================================================================
