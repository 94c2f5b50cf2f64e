----------------------------- MODULE AlgoSimple -----------------------------
(***************************************************************************)
(* AlgoSimple::route_ndrange of cpp/algo_simple.cc: the search for the      *)
(* distribution of an NDRange's work groups over the islands that finishes  *)
(* first. The object lives as long as the dispatcher and keeps its vectors  *)
(* and the minimum between calls, so routing is a sequence of steps.        *)
(* (RECURSIVE: this module is for TLC only.)                                *)
(***************************************************************************)
EXTENDS Integers, Sequences, SequencesExt, FiniteSetsExt, Functions

CONSTANTS N,           \* m_num_islands
          MaxWgs,      \* bound: work groups of an NDRange
          WipCosts,    \* values of get_remaining_time
          WgCosts,     \* values of get_wg_cost_on_island
          ReconfCosts  \* values of get_reconf_cost_on_island, or 0

ASSUME NAssumption == N \in Nat \ {0} /\ MaxWgs \in Nat
ASSUME CostsAssumption == WipCosts \cup WgCosts \cup ReconfCosts \subseteq Nat

Island == 1 .. N

UNSUITABLE_ISLAND == -13

\* What the tracker and the schedulers tell about an island. As shipped,
\* check_resource_string finds every island suitable and would_need_reconf
\* answers FALSE; the search is checked for any answers they may give.
Unsuitable == [wip |-> UNSUITABLE_ISLAND, wg |-> UNSUITABLE_ISLAND,
               reconf |-> UNSUITABLE_ISLAND]
IslandCosts == [wip : WipCosts, wg : WgCosts, reconf : ReconfCosts]
         \cup {Unsuitable}

VARIABLES m_current_min,
          m_result,       \* work groups per island, or UNSUITABLE_ISLAND
          costs, num_wgs  \* the inputs of the last call

searchVars == <<m_current_min, m_result, costs, num_wgs>>

SearchInit == /\ m_current_min = -1
              /\ m_result = [i \in Island |-> 0]
              /\ costs = [i \in Island |-> Unsuitable]
              /\ num_wgs = 0

-----------------------------------------------------------------------------
\* When the islands that get work groups will have finished: the maximum of
\* their work in progress, reconfiguration and new work.
Makespan(cost, wgs) ==
    Max({0} \cup {wgs[i] * cost[i].wg + cost[i].wip + cost[i].reconf :
                     i \in {j \in Island : wgs[j] > 0}})

\* Mutant: the last of the best leaves is kept.
Mutant_calculate_total_last(best, cost, wgs) ==
    LET max == Makespan(cost, wgs)
    IN  IF max <= best.min \/ best.min < 0
        THEN [min |-> max, result |-> wgs] ELSE best

\* A leaf of the search: keep the distribution if it is better than the best so
\* far, or the first.
calculate_total(best, cost, wgs) ==
    LET max == Makespan(cost, wgs)
    IN  IF max < best.min \/ best.min < 0
        THEN [min |-> max, result |-> wgs]
        ELSE best

\* The search from island k on, with num_items work groups left: island k gets
\* all of them, then one less, and so on. Leaves with a remainder do not count.
RECURSIVE recursive_function(_, _, _, _, _)
recursive_function(best, cost, wgs, num_items, k) ==
    CASE k = N + 1 /\ num_items = 0 -> calculate_total(best, cost, wgs)
      [] k = N + 1 /\ num_items # 0 -> best
      [] k <= N /\ wgs[k] = UNSUITABLE_ISLAND ->
            recursive_function(best, cost, wgs, num_items, k + 1)
      [] OTHER ->
            FoldLeft(LAMBDA b, counter :
                        recursive_function(b, cost,
                           [wgs EXCEPT ![k] = num_items - counter],
                           counter, k + 1),
                     best, [c \in 1 .. num_items + 1 |-> c - 1])

\* One call: reset the minimum, mark the islands, search.
route_ndrange(cost, wgs) ==
    LET marked == [i \in Island |-> IF cost[i] = Unsuitable
                                    THEN UNSUITABLE_ISLAND ELSE 0]
        best   == recursive_function([min |-> -1, result |-> marked],
                                     cost, marked, wgs, 1)
    IN  /\ m_current_min' = best.min
        /\ m_result' = best.result
        /\ costs' = cost
        /\ num_wgs' = wgs

SearchNext == \E cost \in [Island -> IslandCosts], wgs \in 0 .. MaxWgs :
            route_ndrange(cost, wgs)

SearchSpec == SearchInit /\ [][SearchNext]_searchVars

-----------------------------------------------------------------------------
(* Properties. *)

Suitable == {i \in Island : costs[i] # Unsuitable}

\* The reference: every way to place the work groups on suitable islands.
Distributions ==
    {d \in [Island -> 0 .. num_wgs] :
        /\ FoldFunction(LAMBDA x, y : x + y, 0, d) = num_wgs
        /\ \A i \in Island \ Suitable : d[i] = 0}

\* The work groups per island, counting an unsuitable one as having none.
Placed == [i \in Island |-> IF i \in Suitable THEN m_result[i] ELSE 0]

\* Every work group is placed and none on an unsuitable island, unless no
\* island is suitable: the assertion at algo_simple.cc:227 that the NDRange has
\* no more work groups after the WGRs were carved.
AllPlaced ==
    /\ \A i \in Island : m_result[i] = UNSUITABLE_ISLAND => i \notin Suitable
    /\ Suitable # {} => Placed \in Distributions

\* algo_simple.h:32-33: the result schedules "all of the WGs in the most
\* efficient way possible": all are placed, no distribution finishes earlier,
\* m_current_min is the time it takes, and among the best the one that loads the
\* first islands most is taken (algo_simple.cc:47 keeps the first minimum).
Optimal ==
    /\ AllPlaced
    /\ Suitable # {} =>
        /\ m_current_min = Makespan(costs, Placed)
        /\ \A d \in Distributions \ {Placed} :
              \/ m_current_min < Makespan(costs, d)
              \/ /\ m_current_min = Makespan(costs, d)
                 /\ \E i \in Island : /\ d[i] < Placed[i]
                                      /\ \A k \in 1 .. i - 1 : d[k] = Placed[k]
=============================================================================
