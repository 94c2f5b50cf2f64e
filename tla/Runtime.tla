------------------------------ MODULE Runtime -------------------------------
(***************************************************************************)
(* The run-time system put together: a command queue between application    *)
(* threads and the event loop (CmdQueue), and the islands its NDRanges are  *)
(* executed on (SimpleRouting), which NDRanges of other queues use as well. *)
(*                                                                          *)
(* The two meet in two places. handle_a_cmd of an NDRange command routes    *)
(* the NDRange within the queue's callback; and the timer callback that     *)
(* ends the last work-group range of an NDRange completes the event of its  *)
(* command, which feeds the queue's watcher. All callbacks run on the loop  *)
(* thread: a timer is served only between two callbacks of the queue.       *)
(* CmdQueue by itself takes the end of an NDRange for a fair step of its    *)
(* own; here it is what the timers bring about.                             *)
(***************************************************************************)
EXTENDS CmdQueue

CONSTANTS Foreign,       \* NDRanges of other queues
          N, MinWgs, MaxWgs, QueueCapacity, UnsignedMod

ASSUME ForeignAssumption == Foreign \cap Cmds = {}
ASSUME WgsAssumption     == MinWgs \in Nat
ASSUME RoutingAssumption ==
    /\ N \in Nat \ {0} /\ MaxWgs \in Nat
    /\ QueueCapacity \in Nat /\ QueueCapacity >= 2
    /\ UnsignedMod \in Nat /\ UnsignedMod > 2 * MaxWgs

NDRanges == Cmds \cup Foreign

VARIABLES m_total_size, m_next_wgr, m_wgrs_in_the_wild, ndr_state,
          ndr_event,     \* the state of the event as the NDRange set it
          m_in_queue, timer, m_free_schedulers, free_timer, done, failed

Routing == INSTANCE SimpleRouting WITH event_state <- ndr_event

islands == <<m_total_size, m_next_wgr, m_wgrs_in_the_wild, ndr_state,
             ndr_event, m_in_queue, timer, m_free_schedulers, free_timer,
             done, failed>>
rtVars == <<vars, islands>>

RTInit == Init /\ Routing!Init

\* The dispatcher splits an NDRange over the islands.
handle_ndrange_command(n, least) ==
    \E total \in least .. MaxWgs :
        \E cut \in Routing!Cuts(total) : Routing!route_ndrange(n, total, cut)

\* The callback's call of the dispatcher.
Dispatch ==
    /\ handle_a_cmd
    /\ IF type[m_last_event] = "NDRANGE"
       THEN handle_ndrange_command(m_last_event, MinWgs)
       ELSE UNCHANGED islands

\* An NDRange command of another queue is dispatched; it may have no work
\* groups, which clEnqueueNDRangeKernel lets through.
ForeignDispatch(n) ==
    /\ loop_pc = "idle"
    /\ handle_ndrange_command(n, 0)
    /\ UNCHANGED vars

\* Mutant: the last work group of an NDRange leaves its event alone.
Mutant_on_timer(i) ==
    /\ loop_pc = "idle"
    /\ Routing!on_timer(i)
    /\ UNCHANGED vars

\* A scheduler's timer callback; the last one of an NDRange completes its event.
on_timer(i) ==
    /\ loop_pc = "idle"
    /\ Routing!on_timer(i)
    /\ IF \E c \in Cmds : ndr_event[c] # ndr_event'[c]
       THEN \E c \in Cmds : ndr_event[c] # ndr_event'[c] /\ NDRangeFinishes(c)
       ELSE UNCHANGED vars

\* libev notices that timers have expired, and serves the free list's.
LoopTimers ==
    /\ loop_pc = "idle"
    /\ \/ \E i \in 1 .. N : Routing!TimerExpires(i)
       \/ Routing!FreeTimerExpires
       \/ Routing!FreeTimerCallback
    /\ UNCHANGED vars

QueueStep == /\ \/ \E t \in Threads : Client(t)
                \/ AsyncArrives \/ on_new_cmd_cb \/ LastStillRunning
                \/ pop_front \/ FeedOrCheck \/ check_self_destroy
             /\ UNCHANGED islands

RTNext == \/ QueueStep
          \/ Dispatch
          \/ \E n \in Foreign : ForeignDispatch(n)
          \/ \E i \in 1 .. N : on_timer(i)
          \/ LoopTimers

\* The loop thread never blocks in a callback, and libev serves every watcher
\* that is pending and every timer that has expired.
RTFairness ==
    /\ WF_rtVars(AsyncArrives /\ UNCHANGED islands)
    /\ WF_rtVars(on_new_cmd_cb /\ UNCHANGED islands)
    /\ WF_rtVars(/\ LastStillRunning \/ pop_front \/ FeedOrCheck
                    \/ check_self_destroy
                 /\ UNCHANGED islands)
    /\ WF_rtVars(Dispatch)
    /\ \A t \in Threads :
          WF_rtVars(wait_until_complete(t) /\ UNCHANGED islands)
    /\ \A i \in 1 .. N :
          /\ WF_rtVars(loop_pc = "idle" /\ Routing!TimerExpires(i)
                         /\ UNCHANGED vars)
          /\ WF_rtVars(on_timer(i))

RTSpec == RTInit /\ [][RTNext]_rtVars /\ RTFairness

-----------------------------------------------------------------------------
(* Properties. *)

\* The event of a command and the NDRange made from it tell the same story: an
\* NDRange exists from its command's dispatch to its event's completion, and
\* at most one NDRange of an in-order queue is on the islands at any time.
NDRangeFollowsCommand ==
    /\ \A c \in 1 .. issued : type[c] = "NDRANGE" =>
          (Complete(c) <=> ndr_state[c] = "DELETED")
    /\ \A c \in Cmds : ndr_state[c] = "LIVE" => c = m_last_event

\* The composition implements the command queue with its fairness: what
\* CmdQueue assumes of the islands, they provide.
ImplementsCmdQueue == FairSpec
=============================================================================
