--------------------------- MODULE RuntimeProofs ---------------------------
(***************************************************************************)
(* Proofs about the command queue and about the run-time system it is the  *)
(* core of.                                                                *)
(*                                                                         *)
(* The first part is about CmdQueue, for any number of threads and         *)
(* commands, any ring capacity and either kind of client. The second is    *)
(* about Runtime, for any number of foreign NDRanges and islands too:      *)
(* every step of the system is one of the command queue's, so what the     *)
(* first part shows of the queue holds of the system; and an NDRange       *)
(* exists as long as its command runs. The third takes over what           *)
(* SimpleRoutingProofs shows of the islands, and with it that no timer     *)
(* callback is held up by the queue.                                       *)
(***************************************************************************)
EXTENDS Runtime, FiniteSets, TLAPS

-----------------------------------------------------------------------------
(* The command queue. *)

\* The initial state has the right types.
LEMMA TypeInit == Init => TypeOK
<1> SUFFICES ASSUME Init PROVE TypeOK
  OBVIOUS
<1>1. /\ issued \in 0 .. MaxCmds
      /\ type \in [Cmds -> CommandTypes]
      /\ event_state \in [Cmds -> {"NONE", "QUEUED", "COMPLETE"}]
      /\ rc \in [Cmds -> {"NONE", "SUCCESS", "RELEASED"}]
      /\ waiting \in [Threads -> Cmds \cup {None}]
      /\ m_ref_counter \in 0 .. 1
      /\ m_last_event \in Cmds \cup {None}
      /\ m_ring_buffer \in Seq(Cmds)
      /\ accepted \in Seq(Cmds) /\ started \in Seq(Cmds)
      /\ orphan \in Cmds \cup {None}
      /\ bad_access \subseteq {"call", "unlock", "feed"}
  BY BoundsAssumption DEF Init, CommandTypes
<1>2. alive \in BOOLEAN /\ sent \in BOOLEAN /\ pending \in BOOLEAN
  BY Zenon DEF Init
<1>3. QED
  BY <1>1, <1>2 DEF Init, TypeOK

\* Every step of the clients and of the event loop keeps the types.
LEMMA TypeStep == TypeOK /\ Bookkeeping /\ [Next]_vars => TypeOK'
<1> SUFFICES ASSUME TypeOK, Bookkeeping, [Next]_vars
             PROVE  TypeOK'
  OBVIOUS
<1> USE BoundsAssumption, TypesAssumption
<1>1. ASSUME NEW t \in Threads, NEW ty \in Types, NEW blocking \in BOOLEAN,
             Enqueue(t, ty, blocking)
      PROVE  TypeOK'
  <2>1. issued + 1 \in Cmds
    BY <1>1 DEF Enqueue, TypeOK, Cmds
  <2>2. rc' \in [Cmds -> {"NONE", "SUCCESS", "RELEASED"}]
    BY <1>1, <2>1 DEF Enqueue, push_back, TypeOK
  <2>3. /\ m_ring_buffer' \in Seq(Cmds)
        /\ accepted' \in Seq(Cmds)
    <3>1. /\ Append(m_ring_buffer, issued + 1) \in Seq(Cmds)
          /\ Append(accepted, issued + 1) \in Seq(Cmds)
      BY <2>1 DEF TypeOK
    <3>2. QED
      BY <1>1, <3>1, Zenon DEF Enqueue, push_back, TypeOK
  <2>4. sent' \in BOOLEAN
    BY <1>1, Zenon DEF Enqueue, push_back, TypeOK
  <2>5. QED
    BY <1>1, <2>1, <2>2, <2>3, <2>4 DEF Enqueue, TypeOK, Cmds
<1>2. ASSUME NEW t \in Threads, EnqueueOnDeleted(t)
      PROVE  TypeOK'
  BY <1>2 DEF EnqueueOnDeleted, TypeOK, clientVars, queueVars, loopVars, history
<1>3. ASSUME NEW t \in Threads, wait_until_complete(t)
      PROVE  TypeOK'
  BY <1>3 DEF wait_until_complete, TypeOK, queueVars, loopVars, history
<1>4. ASSUME NEW t \in Threads, ref_cnt_down(t)
      PROVE  TypeOK'
  BY <1>4 DEF ref_cnt_down, TypeOK, clientVars, loopVars, history
<1>5. CASE AsyncArrives
  BY <1>5 DEF AsyncArrives, TypeOK, clientVars, queueVars, history
<1>6. CASE on_new_cmd_cb
  BY <1>6 DEF on_new_cmd_cb, TypeOK, clientVars, queueVars, history
<1>7. CASE LastStillRunning
  BY <1>7 DEF LastStillRunning, TypeOK, clientVars, queueVars, history
<1>8. CASE pop_front
  BY <1>8 DEF pop_front, TypeOK, Bookkeeping, clientVars
<1>9. CASE handle_a_cmd
  <2>1. m_last_event \in Cmds
    BY <1>9 DEF handle_a_cmd, Bookkeeping, LastRuns, TypeOK
  <2>2. CASE type[m_last_event] \in {"WRITE_BUFFER", "READ_BUFFER"}
    BY <1>9, <2>1, <2>2
    DEF handle_a_cmd, set_as_complete, TypeOK, clientVars, queueVars, history
  <2>3. CASE type[m_last_event] \notin {"WRITE_BUFFER", "READ_BUFFER"}
    BY <1>9, <2>3
    DEF handle_a_cmd, TypeOK, clientVars, queueVars, history
  <2>4. QED
    BY <2>2, <2>3
<1>10. CASE FeedOrCheck
  BY <1>10 DEF FeedOrCheck, TypeOK, clientVars, queueVars, history
<1>11. CASE check_self_destroy
  <2>1. /\ alive' \in BOOLEAN /\ sent' \in BOOLEAN /\ pending' \in BOOLEAN
        /\ m_ring_buffer' \in Seq(Cmds)
    <3>1. <<>> \in Seq(Cmds)
      OBVIOUS
    <3>2. QED
      BY <1>11, <3>1, Zenon DEF check_self_destroy, TypeOK
  <2>2. /\ orphan' \in Cmds \cup {None}
        /\ bad_access' \subseteq {"call", "unlock", "feed"}
    BY <1>11 DEF check_self_destroy, TypeOK
  <2>3. QED
    BY <1>11, <2>1, <2>2 DEF check_self_destroy, TypeOK, clientVars
<1>12. ASSUME NEW c \in Cmds, NDRangeFinishes(c)
       PROVE  TypeOK'
  BY <1>12 DEF NDRangeFinishes, set_as_complete, TypeOK, clientVars, queueVars, history
<1>13. CASE UNCHANGED vars
  BY <1>13 DEF vars, TypeOK, clientVars, queueVars, loopVars, history
<1>14. QED
  BY <1>1, <1>2, <1>3, <1>4, <1>5, <1>6, <1>7, <1>8, <1>9, <1>10, <1>11,
     <1>12, <1>13
  DEF Next, Client, EventLoop

\* The part of the inductive invariant that is about the order of commands.
OrderInv == OneAtATime /\ RingHoldsTheRest /\ Bookkeeping

\* A step that leaves the queue's contents and the events alone preserves the
\* order facts, if the new program counter agrees with them.
LEMMA OrderFrame ==
    ASSUME OrderInv,
           UNCHANGED <<issued, event_state, m_ring_buffer, m_last_event,
                       accepted, started>>,
           alive' => alive,
           loop_pc' # "idle" => alive',
           loop_pc' = "pop_front" => m_ring_buffer # <<>>,
           loop_pc' = "handle_a_cmd" => LastRuns,
           loop_pc' = "is_empty" => m_last_event # None
    PROVE  OrderInv'
<1>1. OneAtATime' /\ RingHoldsTheRest'
  BY DEF OrderInv, OneAtATime, RingHoldsTheRest, Complete
<1>2. Bookkeeping'
  BY DEF OrderInv, Bookkeeping, Complete, LastRuns
<1>3. QED
  BY <1>1, <1>2 DEF OrderInv

\* A command that is taken is newer than all that were taken before it.
LEMMA OrderEnqueue ==
    ASSUME TypeOK, OrderInv,
           NEW t \in Threads, NEW ty \in Types, NEW blocking \in BOOLEAN,
           Enqueue(t, ty, blocking)
    PROVE  OrderInv'
<1> DEFINE c == issued + 1
<1>1. /\ c \in Cmds /\ issued' = c /\ issued \in Nat
      /\ event_state' = [event_state EXCEPT ![c] = "QUEUED"]
      /\ UNCHANGED <<started, m_last_event, loop_pc, alive>>
      /\ alive
  BY BoundsAssumption DEF Enqueue, TypeOK, Cmds
<1>2. \/ UNCHANGED <<m_ring_buffer, accepted>>
      \/ /\ m_ring_buffer' = Append(m_ring_buffer, c)
         /\ accepted' = Append(accepted, c)
  BY DEF Enqueue, push_back
<1>3. /\ accepted \in Seq(Cmds) /\ started \in Seq(Cmds)
      /\ m_ring_buffer \in Seq(Cmds)
      /\ event_state \in [Cmds -> {"NONE", "QUEUED", "COMPLETE"}]
      /\ accepted \in Seq(Nat)
  BY BoundsAssumption DEF TypeOK, Cmds
<1>4. \A i \in 1 .. Len(started) : started[i] \in Cmds /\ started[i] # c
  BY <1>1, <1>3 DEF OrderInv, Bookkeeping
<1>5. \A d \in Cmds : d # c => (Complete(d)' <=> Complete(d))
  BY <1>1, <1>3 DEF Complete
<1>6. event_state'[c] = "QUEUED"
  BY <1>1, <1>3
<1>7. OneAtATime'
  BY <1>1, <1>3, <1>4, <1>5 DEF OrderInv, OneAtATime
<1>8. RingHoldsTheRest'
  <2>1. CASE UNCHANGED <<m_ring_buffer, accepted>>
    BY <1>1, <2>1 DEF OrderInv, RingHoldsTheRest
  <2>2. CASE /\ m_ring_buffer' = Append(m_ring_buffer, c)
             /\ accepted' = Append(accepted, c)
    <3>1. /\ Len(accepted) = Len(started) + Len(m_ring_buffer)
          /\ \A i \in 1 .. Len(m_ring_buffer) :
                m_ring_buffer[i] = accepted[Len(started) + i]
      BY <1>1 DEF OrderInv, RingHoldsTheRest
    <3>2. /\ Len(m_ring_buffer') = Len(m_ring_buffer) + 1
          /\ Len(accepted') = Len(accepted) + 1
          /\ \A i \in 1 .. Len(m_ring_buffer) : m_ring_buffer'[i] = m_ring_buffer[i]
          /\ \A i \in 1 .. Len(accepted) : accepted'[i] = accepted[i]
          /\ m_ring_buffer'[Len(m_ring_buffer) + 1] = c
          /\ accepted'[Len(accepted) + 1] = c
      BY <1>1, <1>3, <2>2
    <3>3. Len(started) \in Nat /\ Len(m_ring_buffer) \in Nat
      BY <1>3
    <3> HIDE DEF c
    <3>4. ASSUME NEW i \in 1 .. Len(m_ring_buffer')
          PROVE  m_ring_buffer'[i] = accepted'[Len(started) + i]
      <4>1. CASE i \in 1 .. Len(m_ring_buffer)
        BY <3>1, <3>2, <3>3, <4>1
      <4>2. CASE i = Len(m_ring_buffer) + 1
        BY <3>1, <3>2, <3>3, <4>2
      <4>3. QED
        BY <3>2, <3>3, <4>1, <4>2
    <3>5. QED
      BY <1>1, <3>1, <3>2, <3>3, <3>4 DEF RingHoldsTheRest
  <2>3. QED
    BY <1>2, <2>1, <2>2
<1>9. Bookkeeping'
  <2>1. /\ Len(started') <= Len(accepted')
        /\ \A i \in 1 .. Len(started') : started'[i] = accepted'[i]
        /\ \A i \in 1 .. Len(accepted') : accepted'[i] <= issued'
        /\ \A i, j \in 1 .. Len(accepted') : i < j => accepted'[i] < accepted'[j]
    <3>1. CASE UNCHANGED <<m_ring_buffer, accepted>>
      BY <1>1, <1>3, <3>1 DEF OrderInv, Bookkeeping
    <3>2. CASE accepted' = Append(accepted, c)
      <4>1. /\ Len(accepted') = Len(accepted) + 1
            /\ \A i \in 1 .. Len(accepted) : accepted'[i] = accepted[i]
            /\ accepted'[Len(accepted) + 1] = c
            /\ Len(accepted) \in Nat /\ Len(started) \in Nat
        BY <1>1, <1>3, <3>2
      <4>2. \A i \in 1 .. Len(accepted) :
              accepted[i] \in Nat /\ accepted[i] < c
        BY <1>1, <1>3 DEF OrderInv, Bookkeeping
      <4>3. QED
        BY <1>1, <4>1, <4>2 DEF OrderInv, Bookkeeping
    <3>3. QED
      BY <1>2, <3>1, <3>2
  <2>2. \A d \in Cmds :
          Complete(d)' => \E i \in 1 .. Len(started') : started'[i] = d
    BY <1>1, <1>5, <1>6 DEF OrderInv, Bookkeeping, Complete
  <2>3. loop_pc' = "pop_front" => m_ring_buffer' # <<>>
    BY <1>1, <1>2, <1>3 DEF OrderInv, Bookkeeping
  <2>4. loop_pc' = "handle_a_cmd" => LastRuns'
    <3>1. m_last_event # None => m_last_event \in Cmds /\ m_last_event # c
      BY <1>3, <1>4 DEF OrderInv, Bookkeeping
    <3>2. QED
      BY <1>1, <1>5, <3>1 DEF OrderInv, Bookkeeping, LastRuns
  <2>5. QED
    BY <1>1, <2>1, <2>2, <2>3, <2>4 DEF OrderInv, Bookkeeping
<1>10. QED
  BY <1>7, <1>8, <1>9 DEF OrderInv

\* A command is popped when all before it are complete, and it is not.
LEMMA OrderPop ==
    ASSUME TypeOK, OrderInv, pop_front
    PROVE  OrderInv' /\ LastRuns'
<1> DEFINE n == Len(started)
           c == accepted[n + 1]
<1>1. /\ accepted \in Seq(Cmds) /\ started \in Seq(Cmds)
      /\ m_ring_buffer \in Seq(Cmds) /\ n \in Nat /\ alive
      /\ m_ring_buffer # <<>>
  BY DEF TypeOK, OrderInv, Bookkeeping, pop_front
<1>2. /\ Head(m_ring_buffer) = c
      /\ n + 1 \in 1 .. Len(accepted)
      /\ c \in Cmds
  BY <1>1 DEF OrderInv, RingHoldsTheRest
<1>3. /\ m_last_event' = c
      /\ started' = Append(started, c)
      /\ m_ring_buffer' = Tail(m_ring_buffer)
      /\ loop_pc' = "handle_a_cmd"
      /\ UNCHANGED <<accepted, alive, event_state, issued>>
  BY <1>2 DEF pop_front, clientVars
<1>4. ~Complete(c)
  <2>1. SUFFICES ASSUME NEW i \in 1 .. n, started[i] = c
                 PROVE  FALSE
    BY <1>2 DEF OrderInv, Bookkeeping
  <2>2. accepted[i] < accepted[n + 1]
    BY <1>1, <1>2 DEF OrderInv, Bookkeeping
  <2>3. QED
    BY <1>1, <1>2, <2>1, <2>2 DEF OrderInv, Bookkeeping, Cmds
<1>5. \A i \in 1 .. n : Complete(started[i])
  <2>1. CASE n = 0
    BY <2>1
  <2>2. CASE n # 0
    <3>1. started # <<>> /\ started[n] \in Cmds
      BY <1>1, <2>2
    <3>2. m_last_event = started[n] /\ m_last_event # None
      BY <3>1, BoundsAssumption DEF OrderInv, Bookkeeping, Cmds, None
    <3>3. Complete(started[n])
      BY <3>2 DEF pop_front, LastRuns
    <3>4. QED
      BY <1>1, <3>3 DEF OrderInv, OneAtATime
  <2>3. QED
    BY <2>1, <2>2
<1>6. /\ Len(started') = n + 1 /\ started'[n + 1] = c
      /\ \A i \in 1 .. n : started'[i] = started[i]
      /\ started' # <<>>
  BY <1>1, <1>2, <1>3
<1>7. LastRuns'
  BY <1>2, <1>3, <1>4 DEF LastRuns, Complete, Cmds, None
<1>8. OneAtATime'
  BY <1>1, <1>3, <1>5, <1>6 DEF OneAtATime, Complete
<1>9. RingHoldsTheRest'
  <2>1. /\ Len(m_ring_buffer) \in Nat \ {0}
        /\ Len(m_ring_buffer') = Len(m_ring_buffer) - 1
        /\ \A i \in 1 .. Len(m_ring_buffer') :
              m_ring_buffer'[i] = m_ring_buffer[i + 1]
    BY <1>1, <1>3
  <2>2. /\ Len(accepted) = n + Len(m_ring_buffer)
        /\ \A i \in 1 .. Len(m_ring_buffer) : m_ring_buffer[i] = accepted[n + i]
    BY <1>1 DEF OrderInv, RingHoldsTheRest
  <2>3. \A i \in 1 .. Len(m_ring_buffer') :
           m_ring_buffer'[i] = accepted[(n + 1) + i]
    BY <1>1, <2>1, <2>2
  <2>4. QED
    BY <1>1, <1>3, <1>6, <2>1, <2>2, <2>3 DEF RingHoldsTheRest
<1>10. Bookkeeping'
  <2>1. /\ Len(started') <= Len(accepted')
        /\ \A i \in 1 .. Len(started') : started'[i] = accepted'[i]
    BY <1>1, <1>2, <1>3, <1>6 DEF OrderInv, Bookkeeping
  <2>2. \A d \in Cmds :
          Complete(d)' => \E i \in 1 .. Len(started') : started'[i] = d
    BY <1>1, <1>3, <1>6 DEF OrderInv, Bookkeeping, Complete
  <2>3. QED
    BY <1>1, <1>3, <1>6, <1>7, <2>1, <2>2 DEF OrderInv, Bookkeeping
<1>11. QED
  BY <1>7, <1>8, <1>9, <1>10 DEF OrderInv

\* An unfinished dispatched command is the last one, and finishing it opens
\* the way for the next.
LEMMA OrderFinish ==
    ASSUME TypeOK, OrderInv, NEW c \in Cmds, ~Complete(c),
           \E i \in 1 .. Len(started) : started[i] = c,
           event_state' = [event_state EXCEPT ![c] = "COMPLETE"],
           UNCHANGED <<issued, accepted, started, m_ring_buffer,
                       m_last_event, alive>>,
           loop_pc' \in {loop_pc, "is_empty"},
           loop_pc' # "handle_a_cmd",
           loop_pc' # "idle" => alive
    PROVE  OrderInv' /\ m_last_event = c /\ Complete(c)'
<1>1. /\ started \in Seq(Cmds)
      /\ event_state \in [Cmds -> {"NONE", "QUEUED", "COMPLETE"}]
  BY DEF TypeOK
<1>2. m_last_event = c /\ m_last_event # None
  BY <1>1, BoundsAssumption DEF OrderInv, OneAtATime, Bookkeeping, Cmds, None
<1>3. Complete(c)' /\ \A d \in Cmds : d # c => (Complete(d)' <=> Complete(d))
  BY <1>1 DEF Complete
<1>4. OneAtATime' /\ RingHoldsTheRest'
  BY <1>1, <1>3 DEF OrderInv, OneAtATime, RingHoldsTheRest, Complete
<1>5. Bookkeeping'
  BY <1>1, <1>2, <1>3 DEF OrderInv, Bookkeeping
<1>6. QED
  BY <1>2, <1>3, <1>4, <1>5 DEF OrderInv

\* Every step keeps commands in order.
LEMMA OrderStep ==
    TypeOK /\ OrderInv /\ AccessesAfterDelete /\ [Next]_vars => OrderInv'
<1> SUFFICES ASSUME TypeOK, OrderInv, AccessesAfterDelete, [Next]_vars
             PROVE  OrderInv'
  OBVIOUS
<1> USE DEF clientVars, queueVars, loopVars, history
<1>1. ASSUME NEW t \in Threads, NEW ty \in Types, NEW blocking \in BOOLEAN,
             Enqueue(t, ty, blocking)
      PROVE  OrderInv'
  BY <1>1, OrderEnqueue
<1>2. ASSUME NEW t \in Threads,
             EnqueueOnDeleted(t) \/ wait_until_complete(t) \/ ref_cnt_down(t)
      PROVE  OrderInv'
  <2>1. UNCHANGED <<issued, event_state, m_ring_buffer, m_last_event, accepted,
                    started, alive, loop_pc>>
    BY <1>2 DEF EnqueueOnDeleted, wait_until_complete, ref_cnt_down
  <2>2. QED
    BY <2>1, OrderFrame DEF OrderInv, Bookkeeping
<1>3. CASE AsyncArrives
  <2>1. UNCHANGED <<issued, event_state, m_ring_buffer, m_last_event, accepted,
                    started, alive, loop_pc>>
    BY <1>3 DEF AsyncArrives
  <2>2. QED
    BY <2>1, OrderFrame DEF OrderInv, Bookkeeping
<1>4. CASE on_new_cmd_cb
  <2>1. UNCHANGED <<issued, event_state, m_ring_buffer, m_last_event, accepted,
                    started, alive>>
    BY <1>4 DEF on_new_cmd_cb
  <2>2. /\ loop_pc' \in {"check_self_destroy", "pop_front"}
        /\ loop_pc' = "pop_front" => m_ring_buffer # <<>>
    BY <1>4 DEF on_new_cmd_cb
  <2>3. alive
    BY <1>4, Zenon DEF on_new_cmd_cb, AccessesAfterDelete
  <2>4. QED
    BY <2>1, <2>2, <2>3, OrderFrame
<1>5. CASE LastStillRunning
  <2>1. /\ UNCHANGED <<issued, event_state, m_ring_buffer, m_last_event,
                       accepted, started, alive>>
        /\ loop_pc' = "idle"
    BY <1>5 DEF LastStillRunning
  <2>2. QED
    BY <2>1, OrderFrame
<1>6. CASE pop_front
  BY <1>6, OrderPop
<1>7. CASE handle_a_cmd
  <2>1. m_last_event \in Cmds /\ LastRuns /\ alive
    BY <1>7 DEF handle_a_cmd, OrderInv, Bookkeeping, LastRuns, TypeOK
  <2>2. CASE type[m_last_event] \in {"WRITE_BUFFER", "READ_BUFFER"}
    <3>1. \E i \in 1 .. Len(started) : started[i] = m_last_event
      BY <2>1 DEF OrderInv, Bookkeeping, LastRuns, TypeOK
    <3>2. /\ event_state' = [event_state EXCEPT ![m_last_event] = "COMPLETE"]
          /\ UNCHANGED <<issued, accepted, started, m_ring_buffer,
                         m_last_event, alive>>
          /\ loop_pc' = "is_empty"
      BY <1>7, <2>2 DEF handle_a_cmd, set_as_complete
    <3>3. QED
      BY <2>1, <3>1, <3>2, OrderFinish DEF LastRuns
  <2>3. CASE type[m_last_event] \notin {"WRITE_BUFFER", "READ_BUFFER"}
    <3>1. /\ UNCHANGED <<issued, event_state, m_ring_buffer, m_last_event,
                         accepted, started, alive>>
          /\ loop_pc' = "is_empty"
      BY <1>7, <2>3 DEF handle_a_cmd
    <3>2. QED
      BY <2>1, <3>1, OrderFrame DEF LastRuns
  <2>4. QED
    BY <2>2, <2>3
<1>8. CASE FeedOrCheck
  <2>1. /\ UNCHANGED <<issued, event_state, m_ring_buffer, m_last_event,
                       accepted, started, alive>>
        /\ loop_pc' \in {"idle", "check_self_destroy"}
        /\ alive
    BY <1>8 DEF FeedOrCheck, OrderInv, Bookkeeping
  <2>2. QED
    BY <2>1, OrderFrame
<1>9. CASE check_self_destroy
  <2>1. /\ UNCHANGED <<issued, event_state, m_last_event, accepted, started>>
        /\ loop_pc' = "idle"
    BY <1>9 DEF check_self_destroy
  <2>2. OneAtATime' /\ Bookkeeping'
    BY <2>1 DEF OrderInv, OneAtATime, Bookkeeping, Complete, LastRuns
  <2>3. RingHoldsTheRest'
    BY <1>9, <2>1 DEF check_self_destroy, OrderInv, RingHoldsTheRest
  <2>4. QED
    BY <2>2, <2>3 DEF OrderInv
<1>10. ASSUME NEW c \in Cmds, NDRangeFinishes(c)
       PROVE  OrderInv'
  BY <1>10, OrderFinish DEF NDRangeFinishes, set_as_complete
<1>11. CASE UNCHANGED vars
  <2>1. UNCHANGED <<issued, event_state, m_ring_buffer, m_last_event, accepted,
                    started, alive, loop_pc>>
    BY <1>11 DEF vars
  <2>2. QED
    BY <2>1, OrderFrame DEF OrderInv, Bookkeeping
<1>12. QED
  BY <1>1, <1>2, <1>3, <1>4, <1>5, <1>6, <1>7, <1>8, <1>9, <1>10, <1>11
  DEF Next, Client, EventLoop

\* No step loses a wake-up.
LEMMA WakeupStep ==
    TypeOK /\ OrderInv /\ NoLostWakeup /\ [Next]_vars => NoLostWakeup'
<1> SUFFICES ASSUME TypeOK, OrderInv, NoLostWakeup, [Next]_vars
             PROVE  NoLostWakeup'
  OBVIOUS
<1> USE DEF clientVars, queueVars, loopVars, history
<1>1. ASSUME NEW t \in Threads, NEW ty \in Types, NEW blocking \in BOOLEAN,
             Enqueue(t, ty, blocking)
      PROVE  NoLostWakeup'
  <2>1. CASE sent' = TRUE
    BY <2>1, Zenon DEF NoLostWakeup
  <2>2. CASE UNCHANGED <<m_ring_buffer, sent>>
    <3>1. /\ UNCHANGED <<alive, loop_pc, m_ring_buffer, m_last_event, sent,
                         pending>>
          /\ event_state' = [event_state EXCEPT ![issued + 1] = "QUEUED"]
          /\ event_state \in [Cmds -> {"NONE", "QUEUED", "COMPLETE"}]
      BY <1>1, <2>2 DEF Enqueue, TypeOK
    <3>2. m_last_event # None => m_last_event \in Cmds
      BY DEF TypeOK
    <3>3. LastRuns => LastRuns'
      BY <3>1, <3>2 DEF LastRuns, Complete
    <3>4. QED
      BY <3>1, <3>3, Zenon DEF NoLostWakeup
  <2>3. QED
    BY <1>1, <2>1, <2>2, Zenon DEF Enqueue, push_back
<1>2. ASSUME NEW t \in Threads,
             EnqueueOnDeleted(t) \/ wait_until_complete(t) \/ ref_cnt_down(t)
      PROVE  NoLostWakeup'
  BY <1>2
  DEF EnqueueOnDeleted, wait_until_complete, ref_cnt_down, NoLostWakeup,
      LastRuns, Complete
<1>3. CASE AsyncArrives
  BY <1>3, Zenon DEF AsyncArrives, NoLostWakeup
<1>4. CASE on_new_cmd_cb
  BY <1>4 DEF on_new_cmd_cb, NoLostWakeup
<1>5. CASE LastStillRunning
  BY <1>5 DEF LastStillRunning, NoLostWakeup, LastRuns, Complete
<1>6. CASE pop_front
  BY <1>6 DEF pop_front, NoLostWakeup
<1>7. CASE handle_a_cmd
  BY <1>7 DEF handle_a_cmd, NoLostWakeup
<1>8. CASE FeedOrCheck
  <2>1. CASE m_ring_buffer # <<>> /\ Complete(m_last_event)
    BY <1>8, <2>1, Zenon DEF FeedOrCheck, NoLostWakeup
  <2>2. CASE ~(m_ring_buffer # <<>> /\ Complete(m_last_event))
    BY <1>8, <2>2
    DEF FeedOrCheck, NoLostWakeup, LastRuns, Complete, OrderInv, Bookkeeping
  <2>3. QED
    BY <2>1, <2>2
<1>9. CASE check_self_destroy
  <2>1. CASE m_ref_counter < 1
    BY <1>9, <2>1, Zenon DEF check_self_destroy, NoLostWakeup
  <2>2. CASE ~(m_ref_counter < 1)
    BY <1>9, <2>2 DEF check_self_destroy, NoLostWakeup, LastRuns, Complete
  <2>3. QED
    BY <2>1, <2>2
<1>10. ASSUME NEW c \in Cmds, NDRangeFinishes(c)
       PROVE  NoLostWakeup'
  BY <1>10, Zenon DEF NDRangeFinishes, set_as_complete, NoLostWakeup
<1>11. CASE UNCHANGED vars
  BY <1>11 DEF vars, NoLostWakeup, LastRuns, Complete
<1>12. QED
  BY <1>1, <1>2, <1>3, <1>4, <1>5, <1>6, <1>7, <1>8, <1>9, <1>10, <1>11
  DEF Next, Client, EventLoop

\* The part of the inductive invariant that is about a deleted queue.
DeleteInv == OnlyReleasedDeleted /\ AccessesAfterDelete

\* As long as the queue is there, no access to it is one after its deletion.
LEMMA LiveFrame ==
    ASSUME DeleteInv, alive, alive', UNCHANGED <<orphan, bad_access>>
    PROVE  DeleteInv'
<1>1. orphan = None
  BY DEF DeleteInv, OnlyReleasedDeleted
<1>2. "unlock" \notin bad_access /\ "feed" \notin bad_access
  BY <1>1, Zenon DEF DeleteInv, AccessesAfterDelete
<1>3. OnlyReleasedDeleted'
  BY <1>1 DEF OnlyReleasedDeleted
<1>4. AccessesAfterDelete'
  BY <1>1, <1>2 DEF AccessesAfterDelete
<1>5. QED
  BY <1>3, <1>4 DEF DeleteInv

\* Once it is deleted, what leaves its watcher and the NDRange that runs alone
\* makes no new access but a call.
LEMMA DeadFrame ==
    ASSUME DeleteInv, ~alive,
           UNCHANGED <<alive, m_ref_counter, m_last_event, orphan, started,
                       loop_pc, sent, pending, type, event_state>>,
           bad_access' = bad_access \/ bad_access' = bad_access \cup {"call"}
    PROVE  DeleteInv'
<1>1. OnlyReleasedDeleted'
  BY DEF DeleteInv, OnlyReleasedDeleted
<1>2. /\ "unlock" \in bad_access' <=> "unlock" \in bad_access
      /\ "feed" \in bad_access' <=> "feed" \in bad_access
  OBVIOUS
<1>3. AccessesAfterDelete'
  BY <1>2 DEF DeleteInv, AccessesAfterDelete, Complete
<1>4. QED
  BY <1>1, <1>3 DEF DeleteInv

\* The queue goes: at most its last command runs on.
LEMMA DeleteSelf ==
    ASSUME TypeOK, OrderInv, DeleteInv, check_self_destroy
    PROVE  DeleteInv'
<1> USE DEF clientVars
<1>1. alive
  BY DEF check_self_destroy, OrderInv, Bookkeeping
<1>2. CASE ~(m_ref_counter < 1)
  BY <1>1, <1>2, LiveFrame DEF check_self_destroy
<1>3. CASE m_ref_counter < 1
  <2>1. /\ m_ref_counter' = 0 /\ ~alive' /\ loop_pc' = "idle"
        /\ ~sent' /\ ~pending'
        /\ orphan' = IF LastRuns THEN m_last_event ELSE None
        /\ bad_access' = bad_access \cup {"unlock"}
        /\ UNCHANGED <<m_last_event, started, event_state, type>>
    BY <1>3 DEF check_self_destroy, TypeOK
  <2>2. "feed" \notin bad_access' /\ "unlock" \in bad_access'
    <3>1. orphan = None
      BY <1>1 DEF DeleteInv, OnlyReleasedDeleted
    <3>2. "feed" \notin bad_access
      BY <3>1, Zenon DEF DeleteInv, AccessesAfterDelete
    <3>3. QED
      BY <2>1, <3>2
  <2>3. (orphan # None => ~Complete(orphan))'
    BY <2>1 DEF LastRuns, Complete
  <2>4. ASSUME NEW i \in 1 .. Len(started)
        PROVE  Complete(started[i]) \/ started[i] = orphan'
    <3>1. started \in Seq(Cmds) /\ Len(started) \in Nat /\ started # <<>>
      BY <2>4 DEF TypeOK
    <3>2. m_last_event = started[Len(started)] /\ m_last_event # None
      BY <3>1, BoundsAssumption DEF OrderInv, Bookkeeping, Cmds, None
    <3>3. CASE i = Len(started)
      BY <2>1, <3>2, <3>3 DEF LastRuns
    <3>4. CASE i # Len(started)
      BY <3>1, <3>4 DEF OrderInv, OneAtATime
    <3>5. QED
      BY <3>3, <3>4
  <2>5. OnlyReleasedDeleted'
    BY <2>1 DEF OnlyReleasedDeleted
  <2>6. AccessesAfterDelete'
    BY <2>1, <2>2, <2>3, <2>4 DEF AccessesAfterDelete, Complete
  <2>7. QED
    BY <2>5, <2>6 DEF DeleteInv
<1>4. QED
  BY <1>2, <1>3

\* The NDRange that ran when the queue went ends, and feeds its watcher.
LEMMA OrphanFinishes ==
    ASSUME TypeOK, DeleteInv, ~alive, NEW c \in Cmds, NDRangeFinishes(c)
    PROVE  DeleteInv'
<1> USE DEF clientVars, queueVars, history
<1>1. c = orphan /\ c # None
  BY BoundsAssumption
  DEF NDRangeFinishes, DeleteInv, AccessesAfterDelete, Cmds, None
<1>2. /\ event_state' = [event_state EXCEPT ![c] = "COMPLETE"]
      /\ bad_access' = bad_access \cup {"feed"}
      /\ type[c] = "NDRANGE"
      /\ UNCHANGED <<alive, m_ref_counter, m_last_event, orphan, started,
                     loop_pc, sent, pending, type>>
  BY DEF NDRangeFinishes, set_as_complete
<1>3. /\ Complete(c)'
      /\ \A d \in Cmds : Complete(d) => Complete(d)'
  BY <1>2 DEF TypeOK, Complete
<1>4. \A i \in 1 .. Len(started) : started[i] \in Cmds
  BY DEF TypeOK
<1>5. OnlyReleasedDeleted'
  BY <1>2 DEF DeleteInv, OnlyReleasedDeleted
<1>6. AccessesAfterDelete'
  BY <1>1, <1>2, <1>3, <1>4 DEF DeleteInv, AccessesAfterDelete, Complete
<1>7. QED
  BY <1>5, <1>6 DEF DeleteInv

\* No step accesses a deleted queue in a way of its own.
LEMMA DeleteStep ==
    TypeOK /\ OrderInv /\ DeleteInv /\ [Next]_vars => DeleteInv'
<1> SUFFICES ASSUME TypeOK, OrderInv, DeleteInv, [Next]_vars
             PROVE  DeleteInv'
  OBVIOUS
<1> USE DEF clientVars, queueVars, loopVars, history
<1>1. ASSUME NEW t \in Threads, NEW ty \in Types, NEW blocking \in BOOLEAN,
             Enqueue(t, ty, blocking)
      PROVE  DeleteInv'
  BY <1>1, LiveFrame DEF Enqueue
<1>2. ASSUME NEW t \in Threads, EnqueueOnDeleted(t)
      PROVE  DeleteInv'
  BY <1>2, DeadFrame DEF EnqueueOnDeleted
<1>3. ASSUME NEW t \in Threads, wait_until_complete(t)
      PROVE  DeleteInv'
  BY <1>3, LiveFrame, DeadFrame DEF wait_until_complete
<1>4. ASSUME NEW t \in Threads, ref_cnt_down(t)
      PROVE  DeleteInv'
  <2>1. alive
    BY <1>4 DEF ref_cnt_down, DeleteInv, OnlyReleasedDeleted
  <2>2. QED
    BY <1>4, <2>1, LiveFrame DEF ref_cnt_down
<1>5. CASE AsyncArrives \/ on_new_cmd_cb \/ LastStillRunning \/ pop_front
           \/ FeedOrCheck
  <2>1. alive
    BY <1>5
    DEF AsyncArrives, on_new_cmd_cb, LastStillRunning, pop_front, FeedOrCheck,
        OrderInv, Bookkeeping, DeleteInv, AccessesAfterDelete
  <2>2. UNCHANGED <<alive, orphan, bad_access>>
    BY <1>5
    DEF AsyncArrives, on_new_cmd_cb, LastStillRunning, pop_front, FeedOrCheck
  <2>3. QED
    BY <2>1, <2>2, LiveFrame
<1>6. CASE handle_a_cmd
  <2>1. alive
    BY <1>6 DEF handle_a_cmd, OrderInv, Bookkeeping
  <2>2. UNCHANGED <<alive, orphan, bad_access>>
    BY <1>6, <2>1 DEF handle_a_cmd, set_as_complete
  <2>3. QED
    BY <2>1, <2>2, LiveFrame
<1>7. CASE check_self_destroy
  BY <1>7, DeleteSelf
<1>8. ASSUME NEW c \in Cmds, NDRangeFinishes(c)
      PROVE  DeleteInv'
  <2>1. CASE alive
    BY <1>8, <2>1, LiveFrame DEF NDRangeFinishes, set_as_complete
  <2>2. CASE ~alive
    BY <1>8, <2>2, OrphanFinishes
  <2>3. QED
    BY <2>1, <2>2
<1>9. CASE UNCHANGED vars
  BY <1>9, LiveFrame, DeadFrame DEF vars
<1>10. QED
  BY <1>1, <1>2, <1>3, <1>4, <1>5, <1>6, <1>7, <1>8, <1>9
  DEF Next, Client, EventLoop

-----------------------------------------------------------------------------
\* The inductive invariant holds in every reachable state, for every number of
\* threads and commands and every ring capacity.
THEOREM Invariance == Spec => []InductiveInv
<1>1. Init => InductiveInv
  <2> SUFFICES ASSUME Init PROVE InductiveInv
    OBVIOUS
  <2>1. TypeOK
    BY TypeInit
  <2>2. /\ started = <<>> /\ accepted = <<>> /\ m_ring_buffer = <<>>
        /\ m_last_event = None /\ loop_pc = "idle"
        /\ \A c \in Cmds : ~Complete(c)
    BY DEF Init, Complete
  <2>3. OneAtATime /\ RingHoldsTheRest /\ NoLostWakeup /\ Bookkeeping
    BY <2>2
    DEF OneAtATime, RingHoldsTheRest, NoLostWakeup, Bookkeeping
  <2>4. alive /\ bad_access = {} /\ orphan = None
    BY DEF Init
  <2>5. OnlyReleasedDeleted /\ AccessesAfterDelete
    BY <2>4 DEF OnlyReleasedDeleted, AccessesAfterDelete
  <2>6. QED
    BY <2>1, <2>3, <2>5 DEF InductiveInv
<1>2. InductiveInv /\ [Next]_vars => InductiveInv'
  BY TypeStep, OrderStep, WakeupStep, DeleteStep
  DEF InductiveInv, OrderInv, DeleteInv
<1>3. QED
  BY <1>1, <1>2, PTL DEF Spec

\* Type correctness of the queue.
THEOREM TypeCorrect == Spec => []TypeOK
  BY Invariance, PTL DEF InductiveInv

\* In-order execution: no command is dispatched while an earlier one runs.
THEOREM InOrderExecution == Spec => []OneAtATime
  BY Invariance, PTL DEF InductiveInv

\* The callback protocol of on_new_cmd_cb never loses a wake-up.
THEOREM WakeupsAreKept == Spec => []NoLostWakeup
  BY Invariance, PTL DEF InductiveInv

\* What reaches a queue that has deleted itself, whatever its client does: the
\* unlock of its mutex, calls of the client, and the completion of the one
\* NDRange that ran at that time; no callback of its own.
THEOREM DeletedQueueAccesses == Spec => []AccessesAfterDelete
  BY Invariance, PTL DEF InductiveInv

-----------------------------------------------------------------------------
\* The queue implements the in-order command queue: every step of the client
\* or of the event loop is a step of InOrderQueue or leaves its state alone.
THEOREM Refinement == Spec => ImplementsInOrderQueue
<1> DEFINE Finished == {c \in Cmds : Complete(c)}
<1>1. Init => Order!OrderInit
  BY DEF Init, Order!OrderInit, Complete
<1>2. InductiveInv /\ [Next]_vars => [Order!OrderNext]_(Order!orderVars)
  <2> SUFFICES ASSUME InductiveInv, [Next]_vars
               PROVE  Order!OrderNext \/ UNCHANGED <<accepted, started, Finished>>
    BY DEF Order!orderVars
  <2> USE DEF clientVars, queueVars, loopVars, history
  <2>1. TypeOK /\ OrderInv
    BY DEF InductiveInv, OrderInv
  <2>2. ASSUME UNCHANGED <<accepted, started, event_state>>
        PROVE  UNCHANGED <<accepted, started, Finished>>
    BY <2>2 DEF Complete
  <2>3. ASSUME NEW t \in Threads, NEW ty \in Types, NEW blocking \in BOOLEAN,
               Enqueue(t, ty, blocking)
        PROVE  Order!OrderNext \/ UNCHANGED <<accepted, started, Finished>>
    <3>1. /\ issued + 1 \in Cmds
          /\ UNCHANGED started
          /\ event_state' = [event_state EXCEPT ![issued + 1] = "QUEUED"]
      BY <2>3, BoundsAssumption DEF Enqueue, InductiveInv, TypeOK, Cmds
    <3>2. ~Complete(issued + 1)
      BY <2>1, <3>1 DEF OrderInv, Bookkeeping, TypeOK, Cmds
    <3>3. Finished' = Finished
      BY <2>1, <3>1, <3>2 DEF Complete, TypeOK
    <3>4. accepted' \in {accepted, Append(accepted, issued + 1)}
      BY <2>3, Zenon DEF Enqueue, push_back
    <3>5. QED
      BY <3>1, <3>3, <3>4 DEF Order!OrderNext, Order!Accept
  <2>4. ASSUME NEW t \in Threads,
               EnqueueOnDeleted(t) \/ wait_until_complete(t) \/ ref_cnt_down(t)
        PROVE  UNCHANGED <<accepted, started, Finished>>
    BY <2>2, <2>4 DEF EnqueueOnDeleted, wait_until_complete, ref_cnt_down
  <2>5. CASE AsyncArrives \/ on_new_cmd_cb \/ LastStillRunning \/ FeedOrCheck
             \/ check_self_destroy
    BY <2>2, <2>5
    DEF AsyncArrives, on_new_cmd_cb, LastStillRunning, FeedOrCheck,
        check_self_destroy
  <2>6. CASE pop_front
    <3> DEFINE n == Len(started)
    <3>1. /\ started \in Seq(Cmds) /\ m_ring_buffer \in Seq(Cmds)
          /\ m_ring_buffer # <<>> /\ alive
      BY <2>1, <2>6 DEF TypeOK, OrderInv, Bookkeeping, pop_front
    <3>2. Head(m_ring_buffer) = accepted[n + 1] /\ n < Len(accepted)
      BY <2>1, <3>1 DEF OrderInv, RingHoldsTheRest, TypeOK
    <3>3. \A i \in 1 .. n : Complete(started[i])
      <4>1. CASE n = 0
        BY <4>1
      <4>2. CASE n # 0
        <5>1. started # <<>> /\ started[n] \in Cmds /\ n \in Nat
          BY <3>1, <4>2
        <5>2. m_last_event = started[n] /\ m_last_event # None
          BY <2>1, <5>1, BoundsAssumption DEF OrderInv, Bookkeeping, Cmds, None
        <5>3. Complete(started[n])
          BY <2>6, <5>2 DEF pop_front, LastRuns
        <5>4. QED
          BY <2>1, <5>1, <5>3 DEF OrderInv, OneAtATime
      <4>3. QED
        BY <4>1, <4>2
    <3>4. \A i \in 1 .. n : started[i] \in Finished
      BY <3>1, <3>3
    <3>5. /\ started' = Append(started, accepted[n + 1])
          /\ UNCHANGED <<accepted, event_state>>
      BY <2>6, <3>2 DEF pop_front
    <3>6. Finished' = Finished
      BY <3>5 DEF Complete
    <3>7. QED
      BY <3>2, <3>4, <3>5, <3>6 DEF Order!OrderNext, Order!Start
  <2>7. ASSUME NEW c \in Cmds, ~Complete(c), set_as_complete(c),
               m_last_event = c, UNCHANGED <<accepted, started>>
        PROVE  Order!OrderNext
    <3>1. started # <<>> /\ started[Len(started)] = c
      BY <2>1, <2>7, BoundsAssumption DEF OrderInv, Bookkeeping, Cmds, None
    <3>2. c \notin Finished
      BY <2>7
    <3>3. Finished' = Finished \cup {c}
      BY <2>1, <2>7 DEF set_as_complete, TypeOK, Complete
    <3>4. QED
      BY <2>7, <3>1, <3>2, <3>3 DEF Order!OrderNext, Order!Finish
  <2>8. CASE handle_a_cmd
    <3>1. CASE type[m_last_event] \in {"WRITE_BUFFER", "READ_BUFFER"}
      <4>1. m_last_event \in Cmds /\ ~Complete(m_last_event)
        BY <2>1, <2>8 DEF handle_a_cmd, OrderInv, Bookkeeping, LastRuns, TypeOK
      <4>2. QED
        BY <2>7, <2>8, <3>1, <4>1 DEF handle_a_cmd
    <3>2. CASE type[m_last_event] \notin {"WRITE_BUFFER", "READ_BUFFER"}
      BY <2>2, <2>8, <3>2 DEF handle_a_cmd
    <3>3. QED
      BY <3>1, <3>2
  <2>9. ASSUME NEW c \in Cmds, NDRangeFinishes(c)
        PROVE  Order!OrderNext
    <3>1. m_last_event = c
      BY <2>1, <2>9, BoundsAssumption
      DEF NDRangeFinishes, OrderInv, OneAtATime, Bookkeeping, TypeOK
    <3>2. QED
      BY <2>7, <2>9, <3>1 DEF NDRangeFinishes
  <2>10. CASE UNCHANGED vars
    BY <2>2, <2>10 DEF vars
  <2>11. QED
    BY <2>3, <2>4, <2>5, <2>6, <2>8, <2>9, <2>10 DEF Next, Client, EventLoop
<1>3. QED
  BY <1>1, <1>2, Invariance, PTL DEF Spec, ImplementsInOrderQueue, Order!OrderSpec

-----------------------------------------------------------------------------
(* The run-time system put together. *)

\* Whatever the system does, the command queue takes one of its own steps or
\* none: the islands touch it only where an NDRange finishes.
LEMMA StepOfQueue == [RTNext]_rtVars => [Next]_vars
<1> SUFFICES ASSUME [RTNext]_rtVars PROVE Next \/ UNCHANGED vars
  OBVIOUS
<1>1. CASE QueueStep
  BY <1>1, Zenon DEF QueueStep, Next, EventLoop
<1>2. CASE Dispatch
  BY <1>2, Zenon DEF Dispatch, Next, EventLoop
<1>3. ASSUME NEW n \in Foreign, ForeignDispatch(n)
      PROVE  UNCHANGED vars
  BY <1>3, Zenon DEF ForeignDispatch
<1>4. ASSUME NEW i \in 1 .. N, on_timer(i)
      PROVE  Next \/ UNCHANGED vars
  BY <1>4, Zenon DEF on_timer, Next, EventLoop
<1>5. CASE LoopTimers
  BY <1>5, Zenon DEF LoopTimers
<1>6. CASE UNCHANGED rtVars
  BY <1>6, Zenon DEF rtVars
<1>7. QED
  BY <1>1, <1>2, <1>3, <1>4, <1>5, <1>6 DEF RTNext

\* The system is a command queue: its safety properties are the queue's.
THEOREM SystemIsQueue == RTSpec => Spec
<1>1. RTInit => Init
  BY Zenon DEF RTInit
<1>2. QED
  BY <1>1, StepOfQueue, PTL DEF RTSpec, Spec

\* The islands, which serve other queues as well, reach a queue that has deleted
\* itself only to complete the one NDRange that ran at that time.
THEOREM SystemDeletedQueueAccesses == RTSpec => []AccessesAfterDelete
  BY SystemIsQueue, DeletedQueueAccesses, PTL

-----------------------------------------------------------------------------
\* What ties the two together, and is inductive: the NDRange that is on the
\* islands is that of the command started last, which runs; and the NDRanges
\* that deleted themselves are those of the finished NDRange commands.
IslandsFollowQueue ==
    /\ ndr_state \in [NDRanges -> {"NONE", "LIVE", "DELETED"}]
    /\ ndr_event \in [NDRanges -> {"QUEUED", "COMPLETE"}]
    /\ \A c \in Cmds :
          /\ ndr_state[c] = "LIVE" => /\ c = m_last_event
                                     /\ type[c] = "NDRANGE" /\ ~Complete(c)
          /\ ndr_state[c] = "DELETED" <=> ndr_event[c] = "COMPLETE"
          /\ ndr_state[c] = "DELETED" <=> type[c] = "NDRANGE" /\ Complete(c)

\* A step that leaves the NDRanges alone keeps the invariant if, for the NDRange
\* of the last command, its command still runs, and no command finishes whose
\* NDRange did not.
LEMMA NDRangeFrame ==
    ASSUME IslandsFollowQueue, UNCHANGED <<ndr_state, ndr_event>>,
           \A c \in Cmds :
              /\ ndr_state[c] = "LIVE" => /\ c = m_last_event'
                                         /\ type'[c] = "NDRANGE"
                                         /\ ~Complete(c)'
              /\ (type[c] = "NDRANGE" /\ Complete(c))
                    <=> (type'[c] = "NDRANGE" /\ Complete(c)')
    PROVE  IslandsFollowQueue'
  BY DEF IslandsFollowQueue

\* A command that is not issued yet has no NDRange on the islands, and never
\* had one; no step of the queue's alone breaks the invariant.
LEMMA NDRangeQueueStep ==
    ASSUME InductiveInv, IslandsFollowQueue, QueueStep
    PROVE  IslandsFollowQueue'
<1> USE DEF clientVars, queueVars, loopVars, history
<1>0. UNCHANGED <<ndr_state, ndr_event>>
  BY DEF QueueStep, islands
<1>1. ASSUME NEW t \in Threads, NEW ty \in Types, NEW blocking \in BOOLEAN,
             Enqueue(t, ty, blocking)
      PROVE  IslandsFollowQueue'
  <2> DEFINE n == issued + 1
  <2>1. /\ n \in Cmds /\ issued \in Nat
        /\ type \in [Cmds -> CommandTypes]
        /\ event_state \in [Cmds -> {"NONE", "QUEUED", "COMPLETE"}]
    BY <1>1, BoundsAssumption DEF InductiveInv, TypeOK, Enqueue, Cmds
  <2>2. /\ type' = [type EXCEPT ![n] = ty]
        /\ event_state' = [event_state EXCEPT ![n] = "QUEUED"]
        /\ m_last_event' = m_last_event
    BY <1>1 DEF Enqueue
  <2>3. ~Complete(n) /\ m_last_event # n
    <3>1. /\ \A i \in 1 .. Len(started) : started[i] = accepted[i]
          /\ \A i \in 1 .. Len(accepted) : accepted[i] <= issued
          /\ Len(started) <= Len(accepted)
          /\ accepted \in Seq(Cmds) /\ started \in Seq(Cmds)
      BY DEF InductiveInv, TypeOK, Bookkeeping
    <3>2. \A i \in 1 .. Len(started) : started[i] \in Nat /\ started[i] <= issued
      <4> SUFFICES ASSUME NEW i \in 1 .. Len(started)
                   PROVE  started[i] \in Nat /\ started[i] <= issued
        OBVIOUS
      <4>1. started[i] \in Cmds
        BY <3>1
      <4>2. i \in 1 .. Len(accepted)
        BY <3>1
      <4>3. started[i] = accepted[i] /\ accepted[i] <= issued
        BY <3>1, <4>2
      <4>4. QED
        BY <4>1, <4>3, BoundsAssumption DEF Cmds
    <3>3. \A i \in 1 .. Len(started) : started[i] # n
      BY <3>2, <2>1
    <3>4. ~Complete(n)
      BY <3>3, <2>1 DEF InductiveInv, Bookkeeping
    <3>5. m_last_event # n
      <4>1. CASE started = <<>>
        BY <4>1, <2>1 DEF InductiveInv, Bookkeeping, None
      <4>2. CASE started # <<>>
        <5>1. Len(started) \in 1 .. Len(started)
          BY <4>2, <3>1
        <5>2. m_last_event = started[Len(started)]
          BY <4>2 DEF InductiveInv, Bookkeeping
        <5>3. QED
          BY <5>1, <5>2, <3>3
      <4>3. QED
        BY <4>1, <4>2
    <3>6. QED
      BY <3>4, <3>5
  <2> HIDE DEF n
  <2>4. \A c \in Cmds :
           /\ ndr_state[c] = "LIVE" => c = m_last_event /\ type[c] = "NDRANGE"
                                       /\ ~Complete(c)
           /\ c # n => type'[c] = type[c] /\ event_state'[c] = event_state[c]
           /\ event_state'[n] = "QUEUED"
    BY <2>1, <2>2 DEF IslandsFollowQueue
  <2>5. QED
    BY <1>0, <2>2, <2>3, <2>4, NDRangeFrame DEF Complete
<1>2. ASSUME UNCHANGED <<type, event_state, m_last_event>>
      PROVE  IslandsFollowQueue'
  BY <1>0, <1>2, NDRangeFrame DEF Complete, IslandsFollowQueue
<1>3. CASE pop_front
  <2>1. /\ UNCHANGED <<type, event_state>>
        /\ ~LastRuns
    BY <1>3 DEF pop_front
  <2>2. \A c \in Cmds : ndr_state[c] # "LIVE"
    BY <2>1 DEF IslandsFollowQueue, LastRuns, Cmds, None
  <2>3. QED
    BY <1>0, <2>1, <2>2, NDRangeFrame DEF Complete
<1>4. QED
  <2>1. ASSUME NEW t \in Threads, Client(t)
        PROVE  IslandsFollowQueue'
    BY <2>1, <1>1, <1>2, Zenon
    DEF Client, EnqueueOnDeleted, wait_until_complete, ref_cnt_down
  <2>2. CASE AsyncArrives \/ on_new_cmd_cb \/ LastStillRunning \/ FeedOrCheck
             \/ check_self_destroy
    BY <2>2, <1>2, Zenon
    DEF AsyncArrives, on_new_cmd_cb, LastStillRunning, FeedOrCheck,
        check_self_destroy
  <2>3. QED
    BY <2>1, <2>2, <1>3 DEF QueueStep

\* The dispatcher gives the command started last, which runs, its NDRange; a
\* buffer command, which it completes at once, has none.
LEMMA NDRangeDispatch ==
    ASSUME InductiveInv, IslandsFollowQueue, Dispatch
    PROVE  IslandsFollowQueue'
<1> DEFINE last == m_last_event
<1>1. /\ last \in Cmds /\ ~Complete(last)
      /\ event_state \in [Cmds -> {"NONE", "QUEUED", "COMPLETE"}]
      /\ UNCHANGED <<type, m_last_event>>
  BY DEF Dispatch, handle_a_cmd, InductiveInv, Bookkeeping, LastRuns, TypeOK,
         clientVars, queueVars
<1>2. CASE type[last] = "NDRANGE"
  <2>1. /\ event_state' = event_state
        /\ handle_ndrange_command(last, MinWgs)
    BY <1>2, Zenon DEF Dispatch, handle_a_cmd
  <2>2. /\ ndr_state[last] = "NONE"
        /\ ndr_state' = [ndr_state EXCEPT ![last] = "LIVE"]
        /\ ndr_event' = ndr_event
    BY <2>1 DEF handle_ndrange_command, Routing!route_ndrange
  <2>3. QED
    BY <1>1, <1>2, <2>1, <2>2 DEF IslandsFollowQueue, Complete, NDRanges
<1>3. CASE type[last] # "NDRANGE"
  <2>1. UNCHANGED <<ndr_state, ndr_event>>
    BY <1>3 DEF Dispatch, islands
  <2>2. \A c \in Cmds : c # last => event_state'[c] = event_state[c]
    BY <1>1 DEF Dispatch, handle_a_cmd, set_as_complete
  <2>3. \A c \in Cmds : ndr_state[c] # "LIVE"
    BY <1>3 DEF IslandsFollowQueue
  <2>4. QED
    BY <1>1, <1>3, <2>1, <2>2, <2>3, NDRangeFrame DEF Complete
<1>4. QED
  BY <1>2, <1>3

\* An NDRange of another queue is none of this queue's.
LEMMA NDRangeForeign ==
    ASSUME IslandsFollowQueue, NEW n \in Foreign, ForeignDispatch(n)
    PROVE  IslandsFollowQueue'
<1>1. /\ ndr_state' = [ndr_state EXCEPT ![n] = "LIVE"]
      /\ ndr_event' = ndr_event
      /\ UNCHANGED <<type, event_state, m_last_event>>
  BY DEF ForeignDispatch, handle_ndrange_command, Routing!route_ndrange, vars,
         clientVars, queueVars
<1>2. n \notin Cmds /\ n \in NDRanges
  BY ForeignAssumption DEF NDRanges
<1>3. QED
  BY <1>1, <1>2 DEF IslandsFollowQueue, Complete

\* A timer callback that takes the last work-group range of a command's NDRange
\* deletes it and completes that command's event; no other one does either.
LEMMA NDRangeOnTimer ==
    ASSUME InductiveInv, IslandsFollowQueue, NEW i \in 1 .. N, on_timer(i)
    PROVE  IslandsFollowQueue'
<1> DEFINE n == Head(m_in_queue[i]).parent
<1>1. \/ UNCHANGED <<ndr_state, ndr_event>>
      \/ /\ ndr_state' = [ndr_state EXCEPT ![n] = "DELETED"]
         /\ ndr_event' = [ndr_event EXCEPT ![n] = "COMPLETE"]
  BY DEF on_timer, Routing!on_timer, Routing!mark_as_finished
<1> HIDE DEF n
<1>2. CASE \E c \in Cmds : ndr_event[c] # ndr_event'[c]
  <2>1. PICK c \in Cmds : ndr_event[c] # ndr_event'[c] /\ NDRangeFinishes(c)
    BY <1>2 DEF on_timer
  <2>2. /\ type[c] = "NDRANGE" /\ ~Complete(c)
        /\ event_state' = [event_state EXCEPT ![c] = "COMPLETE"]
        /\ UNCHANGED <<type, m_last_event>>
        /\ event_state \in [Cmds -> {"NONE", "QUEUED", "COMPLETE"}]
    BY <2>1 DEF NDRangeFinishes, set_as_complete, clientVars, queueVars,
                InductiveInv, TypeOK
  <2>3. n = c
    BY <1>1, <2>1 DEF IslandsFollowQueue, NDRanges
  <2>4. /\ ndr_state' = [ndr_state EXCEPT ![c] = "DELETED"]
        /\ ndr_event' = [ndr_event EXCEPT ![c] = "COMPLETE"]
    BY <1>1, <2>1, <2>3
  <2>5. QED
    BY <2>1, <2>2, <2>4 DEF IslandsFollowQueue, NDRanges, Complete
<1>3. CASE ~\E c \in Cmds : ndr_event[c] # ndr_event'[c]
  <2>1. UNCHANGED <<type, event_state, m_last_event>>
    BY <1>3 DEF on_timer, vars, clientVars, queueVars
  <2>2. /\ ndr_state' \in [NDRanges -> {"NONE", "LIVE", "DELETED"}]
        /\ ndr_event' \in [NDRanges -> {"QUEUED", "COMPLETE"}]
    BY <1>1 DEF IslandsFollowQueue
  <2>3. \A c \in Cmds : ndr_state'[c] = ndr_state[c]
                        /\ ndr_event'[c] = ndr_event[c]
    BY <1>1, <1>3 DEF IslandsFollowQueue, NDRanges
  <2>4. QED
    BY <2>1, <2>2, <2>3 DEF IslandsFollowQueue, Complete
<1>4. QED
  BY <1>2, <1>3

\* The invariant of the composition holds always.
LEMMA IslandsInvariance == RTSpec => []IslandsFollowQueue
<1>1. RTInit => IslandsFollowQueue
  BY DEF RTInit, Init, Routing!Init, Routing!IslandsInit, IslandsFollowQueue,
         Complete, NDRanges
<1>2. InductiveInv /\ IslandsFollowQueue /\ [RTNext]_rtVars => IslandsFollowQueue'
  <2> SUFFICES ASSUME InductiveInv, IslandsFollowQueue, [RTNext]_rtVars
               PROVE  IslandsFollowQueue'
    OBVIOUS
  <2>1. ASSUME UNCHANGED <<type, event_state, m_last_event, ndr_state, ndr_event>>
        PROVE  IslandsFollowQueue'
    BY <2>1 DEF IslandsFollowQueue, Complete
  <2>2. CASE LoopTimers
    BY <2>1, <2>2
    DEF LoopTimers, Routing!TimerExpires, Routing!FreeTimerExpires,
        Routing!FreeTimerCallback, Routing!ndrVars, vars, clientVars, queueVars
  <2>3. CASE UNCHANGED rtVars
    BY <2>1, <2>3 DEF rtVars, vars, clientVars, queueVars, islands
  <2>4. QED
    BY <2>2, <2>3, NDRangeQueueStep, NDRangeDispatch, NDRangeForeign,
       NDRangeOnTimer
    DEF RTNext
<1>3. RTSpec => []InductiveInv
  BY SystemIsQueue, Invariance, PTL
<1>4. QED
  BY <1>1, <1>2, <1>3, PTL DEF RTSpec

\* An NDRange exists from its command's dispatch until its event completes, and
\* at most one of an in-order queue is on the islands at any time.
THEOREM NDRangesMatchCommands == RTSpec => []NDRangeFollowsCommand
<1>1. InductiveInv /\ IslandsFollowQueue => NDRangeFollowsCommand
  <2> SUFFICES ASSUME InductiveInv, IslandsFollowQueue
               PROVE  NDRangeFollowsCommand
    OBVIOUS
  <2>1. \A c \in 1 .. issued : c \in Cmds
    BY BoundsAssumption DEF InductiveInv, TypeOK, Cmds
  <2>2. QED
    BY <2>1 DEF IslandsFollowQueue, NDRangeFollowsCommand
<1>2. RTSpec => []InductiveInv
  BY SystemIsQueue, Invariance, PTL
<1>3. QED
  BY <1>1, <1>2, IslandsInvariance, PTL

-----------------------------------------------------------------------------
\* Whatever the system does, the islands take one of their own steps or none.
LEMMA StepOfIslands ==
    InductiveInv /\ [RTNext]_rtVars => [Routing!Next]_(Routing!vars)
<1> SUFFICES ASSUME InductiveInv, [RTNext]_rtVars
             PROVE  Routing!Next \/ UNCHANGED Routing!vars
  OBVIOUS
<1>1. ASSUME UNCHANGED islands
      PROVE  UNCHANGED Routing!vars
  BY <1>1 DEF islands, Routing!vars, Routing!islandVars, Routing!ndrVars,
              Routing!schedVars, Routing!freeVars
<1>2. ASSUME NEW n \in NDRanges, NEW least \in Nat,
             handle_ndrange_command(n, least)
      PROVE  Routing!Next
  <2>1. PICK total \in least .. MaxWgs :
                \E cut \in Routing!Cuts(total) : Routing!route_ndrange(n, total, cut)
    BY <1>2, Zenon DEF handle_ndrange_command
  <2>2. total \in 0 .. MaxWgs
    OBVIOUS
  <2>3. QED
    BY <2>1, <2>2, Zenon DEF Routing!Next
<1>3. CASE QueueStep
  BY <1>1, <1>3 DEF QueueStep
<1>4. CASE Dispatch
  <2>1. m_last_event \in NDRanges
    BY <1>4 DEF Dispatch, handle_a_cmd, InductiveInv, Bookkeeping, LastRuns,
                TypeOK, NDRanges
  <2>2. QED
    BY <1>1, <1>2, <1>4, <2>1, WgsAssumption, Zenon DEF Dispatch
<1>5. ASSUME NEW n \in Foreign, ForeignDispatch(n)
      PROVE  Routing!Next
  BY <1>2, <1>5 DEF ForeignDispatch, NDRanges
<1>6. ASSUME NEW i \in 1 .. N, on_timer(i)
      PROVE  Routing!Next
  BY <1>6, Zenon DEF on_timer, Routing!Next, Routing!Island
<1>7. CASE LoopTimers
  BY <1>7, Zenon DEF LoopTimers, Routing!Next, Routing!Island
<1>8. CASE UNCHANGED rtVars
  BY <1>1, <1>8 DEF rtVars
<1>9. QED
  BY <1>3, <1>4, <1>5, <1>6, <1>7, <1>8 DEF RTNext

\* Seen from the islands the system is one that routes NDRanges as AlgoSimple
\* does: what holds of every behaviour of SimpleRouting holds of it.
THEOREM SystemIsIslands == RTSpec => Routing!Spec
<1>1. RTInit => Routing!Init
  BY Zenon DEF RTInit
<1>2. RTSpec => []InductiveInv
  BY SystemIsQueue, Invariance, PTL
<1>3. QED
  BY <1>1, <1>2, StepOfIslands, PTL DEF RTSpec, Routing!Spec

-----------------------------------------------------------------------------
(* What is proved of the islands holds of those of the system. *)

\* The theorems about SimpleRouting, of the islands as they are here. The two
\* instances of that module have the same definitions, each with a name of its
\* own in either, which the next lemmas say.
Simple == INSTANCE SimpleRoutingProofs WITH event_state <- ndr_event

\* The assumptions of SimpleRouting hold.
LEMMA SimpleAssumptions ==
    /\ Simple!IslandsAssumption /\ Simple!MaxWgsAssumption
    /\ Simple!CapacityAssumption /\ Simple!UnsignedAssumption
BY RoutingAssumption
DEF Simple!IslandsAssumption, Simple!MaxWgsAssumption,
    Simple!CapacityAssumption, Simple!UnsignedAssumption

\* Cardinality, and what the islands need it for: the free list.
LEMMA SameFreeList ==
    /\ \A S : Routing!Cardinality(S) = Simple!Cardinality(S)
    /\ \A gone : Routing!remove_free_scheduler(gone)
                    = Simple!remove_free_scheduler(gone)
    /\ \A gone : Routing!FreeTimerAfter(gone) = Simple!FreeTimerAfter(gone)
<1>1. ASSUME NEW S
      PROVE  Routing!Cardinality(S) = Simple!Cardinality(S)
  BY DEF Routing!Cardinality, Simple!Cardinality
<1>2. ASSUME NEW gone
      PROVE  Routing!remove_free_scheduler(gone)
                = Simple!remove_free_scheduler(gone)
  BY Zenon DEF Routing!Cardinality, Simple!Cardinality,
               Routing!remove_free_scheduler, Simple!remove_free_scheduler
<1>3. ASSUME NEW gone
      PROVE  Routing!FreeTimerAfter(gone) = Simple!FreeTimerAfter(gone)
  BY <1>2, Zenon DEF Routing!FreeTimerAfter, Simple!FreeTimerAfter,
                     Routing!stop_timer, Simple!stop_timer
<1>4. QED
  BY <1>1, <1>2, <1>3, Zenon

\* Routing an NDRange.
LEMMA SameRouting ==
    ASSUME NEW n, NEW total, NEW cut
    PROVE  Routing!route_ndrange(n, total, cut)
              <=> Simple!route_ndrange(n, total, cut)
<1>1. ASSUME NEW wgr
      PROVE  Routing!submit_wgr(wgr) <=> Simple!submit_wgr(wgr)
  BY SameFreeList, Zenon DEF Routing!submit_wgr, Simple!submit_wgr,
     Routing!StartsTimer, Simple!StartsTimer, Routing!Island, Simple!Island
<1>2. QED
  BY <1>1, SameFreeList, Zenon
  DEF Routing!route_ndrange, Simple!route_ndrange, Routing!CarvedWgr,
      Simple!CarvedWgr, Routing!carve_wgs, Simple!carve_wgs,
      Routing!NextWgr, Simple!NextWgr, Routing!Island, Simple!Island

\* The timers of a scheduler and of the free list.
LEMMA SameTimers ==
    /\ \A i : Routing!TimerExpires(i) <=> Simple!TimerExpires(i)
    /\ \A i : Routing!on_timer(i) <=> Simple!on_timer(i)
    /\ Routing!FreeTimerExpires <=> Simple!FreeTimerExpires
    /\ Routing!FreeTimerCallback <=> Simple!FreeTimerCallback
<1> USE DEF Routing!freeVars, Simple!freeVars, Routing!ndrVars,
            Simple!ndrVars, Routing!schedVars, Simple!schedVars
<1>1. ASSUME NEW i
      PROVE  Routing!TimerExpires(i) <=> Simple!TimerExpires(i)
  BY Zenon DEF Routing!TimerExpires, Simple!TimerExpires
<1>2. ASSUME NEW i
      PROVE  Routing!on_timer(i) <=> Simple!on_timer(i)
  BY Zenon DEF Routing!on_timer, Simple!on_timer, Routing!mark_as_finished,
     Simple!mark_as_finished, Routing!WasLast, Simple!WasLast,
     Routing!decrement_wgrs_counter, Simple!decrement_wgrs_counter
<1>3. Routing!FreeTimerExpires <=> Simple!FreeTimerExpires
  BY Zenon DEF Routing!FreeTimerExpires, Simple!FreeTimerExpires
<1>4. Routing!FreeTimerCallback <=> Simple!FreeTimerCallback
  BY SameFreeList, Zenon
  DEF Routing!FreeTimerCallback, Simple!FreeTimerCallback,
      Routing!RearmedFreeTimer, Simple!RearmedFreeTimer
<1>5. QED
  BY <1>1, <1>2, <1>3, <1>4, Zenon

\* So every behaviour of the system is one that SimpleRoutingProofs is about.
LEMMA SystemIsSimple == RTSpec => Simple!Spec
<1>1. Routing!Init <=> Simple!Init
  BY Zenon DEF Routing!Init, Simple!Init, Routing!IslandsInit,
               Simple!IslandsInit, Routing!Island, Simple!Island
<1>2. Routing!vars = Simple!vars
  BY Zenon DEF Routing!vars, Simple!vars, Routing!islandVars, Simple!islandVars,
     Routing!ndrVars, Simple!ndrVars, Routing!schedVars, Simple!schedVars,
     Routing!freeVars, Simple!freeVars
<1>3. [Routing!Next]_(Routing!vars) => [Simple!Next]_(Simple!vars)
  <2>1. Routing!Next => Simple!Next
    BY SameRouting, SameTimers, Zenon
    DEF Routing!Next, Simple!Next, Routing!Cuts, Simple!Cuts,
        Routing!Island, Simple!Island
  <2>2. UNCHANGED Routing!vars => UNCHANGED Simple!vars
    BY Zenon DEF Routing!vars, Simple!vars, Routing!islandVars,
       Simple!islandVars, Routing!ndrVars, Simple!ndrVars, Routing!schedVars,
       Simple!schedVars, Routing!freeVars, Simple!freeVars
  <2>3. QED
    BY <2>1, <2>2
<1>4. QED
  BY <1>1, <1>3, SystemIsIslands, PTL DEF Routing!Spec, Simple!Spec

\* In the whole system a scheduler's timer runs exactly while it has WGRs, the
\* free list holds exactly the idle schedulers, no assertion fails, no NDRange
\* is used after it deleted itself, and an event completes only when all work
\* groups of its NDRange were executed.
THEOREM SystemRunsTheIslands ==
    RTSpec => []/\ Simple!TimerIffBusy /\ Simple!FreeIffIdle
                /\ Simple!NoFailure /\ Simple!CompleteMeansAllDone
<1>1. Simple!Spec => []Simple!TimerIffBusy
  BY SimpleAssumptions, Simple!TimersFollowWork, PTL
<1>2. Simple!Spec => []Simple!FreeIffIdle
  BY SimpleAssumptions, Simple!FreeListIsRight, PTL
<1>3. Simple!Spec => []Simple!NoFailure
  BY SimpleAssumptions, Simple!NothingFails, PTL
<1>4. Simple!Spec => []Simple!CompleteMeansAllDone
  BY SimpleAssumptions, Simple!CompletionIsHonest, PTL
<1>5. QED
  BY <1>1, <1>2, <1>3, <1>4, SystemIsSimple, PTL

\* A timer callback that is due, while the queue's callback is not in progress,
\* meets a WGR whose command, if it is one of this queue, may finish: it was
\* started, it is an NDRange command, and its event is not complete. So it is
\* never the queue that keeps Runtime's on_timer from being taken.
NoTimerHeldUp ==
    \A i \in 1 .. N : timer[i] = "FIRED" =>
        LET c == Head(m_in_queue[i]).parent IN
        c \in Cmds => /\ type[c] = "NDRANGE" /\ ~Complete(c)
                      /\ \E k \in 1 .. Len(started) : started[k] = c

\* Every timer callback that is due can be made (Scheduler::on_timer and
\* NDRange::decrement_wgrs_counter complete the event of a running command).
THEOREM TimersAreServed == RTSpec => []NoTimerHeldUp
<1>1. Simple!Inv /\ InductiveInv /\ IslandsFollowQueue => NoTimerHeldUp
  <2> SUFFICES ASSUME Simple!Inv, InductiveInv, IslandsFollowQueue,
                      NEW i \in 1 .. N, timer[i] = "FIRED",
                      Head(m_in_queue[i]).parent \in Cmds
               PROVE  LET c == Head(m_in_queue[i]).parent IN
                      /\ type[c] = "NDRANGE" /\ ~Complete(c)
                      /\ \E k \in 1 .. Len(started) : started[k] = c
    BY DEF NoTimerHeldUp
  <2> DEFINE w == Head(m_in_queue[i])
             c == w.parent
  <2>1. /\ i \in Simple!Island
        /\ m_in_queue[i] \in Seq(Simple!Wgr)
        /\ m_in_queue[i] # <<>>
    BY DEF Simple!Inv, Simple!SchedInv, Simple!SchedTypes,
           Simple!TimerIffBusy, Simple!Island
  <2>2. <<i, w>> \in Simple!Out
    <3>1. w \in Simple!Wgr /\ w = m_in_queue[i][1] /\ 1 \in 1 .. Len(m_in_queue[i])
      BY <2>1
    <3>2. QED
      BY <2>1, <3>1, Zenon DEF Simple!Out
  <2>3. ndr_state[c] = "LIVE"
    BY <2>2 DEF Simple!Inv, Simple!GroupsInv, Simple!OutIsSound
  <2>4. c = m_last_event /\ type[c] = "NDRANGE" /\ ~Complete(c)
    BY <2>3 DEF IslandsFollowQueue
  <2>5. \E k \in 1 .. Len(started) : started[k] = c
    <3>1. started \in Seq(Cmds) /\ c # None
      BY BoundsAssumption DEF InductiveInv, TypeOK, Cmds, None
    <3>2. started # <<>> /\ c = started[Len(started)]
      BY <2>4, <3>1 DEF InductiveInv, Bookkeeping
    <3>3. QED
      BY <3>1, <3>2
  <2>6. QED
    BY <2>4, <2>5
<1>2. RTSpec => []Simple!Inv
  <2>1. Simple!Spec => []Simple!Inv
    BY SimpleAssumptions, Simple!Invariance, PTL
  <2>2. QED
    BY <2>1, SystemIsSimple, PTL
<1>3. RTSpec => []InductiveInv
  BY SystemIsQueue, Invariance, PTL
<1>4. QED
  BY <1>1, <1>2, <1>3, IslandsInvariance, PTL
\* In the whole system every work group that was carved is executed exactly
\* once, and the counters in the wild count the WGRs that schedulers hold, while
\* there are no more NDRanges than a scheduler's queue has slots.
THEOREM SystemExecutesGroupsOnce ==
    ASSUME IsFiniteSet(NDRanges), Cardinality(NDRanges) <= QueueCapacity
    PROVE  RTSpec => [](Simple!NoGroupLostOrRepeated /\ Simple!WildCountsQueued)
<1>1. Simple!IsFiniteSet(NDRanges)
  BY DEF IsFiniteSet, Simple!IsFiniteSet
<1>2. Simple!Cardinality(NDRanges) <= QueueCapacity
  <2>1. Cardinality(NDRanges) = Simple!Cardinality(NDRanges)
    BY DEF Cardinality, Simple!Cardinality
  <2>2. QED
    BY <2>1
<1>3. Simple!Spec => []Simple!NoGroupLostOrRepeated
  BY <1>1, <1>2, SimpleAssumptions, Simple!EveryGroupExecutedOnce, PTL
<1>4. Simple!Spec => []Simple!WildCountsQueued
  BY <1>1, <1>2, SimpleAssumptions, Simple!WildCountIsRight, PTL
<1>5. QED
  BY <1>3, <1>4, SystemIsSimple, PTL
=============================================================================
