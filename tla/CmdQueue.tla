------------------------------ MODULE CmdQueue ------------------------------
(***************************************************************************)
(* One _cl_command_queue (cpp/cmd_q.cc) between the application threads     *)
(* that call the OpenCL entry points of il/ocl_api.cc and the event-loop    *)
(* thread that runs on_new_cmd_cb and the dispatcher.                       *)
(*                                                                          *)
(* A step is a critical section of m_mutex (or of an event's mutex) or the  *)
(* loop-thread code between two of them: on_new_cmd_cb takes m_mutex anew   *)
(* for is_empty, pop_front, is_empty and check_self_destroy, and the        *)
(* application threads run in between. Commands are numbered in the order   *)
(* of their push_back calls.                                                *)
(***************************************************************************)
EXTENDS Integers, Sequences, FiniteSets

CONSTANTS Threads,     \* application threads
          MaxCmds,     \* bound: how many commands they issue in all
          Capacity,    \* slots of m_ring_buffer (100 in the code)
          Types,       \* the kinds of command they issue
          CarefulClient \* TRUE: the queue is released once, by a client that
                        \* has seen all of its work finish, and not used again

CommandTypes == {"WRITE_BUFFER", "READ_BUFFER", "NDRANGE", "EMPTY"}

ASSUME ThreadsAssumption  == 0 \notin Threads
ASSUME BoundsAssumption   == MaxCmds \in Nat /\ Capacity \in Nat \ {0}
ASSUME TypesAssumption    == Types \subseteq CommandTypes
ASSUME CarefulAssumption  == CarefulClient \in BOOLEAN

Cmds == 1 .. MaxCmds
None == 0

VARIABLES
    issued,          \* how many commands were created
    type,            \* m_command_type of each
    event_state,     \* m_event_state of each command's event
    rc,              \* what the submitting call was told
    waiting,         \* the command a thread waits for in wait_until_complete
    m_ring_buffer,   \* the queue's ring buffer, as the sequence it holds
    m_ref_counter,
    m_last_event,    \* the command whose event m_last_event points to
    alive,           \* FALSE once the queue was deleted
    sent,            \* ev_async_send was called and the loop has not seen it
    pending,         \* the watcher is pending: its callback will be invoked
    loop_pc,         \* where the event-loop thread is
    bad_access,      \* how a deleted queue was accessed: a "call" of its
                     \* client, the "unlock" of its mutex, the "feed" of its
                     \* watcher
    accepted,        \* history: the commands m_ring_buffer took
    started,         \* history: the commands passed to handle_a_cmd
    orphan           \* history: the one that ran when the queue was deleted

clientVars == <<issued, type, rc, waiting>>
queueVars  == <<m_ring_buffer, m_ref_counter, m_last_event, alive>>
loopVars   == <<sent, pending, loop_pc>>
history    == <<accepted, started, orphan>>
vars == <<clientVars, queueVars, loopVars, history, event_state, bad_access>>

\* The constructor: an empty ring, one reference, an idle watcher.
Init == /\ issued = 0
        /\ type = [c \in Cmds |-> "EMPTY"]
        /\ event_state = [c \in Cmds |-> "NONE"]
        /\ rc = [c \in Cmds |-> "NONE"]
        /\ waiting = [t \in Threads |-> None]
        /\ m_ring_buffer = <<>>
        /\ m_ref_counter = 1
        /\ m_last_event = None
        /\ alive = TRUE
        /\ sent = FALSE /\ pending = FALSE
        /\ loop_pc = "idle"
        /\ bad_access = {}
        /\ accepted = <<>> /\ started = <<>> /\ orphan = None

Complete(c) == event_state[c] = "COMPLETE"

\* Mutant: the state of the last event is not looked at.
Mutant_LastRuns == m_last_event # None /\ m_last_event = None

\* The last event is set and not complete.
LastRuns == m_last_event # None /\ ~Complete(m_last_event)

-----------------------------------------------------------------------------
(* Application threads. *)

\* Mutant: the watcher is not signalled.
Mutant_push_back(c) ==
    /\ rc' = [rc EXCEPT ![c] = "SUCCESS"]
    /\ m_ring_buffer' = Append(m_ring_buffer, c)
    /\ accepted' = Append(accepted, c)
    /\ UNCHANGED sent

\* The critical section of push_back for a new command c. A released queue
\* takes no command. Otherwise the ring's own return code is ignored, so a
\* full ring drops the command; the watcher is signalled either way; and the
\* function ends without a return statement, so what its caller reads may be
\* taken for any code, ML_ERROR_CMDQ_RELEASED included.
push_back(c) ==
    \/ /\ m_ref_counter < 1
       /\ rc' = [rc EXCEPT ![c] = "RELEASED"]
       /\ UNCHANGED <<m_ring_buffer, accepted, sent>>
    \/ /\ m_ref_counter >= 1
       /\ \E code \in {"SUCCESS", "RELEASED"} : rc' = [rc EXCEPT ![c] = code]
       /\ IF Len(m_ring_buffer) < Capacity
          THEN /\ m_ring_buffer' = Append(m_ring_buffer, c)
               /\ accepted' = Append(accepted, c)
          ELSE UNCHANGED <<m_ring_buffer, accepted>>
       /\ sent' = TRUE

\* clEnqueueWriteBuffer, clEnqueueReadBuffer, clEnqueueNDRangeKernel and
\* clFinish: create the command and its event, submit it, and, if the call is
\* blocking and the submission was not refused, wait for the event. An NDRange
\* is never blocking and clFinish (the EMPTY command) always is.
Enqueue(t, ty, blocking) ==
    /\ waiting[t] = None
    /\ issued < MaxCmds
    /\ ty = "NDRANGE" => ~blocking
    /\ ty = "EMPTY" => blocking
    /\ CarefulClient => m_ref_counter >= 1
    /\ alive
    /\ issued' = issued + 1
    /\ type' = [type EXCEPT ![issued + 1] = ty]
    /\ event_state' = [event_state EXCEPT ![issued + 1] = "QUEUED"]
    /\ push_back(issued + 1)
    /\ waiting' = [waiting EXCEPT ![t] =
                      IF blocking /\ rc'[issued + 1] = "SUCCESS"
                      THEN issued + 1 ELSE None]
    /\ UNCHANGED <<m_ref_counter, m_last_event, alive, pending, loop_pc,
                   started, orphan, bad_access>>

\* The same call, or one more release, on a queue that has deleted itself.
EnqueueOnDeleted(t) ==
    /\ waiting[t] = None
    /\ ~CarefulClient
    /\ ~alive
    /\ bad_access' = bad_access \cup {"call"}
    /\ UNCHANGED <<clientVars, queueVars, loopVars, history, event_state>>

\* wait_until_complete returns.
wait_until_complete(t) ==
    /\ waiting[t] # None
    /\ Complete(waiting[t])
    /\ waiting' = [waiting EXCEPT ![t] = None]
    /\ UNCHANGED <<issued, type, rc, queueVars, loopVars, history,
                   event_state, bad_access>>

\* A careful client releases the queue when what it had accepted has finished.
WorkIsOver == \A i \in 1 .. Len(accepted) : Complete(accepted[i])

\* clReleaseCommandQueue: the event loop is not told.
ref_cnt_down(t) ==
    /\ waiting[t] = None
    /\ m_ref_counter > 0
    /\ CarefulClient => WorkIsOver
    /\ m_ref_counter' = m_ref_counter - 1
    /\ UNCHANGED <<clientVars, m_ring_buffer, m_last_event, alive, loopVars,
                   history, event_state, bad_access>>

-----------------------------------------------------------------------------
(* The event-loop thread. *)

\* libev turns the asynchronous signal into a pending watcher.
AsyncArrives ==
    /\ loop_pc = "idle"
    /\ sent
    /\ sent' = FALSE
    /\ pending' = TRUE
    /\ UNCHANGED <<clientVars, queueVars, loop_pc, history, event_state,
                   bad_access>>

\* libev clears the pending mark and calls on_new_cmd_cb, whose first critical
\* section is is_empty (1).
on_new_cmd_cb ==
    /\ loop_pc = "idle"
    /\ pending
    /\ pending' = FALSE
    /\ loop_pc' = IF m_ring_buffer = <<>> THEN "check_self_destroy"
                                          ELSE "pop_front"
    /\ UNCHANGED <<clientVars, queueVars, sent, history, event_state,
                   bad_access>>

\* (2) If the last command is still running its event will feed the watcher.
LastStillRunning ==
    /\ loop_pc = "pop_front"
    /\ LastRuns
    /\ loop_pc' = "idle"
    /\ UNCHANGED <<clientVars, queueVars, sent, pending, history,
                   event_state, bad_access>>

\* Mutant: the newest command is popped.
Mutant_pop_front ==
    /\ loop_pc = "pop_front"
    /\ ~LastRuns
    /\ m_last_event' = m_ring_buffer[Len(m_ring_buffer)]
    /\ m_ring_buffer' = SubSeq(m_ring_buffer, 1, Len(m_ring_buffer) - 1)
    /\ started' = Append(started, m_ring_buffer[Len(m_ring_buffer)])
    /\ loop_pc' = "handle_a_cmd"
    /\ UNCHANGED <<clientVars, m_ref_counter, alive, sent, pending, accepted,
                   orphan, event_state, bad_access>>

\* (3) Otherwise pop the next command and make its event the last event.
pop_front ==
    /\ loop_pc = "pop_front"
    /\ ~LastRuns
    /\ m_last_event' = Head(m_ring_buffer)
    /\ m_ring_buffer' = Tail(m_ring_buffer)
    /\ started' = Append(started, Head(m_ring_buffer))
    /\ loop_pc' = "handle_a_cmd"
    /\ UNCHANGED <<clientVars, m_ref_counter, alive, sent, pending, accepted,
                   orphan, event_state, bad_access>>

\* Mutant: the completion callback is not called.
Mutant_set_as_complete(c) ==
    /\ event_state' = [event_state EXCEPT ![c] = "COMPLETE"]
    /\ UNCHANGED <<pending, bad_access>>

\* set_as_complete: the state changes and on_event_complete feeds the watcher
\* of the command's queue, under the event's mutex.
set_as_complete(c) ==
    /\ event_state' = [event_state EXCEPT ![c] = "COMPLETE"]
    /\ \/ alive /\ pending' = TRUE /\ UNCHANGED bad_access
       \/ ~alive /\ bad_access' = bad_access \cup {"feed"} /\ UNCHANGED pending

\* (4) The dispatcher completes a buffer command on the spot; an NDRange goes
\* to the schedulers and an EMPTY command nowhere.
handle_a_cmd ==
    /\ loop_pc = "handle_a_cmd"
    /\ IF type[m_last_event] \in {"WRITE_BUFFER", "READ_BUFFER"}
       THEN set_as_complete(m_last_event)
       ELSE UNCHANGED <<event_state, pending, bad_access>>
    /\ loop_pc' = "is_empty"
    /\ UNCHANGED <<clientVars, queueVars, sent, history>>

\* (5) More to do and nothing to wait for: feed the watcher; else see whether
\* the queue was released.
FeedOrCheck ==
    /\ loop_pc = "is_empty"
    /\ \/ /\ m_ring_buffer # <<>> /\ Complete(m_last_event)
          /\ pending' = TRUE
          /\ loop_pc' = "idle"
       \/ /\ ~(m_ring_buffer # <<>> /\ Complete(m_last_event))
          /\ loop_pc' = "check_self_destroy"
          /\ UNCHANGED pending
    /\ UNCHANGED <<clientVars, queueVars, sent, history, event_state,
                   bad_access>>

\* Mutant: the watcher is not stopped.
Mutant_check_self_destroy ==
    /\ loop_pc = "check_self_destroy"
    /\ loop_pc' = "idle"
    /\ IF m_ref_counter < 1
       THEN /\ alive' = FALSE
            /\ m_ring_buffer' = <<>>
            /\ orphan' = IF LastRuns THEN m_last_event ELSE None
            /\ bad_access' = bad_access \cup {"unlock"}
       ELSE UNCHANGED <<alive, m_ring_buffer, orphan, bad_access>>
    /\ UNCHANGED <<clientVars, m_ref_counter, m_last_event, accepted, started,
                   sent, pending, event_state>>

\* delete this: the watcher is stopped, the ring buffer and what it holds go.
\* The lock_guard of check_self_destroy is still in scope and unlocks m_mutex
\* afterwards, in the queue's freed memory.
check_self_destroy ==
    /\ loop_pc = "check_self_destroy"
    /\ loop_pc' = "idle"
    /\ IF m_ref_counter < 1
       THEN /\ alive' = FALSE
            /\ m_ring_buffer' = <<>>
            /\ sent' = FALSE /\ pending' = FALSE
            /\ orphan' = IF LastRuns THEN m_last_event ELSE None
            /\ bad_access' = bad_access \cup {"unlock"}
       ELSE UNCHANGED <<alive, m_ring_buffer, sent, pending, orphan, bad_access>>
    /\ UNCHANGED <<clientVars, m_ref_counter, m_last_event, accepted, started,
                   event_state>>

\* The last work-group range of a running NDRange reports back, from a timer
\* callback of the same thread (module Islands).
NDRangeFinishes(c) ==
    /\ loop_pc = "idle"
    /\ type[c] = "NDRANGE"
    /\ \E i \in 1 .. Len(started) : started[i] = c
    /\ ~Complete(c)
    /\ set_as_complete(c)
    /\ UNCHANGED <<clientVars, queueVars, sent, loop_pc, history>>

-----------------------------------------------------------------------------
Client(t) == \/ \E ty \in Types, blocking \in BOOLEAN : Enqueue(t, ty, blocking)
             \/ EnqueueOnDeleted(t)
             \/ wait_until_complete(t)
             \/ ref_cnt_down(t)

EventLoop == \/ AsyncArrives
             \/ on_new_cmd_cb
             \/ LastStillRunning
             \/ pop_front
             \/ handle_a_cmd
             \/ FeedOrCheck
             \/ check_self_destroy
             \/ \E c \in Cmds : NDRangeFinishes(c)

Next == (\E t \in Threads : Client(t)) \/ EventLoop

Spec == Init /\ [][Next]_vars

\* The loop thread keeps running what is ready: it never blocks, libev invokes
\* every pending watcher, and a started NDRange's timers expire. A thread woken
\* by notify_all returns. Nobody is obliged to enqueue or to release.
Fairness ==
    /\ WF_vars(AsyncArrives)
    /\ WF_vars(on_new_cmd_cb)
    /\ WF_vars(LastStillRunning \/ pop_front \/ handle_a_cmd \/ FeedOrCheck
               \/ check_self_destroy)
    /\ \A c \in Cmds : WF_vars(NDRangeFinishes(c))
    /\ \A t \in Threads : WF_vars(wait_until_complete(t))

FairSpec == Spec /\ Fairness
-----------------------------------------------------------------------------
(* Properties. *)

\* Type invariant.
TypeOK == /\ issued \in 0 .. MaxCmds
          /\ type \in [Cmds -> CommandTypes]
          /\ event_state \in [Cmds -> {"NONE", "QUEUED", "COMPLETE"}]
          /\ rc \in [Cmds -> {"NONE", "SUCCESS", "RELEASED"}]
          /\ waiting \in [Threads -> Cmds \cup {None}]
          /\ m_ring_buffer \in Seq(Cmds)
          /\ m_ref_counter \in 0 .. 1
          /\ m_last_event \in Cmds \cup {None}
          /\ alive \in BOOLEAN /\ sent \in BOOLEAN /\ pending \in BOOLEAN
          /\ loop_pc \in {"idle", "check_self_destroy", "pop_front",
                          "handle_a_cmd", "is_empty"}
          /\ bad_access \subseteq {"call", "unlock", "feed"}
          /\ accepted \in Seq(Cmds) /\ started \in Seq(Cmds)
          /\ orphan \in Cmds \cup {None}

\* Every command but the newest one handed to the dispatcher has finished: the
\* queue is in-order, a later command never overtakes a running NDRange.
OneAtATime == \A i \in 1 .. Len(started) - 1 : Complete(started[i])

\* What was taken and not yet dispatched is in the ring, in the order taken.
RingHoldsTheRest ==
    alive => /\ Len(accepted) = Len(started) + Len(m_ring_buffer)
             /\ \A i \in 1 .. Len(m_ring_buffer) :
                   m_ring_buffer[i] = accepted[Len(started) + i]

\* No wake-up is lost: whenever the loop is idle (or about to be) and a command
\* could be popped, the watcher is signalled or pending. push_back signals
\* while the callback runs, completion feeds before the callback looks again.
NoLostWakeup ==
    /\ alive
    /\ loop_pc \in {"idle", "check_self_destroy"}
    /\ m_ring_buffer # <<>>
    /\ ~LastRuns
    => sent \/ pending

\* Whatever its client does, this is all that reaches a queue that has deleted
\* itself (but for calls of the client): the unlock of its mutex, which always
\* does (cmd_q.cc:163-168), and, if an NDRange ran at that time, the completion
\* of this one, which feeds the watcher (cmd_q.cc:177). Everything else that was
\* started had finished; the watcher is stopped and no callback runs or is due.
AccessesAfterDelete ==
    /\ "unlock" \in bad_access <=> ~alive
    /\ "feed" \in bad_access <=> orphan # None /\ Complete(orphan)
    /\ "feed" \in bad_access => type[orphan] = "NDRANGE"
    /\ ~alive => /\ \A i \in 1 .. Len(started) :
                       Complete(started[i]) \/ started[i] = orphan
                 /\ loop_pc = "idle" /\ ~sent /\ ~pending

\* How the invariants above are tied together: what is started is a prefix of
\* what is accepted; command numbers grow along it, so a popped command is new
\* and only dispatched commands are complete; the callback runs on a live queue.
Bookkeeping ==
    /\ Len(started) <= Len(accepted)
    /\ \A i \in 1 .. Len(started) : started[i] = accepted[i]
    /\ \A i \in 1 .. Len(accepted) : accepted[i] <= issued
    /\ \A i, j \in 1 .. Len(accepted) : i < j => accepted[i] < accepted[j]
    /\ \A c \in Cmds :
          Complete(c) => \E i \in 1 .. Len(started) : started[i] = c
    /\ m_last_event = IF started = <<>> THEN None ELSE started[Len(started)]
    /\ loop_pc # "idle" => alive
    /\ loop_pc = "pop_front" => m_ring_buffer # <<>>
    /\ loop_pc = "handle_a_cmd" => LastRuns
    /\ loop_pc = "is_empty" => m_last_event # None

\* Only a released queue is deleted, and only then a command is left running.
OnlyReleasedDeleted == /\ ~alive => m_ref_counter = 0
                       /\ orphan # None => ~alive /\ orphan = m_last_event

\* The inductive invariant: with these conjuncts every step preserves all.
InductiveInv == /\ TypeOK
                /\ OneAtATime
                /\ RingHoldsTheRest
                /\ NoLostWakeup
                /\ Bookkeeping
                /\ OnlyReleasedDeleted
                /\ AccessesAfterDelete

Order == INSTANCE InOrderQueue WITH
            finished <- {c \in Cmds : Complete(c)}

\* The queue implements the in-order command queue, for any client.
ImplementsInOrderQueue == Order!OrderSpec

\* Command c was taken by the ring, and no EMPTY command, whose event nobody
\* completes, is ahead of it or c itself.
CanEnd(c) == \E i \in 1 .. Len(accepted) :
                /\ accepted[i] = c
                /\ \A j \in 1 .. i : type[accepted[j]] # "EMPTY"

\* A blocking call returns for any client, unless it waits for a command that a
\* full ring dropped (cmd_q.cc:99), for an EMPTY command or one behind it, or the
\* queue was deleted before.
BlockingCallReturns ==
    \A t \in Threads : \A c \in Cmds :
        waiting[t] = c /\ CanEnd(c) ~> waiting[t] # c \/ ~alive

\* Every command that was taken runs to its end.
AcceptedCmdFinishes ==
    \A c \in Cmds : (\E i \in 1 .. Len(accepted) : accepted[i] = c)
                      ~> Complete(c)

-----------------------------------------------------------------------------
(* What a comment says and the code does not do. *)

\* cmd_q.cc:156-158, "if counter is 0, do the following: stop accepting commands
\* in push_back; once the last command has been popped, delete itself": a queue
\* that deletes itself has passed on every command it took.
DestroyedOnlyWhenDrained == ~alive => started = accepted

\* ocl_api.cc:498, "issue a blocking command": clFinish blocks until the queue
\* has worked off what it holds, and then returns.
FinishReturns ==
    \A t \in Threads :
        waiting[t] # None /\ type[waiting[t]] = "EMPTY" ~> waiting[t] = None
=============================================================================
