------------------------------ MODULE Objects -------------------------------
(***************************************************************************)
(* The reference counters of the OpenCL objects (struct ref_counter of      *)
(* il/ocl_ds.h): who counts a memory object, a kernel or an event up and    *)
(* down, in which thread and in which order.                                *)
(*                                                                          *)
(* m_counter is a plain uint32_t, so ++m_counter and --m_counter are a load *)
(* and a store, and two threads may interleave between them; the test for   *)
(* zero of ref_cnt_down is made on the value in the register. A thread is   *)
(* in the middle of a call when its list todo of what the call has still to *)
(* do is not empty. The command queue is reduced to what matters to the     *)
(* references it holds: a ring from which the loop takes the next command   *)
(* when the event of the last one is complete, which drops a command when   *)
(* it is full, and which the loop deletes with all it holds after its       *)
(* release. When the loop calls the queue's callback is CmdQueue's subject; *)
(* here it may do so at any time.                                           *)
(***************************************************************************)
EXTENDS Integers, Sequences, FiniteSets, TLC, Functions

CONSTANTS Threads,  \* application threads
          Loop,     \* the event-loop thread
          mem, kernel, program,  \* the application's memory object, ...
          Capacity, \* of the queue's ring (100 in the code)
          MaxCmds,  \* bound: how many commands are issued in all
          Types     \* the kinds of command issued

CommandTypes == {"WRITE_BUFFER", "READ_BUFFER", "NDRANGE", "EMPTY"}

ASSUME ThreadsAssumption == Loop \notin Threads
ASSUME HandlesAssumption == /\ Cardinality({mem, kernel, program}) = 3
                            /\ {mem, kernel, program} \cap Nat = {}
ASSUME BoundAssumption   == MaxCmds \in Nat /\ Capacity \in Nat \ {0}
ASSUME TypesAssumption   == Types \subseteq CommandTypes

Cmds    == 1 .. MaxCmds      \* a command, and the event it creates
Handles == {mem, kernel, program}
Counted == Cmds \cup Handles

\* The holders of references: the application, a call in progress, the queue's
\* m_last_event, the user an event was handed to, a command and an NDRange.
App  == <<"app", 0>>
Call == <<"call", 0>>
Last == <<"last", 0>>
User == <<"user", 0>>
Nobody == <<"nobody", 0>>
OfCmd(c)     == <<"cmd", c>>
OfNDRange(c) == <<"ndrange", c>>

Actors  == Threads \cup {Loop}
None    == 0

VARIABLES
    issued,       \* how many commands were created
    type,         \* m_command_type of each
    m_counter,    \* the reference counter of each object
    alive,        \* not deleted
    todo,         \* what each thread has still to do in its current call
    reg,          \* the value a thread has loaded from a counter, or -1
    held,         \* the handles the application has not released
    queue,        \* the commands in the ring, which are not popped
    released,     \* the queue was released
    closing,      \* how far the callback is with its self-destruction
    deleted,      \* the queue deleted itself
    m_last_event,
    running,      \* NDRanges on the islands
    complete,     \* events in state CL_COMPLETE
    lost,         \* history: commands refused, dropped, or deleted with the queue
    refs,         \* history: the references to an object not given up
    overlapped,   \* history: objects two threads updated at the same time
    bad           \* history: objects accessed after their deletion

vars == <<issued, type, m_counter, alive, todo, reg, held, queue, released,
          closing, deleted, m_last_event, running, complete, lost, refs,
          overlapped, bad>>

counters == <<m_counter, alive, reg, refs, overlapped>>
ring     == <<queue, closing, deleted, lost>>

Init == /\ issued = 0
        /\ type = [c \in Cmds |-> "EMPTY"]
        /\ m_counter = [o \in Counted |-> IF o \in Handles THEN 1 ELSE 0]
        /\ alive = [o \in Counted |-> o \in Handles]
        /\ todo = [t \in Actors |-> <<>>]
        /\ reg = [t \in Actors |-> -1]
        /\ held = Handles
        /\ queue = <<>> /\ released = FALSE
        /\ closing = "no" /\ deleted = FALSE /\ lost = {}
        /\ m_last_event = None
        /\ running = {} /\ complete = {}
        /\ refs = [o \in Counted |-> IF o \in Handles THEN {App} ELSE {}]
        /\ overlapped = {} /\ bad = {}

Op(name, o, who) == [op |-> name, obj |-> o, who |-> who]
Up(o, who)   == Op("up", o, who)
Down(o, who) == Op("down", o, who)
Use(o)       == Op("use", o, Nobody)

IsBuffer(c) == type[c] \in {"WRITE_BUFFER", "READ_BUFFER"}

-----------------------------------------------------------------------------
(* Calls of the application. *)

\* Mutant: the command does not count its memory object.
Mutant_MLCLCommand(c, ty) ==
    CASE ty \in {"WRITE_BUFFER", "READ_BUFFER"} -> <<>>
      [] ty = "NDRANGE" -> <<Up(kernel, OfCmd(c))>>
      [] ty = "EMPTY"   -> <<>>

\* The constructors of the commands: a buffer command counts its memory
\* object, an NDRange command its kernel; neither counts anything else.
MLCLCommand(c, ty) ==
    CASE ty \in {"WRITE_BUFFER", "READ_BUFFER"} -> <<Up(mem, OfCmd(c))>>
      [] ty = "NDRANGE" -> <<Up(kernel, OfCmd(c))>>
      [] ty = "EMPTY"   -> <<>>

\* The handle a call of this kind is given.
Handle(ty) == CASE ty \in {"WRITE_BUFFER", "READ_BUFFER"} -> {mem}
                [] ty = "NDRANGE" -> {kernel, program}
                [] ty = "EMPTY"   -> {}

\* clEnqueueWriteBuffer, clEnqueueReadBuffer, clFinish: the command and its
\* event (counted once, by the command) are created, the call counts the event
\* for itself, and the command is submitted. clEnqueueNDRangeKernel reads the
\* program through the kernel first and takes no reference to the event.
Enqueue(t, ty, blocking, wants_event) ==
    LET c == issued + 1
        submit == [op |-> "submit", obj |-> c,
                   who |-> IF ty = "NDRANGE" THEN Nobody ELSE Call,
                   blocking |-> blocking, wants |-> wants_event]
    IN /\ todo[t] = <<>> /\ ~deleted
       /\ issued < MaxCmds
       /\ Handle(ty) \subseteq held
       /\ ty = "NDRANGE" => ~blocking /\ ~wants_event
       /\ ty = "EMPTY" => blocking /\ ~wants_event
       /\ issued' = c
       /\ type' = [type EXCEPT ![c] = ty]
       /\ m_counter' = [m_counter EXCEPT ![c] = 1]
       /\ alive' = [alive EXCEPT ![c] = TRUE]
       /\ refs' = [refs EXCEPT ![c] = {OfCmd(c)}]
       /\ todo' = [todo EXCEPT ![t] =
              IF ty = "NDRANGE"
              THEN <<Use(program)>> \o MLCLCommand(c, ty) \o <<submit>>
              ELSE MLCLCommand(c, ty) \o <<Up(c, Call), submit>>]
       /\ UNCHANGED <<reg, held, ring, released, m_last_event, running,
                      complete, overlapped, bad>>

\* The application gives up a handle (clReleaseMemObject, clReleaseKernel,
\* clReleaseProgram). It does not do so while another of its threads is in a
\* call that was given the handle.
Release(t, o) ==
    /\ todo[t] = <<>>
    /\ o \in held
    /\ \A u \in Threads : \A i \in 1 .. Len(todo[u]) : todo[u][i].obj # o
    /\ held' = held \ {o}
    /\ todo' = [todo EXCEPT ![t] = <<Down(o, App)>>]
    /\ UNCHANGED <<issued, type, counters, ring, released, m_last_event,
                   running, complete, bad>>

\* clReleaseCommandQueue: later submissions are refused.
ReleaseQueue(t) ==
    /\ todo[t] = <<>>
    /\ ~released
    /\ released' = TRUE
    /\ UNCHANGED <<issued, type, counters, todo, held, ring, m_last_event,
                   running, complete, bad>>

-----------------------------------------------------------------------------
(* One step of a call, in any thread. *)

Now(t)  == Head(todo[t])
Rest(t) == [todo EXCEPT ![t] = Tail(@)]
Doing(t, names) == todo[t] # <<>> /\ Now(t).op \in names

\* Another thread is between its load and its store of the same counter.
Overlap(t, o) == \E u \in Actors \ {t} : reg[u] # -1 /\ Now(u).obj = o

\* The load. On a deleted object it is an access to freed memory, and what
\* would follow is not modelled.
LoadCounter(t) ==
    /\ Doing(t, {"up", "down"})
    /\ reg[t] = -1
    /\ LET o == Now(t).obj IN
       IF alive[o]
       THEN /\ reg' = [reg EXCEPT ![t] = m_counter[o]]
            /\ overlapped' = IF Overlap(t, o) THEN overlapped \cup {o}
                                              ELSE overlapped
            /\ UNCHANGED <<todo, bad>>
       ELSE /\ bad' = bad \cup {o}
            /\ todo' = Rest(t)
            /\ UNCHANGED <<reg, overlapped>>
    /\ UNCHANGED <<issued, type, m_counter, alive, held, ring, released,
                   m_last_event, running, complete, refs>>

\* The store of ref_cnt_up.
ref_cnt_up(t) ==
    /\ Doing(t, {"up"})
    /\ reg[t] # -1
    /\ LET o == Now(t).obj IN
       /\ m_counter' = [m_counter EXCEPT ![o] = reg[t] + 1]
       /\ refs' = [refs EXCEPT ![o] = @ \cup {Now(t).who}]
    /\ reg' = [reg EXCEPT ![t] = -1]
    /\ todo' = Rest(t)
    /\ UNCHANGED <<issued, type, alive, held, ring, released, m_last_event,
                   running, complete, overlapped, bad>>

\* The store of ref_cnt_down, and the deletion if the new value is zero.
ref_cnt_down(t) ==
    /\ Doing(t, {"down"})
    /\ reg[t] # -1
    /\ LET o   == Now(t).obj
           cnt == IF reg[t] > 0 THEN reg[t] - 1 ELSE reg[t]
       IN /\ m_counter' = [m_counter EXCEPT ![o] = cnt]
          /\ alive' = [alive EXCEPT ![o] = @ /\ cnt # 0]
          /\ refs' = [refs EXCEPT ![o] = @ \ {Now(t).who}]
    /\ reg' = [reg EXCEPT ![t] = -1]
    /\ todo' = Rest(t)
    /\ UNCHANGED <<issued, type, held, ring, released, m_last_event,
                   running, complete, overlapped, bad>>

\* Any other access to an object.
UseObject(t) ==
    /\ Doing(t, {"use"})
    /\ bad' = IF alive[Now(t).obj] THEN bad ELSE bad \cup {Now(t).obj}
    /\ todo' = Rest(t)
    /\ UNCHANGED <<issued, type, counters, held, ring, released,
                   m_last_event, running, complete>>

\* handle_blocking_non_blocking: wait for the event if the call is blocking,
\* then hand the event to the user or give up the call's reference to it.
AfterSubmit(c, s) ==
    (IF s.blocking THEN <<Op("wait", c, Nobody)>> ELSE <<>>)
      \o <<IF s.wants THEN Op("hand", c, Call) ELSE Down(c, Call)>>

\* ml_submit_cmd. A refused command stays as it is: nobody deletes it; nor does
\* anybody delete one that the full ring dropped, which is not refused. What the
\* caller is told of a command that is not refused may be taken for a refusal
\* (push_back has no return statement), and it then gives its reference up. (A
\* submission to a queue that is deleted is not followed: CmdQueue has it.)
Submit(t) ==
    /\ Doing(t, {"submit"})
    /\ ~deleted
    /\ LET s == Now(t)
           c == s.obj
           refusedPath == IF type[c] = "NDRANGE" THEN <<>>
                          ELSE <<Down(c, Call)>>
           acceptedPath == IF type[c] = "NDRANGE" THEN <<>>
                           ELSE AfterSubmit(c, s)
           stays == ~released /\ Len(queue) < Capacity
       IN /\ \E path \in IF released THEN {refusedPath}
                                      ELSE {refusedPath, acceptedPath} :
                todo' = [todo EXCEPT ![t] = path]
          /\ queue' = IF stays THEN Append(queue, c) ELSE queue
          /\ lost' = IF stays THEN lost ELSE lost \cup {c}
    /\ UNCHANGED <<issued, type, counters, held, released, closing, deleted,
                   m_last_event, running, complete, bad>>

\* wait_until_complete returns.
wait_until_complete(t) ==
    /\ Doing(t, {"wait"})
    /\ Now(t).obj \in complete
    /\ bad' = IF alive[Now(t).obj] THEN bad ELSE bad \cup {Now(t).obj}
    /\ todo' = Rest(t)
    /\ UNCHANGED <<issued, type, counters, held, ring, released,
                   m_last_event, running, complete>>

\* *user_event = cmd_event: the call's reference becomes the user's.
HandToUser(t) ==
    /\ Doing(t, {"hand"})
    /\ refs' = [refs EXCEPT ![Now(t).obj] = (@ \ {Call}) \cup {User}]
    /\ todo' = Rest(t)
    /\ UNCHANGED <<issued, type, m_counter, alive, reg, overlapped, held,
                   ring, released, m_last_event, running, complete, bad>>

-----------------------------------------------------------------------------
(* The event loop. *)

\* Mutant: the new last event is not counted.
Mutant_set_last_event(c) ==
    IF m_last_event = None THEN <<>> ELSE <<Down(m_last_event, Last)>>

\* set_last_event: the previous event is counted down, the new one up.
set_last_event(c) ==
    (IF m_last_event = None THEN <<>> ELSE <<Down(m_last_event, Last)>>)
      \o <<Up(c, Last)>>

\* handle_a_cmd. A buffer command uses its memory object and completes; an
\* NDRange command uses the program, and the NDRange made from it counts the
\* kernel and the event.
handle_a_cmd(c) ==
    CASE IsBuffer(c) -> <<Use(mem), Op("complete", c, Nobody)>>
      [] type[c] = "NDRANGE" -> <<Use(kernel), Use(program),
                                  Up(kernel, OfNDRange(c)),
                                  Up(c, OfNDRange(c)), Op("route", c, Nobody)>>
      [] type[c] = "EMPTY" -> <<>>

\* Mutant: the NDRange command forgets to count its kernel down.
Mutant_delete_cmd(c) ==
    (IF IsBuffer(c) THEN <<Down(mem, OfCmd(c))>> ELSE <<>>)
      \o <<Down(c, OfCmd(c))>>

\* delete cmd: the destructor of the derived class, then that of MLCLCommand.
delete_cmd(c) ==
    (CASE IsBuffer(c) -> <<Down(mem, OfCmd(c))>>
       [] type[c] = "NDRANGE" -> <<Down(kernel, OfCmd(c))>>
       [] type[c] = "EMPTY" -> <<>>)
      \o <<Down(c, OfCmd(c))>>

\* on_new_cmd_cb takes the next command when the last event is complete; when
\* there is none it looks whether the queue may go.
on_new_cmd_cb ==
    /\ todo[Loop] = <<>>
    /\ ~deleted
    /\ \/ /\ queue = <<>>
          /\ closing' = "check"
          /\ UNCHANGED <<todo, m_last_event, queue>>
       \/ /\ queue # <<>>
          /\ m_last_event \in complete \cup {None}
          /\ LET c == Head(queue) IN
             /\ todo' = [todo EXCEPT ![Loop] =
                            set_last_event(c) \o handle_a_cmd(c) \o delete_cmd(c)]
             /\ m_last_event' = c
          /\ queue' = Tail(queue)
          /\ closing' = "handle"
    /\ UNCHANGED <<issued, type, counters, held, released, deleted, lost, running,
                   complete, bad>>

\* The command is handled and not yet deleted: the callback is done if the ring is
\* not empty and the command complete, and otherwise looks whether the queue may go.
CommandHandled ==
    /\ closing = "handle"
    /\ todo[Loop] = delete_cmd(m_last_event)
    /\ closing' = IF queue # <<>> /\ m_last_event \in complete THEN "no" ELSE "check"
    /\ UNCHANGED <<issued, type, counters, todo, held, queue, released, deleted,
                   lost, m_last_event, running, complete, bad>>

\* The queue deletes itself once it is released, with the commands in its ring and
\* its reference to the last event. (That event may still be to come, and then
\* calls back into the queue: CmdQueue has it.)
check_self_destroy ==
    /\ closing = "check"
    /\ closing' = "no"
    /\ deleted' = released
    /\ queue' = IF released THEN <<>> ELSE queue
    /\ lost' = IF released THEN lost \cup Range(queue) ELSE lost
    /\ UNCHANGED <<issued, type, counters, todo, held, released, m_last_event,
                   running, complete, bad>>

\* The last work group of an NDRange ends: its name is read from the program,
\* the event completes and the NDRange deletes itself.
NDRangeFinishes(c) ==
    /\ todo[Loop] = <<>>
    /\ c \in running
    /\ running' = running \ {c}
    /\ todo' = [todo EXCEPT ![Loop] =
                   <<Use(program), Op("complete", c, Nobody),
                     Down(kernel, OfNDRange(c)), Down(c, OfNDRange(c))>>]
    /\ UNCHANGED <<issued, type, counters, held, ring, released,
                   m_last_event, complete, bad>>

\* set_as_complete, and the hand-over of an NDRange to the islands.
LoopEffect ==
    /\ Doing(Loop, {"complete", "route"})
    /\ LET c == Now(Loop).obj IN
       IF Now(Loop).op = "route"
       THEN /\ running' = running \cup {c}
            /\ UNCHANGED <<complete, bad>>
       ELSE /\ complete' = complete \cup {c}
            /\ bad' = IF alive[c] THEN bad ELSE bad \cup {c}
            /\ UNCHANGED running
    /\ todo' = Rest(Loop)
    /\ UNCHANGED <<issued, type, counters, held, ring, released,
                   m_last_event>>

CallStep(t) == \/ LoadCounter(t) \/ ref_cnt_up(t) \/ ref_cnt_down(t)
               \/ UseObject(t)

\* The callback is at its check, which comes before the rest of its list.
Checking == \/ closing = "check"
            \/ closing = "handle" /\ todo[Loop] = delete_cmd(m_last_event)

LoopStep == \/ CommandHandled \/ check_self_destroy
            \/ /\ ~Checking
               /\ \/ on_new_cmd_cb \/ LoopEffect \/ CallStep(Loop)
                  \/ \E c \in Cmds : NDRangeFinishes(c)

ThreadStep(t) == \/ CallStep(t) \/ Submit(t) \/ wait_until_complete(t)
                 \/ HandToUser(t)

Next == \/ LoopStep
        \/ \E t \in Threads :
              \/ ThreadStep(t)
              \/ ReleaseQueue(t)
              \/ \E o \in Handles : Release(t, o)
              \/ \E ty \in Types, b, w \in BOOLEAN : Enqueue(t, ty, b, w)

Spec == Init /\ [][Next]_vars

-----------------------------------------------------------------------------
\* The application threads are interchangeable.
ThreadSymmetry == Permutations(Threads)

(* Properties. An object whose counter two threads updated at the same time *)
(* is excepted: LastEventAlive shows what may become of it.                  *)

Updating(o) == \E t \in Actors : reg[t] # -1 /\ Now(t).obj = o

\* The types of the counters and registers, and that an NDRange whose event is
\* complete is no longer on the islands.
TypeOK == /\ m_counter \in [Counted -> Nat]
          /\ reg \in [Actors -> Nat \cup {-1}]
          /\ running \cap complete = {}
          /\ m_last_event \in Cmds \cup {None}

\* The counter of an object is the number of references that were taken to it and
\* not given up, whoever took them, and it is alive while there are any: no
\* reference is given up twice, nor by somebody who did not take it. That includes
\* the references nobody is left to give up, of lost commands and of the last
\* event of a queue that is deleted.
CountsReferences ==
    TypeOK /\ \A o \in Counted \ overlapped :
        ~Updating(o) /\ (o \in Cmds => o <= issued)
            => /\ m_counter[o] = Cardinality(refs[o])
               /\ alive[o] <=> refs[o] # {}

\* An event, a memory object or a kernel is not accessed after it was deleted,
\* by the loop, by a waiting call or by a counter update. (The program is not
\* counted by its kernels, so the application may delete it under an NDRange.)
NoUseAfterDelete == bad \ {program} \subseteq overlapped

\* Nothing goes on: the loop has no NDRange to wait for and no command to take,
\* and the threads are idle, or wait in vain.
WaitsFor(t, c) == Doing(t, {"wait"}) /\ Now(t).obj = c
Quiet == /\ todo[Loop] = <<>> /\ running = {}
         /\ queue = <<>> \/ m_last_event \notin complete \cup {None}
         /\ \A t \in Threads : todo[t] = <<>> \/ Now(t).op = "wait"

\* The objects a command counts.
CountedBy(c) == {c} \cup (IF IsBuffer(c) THEN {mem} ELSE {})
                    \cup (IF type[c] = "NDRANGE" THEN {kernel} ELSE {})

\* What still refers to an object then: the commands that are lost or behind an
\* event that does not complete, m_last_event, of a deleted queue as well, and a
\* call that waits.
Left(o) == {OfCmd(c) : c \in {d \in lost \cup Range(queue) : o \in CountedBy(d)}}
           \cup (IF o = m_last_event THEN {Last} ELSE {})
           \cup (IF \E t \in Threads : WaitsFor(t, o) THEN {Call} ELSE {})

\* Which references leak, and that no others do: when all is quiet, exactly these
\* are left to an object, but for those of the application itself.
OnlyTheseLeak ==
    Quiet => \A o \in Counted \ overlapped : refs[o] \ {App, User} = Left(o)

\* What a command or the queue refers to exists. Without an exception: it is
\* refuted by an application thread counting the event of its call down while
\* the loop counts it up for m_last_event.
LastEventAlive ==
    m_last_event # None /\ todo[Loop] = <<>> => alive[m_last_event]

=============================================================================
