# A TLA+ model of fpgaml

fpgaml is an OpenCL runtime for FPGA boards: an OpenCL interface layer
(`il/`) turns API calls into commands, and the FPGA management layer (`cpp/`)
executes them on one event-loop thread, splitting kernels over reconfigurable
islands. Buffers live in memory managed by a character device
(`unimem/driver_buffer/`). Bitstreams and the configuration are XML files, read
with a copy of pugixml that the repository carries (`aux-src/pugixml/`). These
modules model the parts of it that are hard to get right, TLC checks them on small
instances, and TLAPS proves the safety properties of the queue, the reference
counters, the islands, the composition of queue and islands, the driver's buffers,
the ring buffer and start-up for every size. Paths below are relative to `src/`.

    cd tla
    tlc -workers 2 -config CmdQueueAnyClient.cfg CmdQueue   # any run
    tlapm RuntimeProofs.tla                                 # any module of proofs

## 1. Inventory

| Component | State | Operations | Talks to |
|---|---|---|---|
| OpenCL entry points, `il/ocl_api.cc`, `il/ocl_ds.h` | objects with reference counters; events with a state, an error code, a condition variable, a callback | create/release, `clEnqueue*`, `clFinish`, `wait_until_complete`, `set_as_complete` | submits commands to a queue; waits for events; asks the checks of `Global` |
| Command queue, `cpp/cmd_q.cc` | ring of commands, reference counter, last event, libev async watcher, one mutex | `push_back`, `pop_front`, `ref_cnt_down`, `check_self_destroy`, callback `on_new_cmd_cb` | application threads on one side, dispatcher on the other; an event's completion feeds the watcher |
| Dispatcher, `cpp/dispatcher.cc` | the two algorithms | `handle_a_cmd` and one handler per kind of command | Unimem manager for buffers, AlgoSimple for kernels |
| Unimem manager and driver, `cpp/unimem_*`, `unimem/driver_buffer/` | file descriptor; in the kernel: the open flag, one reply slot, the buffers | allocate, read the reply, copy in, copy out, release | `read`/`write` on the device |
| NDRange, `cpp/ndrange.cc` | total size, next work group, ranges (WGRs) in the wild | `carve_wgs`, `decrement_wgrs_counter` | completes the event of its command and deletes itself |
| AlgoSimple, `cpp/algo_simple.cc` | vectors of costs, best result so far | `route_ndrange`: exhaustive search, then one WGR per island | trackers' costs, schedulers |
| AlgoSlicing, `cpp/algo_slicing.cc` | ring of waiting NDRanges | `route_ndrange`, `on_free_schedulers` | called by the free-schedulers timer |
| Schedulers, `cpp/scheduler_emu.cc`, `cpp/ev_timer.cc` | queue of WGRs, a one-shot timer | `submit_wgr`, `on_timer` | free-schedulers manager, NDRange |
| Free-schedulers manager, `cpp/free_sched_mgr.cc` | ids of idle schedulers, a timer that fires while there are any | `add_free_scheduler`, `remove_free_scheduler` | AlgoSlicing |
| Ring buffer, `cpp/circ_array.hpp` | slots, start, size, capacity | pushes, pops, `pop_at`, `operator[]`, resize, copy | used by the queue, the schedulers, the free list, AlgoSlicing |
| `Global`, `cpp/centrum.cc`; configuration, bitstream manager and checks, tracker | tables read at start-up | the construction, look-ups | everyone |
| XML library, `aux-src/pugixml/` | pages, strings, nodes and attributes of a document | load, change, walk, save, convert | configuration, bitstream manager, `clCreateProgramWithSource` |

Two kinds of thread exist: application threads in the OpenCL calls, and the
detached thread that runs `ev_run`. They share the command queues, the events and
the reference counters; everything behind the dispatcher runs on the loop thread
only. What is hard:

* the queue's callback takes the mutex anew for each question it asks, so
  pushes and releases happen between its questions; it returns without a
  re-arm when the last command is still running and relies on that command's
  event to wake it;
* a queue deletes itself from its own callback while commands may be in its ring
  and events of running kernels may still point to its watcher;
* a command's event has up to five referrers in two threads, and counters are
  plain integers;
* a timer's expiry deactivates it before its callback runs, and other
  callbacks may submit work in between; the free-schedulers timer is started,
  stopped and re-armed from three places, one of them its own callback;
* work-group ranges of one NDRange finish in any order, and the last one
  completes the event and deletes the NDRange;
* a buffer write is up to four requests to a driver whose state survives the
  process, and each can fail;
* start-up reads a dozen files, goes on after some errors and throws on others,
  and is then tried again by the next call;
* an XML document is parsed in place, its nodes share texts with the buffer and
  with their copies, and its allocator counts the bytes of every page.

What makes each component correct: the queue is in-order, loses no wake-up and,
once deleted, is left alone; every counter equals the number of references, what
leaks is known, and nothing is used after its deletion; each work group is
executed exactly once and an event completes after
all of its work groups; timers run exactly when there is something to wait for;
AlgoSimple finds the best distribution; a round robin of slices starves
nobody; memory objects keep the data of the last successful write; the ring is
a bounded deque; what passes the checks of the entry points is known to the
tables; a document is an ordered tree. `PROJECT.json` lists the hazards line by
line.

## 2. Modules

| Module | Models | Extends |
|---|---|---|
| `BoundedDeque` | abstract: what a ring buffer promises | |
| `CircArray` | `circ_array.hpp`; implements `BoundedDeque` | |
| `CircArrayProofs` | theorems about `CircArray` | `CircArray` |
| `InOrderQueue` | abstract: an OpenCL in-order queue | |
| `CmdQueue` | `cmd_q.cc`, the enqueueing calls of `ocl_api.cc`, events; implements `InOrderQueue` | |
| `Objects` | the reference counters of `ocl_ds.h` and everyone who uses them | |
| `ObjectsProofs` | theorems about `Objects` | `Objects` |
| `Islands` | NDRanges, schedulers, timers, free list | |
| `SimpleRouting` | `Islands` with AlgoSimple as the dispatcher uses it | `Islands` |
| `SlicingRouting` | `Islands` with AlgoSlicing | `Islands` |
| `IslandsProofs` | lemmas about `Islands` that hold under both algorithms | `Islands` |
| `SimpleRoutingProofs`, `SlicingRoutingProofs` | theorems about each | `IslandsProofs` |
| `Runtime` | `CmdQueue` and `SimpleRouting` on one loop thread; implements `CmdQueue` | `CmdQueue` |
| `RuntimeProofs` | theorems about `CmdQueue`, then about `Runtime` | `Runtime`; instance of `SimpleRoutingProofs` |
| `AlgoSimple` | the search itself (recursive; TLC only) | |
| `Unimem` | write and read handlers, Unimem manager, driver | |
| `UnimemProofs` | theorems about `Unimem` | `Unimem` |
| `Startup` | construction of `Global`, and the checks of the entry points | |
| `StartupProofs` | theorems about `Startup` | `Startup` |
| `MCSequential` | one instance of the four parts that run alone, for TLC | `CircArray`, `AlgoSimple`, `Startup`, `Unimem` |
| `XmlText` | characters, encodings | |
| `XmlHeap` | allocator, strings, intrusive lists | `XmlText` |
| `XmlTree`, `XmlWalk` | the calls that change a document, and those that walk it | `XmlHeap` |
| `XmlParser`, `XmlWriter`, `XmlNumbers` | parsing, writing, integers as texts | `XmlTree`, `XmlWalk` |
| `XmlDocument` | a document between calls | the three above |
| `OrderedTree` | abstract: what a document promises | |
| `XmlReference`, `MCXmlDocument` | reference definitions and properties; the instance | `XmlDocument` |

State variables keep the names of the members they stand for; lower-case
actions are named after the function they model, capitalised ones are parts of
functions (one alternative of a callback, a failing branch) or library
behaviour. Definitions called `Mutant_...` are plausible faults of the code,
one per property, that the property must detect; the specifications do not use
them.

### CmdQueue

A step is one critical section of `m_mutex` (or of an event's mutex), or the
loop's code between two. `loop_pc` says where `on_new_cmd_cb` is:

    idle -> (is_empty) -> pop_front -> handle_a_cmd -> is_empty -> check_self_destroy -> idle

`sent` and `pending` are libev's two flags of an async watcher: signals coalesce
in `sent`, `AsyncArrives` turns it into `pending`, which is cleared before the
callback is called; `ev_feed_event` sets `pending` directly and stopping the
watcher clears both. `push_back` is modelled as it is written: the return code
of the ring is ignored, so a command for a full ring is dropped, the watcher is
signalled either way, and the missing `return` after an accepted command lets
the caller read any code. (A compiler may do worse with a missing return; the
model assumes the function returns.) An NDRange completes at some later time
(`NDRangeFinishes`), which `Runtime` justifies; an EMPTY command, which is
what `clFinish` issues, never does.

`check_self_destroy` deletes a released queue whatever its ring holds and even if
its last command runs. `bad_access` collects what happens to the freed memory: the
`lock_guard` of `check_self_destroy`, still in scope, unlocks the mutex ("unlock");
the NDRange that ran, kept in `orphan`, completes its event, which feeds the watcher
("feed"); clients may call ("call"). With `CarefulClient` the clients release the
queue once, when what they had accepted has finished, and do not use it again;
only `Runtime` uses that, because its liveness is about commands that are not
deleted with their queue.

`accepted` and `started` are history variables. The refinement mapping to
`InOrderQueue` takes them as they are and maps `finished` to the commands whose
event is complete.

### Runtime

The queue of `CmdQueue` and the islands of `SimpleRouting`, which other queues'
NDRanges use as well. `Dispatch` routes the NDRange of a command within the
queue's callback; `on_timer` of a scheduler completes the event of the NDRange
whose last range ended. Timers are served between two callbacks of the queue
only. `ImplementsCmdQueue` says that this is `CmdQueue` with all the fairness it
assumes: its step `NDRangeFinishes` is now what the timers bring about.

### Objects

The counters of events, the memory object and the kernel, for the same calls,
with `++m_counter` as a load and a store. A thread in the middle of a call has a
list `todo` of the call's remaining operations, each of which is one or two steps,
so that every interleaving of application threads and loop is explored. `refs`
is history: the references that were taken and not given up, those nobody is left
to give up included. The queue is its ring, `m_last_event` and its end: `Submit`
loses a command that is refused or that meets a full ring (`lost`), and the loop's
callback may find the queue released and delete it with what the ring holds
(`CommandHandled`, `check_self_destroy`). `overlapped` are the objects of which two
threads updated the counter at the same time, which the properties of the run
`objects` except; the run `objects_race` shows what becomes of such an object.

### Islands, SimpleRouting, SlicingRouting

All of this runs on the loop thread, so a callback is one step. A scheduler's
timer is OFF, ON, or FIRED (expired, the callback not yet called): a WGR
submitted to a scheduler whose timer has fired finds the timer inactive but the
queue occupied, the case the test in `submit_wgr` is about. Durations are left
out: a running timer may expire at any time. The manager's timer is a record
(`active`, `repeat`, `pending`), as `start_timer (0, 0)` on an active repeating
timer changes its repeat interval only. A WGR keeps in `size_x` what the code
keeps in `m_size_x`, which is its end, not its size (`ndrange.cc:156`).

`SimpleRouting` submits any split of an NDRange, not only the best one: which one
is best is the subject of `AlgoSimple`, where the search (with the vectors and
the minimum that live on between calls) is compared with a definition that looks
at all distributions. `SlicingRouting` models `on_free_schedulers` as five
alternatives: nothing to do; an NDRange that has deleted itself was popped, or one
that makes `select_best_scheduler` divide by 0 or read beyond the vector of
schedulers (the model stops at both); it fits no free island; or a slice is carved.
The free list holds ids and the algorithm takes them for indexes of the vector, so a
scheduler has an `m_id`, any of `Ids`, and `indexed` says which one is examined in its
place. With exchanged ids a slice goes to a busy scheduler, whose queue may be full;
`dropped` keeps such slices. `execution_cost` is what the code sets the island's timer
to: the end coordinate of the slice times the cost of a work group. The dispatcher
as committed calls AlgoSimple only (`dispatcher.cc:189`); the slicing model is of
the dispatcher with the other call put there.

### Unimem

The driver's handlers (`dev_open`, `dev_read`, `handle_write_C` and so on) are
operators on the driver's variables; the library's functions send a request and
see its return code. A step is a system call of the handler of the current
command; `pc` names the next one ("C", "read", "W", "D" are the driver's message
types, "set" is `set_unimem_ptr`). `ProcessEnds` may come at any point: the process
ended or died; its memory objects are gone and the driver keeps its buffers and a
reply nobody has read. A new buffer holds whatever the memory held. `lost` is
history: the buffers nothing points to any more, because a second write gave a
memory object another buffer (`set_unimem_ptr` does not release the first), because
the object was released (`_cl_mem` has no destructor), because `malloc` failed after
the reply was read, or because the process ended.

### Startup

The construction of `Global`, member by member in the order of `centrum.h`: every
read chooses its outcome, errors whose code is ignored leave the tables short,
exceptions leave no instance and `get_instance` starts again. The application
creates a program from a kernel source (the name of its bitstream is in the first
line), builds it and enqueues a kernel of it, which the checks let through or
not. The properties are about what the running library then asks of the tables. A
number that the configuration leaves out is read as 0, and none is checked but the
board; the ids are computed from them as unsigned numbers.

### XML

Every operator of `XmlHeap` and `XmlTree` is a function of pugixml: it takes the
heap and returns it as the function leaves it. Nodes and attributes are records
with the pointers of the structs (`first_child`, `next_sibling`,
`prev_sibling_c`, ...), strings have the page they were allocated in and their
`full_size`, or are at an offset of the document's buffer; the pages have their
busy and freed sizes. `xml_memory::allocate` fails beyond `MaxPages`. The parser
is a function of a record with the position, the cursor, the zero put in place of
the buffer's last character and that character (`endch`); the writer yields
pieces that go through `xml_buffered_writer`'s buffer. `XmlDocument` has one
action per family of calls; `call` is the last call with its answer. `OrderedTree`
is the refinement's abstract side: for every call it says what the tree is
afterwards, without memory, sharing or links, and when memory runs out that what
was made is a part of what was asked for.

`XmlReference` has independent definitions for the rest: a grammar on whole tokens
for the parser, what a saved document is when loaded again for the writer,
pre-order for the walks, positional sums for the numbers. Texts are sequences of
bytes, because the parser and the writer are about bytes; they are kept short.

### CircArray

One action per operation, with its return code or exception in `answer`; `call`
and `answer` are visible to `BoundedDeque`, so the refinement is about what
callers are told as well as about the contents. A slot of a fresh array holds
`Junk`. The bounds check of `operator[]` and `pop_at` is on `size_t` and wraps
for an empty array (`OutOfRange`); callers in the repository test for emptiness
first, which `IndexWhenEmpty = FALSE` states.

## 3. Runs

| Run | Instance | Shows |
|---|---|---|
| `cmdq_any_client` | 2 threads, 3 commands of all kinds, ring of 2, release and use at any time | in-order execution, no lost wake-up, the inductive invariant, what reaches a deleted queue; which blocking calls return, under fairness; refinement of `InOrderQueue` |
| `runtime` | 2 threads, 2 commands, a careful client; one NDRange of another queue; 2 islands, up to 2 work groups | NDRanges and commands agree; under fairness accepted commands finish; refinement of `CmdQueue` with its fairness |
| `objects` | 2 threads, 2 commands of three kinds (a read counts like a write), ring of 1, one memory object, kernel and program | counters equal the number of references, nothing is used after its deletion, and exactly which references leak |
| `simple_routing` | 3 NDRanges of 0-3 work groups, 2 islands, all splits | each work group executed once, completion after the last, timers and free list consistent, completion under fairness |
| `slicing` | 2 NDRanges of 0-3 work groups, 2 islands, costs 0, below, within and above the two quants, ids that are indexes, exchanged, or no indexes | timer and ring as they should be; every carved work group accounted for, also when an NDRange completes early; by how much a slice exceeds its quant; nobody starves |
| `sequential` | `MCSequential`: rings of capacity 0-4 and two values; or 3 islands, 0-3 work groups, any sequence of searches; or 2 bitstreams, the name of one a prefix of the other's, 3 kernel sources, up to 2 regions out of 7, 2 attempts; or 2 memory objects, 3 addresses, sizes 0-2, two data values | refinement of the bounded deque, no uninitialised slot handed out; the first distribution with the smallest makespan; what passes the checks is in the tables, the loaded files are a prefix of the listed ones, which ids are shared; pointers valid and private, last successful write visible, every buffer accounted for |
| `xml_document` | sequences of up to 2 tokens out of 11, alone and in an element, 4 sets of options, whole and cut; 6 encodings and 4 ways to load; 31 numerals; any 2 changes to 3 documents; 4 formats; pages of 5 nodes, memory for 2 more pages | the six properties of `XmlReference` |

The four parts of `sequential` share no state and run in one thread each; its
behaviours are theirs, one part moving and the other three where they start, so that
it checks each of them as a run of its own would.

The bounds are chosen for the cases to happen: three commands let one run, one
wait and one arrive, and a ring of two overflow; three NDRanges on two islands
make queues of length three, so that a WGR arrives at a running, a fired and an
idle scheduler; three work groups are carved in one, two or three parts, and no
work groups at all are included; costs 1, 3, 5 against quants 2 and 4 give two
work groups per quant, one in the larger quant, and none; the ids 0, 1 and 3 on two
islands can be the indexes, the indexes exchanged, or lead out of the vector, and a
scheduler's queue of two is filled by the slices of one NDRange. Three addresses for two
objects let a write meet a free, a recycled and no address. Two commands let an
event be counted down by its call while it is replaced as `m_last_event`, and a ring
of one is full with the second, or deleted with it. In
`runtime` the NDRanges of the queue have two work groups, which one island or both
execute, and the foreign one up to two, so that ranges of both mix in the
schedulers' queues; its ring does not overflow and its client is careful, the other
cases being those of `cmdq_any_client`. In `slicing` the ring `m_ndranges` is never full when an
NDRange arrives (a third NDRange makes the run too long), so `push_front`'s refusal
is not exercised there.

In `xml_document` a page holds five nodes and two further pages can be had, so
copying a tree, parsing and long texts run out of memory at every point; two
tokens in an element put every kind of node at the beginning, at the end and
beside every other kind; the writer's buffer has eight characters, so that every
long text is cut; integers have two bytes (`IntBytes`), the code's template being
the same for two, four and eight, because TLC counts to 2^31.

`CHECK_DEADLOCK FALSE` is used where the system may stop: all commands issued,
the queue deleted; in `SlicingRouting` after a deleted NDRange, an id out of range or
a cost of 0 was met; in `XmlDocument` after the last change.

Runs that find a disagreement between the code and what a comment says of it:

| Run | Comment | What the code does |
|---|---|---|
| `cmdq_finish` | "issue a blocking command" (`ocl_api.cc:498`) | nobody completes an EMPTY command's event: `clFinish` waits forever, and so does all that is queued behind it |
| `cmdq_destroy` | "once the last command has been popped, delete itself" (`cmd_q.cc:156-158`) | the callback that dispatched an NDRange, which is not complete, checks the counter without a look at the ring (`cmd_q.cc:58`): a queue released by then is deleted with the commands in it |
| `slicing_early` | "check if there are any more wgs left - if not, set the attached event to COMPLETE" (`ndrange.cc:191-192`) | the count of WGRs in the wild is 0 when a slice ends before the next is carved: the event completes and the NDRange is deleted with work groups left |
| `slicing_cost` | "ONLY if total cost is below m_min_quant*m_max_idle_threshold" (`algo_slicing.h:55`) | a WGR's size is its end coordinate (`ndrange.cc:156`), so a later slice is charged, and occupies its island, longer than its quant (`algo_slicing.cc:154`) |
| `objects_race` | "thread-safe class" (`cmd_q.h:14`) | counters are plain integers: the call's count down of the event races with the loop's count up for `m_last_event`, which may end up pointing to a deleted event |

### Observations without a run of their own

Queue and commands: the dropped command of a full ring is reported as success
(`cmd_q.cc:99`), its references leak and a blocking caller waits for ever; the missing
`return` (`cmd_q.cc:104`, also `scheduler_emu.cc:88`, where the code is ignored); each
self-destruction unlocks a mutex in freed memory (`cmd_q.cc:163-168`) and leaves the
last event with a reference nobody gives up; a queue released while an NDRange runs is
deleted, and the NDRange's event later feeds the watcher in freed memory
(`cmd_q.cc:177`); a release does not wake the loop, so an idle queue is never deleted
(`cmd_q.cc:152`) and each `clCreateBuffer` with a host pointer leaves its private queue
behind; an NDRange of no work groups never completes (`ndrange.cc:197`); kernel
arguments and programs are not counted by the objects that refer to them, and
`clSetKernelArg` leaks an argument it replaces. `AccessesAfterDelete`,
`BlockingCallReturns` and `OnlyTheseLeak` say exactly how far these go.

Islands: scheduler ids are used as indexes (`algo_slicing.cc:48-49`, `147`): those of
`default_config.xml` are 1 and 3, and the vector of two schedulers is read beyond its
end; if ids are exchanged, slices pile up in a busy scheduler's queue while the other is
idle, and those that a full queue drops keep their NDRange from ever completing; a
bitstream without a local cost has the cost 0 (`bitstream_manager.cc:328`), by which
AlgoSlicing divides (`algo_slicing.cc:70`); `if (cl_int rc = f (...) != CL_SUCCESS)`
passes on the error code 1 (`dispatcher.cc:64`, `116`); the result of `route_ndrange` is
ignored (`dispatcher.cc:189`); `m_end_time` is read before it is set, and compared in
seconds with durations in milliseconds (`scheduler_emu.cc:28-38`).

Start-up and entry points: `BitstreamCheck` is built from the list of files, the
other tables from those that loaded, so a program whose bitstream failed to load is
built (`ocl_api.cc:192`) and refused only when it is enqueued; a file name of
less than four characters is an exception, which the next call of `get_instance`
meets again; a region whose FPGA is left out has the id of FPGA 4 of the board before,
and numbers above 4 and 3 those of the next FPGA or board (`scheduler_common.cc:27`);
a file mapped whole that fills its last page has no terminating zero
for `load_string`; the wrapped bounds checks of an empty array (`circ_array.hpp:173`,
`314`).

pugixml: the text of a buffer that is parsed in place and ends in it loses its last
character; a document `x<` is accepted with `parse_fragment`, although the comment
at `pugixml.cc:3535` is about just that character; `<?xml ></xml><a/>?>` is accepted
as a declaration; the offset of an error may be one past the user's buffer; a buffer
it owns is lost when there is no memory to convert it; names are written without
escapes; tabs in attributes and returns in texts do not survive saving and loading;
a text at the top of a document gets a line break in front after a generated
declaration (`SavedComesBack` leaves such documents out). A moved-from document, and
the mark that the document's order has changed, are not carried over by `_move`
(`pugixml.cc:6984`), which the models leave out.

### Fairness

Weak fairness is assumed of what the loop thread does by itself: libev delivers
a signal that was sent, invokes pending callbacks, and timers expire; the
callback, which never blocks, goes on. A thread that `notify_all` woke returns
from its wait. In `CmdQueue` a started NDRange finishes: `Runtime` assumes fairness
of the timers instead and implements `CmdQueue` with this assumption. Nobody is
obliged to enqueue, release, or construct anything.

## 4. Proofs

What TLC shows of a small instance, TLAPS shows of every value of the constants: any
number of threads, commands, islands, NDRanges, work groups, memory objects, slots
and files. Each component's proofs are in a module of their own (those of the queue are
the first part of `RuntimeProofs`, which needs them), and each follows the same
argument: an inductive invariant that holds initially, is kept by each action (a lemma
for each) and implies the properties. The theorems use the named assumptions of the
modules, which the runs evaluate, and otherwise only the hypotheses given here.

| Module | Theorem | States, for every behaviour of the specification |
|---|---|---|
| `RuntimeProofs`, of `CmdQueue` | `Invariance`, `TypeCorrect` | the inductive invariant and its types |
| | `InOrderExecution` | `OneAtATime`: nothing starts while an earlier command runs |
| | `WakeupsAreKept` | `NoLostWakeup` |
| | `DeletedQueueAccesses` | `AccessesAfterDelete`: what reaches a deleted queue, whatever its clients do |
| | `Refinement` | `CmdQueue` implements `InOrderQueue` |
| `RuntimeProofs`, of `Runtime` | `SystemIsQueue`, `SystemIsIslands` | every behaviour of the composition is one of `CmdQueue`, and one of `SimpleRouting` |
| | `SystemDeletedQueueAccesses` | `AccessesAfterDelete` in the whole system |
| | `NDRangesMatchCommands` | `NDRangeFollowsCommand` |
| | `SystemRunsTheIslands` | `TimerIffBusy`, `FreeIffIdle`, `NoFailure` and `CompleteMeansAllDone` of the system's islands |
| | `SystemExecutesGroupsOnce` | `NoGroupLostOrRepeated` and `WildCountsQueued` of them, if there are at most `QueueCapacity` NDRanges |
| | `TimersAreServed` | `NoTimerHeldUp`: the queue never keeps a timer callback from running |
| `ObjectsProofs` | `ReferencesCounted` | `CountsReferences`: counters and references agree |
| | `NoAccessToDeleted` | `NoUseAfterDelete` |
| | `OnlyTheseReferencesLeak` | `OnlyTheseLeak`: the references left when all is quiet, no more and no fewer |
| `SimpleRoutingProofs` | `TimersFollowWork`, `FreeListIsRight` | `TimerIffBusy`, `FreeIffIdle` |
| | `NothingFails` | `NoFailure`: no assertion fails, no deleted NDRange is used |
| | `CompletionIsHonest` | `CompleteMeansAllDone` |
| | `WildCountIsRight`, `EveryGroupExecutedOnce` | `WildCountsQueued`, `NoGroupLostOrRepeated`, if there are at most `QueueCapacity` NDRanges |
| `SlicingRoutingProofs` | `FreeTimerFires` | `FreeTimerIffFree` |
| | `GroupsAreAccountedFor` | `GroupsAccountedFor`, for any ids and without a hypothesis on the NDRanges |
| | `RingIsRight`, `SliceTimeIsBounded` | `WaitsIffMoreWork`, `OverrunIsStart` |
| `UnimemProofs` | `PointersAreValid`, `ReadsSeeWrites`, `NoBufferForgotten` | `PointersValid`, `ReadsSeeLastWrite`, `BuffersAccountedFor` |
| `CircArrayProofs` | `ElementsWereStored`, `RingIsADeque` | `ContentsInitialised`; `CircArray` implements `BoundedDeque`; both if `IndexWhenEmpty = FALSE` |
| `StartupProofs` | `FilesLoadInOrder`, `IdsAreRegions`, `AcceptedIsInEveryTable` | `LoadedIsPrefix`, `IdsNameRegions`, `AcceptedIsKnown` |

The two kinds of hypothesis are facts about the code. `operator[]` and `pop_at` of an empty
array go wrong (`circ_array.hpp:173`), so `CircArray` is a deque only for callers that
test for emptiness, as those of the repository do. `submit_wgr` ignores that a
scheduler's queue is full (`scheduler_emu.cc:51`), and a WGR dropped there is lost and
its NDRange never completes; no scheduler holds two WGRs of one NDRange, so at most
100 NDRanges (each run to its end, or not yet routed) cannot fill a queue of 100.
AlgoSlicing submits to idle schedulers if ids are indexes; if not, its theorem says
which WGRs may be missing. What holds
even when WGRs are dropped (timers, free list, no use after deletion, no early
completion) is proved without it.

### Why the invariants are what they are

*Command queue.* `OneAtATime` is not inductive: a pop appends to `started`, and that
everything before it is complete follows from `~LastRuns` only if `m_last_event` is
the last element of `started`. That a popped command is not complete already needs
that complete commands are among the started ones and that numbers grow along
`accepted`; that what is popped is the next accepted command needs
`RingHoldsTheRest`. These facts are `Bookkeeping`. `NoLostWakeup` needs that the
callback always ends either with the watcher fed, or with a last event that is still
running. `AccessesAfterDelete` needs that a dispatched command is either complete or
the last event (`OneAtATime`), so that one NDRange at most outlives the queue, that
only it completes afterwards, and `OnlyReleasedDeleted`. The
proof has one step per action for each of the three groups (types, order, wake-ups
and release). `cmdq_any_client` checks `InductiveInv` as an invariant.

*Composition.* Each step of `Runtime` is a step of the queue or leaves it alone, and
likewise for the islands; so what is proved of either holds of the system.
`IslandsFollowQueue` ties them together: a live NDRange is that of `m_last_event`,
whose command is an NDRange command that has not completed, and an NDRange is deleted
exactly when it is that of a complete NDRange command. That a pop does not leave a
live NDRange behind is `~LastRuns`; that a new command has no NDRange yet needs that
the last command and all complete ones were issued, from the queue's invariant.
`Simple`, an instance of `SimpleRoutingProofs`, makes the theorems about the islands
theorems about the system, once the assumptions hold (`SimpleAssumptions`) and the
definitions of the two instances are seen to be the same. `NoTimerHeldUp` joins all three
invariants: the WGR at the head of a busy scheduler's queue belongs to a live NDRange, so
its command is `m_last_event`, which was started and is not complete, and the step
`NDRangeFinishes` of the queue, a conjunct of `Runtime`'s `on_timer`, is possible. Without
it the composition might hide a deadlock behind that conjunct.

*Reference counters.* `CountsReferences` says nothing of what the calls in progress
will do, and `NoUseAfterDelete` nothing of why an object is still there, so neither is
inductive. The invariant speaks of `Pending`, the operations left in all the lists
`todo`, each with its thread and the number of operations left when it is its turn;
taking the first one off a list leaves the others as they are. Its parts are:

* `Forms`: each operation is one that a call, a command or an NDRange consists of, with
  the ones that must follow it; `Unique`: no two take, or give up, one reference.
* `NotYet` and `Owned`: a reference to be taken is not there; one to be given up is there
  or is taken earlier in the same list. With `Counters` and `Registers` (what a thread has
  loaded is still the counter's value, and no other thread has loaded it) a store keeps
  the counter equal to the number of referrers, which is what `CountsReferences` is.
* `Guarded`: whoever will access an object gives up a reference to it later, is about to
  submit the command that has one, or was given a handle that the application holds
  (`HeldCounted`). So an object about to be accessed has a referrer and is alive.
* `Fresh`: a command in a call or in the queue has its own references, and neither the
  loop nor the islands know it yet. `Islands`, `Routes`, `Effects`: an NDRange has its two
  references from the time it is routed until it ends, and ends once.
* `LastCounted`, `LastOnly`: `Last` refers to `m_last_event` and to nothing else, but for
  the time between the two operations of `set_last_event`.
* `OneOutcome`: an event handed to the user is no longer the call's. `NotIssued`,
  `OwnReferrers`: only what may refer to an object does.
* `Accounted`: every reference has somebody who will give it up, but for those of a
  command in the ring or lost, and of `m_last_event`. `Everywhere`: a command is in a
  call, in the ring or lost, or was started, so that none is forgotten. `OncePerRing`:
  it is in the ring once, and not lost as well. `Waits`: a call that waits has only its
  event to give up. When nothing else is pending this is `OnlyTheseLeak`, in both
  directions: what leaks is nothing but `Left`, and all of `Left` does leak.

Everything about references excepts `overlapped`, as the properties do: once two threads
have updated a counter at the same time nothing is known of that object, as the run
`objects_race` shows, and the proof has to show that the other objects are not affected.
One thing is assumed of the application (`Release`): it does not release a handle while
another of its threads is in a call that was given it.
The longest lemmas are those about `Enqueue`, where a command with all its operations
appears, and `on_new_cmd_cb`, where it passes from the queue to the loop.

*Islands.* `SchedInv` is about timers and the free list: `FreeIffIdle` needs that
the list is free of repetitions for add_free_scheduler's assertion to hold, and
`FreeTimerIffFree` to know when the timer has to be started or stopped.
`remove_free_scheduler` is defined with ranks (the j-th id that stays), because what
the recursive filter of a sequence does for every sequence cannot be proved here;
`RankIsBijective` and `Remaining` say that it keeps every id it should, once, in
order. `GroupsInv` is about work groups: `Out`, the WGRs the schedulers hold, each
of a live NDRange, disjoint from the others and from what is done, within what was
carved, none twice in one queue; the counter in the wild is at least their number. From that no WGR outlives its NDRange (`NoFailure`), and if the
counter is exact (`NoneDropped`) it reaches 0 with the last WGR, when all that was
carved is done. `IslandsProofs` proves once what a submission, a timer callback and
libev's steps do to these; `SimpleRoutingProofs` adds that the parts between cut points
partition the NDRange, that it is carved to its end at once, and that no scheduler gets
two of its WGRs.

*AlgoSlicing.* With ids that are no indexes a scheduler may hold several WGRs of one
NDRange, so the counter in the wild is at least the number of WGRs out and dropped
together (`DroppedIsSound`), every work group carved is done or belongs to one of
either, and these are disjoint; a drop needs a queue that is not empty, and so a
scheduler whose id is not its index. If the counter is 0, nothing is out or dropped,
and what was carved is done. `SlicesFit` bounds the WGRs that are out by their start;
`RingInv`: the ring holds an NDRange at most once, never one that was not routed or is
carved to its end (except one of no work groups), and every one that is carved in
part. The arithmetic of `carve_wgs` and of the quants uses unsigned remainders of small
numbers only.

*Unimem.* `HandlerInv` says what the handler's locals hold at each `pc` (the address
it was given is allocated with the size it asked for, the data is copied before the
cl_mem takes it over); `OwnersDisjoint` that a buffer has one owner among the
cl_mems, the handler in flight and `lost`; `SizesAgree` that a cl_mem's size is its
buffer's. Each of the three properties needs all of them: a read sees the last write
only because no other cl_mem's copy goes into the same buffer.

*Ring buffer.* Lemmas about slots (an index wraps at most once, different elements
are in different slots, the slot before the start), then one lemma for each change of
the storage that says what it does to the list of the elements (`StoredBack`,
`StoredFront`, `TakenOut` for the shift of `pop_at`), then one lemma per operation:
it keeps the invariant and is a step of `BoundedDeque` on the mapped state.

*Start-up.* `FilesInv` (the loaded files are the first ones of a list without
repetitions, each with a record of the right type), `PhaseInv` (how far the
construction got), `RegionsInv` (a scheduler's region has a board) and `TablesInv` (in
a finished `Global` the tables are made from those files and regions, and only what
they let through was accepted). Board, FPGA and region are digits of the id, with base
4, but the digit of the FPGA begins at -1: a borrow from the board's makes the one
collision that `IdsNameRegions` names, and for board 0 a wrapped number that is no
other region's.

TLC confirmed `InductiveInv`, `IslandsFollowQueue` and the invariants of `ObjectsProofs`
and `StartupProofs`, and `NoTimerHeldUp`, on the instances of their runs before they
were proved (the run `cmdq_any_client` still checks the first one). Those of the islands
quantify over `Nat` in `Wgr`, which TLC cannot enumerate; their conjuncts that are
properties are checked by the runs.

### What is only model-checked

* Liveness and refinements with fairness (`BlockingCallReturns`,
  `AcceptedCmdFinishes`, `ImplementsCmdQueue`, `RoutedNDRangeCompletes`,
  `AffordableIsCarved`): TLAPS's temporal back end does not handle `ENABLED`.
  `SystemIsQueue` is the safety part of `ImplementsCmdQueue`.
* `AlgoSimple` (`Optimal`) and the XML modules (the five invariants of `XmlReference`
  and the refinement of `OrderedTree`): they are recursive, and induction over data
  is out of reach of the installed provers. Where a proof needs an induction over
  naturals it argues with the least counterexample instead (`LeastNat`).
* What becomes of an object whose counter two threads updated at the same time, which
  the theorems of `ObjectsProofs` except, and of the program, which its kernels do not
  count: nothing good can be proved of either.

## 5. Not modelled

* XPath, which is a third of pugixml and which the program does not use; its compact
  and wide-character builds; numbers with a fraction; copies and moves between two
  documents.
* libev, weelog and the OpenCL headers, of which the repository has binaries and
  declarations. libev's watchers and timers are external actions.
* `TheBuffer` (deprecated, nothing fills it), `reconfiguration.h` (unused), the
  reconfiguration controller (one function that returns true).
* Kernel arguments: they are stored and, in the emulating build, never read.
* The creation of contexts, buffers and kernels and the query calls: the former are
  the initial states of `Objects`, the latter change nothing. The private queue of
  `clCreateBuffer` is an ordinary queue with one blocking write.
* The names and numbers in the configuration and the bitstream files are inputs of
  `Startup`; that the XML library returns what a file says is the subject of the
  XML modules.
* Overlapping opens of the device by two processes, messages of a wrong length.
* Races inside libev when application threads start watchers.

## 6. Plan

Done, in this order: the ring, the command queue with its proofs, the islands
with AlgoSimple, AlgoSlicing, the AlgoSimple search, Unimem, the reference counters,
start-up, the composition of queue and islands, the XML library; then the proofs of
section 4, those of the reference counters last. Every safety property that the runs
check of a module without recursion is stated by a theorem. What is left:

* `Objects` against `CmdQueue`: the list from which the loop takes commands is what
  `CmdQueue` implements, but the two are not composed in one module.
* The liveness properties and the recursive algorithms, should the prover come to
  handle `ENABLED` and induction.
