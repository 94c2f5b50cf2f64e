--------------------------- MODULE ObjectsProofs ----------------------------
(***************************************************************************)
(* Proofs about Objects for any number of threads and commands: whatever   *)
(* the interleaving of loads and stores, an object whose counter two       *)
(* threads did not update at the same time is counted exactly and not used *)
(* after its deletion, and what the queue takes with it is all that leaks. *)
(*                                                                         *)
(* A reference is accounted for by what the threads have still to do. The  *)
(* invariant therefore speaks of the set Pending of the operations left in *)
(* all the lists todo: every reference that a pending operation will give  *)
(* up is there, or will have been taken earlier in the same list.          *)
(***************************************************************************)
EXTENDS Objects, FiniteSetTheorems, SequenceTheorems, TLAPS

\* The records the lists todo are made of.
OpNames == {"up", "down", "use", "wait", "hand", "submit", "complete", "route"}
Holders == {App, Call, Last, User} \cup {OfCmd(c) : c \in Cmds}
                                   \cup {OfNDRange(c) : c \in Cmds}
Steps == [op : OpNames, obj : Counted, who : Holders \cup {Nobody}]
         \cup [op : OpNames, obj : Counted, who : Holders \cup {Nobody},
               blocking : BOOLEAN, wants : BOOLEAN]

\* An operation in its place: the thread, and how many operations of the list
\* are left when it is its turn. Taking the first operation off a list does
\* not change the others.
Duty(t, k, p) ==
    [actor |-> t, left |-> k, op |-> p.op, obj |-> p.obj, who |-> p.who]
Listed(t, s) == {Duty(t, k, s[Len(s) + 1 - k]) : k \in 1 .. Len(s)}
Pending == UNION {Listed(t, todo[t]) : t \in Actors}
Front(t) == Duty(t, Len(todo[t]), Now(t))

Before(x, y) == x.actor = y.actor /\ x.left > y.left
Same(x, y)   == x.obj = y.obj /\ x.who = y.who

\* What an operation does to the reference of its holder. A submission gives
\* the reference of the call up, in one of the ways AfterSubmit lists.
Takes(x) == x.op = "up"
Gives(x) == \/ x.op \in {"down", "hand"}
            \/ x.op = "submit" /\ x.who = Call
Effect(x) == x.op \in {"complete", "route"}

-----------------------------------------------------------------------------
(* The lists and the set of what is pending. *)

\* The holders are told apart by their names and numbers.
LEMMA HoldersDiffer ==
    /\ App # Call /\ App # Last /\ App # User /\ App # Nobody
    /\ Call # Last /\ Call # User /\ Call # Nobody
    /\ Last # User /\ Last # Nobody /\ User # Nobody
    /\ \A c \in Cmds : /\ OfCmd(c) \notin {App, Call, Last, User, Nobody}
                       /\ OfNDRange(c) \notin {App, Call, Last, User, Nobody}
    /\ \A c, d \in Cmds : /\ OfCmd(c) # OfNDRange(d)
                          /\ OfCmd(c) = OfCmd(d) => c = d
                          /\ OfNDRange(c) = OfNDRange(d) => c = d
BY DEF App, Call, Last, User, Nobody, OfCmd, OfNDRange, Cmds

\* The three handles are different, and none is a command.
LEMMA HandlesDiffer ==
    /\ mem # kernel /\ mem # program /\ kernel # program
    /\ Handles \cap Cmds = {}
<1>1. \A a, b : Cardinality({a, b}) # 3
  <2> SUFFICES ASSUME NEW a, NEW b PROVE Cardinality({a, b}) # 3
    OBVIOUS
  <2>1. IsFiniteSet({a}) /\ Cardinality({a}) = 1
    BY FS_Singleton
  <2>2. Cardinality({a} \cup {b}) \in {1, 2}
    BY <2>1, FS_AddElement
  <2>3. {a, b} = {a} \cup {b}
    OBVIOUS
  <2> QED
    BY <2>2, <2>3
<1>2. mem = kernel \/ mem = program => {mem, kernel, program} = {kernel, program}
  OBVIOUS
<1>3. kernel = program => {mem, kernel, program} = {mem, kernel}
  OBVIOUS
<1>4. mem # kernel /\ mem # program
  BY <1>1, <1>2, HandlesAssumption
<1>5. kernel # program
  BY <1>1, <1>3, HandlesAssumption
<1>6. Cmds \subseteq Nat
  BY BoundAssumption DEF Cmds
<1> QED
  BY <1>4, <1>5, <1>6, HandlesAssumption DEF Handles

\* The fields of the operations the calls are made of.
LEMMA OpFields ==
    \A n, o, w : /\ Op(n, o, w).op = n /\ Op(n, o, w).obj = o
                 /\ Op(n, o, w).who = w
BY DEF Op

\* The fields of an operation in its place.
LEMMA DutyFields ==
    \A t, k, p : LET x == Duty(t, k, p)
                 IN /\ x.actor = t /\ x.left = k /\ x.op = p.op
                    /\ x.obj = p.obj /\ x.who = p.who
BY DEF Duty

\* What the types say of a pending operation.
PendingTyped == \A x \in Pending :
    /\ x.actor \in Actors /\ x.left \in Nat /\ x.op \in OpNames
    /\ x.obj \in Counted /\ x.who \in Holders \cup {Nobody}
    /\ todo[x.actor] # <<>>

\* A pending operation is one of some thread's list, with the types of the
\* list's records.
LEMMA PendingTypes ==
    ASSUME todo \in [Actors -> Seq(Steps)]
    PROVE  PendingTyped
<1> SUFFICES ASSUME NEW x \in Pending
             PROVE  /\ x.actor \in Actors /\ x.left \in Nat /\ x.op \in OpNames
                    /\ x.obj \in Counted /\ x.who \in Holders \cup {Nobody}
                    /\ todo[x.actor] # <<>>
  BY DEF PendingTyped
<1>1. PICK t \in Actors : x \in Listed(t, todo[t])
  BY DEF Pending
<1> DEFINE s == todo[t]
<1>2. s \in Seq(Steps)
  OBVIOUS
<1> HIDE DEF s
<1>3. PICK k \in 1 .. Len(s) : x = Duty(t, k, s[Len(s) + 1 - k])
  BY <1>1 DEF Listed, s
<1>4. Len(s) \in Nat
  BY <1>2
<1>5. Len(s) + 1 - k \in 1 .. Len(s)
  BY <1>4
<1>6. s[Len(s) + 1 - k] \in Steps
  BY <1>2, <1>5
<1>7. s # <<>>
  BY <1>3, <1>4, <1>2
<1>8. \A p \in Steps : p.op \in OpNames /\ p.obj \in Counted
                         /\ p.who \in Holders \cup {Nobody}
  BY DEF Steps
<1>9. /\ x.actor = t /\ x.left = k /\ x.op = s[Len(s) + 1 - k].op
      /\ x.obj = s[Len(s) + 1 - k].obj /\ x.who = s[Len(s) + 1 - k].who
  BY <1>3, DutyFields
<1> QED
  BY <1>4, <1>6, <1>7, <1>8, <1>9 DEF s

\* The first operation of a list is the next of what is pending, and comes
\* before everything else its thread has to do.
IsNext(t, h) ==
    /\ h \in Pending /\ h.actor = t
    /\ h.op = Now(t).op /\ h.obj = Now(t).obj /\ h.who = Now(t).who
    /\ \A x \in Pending : x.actor = t /\ x # h => Before(h, x)

\* Taking the first operation off a list takes the one with most left out of
\* its pending form.
LEMMA ListedTail ==
    ASSUME NEW t, NEW s \in Seq(Steps), s # <<>>
    PROVE  /\ Duty(t, Len(s), Head(s)) \in Listed(t, s)
           /\ \A x \in Listed(t, s) : x # Duty(t, Len(s), Head(s)) =>
                 x.left < Len(s)
           /\ Listed(t, Tail(s)) = Listed(t, s) \ {Duty(t, Len(s), Head(s))}
<1> DEFINE n == Len(s)
<1>1. n \in Nat /\ n >= 1 /\ Head(s) = s[1]
  OBVIOUS
<1>2. Len(Tail(s)) = n - 1 /\ \A i \in 1 .. n - 1 : Tail(s)[i] = s[i + 1]
  BY <1>1
<1> DEFINE D(k) == Duty(t, k, s[n + 1 - k])
<1>3. Listed(t, s) = {D(k) : k \in 1 .. n}
  BY DEF Listed
<1>4. Listed(t, Tail(s)) = {D(k) : k \in 1 .. n - 1}
  <2>1. \A k \in 1 .. n - 1 : Tail(s)[(n - 1) + 1 - k] = s[n + 1 - k]
    <3> SUFFICES ASSUME NEW k \in 1 .. n - 1
                 PROVE  Tail(s)[(n - 1) + 1 - k] = s[n + 1 - k]
      OBVIOUS
    <3>1. (n - 1) + 1 - k \in 1 .. n - 1 /\ ((n - 1) + 1 - k) + 1 = n + 1 - k
      BY <1>1
    <3> QED
      BY <1>2, <3>1
  <2>2. Listed(t, Tail(s)) = {Duty(t, k, Tail(s)[(n - 1) + 1 - k]) : k \in 1 .. n - 1}
    BY <1>2 DEF Listed
  <2> HIDE DEF n
  <2> QED
    BY <2>1, <2>2
<1>5. D(n) = Duty(t, n, Head(s))
  <2>1. n + 1 - n = 1
    BY <1>1
  <2> QED
    BY <1>1, <2>1
<1>6. \A k \in 1 .. n : D(k).left = k
  BY DutyFields
<1> HIDE DEF D
<1>7. 1 .. n = (1 .. n - 1) \cup {n} /\ n \notin 1 .. n - 1
  BY <1>1
<1>8. \A k \in 1 .. n - 1 : D(k) # D(n) /\ D(k).left < n
  BY <1>1, <1>6
<1> QED
  BY <1>3, <1>4, <1>5, <1>7, <1>8, <1>1

\* A thread that does the next operation of its list removes it from what is
\* pending, and nothing else.
LEMMA Popped ==
    ASSUME todo \in [Actors -> Seq(Steps)], NEW t \in Actors, todo[t] # <<>>
    PROVE  /\ IsNext(t, Front(t))
           /\ todo' = Rest(t) => Pending' = Pending \ {Front(t)}
<1> DEFINE h == Front(t)
<1>1. todo[t] \in Seq(Steps)
  OBVIOUS
<1>2. \A u \in Actors : \A x \in Listed(u, todo[u]) : x.actor = u
  BY DutyFields DEF Listed
<1>3. /\ h \in Listed(t, todo[t])
      /\ \A x \in Listed(t, todo[t]) : x # h => x.left < Len(todo[t])
      /\ Listed(t, Tail(todo[t])) = Listed(t, todo[t]) \ {h}
  BY <1>1, ListedTail DEF Front, Now
<1>4. IsNext(t, h)
  <2>1. /\ h.actor = t /\ h.left = Len(todo[t]) /\ h.op = Now(t).op
        /\ h.obj = Now(t).obj /\ h.who = Now(t).who
    BY DutyFields DEF Front
  <2>2. h \in Pending
    BY <1>3 DEF Pending
  <2>3. ASSUME NEW x \in Pending, x.actor = t, x # h PROVE Before(h, x)
    <3>1. x \in Listed(t, todo[t])
      BY <2>3, <1>2 DEF Pending
    <3>2. x.left < Len(todo[t])
      BY <3>1, <1>3, <2>3
    <3>3. x.left \in Nat /\ Len(todo[t]) \in Nat
      BY <1>1, PendingTypes DEF PendingTyped
    <3> QED
      BY <2>1, <2>3, <3>2, <3>3 DEF Before
  <2> QED
    BY <2>1, <2>2, <2>3 DEF IsNext
<1>5. ASSUME todo' = Rest(t) PROVE Pending' = Pending \ {h}
  <2>1. todo'[t] = Tail(todo[t]) /\ \A u \in Actors \ {t} : todo'[u] = todo[u]
    BY <1>5 DEF Rest
  <2>2. Pending' = UNION {Listed(u, todo'[u]) : u \in Actors}
    BY DEF Pending, Listed, Duty
  <2>3. Listed(t, todo'[t]) = Listed(t, todo[t]) \ {h}
    BY <2>1, <1>3
  <2>4. \A u \in Actors \ {t} : Listed(u, todo'[u]) = Listed(u, todo[u])
                                  /\ h \notin Listed(u, todo[u])
    BY <2>1, <1>2, <1>3
  <2> HIDE DEF h
  <2> QED
    BY <2>2, <2>3, <2>4, Zenon DEF Pending
<1> QED
  BY <1>4, <1>5

\* A thread whose list was empty and is given one: what is pending grows by
\* that list, and the thread had nothing pending.
LEMMA Pushed ==
    ASSUME todo \in [Actors -> Seq(Steps)], NEW t \in Actors, todo[t] = <<>>,
           NEW s, todo' = [todo EXCEPT ![t] = s]
    PROVE  /\ Pending' = Pending \cup Listed(t, s)
           /\ \A x \in Pending : x.actor # t
           /\ \A x \in Listed(t, s) : x.actor = t
<1>1. \A u, v : \A x \in Listed(u, v) : x.actor = u
  BY DutyFields DEF Listed
<1>2. Listed(t, todo[t]) = {}
  BY DEF Listed
<1>3. todo'[t] = s /\ \A u \in Actors \ {t} : todo'[u] = todo[u]
  OBVIOUS
<1>4. Pending' = UNION {Listed(u, todo'[u]) : u \in Actors}
  BY DEF Pending, Listed, Duty
<1>5. Pending' = Pending \cup Listed(t, s)
  BY <1>2, <1>3, <1>4, Zenon DEF Pending
<1>6. \A x \in Pending : x.actor # t
  BY <1>1, <1>2 DEF Pending
<1> QED
  BY <1>1, <1>5, <1>6

\* A thread with one operation left that is given a list instead.
LEMMA Replaced ==
    ASSUME todo \in [Actors -> Seq(Steps)], NEW t \in Actors, Len(todo[t]) = 1,
           NEW s, todo' = [todo EXCEPT ![t] = s]
    PROVE  /\ Pending' = (Pending \ {Front(t)}) \cup Listed(t, s)
           /\ \A x \in Pending \ {Front(t)} : x.actor # t
           /\ \A x \in Listed(t, s) : x.actor = t
<1>1. \A u, v : \A x \in Listed(u, v) : x.actor = u
  BY DutyFields DEF Listed
<1>2. Listed(t, todo[t]) = {Front(t)}
  <2>1. 1 .. Len(todo[t]) = {1} /\ Len(todo[t]) + 1 - 1 = 1
    OBVIOUS
  <2>2. todo[t] \in Seq(Steps) /\ todo[t] # <<>>
    <3>1. todo[t] = <<>> => Len(todo[t]) = 0
      OBVIOUS
    <3> QED
      BY <3>1
  <2>3. Now(t) = todo[t][1]
    BY <2>2 DEF Now
  <2> QED
    BY <2>1, <2>3 DEF Listed, Front
<1>3. todo'[t] = s /\ \A u \in Actors \ {t} : todo'[u] = todo[u]
  OBVIOUS
<1>4. Pending' = UNION {Listed(u, todo'[u]) : u \in Actors}
  BY DEF Pending, Listed, Duty
<1>5. Front(t).actor = t
  BY DutyFields DEF Front
<1>6. \A x \in Pending \ {Front(t)} : x.actor # t
  BY <1>1, <1>2 DEF Pending
<1>7. \A u \in Actors \ {t} : Listed(u, todo'[u]) = Listed(u, todo[u])
                               /\ Front(t) \notin Listed(u, todo[u])
  BY <1>1, <1>3, <1>5
<1> QED
  BY <1>1, <1>2, <1>3, <1>4, <1>6, <1>7, Zenon DEF Pending

\* The pending form of lists of one, two, ... operations.
LEMMA Lists ==
    ASSUME NEW t
    PROVE  /\ Listed(t, <<>>) = {}
           /\ \A a : Listed(t, <<a>>) = {Duty(t, 1, a)}
           /\ \A a, b : Listed(t, <<a, b>>) = {Duty(t, 2, a), Duty(t, 1, b)}
           /\ \A a, b, c : Listed(t, <<a, b, c>>) =
                  {Duty(t, 3, a), Duty(t, 2, b), Duty(t, 1, c)}
<1>1. 1 .. 0 = {} /\ 1 .. 1 = {1} /\ 1 .. 2 = {1, 2} /\ 1 .. 3 = {1, 2, 3}
  OBVIOUS
<1>2. Listed(t, <<>>) = {}
  BY <1>1 DEF Listed
<1>3. \A a : Listed(t, <<a>>) = {Duty(t, 1, a)}
  BY <1>1 DEF Listed
<1>4. \A a, b : Listed(t, <<a, b>>) = {Duty(t, 2, a), Duty(t, 1, b)}
  BY <1>1 DEF Listed
<1>5. \A a, b, c : Listed(t, <<a, b, c>>) =
          {Duty(t, 3, a), Duty(t, 2, b), Duty(t, 1, c)}
  BY <1>1 DEF Listed
<1> QED
  BY <1>2, <1>3, <1>4, <1>5

-----------------------------------------------------------------------------
(* The inductive invariant. Where it speaks of references it excepts, as   *)
(* the properties do, the objects two threads updated at the same time.    *)

Issued == 1 .. issued

\* Who may ever refer to an object.
Referrers(o) ==
    IF o \in Handles
    THEN {App} \cup {OfCmd(c) : c \in {d \in Issued : o \in CountedBy(d)}}
               \cup {OfNDRange(c) : c \in {d \in Issued : o = kernel}}
    ELSE {Call, Last, User, OfCmd(o), OfNDRange(o)}

\* The types of the variables.
Typed ==
    /\ issued \in 0 .. MaxCmds
    /\ type \in [Cmds -> CommandTypes]
    /\ m_counter \in [Counted -> Nat]
    /\ alive \in [Counted -> BOOLEAN]
    /\ todo \in [Actors -> Seq(Steps)]
    /\ reg \in [Actors -> Nat \cup {-1}]
    /\ held \subseteq Handles
    /\ queue \in Seq(Issued) /\ lost \subseteq Issued
    /\ released \in BOOLEAN
    /\ m_last_event \in Issued \cup {None}
    /\ running \subseteq Issued /\ complete \subseteq Issued
    /\ refs \in [Counted -> SUBSET Holders]
    /\ overlapped \subseteq Counted /\ bad \subseteq Counted

\* The thread of x will submit command c.
SubmitLater(x, c) ==
    \E y \in Pending : Before(x, y) /\ y.op = "submit" /\ y.obj = c
\* The call that counts the event up will give that reference up.
CallGivesLater(x) ==
    \E y \in Pending : Before(x, y) /\ y.op = "submit" /\ y.who = Call /\ Same(x, y)
\* The loop will hand the NDRange of command c to the islands.
RouteLater(x, c) ==
    \E y \in Pending : Before(x, y) /\ y.op = "route" /\ y.obj = c

\* What an application thread may have to do.
OfThread(x) ==
    /\ x.actor \in Threads
    /\ \/ x.op = "use" /\ x.obj = program /\ x.who = Nobody
       \/ x.op = "wait" /\ x.obj \in Issued /\ x.who = Nobody
       \/ x.op = "down" /\ x.obj \in Handles \ held /\ x.who = App
       \/ x.op = "up" /\ x.obj \in Issued /\ x.who = Call /\ CallGivesLater(x)
       \/ x.op \in {"down", "hand"} /\ x.obj \in Issued /\ x.who = Call
       \/ /\ x.op = "submit" /\ x.obj \in Issued /\ x.left = 1
          /\ x.who = IF type[x.obj] = "NDRANGE" THEN Nobody ELSE Call
       \/ \E c \in Issued : /\ x.op = "up" /\ x.who = OfCmd(c)
                            /\ x.obj \in CountedBy(c) \ {c} /\ SubmitLater(x, c)

\* What the event loop may have to do.
OfLoop(x) ==
    /\ x.actor = Loop
    /\ \/ x.op = "use" /\ x.obj \in Handles /\ x.who = Nobody
       \/ Effect(x) /\ x.obj \in Issued /\ x.who = Nobody
       \/ x.op \in {"up", "down"} /\ x.obj \in Issued /\ x.who = Last
       \/ \E c \in Issued : /\ x.op = "down" /\ x.who = OfCmd(c)
                            /\ x.obj \in CountedBy(c)
       \/ \E c \in Issued : /\ x.op \in {"up", "down"} /\ x.who = OfNDRange(c)
                            /\ type[c] = "NDRANGE" /\ x.obj \in {kernel, c}
                            /\ (x.op = "up" => RouteLater(x, c))

Forms == \A x \in Pending : OfThread(x) \/ OfLoop(x)

\* A value is loaded only for the update that the thread is about to store.
Registers == \A t \in Actors : reg[t] # -1 => Doing(t, {"up", "down"})

\* The counter of an object is exact, and the one thread that may have loaded
\* it has the value it still has.
Exact(o) == /\ IsFiniteSet(refs[o])
            /\ m_counter[o] = Cardinality(refs[o])
            /\ alive[o] <=> refs[o] # {}
            /\ \A t \in Actors : reg[t] # -1 /\ Now(t).obj = o =>
                  /\ reg[t] = m_counter[o]
                  /\ \A u \in Actors : reg[u] # -1 /\ Now(u).obj = o => u = t
Counters == \A o \in Counted \ overlapped : Exact(o)

\* No reference is taken twice or given up twice.
Unique == \A x, y \in Pending :
    Same(x, y) => /\ Takes(x) /\ Takes(y) => x = y
                  /\ Gives(x) /\ Gives(y) => x = y

\* A reference that is still to be taken is not there yet.
NotYet == \A x \in Pending : Takes(x) => x.who \notin refs[x.obj]

\* A reference that will be given up is there, or is taken before.
TakenBefore(x) == \E y \in Pending : Before(y, x) /\ Takes(y) /\ Same(y, x)
Owned == \A x \in Pending : Gives(x) /\ x.obj \notin overlapped =>
            x.who \in refs[x.obj] \/ TakenBefore(x)

\* An event is handed to one user, by the one call that refers to it.
OneOutcome == \A x \in Pending :
    Gives(x) /\ x.who = Call => User \notin refs[x.obj]

\* The application refers to the handles it holds.
HeldCounted == \A o \in held \ overlapped : App \in refs[o]

\* An object that will be accessed is kept alive until then: by a handle that
\* the application holds, by the command before its submission, or by a
\* reference that the same thread gives up later.
Accesses(x) == /\ x.op \in {"up", "use", "wait", "complete"}
               /\ x.obj # program /\ x.obj \notin overlapped
GivenLater(x) == \E y \in Pending : /\ Before(x, y) /\ Gives(y)
                                    /\ y.obj = x.obj /\ y.who \in refs[x.obj]
Guarded == \A x \in Pending : Accesses(x) =>
    \/ x.actor \in Threads /\ x.obj \in held
    \/ SubmitLater(x, x.obj)
    \/ GivenLater(x)

\* A command that waits for its submission or in the queue has its references
\* (or is about to take them), and neither the loop nor the islands know it. A
\* command that is lost stays in that state for ever.
InCall(c)  == \E x \in Pending : x.op = "submit" /\ x.obj = c
InQueue(c) == c \in lost \/ \E i \in 1 .. Len(queue) : queue[i] = c
Mentions(x, c) == x.obj = c \/ x.who \in {OfCmd(c), OfNDRange(c)}
FreshCmd(c) ==
    /\ \A o \in CountedBy(c) \ overlapped :
          \/ OfCmd(c) \in refs[o]
          \/ /\ o # c
             /\ \E x \in Pending : /\ Takes(x) /\ x.obj = o /\ x.who = OfCmd(c)
                                   /\ SubmitLater(x, c)
    /\ c \notin complete \cup running \cup {m_last_event}
    /\ Last \notin refs[c]
    /\ OfNDRange(c) \notin refs[kernel] \cup refs[c]
    /\ \A x \in Pending : x.actor = Loop => ~Mentions(x, c)
OncePerRing ==
    /\ \A i, j \in 1 .. Len(queue) : queue[i] = queue[j] => i = j
    /\ \A i \in 1 .. Len(queue) : queue[i] \notin lost
Fresh ==
    /\ \A c \in Issued : InCall(c) \/ InQueue(c) => FreshCmd(c)
    /\ \A c \in Issued : ~(InCall(c) /\ InQueue(c))
    /\ OncePerRing
    /\ \A x, y \in Pending :
          x.op = "submit" /\ y.op = "submit" /\ x.obj = y.obj => x = y

\* An NDRange on the islands refers to its kernel and its event.
OnIslands(c) ==
    /\ type[c] = "NDRANGE" /\ c \notin complete
    /\ \A o \in {kernel, c} \ overlapped : OfNDRange(c) \in refs[o]
    /\ \A x \in Pending : /\ x.who # OfNDRange(c)
                          /\ ~(Effect(x) /\ x.obj = c)
Islands == \A c \in running : OnIslands(c)

\* So does one that will be handed to them, by then.
ToRoute(x) ==
    LET c == x.obj IN
    /\ type[c] = "NDRANGE" /\ c \notin complete
    /\ \A o \in {kernel, c} \ overlapped :
          \/ OfNDRange(c) \in refs[o]
          \/ \E y \in Pending : /\ Before(y, x) /\ Takes(y)
                                /\ y.obj = o /\ y.who = OfNDRange(c)
    /\ \A y \in Pending : y.who = OfNDRange(c) => Before(y, x) /\ Takes(y)
Routes  == \A x \in Pending : x.op = "route" => ToRoute(x)
Effects == \A x, y \in Pending : Effect(x) /\ Effect(y) /\ x.obj = y.obj => x = y

\* m_last_event is counted, or about to be, and is the only event that is.
LastCounted ==
    m_last_event # None /\ m_last_event \notin overlapped =>
        \/ Last \in refs[m_last_event]
        \/ \E x \in Pending : Takes(x) /\ x.obj = m_last_event /\ x.who = Last
LastOnly == \A x \in Pending : x.who = Last =>
                (Takes(x) <=> x.obj = m_last_event)

\* Only what may refer to an object does.
NotIssued    == \A c \in Cmds \ Issued : refs[c] = {}
OwnReferrers == \A o \in Counted : refs[o] \subseteq Referrers(o)

\* Every reference has somebody who will give it up: the thread whose list it
\* is in, m_last_event, the NDRange, or a command that was not started.
Given(o, r) == \E x \in Pending : Gives(x) /\ x.obj = o /\ x.who = r
Started(c)  == \/ c \in complete \cup running \cup {m_last_event}
               \/ \E x \in Pending : Effect(x) /\ x.obj = c
Accounted ==
    \A o \in Counted \ overlapped :
        /\ Call \in refs[o] => Given(o, Call)
        /\ Last \in refs[o] => o = m_last_event \/ Given(o, Last)
        /\ \A c \in Issued :
              OfCmd(c) \in refs[o] /\ Started(c) => Given(o, OfCmd(c))
        /\ \A c \in Issued : OfNDRange(c) \in refs[o] =>
              \/ c \in running \/ Given(o, OfNDRange(c))
              \/ \E x \in Pending : x.op = "route" /\ x.obj = c

\* A command that was issued is on its way to the ring, in it or lost, or started.
Everywhere == \A c \in Issued : InCall(c) \/ InQueue(c) \/ Started(c)

\* A call that waits for an event has nothing else to do but to give it up.
Waits == \A x, y \in Pending : x.op = "wait" /\ y.actor = x.actor =>
            y.op \in {"wait", "down", "hand"} /\ y.obj = x.obj

Apart == running \cap complete = {}

\* What the threads have to do, and the references they do it with.
Discipline ==
    /\ Forms /\ Unique /\ NotYet /\ Owned /\ OneOutcome /\ HeldCounted
    /\ Guarded /\ Fresh /\ Islands /\ Routes /\ Effects
    /\ LastCounted /\ LastOnly /\ NotIssued /\ OwnReferrers /\ Accounted
    /\ Everywhere /\ Waits

IInv == /\ Typed /\ Registers /\ Counters /\ Discipline /\ Apart
        /\ NoUseAfterDelete

-----------------------------------------------------------------------------
(* The next operation of a list is done.                                   *)

\* What becomes of the references when h is done: they change as h says, or
\* not at all when h is skipped because its object was deleted, which only
\* happens to an object two threads updated at the same time.
RefsFollow(h) ==
    /\ \A o \in Counted : \A r \in refs[o] :
          r \in refs'[o] \/ (Gives(h) /\ o = h.obj /\ r = h.who)
    /\ \A o \in Counted : \A r \in refs'[o] :
          \/ r \in refs[o]
          \/ Takes(h) /\ o = h.obj /\ r = h.who
          \/ h.op = "hand" /\ o = h.obj /\ r = User
    /\ h.obj \notin overlapped => /\ Takes(h) => h.who \in refs'[h.obj]
                                  /\ Gives(h) => h.who \notin refs'[h.obj]

Popping(h) ==
    /\ h \in Pending /\ Pending' = Pending \ {h}
    /\ \A x \in Pending : x.actor = h.actor /\ x # h => Before(h, x)
    /\ h.op # "submit"
    /\ RefsFollow(h)
    /\ UNCHANGED <<issued, type, held, queue, lost, m_last_event, overlapped>>
    /\ complete' = IF h.op = "complete" THEN complete \cup {h.obj} ELSE complete
    /\ running'  = IF h.op = "route" THEN running \cup {h.obj} ELSE running

\* What the types and the forms say of the pending operations, for citing.
LEMMA FormFacts ==
    ASSUME Typed, Forms, NEW x \in Pending
    PROVE  /\ x.actor \in Actors /\ x.left \in Nat /\ x.op \in OpNames
           /\ x.obj \in Counted /\ x.obj \in Issued \cup Handles
           /\ x.actor = Loop \/ x.actor \in Threads
           /\ Effect(x) => x.actor = Loop
           /\ x.op = "hand" => x.who = Call /\ x.obj \in Issued
           /\ x.who = Last => x.actor = Loop /\ x.obj \in Issued
           /\ x.who = App => x.op = "down" /\ x.obj \in Handles \ held
           /\ x.who # User
           /\ Gives(x) \/ Takes(x) => x.who # Nobody
           /\ x.who = Call => /\ x.obj \in Issued
                              /\ Takes(x) => CallGivesLater(x)
           /\ \A c \in Issued : x.who = OfCmd(c) =>
                /\ x.obj \in CountedBy(c)
                /\ Gives(x) => x.actor = Loop
                /\ Takes(x) => SubmitLater(x, c) /\ x.obj # c
           /\ \A c \in Issued : x.who = OfNDRange(c) =>
                /\ x.actor = Loop /\ x.obj \in {kernel, c} /\ type[c] = "NDRANGE"
                /\ Takes(x) => RouteLater(x, c)
<1>1. PendingTyped
  BY PendingTypes DEF Typed
<1>2. Issued \subseteq Cmds /\ Issued \subseteq Counted
  BY BoundAssumption DEF Typed, Issued, Cmds, Counted
<1>3. \A c \in Issued : CountedBy(c) \subseteq {c, mem, kernel}
  BY DEF CountedBy
<1>4. OfThread(x) \/ OfLoop(x)
  BY DEF Forms
<1>5. mem \in Handles /\ kernel \in Handles /\ program \in Handles
  BY DEF Handles
<1>6. /\ x.actor \in Actors /\ x.left \in Nat /\ x.op \in OpNames /\ x.obj \in Counted
  BY <1>1 DEF PendingTyped
<1>7. CASE OfThread(x)
  <2>1. x.actor \in Threads
    BY <1>7 DEF OfThread
  <2>2. CASE x.op \in {"use", "wait"}
    <3>1. /\ x.who = Nobody /\ x.obj \in Issued \cup Handles
      BY <2>2, <1>7, <1>5 DEF OfThread
    <3> QED
      BY <2>1, <2>2, <3>1, <1>2, <1>6, HoldersDiffer DEF Effect, Gives, Takes
  <2>3. CASE x.op = "down" /\ x.obj \in Handles \ held /\ x.who = App
    BY <2>1, <2>3, <1>2, <1>6, HoldersDiffer DEF Effect, Gives, Takes
  <2>4. CASE /\ x.op \in {"up", "down", "hand", "submit"}
             /\ x.obj \in Issued /\ x.who = Call
             /\ Takes(x) => CallGivesLater(x)
    BY <2>1, <2>4, <1>2, <1>6, HoldersDiffer DEF Effect, Gives, Takes
  <2>5. CASE x.op = "submit" /\ x.obj \in Issued /\ x.who = Nobody
    BY <2>1, <2>5, <1>2, <1>6, HoldersDiffer DEF Effect, Gives, Takes
  <2>6. ASSUME NEW c \in Issued, x.op = "up", x.who = OfCmd(c),
               x.obj \in CountedBy(c) \ {c}, SubmitLater(x, c)
        PROVE  /\ x.obj \in Issued \cup Handles
               /\ \A d \in Issued : x.who = OfCmd(d) => d = c
               /\ x.who \notin {App, Call, Last, User, Nobody}
               /\ \A d \in Issued : x.who # OfNDRange(d)
    BY <2>6, <1>2, <1>3, <1>5, HoldersDiffer
  <2>7. CASE \E c \in Issued : /\ x.op = "up" /\ x.who = OfCmd(c)
                            /\ x.obj \in CountedBy(c) \ {c} /\ SubmitLater(x, c)
    <3>1. PICK c \in Issued : /\ x.op = "up" /\ x.who = OfCmd(c)
                            /\ x.obj \in CountedBy(c) \ {c} /\ SubmitLater(x, c)
      BY <2>7
    <3>2. /\ x.obj \in Issued \cup Handles
          /\ \A d \in Issued : x.who = OfCmd(d) => d = c
          /\ x.who \notin {App, Call, Last, User, Nobody}
          /\ \A d \in Issued : x.who # OfNDRange(d)
      BY <3>1, <2>6
    <3> QED
      BY <2>1, <3>1, <3>2, <1>6 DEF Effect, Gives, Takes
  <2> QED
    BY <1>7, <2>2, <2>3, <2>4, <2>5, <2>7 DEF OfThread, Takes
<1>8. CASE OfLoop(x)
  <2>1. x.actor = Loop
    BY <1>8 DEF OfLoop
  <2>2. CASE (x.op = "use" \/ Effect(x)) /\ x.who = Nobody /\ x.obj \in Issued \cup Handles
    BY <2>1, <2>2, <1>2, <1>6, HoldersDiffer DEF Effect, Gives, Takes
  <2>3. CASE x.op \in {"up", "down"} /\ x.obj \in Issued /\ x.who = Last
    BY <2>1, <2>3, <1>2, <1>6, HoldersDiffer DEF Effect, Gives, Takes
  <2>4. CASE \E c \in Issued : /\ x.op = "down" /\ x.who = OfCmd(c)
                            /\ x.obj \in CountedBy(c)
    <3>1. PICK c \in Issued : /\ x.op = "down" /\ x.who = OfCmd(c)
                            /\ x.obj \in CountedBy(c)
      BY <2>4
    <3>2. /\ x.obj \in Issued \cup Handles
          /\ \A d \in Issued : x.who = OfCmd(d) => d = c
          /\ x.who \notin {App, Call, Last, User, Nobody}
          /\ \A d \in Issued : x.who # OfNDRange(d)
      BY <3>1, <1>2, <1>3, <1>5, HoldersDiffer
    <3> QED
      BY <2>1, <3>1, <3>2, <1>6 DEF Effect, Gives, Takes
  <2>5. CASE \E c \in Issued : /\ x.op \in {"up", "down"} /\ x.who = OfNDRange(c)
                            /\ type[c] = "NDRANGE" /\ x.obj \in {kernel, c}
                            /\ (x.op = "up" => RouteLater(x, c))
    <3>1. PICK c \in Issued : /\ x.op \in {"up", "down"} /\ x.who = OfNDRange(c)
                            /\ type[c] = "NDRANGE" /\ x.obj \in {kernel, c}
                            /\ (x.op = "up" => RouteLater(x, c))
      BY <2>5
    <3>2. x.obj \in Issued \cup Handles
      BY <3>1, <1>5
    <3>3. \A d \in Issued : x.who = OfNDRange(d) => d = c
      BY <3>1, <1>2, HoldersDiffer
    <3>4. x.who \notin {App, Call, Last, User, Nobody}
      BY <3>1, <1>2, HoldersDiffer
    <3>5. \A d \in Issued : x.who # OfCmd(d)
      BY <3>1, <1>2, HoldersDiffer
    <3>6. \A d \in Issued : x.who = OfNDRange(d) =>
              /\ x.obj \in {kernel, d} /\ type[d] = "NDRANGE"
              /\ Takes(x) => RouteLater(x, d)
      BY <3>1, <3>3 DEF Takes
    <3>7. ~Effect(x) /\ x.op # "hand"
      BY <3>1 DEF Effect
    <3> QED
      BY <2>1, <3>2, <3>4, <3>5, <3>6, <3>7, <1>6
  <2> QED
    BY <1>8, <2>2, <2>3, <2>4, <2>5 DEF OfLoop
<1> QED
  BY <1>4, <1>7, <1>8

\* The operation that is done comes before everything else in its thread.
LEMMA NothingBefore ==
    ASSUME Typed, Forms, NEW h, Popping(h), NEW x \in Pending
    PROVE  /\ ~Before(x, h)
           /\ x.actor = h.actor /\ x # h => Before(h, x)
           /\ x # h => x \in Pending'
<1>1. h \in Pending /\ (x.actor = h.actor /\ x # h => Before(h, x))
  BY DEF Popping
<1>2. h.left \in Nat /\ x.left \in Nat
  BY <1>1, FormFacts
<1>3. ~Before(x, h)
  BY <1>1, <1>2 DEF Before
<1>4. x # h => x \in Pending'
  BY DEF Popping
<1> QED
  BY <1>1, <1>3, <1>4

\* Doing an operation does not change the forms of the others.
LEMMA PopForms ==
    ASSUME Typed, Forms, NEW h, Popping(h)
    PROVE  Forms'
<1> SUFFICES ASSUME NEW x \in Pending' PROVE (OfThread(x) \/ OfLoop(x))'
  BY DEF Forms
<1>1. x \in Pending /\ h.op # "submit" /\ Pending' = Pending \ {h}
  BY DEF Popping
<1>2. UNCHANGED <<issued, type, held>>
  BY DEF Popping
<1>3. \A c : SubmitLater(x, c) => SubmitLater(x, c)'
  BY <1>1 DEF SubmitLater
<1>4. CallGivesLater(x) => CallGivesLater(x)'
  BY <1>1 DEF CallGivesLater
<1>5. OfThread(x) => OfThread(x)'
  BY <1>2, <1>3, <1>4 DEF OfThread, Issued, CountedBy, IsBuffer
<1>6. \A c : RouteLater(x, c) => RouteLater(x, c)'
  <2>1. ~Before(x, h)
    BY <1>1, NothingBefore
  <2> QED
    BY <1>1, <2>1 DEF RouteLater
<1>7. OfLoop(x) => OfLoop(x)'
  BY <1>2, <1>6 DEF OfLoop, Issued, CountedBy, IsBuffer, Effect
<1> QED
  BY <1>1, <1>5, <1>7 DEF Forms

\* What becomes of one reference when h is done.
LEMMA PopRefs ==
    ASSUME Typed, Forms, NEW h, Popping(h), NEW o \in Counted, NEW r
    PROVE  /\ r \in refs[o] /\ ~(Gives(h) /\ o = h.obj /\ r = h.who) => r \in refs'[o]
           /\ r \in refs'[o] /\ r \notin refs[o] =>
                 \/ Takes(h) /\ o = h.obj /\ r = h.who
                 \/ h.op = "hand" /\ h.who = Call /\ o = h.obj /\ r = User
           /\ o \notin overlapped /\ o = h.obj /\ r = h.who =>
                 /\ Takes(h) => r \in refs'[o]
                 /\ Gives(h) => r \notin refs'[o]
<1>1. RefsFollow(h) /\ h \in Pending
  BY DEF Popping
<1>2. h.op = "hand" => h.who = Call
  BY <1>1, FormFacts
<1> QED
  BY <1>1, <1>2 DEF RefsFollow

\* No reference becomes taken or given up twice.
LEMMA PopUnique ==
    ASSUME Unique, NEW h, Popping(h)
    PROVE  Unique'
<1>1. Pending' \subseteq Pending
  BY DEF Popping
<1> QED
  BY <1>1 DEF Unique, Same, Takes, Gives

\* A reference that is still to be taken does not appear by another operation.
LEMMA PopNotYet ==
    ASSUME Typed, Forms, Unique, NotYet, NEW h, Popping(h)
    PROVE  NotYet'
<1> SUFFICES ASSUME NEW x \in Pending', Takes(x), x.who \in refs'[x.obj]
             PROVE  FALSE
  BY DEF NotYet, Takes
<1>1. x \in Pending /\ x # h /\ h \in Pending
  BY DEF Popping
<1>2. x.who \notin refs[x.obj]
  BY <1>1 DEF NotYet
<1>3. x.obj \in Counted /\ x.who # User
  BY <1>1, FormFacts
<1>4. Takes(h) /\ Same(x, h)
  BY <1>2, <1>3, PopRefs DEF Same
<1> QED
  BY <1>1, <1>4 DEF Unique

\* A reference that will be given up stays there until then.
LEMMA PopOwned ==
    ASSUME Typed, Forms, Unique, Owned, NEW h, Popping(h)
    PROVE  Owned'
<1> SUFFICES ASSUME NEW x \in Pending', Gives(x), x.obj \notin overlapped'
             PROVE  x.who \in refs'[x.obj] \/ TakenBefore(x)'
  BY DEF Owned, Gives
<1>1. x \in Pending /\ x # h /\ h \in Pending /\ x.obj \notin overlapped
  BY DEF Popping
<1>2. x.obj \in Counted
  BY <1>1, FormFacts
<1>3. CASE x.who \in refs[x.obj]
  <2>1. ~(Gives(h) /\ Same(x, h))
    BY <1>1 DEF Unique
  <2> QED
    BY <1>2, <1>3, <2>1, PopRefs DEF Same
<1>4. ASSUME NEW y \in Pending, Before(y, x), Takes(y), Same(y, x)
      PROVE  x.who \in refs'[x.obj] \/ TakenBefore(x)'
  <2>1. CASE y = h
    BY <2>1, <1>4, <1>1, <1>2, PopRefs DEF Same
  <2>2. CASE y # h
    <3>1. y \in Pending'
      BY <2>2, <1>4, NothingBefore
    <3> QED
      BY <3>1, <1>4 DEF TakenBefore
  <2> QED
    BY <2>1, <2>2
<1> QED
  BY <1>1, <1>3, <1>4 DEF Owned, TakenBefore

\* The call that will hand its event out is the only one to do so.
LEMMA PopOneOutcome ==
    ASSUME Typed, Forms, Unique, OneOutcome, NEW h, Popping(h)
    PROVE  OneOutcome'
<1> SUFFICES ASSUME NEW x \in Pending', Gives(x), x.who = Call,
                    User \in refs'[x.obj]
             PROVE  FALSE
  BY DEF OneOutcome, Gives
<1>1. x \in Pending /\ x # h /\ h \in Pending
  BY DEF Popping
<1>2. User \notin refs[x.obj]
  BY <1>1 DEF OneOutcome
<1>3. x.obj \in Counted /\ h.who # User
  BY <1>1, FormFacts
<1>4. h.op = "hand" /\ Same(x, h)
  BY <1>2, <1>3, PopRefs DEF Same
<1> QED
  BY <1>1, <1>4 DEF Unique, Gives

\* The application's own references are given up only by Release.
LEMMA PopHeldCounted ==
    ASSUME Typed, Forms, HeldCounted, NEW h, Popping(h)
    PROVE  HeldCounted'
<1> SUFFICES ASSUME NEW o \in held' \ overlapped' PROVE App \in refs'[o]
  BY DEF HeldCounted
<1>1. o \in held /\ o \notin overlapped /\ h \in Pending
  BY DEF Popping
<1>2. App \in refs[o] /\ o \in Counted
  BY <1>1 DEF HeldCounted, Typed, Counted
<1>3. h.who = App => h.obj # o
  BY <1>1, FormFacts
<1> QED
  BY <1>2, <1>3, PopRefs

\* What keeps an object alive until it is accessed stays in place.
LEMMA PopGuarded ==
    ASSUME Typed, Forms, Unique, Guarded, NEW h, Popping(h)
    PROVE  Guarded'
<1> SUFFICES ASSUME NEW x \in Pending', Accesses(x)'
             PROVE  \/ x.actor \in Threads /\ x.obj \in held'
                    \/ SubmitLater(x, x.obj)'
                    \/ GivenLater(x)'
  BY DEF Guarded
<1>1. x \in Pending /\ x # h /\ h \in Pending /\ h.op # "submit"
  BY DEF Popping
<1>2. Accesses(x) /\ held' = held
  BY DEF Accesses, Popping
<1>3. x.obj \in Counted /\ ~Before(x, h)
  BY <1>1, FormFacts, NothingBefore
<1>4. CASE SubmitLater(x, x.obj)
  BY <1>1, <1>4, NothingBefore DEF SubmitLater
<1>5. ASSUME NEW y \in Pending, Before(x, y), Gives(y),
             y.obj = x.obj, y.who \in refs[x.obj]
      PROVE  GivenLater(x)'
  <2>1. y # h
    BY <1>3, <1>5
  <2>2. y \in Pending'
    BY <1>5, <2>1, NothingBefore
  <2>3. ~(Gives(h) /\ Same(h, y))
    BY <1>1, <1>5, <2>1 DEF Unique
  <2>4. y.who \in refs'[x.obj]
    BY <1>3, <1>5, <2>3, PopRefs DEF Same
  <2> QED
    BY <1>5, <2>2, <2>4 DEF GivenLater, Gives
<1> QED
  BY <1>1, <1>2, <1>4, <1>5 DEF Guarded, GivenLater
\* A command not yet taken from the queue is not touched: the constructor's
\* counting is the only thing that happens to it.
LEMMA PopFresh ==
    ASSUME Typed, Forms, Fresh, NEW h, Popping(h)
    PROVE  Fresh'
<1>1. /\ h \in Pending /\ h.op # "submit" /\ Pending' = Pending \ {h}
      /\ queue' = queue /\ lost' = lost /\ issued' = issued /\ type' = type
      /\ overlapped' = overlapped /\ m_last_event' = m_last_event
  BY DEF Popping
<1>2. \A c : InCall(c)' => InCall(c)
  BY <1>1 DEF InCall
<1>3. \A c : InQueue(c)' => InQueue(c)
  BY <1>1 DEF InQueue
<1>4. ASSUME NEW c \in Issued, InCall(c) \/ InQueue(c) PROVE FreshCmd(c)'
  <2>1. FreshCmd(c)
    BY <1>4 DEF Fresh
  <2>2. h.actor = Loop => ~Mentions(h, c)
    BY <1>1, <2>1 DEF FreshCmd
  <2>3. c \in Cmds /\ c \in Counted /\ kernel \in Counted
        /\ CountedBy(c) \subseteq Counted /\ CountedBy(c)' = CountedBy(c)
    BY <1>1, BoundAssumption
       DEF Typed, Issued, Cmds, Counted, Handles, CountedBy, IsBuffer
  <2>4. ASSUME NEW o \in CountedBy(c) \ overlapped
        PROVE  \/ OfCmd(c) \in refs'[o]
               \/ /\ o # c
                  /\ \E x \in Pending' :
                        /\ Takes(x) /\ x.obj = o /\ x.who = OfCmd(c)
                        /\ SubmitLater(x, c)'
    <3>1. CASE OfCmd(c) \in refs[o]
      <4>1. ~(Gives(h) /\ h.who = OfCmd(c))
        BY <1>1, <2>2, FormFacts DEF Mentions
      <4> QED
        BY <2>3, <2>4, <3>1, <4>1, PopRefs
    <3>2. ASSUME NEW x \in Pending, o # c, Takes(x), x.obj = o,
                 x.who = OfCmd(c), SubmitLater(x, c)
          PROVE  \/ OfCmd(c) \in refs'[o]
                 \/ x \in Pending' /\ SubmitLater(x, c)'
      <4>1. CASE x = h
        BY <2>3, <2>4, <3>2, <4>1, PopRefs
      <4>2. CASE x # h
        BY <1>1, <3>2, <4>2 DEF SubmitLater
      <4> QED
        BY <4>1, <4>2
    <3> QED
      BY <2>1, <2>4, <3>1, <3>2 DEF FreshCmd
  <2>5. c \notin complete' \cup running' \cup {m_last_event'}
    <3>1. Effect(h) => h.obj # c
      BY <1>1, <2>2, FormFacts DEF Mentions
    <3> QED
      BY <1>1, <2>1, <3>1 DEF FreshCmd, Popping, Effect
  <2>6. Last \notin refs'[c]
    <3>1. ~(h.who = Last /\ h.obj = c)
      BY <1>1, <2>2, FormFacts DEF Mentions
    <3> QED
      BY <2>1, <2>3, <3>1, PopRefs, HoldersDiffer DEF FreshCmd
  <2>7. OfNDRange(c) \notin refs'[kernel] \cup refs'[c]
    <3>1. h.who # OfNDRange(c)
      BY <1>1, <1>4, <2>2, FormFacts DEF Mentions
    <3> QED
      BY <2>1, <2>3, <3>1, PopRefs, HoldersDiffer DEF FreshCmd
  <2>8. \A x \in Pending' : x.actor = Loop => ~Mentions(x, c)
    BY <1>1, <2>1 DEF FreshCmd
  <2> QED
    BY <1>1, <2>3, <2>4, <2>5, <2>6, <2>7, <2>8 DEF FreshCmd, Takes, Mentions
<1>5. Issued' = Issued
  BY <1>1 DEF Issued
<1>6. \A c \in Issued' : (InCall(c) \/ InQueue(c))' => FreshCmd(c)'
  BY <1>2, <1>3, <1>4, <1>5
<1>7. \A c \in Issued' : ~(InCall(c) /\ InQueue(c))'
  BY <1>2, <1>3, <1>5 DEF Fresh
<1>8. OncePerRing'
  BY <1>1 DEF Fresh, OncePerRing
<1>9. \A x, y \in Pending' :
         x.op = "submit" /\ y.op = "submit" /\ x.obj = y.obj => x = y
  BY <1>1 DEF Fresh
<1> QED
  BY <1>6, <1>7, <1>8, <1>9 DEF Fresh

\* An NDRange handed to the islands has its references, and keeps them.
LEMMA PopIslands ==
    ASSUME Typed, Forms, Islands, Routes, Effects, NEW h, Popping(h)
    PROVE  Islands'
<1>1. /\ h \in Pending /\ Pending' = Pending \ {h}
      /\ type' = type /\ overlapped' = overlapped
  BY DEF Popping
<1> SUFFICES ASSUME NEW c \in running' PROVE OnIslands(c)'
  BY DEF Islands
<1>2. CASE c \in running
  <2>1. OnIslands(c) /\ c \in Counted /\ kernel \in Counted
    BY <1>2, BoundAssumption DEF Islands, Typed, Issued, Cmds, Counted, Handles
  <2>2. h.who # OfNDRange(c) /\ ~(Effect(h) /\ h.obj = c)
    BY <1>1, <2>1 DEF OnIslands
  <2>3. c \notin complete'
    BY <2>1, <2>2 DEF OnIslands, Popping, Effect
  <2>4. \A o \in {kernel, c} \ overlapped : OfNDRange(c) \in refs'[o]
    BY <2>1, <2>2, PopRefs DEF OnIslands
  <2> QED
    BY <1>1, <2>1, <2>3, <2>4 DEF OnIslands, Effect
<1>3. CASE h.op = "route" /\ h.obj = c
  <2>1. ToRoute(h) /\ c \in Issued
    BY <1>1, <1>3, FormFacts DEF Routes, Effect, Forms, OfLoop, OfThread
  <2>2. c \in Counted /\ kernel \in Counted
    BY <2>1, BoundAssumption DEF Typed, Issued, Cmds, Counted, Handles
  <2>3. c \notin complete' /\ type[c] = "NDRANGE"
    BY <1>3, <2>1 DEF ToRoute, Popping
  <2>4. ~Gives(h)
    BY <1>3 DEF Gives
  <2>5. \A o \in {kernel, c} \ overlapped : OfNDRange(c) \in refs[o]
    BY <1>3, <2>1, NothingBefore DEF ToRoute
  <2>6. \A o \in {kernel, c} \ overlapped : OfNDRange(c) \in refs'[o]
    BY <2>2, <2>4, <2>5, PopRefs
  <2>7. \A x \in Pending' : x.who # OfNDRange(c)
    BY <1>1, <1>3, <2>1, NothingBefore DEF ToRoute
  <2>8. \A x \in Pending' : ~(Effect(x) /\ x.obj = c)
    BY <1>1, <1>3 DEF Effects, Effect
  <2> QED
    BY <1>1, <2>3, <2>6, <2>7, <2>8 DEF OnIslands, Effect
<1> QED
  BY <1>2, <1>3 DEF Popping

\* Up to then, every reference it needs is there or about to be taken.
LEMMA PopRoutes ==
    ASSUME Typed, Forms, Routes, Effects, NEW h, Popping(h)
    PROVE  Routes'
<1>1. /\ h \in Pending /\ Pending' = Pending \ {h}
      /\ type' = type /\ overlapped' = overlapped
  BY DEF Popping
<1> SUFFICES ASSUME NEW x \in Pending', x.op = "route" PROVE ToRoute(x)'
  BY DEF Routes
<1> DEFINE c == x.obj
<1>2. x \in Pending /\ x # h /\ ToRoute(x) /\ c \in Issued
  BY <1>1 DEF Routes, Effect, Forms, OfLoop, OfThread
<1>3. c \in Counted /\ kernel \in Counted
  BY <1>2, BoundAssumption DEF Typed, Issued, Cmds, Counted, Handles
<1>4. c \notin complete'
  <2>1. ~(h.op = "complete" /\ h.obj = c)
    BY <1>1, <1>2 DEF Effects, Effect
  <2> QED
    BY <1>2, <2>1 DEF ToRoute, Popping
<1>5. ASSUME NEW o \in {kernel, c} \ overlapped
      PROVE  \/ OfNDRange(c) \in refs'[o]
             \/ \E y \in Pending' : /\ Before(y, x) /\ Takes(y)
                                    /\ y.obj = o /\ y.who = OfNDRange(c)
  <2>1. CASE OfNDRange(c) \in refs[o]
    <3>1. ~(Gives(h) /\ h.who = OfNDRange(c))
      BY <1>1, <1>2 DEF ToRoute, Gives, Takes
    <3> QED
      BY <1>3, <1>5, <2>1, <3>1, PopRefs
  <2>2. ASSUME NEW y \in Pending, Before(y, x), Takes(y),
               y.obj = o, y.who = OfNDRange(c)
        PROVE  OfNDRange(c) \in refs'[o] \/ y \in Pending'
    <3>1. y = h => OfNDRange(c) \in refs'[o]
      BY <1>3, <1>5, <2>2, PopRefs
    <3> QED
      BY <1>1, <3>1
  <2> QED
    BY <1>2, <1>5, <2>1, <2>2 DEF ToRoute
<1>6. \A y \in Pending' : y.who = OfNDRange(c) => Before(y, x) /\ Takes(y)
  BY <1>1, <1>2 DEF ToRoute
<1> QED
  BY <1>1, <1>2, <1>4, <1>5, <1>6 DEF ToRoute, Takes

\* An event completes once.
LEMMA PopEffects ==
    ASSUME Effects, NEW h, Popping(h)
    PROVE  Effects'
BY DEF Effects, Effect, Popping

\* m_last_event stays the only event counted as such.
LEMMA PopLast ==
    ASSUME Typed, Forms, LastCounted, LastOnly, NEW h, Popping(h)
    PROVE  LastCounted' /\ LastOnly'
<1>1. /\ h \in Pending /\ Pending' = Pending \ {h}
      /\ m_last_event' = m_last_event /\ overlapped' = overlapped
  BY DEF Popping
<1>2. LastOnly'
  BY <1>1 DEF LastOnly, Takes
<1>3. ASSUME m_last_event # None, m_last_event \notin overlapped
      PROVE  \/ Last \in refs'[m_last_event]
             \/ \E x \in Pending' : Takes(x) /\ x.obj = m_last_event /\ x.who = Last
  <2>1. m_last_event \in Counted
    BY <1>3, BoundAssumption DEF Typed, Issued, Cmds, Counted
  <2>2. ~(Gives(h) /\ h.obj = m_last_event /\ h.who = Last)
    BY <1>1 DEF LastOnly, Gives, Takes
  <2>3. h.obj = m_last_event /\ h.who = Last /\ Takes(h) => Last \in refs'[m_last_event]
    BY <1>3, <2>1, PopRefs
  <2>4. Last \in refs[m_last_event] => Last \in refs'[m_last_event]
    BY <1>3, <2>1, <2>2, PopRefs
  <2> QED
    BY <1>1, <1>3, <2>3, <2>4 DEF LastCounted
<1>4. LastCounted'
  BY <1>1, <1>3 DEF LastCounted, Takes
<1> QED
  BY <1>2, <1>4

\* Only a holder that may refer to an object does so.
LEMMA PopReferrers ==
    ASSUME Typed, Forms, NotIssued, OwnReferrers, NEW h, Popping(h)
    PROVE  NotIssued' /\ OwnReferrers'
<1>1. h \in Pending /\ Issued' = Issued
  BY DEF Popping, Issued
<1>2. ASSUME NEW c \in Cmds \ Issued, NEW r \in refs'[c] PROVE FALSE
  <2>1. h.obj # c /\ c \in Counted /\ r \notin refs[c]
    <3>1. c \notin Handles
      BY HandlesDiffer
    <3> QED
      BY <1>1, <3>1, FormFacts DEF Counted, NotIssued
  <2> QED
    BY <1>2, <2>1, PopRefs
<1>3. NotIssued'
  BY <1>1, <1>2 DEF NotIssued
<1>4. ASSUME NEW o \in Counted, NEW r \in refs'[o] PROVE r \in Referrers(o)
  <2>1. CASE r \in refs[o]
    BY <2>1 DEF OwnReferrers
  <2>2. CASE Takes(h) /\ o = h.obj /\ r = h.who
    <3>1. OfThread(h) \/ OfLoop(h)
      BY <1>1 DEF Forms
    <3>2. Issued \cap Handles = {}
      BY HandlesDiffer, BoundAssumption DEF Issued, Cmds, Typed
    <3>3. CASE h.obj \in Issued /\ h.who \in {Call, Last}
      BY <2>2, <3>2, <3>3 DEF Referrers
    <3>4. ASSUME NEW c \in Issued,
                 \/ h.obj \in CountedBy(c) /\ h.who = OfCmd(c)
                 \/ h.obj = kernel /\ h.who = OfNDRange(c)
          PROVE  r \in Referrers(o)
      <4>1. CASE h.obj \in CountedBy(c) /\ h.who = OfCmd(c)
        <5>1. CASE o \in Handles
          BY <2>2, <4>1, <5>1 DEF Referrers
        <5>2. CASE o \notin Handles
          BY <2>2, <4>1, <5>2 DEF Referrers, CountedBy, Handles
        <5> QED
          BY <5>1, <5>2
      <4>2. CASE h.obj = kernel /\ h.who = OfNDRange(c)
        BY <2>2, <4>2 DEF Referrers, Handles
      <4> QED
        BY <3>4, <4>1, <4>2
    <3>5. CASE h.obj \in Issued /\ h.who \in {OfCmd(h.obj), OfNDRange(h.obj)}
      BY <2>2, <3>2, <3>5 DEF Referrers
    <3>6. h.op = "up"
      BY <2>2 DEF Takes
    <3>7. CASE OfThread(h)
      BY <3>3, <3>4, <3>6, <3>7 DEF OfThread
    <3>8. CASE OfLoop(h)
      BY <3>3, <3>4, <3>5, <3>6, <3>8 DEF OfLoop, Effect
    <3> QED
      BY <3>1, <3>7, <3>8
  <2>3. CASE h.op = "hand" /\ o = h.obj /\ r = User
    <3>1. o \in Issued
      BY <1>1, <2>3, FormFacts
    <3>2. o \notin Handles
      BY <3>1, HandlesDiffer, BoundAssumption DEF Issued, Cmds, Typed
    <3> QED
      BY <2>3, <3>2 DEF Referrers
  <2> QED
    BY <2>1, <2>2, <2>3, PopRefs
<1>5. \A c : CountedBy(c)' = CountedBy(c)
  BY DEF Popping, CountedBy, IsBuffer
<1>6. OwnReferrers'
  BY <1>1, <1>4, <1>5 DEF OwnReferrers, Referrers
<1> QED
  BY <1>3, <1>6

\* Whoever had to give a reference up still has, unless it has just done so.
LEMMA PopAccounted ==
    ASSUME Typed, Forms, Fresh, LastOnly, Accounted, NEW h, Popping(h)
    PROVE  Accounted'
<1>1. /\ h \in Pending /\ Pending' = Pending \ {h} /\ Issued' = Issued
      /\ m_last_event' = m_last_event /\ overlapped' = overlapped
  BY DEF Popping, Issued
<1>2. h.op # "submit"
  BY DEF Popping
<1>3. ASSUME NEW o \in Counted \ overlapped, NEW r \in refs'[o], Given(o, r)
      PROVE  Given(o, r)'
  <2>1. PICK x \in Pending : Gives(x) /\ x.obj = o /\ x.who = r
    BY <1>3 DEF Given
  <2>2. x # h
    BY <1>3, <2>1, PopRefs
  <2> QED
    BY <1>1, <2>1, <2>2 DEF Given, Gives
<1>4. \A c : Started(c)' => Started(c)
  BY <1>1 DEF Started, Popping, Effect
<1> SUFFICES ASSUME NEW o \in Counted \ overlapped
      PROVE  /\ Call \in refs'[o] => Given(o, Call)'
             /\ Last \in refs'[o] => o = m_last_event \/ Given(o, Last)'
             /\ \A c \in Issued :
                   OfCmd(c) \in refs'[o] /\ Started(c)' => Given(o, OfCmd(c))'
             /\ \A c \in Issued : OfNDRange(c) \in refs'[o] =>
                   \/ c \in running' \/ Given(o, OfNDRange(c))'
                   \/ \E x \in Pending' : x.op = "route" /\ x.obj = c
  BY <1>1 DEF Accounted
<1>5. ASSUME Call \in refs'[o] PROVE Given(o, Call)'
  <2>1. CASE Call \in refs[o]
    BY <1>3, <1>5, <2>1 DEF Accounted
  <2>2. CASE Call \notin refs[o]
    <3>1. Takes(h) /\ h.obj = o /\ h.who = Call
      BY <1>5, <2>2, PopRefs, HoldersDiffer
    <3>2. CallGivesLater(h)
      BY <1>1, <3>1, FormFacts
    <3> QED
      BY <1>1, <1>2, <3>1, <3>2 DEF CallGivesLater, Given, Gives, Same
  <2> QED
    BY <2>1, <2>2
<1>6. ASSUME Last \in refs'[o] PROVE o = m_last_event \/ Given(o, Last)'
  <2>1. CASE Last \in refs[o]
    BY <1>3, <1>6, <2>1 DEF Accounted
  <2>2. CASE Last \notin refs[o]
    BY <1>1, <1>6, <2>2, PopRefs, HoldersDiffer DEF LastOnly
  <2> QED
    BY <2>1, <2>2
<1>7. ASSUME NEW c \in Issued, OfCmd(c) \in refs'[o], Started(c)'
      PROVE  Given(o, OfCmd(c))'
  <2>1. CASE OfCmd(c) \in refs[o]
    BY <1>3, <1>4, <1>7, <2>1 DEF Accounted
  <2>2. CASE OfCmd(c) \notin refs[o]
    <3>1. c \in Cmds
      BY BoundAssumption DEF Typed, Issued, Cmds
    <3>2. Takes(h) /\ h.who = OfCmd(c)
      BY <1>7, <2>2, <3>1, PopRefs, HoldersDiffer
    <3>3. SubmitLater(h, c)
      BY <1>1, <3>2, FormFacts
    <3>4. FreshCmd(c)
      BY <3>3 DEF SubmitLater, Fresh, InCall
    <3>5. \A x \in Pending : Effect(x) => x.obj # c
      BY <3>4, FormFacts DEF FreshCmd, Mentions
    <3> QED
      BY <1>4, <1>7, <3>4, <3>5 DEF Started, FreshCmd
  <2> QED
    BY <2>1, <2>2
<1>8. ASSUME NEW c \in Issued, OfNDRange(c) \in refs'[o]
      PROVE  \/ c \in running' \/ Given(o, OfNDRange(c))'
             \/ \E x \in Pending' : x.op = "route" /\ x.obj = c
  <2>1. ASSUME NEW x \in Pending, x.op = "route", x.obj = c
        PROVE  c \in running' \/ x \in Pending'
    BY <1>1, <2>1 DEF Popping
  <2>2. CASE OfNDRange(c) \in refs[o]
    <3>1. c \in running => c \in running'
      BY DEF Popping
    <3>2. Given(o, OfNDRange(c)) => Given(o, OfNDRange(c))'
      BY <1>3, <1>8
    <3> QED
      BY <2>1, <2>2, <3>1, <3>2 DEF Accounted
  <2>3. CASE OfNDRange(c) \notin refs[o]
    <3>1. c \in Cmds
      BY BoundAssumption DEF Typed, Issued, Cmds
    <3>2. Takes(h) /\ h.who = OfNDRange(c)
      BY <1>8, <2>3, <3>1, PopRefs, HoldersDiffer
    <3>3. RouteLater(h, c)
      BY <1>1, <3>2, FormFacts
    <3> QED
      BY <2>1, <3>3 DEF RouteLater
  <2> QED
    BY <2>2, <2>3
<1> QED
  BY <1>5, <1>6, <1>7, <1>8

\* A command is started by its effect, and stays so.
LEMMA PopEverywhere ==
    ASSUME Everywhere, Waits, NEW h, Popping(h)
    PROVE  Everywhere' /\ Waits'
<1>1. /\ h \in Pending /\ h.op # "submit" /\ Pending' = Pending \ {h}
      /\ queue' = queue /\ lost' = lost /\ issued' = issued
      /\ m_last_event' = m_last_event
      /\ complete' = IF h.op = "complete" THEN complete \cup {h.obj} ELSE complete
      /\ running'  = IF h.op = "route" THEN running \cup {h.obj} ELSE running
  BY DEF Popping
<1>2. \A c : InCall(c) => InCall(c)'
  BY <1>1 DEF InCall
<1>3. \A c : InQueue(c)' <=> InQueue(c)
  BY <1>1 DEF InQueue
<1>4. ASSUME NEW c, Started(c) PROVE Started(c)'
  <2>1. CASE c \in complete \cup running \cup {m_last_event}
    BY <1>1, <2>1 DEF Started
  <2>2. ASSUME NEW x \in Pending, Effect(x), x.obj = c PROVE Started(c)'
    <3>1. CASE x = h
      BY <1>1, <2>2, <3>1 DEF Started, Effect
    <3>2. CASE x # h
      BY <1>1, <2>2, <3>2 DEF Started, Effect
    <3> QED
      BY <3>1, <3>2
  <2> QED
    BY <1>4, <2>1, <2>2 DEF Started
<1>5. Everywhere'
  BY <1>1, <1>2, <1>3, <1>4 DEF Everywhere, Issued
<1> QED
  BY <1>1, <1>5 DEF Waits

\* Doing the next operation keeps the discipline.
LEMMA PopDiscipline ==
    ASSUME Typed, Discipline, NEW h, Popping(h)
    PROVE  Discipline'
<1> USE DEF Discipline
<1>1. Forms' /\ Unique'
  BY PopForms, PopUnique
<1>2. NotYet' /\ Owned'
  BY PopNotYet, PopOwned
<1>3. OneOutcome' /\ HeldCounted'
  BY PopOneOutcome, PopHeldCounted
<1>4. Guarded' /\ Fresh'
  BY PopGuarded, PopFresh
<1>5. Islands' /\ Routes' /\ Effects'
  BY PopIslands, PopRoutes, PopEffects
<1>6. LastCounted' /\ LastOnly' /\ NotIssued' /\ OwnReferrers' /\ Accounted'
  BY PopLast, PopReferrers, PopAccounted
<1>7. Everywhere' /\ Waits'
  BY PopEverywhere
<1> QED
  BY <1>1, <1>2, <1>3, <1>4, <1>5, <1>6, <1>7

\* What the threads have to do and the references stay, and a command that leaves
\* the ring is lost.
LEMMA RingDiscipline ==
    ASSUME Discipline, overlapped \subseteq overlapped',
           \A c : InQueue(c)' <=> InQueue(c), OncePerRing',
           UNCHANGED <<issued, type, todo, held, m_last_event, running,
                       complete, refs>>
    PROVE  Discipline'
<1> USE DEF Discipline
<1>1. Pending' = Pending /\ Issued' = Issued
  BY DEF Pending, Listed, Duty, Issued
<1>2. \A c : CountedBy(c)' = CountedBy(c)
  BY DEF CountedBy, IsBuffer
<1>3. Forms'
  BY <1>1, <1>2 DEF Forms, OfThread, OfLoop, SubmitLater, RouteLater,
        CallGivesLater, Same, Effect, Before
<1>4. Unique' /\ NotYet' /\ OneOutcome' /\ Effects' /\ LastOnly'
  BY <1>1 DEF Unique, NotYet, OneOutcome, Effects, LastOnly, Same, Takes, Gives,
              Effect
<1>5. Owned' /\ HeldCounted'
  BY <1>1 DEF Owned, HeldCounted, TakenBefore, Same, Takes, Gives, Before
<1>6. Guarded'
  BY <1>1 DEF Guarded, Accesses, SubmitLater, GivenLater, Gives, Before
<1>7. Fresh'
  <2>1. \A c : FreshCmd(c) => FreshCmd(c)'
    BY <1>1, <1>2 DEF FreshCmd, SubmitLater, Takes, Before, Mentions
  <2>2. \A c : InCall(c)' <=> InCall(c)
    BY <1>1 DEF InCall
  <2> QED
    BY <1>1, <2>1, <2>2 DEF Fresh
<1>8. Islands' /\ Routes'
  BY <1>1 DEF Islands, OnIslands, Routes, ToRoute, Effect, Takes, Before
<1>9. LastCounted' /\ NotIssued' /\ OwnReferrers'
  BY <1>1, <1>2 DEF LastCounted, NotIssued, OwnReferrers, Referrers, Takes
<1>10. Accounted'
  <2>1. \A o, r : Given(o, r)' <=> Given(o, r)
    BY <1>1 DEF Given, Gives
  <2>2. \A c : Started(c)' <=> Started(c)
    BY <1>1 DEF Started, Effect
  <2> QED
    BY <1>1, <2>1, <2>2 DEF Accounted
<1>11. Everywhere' /\ Waits'
  <2>1. \A c : (InCall(c)' <=> InCall(c)) /\ (Started(c)' <=> Started(c))
    BY <1>1 DEF InCall, Started, Effect
  <2> QED
    BY <1>1, <2>1 DEF Everywhere, Waits
<1> QED
  BY <1>3, <1>4, <1>5, <1>6, <1>7, <1>8, <1>9, <1>10, <1>11

\* Loading a counter only adds to the objects that are excepted.
LEMMA LoadDiscipline ==
    ASSUME Discipline, overlapped \subseteq overlapped',
           UNCHANGED <<issued, type, todo, held, queue, lost, m_last_event, running,
                       complete, refs>>
    PROVE  Discipline'
<1>1. (\A c : InQueue(c)' <=> InQueue(c)) /\ OncePerRing'
  BY DEF InQueue, OncePerRing, Discipline, Fresh
<1> QED
  BY <1>1, RingDiscipline

\* What the discipline is for: when its turn comes, a reference that is given
\* up is there, and an object that is accessed is referred to.
LEMMA InTime ==
    ASSUME Typed, Discipline, NEW t \in Actors, NEW h, IsNext(t, h),
           h.obj \notin overlapped
    PROVE  /\ Gives(h) => h.who \in refs[h.obj]
           /\ Accesses(h) => refs[h.obj] # {}
<1> USE DEF Discipline
<1>1. /\ h \in Pending /\ h.actor = t
      /\ \A x \in Pending : x.actor = t /\ x # h => Before(h, x)
  BY DEF IsNext
<1>2. \A x \in Pending : ~Before(x, h)
  <2> SUFFICES ASSUME NEW x \in Pending, Before(x, h) PROVE FALSE
    OBVIOUS
  <2>1. h.left \in Nat /\ x.left \in Nat
    BY <1>1, FormFacts
  <2> QED
    BY <1>1, <2>1 DEF Before
<1>3. Gives(h) => h.who \in refs[h.obj]
  BY <1>1, <1>2 DEF Owned, TakenBefore
<1>4. ASSUME Accesses(h) PROVE refs[h.obj] # {}
  <2>1. CASE h.obj \in held
    BY <2>1, <1>4 DEF HeldCounted
  <2>2. CASE SubmitLater(h, h.obj)
    <3>1. InCall(h.obj) /\ h.obj \in Issued
      BY <1>1, <2>2, HoldersDiffer
         DEF SubmitLater, InCall, Forms, OfThread, OfLoop, Effect
    <3>2. FreshCmd(h.obj) /\ h.obj \in CountedBy(h.obj)
      BY <3>1 DEF Fresh, CountedBy
    <3> QED
      BY <1>4, <3>2 DEF FreshCmd, Accesses
  <2> QED
    BY <1>1, <1>4, <2>1, <2>2 DEF Guarded, GivenLater
<1> QED
  BY <1>3, <1>4

\* So it is alive.
LEMMA AliveInTime ==
    ASSUME Typed, Discipline, Counters, NEW t \in Actors, NEW h, IsNext(t, h),
           Gives(h) \/ h.op \in {"up", "use", "wait", "complete"},
           ~alive[h.obj]
    PROVE  h.obj \in overlapped \/ (h.obj = program /\ h.op = "use")
<1> SUFFICES ASSUME h.obj \notin overlapped PROVE h.obj = program /\ h.op = "use"
  OBVIOUS
<1>1. h \in Pending
  BY DEF IsNext
<1>2. Forms
  BY DEF Discipline
<1>3. h.obj \in Counted
  BY <1>1, <1>2, FormFacts
<1>4. refs[h.obj] = {}
  BY <1>3 DEF Counters, Exact
<1>5. ~Gives(h) /\ ~Accesses(h)
  BY <1>4, InTime
<1>6. h.obj = program
  BY <1>5 DEF Accesses
<1>7. h.op # "up" /\ h.op # "wait" /\ h.op # "complete"
  <2>1. program \notin Issued
    BY HandlesDiffer, BoundAssumption DEF Typed, Issued, Cmds, Handles
  <2>2. \A c \in Issued : program \notin CountedBy(c) /\ program \notin {kernel, c}
    BY <2>1, HandlesDiffer DEF CountedBy
  <2>3. OfThread(h) \/ OfLoop(h)
    BY <1>1, <1>2 DEF Forms
  <2>4. CASE OfThread(h)
    BY <1>6, <2>1, <2>2, <2>4 DEF OfThread
  <2>5. CASE OfLoop(h)
    BY <1>6, <2>1, <2>2, <2>5 DEF OfLoop, Effect
  <2> QED
    BY <2>3, <2>4, <2>5
<1> QED
  BY <1>5, <1>6, <1>7

-----------------------------------------------------------------------------
(* The steps of a call.                                                    *)

\* The rest of a list is a list.
LEMMA RestTyped ==
    ASSUME todo \in [Actors -> Seq(Steps)], NEW t \in Actors, todo[t] # <<>>
    PROVE  Rest(t) \in [Actors -> Seq(Steps)]
<1>1. Tail(todo[t]) \in Seq(Steps)
  OBVIOUS
<1> QED
  BY <1>1 DEF Rest

\* A thread that has loaded nothing and leaves the number of the referrers of
\* every object as it is does not disturb the counters.
LEMMA CountersKept ==
    ASSUME Typed, Registers, Counters, NEW t \in Actors, reg[t] = -1,
           \A u \in Actors \ {t} : todo'[u] = todo[u],
           UNCHANGED <<m_counter, alive, reg, overlapped>>,
           \A o \in Counted \ overlapped :
              /\ IsFiniteSet(refs'[o])
              /\ Cardinality(refs'[o]) = Cardinality(refs[o])
              /\ refs'[o] = {} <=> refs[o] = {}
    PROVE  Registers' /\ Counters'
<1>1. \A u \in Actors : reg[u] # -1 =>
         u # t /\ todo'[u] = todo[u] /\ Now(u)' = Now(u)
  BY DEF Now
<1>2. Registers'
  BY <1>1 DEF Registers, Doing
<1>3. ASSUME NEW o \in Counted \ overlapped PROVE Exact(o)'
  BY <1>1, <1>3 DEF Counters, Exact
<1> QED
  BY <1>2, <1>3 DEF Counters

\* A value loaded is one the thread is about to store.
LEMMA NotLoaded ==
    ASSUME Registers, Typed, NEW t \in Actors, ~Doing(t, {"up", "down"})
    PROVE  reg[t] = -1
BY DEF Registers

\* The next operation, with the records of the list. 
LEMMA NextPending ==
    ASSUME Typed, Discipline, NEW t \in Actors, todo[t] # <<>>
    PROVE  /\ IsNext(t, Front(t))
           /\ Front(t) \in Pending
           /\ Now(t).obj \in Counted
           /\ Rest(t) \in [Actors -> Seq(Steps)]
           /\ todo' = Rest(t) =>
                 /\ Pending' = Pending \ {Front(t)}
                 /\ \A u \in Actors \ {t} : todo'[u] = todo[u]
<1>1. todo \in [Actors -> Seq(Steps)]
  BY DEF Typed
<1>2. IsNext(t, Front(t)) /\ (todo' = Rest(t) => Pending' = Pending \ {Front(t)})
  BY <1>1, Popped
<1>3. Front(t) \in Pending
  BY <1>2 DEF IsNext
<1>4. Now(t).obj \in Counted
  BY <1>2, <1>3, FormFacts DEF IsNext, Discipline
<1>5. Rest(t) \in [Actors -> Seq(Steps)]
  BY <1>1, RestTyped
<1>6. todo' = Rest(t) => \A u \in Actors \ {t} : todo'[u] = todo[u]
  BY <1>1 DEF Rest
<1> QED
  BY <1>2, <1>3, <1>4, <1>5, <1>6

\* A load of a live object's counter: a second loader makes it an exception,
\* and the only one has the exact value.
LEMMA LoadAlive ==
    ASSUME IInv, NEW t \in Actors, LoadCounter(t), alive[Now(t).obj]
    PROVE  IInv'
<1> DEFINE o == Now(t).obj
<1>1. /\ todo[t] # <<>> /\ Now(t).op \in {"up", "down"} /\ reg[t] = -1
      /\ reg' = [reg EXCEPT ![t] = m_counter[o]]
      /\ overlapped' = IF Overlap(t, o) THEN overlapped \cup {o} ELSE overlapped
      /\ UNCHANGED <<todo, bad>>
      /\ UNCHANGED <<issued, type, m_counter, alive, held, queue, lost, released,
                     m_last_event, running, complete, refs>>
  BY DEF LoadCounter, Doing, ring
<1>2. /\ Typed /\ Registers /\ Counters /\ Discipline /\ Apart /\ NoUseAfterDelete
  BY DEF IInv
<1>3. o \in Counted
  BY <1>1, <1>2, NextPending
<1>4. m_counter[o] \in Nat /\ overlapped' \subseteq Counted
  BY <1>1, <1>2, <1>3 DEF Typed
<1>5. reg' \in [Actors -> Nat \cup {-1}]
  BY <1>1, <1>2, <1>4 DEF Typed
<1>6. Typed'
  BY <1>1, <1>2, <1>4, <1>5 DEF Typed, Issued
<1>7. Registers'
  BY <1>1, <1>2 DEF Registers, Typed, Doing, Now
<1>8. reg'[t] = m_counter[o] /\ \A u \in Actors \ {t} : reg'[u] = reg[u]
  BY <1>1, <1>2 DEF Typed
<1>9. \A u : Now(u)' = Now(u)
  BY <1>1 DEF Now
<1>10. ASSUME NEW q \in Counted \ overlapped' PROVE Exact(q)'
  <2>1. Exact(q) /\ q \notin overlapped
    BY <1>1, <1>2, <1>10 DEF Counters
  <2>2. CASE q = o
    <3>1. \A u \in Actors \ {t} : ~(reg'[u] # -1 /\ Now(u).obj = o)
      BY <1>1, <1>8, <1>10, <2>2 DEF Overlap
    <3> QED
      BY <1>1, <1>8, <1>9, <2>1, <2>2, <3>1 DEF Exact
  <2>3. CASE q # o
    BY <1>1, <1>8, <1>9, <2>1, <2>3 DEF Exact
  <2> QED
    BY <2>2, <2>3
<1>11. Counters'
  BY <1>10 DEF Counters
<1>12. overlapped \subseteq overlapped'
  BY <1>1
<1>13. Discipline'
  BY <1>1, <1>2, <1>12, LoadDiscipline
<1>14. Apart' /\ NoUseAfterDelete'
  BY <1>1, <1>2, <1>12 DEF Apart, NoUseAfterDelete
<1> QED
  BY <1>6, <1>7, <1>11, <1>13, <1>14 DEF IInv

\* A step that does the next operation of a list, but for a store, and that
\* accesses a deleted object only if two threads updated it together.
LEMMA QuietPop ==
    ASSUME IInv, NEW t \in Actors, todo[t] # <<>>, todo' = Rest(t),
           Popping(Front(t)), reg[t] = -1,
           UNCHANGED <<m_counter, alive, reg, released>>,
           refs' \in [Counted -> SUBSET Holders],
           \A o \in Counted \ overlapped :
              /\ IsFiniteSet(refs'[o])
              /\ Cardinality(refs'[o]) = Cardinality(refs[o])
              /\ refs'[o] = {} <=> refs[o] = {},
           \/ bad' = bad
           \/ bad' = bad \cup {Front(t).obj} /\ Front(t).obj \in overlapped \cup {program},
           Effect(Front(t)) => Front(t).obj \in Issued,
           Front(t).op = "complete" => Front(t).obj \notin running,
           Front(t).op = "route" => Front(t).obj \notin complete
    PROVE  IInv'
<1> DEFINE h == Front(t)
<1>1. /\ Typed /\ Registers /\ Counters /\ Discipline /\ Apart /\ NoUseAfterDelete
  BY DEF IInv
<1>2. /\ UNCHANGED <<issued, type, held, queue, lost, m_last_event, overlapped>>
      /\ complete' = IF h.op = "complete" THEN complete \cup {h.obj} ELSE complete
      /\ running'  = IF h.op = "route" THEN running \cup {h.obj} ELSE running
  BY DEF Popping
<1>3. /\ Rest(t) \in [Actors -> Seq(Steps)]
      /\ \A u \in Actors \ {t} : todo'[u] = todo[u]
      /\ IsNext(t, h) /\ Now(t).obj \in Counted
  BY <1>1, NextPending
<1>4. h.obj \in Counted
  BY <1>3 DEF IsNext
<1>5. complete' \subseteq Issued /\ running' \subseteq Issued
  BY <1>1, <1>2 DEF Typed, Effect
<1>6. bad' \subseteq Counted
  BY <1>1, <1>4 DEF Typed
<1>7. Typed'
  BY <1>1, <1>2, <1>3, <1>5, <1>6 DEF Typed, Issued
<1>8. Registers' /\ Counters'
  BY <1>1, <1>2, <1>3, CountersKept
<1>9. Discipline'
  BY <1>1, PopDiscipline
<1>10. Apart'
  BY <1>1, <1>2 DEF Apart
<1>11. NoUseAfterDelete'
  BY <1>1, <1>2 DEF NoUseAfterDelete
<1> QED
  BY <1>7, <1>8, <1>9, <1>10, <1>11 DEF IInv

\* References that do not change are as many as they were.
LEMMA SameRefs ==
    ASSUME IInv, refs' = refs
    PROVE  /\ refs' \in [Counted -> SUBSET Holders]
           /\ \A o \in Counted \ overlapped :
                 /\ IsFiniteSet(refs'[o])
                 /\ Cardinality(refs'[o]) = Cardinality(refs[o])
                 /\ refs'[o] = {} <=> refs[o] = {}
BY DEF IInv, Typed, Counters, Exact

\* A counter is loaded from a deleted object only if it is an exception; the
\* operation is then skipped.
LEMMA LoadDead ==
    ASSUME IInv, NEW t \in Actors, LoadCounter(t), ~alive[Now(t).obj]
    PROVE  IInv'
<1> DEFINE h == Front(t)
<1>1. /\ todo[t] # <<>> /\ Now(t).op \in {"up", "down"} /\ reg[t] = -1
      /\ bad' = bad \cup {Now(t).obj} /\ todo' = Rest(t)
      /\ UNCHANGED <<reg, overlapped>>
      /\ UNCHANGED <<issued, type, m_counter, alive, held, queue, lost, released,
                     m_last_event, running, complete, refs>>
  BY DEF LoadCounter, Doing, ring
<1>2. Typed /\ Discipline /\ Counters
  BY DEF IInv
<1>3. IsNext(t, h) /\ h \in Pending /\ Pending' = Pending \ {h}
  BY <1>1, <1>2, NextPending
<1>4. /\ h.op = Now(t).op /\ h.obj = Now(t).obj /\ h.actor = t
      /\ \A x \in Pending : x.actor = t /\ x # h => Before(h, x)
  BY <1>3 DEF IsNext
<1>5. Gives(h) \/ h.op = "up"
  BY <1>1, <1>4 DEF Gives
<1>6. h.obj \in overlapped
  BY <1>1, <1>2, <1>3, <1>4, <1>5, AliveInTime
<1>7. RefsFollow(h)
  BY <1>1, <1>6 DEF RefsFollow
<1>8. Popping(h)
  BY <1>1, <1>3, <1>4, <1>7 DEF Popping
<1>9. /\ refs' \in [Counted -> SUBSET Holders]
      /\ \A o \in Counted \ overlapped :
            /\ IsFiniteSet(refs'[o])
            /\ Cardinality(refs'[o]) = Cardinality(refs[o])
            /\ refs'[o] = {} <=> refs[o] = {}
  BY <1>1, SameRefs
<1>10. ~Effect(h) /\ h.op # "complete" /\ h.op # "route"
  BY <1>1, <1>4 DEF Effect
<1>11. bad' = bad \cup {h.obj} /\ h.obj \in overlapped \cup {program}
  BY <1>1, <1>4, <1>6
<1> HIDE DEF h
<1> QED
  BY <1>1, <1>8, <1>9, <1>10, <1>11, QuietPop DEF h

\* A use of an object, and the end of a wait: the object is alive, or an
\* exception, or the program.
LEMMA Access ==
    ASSUME IInv, NEW t \in Actors, Doing(t, {"use", "wait"}), todo' = Rest(t),
           bad' = IF alive[Now(t).obj] THEN bad ELSE bad \cup {Now(t).obj},
           UNCHANGED <<issued, type, counters, held, queue, lost, released,
                       m_last_event, running, complete>>
    PROVE  IInv'
<1> DEFINE h == Front(t)
<1>1. todo[t] # <<>> /\ Now(t).op \in {"use", "wait"}
  BY DEF Doing
<1>2. Typed /\ Discipline /\ Counters /\ Registers
  BY DEF IInv
<1>3. IsNext(t, h) /\ h \in Pending /\ Pending' = Pending \ {h}
  BY <1>1, <1>2, NextPending
<1>4. /\ h.op = Now(t).op /\ h.obj = Now(t).obj /\ h.actor = t
      /\ \A x \in Pending : x.actor = t /\ x # h => Before(h, x)
  BY <1>3 DEF IsNext
<1>5. ~alive[h.obj] => h.obj \in overlapped \cup {program}
  BY <1>1, <1>2, <1>3, <1>4, AliveInTime
<1>6. UNCHANGED <<m_counter, alive, reg, refs, overlapped>>
  BY DEF counters
<1>7. ~Gives(h) /\ ~Takes(h) /\ h.op \notin {"hand", "submit", "complete", "route"}
  BY <1>1, <1>4 DEF Gives, Takes
<1>8. RefsFollow(h)
  BY <1>6, <1>7 DEF RefsFollow
<1>9. Popping(h)
  BY <1>3, <1>4, <1>6, <1>7, <1>8 DEF Popping
<1>10. /\ refs' \in [Counted -> SUBSET Holders]
      /\ \A o \in Counted \ overlapped :
            /\ IsFiniteSet(refs'[o])
            /\ Cardinality(refs'[o]) = Cardinality(refs[o])
            /\ refs'[o] = {} <=> refs[o] = {}
  BY <1>6, SameRefs
<1>11. \/ bad' = bad
       \/ bad' = bad \cup {h.obj} /\ h.obj \in overlapped \cup {program}
  BY <1>4, <1>5
<1>12. reg[t] = -1
  BY <1>1, <1>2, NotLoaded DEF Doing
<1>13. ~Effect(h)
  BY <1>7 DEF Effect
<1> HIDE DEF h
<1> QED
  BY <1>1, <1>6, <1>7, <1>9, <1>10, <1>11, <1>12, <1>13, QuietPop DEF h

\* The event becomes the user's: as many refer to it as before.
LEMMA Handed ==
    ASSUME IInv, NEW t \in Threads, HandToUser(t)
    PROVE  IInv'
<1> DEFINE h == Front(t)
           q == Now(t).obj
<1>1. /\ todo[t] # <<>> /\ Now(t).op = "hand" /\ todo' = Rest(t)
      /\ refs' = [refs EXCEPT ![q] = (@ \ {Call}) \cup {User}]
      /\ UNCHANGED <<issued, type, m_counter, alive, reg, overlapped, held,
                     queue, lost, released, m_last_event, running, complete, bad>>
  BY DEF HandToUser, Doing, ring
<1>2. Typed /\ Discipline /\ Counters /\ Registers /\ t \in Actors
  BY DEF IInv, Actors
<1>3. IsNext(t, h) /\ h \in Pending /\ Pending' = Pending \ {h} /\ q \in Counted
  BY <1>1, <1>2, NextPending
<1>4. /\ h.op = "hand" /\ h.obj = q /\ h.actor = t
      /\ \A x \in Pending : x.actor = t /\ x # h => Before(h, x)
  BY <1>1, <1>3 DEF IsNext
<1>5. h.who = Call /\ Gives(h) /\ ~Takes(h) /\ ~Effect(h)
  BY <1>2, <1>3, <1>4, FormFacts DEF Discipline, Gives, Takes, Effect
<1>6. /\ refs'[q] = (refs[q] \ {Call}) \cup {User}
      /\ \A o \in Counted \ {q} : refs'[o] = refs[o]
  BY <1>1, <1>2, <1>3 DEF Typed
<1>7. RefsFollow(h)
  BY <1>4, <1>5, <1>6, HoldersDiffer DEF RefsFollow
<1>8. Popping(h)
  BY <1>1, <1>3, <1>4, <1>7 DEF Popping
<1>9. refs' \in [Counted -> SUBSET Holders]
  <2>1. (refs[q] \ {Call}) \cup {User} \subseteq Holders
    BY <1>2, <1>3 DEF Typed, Holders
  <2> QED
    BY <1>1, <1>2, <1>3, <2>1 DEF Typed
<1>10. ASSUME NEW o \in Counted \ overlapped
       PROVE  /\ IsFiniteSet(refs'[o])
              /\ Cardinality(refs'[o]) = Cardinality(refs[o])
              /\ refs'[o] = {} <=> refs[o] = {}
  <2>1. IsFiniteSet(refs[o])
    BY <1>2, <1>10 DEF Counters, Exact
  <2>2. CASE o = q
    <3>1. Call \in refs[q] /\ User \notin refs[q]
      <4>1. Call \in refs[q]
        BY <1>2, <1>3, <1>4, <1>5, <1>10, <2>2, InTime
      <4>2. User \notin refs[q]
        BY <1>2, <1>3, <1>4, <1>5 DEF Discipline, OneOutcome
      <4> QED
        BY <4>1, <4>2
    <3>2. /\ IsFiniteSet(refs[q] \ {Call})
          /\ Cardinality(refs[q] \ {Call}) = Cardinality(refs[q]) - 1
      BY <2>1, <2>2, <3>1, FS_RemoveElement
    <3>3. User \notin refs[q] \ {Call}
      BY <3>1
    <3>4. /\ IsFiniteSet(refs'[q])
          /\ Cardinality(refs'[q]) = Cardinality(refs[q] \ {Call}) + 1
      <4> DEFINE R == refs[q] \ {Call}
      <4>1. IsFiniteSet(R) /\ User \notin R
        BY <3>2, <3>3
      <4> HIDE DEF R
      <4>2. IsFiniteSet(R \cup {User}) /\ Cardinality(R \cup {User}) = Cardinality(R) + 1
        BY <4>1, FS_AddElement
      <4>3. refs'[q] = R \cup {User}
        BY <1>6 DEF R
      <4> QED
        BY <4>2, <4>3 DEF R
    <3>5. Cardinality(refs[q]) \in Nat
      BY <2>1, <2>2, FS_CardinalityType
    <3>6. refs'[q] # {} /\ refs[q] # {}
      BY <1>6, <3>1
    <3> QED
      BY <2>2, <3>2, <3>4, <3>5, <3>6
  <2>3. CASE o # q
    BY <1>6, <2>1, <2>3
  <2> QED
    BY <2>2, <2>3
<1>11. reg[t] = -1
  BY <1>1, <1>2, NotLoaded DEF Doing
<1>12. h.op # "complete" /\ h.op # "route" /\ bad' = bad
  BY <1>1, <1>4
<1> HIDE DEF h
<1> QED
  BY <1>1, <1>2, <1>5, <1>8, <1>9, <1>10, <1>11, <1>12, QuietPop DEF h

\* The event is set complete, or the NDRange is handed to the islands.
LEMMA EffectDone ==
    ASSUME IInv, LoopEffect
    PROVE  IInv'
<1> DEFINE h == Front(Loop)
           c == Now(Loop).obj
<1>1. /\ todo[Loop] # <<>> /\ Now(Loop).op \in {"complete", "route"}
      /\ todo' = Rest(Loop)
      /\ UNCHANGED <<issued, type, m_counter, alive, reg, refs, overlapped,
                     held, queue, lost, released, m_last_event>>
  BY DEF LoopEffect, Doing, counters, ring
<1>2. /\ Typed /\ Discipline /\ Counters /\ Registers /\ Loop \in Actors
  BY DEF IInv, Actors
<1>3. IsNext(Loop, h) /\ h \in Pending /\ Pending' = Pending \ {h}
  BY <1>1, <1>2, NextPending
<1>4. /\ h.op = Now(Loop).op /\ h.obj = c /\ h.actor = Loop
      /\ \A x \in Pending : x.actor = Loop /\ x # h => Before(h, x)
  BY <1>3 DEF IsNext
<1>5. /\ complete' = IF h.op = "complete" THEN complete \cup {h.obj} ELSE complete
      /\ running' = IF h.op = "route" THEN running \cup {h.obj} ELSE running
      /\ bad' = IF h.op = "route" \/ alive[h.obj] THEN bad ELSE bad \cup {h.obj}
  BY <1>1, <1>4 DEF LoopEffect
<1>6. Effect(h) /\ ~Gives(h) /\ ~Takes(h) /\ h.op \notin {"hand", "submit"}
  BY <1>1, <1>4 DEF Effect, Gives, Takes
<1>7. RefsFollow(h)
  BY <1>1, <1>6 DEF RefsFollow
<1>8. Popping(h)
  BY <1>1, <1>3, <1>4, <1>5, <1>6, <1>7 DEF Popping
<1>9. /\ refs' \in [Counted -> SUBSET Holders]
      /\ \A o \in Counted \ overlapped :
            /\ IsFiniteSet(refs'[o])
            /\ Cardinality(refs'[o]) = Cardinality(refs[o])
            /\ refs'[o] = {} <=> refs[o] = {}
  BY <1>1, SameRefs
<1>10. h.op = "complete" /\ ~alive[h.obj] => h.obj \in overlapped
  BY <1>2, <1>3, AliveInTime
<1>11. \/ bad' = bad
       \/ bad' = bad \cup {h.obj} /\ h.obj \in overlapped \cup {program}
  BY <1>1, <1>4, <1>5, <1>10
<1>12. h.obj \in Issued
  BY <1>2, <1>3, <1>6 DEF Discipline, Forms, OfThread, OfLoop, Effect
<1>13. h.obj \notin running
  BY <1>2, <1>3, <1>6 DEF Discipline, Islands, OnIslands
<1>14. h.op = "route" => h.obj \notin complete
  BY <1>2, <1>3 DEF Discipline, Routes, ToRoute
<1>15. reg[Loop] = -1
  BY <1>1, <1>2, NotLoaded DEF Doing
<1> HIDE DEF h
<1> QED
  BY <1>1, <1>2, <1>8, <1>9, <1>11, <1>12, <1>13, <1>14, <1>15, QuietPop DEF h

\* A store that changes the referrers of one object by one, with its counter,
\* leaves every counter exact; the one thread that had loaded the counter is
\* done with it.
LEMMA CountersStored ==
    ASSUME Typed, Registers, Counters, NEW t \in Actors, reg[t] # -1,
           NEW q \in Counted, q = Now(t).obj,
           reg' = [reg EXCEPT ![t] = -1],
           \A u \in Actors \ {t} : todo'[u] = todo[u],
           overlapped' = overlapped,
           \A o \in Counted \ {q} : /\ m_counter'[o] = m_counter[o]
                                    /\ alive'[o] = alive[o]
                                    /\ refs'[o] = refs[o],
           q \notin overlapped => /\ IsFiniteSet(refs'[q])
                                  /\ m_counter'[q] = Cardinality(refs'[q])
                                  /\ alive'[q] <=> refs'[q] # {}
    PROVE  Registers' /\ Counters'
<1>1. reg'[t] = -1 /\ \A u \in Actors \ {t} : reg'[u] = reg[u]
  BY DEF Typed
<1>2. \A u \in Actors : reg'[u] # -1 => /\ u # t /\ reg[u] # -1 /\ reg'[u] = reg[u]
                                        /\ todo'[u] = todo[u] /\ Now(u)' = Now(u)
  BY <1>1 DEF Now
<1>3. Registers'
  BY <1>2 DEF Registers, Doing
<1>4. ASSUME NEW o \in Counted \ overlapped PROVE Exact(o)'
  <2>1. Exact(o)
    BY <1>4 DEF Counters
  <2>2. CASE o = q
    <3>1. \A u \in Actors : ~(reg'[u] # -1 /\ Now(u)'.obj = o)
      BY <1>2, <2>1, <2>2 DEF Exact
    <3> QED
      BY <1>4, <2>2, <3>1 DEF Exact
  <2>3. CASE o # q
    BY <1>2, <1>4, <2>1, <2>3 DEF Exact
  <2> QED
    BY <2>2, <2>3
<1> QED
  BY <1>3, <1>4 DEF Counters

\* The store of a count up or down, but for the counters.
LEMMA StorePop ==
    ASSUME IInv, NEW t \in Actors, Doing(t, {"up", "down"}), todo' = Rest(t),
           RefsFollow(Front(t)), Registers' /\ Counters',
           m_counter' \in [Counted -> Nat], alive' \in [Counted -> BOOLEAN],
           reg' = [reg EXCEPT ![t] = -1],
           refs' \in [Counted -> SUBSET Holders],
           UNCHANGED <<issued, type, held, queue, lost, released, m_last_event,
                       running, complete, overlapped, bad>>
    PROVE  IInv'
<1> DEFINE h == Front(t)
<1>1. todo[t] # <<>> /\ Now(t).op \in {"up", "down"}
  BY DEF Doing
<1>2. Typed /\ Discipline /\ Apart /\ NoUseAfterDelete
  BY DEF IInv
<1>3. /\ IsNext(t, h) /\ h \in Pending /\ Pending' = Pending \ {h}
      /\ Rest(t) \in [Actors -> Seq(Steps)]
  BY <1>1, <1>2, NextPending
<1>4. /\ h.op = Now(t).op /\ h.actor = t
      /\ \A x \in Pending : x.actor = t /\ x # h => Before(h, x)
  BY <1>3 DEF IsNext
<1>5. Popping(h)
  BY <1>1, <1>3, <1>4 DEF Popping
<1>6. reg' \in [Actors -> Nat \cup {-1}]
  BY <1>2 DEF Typed
<1>7. Typed'
  BY <1>2, <1>3, <1>6 DEF Typed, Issued
<1>8. Discipline'
  BY <1>2, <1>5, PopDiscipline
<1>9. Apart' /\ NoUseAfterDelete'
  BY <1>2 DEF Apart, NoUseAfterDelete
<1> QED
  BY <1>7, <1>8, <1>9 DEF IInv

\* One more referrer, one more in the counter.
LEMMA StoredUp ==
    ASSUME IInv, NEW t \in Actors, ref_cnt_up(t)
    PROVE  IInv'
<1> DEFINE h == Front(t)
           q == Now(t).obj
           w == Now(t).who
<1>1. /\ todo[t] # <<>> /\ Now(t).op = "up" /\ todo' = Rest(t) /\ reg[t] # -1
      /\ m_counter' = [m_counter EXCEPT ![q] = reg[t] + 1]
      /\ refs' = [refs EXCEPT ![q] = @ \cup {w}]
      /\ reg' = [reg EXCEPT ![t] = -1]
      /\ UNCHANGED <<issued, type, alive, held, queue, lost, released, m_last_event,
                     running, complete, overlapped, bad>>
  BY DEF ref_cnt_up, Doing, ring
<1>2. Typed /\ Registers /\ Counters /\ Discipline
  BY DEF IInv
<1>3. /\ IsNext(t, h) /\ h \in Pending /\ q \in Counted
      /\ \A u \in Actors \ {t} : todo'[u] = todo[u]
  BY <1>1, <1>2, NextPending
<1>4. h.op = "up" /\ h.obj = q /\ h.who = w
  BY <1>1, <1>3 DEF IsNext
<1>5. Takes(h) /\ ~Gives(h)
  BY <1>4 DEF Takes, Gives
<1>6. w \in Holders
  <2>1. w \in Holders \cup {Nobody}
    BY <1>2, <1>3, <1>4, PendingTypes DEF Typed, PendingTyped
  <2>2. w # Nobody
    BY <1>2, <1>3, <1>4, <1>5, FormFacts DEF Discipline
  <2> QED
    BY <2>1, <2>2
<1>7. /\ refs'[q] = refs[q] \cup {w}
      /\ \A o \in Counted \ {q} : refs'[o] = refs[o]
      /\ refs' \in [Counted -> SUBSET Holders]
  BY <1>1, <1>2, <1>3, <1>6 DEF Typed
<1>8. reg[t] \in Nat /\ m_counter'[q] = reg[t] + 1
  BY <1>1, <1>2, <1>3 DEF Typed
<1>9. /\ m_counter' \in [Counted -> Nat] /\ alive' \in [Counted -> BOOLEAN]
      /\ \A o \in Counted \ {q} : m_counter'[o] = m_counter[o]
  <2>1. m_counter \in [Counted -> Nat] /\ alive \in [Counted -> BOOLEAN]
    BY <1>2 DEF Typed
  <2>2. reg[t] + 1 \in Nat
    BY <1>8
  <2> HIDE DEF q
  <2> QED
    BY <1>1, <2>1, <2>2
<1>10. RefsFollow(h)
  BY <1>4, <1>5, <1>7 DEF RefsFollow
<1>11. ASSUME q \notin overlapped
       PROVE  /\ IsFiniteSet(refs'[q])
              /\ m_counter'[q] = Cardinality(refs'[q])
              /\ alive'[q] <=> refs'[q] # {}
  <2>1. Exact(q)
    BY <1>2, <1>3, <1>11 DEF Counters
  <2>2. w \notin refs[q]
    BY <1>2, <1>3, <1>4, <1>5 DEF Discipline, NotYet
  <2>3. /\ IsFiniteSet(refs[q] \cup {w})
        /\ Cardinality(refs[q] \cup {w}) = Cardinality(refs[q]) + 1
    <3> DEFINE R == refs[q]
    <3>1. IsFiniteSet(R) /\ w \notin R
      BY <2>1, <2>2 DEF Exact
    <3> HIDE DEF R, w
    <3>2. IsFiniteSet(R \cup {w}) /\ Cardinality(R \cup {w}) = Cardinality(R) + 1
      BY <3>1, FS_AddElement
    <3> QED
      BY <3>2 DEF R
  <2>4. reg[t] = Cardinality(refs[q])
    BY <1>1, <2>1 DEF Exact
  <2>5. refs[q] # {}
    <3>1. h.obj # program
      <4>1. program \notin Issued
        BY <1>2, HandlesDiffer, BoundAssumption DEF Typed, Issued, Cmds, Handles
      <4>2. \A c \in Issued : program \notin CountedBy(c) /\ program \notin {kernel, c}
        BY <4>1, HandlesDiffer DEF CountedBy
      <4>3. OfThread(h) \/ OfLoop(h)
        BY <1>2, <1>3 DEF Discipline, Forms
      <4> QED
        BY <1>4, <4>1, <4>2, <4>3 DEF OfThread, OfLoop, Effect
    <3>2. Accesses(h)
      BY <1>4, <1>11, <3>1 DEF Accesses
    <3> QED
      BY <1>2, <1>3, <1>4, <1>11, <3>2, InTime
  <2>6. alive'[q]
    BY <1>1, <2>1, <2>5 DEF Exact
  <2> QED
    BY <1>7, <1>8, <2>3, <2>4, <2>6
<1>12. Registers' /\ Counters'
  BY <1>1, <1>2, <1>3, <1>7, <1>9, <1>11, CountersStored
<1>13. Doing(t, {"up", "down"})
  BY <1>1 DEF Doing
<1> HIDE DEF h
<1> QED
  BY <1>1, <1>7, <1>9, <1>10, <1>12, <1>13, StorePop DEF h

\* One referrer less, one less in the counter; the last one deletes the object.
LEMMA StoredDown ==
    ASSUME IInv, NEW t \in Actors, ref_cnt_down(t)
    PROVE  IInv'
<1> DEFINE h == Front(t)
           q == Now(t).obj
           w == Now(t).who
           cnt == IF reg[t] > 0 THEN reg[t] - 1 ELSE reg[t]
<1>1. /\ todo[t] # <<>> /\ Now(t).op = "down" /\ todo' = Rest(t) /\ reg[t] # -1
      /\ m_counter' = [m_counter EXCEPT ![q] = cnt]
      /\ alive' = [alive EXCEPT ![q] = @ /\ cnt # 0]
      /\ refs' = [refs EXCEPT ![q] = @ \ {w}]
      /\ reg' = [reg EXCEPT ![t] = -1]
      /\ UNCHANGED <<issued, type, held, queue, lost, released, m_last_event,
                     running, complete, overlapped, bad>>
  BY DEF ref_cnt_down, Doing, ring
<1>2. Typed /\ Registers /\ Counters /\ Discipline
  BY DEF IInv
<1>3. /\ IsNext(t, h) /\ h \in Pending /\ q \in Counted
      /\ \A u \in Actors \ {t} : todo'[u] = todo[u]
  BY <1>1, <1>2, NextPending
<1>4. h.op = "down" /\ h.obj = q /\ h.who = w
  BY <1>1, <1>3 DEF IsNext
<1>5. Gives(h) /\ ~Takes(h)
  BY <1>4 DEF Takes, Gives
<1>6. /\ refs'[q] = refs[q] \ {w}
      /\ \A o \in Counted \ {q} : refs'[o] = refs[o]
      /\ refs' \in [Counted -> SUBSET Holders]
  BY <1>1, <1>2, <1>3 DEF Typed
<1>7. reg[t] \in Nat /\ cnt \in Nat
  BY <1>1, <1>2 DEF Typed
<1> HIDE DEF cnt
<1>8. /\ m_counter'[q] = cnt /\ alive'[q] = (alive[q] /\ cnt # 0)
      /\ m_counter' \in [Counted -> Nat] /\ alive' \in [Counted -> BOOLEAN]
      /\ \A o \in Counted \ {q} : /\ m_counter'[o] = m_counter[o]
                                  /\ alive'[o] = alive[o]
  BY <1>1, <1>2, <1>3, <1>7 DEF Typed
<1>9. RefsFollow(h)
  BY <1>4, <1>5, <1>6 DEF RefsFollow
<1>10. ASSUME q \notin overlapped
       PROVE  /\ IsFiniteSet(refs'[q])
              /\ m_counter'[q] = Cardinality(refs'[q])
              /\ alive'[q] <=> refs'[q] # {}
  <2>1. Exact(q)
    BY <1>2, <1>3, <1>10 DEF Counters
  <2>2. w \in refs[q]
    BY <1>2, <1>3, <1>4, <1>5, <1>10, InTime
  <2>3. /\ IsFiniteSet(refs[q] \ {w})
        /\ Cardinality(refs[q] \ {w}) = Cardinality(refs[q]) - 1
    BY <2>1, <2>2, FS_RemoveElement DEF Exact
  <2>4. reg[t] = Cardinality(refs[q])
    BY <1>1, <2>1 DEF Exact
  <2>5. Cardinality(refs[q] \ {w}) \in Nat
    BY <2>3, FS_CardinalityType
  <2>6. cnt = Cardinality(refs[q] \ {w})
    BY <1>7, <2>3, <2>4, <2>5 DEF cnt
  <2>7. Cardinality(refs[q] \ {w}) = 0 <=> refs[q] \ {w} = {}
    BY <2>3, FS_EmptySet
  <2>8. alive[q] = TRUE
    BY <2>1, <2>2, <1>2, <1>3 DEF Exact, Typed
  <2> QED
    BY <1>6, <1>8, <2>3, <2>6, <2>7, <2>8
<1>11. Registers' /\ Counters'
  BY <1>1, <1>2, <1>3, <1>6, <1>8, <1>10, CountersStored
<1>12. Doing(t, {"up", "down"})
  BY <1>1 DEF Doing
<1> HIDE DEF h
<1> QED
  BY <1>1, <1>6, <1>8, <1>9, <1>11, <1>12, StorePop DEF h

-----------------------------------------------------------------------------
(* The calls of the application begin.                                     *)

\* The operations of the calls are records of the lists.
LEMMA OpTyped ==
    ASSUME NEW n \in OpNames, NEW o \in Counted, NEW w \in Holders \cup {Nobody}
    PROVE  Op(n, o, w) \in Steps
BY DEF Op, Steps

\* clReleaseCommandQueue changes nothing of what the threads have to do.
LEMMA QueueReleased ==
    ASSUME IInv, NEW t \in Threads, ReleaseQueue(t)
    PROVE  IInv'
<1>1. /\ released' = TRUE
      /\ UNCHANGED <<issued, type, m_counter, alive, reg, refs, overlapped,
                     todo, held, queue, lost, m_last_event, running, complete, bad>>
  BY DEF ReleaseQueue, counters, ring
<1>2. /\ Typed /\ Registers /\ Counters /\ Discipline /\ Apart /\ NoUseAfterDelete
  BY DEF IInv
<1>3. Typed'
  BY <1>1, <1>2 DEF Typed, Issued
<1>4. Registers' /\ Counters'
  BY <1>1, <1>2 DEF Registers, Counters, Exact, Doing, Now
<1>5. Discipline'
  BY <1>1, <1>2, LoadDiscipline
<1>6. Apart' /\ NoUseAfterDelete'
  BY <1>1, <1>2 DEF Apart, NoUseAfterDelete
<1> QED
  BY <1>3, <1>4, <1>5, <1>6 DEF IInv

\* A handle that no call was given is released: the reference it stands for
\* becomes one the thread gives up.
LEMMA ReleaseDiscipline ==
    ASSUME Typed, Discipline, NEW t \in Threads, NEW o \in held, NEW d,
           Pending' = Pending \cup {d},
           d.actor = t, d.op = "down", d.obj = o, d.who = App,
           \A x \in Pending : x.actor \in Threads => x.obj # o,
           \A x \in Pending : x.actor # t,
           held' = held \ {o},
           UNCHANGED <<issued, type, queue, lost, m_last_event, running, complete,
                       refs, overlapped>>
    PROVE  Discipline'
<1> USE DEF Discipline
<1>1. Issued' = Issued /\ \A c : CountedBy(c)' = CountedBy(c)
  BY DEF Issued, CountedBy, IsBuffer
<1>2. o \in Handles /\ o \in Counted /\ t # Loop
  BY ThreadsAssumption DEF Typed, Counted
<1>3. ~Takes(d) /\ Gives(d) /\ ~Effect(d) /\ d.op \notin {"submit", "route"}
  BY DEF Takes, Gives, Effect
<1>4. \A c \in Issued : OfCmd(c) # App /\ OfNDRange(c) # App
  BY HoldersDiffer, BoundAssumption DEF Typed, Issued, Cmds
<1>5. Forms'
  <2>1. ASSUME NEW x \in Pending PROVE (OfThread(x) \/ OfLoop(x))'
    <3>1. \A c : SubmitLater(x, c) => SubmitLater(x, c)'
      BY DEF SubmitLater, Before
    <3>2. CallGivesLater(x) => CallGivesLater(x)'
      BY DEF CallGivesLater, Before, Same
    <3>3. \A c : RouteLater(x, c) => RouteLater(x, c)'
      BY DEF RouteLater, Before
    <3>4. OfThread(x) => OfThread(x)'
      BY <1>1, <3>1, <3>2 DEF OfThread
    <3>5. OfLoop(x) => OfLoop(x)'
      BY <1>1, <3>3 DEF OfLoop, Effect
    <3> QED
      BY <2>1, <3>4, <3>5 DEF Forms
  <2>2. OfThread(d)'
    BY <1>2 DEF OfThread
  <2> QED
    BY <2>1, <2>2 DEF Forms
<1>6. \A x \in Pending : x.who # App \/ x.obj # o
  BY FormFacts
<1>7. Unique'
  <2>1. \A x \in Pending : ~Same(x, d) /\ ~Same(d, x)
    BY <1>6 DEF Same
  <2> QED
    BY <2>1 DEF Unique, Same, Takes, Gives
<1>8. NotYet' /\ OneOutcome'
  BY <1>3, HoldersDiffer DEF NotYet, OneOutcome, Takes, Gives
<1>9. Owned'
  <2>1. o \notin overlapped => App \in refs[o]
    BY DEF HeldCounted
  <2>2. \A x : TakenBefore(x) => TakenBefore(x)'
    BY DEF TakenBefore, Takes, Same, Before
  <2> QED
    BY <2>1, <2>2 DEF Owned, Gives
<1>10. HeldCounted'
  BY DEF HeldCounted
<1>11. Guarded'
  <2>1. ~Accesses(d)'
    BY DEF Accesses
  <2>2. \A x : /\ SubmitLater(x, x.obj) => SubmitLater(x, x.obj)'
               /\ GivenLater(x) => GivenLater(x)'
    BY DEF SubmitLater, GivenLater, Before, Gives
  <2> QED
    BY <2>1, <2>2 DEF Guarded, Accesses
<1>12. Fresh'
  <2>1. \A c \in Issued : FreshCmd(c) => FreshCmd(c)'
    <3>1. \A x, c : SubmitLater(x, c) => SubmitLater(x, c)'
      BY DEF SubmitLater, Before
    <3> QED
      BY <1>1, <1>2, <3>1 DEF FreshCmd, Takes, Mentions
  <2>2. \A c : (InCall(c)' => InCall(c)) /\ (InQueue(c)' => InQueue(c))
    BY <1>3 DEF InCall, InQueue
  <2>3. OncePerRing'
    BY DEF Fresh, OncePerRing
  <2> QED
    BY <1>1, <1>3, <2>1, <2>2, <2>3 DEF Fresh
<1>13. Islands' /\ Routes' /\ Effects'
  <2>1. Islands'
    BY <1>3, <1>4 DEF Islands, OnIslands, Effect, Typed
  <2>2. \A x \in Pending : x.op = "route" => x.obj \in Issued
    BY DEF Forms, OfThread, OfLoop, Effect
  <2>3. Routes'
    BY <1>3, <1>4, <2>2 DEF Routes, ToRoute, Takes, Before
  <2>4. Effects'
    BY <1>3 DEF Effects, Effect
  <2> QED
    BY <2>1, <2>3, <2>4
<1>14. LastCounted' /\ LastOnly' /\ NotIssued' /\ OwnReferrers'
  BY <1>1, HoldersDiffer
     DEF LastCounted, LastOnly, NotIssued, OwnReferrers, Referrers, Takes
<1>15. Accounted'
  <2>1. \A q, r : Given(q, r) => Given(q, r)'
    BY DEF Given, Gives
  <2>2. \A c : Started(c)' <=> Started(c)
    BY <1>3 DEF Started, Effect
  <2> QED
    BY <1>1, <2>1, <2>2 DEF Accounted
<1>16. Everywhere' /\ Waits'
  <2>1. \A c : (InCall(c) => InCall(c)') /\ (InQueue(c) => InQueue(c)')
    BY DEF InCall, InQueue
  <2>2. \A c : Started(c) => Started(c)'
    BY DEF Started, Effect
  <2>3. Everywhere'
    BY <1>1, <2>1, <2>2 DEF Everywhere
  <2> QED
    BY <2>3 DEF Waits
<1> QED
  BY <1>5, <1>7, <1>8, <1>9, <1>10, <1>11, <1>12, <1>13, <1>14, <1>15, <1>16

\* A step that changes only what a thread has to do, and what is waiting.
LEMMA ListStep ==
    ASSUME IInv, NEW t \in Actors, reg[t] = -1, Discipline',
           NEW s \in Seq(Steps), todo' = [todo EXCEPT ![t] = s],
           queue' \in Seq(Issued), lost' \subseteq Issued,
           m_last_event' \in Issued \cup {None},
           held' \subseteq held, running' \subseteq running,
           UNCHANGED <<issued, type, m_counter, alive, reg, refs, overlapped,
                       released, complete, bad>>
    PROVE  IInv'
<1>1. /\ Typed /\ Registers /\ Counters /\ Apart /\ NoUseAfterDelete
  BY DEF IInv
<1>2. /\ todo' \in [Actors -> Seq(Steps)]
      /\ \A u \in Actors \ {t} : todo'[u] = todo[u]
  BY <1>1 DEF Typed
<1>3. Typed'
  BY <1>1, <1>2 DEF Typed, Issued
<1>4. \A o \in Counted \ overlapped :
         /\ IsFiniteSet(refs'[o])
         /\ Cardinality(refs'[o]) = Cardinality(refs[o])
         /\ refs'[o] = {} <=> refs[o] = {}
  BY SameRefs
<1>5. Registers' /\ Counters'
  BY <1>1, <1>2, <1>4, CountersKept
<1>6. Apart' /\ NoUseAfterDelete'
  BY <1>1 DEF Apart, NoUseAfterDelete
<1> QED
  BY <1>3, <1>5, <1>6 DEF IInv

\* clReleaseMemObject, clReleaseKernel, clReleaseProgram.
LEMMA Released ==
    ASSUME IInv, NEW t \in Threads, NEW o \in Handles, Release(t, o)
    PROVE  IInv'
<1> DEFINE s == <<Down(o, App)>>
           d == Duty(t, 1, Down(o, App))
<1>1. /\ todo[t] = <<>> /\ o \in held /\ held' = held \ {o}
      /\ \A u \in Threads : \A i \in 1 .. Len(todo[u]) : todo[u][i].obj # o
      /\ todo' = [todo EXCEPT ![t] = s]
      /\ UNCHANGED <<issued, type, m_counter, alive, reg, refs, overlapped,
                     queue, lost, released, m_last_event, running, complete, bad>>
  BY DEF Release, counters, ring
<1>2. Typed /\ Registers /\ Discipline /\ t \in Actors
  BY DEF IInv, Actors
<1>3. s \in Seq(Steps)
  <2>1. Down(o, App) \in Steps
    BY OpTyped DEF Down, OpNames, Holders, Counted
  <2> QED
    BY <2>1
<1>4. Listed(t, s) = {d}
  BY Lists
<1> HIDE DEF s
<1>5. Pending' = Pending \cup {d} /\ \A x \in Pending : x.actor # t
  BY <1>1, <1>2, <1>4, Pushed DEF Typed
<1>6. d.actor = t /\ d.op = "down" /\ d.obj = o /\ d.who = App
  BY DutyFields, OpFields DEF Down
<1> HIDE DEF d
<1>7. ASSUME NEW x \in Pending, x.actor \in Threads PROVE x.obj # o
  <2>1. PICK u \in Actors : x \in Listed(u, todo[u])
    BY DEF Pending
  <2>2. PICK k \in 1 .. Len(todo[u]) : x = Duty(u, k, todo[u][Len(todo[u]) + 1 - k])
    BY <2>1 DEF Listed
  <2>3. x.actor = u /\ x.obj = todo[u][Len(todo[u]) + 1 - k].obj
    BY <2>2, DutyFields
  <2>4. Len(todo[u]) + 1 - k \in 1 .. Len(todo[u])
    <3>1. Len(todo[u]) \in Nat
      BY <1>2 DEF Typed
    <3> QED
      BY <3>1
  <2> QED
    BY <1>1, <1>7, <2>3, <2>4
<1>8. Discipline'
  BY <1>1, <1>2, <1>5, <1>6, <1>7, ReleaseDiscipline
<1>9. reg[t] = -1
  BY <1>1, <1>2, NotLoaded DEF Doing
<1>10. queue' \in Seq(Issued) /\ lost' \subseteq Issued
       /\ m_last_event' \in Issued \cup {None}
  BY <1>1, <1>2 DEF Typed
<1> QED
  BY <1>1, <1>2, <1>3, <1>8, <1>9, <1>10, ListStep

\* What a submission leaves for its thread to do: to wait and to give the
\* reference of the call up, if it has one.
AfterSubmission(t, c, N) ==
    /\ \A x \in N : /\ x.actor = t /\ x.obj = c
                    /\ \/ x.op \in {"down", "hand"} /\ x.who = Call
                       \/ /\ x.op = "wait" /\ x.who = Nobody
                          /\ \E y \in N : Before(x, y) /\ Gives(y)
    /\ \A x, y \in N : Gives(x) /\ Gives(y) => x = y
    /\ type[c] = "NDRANGE" => N = {}
    /\ type[c] # "NDRANGE" => \E x \in N : Gives(x)

\* The lists Submit leaves are such.
LEMMA SubmissionLists ==
    ASSUME NEW t, NEW c \in Issued, Typed, NEW r \in Steps, r.obj = c,
           NEW s \in {IF type[c] = "NDRANGE" THEN <<>> ELSE <<Down(c, Call)>>,
                      IF type[c] = "NDRANGE" THEN <<>> ELSE AfterSubmit(c, r)}
    PROVE  AfterSubmission(t, c, Listed(t, s)) /\ s \in Seq(Steps)
<1>1. c \in Counted
  BY BoundAssumption DEF Typed, Issued, Cmds, Counted
<1> DEFINE G == {Down(c, Call), Op("hand", c, Call)}
           w == Op("wait", c, Nobody)
<1>2. G \subseteq Steps /\ w \in Steps
  BY <1>1, OpTyped DEF Down, OpNames, Holders
<1>3. /\ \A g \in G : g.op \in {"down", "hand"} /\ g.obj = c /\ g.who = Call
      /\ w.op = "wait" /\ w.obj = c /\ w.who = Nobody
  BY OpFields DEF Down
<1>4. \/ type[c] = "NDRANGE" /\ s = <<>>
      \/ type[c] # "NDRANGE" /\ \E g \in G : s = <<g>> \/ s = <<w, g>>
  <2>1. \A g \in Steps : <<>> \o <<g>> = <<g>> /\ <<w>> \o <<g>> = <<w, g>>
    <3> SUFFICES ASSUME NEW g \in Steps
                 PROVE  <<>> \o <<g>> = <<g>> /\ <<w>> \o <<g>> = <<w, g>>
      OBVIOUS
    <3> HIDE DEF w
    <3>1. <<>> \o <<g>> = <<g>>
      OBVIOUS
    <3>2. <<w>> \o <<g>> = <<w, g>>
      <4>1. <<w>> \in Seq(Steps) /\ <<g>> \in Seq(Steps) /\ <<w, g>> \in Seq(Steps)
        BY <1>2
      <4>2. /\ <<w>> \o <<g>> \in Seq(Steps)
            /\ Len(<<w>> \o <<g>>) = 2
            /\ (<<w>> \o <<g>>)[1] = w /\ (<<w>> \o <<g>>)[2] = g
        BY <4>1
      <4>3. Len(<<w, g>>) = 2 /\ <<w, g>>[1] = w /\ <<w, g>>[2] = g
        OBVIOUS
      <4> DEFINE l == <<w>> \o <<g>>
                 m == <<w, g>>
      <4>4. l \in Seq(Steps) /\ m \in Seq(Steps) /\ Len(l) = Len(m)
        BY <4>1, <4>2, <4>3
      <4>5. 1 .. Len(l) = {1, 2}
        BY <4>2
      <4>6. \A i \in 1 .. Len(l) : l[i] = m[i]
        BY <4>2, <4>3, <4>5
      <4> HIDE DEF l, m
      <4>7. l = m
        BY <4>4, <4>6, SeqEqual
      <4> QED
        BY <4>7 DEF l, m
    <3> QED
      BY <3>1, <3>2
  <2>2. \E g \in G : AfterSubmit(c, r) = <<g>> \/ AfterSubmit(c, r) = <<w, g>>
    <3> DEFINE g == IF r.wants THEN Op("hand", c, Call) ELSE Down(c, Call)
    <3>1. g \in G
      OBVIOUS
    <3>2. AfterSubmit(c, r) = (IF r.blocking THEN <<w>> ELSE <<>>) \o <<g>>
      BY DEF AfterSubmit
    <3> HIDE DEF g, w, G
    <3> QED
      BY <1>2, <2>1, <3>1, <3>2
  <2>3. Down(c, Call) \in G
    OBVIOUS
  <2> HIDE DEF w, G
  <2> QED
    BY <2>2, <2>3
<1> HIDE DEF G, w
<1>5. CASE type[c] = "NDRANGE" /\ s = <<>>
  BY <1>5, Lists DEF AfterSubmission
<1>6. ASSUME NEW g \in G, type[c] # "NDRANGE", s = <<g>>
      PROVE  AfterSubmission(t, c, Listed(t, s)) /\ s \in Seq(Steps)
  <2> DEFINE d == Duty(t, 1, g)
  <2>1. Listed(t, s) = {d}
    BY <1>6, Lists
  <2>2. d.actor = t /\ d.obj = c /\ d.op \in {"down", "hand"} /\ d.who = Call
    BY <1>3, DutyFields
  <2> HIDE DEF d
  <2>3. Gives(d)
    BY <2>2 DEF Gives
  <2>4. s \in Seq(Steps)
    BY <1>2, <1>6
  <2> QED
    BY <1>6, <2>1, <2>2, <2>3, <2>4 DEF AfterSubmission
<1>7. ASSUME NEW g \in G, type[c] # "NDRANGE", s = <<w, g>>
      PROVE  AfterSubmission(t, c, Listed(t, s)) /\ s \in Seq(Steps)
  <2> DEFINE d == Duty(t, 1, g)
             e == Duty(t, 2, w)
  <2>1. Listed(t, s) = {e, d}
    <3>1. Listed(t, <<w, g>>) = {Duty(t, 2, w), Duty(t, 1, g)}
      BY Lists, Zenon
    <3> QED
      BY <1>7, <3>1
  <2>2. /\ d.actor = t /\ d.obj = c /\ d.op \in {"down", "hand"} /\ d.who = Call
        /\ e.actor = t /\ e.obj = c /\ e.op = "wait" /\ e.who = Nobody
        /\ d.left = 1 /\ e.left = 2
    BY <1>3, DutyFields
  <2> HIDE DEF d, e
  <2>3. Gives(d) /\ Before(e, d) /\ ~Gives(e)
    BY <2>2 DEF Gives, Before
  <2>4. s \in Seq(Steps)
    BY <1>2, <1>7
  <2> QED
    BY <1>7, <2>1, <2>2, <2>3, <2>4 DEF AfterSubmission
<1> QED
  BY <1>4, <1>5, <1>6, <1>7

\* The command is in the queue, or refused for ever; its call keeps its
\* reference to the event until the end.
LEMMA SubmitDiscipline ==
    ASSUME Typed, Discipline, NEW t \in Threads, NEW h \in Pending,
           h.actor = t, h.op = "submit", NEW N,
           AfterSubmission(t, h.obj, N),
           Pending' = (Pending \ {h}) \cup N,
           \A x \in Pending \ {h} : x.actor # t,
           \/ queue' = queue /\ lost' = lost \cup {h.obj}
           \/ queue' = Append(queue, h.obj) /\ lost' = lost,
           UNCHANGED <<issued, type, held, m_last_event, running, complete,
                       refs, overlapped>>
    PROVE  Discipline'
<1> USE DEF Discipline
<1> DEFINE c == h.obj
<1>1. Issued' = Issued /\ \A d : CountedBy(d)' = CountedBy(d)
  BY DEF Issued, CountedBy, IsBuffer
<1>2. /\ c \in Issued /\ h.left = 1
      /\ h.who = IF type[c] = "NDRANGE" THEN Nobody ELSE Call
  <2>1. OfThread(h)
    BY DEF Forms, OfLoop, Effect
  <2>2. h.op # "use" /\ h.op # "wait" /\ h.op # "up" /\ h.op # "down" /\ h.op # "hand"
    OBVIOUS
  <2> QED
    BY <2>1, <2>2 DEF OfThread
<1>3. t # Loop /\ h \notin N
  <2>1. \A x \in N : x.op # "submit"
    BY DEF AfterSubmission
  <2> QED
    BY <2>1, ThreadsAssumption
<1>4. /\ \A x \in N : /\ x.actor = t /\ x.obj = c /\ x.who \in {Call, Nobody}
                      /\ ~Takes(x) /\ ~Effect(x)
                      /\ x.op \notin {"submit", "route", "up"}
                      /\ Gives(x) => x.who = Call
      /\ N # {} => type[c] # "NDRANGE"
  BY DEF AfterSubmission, Takes, Effect, Gives
<1>5. N # {} => h.who = Call /\ Gives(h)
  BY <1>2, <1>4 DEF Gives
<1>6. \A d \in Issued : /\ OfCmd(d) \notin {Call, Nobody}
                        /\ OfNDRange(d) \notin {Call, Nobody}
  BY HoldersDiffer, BoundAssumption DEF Typed, Issued, Cmds
<1>7. \A x \in Pending : ~Before(x, h)
  BY <1>2 DEF Before
<1>8. \A x \in Pending \ {h} : ~Before(x, h) /\ ~Before(h, x)
  BY DEF Before
<1>9. \A x \in Pending : x.actor = Loop => x # h
  BY <1>3
<1>10. Forms'
  <2>1. ASSUME NEW x \in Pending, x # h PROVE (OfThread(x) \/ OfLoop(x))'
    <3>1. \A d : SubmitLater(x, d) => SubmitLater(x, d)'
      BY <1>7 DEF SubmitLater
    <3>2. CallGivesLater(x) => CallGivesLater(x)'
      BY <1>7 DEF CallGivesLater
    <3>3. \A d : RouteLater(x, d) => RouteLater(x, d)'
      BY <1>7 DEF RouteLater
    <3>4. OfThread(x) => OfThread(x)'
      BY <1>1, <3>1, <3>2 DEF OfThread
    <3>5. OfLoop(x) => OfLoop(x)'
      BY <1>1, <3>3 DEF OfLoop, Effect
    <3> QED
      BY <2>1, <3>4, <3>5 DEF Forms
  <2>2. ASSUME NEW x \in N PROVE OfThread(x)'
    BY <1>1, <1>2 DEF OfThread, AfterSubmission
  <2> QED
    BY <2>1, <2>2 DEF Forms
<1>11. Unique'
  <2>1. ASSUME NEW x \in N, NEW y \in Pending \ {h}, Same(x, y) \/ Same(y, x),
               Gives(x), Gives(y)
        PROVE  FALSE
    <3>1. Same(h, y) /\ Gives(h)
      BY <1>4, <1>5, <2>1 DEF Same
    <3> QED
      BY <2>1, <3>1 DEF Unique
  <2>2. \A x, y \in N : Gives(x) /\ Gives(y) => x = y
    BY DEF AfterSubmission
  <2> QED
    BY <1>4, <2>1, <2>2 DEF Unique, Same, Takes, Gives
<1>12. NotYet' /\ Effects'
  BY <1>4 DEF NotYet, Effects, Takes, Effect
<1>13. Owned'
  <2>1. ASSUME NEW x \in N, Gives(x), c \notin overlapped PROVE Call \in refs[c]
    <3>1. Gives(h) /\ h.who = Call /\ ~TakenBefore(h)
      BY <1>5, <1>7, <2>1 DEF TakenBefore
    <3> QED
      BY <2>1, <3>1 DEF Owned
  <2>2. ASSUME NEW x \in Pending \ {h}, TakenBefore(x) PROVE TakenBefore(x)'
    BY <1>8, <2>2 DEF TakenBefore, Takes, Same, Before
  <2> QED
    BY <1>4, <2>1, <2>2 DEF Owned, Gives
<1>14. OneOutcome' /\ HeldCounted'
  <2>1. ASSUME NEW x \in N PROVE User \notin refs[x.obj]
    BY <1>4, <1>5, <2>1 DEF OneOutcome
  <2>2. OneOutcome'
    BY <2>1 DEF OneOutcome, Gives
  <2> QED
    BY <2>2 DEF HeldCounted
<1>15. Guarded'
  <2>1. ASSUME NEW x \in N, Accesses(x)' PROVE GivenLater(x)'
    <3>1. x.op = "wait" /\ c \notin overlapped
      BY <1>4, <2>1 DEF Accesses, AfterSubmission
    <3>2. PICK y \in N : Before(x, y) /\ Gives(y)
      BY <3>1 DEF AfterSubmission
    <3>3. Gives(h) /\ h.who = Call /\ ~TakenBefore(h)
      BY <1>5, <1>7, <2>1 DEF TakenBefore
    <3>4. Call \in refs[c]
      BY <3>1, <3>3 DEF Owned
    <3> QED
      BY <1>4, <3>2, <3>4 DEF GivenLater, Gives
  <2>2. ASSUME NEW x \in Pending \ {h}
        PROVE  /\ SubmitLater(x, x.obj) => SubmitLater(x, x.obj)'
               /\ GivenLater(x) => GivenLater(x)'
    BY <1>7 DEF SubmitLater, GivenLater, Gives
  <2> QED
    BY <2>1, <2>2 DEF Guarded, Accesses
<1>16. Fresh'
  <2>1. InCall(c) /\ ~InQueue(c)
    <3>1. InCall(c)
      BY DEF InCall
    <3> QED
      BY <1>2, <3>1 DEF Fresh
  <2>2. ~InCall(c)'
    <3>1. \A x \in Pending : x.op = "submit" /\ x.obj = c => x = h
      BY DEF Fresh
    <3> QED
      BY <1>4, <3>1 DEF InCall
  <2>3. \A d : InCall(d)' => InCall(d)
    BY <1>4 DEF InCall
  <2>4. queue \in Seq(Issued) /\ Len(queue) \in Nat
    BY DEF Typed
  <2>5. \/ queue' = queue /\ lost' = lost \cup {c}
        \/ /\ lost' = lost
           /\ Len(queue') = Len(queue) + 1
           /\ queue'[Len(queue) + 1] = c
           /\ \A i \in 1 .. Len(queue) : queue'[i] = queue[i]
    BY <1>2, <2>4
  <2>6. \A d : InQueue(d)' => InQueue(d) \/ d = c
    BY <2>4, <2>5 DEF InQueue
  <2>7. ASSUME NEW d \in Issued, FreshCmd(d) PROVE FreshCmd(d)'
    <3>1. ASSUME NEW x \in Pending, SubmitLater(x, d), x.op = "up"
          PROVE  x \in Pending' /\ SubmitLater(x, d)'
      <4>1. x \in Pending \ {h}
        BY <3>1
      <4> QED
        BY <1>7, <3>1, <4>1 DEF SubmitLater
    <3>2. \A o \in CountedBy(d) \ overlapped :
             \/ OfCmd(d) \in refs[o]
             \/ /\ o # d
                /\ \E x \in Pending' : /\ Takes(x) /\ x.obj = o /\ x.who = OfCmd(d)
                                       /\ SubmitLater(x, d)'
      BY <2>7, <3>1 DEF FreshCmd, Takes
    <3>3. \A x \in Pending' : x.actor = Loop => ~Mentions(x, d)
      BY <1>3, <1>4, <2>7 DEF FreshCmd
    <3> QED
      BY <1>1, <2>7, <3>2, <3>3 DEF FreshCmd, Takes, Mentions
  <2>8. \A d \in Issued : InCall(d)' \/ InQueue(d)' => FreshCmd(d)'
    BY <2>1, <2>3, <2>6, <2>7 DEF Fresh
  <2>9. \A d \in Issued : ~(InCall(d)' /\ InQueue(d)')
    BY <2>2, <2>3, <2>6 DEF Fresh
  <2>10. OncePerRing'
    <3>1. c \notin lost /\ \A i \in 1 .. Len(queue) : queue[i] # c
      BY <2>1 DEF InQueue
    <3> QED
      BY <2>4, <2>5, <3>1 DEF Fresh, OncePerRing
  <2>11. \A x, y \in Pending' :
            x.op = "submit" /\ y.op = "submit" /\ x.obj = y.obj => x = y
    BY <1>4 DEF Fresh
  <2> QED
    BY <1>1, <2>8, <2>9, <2>10, <2>11 DEF Fresh
<1>17. Islands'
  BY <1>4, <1>6 DEF Islands, OnIslands, Effect, Typed
<1>18. Routes'
  <2>1. \A x \in Pending : x.op = "route" => x.obj \in Issued
    BY DEF Forms, OfThread, OfLoop, Effect
  <2>2. ~Takes(h)
    BY DEF Takes
  <2> QED
    BY <1>4, <1>6, <2>1, <2>2 DEF Routes, ToRoute, Takes, Before
<1>19. LastCounted' /\ LastOnly' /\ NotIssued' /\ OwnReferrers'
  <2>1. ~Takes(h)
    BY DEF Takes
  <2>2. LastCounted'
    BY <2>1 DEF LastCounted, Takes
  <2>3. LastOnly'
    BY <1>4, HoldersDiffer DEF LastOnly, Takes
  <2> QED
    BY <1>1, <2>2, <2>3 DEF NotIssued, OwnReferrers, Referrers
<1>20. Accounted'
  <2>1. ASSUME NEW o, NEW r, Given(o, r) PROVE Given(o, r)'
    <3>1. PICK x \in Pending : Gives(x) /\ x.obj = o /\ x.who = r
      BY <2>1 DEF Given
    <3>2. CASE x = h
      <4>1. type[c] # "NDRANGE" /\ r = Call /\ o = c
        BY <1>2, <3>1, <3>2, HoldersDiffer DEF Gives
      <4>2. PICK y \in N : Gives(y)
        BY <4>1 DEF AfterSubmission
      <4> QED
        BY <1>4, <4>1, <4>2 DEF Given, Gives
    <3> QED
      BY <3>1, <3>2 DEF Given, Gives
  <2>2. ~Effect(h)
    BY DEF Effect
  <2>3. \A d : Started(d)' <=> Started(d)
    BY <1>4, <2>2 DEF Started, Effect
  <2>4. \A x \in Pending : x.op = "route" => x \in Pending'
    OBVIOUS
  <2> QED
    BY <1>1, <2>1, <2>3, <2>4 DEF Accounted
<1>21. Everywhere' /\ Waits'
  <2>1. queue \in Seq(Issued) /\ Len(queue) \in Nat
    BY DEF Typed
  <2>2. InQueue(c)' /\ \A d : InQueue(d) => InQueue(d)'
    <3>1. CASE queue' = queue /\ lost' = lost \cup {c}
      BY <3>1 DEF InQueue
    <3>2. CASE queue' = Append(queue, c) /\ lost' = lost
      <4>1. /\ Len(queue') = Len(queue) + 1 /\ queue'[Len(queue) + 1] = c
            /\ \A i \in 1 .. Len(queue) : queue'[i] = queue[i]
        BY <1>2, <2>1, <3>2
      <4>2. Len(queue) + 1 \in 1 .. Len(queue')
            /\ \A i \in 1 .. Len(queue) : i \in 1 .. Len(queue')
        BY <2>1, <4>1
      <4> QED
        BY <3>2, <4>1, <4>2 DEF InQueue
    <3> QED
      BY <3>1, <3>2
  <2>3. \A d : InCall(d) /\ d # c => InCall(d)'
    BY DEF InCall
  <2>4. \A d : Started(d) => Started(d)'
    BY DEF Started, Effect
  <2>5. Everywhere'
    BY <1>1, <2>2, <2>3, <2>4 DEF Everywhere
  <2>6. \A x \in N : x.op \in {"wait", "down", "hand"} /\ x.obj = c /\ x.actor = t
    BY DEF AfterSubmission
  <2> QED
    BY <2>5, <2>6 DEF Waits
<1> QED
  BY <1>10, <1>11, <1>12, <1>13, <1>14, <1>15, <1>16, <1>17, <1>18, <1>19, <1>20,
     <1>21

\* ml_submit_cmd, and what the entry point does with the answer.
LEMMA Submitted ==
    ASSUME IInv, NEW t \in Threads, Submit(t)
    PROVE  IInv'
<1> DEFINE r == Now(t)
           c == r.obj
           h == Front(t)
<1>1. /\ todo[t] # <<>> /\ r.op = "submit"
      /\ UNCHANGED <<issued, type, m_counter, alive, reg, refs, overlapped, held,
                     released, m_last_event, running, complete, bad>>
  BY DEF Submit, Doing, counters
<1>2. PICK s \in {IF type[c] = "NDRANGE" THEN <<>> ELSE <<Down(c, Call)>>,
                  IF type[c] = "NDRANGE" THEN <<>> ELSE AfterSubmit(c, r)} :
         /\ todo' = [todo EXCEPT ![t] = s]
         /\ \/ queue' = queue /\ lost' = lost \cup {c}
            \/ queue' = Append(queue, c) /\ lost' = lost
  <2> DEFINE refused  == IF type[c] = "NDRANGE" THEN <<>> ELSE <<Down(c, Call)>>
             accepted == IF type[c] = "NDRANGE" THEN <<>> ELSE AfterSubmit(c, r)
             stays    == ~released /\ Len(queue) < Capacity
  <2>1. /\ \E path \in IF released THEN {refused} ELSE {refused, accepted} :
              todo' = [todo EXCEPT ![t] = path]
        /\ queue' = IF stays THEN Append(queue, c) ELSE queue
        /\ lost' = IF stays THEN lost ELSE lost \cup {c}
    BY DEF Submit
  <2> HIDE DEF r, c, refused, accepted, stays
  <2>2. \E path \in {refused, accepted} : todo' = [todo EXCEPT ![t] = path]
    BY <2>1
  <2>3. \/ queue' = queue /\ lost' = lost \cup {c}
        \/ queue' = Append(queue, c) /\ lost' = lost
    BY <2>1
  <2> QED
    BY <2>2, <2>3 DEF refused, accepted
<1>3. Typed /\ Registers /\ Discipline /\ t \in Actors
  BY DEF IInv, Actors
<1>4. IsNext(t, h) /\ h \in Pending
  BY <1>1, <1>3, NextPending
<1>5. h.actor = t /\ h.op = "submit" /\ h.obj = c /\ h.left = Len(todo[t])
  BY <1>1, <1>4, DutyFields DEF IsNext, Front
<1>6. c \in Issued /\ h.left = 1
  <2>1. OfThread(h)
    BY <1>3, <1>4, <1>5 DEF Discipline, Forms, OfLoop, Effect
  <2> QED
    BY <1>5, <2>1 DEF OfThread
<1>7. todo[t] \in Seq(Steps) /\ todo[t] # <<>>
  BY <1>1, <1>3 DEF Typed
<1>8. r \in Steps
  BY <1>7 DEF Now
<1> HIDE DEF r
<1>9. AfterSubmission(t, c, Listed(t, s)) /\ s \in Seq(Steps)
  BY <1>2, <1>3, <1>6, <1>8, SubmissionLists
<1>10. /\ Pending' = (Pending \ {h}) \cup Listed(t, s)
       /\ \A x \in Pending \ {h} : x.actor # t
  <2>1. Len(todo[t]) = 1 /\ todo \in [Actors -> Seq(Steps)]
    BY <1>3, <1>5, <1>6 DEF Typed
  <2> QED
    BY <1>2, <1>3, <2>1, Replaced
<1> HIDE DEF h
<1>11. Discipline'
  BY <1>1, <1>2, <1>3, <1>4, <1>5, <1>9, <1>10, SubmitDiscipline
<1>12. reg[t] = -1
  BY <1>1, <1>3, NotLoaded DEF Doing, r
<1>13. queue' \in Seq(Issued) /\ lost' \subseteq Issued
       /\ m_last_event' \in Issued \cup {None}
  <2>1. queue \in Seq(Issued) /\ lost \subseteq Issued /\ m_last_event \in Issued \cup {None}
    BY <1>3 DEF Typed
  <2>2. Append(queue, c) \in Seq(Issued)
    BY <1>6, <2>1
  <2> QED
    BY <1>1, <1>2, <1>6, <2>1, <2>2
<1> QED
  BY <1>1, <1>2, <1>3, <1>9, <1>11, <1>12, <1>13, ListStep

\* What the call that creates command c has to do: to count what the command
\* names, to count the event for itself unless it is an NDRange's, to submit.
BeginsCall(t, c, K, who, N) ==
    /\ \A x \in N : x.actor = t /\
          \/ x.op = "use" /\ x.obj = program /\ x.who = Nobody
          \/ /\ x.op = "up" /\ x.obj \in K /\ x.who = OfCmd(c)
             /\ \E y \in N : Before(x, y) /\ y.op = "submit"
          \/ /\ x.op = "up" /\ x.obj = c /\ x.who = Call
             /\ \E y \in N : Before(x, y) /\ y.op = "submit" /\ y.who = Call
          \/ x.op = "submit" /\ x.obj = c /\ x.left = 1 /\ x.who = who
    /\ \A x, y \in N : Same(x, y) /\ x.op \in {"up", "submit"} /\ x.op = y.op => x = y
    /\ \A o \in K : \E x \in N : /\ x.op = "up" /\ x.obj = o /\ x.who = OfCmd(c)
                                 /\ \E y \in N : Before(x, y) /\ y.op = "submit"
    /\ \A x \in N : x.op = "submit" /\ x.who = Call =>
          \E y \in N : Before(y, x) /\ y.op = "up" /\ Same(y, x)
    /\ \E x \in N : x.op = "submit"

\* A new command: its event is counted by itself, and nobody has heard of it.
LEMMA EnqueueDiscipline ==
    ASSUME Typed, Discipline, NEW t \in Threads, NEW c \in Cmds, c = issued + 1,
           NEW ty \in CommandTypes, NEW K \in SUBSET (held \ {program}), NEW N,
           BeginsCall(t, c, K, IF ty = "NDRANGE" THEN Nobody ELSE Call, N),
           issued' = c, type' = [type EXCEPT ![c] = ty],
           CountedBy(c)' = {c} \cup K,
           refs' = [refs EXCEPT ![c] = {OfCmd(c)}],
           Pending' = Pending \cup N,
           \A x \in Pending : x.actor # t,
           UNCHANGED <<held, queue, lost, m_last_event, running, complete, overlapped>>
    PROVE  Discipline'
<1> USE DEF Discipline
<1>1. /\ Issued' = Issued \cup {c} /\ c \notin Issued /\ Issued \subseteq Cmds
      /\ c # None /\ c \in Counted /\ kernel \in Counted
  BY BoundAssumption DEF Issued, Cmds, Typed, None, Counted, Handles
<1>2. /\ \A d \in Issued : type'[d] = type[d] /\ CountedBy(d)' = CountedBy(d)
      /\ type'[c] = ty
  BY <1>1 DEF Typed, CountedBy, IsBuffer
<1>3. /\ refs[c] = {} /\ refs'[c] = {OfCmd(c)}
      /\ \A o \in Counted \ {c} : refs'[o] = refs[o]
  BY <1>1 DEF Typed, NotIssued
<1>4. /\ c \notin Handles /\ t # Loop
      /\ \A o \in Handles : o \in Counted /\ o # c
  BY <1>1, HandlesDiffer, ThreadsAssumption DEF Counted
<1>5. /\ OfCmd(c) \notin {App, Call, Last, User, Nobody}
      /\ OfNDRange(c) \notin {App, Call, Last, User, Nobody}
      /\ \A d \in Issued : /\ OfCmd(d) # OfCmd(c) /\ OfNDRange(d) # OfNDRange(c)
                           /\ OfCmd(d) # OfNDRange(c) /\ OfNDRange(d) # OfCmd(c)
                           /\ OfNDRange(d) \notin {App, Call, Last, User, Nobody}
      /\ OfCmd(c) # OfNDRange(c)
  BY <1>1, HoldersDiffer
<1>6. \A x \in Pending : /\ x.obj # c /\ x.who # OfCmd(c) /\ x.who # OfNDRange(c)
                         /\ x.obj \in Counted
  <2> SUFFICES ASSUME NEW x \in Pending
               PROVE  x.obj # c /\ x.who # OfCmd(c) /\ x.who # OfNDRange(c)
    BY FormFacts
  <2>1. x.obj # c
    BY <1>1, <1>4, FormFacts
  <2>2. \/ x.who \in {Nobody, App, Call, Last}
        \/ \E d \in Issued : x.who \in {OfCmd(d), OfNDRange(d)}
    <3>1. CASE OfThread(x)
      BY <3>1 DEF OfThread
    <3>2. CASE OfLoop(x)
      BY <3>2 DEF OfLoop
    <3> QED
      BY <3>1, <3>2 DEF Forms
  <2> QED
    BY <1>5, <2>1, <2>2
<1>7. \A o \in Counted : OfCmd(c) \notin refs[o] /\ OfNDRange(c) \notin refs[o]
  <2> SUFFICES ASSUME NEW o \in Counted
               PROVE  OfCmd(c) \notin refs[o] /\ OfNDRange(c) \notin refs[o]
    OBVIOUS
  <2>1. CASE o \in Handles
    <3>1. refs[o] \subseteq {App} \cup {OfCmd(d) : d \in Issued}
                                  \cup {OfNDRange(d) : d \in Issued}
      <4>1. refs[o] \subseteq Referrers(o)
        BY DEF OwnReferrers
      <4> QED
        BY <2>1, <4>1 DEF Referrers
    <3> QED
      BY <1>5, <3>1
  <2>2. CASE o \in Cmds \ Issued
    BY <2>2 DEF NotIssued
  <2>3. CASE o \in Issued /\ o \notin Handles
    <3>1. refs[o] \subseteq {Call, Last, User, OfCmd(o), OfNDRange(o)}
      BY <2>3 DEF OwnReferrers, Referrers
    <3> QED
      BY <1>5, <2>3, <3>1
  <2> QED
    BY <2>1, <2>2, <2>3 DEF Counted
<1>8. \A x \in N : /\ x.actor = t /\ ~Effect(x)
                   /\ x.op \in {"use", "up", "submit"}
                   /\ x.who \in {Nobody, OfCmd(c), Call}
                   /\ x.op = "submit" => x.obj = c
                   /\ Takes(x) => \/ x.obj \in K /\ x.who = OfCmd(c)
                                  \/ x.obj = c /\ x.who = Call
                   /\ Gives(x) => x.op = "submit" /\ x.obj = c /\ x.who = Call
  BY DEF BeginsCall, Effect, Takes, Gives
<1>9. \A x : /\ \A d : SubmitLater(x, d) => SubmitLater(x, d)'
             /\ \A d : RouteLater(x, d) => RouteLater(x, d)'
             /\ CallGivesLater(x) => CallGivesLater(x)'
  BY DEF SubmitLater, RouteLater, CallGivesLater
<1>10. \A x \in N : x.op = "up" => SubmitLater(x, c)'
  BY <1>8 DEF BeginsCall, SubmitLater
<1>11. Forms'
  <2>1. ASSUME NEW x \in Pending PROVE (OfThread(x) \/ OfLoop(x))'
    <3>1. OfThread(x) => OfThread(x)'
      BY <1>1, <1>2, <1>9 DEF OfThread
    <3>2. OfLoop(x) => OfLoop(x)'
      BY <1>1, <1>2, <1>9 DEF OfLoop, Effect
    <3> QED
      BY <2>1, <3>1, <3>2 DEF Forms
  <2>2. ASSUME NEW x \in N PROVE OfThread(x)'
    <3>1. CASE x.op = "use" /\ x.obj = program /\ x.who = Nobody
      BY <1>8, <3>1 DEF OfThread
    <3>2. CASE x.op = "up" /\ x.obj \in K /\ x.who = OfCmd(c)
      <4>1. x.obj \in CountedBy(c)' \ {c} /\ c \in Issued'
        BY <1>1, <1>4, <3>2 DEF Typed
      <4> QED
        BY <1>8, <1>10, <3>2, <4>1 DEF OfThread
    <3>3. CASE /\ x.op = "up" /\ x.obj = c /\ x.who = Call
               /\ \E y \in N : Before(x, y) /\ y.op = "submit" /\ y.who = Call
      <4>1. CallGivesLater(x)'
        BY <1>8, <3>3 DEF CallGivesLater, Same
      <4> QED
        BY <1>1, <1>8, <3>3, <4>1 DEF OfThread
    <3>4. CASE /\ x.op = "submit" /\ x.obj = c /\ x.left = 1
               /\ x.who = IF ty = "NDRANGE" THEN Nobody ELSE Call
      BY <1>1, <1>2, <1>8, <3>4 DEF OfThread
    <3> QED
      BY <3>1, <3>2, <3>3, <3>4 DEF BeginsCall
  <2> QED
    BY <2>1, <2>2 DEF Forms
<1>12. Unique'
  <2>1. ASSUME NEW x \in N, NEW y \in Pending, Same(x, y) \/ Same(y, x),
               (Takes(x) /\ Takes(y)) \/ (Gives(x) /\ Gives(y))
        PROVE  FALSE
    BY <1>6, <1>8, <2>1 DEF Same
  <2>2. ASSUME NEW x \in N, NEW y \in N, Same(x, y),
               (Takes(x) /\ Takes(y)) \/ (Gives(x) /\ Gives(y))
        PROVE  x = y
    BY <1>8, <2>2 DEF BeginsCall, Takes
  <2> QED
    BY <2>1, <2>2 DEF Unique, Same, Takes, Gives
<1>13. NotYet'
  <2>1. ASSUME NEW x \in N, Takes(x) PROVE x.who \notin refs'[x.obj]
    <3>1. CASE x.obj \in K /\ x.who = OfCmd(c)
      <4>1. x.obj \in Counted /\ x.obj # c
        BY <1>4, <3>1 DEF Typed
      <4> QED
        BY <1>3, <1>7, <3>1, <4>1
    <3>2. CASE x.obj = c /\ x.who = Call
      BY <1>3, <1>5, <3>2
    <3> QED
      BY <1>8, <2>1, <3>1, <3>2
  <2>2. ASSUME NEW x \in Pending, Takes(x) PROVE x.who \notin refs'[x.obj]
    BY <1>3, <1>6, <2>2 DEF NotYet
  <2> QED
    BY <2>1, <2>2 DEF NotYet, Takes
<1>14. Owned'
  <2>1. ASSUME NEW x \in N, Gives(x) PROVE TakenBefore(x)'
    BY <1>8, <2>1 DEF BeginsCall, TakenBefore, Takes
  <2>2. \A x \in Pending : TakenBefore(x) => TakenBefore(x)'
    BY DEF TakenBefore, Takes, Same, Before
  <2> QED
    BY <1>3, <1>6, <2>1, <2>2 DEF Owned, Gives
<1>15. OneOutcome' /\ HeldCounted'
  <2>1. OneOutcome'
    BY <1>3, <1>5, <1>6, <1>8 DEF OneOutcome, Gives
  <2>2. HeldCounted'
    BY <1>3, <1>4 DEF HeldCounted, Typed
  <2> QED
    BY <2>1, <2>2
<1>16. Guarded'
  <2>1. ASSUME NEW x \in N, Accesses(x)'
        PROVE  \/ x.actor \in Threads /\ x.obj \in held'
               \/ SubmitLater(x, x.obj)'
    <3>1. x.op = "up"
      BY <2>1 DEF Accesses, BeginsCall
    <3> QED
      BY <1>8, <1>10, <3>1 DEF Takes
  <2>2. ASSUME NEW x \in Pending, GivenLater(x) PROVE GivenLater(x)'
    BY <1>3, <1>6, <2>2 DEF GivenLater, Gives
  <2> QED
    BY <1>9, <2>1, <2>2 DEF Guarded, Accesses
<1>17. Fresh'
  <2>1. ~InQueue(c) /\ ~InQueue(c)'
    BY <1>1 DEF InQueue, Typed
  <2>2. \A d : (InCall(d)' => InCall(d) \/ d = c) /\ (InQueue(d)' => InQueue(d))
    BY <1>8 DEF InCall, InQueue
  <2>3. ASSUME NEW d \in Issued, FreshCmd(d) PROVE FreshCmd(d)'
    <3>1. \A o \in CountedBy(d) : o \in Counted /\ o # c
      BY <1>1, <1>4 DEF CountedBy, Counted, Handles
    <3>2. \A o \in CountedBy(d) \ overlapped :
             \/ OfCmd(d) \in refs'[o]
             \/ /\ o # d
                /\ \E x \in Pending' : /\ Takes(x) /\ x.obj = o /\ x.who = OfCmd(d)
                                       /\ SubmitLater(x, d)'
      BY <1>3, <1>9, <2>3, <3>1 DEF FreshCmd
    <3>3. d \in Counted /\ d # c /\ kernel # c
      BY <1>1, <1>4 DEF Counted, Handles
    <3>4. \A x \in Pending' : x.actor = Loop => ~Mentions(x, d)
      BY <1>4, <1>8, <2>3 DEF FreshCmd
    <3> QED
      BY <1>1, <1>2, <1>3, <2>3, <3>2, <3>3, <3>4 DEF FreshCmd, Takes, Mentions
  <2>4. FreshCmd(c)'
    <3>1. \A o \in (CountedBy(c)' \ overlapped) \ {c} :
             /\ o # c
             /\ \E x \in Pending' : /\ Takes(x) /\ x.obj = o /\ x.who = OfCmd(c)
                                    /\ SubmitLater(x, c)'
      <4>1. \A o \in K : \E x \in N : x.op = "up" /\ x.obj = o /\ x.who = OfCmd(c)
        BY DEF BeginsCall
      <4> QED
        BY <1>10, <4>1 DEF Takes
    <3>2. OfCmd(c) \in refs'[c]
      BY <1>3
    <3>3. c \notin complete' \cup running' \cup {m_last_event'}
      BY <1>1 DEF Typed
    <3>4. Last \notin refs'[c] /\ OfNDRange(c) \notin refs'[kernel] \cup refs'[c]
      BY <1>1, <1>3, <1>5, <1>7
    <3>5. \A x \in Pending' : x.actor = Loop => ~Mentions(x, c)
      BY <1>4, <1>6, <1>8 DEF Mentions
    <3> QED
      BY <3>1, <3>2, <3>3, <3>4, <3>5 DEF FreshCmd, Takes, Mentions
  <2>5. \A d \in Issued' : InCall(d)' \/ InQueue(d)' => FreshCmd(d)'
    BY <1>1, <2>2, <2>3, <2>4 DEF Fresh
  <2>6. \A d \in Issued' : ~(InCall(d)' /\ InQueue(d)')
    BY <1>1, <2>1, <2>2 DEF Fresh
  <2>7. ASSUME NEW x \in Pending', NEW y \in Pending',
               x.op = "submit", y.op = "submit", x.obj = y.obj
        PROVE  x = y
    <3>1. CASE x \in N /\ y \in N
      <4>1. Same(x, y)
        BY <2>7, <3>1 DEF BeginsCall, Same
      <4> QED
        BY <2>7, <3>1, <4>1 DEF BeginsCall
    <3>2. CASE x \in Pending /\ y \in Pending
      BY <2>7, <3>2 DEF Fresh
    <3> QED
      BY <1>6, <1>8, <2>7, <3>1, <3>2
  <2>8. OncePerRing'
    BY DEF Fresh, OncePerRing
  <2> QED
    BY <2>5, <2>6, <2>7, <2>8 DEF Fresh
<1>18. Islands' /\ Effects'
  <2>1. ASSUME NEW d \in running PROVE OnIslands(d)'
    <3>1. OnIslands(d) /\ d \in Issued
      BY <2>1 DEF Islands, Typed
    <3>2. \A o \in {kernel, d} : o \in Counted /\ o # c
      BY <1>1, <1>4, <3>1 DEF Counted, Handles
    <3>3. \A x \in N : x.who # OfNDRange(d)
      BY <1>5, <1>8, <3>1
    <3> QED
      BY <1>2, <1>3, <1>8, <3>1, <3>2, <3>3 DEF OnIslands, Effect
  <2>2. Islands'
    BY <2>1 DEF Islands
  <2> QED
    BY <1>8, <2>2 DEF Effects, Effect
<1>19. Routes'
  <2>1. ASSUME NEW x \in Pending, x.op = "route" PROVE ToRoute(x)'
    <3>1. ToRoute(x) /\ x.obj \in Issued
      BY <2>1 DEF Routes, Forms, OfThread, OfLoop, Effect
    <3>2. \A o \in {kernel, x.obj} : o \in Counted /\ o # c
      BY <1>1, <1>4, <3>1 DEF Counted, Handles
    <3>3. \A y \in N : y.who # OfNDRange(x.obj)
      BY <1>5, <1>8, <3>1
    <3> QED
      BY <1>2, <1>3, <3>1, <3>2, <3>3 DEF ToRoute, Takes
  <2> QED
    BY <1>8, <2>1 DEF Routes
<1>20. LastCounted' /\ LastOnly'
  <2>1. m_last_event # None => m_last_event \in Counted /\ m_last_event # c
    BY <1>1 DEF Typed, Counted
  <2>2. LastCounted'
    BY <1>3, <2>1 DEF LastCounted, Takes
  <2>3. \A x \in N : x.who # Last
    BY <1>5, <1>8, HoldersDiffer
  <2> QED
    BY <2>2, <2>3 DEF LastOnly, Takes
<1>21. NotIssued' /\ OwnReferrers'
  <2>1. NotIssued'
    BY <1>1, <1>3 DEF NotIssued, Counted
  <2>2. ASSUME NEW o \in Counted PROVE refs'[o] \subseteq Referrers(o)'
    <3>1. refs[o] \subseteq Referrers(o)
      BY DEF OwnReferrers
    <3>2. CASE o \in Handles
      <4>1. \A d \in Issued : o \in CountedBy(d) => d \in Issued' /\ o \in CountedBy(d)'
        BY <1>1, <1>2
      <4> QED
        BY <1>1, <1>3, <1>4, <3>1, <3>2, <4>1 DEF Referrers
    <3>3. CASE o \notin Handles
      BY <1>3, <3>1, <3>3 DEF Referrers
    <3> QED
      BY <3>2, <3>3
  <2>3. OwnReferrers'
    BY <2>2 DEF OwnReferrers
  <2> QED
    BY <2>1, <2>3
<1>22. Accounted'
  <2>1. \A o, r : Given(o, r) => Given(o, r)'
    BY DEF Given, Gives
  <2>2. \A d : Started(d)' => Started(d)
    BY <1>8 DEF Started, Effect
  <2>3. ~Started(c)
    BY <1>1, <1>6 DEF Started, Typed
  <2>4. Call # OfCmd(c) /\ Last # OfCmd(c)
        /\ \A d \in Issued' : OfNDRange(d) # OfCmd(c)
    BY <1>1, <1>5
  <2>5. ASSUME NEW o \in Counted \ overlapped
        PROVE  /\ Call \in refs'[o] => Given(o, Call)'
               /\ Last \in refs'[o] => o = m_last_event \/ Given(o, Last)'
               /\ \A d \in Issued' :
                     OfCmd(d) \in refs'[o] /\ Started(d)' => Given(o, OfCmd(d))'
               /\ \A d \in Issued' : OfNDRange(d) \in refs'[o] =>
                     \/ d \in running \/ Given(o, OfNDRange(d))'
                     \/ \E x \in Pending' : x.op = "route" /\ x.obj = d
    <3>1. CASE o = c
      BY <1>1, <1>3, <1>5, <2>2, <2>3, <2>4, <3>1
    <3>2. CASE o # c
      BY <1>1, <1>3, <1>7, <2>1, <2>2, <3>2 DEF Accounted
    <3> QED
      BY <3>1, <3>2
  <2> QED
    BY <2>5 DEF Accounted
<1>23. Everywhere' /\ Waits'
  <2>1. \A d : (InCall(d) => InCall(d)') /\ (InQueue(d) => InQueue(d)')
    BY DEF InCall, InQueue
  <2>2. \A d : Started(d) => Started(d)'
    BY DEF Started, Effect
  <2>3. InCall(c)'
    <3>1. PICK x \in N : x.op = "submit" /\ x.obj = c
      BY DEF BeginsCall
    <3> QED
      BY <3>1 DEF InCall
  <2>4. Everywhere'
    BY <1>1, <2>1, <2>2, <2>3 DEF Everywhere
  <2>5. \A x \in N : x.op # "wait" /\ x.actor = t
    BY DEF BeginsCall
  <2> QED
    BY <2>4, <2>5 DEF Waits
<1> QED
  BY <1>11, <1>12, <1>13, <1>14, <1>15, <1>16, <1>17, <1>18, <1>19, <1>20,
     <1>21, <1>22, <1>23

\* A list that is followed by n more operations, as what is pending.
Above(t, n, s) == {Duty(t, n + k, s[Len(s) + 1 - k]) : k \in 1 .. Len(s)}

\* A call's list is put together from those of its parts.
LEMMA Joined ==
    ASSUME NEW t, NEW n \in Nat, NEW s \in Seq(Steps), NEW u \in Seq(Steps)
    PROVE  /\ s \o u \in Seq(Steps) /\ Len(s \o u) = Len(s) + Len(u)
           /\ Above(t, n, s \o u) = Above(t, n, u) \cup Above(t, n + Len(u), s)
<1> DEFINE v == s \o u
           a == Len(s)
           b == Len(u)
           D(k) == Duty(t, n + k, v[Len(v) + 1 - k])
<1>1. /\ v \in Seq(Steps) /\ Len(v) = a + b /\ a \in Nat /\ b \in Nat
      /\ \A i \in 1 .. a + b : v[i] = IF i <= a THEN s[i] ELSE u[i - a]
  BY ConcatProperties
<1>2. \A k \in 1 .. b : D(k) = Duty(t, n + k, u[b + 1 - k])
  <2> SUFFICES ASSUME NEW k \in 1 .. b
               PROVE  v[Len(v) + 1 - k] = u[b + 1 - k]
    OBVIOUS
  <2> DEFINE i == Len(v) + 1 - k
  <2>1. i \in 1 .. a + b /\ ~(i <= a) /\ i - a = b + 1 - k
    BY <1>1
  <2> HIDE DEF i, v, a
  <2> QED
    BY <1>1, <2>1 DEF i
<1>3. \A k \in 1 .. a : D(b + k) = Duty(t, (n + b) + k, s[a + 1 - k])
  <2> SUFFICES ASSUME NEW k \in 1 .. a
               PROVE  v[Len(v) + 1 - (b + k)] = s[a + 1 - k] /\ n + (b + k) = (n + b) + k
    OBVIOUS
  <2> DEFINE i == Len(v) + 1 - (b + k)
  <2>1. i \in 1 .. a + b /\ i <= a /\ i = a + 1 - k /\ n + (b + k) = (n + b) + k
    BY <1>1
  <2> HIDE DEF i, v, a, b
  <2> QED
    BY <1>1, <2>1 DEF i
<1>4. Above(t, n, v) = {D(k) : k \in 1 .. a + b}
  BY <1>1 DEF Above
<1>5. Above(t, n, u) = {D(k) : k \in 1 .. b}
  BY <1>2 DEF Above
<1>6. Above(t, n + b, s) = {D(b + k) : k \in 1 .. a}
  BY <1>3 DEF Above
<1> HIDE DEF D, v
<1>7. \A k \in 1 .. a + b : k \in 1 .. b \/ (k - b \in 1 .. a /\ k = b + (k - b))
  BY <1>1
<1>8. /\ \A k \in 1 .. b : k \in 1 .. a + b
      /\ \A k \in 1 .. a : b + k \in 1 .. a + b
  BY <1>1
<1> HIDE DEF a, b
<1>9. Above(t, n, v) \subseteq Above(t, n, u) \cup Above(t, n + b, s)
  BY <1>4, <1>5, <1>6, <1>7
<1>10. Above(t, n, u) \cup Above(t, n + b, s) \subseteq Above(t, n, v)
  BY <1>4, <1>5, <1>6, <1>8
<1> QED
  BY <1>1, <1>9, <1>10 DEF v, a, b

\* The parts themselves.
LEMMA Parts ==
    ASSUME NEW t
    PROVE  /\ \A s : Listed(t, s) = Above(t, 0, s)
           /\ \A n : Above(t, n, <<>>) = {}
           /\ \A n, a : Above(t, n, <<a>>) = {Duty(t, n + 1, a)}
           /\ \A n, a, b : Above(t, n, <<a, b>>) =
                  {Duty(t, n + 2, a), Duty(t, n + 1, b)}
           /\ \A n, a, b, c, d, e : Above(t, n, <<a, b, c, d, e>>) =
                  {Duty(t, n + 5, a), Duty(t, n + 4, b), Duty(t, n + 3, c),
                   Duty(t, n + 2, d), Duty(t, n + 1, e)}
<1>1. 1 .. 0 = {} /\ 1 .. 1 = {1} /\ 1 .. 2 = {1, 2} /\ 1 .. 5 = {1, 2, 3, 4, 5}
  OBVIOUS
<1>2. \A s : Listed(t, s) = Above(t, 0, s)
  BY DEF Listed, Above
<1>3. \A n : Above(t, n, <<>>) = {}
  BY <1>1 DEF Above
<1>4. \A n, a : Above(t, n, <<a>>) = {Duty(t, n + 1, a)}
  BY <1>1 DEF Above
<1>5. \A n, a, b : Above(t, n, <<a, b>>) = {Duty(t, n + 2, a), Duty(t, n + 1, b)}
  BY <1>1 DEF Above
<1>6. ASSUME NEW n, NEW a, NEW b, NEW c, NEW d, NEW e
      PROVE  Above(t, n, <<a, b, c, d, e>>) =
                  {Duty(t, n + 5, a), Duty(t, n + 4, b), Duty(t, n + 3, c),
                   Duty(t, n + 2, d), Duty(t, n + 1, e)}
  <2> DEFINE s == <<a, b, c, d, e>>
             D(k) == Duty(t, n + k, s[Len(s) + 1 - k])
  <2>1. /\ D(1) = Duty(t, n + 1, e) /\ D(2) = Duty(t, n + 2, d)
        /\ D(3) = Duty(t, n + 3, c) /\ D(4) = Duty(t, n + 4, b)
        /\ D(5) = Duty(t, n + 5, a)
    OBVIOUS
  <2>2. Above(t, n, s) = {D(k) : k \in {1, 2, 3, 4, 5}}
    BY <1>1 DEF Above
  <2> HIDE DEF D, s
  <2>3. {D(k) : k \in {1, 2, 3, 4, 5}} = {D(5), D(4), D(3), D(2), D(1)}
    OBVIOUS
  <2> QED
    BY <2>1, <2>2, <2>3 DEF s
<1> QED
  BY <1>2, <1>3, <1>4, <1>5, <1>6

\* The lists of the entry points, put together: two operations after one.
LEMMA OneAndTwo ==
    ASSUME NEW t, NEW a \in Steps, NEW b \in Steps, NEW c \in Steps
    PROVE  /\ <<a>> \o <<b, c>> \in Seq(Steps)
           /\ Listed(t, <<a>> \o <<b, c>>) =
                 {Duty(t, 3, a), Duty(t, 2, b), Duty(t, 1, c)}
<1>1. <<a>> \in Seq(Steps) /\ <<b, c>> \in Seq(Steps) /\ 0 \in Nat
  OBVIOUS
<1>2. \A n \in Nat : \A v, u \in Seq(Steps) :
          /\ v \o u \in Seq(Steps)
          /\ Above(t, n, v \o u) = Above(t, n, u) \cup Above(t, n + Len(u), v)
  BY Joined
<1>3. /\ <<a>> \o <<b, c>> \in Seq(Steps)
      /\ Above(t, 0, <<a>> \o <<b, c>>) =
            Above(t, 0, <<b, c>>) \cup Above(t, 0 + Len(<<b, c>>), <<a>>)
  BY <1>1, <1>2, Zenon
<1>4. /\ Above(t, 0 + Len(<<b, c>>), <<a>>) = {Duty(t, (0 + Len(<<b, c>>)) + 1, a)}
      /\ Above(t, 0, <<b, c>>) = {Duty(t, 0 + 2, b), Duty(t, 0 + 1, c)}
  <2>1. \A n, x : Above(t, n, <<x>>) = {Duty(t, n + 1, x)}
    BY Parts
  <2>2. \A n, x, y : Above(t, n, <<x, y>>) = {Duty(t, n + 2, x), Duty(t, n + 1, y)}
    BY Parts
  <2> QED
    BY <2>1, <2>2, Zenon
<1>5. (0 + Len(<<b, c>>)) + 1 = 3 /\ 0 + 2 = 2 /\ 0 + 1 = 1
  OBVIOUS
<1>6. \A s : Listed(t, s) = Above(t, 0, s)
  BY Parts, Zenon
<1>7. Listed(t, <<a>> \o <<b, c>>) = Above(t, 0, <<a>> \o <<b, c>>)
  BY <1>6
<1> QED
  BY <1>3, <1>4, <1>5, <1>7

\* Three operations, one by one.
LEMMA OneByOne ==
    ASSUME NEW t, NEW a \in Steps, NEW b \in Steps, NEW c \in Steps
    PROVE  /\ <<a>> \o <<b>> \o <<c>> \in Seq(Steps)
           /\ Listed(t, <<a>> \o <<b>> \o <<c>>) =
                 {Duty(t, 3, a), Duty(t, 2, b), Duty(t, 1, c)}
<1> DEFINE l == <<a>> \o <<b>>
<1>1. /\ <<a>> \in Seq(Steps) /\ <<b>> \in Seq(Steps) /\ <<c>> \in Seq(Steps)
      /\ 0 \in Nat /\ 1 \in Nat
  OBVIOUS
<1>2. \A n \in Nat : \A v, u \in Seq(Steps) :
          /\ v \o u \in Seq(Steps)
          /\ Above(t, n, v \o u) = Above(t, n, u) \cup Above(t, n + Len(u), v)
  BY Joined
<1>3. /\ l \in Seq(Steps)
      /\ Above(t, 1, l) = Above(t, 1, <<b>>) \cup Above(t, 1 + Len(<<b>>), <<a>>)
  BY <1>1, <1>2, Zenon
<1> HIDE DEF l
<1>4. /\ l \o <<c>> \in Seq(Steps)
      /\ Above(t, 0, l \o <<c>>) = Above(t, 0, <<c>>) \cup Above(t, 0 + Len(<<c>>), l)
  BY <1>1, <1>2, <1>3, Zenon
<1>5. /\ Above(t, 1 + Len(<<b>>), <<a>>) = {Duty(t, (1 + Len(<<b>>)) + 1, a)}
      /\ Above(t, 1, <<b>>) = {Duty(t, 1 + 1, b)}
      /\ Above(t, 0, <<c>>) = {Duty(t, 0 + 1, c)}
  <2>1. \A n, x : Above(t, n, <<x>>) = {Duty(t, n + 1, x)}
    BY Parts
  <2> QED
    BY <2>1, Zenon
<1>6. (1 + Len(<<b>>)) + 1 = 3 /\ 1 + 1 = 2 /\ 0 + 1 = 1 /\ 0 + Len(<<c>>) = 1
  OBVIOUS
<1>7. Listed(t, l \o <<c>>) = Above(t, 0, l \o <<c>>)
  <2>1. \A s : Listed(t, s) = Above(t, 0, s)
    BY Parts, Zenon
  <2> QED
    BY <2>1
<1>8. Above(t, 1, l) = {Duty(t, 3, a), Duty(t, 2, b)}
  BY <1>3, <1>5, <1>6
<1>9. Above(t, 0, l \o <<c>>) = {Duty(t, 1, c)} \cup Above(t, 1, l)
  BY <1>4, <1>5, <1>6
<1>10. Listed(t, l \o <<c>>) = {Duty(t, 3, a), Duty(t, 2, b), Duty(t, 1, c)}
  BY <1>7, <1>8, <1>9
<1> QED
  BY <1>4, <1>10 DEF l

\* Two operations after nothing.
LEMMA NoneAndTwo ==
    ASSUME NEW t, NEW b \in Steps, NEW c \in Steps
    PROVE  /\ <<>> \o <<b, c>> \in Seq(Steps)
           /\ Listed(t, <<>> \o <<b, c>>) = {Duty(t, 2, b), Duty(t, 1, c)}
<1>1. <<b, c>> \in Seq(Steps)
  OBVIOUS
<1>2. <<>> \o <<b, c>> = <<b, c>>
  BY <1>1, ConcatEmptySeq
<1>3. Listed(t, <<b, c>>) = {Duty(t, 2, b), Duty(t, 1, c)}
  BY Lists
<1> QED
  BY <1>1, <1>2, <1>3

\* A call for a buffer, an NDRange or clFinish: its list, and what is pending.
LEMMA CallsBegin ==
    ASSUME NEW t, NEW c \in Cmds, NEW r \in Steps, r.op = "submit", r.obj = c
    PROVE  LET m == <<Up(mem, OfCmd(c))>>
               k == <<Up(kernel, OfCmd(c))>>
               e == Up(c, Call)
           IN /\ m \o <<e, r>> \in Seq(Steps)
              /\ <<Use(program)>> \o k \o <<r>> \in Seq(Steps)
              /\ <<>> \o <<e, r>> \in Seq(Steps)
              /\ r.who = Call =>
                    /\ BeginsCall(t, c, {mem}, Call, Listed(t, m \o <<e, r>>))
                    /\ BeginsCall(t, c, {}, Call, Listed(t, <<>> \o <<e, r>>))
              /\ r.who = Nobody =>
                    BeginsCall(t, c, {kernel}, Nobody,
                               Listed(t, <<Use(program)>> \o k \o <<r>>))
<1> DEFINE p == Use(program)
           m == Up(mem, OfCmd(c))
           k == Up(kernel, OfCmd(c))
           e == Up(c, Call)
<1>1. c \in Counted /\ mem \in Counted /\ kernel \in Counted /\ program \in Counted
  BY DEF Counted, Handles
<1>2. p \in Steps /\ m \in Steps /\ k \in Steps /\ e \in Steps
  BY <1>1, OpTyped DEF Use, Up, OpNames, Holders
<1>3. /\ p.op = "use" /\ p.obj = program /\ p.who = Nobody
      /\ m.op = "up" /\ m.obj = mem /\ m.who = OfCmd(c)
      /\ k.op = "up" /\ k.obj = kernel /\ k.who = OfCmd(c)
      /\ e.op = "up" /\ e.obj = c /\ e.who = Call
  BY OpFields DEF Use, Up
<1>4. OfCmd(c) # Call /\ Nobody # Call
  BY HoldersDiffer
<1> DEFINE x == Duty(t, 3, m)
           y == Duty(t, 2, e)
           z == Duty(t, 1, r)
           v == Duty(t, 3, p)
           u == Duty(t, 2, k)
<1> HIDE DEF p, m, k, e
<1>5. /\ x.actor = t /\ x.left = 3 /\ x.op = "up" /\ x.obj = mem /\ x.who = OfCmd(c)
      /\ y.actor = t /\ y.left = 2 /\ y.op = "up" /\ y.obj = c /\ y.who = Call
      /\ z.actor = t /\ z.left = 1 /\ z.op = "submit" /\ z.obj = c /\ z.who = r.who
      /\ v.actor = t /\ v.left = 3 /\ v.op = "use" /\ v.obj = program /\ v.who = Nobody
      /\ u.actor = t /\ u.left = 2 /\ u.op = "up" /\ u.obj = kernel /\ u.who = OfCmd(c)
  BY <1>3, DutyFields
<1>6. /\ Listed(t, <<m>> \o <<e, r>>) = {x, y, z}
      /\ Listed(t, <<p>> \o <<k>> \o <<r>>) = {v, u, z}
      /\ Listed(t, <<>> \o <<e, r>>) = {y, z}
      /\ <<m>> \o <<e, r>> \in Seq(Steps)
      /\ <<p>> \o <<k>> \o <<r>> \in Seq(Steps)
      /\ <<>> \o <<e, r>> \in Seq(Steps)
  <2>1. /\ <<m>> \o <<e, r>> \in Seq(Steps)
        /\ Listed(t, <<m>> \o <<e, r>>) = {x, y, z}
    BY <1>2, OneAndTwo
  <2>2. /\ <<p>> \o <<k>> \o <<r>> \in Seq(Steps)
        /\ Listed(t, <<p>> \o <<k>> \o <<r>>) = {v, u, z}
    BY <1>2, OneByOne
  <2>3. /\ <<>> \o <<e, r>> \in Seq(Steps)
        /\ Listed(t, <<>> \o <<e, r>>) = {y, z}
    BY <1>2, NoneAndTwo
  <2> QED
    BY <2>1, <2>2, <2>3
<1> HIDE DEF x, y, z, u, v
<1>7. Before(x, z) /\ Before(y, z) /\ Before(u, z)
  BY <1>5 DEF Before
<1>8. r.who = Call => BeginsCall(t, c, {mem}, Call, {x, y, z})
  BY <1>4, <1>5, <1>7 DEF BeginsCall, Same
<1>9. r.who = Call => BeginsCall(t, c, {}, Call, {y, z})
  BY <1>5, <1>7 DEF BeginsCall, Same
<1>10. r.who = Nobody => BeginsCall(t, c, {kernel}, Nobody, {v, u, z})
  BY <1>4, <1>5, <1>7 DEF BeginsCall, Same
<1> QED
  BY <1>6, <1>8, <1>9, <1>10 DEF p, m, k, e

\* The lists of the entry points are such calls.
LEMMA EnqueueLists ==
    ASSUME NEW t, NEW c \in Cmds, NEW ty \in CommandTypes,
           NEW b \in BOOLEAN, NEW w \in BOOLEAN
    PROVE  LET who == IF ty = "NDRANGE" THEN Nobody ELSE Call
               r == [op |-> "submit", obj |-> c, who |-> who,
                     blocking |-> b, wants |-> w]
               s == IF ty = "NDRANGE"
                    THEN <<Use(program)>> \o MLCLCommand(c, ty) \o <<r>>
                    ELSE MLCLCommand(c, ty) \o <<Up(c, Call), r>>
           IN /\ BeginsCall(t, c, Handle(ty) \ {program}, who, Listed(t, s))
              /\ s \in Seq(Steps)
<1> DEFINE who == IF ty = "NDRANGE" THEN Nobody ELSE Call
           r == [op |-> "submit", obj |-> c, who |-> who,
                 blocking |-> b, wants |-> w]
           s == IF ty = "NDRANGE"
                THEN <<Use(program)>> \o MLCLCommand(c, ty) \o <<r>>
                ELSE MLCLCommand(c, ty) \o <<Up(c, Call), r>>
<1> SUFFICES /\ BeginsCall(t, c, Handle(ty) \ {program}, who, Listed(t, s))
             /\ s \in Seq(Steps)
  OBVIOUS
<1>1. /\ r \in Steps /\ r.op = "submit" /\ r.obj = c /\ r.who = who
  BY DEF Steps, OpNames, Holders, Counted
<1>2. mem # program /\ kernel # program
  BY HandlesDiffer
<1> HIDE DEF r
<1>3. CASE ty \in {"WRITE_BUFFER", "READ_BUFFER"}
  <2>1. /\ ty # "NDRANGE" /\ MLCLCommand(c, ty) = <<Up(mem, OfCmd(c))>>
        /\ Handle(ty) \ {program} = {mem}
    BY <1>2, <1>3 DEF MLCLCommand, Handle
  <2> QED
    BY <1>1, <2>1, CallsBegin
<1>4. CASE ty = "NDRANGE"
  <2>1. /\ MLCLCommand(c, ty) = <<Up(kernel, OfCmd(c))>>
        /\ Handle(ty) \ {program} = {kernel}
    BY <1>2, <1>4 DEF MLCLCommand, Handle
  <2>2. who = Nobody /\ s = <<Use(program)>> \o <<Up(kernel, OfCmd(c))>> \o <<r>>
    BY <1>4, <2>1
  <2>3. /\ BeginsCall(t, c, {kernel}, Nobody,
               Listed(t, <<Use(program)>> \o <<Up(kernel, OfCmd(c))>> \o <<r>>))
        /\ <<Use(program)>> \o <<Up(kernel, OfCmd(c))>> \o <<r>> \in Seq(Steps)
    BY <1>1, <2>2, CallsBegin
  <2> HIDE DEF s, who
  <2> QED
    BY <2>1, <2>2, <2>3, Zenon
<1>5. CASE ty = "EMPTY"
  <2>1. /\ ty # "NDRANGE" /\ MLCLCommand(c, ty) = <<>>
        /\ Handle(ty) \ {program} = {}
    BY <1>5 DEF MLCLCommand, Handle
  <2> QED
    BY <1>1, <2>1, CallsBegin
<1> QED
  BY <1>3, <1>4, <1>5 DEF CommandTypes

\* clEnqueueWriteBuffer, clEnqueueReadBuffer, clEnqueueNDRangeKernel, clFinish.
LEMMA Enqueued ==
    ASSUME IInv, NEW t \in Threads, NEW ty \in Types, NEW b \in BOOLEAN,
           NEW w \in BOOLEAN, Enqueue(t, ty, b, w)
    PROVE  IInv'
<1>0. PICK c : c = issued + 1
  OBVIOUS
<1> DEFINE who == IF ty = "NDRANGE" THEN Nobody ELSE Call
           r == [op |-> "submit", obj |-> c, who |-> who,
                 blocking |-> b, wants |-> w]
           s == IF ty = "NDRANGE"
                THEN <<Use(program)>> \o MLCLCommand(c, ty) \o <<r>>
                ELSE MLCLCommand(c, ty) \o <<Up(c, Call), r>>
           K == Handle(ty) \ {program}
<1>1. /\ todo[t] = <<>> /\ issued < MaxCmds /\ Handle(ty) \subseteq held
      /\ issued' = c /\ type' = [type EXCEPT ![c] = ty]
      /\ m_counter' = [m_counter EXCEPT ![c] = 1]
      /\ alive' = [alive EXCEPT ![c] = TRUE]
      /\ refs' = [refs EXCEPT ![c] = {OfCmd(c)}]
      /\ todo' = [todo EXCEPT ![t] = s]
      /\ UNCHANGED <<reg, held, queue, lost, released, m_last_event, running,
                     complete, overlapped, bad>>
  BY <1>0 DEF Enqueue, ring
<1>2. /\ Typed /\ Registers /\ Counters /\ Discipline /\ Apart /\ NoUseAfterDelete
      /\ t \in Actors /\ ty \in CommandTypes
  BY TypesAssumption DEF IInv, Actors
<1>3. c \in Cmds /\ c \notin Issued /\ Issued \subseteq Cmds /\ c \in Counted
  BY <1>0, <1>1, <1>2, BoundAssumption DEF Typed, Issued, Cmds, Counted
<1>4. BeginsCall(t, c, K, who, Listed(t, s)) /\ s \in Seq(Steps)
  BY <1>2, <1>3, EnqueueLists
<1> HIDE DEF s, r
<1>5. Pending' = Pending \cup Listed(t, s) /\ \A x \in Pending : x.actor # t
  BY <1>1, <1>2, Pushed DEF Typed
<1>6. K \in SUBSET (held \ {program})
  BY <1>1
<1>7. CountedBy(c)' = {c} \cup K
  <2>1. type'[c] = ty
    BY <1>1, <1>2, <1>3 DEF Typed
  <2>2. CountedBy(c)' = {c} \cup (IF ty \in {"WRITE_BUFFER", "READ_BUFFER"} THEN {mem} ELSE {})
                         \cup (IF ty = "NDRANGE" THEN {kernel} ELSE {})
    BY <2>1 DEF CountedBy, IsBuffer
  <2>3. mem # program /\ kernel # program
    BY HandlesDiffer
  <2> QED
    BY <1>2, <2>2, <2>3 DEF Handle, CommandTypes
<1> HIDE DEF K
<1>8. Discipline'
  <2>1. issued' = c /\ c = issued + 1
    BY <1>0, <1>1
  <2> QED
    BY <1>1, <1>2, <1>3, <1>4, <1>5, <1>6, <1>7, <2>1, EnqueueDiscipline
<1>9. \A u \in Actors : todo[u] # <<>> => Now(u).obj # c
  <2> SUFFICES ASSUME NEW u \in Actors, todo[u] # <<>> PROVE Now(u).obj # c
    OBVIOUS
  <2>1. Front(u) \in Pending /\ Front(u).obj = Now(u).obj
    BY <1>2, NextPending DEF IsNext
  <2>2. Front(u).obj \in Issued \cup Handles
    BY <1>2, <2>1, FormFacts DEF Discipline
  <2>3. c \notin Handles
    BY <1>3, HandlesDiffer
  <2> QED
    BY <1>3, <2>1, <2>2, <2>3
<1>10. \A u \in Actors : reg[u] # -1 =>
          /\ u # t /\ todo'[u] = todo[u] /\ Now(u)' = Now(u) /\ Now(u).obj # c
          /\ Doing(u, {"up", "down"})'
  <2> SUFFICES ASSUME NEW u \in Actors, reg[u] # -1
        PROVE  /\ u # t /\ todo'[u] = todo[u] /\ Now(u)' = Now(u) /\ Now(u).obj # c
               /\ Doing(u, {"up", "down"})'
    OBVIOUS
  <2>1. todo[u] # <<>> /\ Now(u).op \in {"up", "down"}
    BY <1>2 DEF Registers, Doing
  <2>2. u # t /\ todo'[u] = todo[u]
    BY <1>1, <1>2, <2>1 DEF Typed
  <2> QED
    BY <1>9, <2>1, <2>2 DEF Now, Doing
<1>11. Registers'
  BY <1>1, <1>10 DEF Registers
<1>12. /\ m_counter'[c] = 1 /\ alive'[c] = TRUE /\ refs'[c] = {OfCmd(c)}
       /\ \A o \in Counted \ {c} : /\ m_counter'[o] = m_counter[o]
                                   /\ alive'[o] = alive[o] /\ refs'[o] = refs[o]
  BY <1>1, <1>2, <1>3 DEF Typed
<1>13. ASSUME NEW o \in Counted \ overlapped PROVE Exact(o)'
  <2>1. CASE o = c
    <3>1. IsFiniteSet(refs'[c]) /\ Cardinality(refs'[c]) = 1 /\ refs'[c] # {}
      BY <1>12, FS_Singleton
    <3>2. \A u \in Actors : ~(reg'[u] # -1 /\ Now(u)'.obj = c)
      BY <1>1, <1>10
    <3> QED
      BY <1>12, <2>1, <3>1, <3>2 DEF Exact
  <2>2. CASE o # c
    BY <1>1, <1>2, <1>10, <1>12, <1>13, <2>2 DEF Counters, Exact
  <2> QED
    BY <2>1, <2>2
<1>14. Counters'
  BY <1>1, <1>13 DEF Counters
<1>15. Typed'
  <2>1. /\ issued' \in 0 .. MaxCmds /\ Issued \subseteq Issued'
    BY <1>0, <1>1, <1>2, BoundAssumption DEF Typed, Issued
  <2>2. /\ type' \in [Cmds -> CommandTypes] /\ m_counter' \in [Counted -> Nat]
        /\ alive' \in [Counted -> BOOLEAN]
    BY <1>1, <1>2 DEF Typed
  <2>3. refs' \in [Counted -> SUBSET Holders]
    <3>1. {OfCmd(c)} \subseteq Holders
      BY <1>3 DEF Holders
    <3> QED
      BY <1>1, <1>2, <3>1 DEF Typed
  <2>4. todo' \in [Actors -> Seq(Steps)]
    BY <1>1, <1>2, <1>4 DEF Typed
  <2>5. queue \in Seq(Issued') /\ lost \subseteq Issued'
    BY <1>2, <2>1 DEF Typed
  <2> QED
    BY <1>1, <1>2, <2>1, <2>2, <2>3, <2>4, <2>5 DEF Typed
<1>16. Apart' /\ NoUseAfterDelete'
  BY <1>1, <1>2 DEF Apart, NoUseAfterDelete
<1> QED
  BY <1>8, <1>11, <1>14, <1>15, <1>16 DEF IInv

-----------------------------------------------------------------------------
(* The loop begins: a command is taken, an NDRange ends. The loop had      *)
(* nothing to do, so what is pending is the calls of the threads.          *)

\* What no call of a thread does.
LEMMA OnlyThreads ==
    ASSUME Typed, Forms, NEW x \in Pending, x.actor # Loop
    PROVE  /\ x.actor \in Threads /\ ~Effect(x) /\ x.op # "route"
           /\ x.who # Last
           /\ \A c \in Issued : /\ x.who # OfNDRange(c)
                                /\ x.who = OfCmd(c) => ~Gives(x)
BY FormFacts DEF Effect

\* What on_new_cmd_cb gives the loop to do for command c: to count the event
\* before it (last) down and its own up for the queue, to access what the
\* command names, to complete the event or route an NDRange that has counted
\* its kernel and event up, and after all that to count down what the command
\* counted.
FreedLater(x, c, N) ==
    \A o \in CountedBy(c) : \E y \in N :
        Before(x, y) /\ y.op = "down" /\ y.obj = o /\ y.who = OfCmd(c)
BeginsCommand(c, last, N) ==
    /\ \A x \in N : x.actor = Loop /\
          \/ /\ FreedLater(x, c, N)
             /\ \/ x.op = "down" /\ x.obj = last /\ x.who = Last /\ last # None
                \/ x.op = "up" /\ x.obj = c /\ x.who = Last
                \/ /\ x.op = "use" /\ x.obj \in Handles /\ x.who = Nobody
                   /\ x.obj # program => x.obj \in CountedBy(c)
                \/ x.op = "complete" /\ x.obj = c /\ x.who = Nobody
                \/ /\ type[c] = "NDRANGE" /\ x.who = OfNDRange(c)
                   /\ x.op = "up" /\ x.obj \in {kernel, c}
                   /\ \E y \in N : Before(x, y) /\ y.op = "route"
                \/ /\ type[c] = "NDRANGE" /\ x.who = Nobody
                   /\ x.op = "route" /\ x.obj = c
                   /\ \A o \in {kernel, c} : \E y \in N :
                         /\ Before(y, x) /\ y.op = "up"
                         /\ y.obj = o /\ y.who = OfNDRange(c)
          \/ x.op = "down" /\ x.obj \in CountedBy(c) /\ x.who = OfCmd(c)
    /\ \A x, y \in N : Same(x, y) /\ x.op \in {"up", "down"} /\ x.op = y.op => x = y
    /\ \A x, y \in N : Effect(x) /\ Effect(y) => x = y
    /\ \A o \in CountedBy(c) : \E x \in N : x.op = "down" /\ x.obj = o /\ x.who = OfCmd(c)
    /\ \E x \in N : x.op = "up" /\ x.obj = c /\ x.who = Last
    /\ last # None => \E x \in N : x.op = "down" /\ x.obj = last /\ x.who = Last

\* A command is taken from the queue.
LEMMA CommandDiscipline ==
    ASSUME Typed, Discipline, queue # <<>>, NEW c, c = Head(queue),
           NEW last, last = m_last_event,
           NEW N, BeginsCommand(c, last, N), Pending' = Pending \cup N,
           \A x \in Pending : x.actor # Loop,
           last \in complete \cup {None},
           queue' = Tail(queue), m_last_event' = c,
           UNCHANGED <<issued, type, held, lost, running, complete, refs, overlapped>>
    PROVE  Discipline'
<1> USE DEF Discipline
<1>1. /\ c \in Issued /\ c # None /\ Issued \subseteq Cmds /\ InQueue(c)
      /\ c \notin Handles /\ c \in Counted
  <2>1. queue \in Seq(Issued) /\ Len(queue) \in Nat /\ Len(queue) >= 1
        /\ Head(queue) = queue[1]
    BY DEF Typed
  <2>2. c \in Issued /\ 1 \in 1 .. Len(queue) /\ queue[1] = c
    BY <2>1
  <2>3. Issued \subseteq Cmds
    BY BoundAssumption DEF Issued, Cmds, Typed
  <2> QED
    BY <2>2, <2>3, HandlesDiffer DEF InQueue, None, Issued, Counted
<1>2. /\ Issued' = Issued /\ \A d : CountedBy(d)' = CountedBy(d)
      /\ \A d : Referrers(d)' = Referrers(d)
  BY DEF Issued, CountedBy, IsBuffer, Referrers
<1>3. FreshCmd(c) /\ ~InCall(c)
  BY <1>1 DEF Fresh
<1>4. \A x \in Pending :
         /\ x.actor \in Threads /\ ~Effect(x) /\ x.op # "route" /\ x.who # Last
         /\ \A d \in Issued : /\ x.who # OfNDRange(d)
                              /\ x.who = OfCmd(d) => ~Gives(x)
  BY OnlyThreads
<1>5. \A o \in CountedBy(c) \ overlapped : OfCmd(c) \in refs[o]
  BY <1>3 DEF FreshCmd, SubmitLater, InCall
<1>6. /\ c \notin complete \cup running /\ c # last
      /\ Last \notin refs[c] /\ OfNDRange(c) \notin refs[kernel] \cup refs[c]
  BY <1>3 DEF FreshCmd
<1>7. last \in Issued \cup {None} /\ Loop \notin Threads
  BY ThreadsAssumption DEF Typed
<1>8. /\ \A d \in Issued : OfCmd(d) \notin {App, Call, Last, User, Nobody}
                           /\ OfNDRange(d) \notin {App, Call, Last, User, Nobody}
      /\ \A d, e \in Issued : /\ OfCmd(d) # OfNDRange(e)
                              /\ OfCmd(d) = OfCmd(e) => d = e
                              /\ OfNDRange(d) = OfNDRange(e) => d = e
      /\ App # Call /\ App # Last /\ App # Nobody /\ Call # Last /\ Call # Nobody
      /\ Last # Nobody
  BY <1>1, HoldersDiffer
\* The new operations.
<1>9. \A x \in N : /\ x.actor = Loop /\ x.op \notin {"submit", "hand", "wait"}
                   /\ x.who \in {Last, Nobody, OfCmd(c), OfNDRange(c)}
                   /\ x.who = Last => (x.op = "up" /\ x.obj = c)
                                       \/ (x.op = "down" /\ x.obj = last /\ last # None)
                   /\ x.who = OfNDRange(c) =>
                         /\ x.op = "up" /\ x.obj \in {kernel, c}
                         /\ \E y \in N : Before(x, y) /\ y.op = "route"
                   /\ x.who = OfCmd(c) => x.op = "down" /\ x.obj \in CountedBy(c)
                   /\ x.who = Nobody => ~Takes(x) /\ ~Gives(x)
                   /\ Effect(x) => x.obj = c /\ x.who = Nobody
                   /\ x.op = "route" => type[c] = "NDRANGE"
                   /\ x.obj \in Handles \cup {c, last}
  <2> SUFFICES ASSUME NEW x \in N
        PROVE  /\ x.actor = Loop /\ x.op \notin {"submit", "hand", "wait"}
               /\ x.who \in {Last, Nobody, OfCmd(c), OfNDRange(c)}
               /\ x.who = Last => (x.op = "up" /\ x.obj = c)
                                   \/ (x.op = "down" /\ x.obj = last /\ last # None)
               /\ x.who = OfNDRange(c) =>
                     /\ x.op = "up" /\ x.obj \in {kernel, c}
                     /\ \E y \in N : Before(x, y) /\ y.op = "route"
               /\ x.who = OfCmd(c) => x.op = "down" /\ x.obj \in CountedBy(c)
               /\ x.who = Nobody => ~Takes(x) /\ ~Gives(x)
               /\ Effect(x) => x.obj = c /\ x.who = Nobody
               /\ x.op = "route" => type[c] = "NDRANGE"
               /\ x.obj \in Handles \cup {c, last}
    OBVIOUS
  <2>1. x.actor = Loop
    BY DEF BeginsCommand
  <2>2. CountedBy(c) \subseteq Handles \cup {c} /\ kernel \in Handles
    BY DEF CountedBy, Handles
  <2>3. OfCmd(c) \notin {Last, Nobody, OfNDRange(c)}
        /\ OfNDRange(c) \notin {Last, Nobody} /\ Last # Nobody
    BY <1>1, <1>8
  <2>4. CASE x.who = Last
    BY <2>1, <2>3, <2>4 DEF BeginsCommand, Effect, Takes, Gives
  <2>5. CASE x.who = Nobody
    <3>1. \/ x.op = "use" /\ x.obj \in Handles
          \/ x.op = "complete" /\ x.obj = c
          \/ x.op = "route" /\ x.obj = c /\ type[c] = "NDRANGE"
      BY <2>3, <2>5 DEF BeginsCommand
    <3> QED
      BY <2>1, <2>3, <2>5, <3>1 DEF Effect, Takes, Gives
  <2>6. CASE x.who = OfNDRange(c)
    BY <2>1, <2>2, <2>3, <2>6 DEF BeginsCommand, Effect
  <2>7. CASE x.who = OfCmd(c)
    BY <2>1, <2>2, <2>3, <2>7 DEF BeginsCommand, Effect
  <2> QED
    BY <2>4, <2>5, <2>6, <2>7 DEF BeginsCommand
<1>10. \A x : /\ \A d : SubmitLater(x, d) => SubmitLater(x, d)'
              /\ \A d : RouteLater(x, d) => RouteLater(x, d)'
              /\ CallGivesLater(x) => CallGivesLater(x)'
              /\ TakenBefore(x) => TakenBefore(x)'
              /\ GivenLater(x) => GivenLater(x)'
  <2> SUFFICES ASSUME NEW x
        PROVE  /\ \A d : SubmitLater(x, d) => SubmitLater(x, d)'
               /\ \A d : RouteLater(x, d) => RouteLater(x, d)'
               /\ CallGivesLater(x) => CallGivesLater(x)'
               /\ TakenBefore(x) => TakenBefore(x)'
               /\ GivenLater(x) => GivenLater(x)'
    OBVIOUS
  <2>1. \A d : /\ SubmitLater(x, d) => SubmitLater(x, d)'
               /\ RouteLater(x, d) => RouteLater(x, d)'
    BY DEF SubmitLater, RouteLater
  <2>2. CallGivesLater(x) => CallGivesLater(x)'
    BY DEF CallGivesLater
  <2>3. TakenBefore(x) => TakenBefore(x)'
    BY DEF TakenBefore
  <2>4. GivenLater(x) => GivenLater(x)'
    BY DEF GivenLater
  <2> QED
    BY <2>1, <2>2, <2>3, <2>4
<1>11. Forms'
  <2>1. ASSUME NEW x \in Pending PROVE (OfThread(x) \/ OfLoop(x))'
    <3>1. OfThread(x) => OfThread(x)'
      BY <1>2, <1>10 DEF OfThread
    <3>2. OfLoop(x) => OfLoop(x)'
      BY <1>2, <1>10 DEF OfLoop, Effect
    <3> QED
      BY <2>1, <3>1, <3>2 DEF Forms
  <2>2. ASSUME NEW x \in N PROVE OfLoop(x)'
    <3>0. x.actor = Loop
      BY <1>9
    <3>1. CASE x.who = Last
      BY <1>1, <1>2, <1>7, <1>9, <3>0, <3>1 DEF OfLoop
    <3>2. CASE x.who = Nobody
      <4>1. (x.op = "use" /\ x.obj \in Handles) \/ (Effect(x) /\ x.obj = c)
        BY <1>1, <1>8, <3>2 DEF BeginsCommand, Effect
      <4> QED
        BY <1>1, <1>2, <3>0, <3>2, <4>1 DEF OfLoop, Effect
    <3>3. CASE x.who = OfCmd(c)
      BY <1>1, <1>2, <1>9, <3>0, <3>3 DEF OfLoop
    <3>4. CASE x.who = OfNDRange(c)
      <4>1. PICK y \in N : Before(x, y) /\ y.op = "route"
        BY <1>9, <3>4
      <4>2. y.obj = c /\ type[c] = "NDRANGE"
        BY <1>9, <4>1 DEF Effect
      <4>3. RouteLater(x, c)'
        BY <4>1, <4>2 DEF RouteLater
      <4> QED
        BY <1>1, <1>2, <1>9, <3>0, <3>4, <4>2, <4>3 DEF OfLoop
    <3> QED
      BY <1>9, <3>1, <3>2, <3>3, <3>4
  <2> QED
    BY <2>1, <2>2 DEF Forms
<1>12. Unique'
  <2>1. ASSUME NEW x \in N, NEW y \in Pending, Same(x, y) \/ Same(y, x),
               (Takes(x) /\ Takes(y)) \/ (Gives(x) /\ Gives(y))
        PROVE  FALSE
    <3>1. x.who \in {OfCmd(c), OfNDRange(c), Last}
      BY <1>9, <2>1
    <3>2. y.who = x.who
      BY <2>1 DEF Same
    <3>3. x.who = OfCmd(c) /\ Gives(y)
      BY <1>1, <1>4, <1>9, <2>1, <3>1, <3>2 DEF Takes
    <3> QED
      BY <1>1, <1>4, <3>2, <3>3
  <2>2. ASSUME NEW x \in N, NEW y \in N, Same(x, y),
               (Takes(x) /\ Takes(y)) \/ (Gives(x) /\ Gives(y))
        PROVE  x = y
    <3>1. x.op = y.op /\ x.op \in {"up", "down"}
      BY <1>9, <2>2 DEF Takes, Gives
    <3> QED
      BY <2>2, <3>1 DEF BeginsCommand
  <2> QED
    BY <2>1, <2>2 DEF Unique, Same, Takes, Gives
<1>13. NotYet' /\ OneOutcome' /\ HeldCounted'
  <2>1. ASSUME NEW x \in N, Takes(x) PROVE x.who \notin refs[x.obj]
    BY <1>6, <1>9, <2>1 DEF Takes
  <2>2. ASSUME NEW x \in N, x.who = Call PROVE FALSE
    BY <1>1, <1>8, <1>9, <2>2
  <2>3. NotYet'
    BY <2>1 DEF NotYet, Takes
  <2>4. OneOutcome'
    BY <2>2 DEF OneOutcome, Gives
  <2>5. HeldCounted'
    BY DEF HeldCounted
  <2> QED
    BY <2>3, <2>4, <2>5
<1>14. last # None /\ last \notin overlapped => Last \in refs[last]
  BY <1>4 DEF LastCounted
<1>15. Owned'
  <2>1. ASSUME NEW x \in N, Gives(x), x.obj \notin overlapped
        PROVE  x.who \in refs[x.obj]
    <3>1. CASE x.who = Last
      BY <1>9, <1>14, <2>1, <3>1 DEF Gives
    <3>2. CASE x.who = OfCmd(c)
      BY <1>5, <1>9, <2>1, <3>2
    <3> QED
      BY <1>9, <2>1, <3>1, <3>2 DEF Gives
  <2> QED
    BY <1>10, <2>1 DEF Owned, Gives
<1>16. Guarded'
  <2>1. ASSUME NEW x \in N, Accesses(x)' PROVE GivenLater(x)'
    <3>1. x.op \in {"up", "use", "complete"} /\ x.obj # program /\ x.obj \notin overlapped
      BY <1>9, <2>1 DEF Accesses
    <3>2. FreedLater(x, c, N)
      BY <3>1 DEF BeginsCommand
    <3>3. x.obj \in CountedBy(c)
      <4>1. x.obj \in CountedBy(c) \/ x.obj = c \/ (x.obj = kernel /\ type[c] = "NDRANGE")
        BY <3>1 DEF BeginsCommand
      <4> QED
        BY <4>1 DEF CountedBy
    <3>4. PICK y \in N : Before(x, y) /\ y.op = "down" /\ y.obj = x.obj /\ y.who = OfCmd(c)
      BY <3>2, <3>3 DEF FreedLater
    <3>5. OfCmd(c) \in refs[x.obj]
      BY <1>5, <3>1, <3>3
    <3> QED
      BY <3>4, <3>5 DEF GivenLater, Gives
  <2>2. ASSUME NEW x \in Pending, Accesses(x)'
        PROVE  (\/ x.actor \in Threads /\ x.obj \in held
                \/ SubmitLater(x, x.obj)
                \/ GivenLater(x))'
    BY <1>10, <2>2 DEF Guarded, Accesses
  <2> QED
    BY <2>1, <2>2 DEF Guarded
<1>17. Fresh'
  <2>1. queue \in Seq(Issued) /\ Len(queue) \in Nat /\ Len(queue) >= 1
        /\ queue[1] = c
    BY DEF Typed
  <2>2. /\ Len(queue') = Len(queue) - 1
        /\ \A i \in 1 .. Len(queue') : queue'[i] = queue[i + 1]
    BY <2>1
  <2>3. /\ \A i, j \in 1 .. Len(queue) : queue[i] = queue[j] => i = j
        /\ \A i \in 1 .. Len(queue) : queue[i] \notin lost
    BY DEF Fresh, OncePerRing
  <2>4. \A i \in 1 .. Len(queue') :
           i + 1 \in 1 .. Len(queue) /\ i + 1 # 1
    BY <2>1, <2>2
  <2>5. \A i \in 1 .. Len(queue') : queue'[i] # c
    <3>1. 1 \in 1 .. Len(queue)
      BY <2>1
    <3> QED
      BY <2>1, <2>2, <2>3, <2>4, <3>1
  <2>6. \A i, j \in 1 .. Len(queue') : queue'[i] = queue'[j] => i = j
    <3> SUFFICES ASSUME NEW i \in 1 .. Len(queue'), NEW j \in 1 .. Len(queue'),
                        queue'[i] = queue'[j]
                 PROVE  i = j
      OBVIOUS
    <3>1. i + 1 = j + 1
      BY <2>2, <2>3, <2>4
    <3> QED
      BY <2>1, <2>2, <3>1
  <2>7. \A d : InCall(d)' <=> InCall(d)
    BY <1>9 DEF InCall
  <2>8. \A d : InQueue(d)' => InQueue(d) /\ d # c
    <3>1. c \notin lost
      BY <2>1, <2>3
    <3> QED
      BY <2>2, <2>4, <2>5, <3>1 DEF InQueue
  <2>13. OncePerRing'
    BY <2>2, <2>3, <2>4, <2>6 DEF OncePerRing
  <2>9. ASSUME NEW d \in Issued, FreshCmd(d), d # c PROVE FreshCmd(d)'
    <3>1. \A o \in CountedBy(d) \ overlapped :
             \/ OfCmd(d) \in refs[o]
             \/ /\ o # d
                /\ \E x \in Pending' : /\ Takes(x) /\ x.obj = o /\ x.who = OfCmd(d)
                                       /\ SubmitLater(x, d)'
      BY <1>10, <2>9 DEF FreshCmd
    <3>2. d \notin complete \cup running \cup {c}
      BY <2>9 DEF FreshCmd
    <3>3. ASSUME NEW x \in N, Mentions(x, d) PROVE FALSE
      <4>1. d # last /\ d \notin Handles
        BY <1>1, <2>9, HandlesDiffer DEF FreshCmd
      <4>2. x.obj # d
        BY <1>9, <2>9, <4>1
      <4>3. x.who \notin {OfCmd(d), OfNDRange(d)}
        BY <1>1, <1>8, <1>9, <2>9
      <4> QED
        BY <3>3, <4>2, <4>3 DEF Mentions
    <3>4. Last \notin refs[d] /\ OfNDRange(d) \notin refs[kernel] \cup refs[d]
      BY <2>9 DEF FreshCmd
    <3>5. \A x \in Pending' : x.actor = Loop => ~Mentions(x, d)
      BY <3>3
    <3> QED
      BY <1>2, <3>1, <3>2, <3>4, <3>5 DEF FreshCmd, Takes, Mentions
  <2>10. \A d \in Issued' : InCall(d)' \/ InQueue(d)' => FreshCmd(d)'
    BY <1>2, <1>3, <2>7, <2>8, <2>9 DEF Fresh
  <2>11. \A d \in Issued' : ~(InCall(d)' /\ InQueue(d)')
    BY <1>2, <2>7, <2>8 DEF Fresh
  <2>12. \A x, y \in Pending' :
            x.op = "submit" /\ y.op = "submit" /\ x.obj = y.obj => x = y
    BY <1>9 DEF Fresh
  <2> QED
    BY <2>10, <2>11, <2>12, <2>13 DEF Fresh
<1>18. Islands' /\ Effects'
  <2>1. ASSUME NEW d \in running PROVE OnIslands(d)'
    <3>1. OnIslands(d) /\ d \in Issued /\ d # c
      BY <1>6, <2>1 DEF Islands, Typed
    <3>2. \A x \in N : x.who # OfNDRange(d) /\ ~(Effect(x) /\ x.obj = d)
      BY <1>1, <1>8, <1>9, <3>1
    <3> QED
      BY <3>1, <3>2 DEF OnIslands, Effect
  <2>2. Islands'
    BY <2>1 DEF Islands
  <2>3. Effects'
    BY <1>4 DEF Effects, Effect, BeginsCommand
  <2> QED
    BY <2>2, <2>3
<1>19. Routes'
  <2>1. ASSUME NEW x \in N, x.op = "route" PROVE ToRoute(x)'
    <3>1. x.obj = c /\ type[c] = "NDRANGE" /\ c \notin complete
      BY <1>6, <1>9, <2>1 DEF Effect
    <3>2. \A o \in {kernel, c} : \E y \in N : /\ Before(y, x) /\ Takes(y)
                                              /\ y.obj = o /\ y.who = OfNDRange(c)
      BY <2>1 DEF BeginsCommand, Takes
    <3>3. ASSUME NEW y \in Pending', y.who = OfNDRange(c)
          PROVE  Before(y, x) /\ Takes(y)
      <4>1. y \in N
        BY <1>1, <1>4, <3>3
      <4>2. PICK z \in N : Before(y, z) /\ z.op = "route"
        BY <1>9, <3>3, <4>1
      <4>3. z = x
        BY <2>1, <4>2 DEF BeginsCommand, Effect
      <4> QED
        BY <1>9, <3>3, <4>1, <4>2, <4>3 DEF Takes
    <3> QED
      BY <3>1, <3>2, <3>3 DEF ToRoute, Takes
  <2> QED
    BY <1>4, <2>1 DEF Routes
<1>20. LastCounted' /\ LastOnly'
  <2>1. LastCounted'
    BY DEF LastCounted, BeginsCommand, Takes
  <2>2. \A x \in N : x.who = Last => (Takes(x) <=> x.obj = c)
    BY <1>6, <1>9 DEF Takes
  <2> QED
    BY <1>4, <2>1, <2>2 DEF LastOnly, Takes
<1>21. NotIssued' /\ OwnReferrers'
  BY <1>2 DEF NotIssued, OwnReferrers
<1>22. Accounted'
  <2>1. \A o, r : Given(o, r) => Given(o, r)'
    BY DEF Given, Gives
  <2>2. \A d : d # c /\ Started(d)' => Started(d)
    BY <1>9 DEF Started, Effect
  <2>3. ASSUME NEW o \in Counted, OfCmd(c) \in refs[o] PROVE Given(o, OfCmd(c))'
    <3>1. o \in CountedBy(c)
      <4>1. OfCmd(c) \in Referrers(o)
        BY <2>3 DEF OwnReferrers
      <4>2. CASE o \in Handles
        BY <1>1, <1>8, <4>1, <4>2 DEF Referrers
      <4>3. CASE o \in Cmds /\ o \notin Handles
        <5>1. OfCmd(c) \in {Call, Last, User, OfCmd(o), OfNDRange(o)}
          BY <4>1, <4>3 DEF Referrers
        <5>2. o = c
          BY <1>1, <4>3, <5>1, HoldersDiffer
        <5> QED
          BY <5>2 DEF CountedBy
      <4> QED
        BY <4>2, <4>3 DEF Counted
    <3> QED
      BY <3>1 DEF Given, Gives, BeginsCommand
  <2>4. ASSUME NEW o \in Counted \ overlapped, Last \in refs[o]
        PROVE  o = c \/ Given(o, Last)'
    <3>1. CASE o = last
      <4>1. o # None
        BY <2>4, HandlesAssumption DEF Counted, Cmds, None, Handles
      <4> QED
        BY <3>1, <4>1 DEF Given, Gives, BeginsCommand
    <3>2. CASE o # last
      BY <2>1, <2>4, <3>2 DEF Accounted
    <3> QED
      BY <3>1, <3>2
  <2>5. ASSUME NEW o \in Counted \ overlapped
        PROVE  /\ Call \in refs[o] => Given(o, Call)'
               /\ \A d \in Issued :
                     OfCmd(d) \in refs[o] /\ Started(d)' => Given(o, OfCmd(d))'
               /\ \A d \in Issued : OfNDRange(d) \in refs[o] =>
                     \/ d \in running \/ Given(o, OfNDRange(d))'
                     \/ \E x \in Pending' : x.op = "route" /\ x.obj = d
    BY <2>1, <2>2, <2>3 DEF Accounted
  <2> QED
    BY <1>2, <2>4, <2>5 DEF Accounted
<1>23. Everywhere' /\ Waits'
  <2>1. queue \in Seq(Issued) /\ Len(queue) \in Nat /\ Len(queue) >= 1
        /\ queue[1] = c
    BY DEF Typed
  <2>2. /\ Len(queue') = Len(queue) - 1
        /\ \A i \in 1 .. Len(queue') : queue'[i] = queue[i + 1]
    BY <2>1
  <2>3. ASSUME NEW d, InQueue(d), d # c PROVE InQueue(d)'
    <3>1. CASE d \in lost
      BY <3>1 DEF InQueue
    <3>2. ASSUME NEW i \in 1 .. Len(queue), queue[i] = d PROVE InQueue(d)'
      <4>1. i # 1
        BY <2>1, <2>3, <3>2
      <4>2. i - 1 \in 1 .. Len(queue') /\ (i - 1) + 1 = i
        BY <2>1, <2>2, <4>1
      <4>3. queue'[i - 1] = d
        BY <2>2, <3>2, <4>2
      <4> QED
        BY <4>2, <4>3 DEF InQueue
    <3> QED
      BY <2>3, <3>1, <3>2 DEF InQueue
  <2>4. \A d : InCall(d) => InCall(d)'
    BY DEF InCall
  <2>5. Started(c)' /\ \A d \in Issued : Started(d) => Started(d)'
    <3>1. None \notin Issued
      BY DEF None, Issued
    <3> QED
      BY <3>1 DEF Started, Effect
  <2>6. Everywhere'
    BY <1>2, <2>3, <2>4, <2>5 DEF Everywhere
  <2> QED
    BY <1>4, <1>7, <1>9, <2>6 DEF Waits
<1> QED
  BY <1>11, <1>12, <1>13, <1>15, <1>16, <1>17, <1>18, <1>19, <1>20, <1>21, <1>22,
     <1>23

\* What the end of an NDRange gives the loop to do.
EndsNDRange(c, N) ==
    /\ \A x \in N : x.actor = Loop /\
          \/ x.op = "use" /\ x.obj = program /\ x.who = Nobody
          \/ /\ x.op = "complete" /\ x.obj = c /\ x.who = Nobody
             /\ \E y \in N : /\ Before(x, y) /\ y.op = "down"
                             /\ y.obj = c /\ y.who = OfNDRange(c)
          \/ x.op = "down" /\ x.obj \in {kernel, c} /\ x.who = OfNDRange(c)
    /\ \A x, y \in N : Same(x, y) /\ x.op = "down" /\ y.op = "down" => x = y
    /\ \A x, y \in N : Effect(x) /\ Effect(y) => x = y
    /\ \E x \in N : Effect(x) /\ x.obj = c
    /\ \A o \in {kernel, c} : \E x \in N :
          x.op = "down" /\ x.obj = o /\ x.who = OfNDRange(c)

\* The last work group of an NDRange ends.
LEMMA NDRangeDiscipline ==
    ASSUME Typed, Discipline, NEW c \in running,
           NEW N, EndsNDRange(c, N), Pending' = Pending \cup N,
           \A x \in Pending : x.actor # Loop,
           running' = running \ {c},
           UNCHANGED <<issued, type, held, queue, lost, m_last_event, complete, refs,
                       overlapped>>
    PROVE  Discipline'
<1> USE DEF Discipline
<1>1. c \in Issued /\ Issued \subseteq Cmds /\ c \notin Handles /\ c \in Counted
  <2>1. Issued \subseteq Cmds
    BY BoundAssumption DEF Issued, Cmds, Typed
  <2> QED
    BY <2>1, HandlesDiffer DEF Typed, Counted
<1>2. /\ Issued' = Issued /\ \A d : CountedBy(d)' = CountedBy(d)
      /\ \A d : Referrers(d)' = Referrers(d)
  BY DEF Issued, CountedBy, IsBuffer, Referrers
<1>3. OnIslands(c)
  BY DEF Islands
<1>4. \A x \in Pending :
         /\ x.actor \in Threads /\ ~Effect(x) /\ x.op # "route" /\ x.who # Last
         /\ \A d \in Issued : /\ x.who # OfNDRange(d)
                              /\ x.who = OfCmd(d) => ~Gives(x)
  BY OnlyThreads
<1>5. /\ \A d \in Issued : OfNDRange(d) \notin {App, Call, Last, User, Nobody}
                           /\ OfCmd(d) \notin {App, Call, Last, User, Nobody}
      /\ \A d, e \in Issued : /\ OfCmd(d) # OfNDRange(e)
                              /\ OfNDRange(d) = OfNDRange(e) => d = e
      /\ Call # Nobody /\ Last # Nobody
  BY <1>1, HoldersDiffer
<1>6. type[c] = "NDRANGE" /\ \A o \in {kernel, c} \ overlapped : OfNDRange(c) \in refs[o]
  BY <1>3 DEF OnIslands
\* The new operations.
<1>7. \A x \in N : /\ x.actor = Loop /\ x.op \in {"use", "complete", "down"}
                   /\ x.who \in {Nobody, OfNDRange(c)}
                   /\ Gives(x) => x.op = "down" /\ x.obj \in {kernel, c}
                                                /\ x.who = OfNDRange(c)
                   /\ Effect(x) => x.obj = c
                   /\ x.obj \in Handles \cup {c}
                   /\ ~Takes(x)
  BY DEF EndsNDRange, Gives, Effect, Takes, Handles
<1>8. \A x : /\ \A d : SubmitLater(x, d) => SubmitLater(x, d)'
             /\ \A d : RouteLater(x, d) => RouteLater(x, d)'
             /\ CallGivesLater(x) => CallGivesLater(x)'
             /\ TakenBefore(x) => TakenBefore(x)'
             /\ GivenLater(x) => GivenLater(x)'
  <2> SUFFICES ASSUME NEW x
        PROVE  /\ \A d : SubmitLater(x, d) => SubmitLater(x, d)'
               /\ \A d : RouteLater(x, d) => RouteLater(x, d)'
               /\ CallGivesLater(x) => CallGivesLater(x)'
               /\ TakenBefore(x) => TakenBefore(x)'
               /\ GivenLater(x) => GivenLater(x)'
    OBVIOUS
  <2>1. \A d : /\ SubmitLater(x, d) => SubmitLater(x, d)'
               /\ RouteLater(x, d) => RouteLater(x, d)'
    BY DEF SubmitLater, RouteLater
  <2>2. CallGivesLater(x) => CallGivesLater(x)'
    BY DEF CallGivesLater
  <2>3. TakenBefore(x) => TakenBefore(x)'
    BY DEF TakenBefore
  <2>4. GivenLater(x) => GivenLater(x)'
    BY DEF GivenLater
  <2> QED
    BY <2>1, <2>2, <2>3, <2>4
<1>9. Forms'
  <2>1. ASSUME NEW x \in Pending PROVE (OfThread(x) \/ OfLoop(x))'
    <3>1. OfThread(x) => OfThread(x)'
      BY <1>2, <1>8 DEF OfThread
    <3>2. OfLoop(x) => OfLoop(x)'
      BY <1>2, <1>8 DEF OfLoop, Effect
    <3> QED
      BY <2>1, <3>1, <3>2 DEF Forms
  <2>2. ASSUME NEW x \in N PROVE OfLoop(x)'
    BY <1>1, <1>2, <1>6 DEF OfLoop, EndsNDRange, Effect, Handles
  <2> QED
    BY <2>1, <2>2 DEF Forms
<1>10. Unique'
  <2>1. ASSUME NEW x \in N, NEW y \in Pending, Same(x, y) \/ Same(y, x), Gives(x)
        PROVE  FALSE
    BY <1>1, <1>4, <1>7, <2>1 DEF Same
  <2>2. ASSUME NEW x \in N, NEW y \in N, Same(x, y), Gives(x), Gives(y)
        PROVE  x = y
    BY <1>7, <2>2 DEF EndsNDRange
  <2> QED
    BY <1>7, <2>1, <2>2 DEF Unique, Same, Takes, Gives
<1>11. NotYet' /\ OneOutcome' /\ HeldCounted'
  <2>1. NotYet'
    BY <1>7 DEF NotYet, Takes
  <2>2. OneOutcome'
    BY <1>1, <1>5, <1>7 DEF OneOutcome, Gives
  <2>3. HeldCounted'
    BY DEF HeldCounted
  <2> QED
    BY <2>1, <2>2, <2>3
<1>12. Owned'
  BY <1>6, <1>7, <1>8 DEF Owned, Gives
<1>13. Guarded'
  <2>1. ASSUME NEW x \in N, Accesses(x)' PROVE GivenLater(x)'
    <3>1. x.obj = c /\ x.obj \notin overlapped
          /\ \E y \in N : /\ Before(x, y) /\ y.op = "down"
                          /\ y.obj = c /\ y.who = OfNDRange(c)
      BY <2>1 DEF Accesses, EndsNDRange
    <3> QED
      BY <1>6, <3>1 DEF GivenLater, Gives
  <2>2. ASSUME NEW x \in Pending, Accesses(x)'
        PROVE  (\/ x.actor \in Threads /\ x.obj \in held
                \/ SubmitLater(x, x.obj)
                \/ GivenLater(x))'
    BY <1>8, <2>2 DEF Guarded, Accesses
  <2> QED
    BY <2>1, <2>2 DEF Guarded
<1>14. Fresh'
  <2>1. \A d : InCall(d)' <=> InCall(d)
    BY <1>7 DEF InCall
  <2>2. \A d : InQueue(d)' <=> InQueue(d)
    BY DEF InQueue
  <2>3. ASSUME NEW d \in Issued, FreshCmd(d) PROVE FreshCmd(d)'
    <3>1. \A o \in CountedBy(d) \ overlapped :
             \/ OfCmd(d) \in refs[o]
             \/ /\ o # d
                /\ \E x \in Pending' : /\ Takes(x) /\ x.obj = o /\ x.who = OfCmd(d)
                                       /\ SubmitLater(x, d)'
      BY <1>8, <2>3 DEF FreshCmd
    <3>2. d # c /\ d \notin Handles /\ d \notin complete \cup running \cup {m_last_event}
      BY <1>1, <2>3, HandlesDiffer DEF FreshCmd
    <3>3. \A x \in N : ~Mentions(x, d)
      BY <1>1, <1>5, <1>7, <3>2 DEF Mentions
    <3>4. Last \notin refs[d] /\ OfNDRange(d) \notin refs[kernel] \cup refs[d]
      BY <2>3 DEF FreshCmd
    <3>5. \A x \in Pending' : x.actor = Loop => ~Mentions(x, d)
      BY <3>3
    <3> QED
      BY <1>2, <3>1, <3>2, <3>4, <3>5 DEF FreshCmd, Takes, Mentions
  <2>4. \A x, y \in Pending' :
            x.op = "submit" /\ y.op = "submit" /\ x.obj = y.obj => x = y
    BY <1>7 DEF Fresh
  <2>5. OncePerRing'
    BY DEF Fresh, OncePerRing
  <2> QED
    BY <1>2, <2>1, <2>2, <2>3, <2>4, <2>5 DEF Fresh
<1>15. Islands' /\ Effects' /\ Routes'
  <2>1. ASSUME NEW d \in running' PROVE OnIslands(d)'
    <3>1. OnIslands(d) /\ d \in Issued /\ d # c
      BY <2>1 DEF Islands, Typed
    <3>2. \A x \in N : x.who # OfNDRange(d) /\ ~(Effect(x) /\ x.obj = d)
      BY <1>1, <1>5, <1>7, <3>1
    <3> QED
      BY <3>1, <3>2 DEF OnIslands, Effect
  <2>2. Islands'
    BY <2>1 DEF Islands
  <2>3. Effects'
    BY <1>4 DEF Effects, Effect, EndsNDRange
  <2>4. Routes'
    BY <1>4, <1>7 DEF Routes
  <2> QED
    BY <2>2, <2>3, <2>4
<1>16. LastCounted' /\ LastOnly'
  <2>1. \A x \in N : x.who # Last
    BY <1>1, <1>5, <1>7
  <2> QED
    BY <2>1 DEF LastCounted, LastOnly, Takes
<1>17. NotIssued' /\ OwnReferrers'
  BY <1>2 DEF NotIssued, OwnReferrers
<1>18. Accounted'
  <2>1. \A o, r : Given(o, r) => Given(o, r)'
    BY DEF Given, Gives
  <2>2. \A d : Started(d)' => Started(d)
    BY <1>7 DEF Started, Effect
  <2>3. ASSUME NEW o \in Counted, OfNDRange(c) \in refs[o] PROVE Given(o, OfNDRange(c))'
    <3>1. o \in {kernel, c}
      <4>1. OfNDRange(c) \in Referrers(o)
        BY <2>3 DEF OwnReferrers
      <4>2. CASE o \in Handles
        BY <1>1, <1>5, <4>1, <4>2 DEF Referrers
      <4>3. CASE o \in Cmds /\ o \notin Handles
        <5>1. OfNDRange(c) \in {Call, Last, User, OfCmd(o), OfNDRange(o)}
          BY <4>1, <4>3 DEF Referrers
        <5> QED
          BY <1>1, <4>3, <5>1, HoldersDiffer
      <4> QED
        BY <4>2, <4>3 DEF Counted
    <3> QED
      BY <3>1 DEF Given, Gives, EndsNDRange
  <2>4. ASSUME NEW o \in Counted \ overlapped
        PROVE  /\ Call \in refs[o] => Given(o, Call)'
               /\ Last \in refs[o] => o = m_last_event \/ Given(o, Last)'
               /\ \A d \in Issued :
                     OfCmd(d) \in refs[o] /\ Started(d)' => Given(o, OfCmd(d))'
               /\ \A d \in Issued : OfNDRange(d) \in refs[o] =>
                     \/ d \in running' \/ Given(o, OfNDRange(d))'
                     \/ \E x \in Pending' : x.op = "route" /\ x.obj = d
    <3>1. \A d \in Issued : OfNDRange(d) \in refs[o] =>
             \/ d \in running' \/ Given(o, OfNDRange(d))'
             \/ \E x \in Pending' : x.op = "route" /\ x.obj = d
      <4> SUFFICES ASSUME NEW d \in Issued, OfNDRange(d) \in refs[o]
                   PROVE  \/ d \in running' \/ Given(o, OfNDRange(d))'
                          \/ \E x \in Pending' : x.op = "route" /\ x.obj = d
        OBVIOUS
      <4>1. CASE d = c
        BY <2>3, <4>1
      <4>2. CASE d # c
        BY <2>1, <4>2 DEF Accounted
      <4> QED
        BY <4>1, <4>2
    <3> QED
      BY <2>1, <2>2, <3>1 DEF Accounted
  <2> QED
    BY <1>2, <2>4 DEF Accounted
<1>19. Everywhere' /\ Waits'
  <2>1. \A d : (InCall(d) => InCall(d)') /\ (InQueue(d) => InQueue(d)')
    BY DEF InCall, InQueue
  <2>2. Started(c)'
    <3>1. PICK x \in N : Effect(x) /\ x.obj = c
      BY DEF EndsNDRange, Effect
    <3> QED
      BY <3>1 DEF Started, Effect
  <2>3. \A d : Started(d) /\ d # c => Started(d)'
    BY DEF Started, Effect
  <2>4. Everywhere'
    BY <1>2, <2>1, <2>2, <2>3 DEF Everywhere
  <2> QED
    BY <1>7, <2>4 DEF Waits
<1> QED
  BY <1>9, <1>10, <1>11, <1>12, <1>13, <1>14, <1>15, <1>16, <1>17, <1>18, <1>19

\* Four operations.
LEMMA FourListed ==
    ASSUME NEW t, NEW a \in Steps, NEW b \in Steps, NEW c \in Steps, NEW d \in Steps
    PROVE  /\ <<a, b, c, d>> \in Seq(Steps)
           /\ Listed(t, <<a, b, c, d>>) =
                 {Duty(t, 4, a), Duty(t, 3, b), Duty(t, 2, c), Duty(t, 1, d)}
<1> DEFINE s == <<a, b, c, d>>
           D(k) == Duty(t, k, s[Len(s) + 1 - k])
<1>1. D(1) = Duty(t, 1, d) /\ D(2) = Duty(t, 2, c) /\ D(3) = Duty(t, 3, b)
      /\ D(4) = Duty(t, 4, a)
  OBVIOUS
<1>2. 1 .. Len(s) = {1, 2, 3, 4}
  OBVIOUS
<1>3. Listed(t, s) = {D(k) : k \in {1, 2, 3, 4}}
  BY <1>2 DEF Listed
<1>4. s \in Seq(Steps)
  OBVIOUS
<1> HIDE DEF D, s
<1>5. {D(k) : k \in {1, 2, 3, 4}} = {D(4), D(3), D(2), D(1)}
  OBVIOUS
<1> QED
  BY <1>1, <1>3, <1>4, <1>5 DEF s

\* The list of the end of an NDRange.
LEMMA NDRangeList ==
    ASSUME NEW c \in Cmds
    PROVE  LET s == <<Use(program), Op("complete", c, Nobody),
                      Down(kernel, OfNDRange(c)), Down(c, OfNDRange(c))>>
           IN s \in Seq(Steps) /\ EndsNDRange(c, Listed(Loop, s))
<1> DEFINE a == Use(program)
           b == Op("complete", c, Nobody)
           k == Down(kernel, OfNDRange(c))
           e == Down(c, OfNDRange(c))
           w == Duty(Loop, 4, a)
           x == Duty(Loop, 3, b)
           y == Duty(Loop, 2, k)
           z == Duty(Loop, 1, e)
<1>1. a \in Steps /\ b \in Steps /\ k \in Steps /\ e \in Steps
  <2>1. /\ c \in Counted /\ kernel \in Counted /\ program \in Counted
        /\ OfNDRange(c) \in Holders
    BY DEF Counted, Handles, Holders
  <2> QED
    BY <2>1, OpTyped DEF Use, Down, OpNames
<1>2. /\ a.op = "use" /\ a.obj = program /\ a.who = Nobody
      /\ b.op = "complete" /\ b.obj = c /\ b.who = Nobody
      /\ k.op = "down" /\ k.obj = kernel /\ k.who = OfNDRange(c)
      /\ e.op = "down" /\ e.obj = c /\ e.who = OfNDRange(c)
  BY OpFields DEF Use, Down
<1> HIDE DEF a, b, k, e
<1>3. <<a, b, k, e>> \in Seq(Steps) /\ Listed(Loop, <<a, b, k, e>>) = {w, x, y, z}
  BY <1>1, FourListed
<1>4. /\ w.actor = Loop /\ w.left = 4 /\ w.op = "use" /\ w.obj = program /\ w.who = Nobody
      /\ x.actor = Loop /\ x.left = 3 /\ x.op = "complete" /\ x.obj = c /\ x.who = Nobody
      /\ y.actor = Loop /\ y.left = 2 /\ y.op = "down" /\ y.obj = kernel
                        /\ y.who = OfNDRange(c)
      /\ z.actor = Loop /\ z.left = 1 /\ z.op = "down" /\ z.obj = c
                        /\ z.who = OfNDRange(c)
  BY <1>2, DutyFields
<1> HIDE DEF w, x, y, z
<1>5. Before(x, z)
  BY <1>4 DEF Before
<1>6. kernel # c /\ Nobody # OfNDRange(c)
  BY HandlesDiffer, HoldersDiffer DEF Handles
<1>7. EndsNDRange(c, {w, x, y, z})
  <2>1. \A v \in {w, x, y, z} : v.actor = Loop /\
          \/ v.op = "use" /\ v.obj = program /\ v.who = Nobody
          \/ /\ v.op = "complete" /\ v.obj = c /\ v.who = Nobody
             /\ \E u \in {w, x, y, z} : /\ Before(v, u) /\ u.op = "down"
                             /\ u.obj = c /\ u.who = OfNDRange(c)
          \/ v.op = "down" /\ v.obj \in {kernel, c} /\ v.who = OfNDRange(c)
    BY <1>4, <1>5
  <2>2. \A v, u \in {w, x, y, z} :
           Same(v, u) /\ v.op = "down" /\ u.op = "down" => v = u
    BY <1>4, <1>6 DEF Same
  <2>3. \A v, u \in {w, x, y, z} : Effect(v) /\ Effect(u) => v = u
    BY <1>4 DEF Effect
  <2>4. \A o \in {kernel, c} : \E v \in {w, x, y, z} :
          v.op = "down" /\ v.obj = o /\ v.who = OfNDRange(c)
    BY <1>4
  <2>5. \E v \in {w, x, y, z} : Effect(v) /\ v.obj = c
    BY <1>4 DEF Effect
  <2> QED
    BY <2>1, <2>2, <2>3, <2>4, <2>5 DEF EndsNDRange
<1> QED
  BY <1>3, <1>7 DEF a, b, k, e

\* The last work group of an NDRange ends, and the loop begins what follows.
LEMMA NDRangeFinished ==
    ASSUME IInv, NEW c \in Cmds, NDRangeFinishes(c)
    PROVE  IInv'
<1> DEFINE s == <<Use(program), Op("complete", c, Nobody),
                  Down(kernel, OfNDRange(c)), Down(c, OfNDRange(c))>>
<1>1. /\ todo[Loop] = <<>> /\ c \in running /\ running' = running \ {c}
      /\ todo' = [todo EXCEPT ![Loop] = s]
      /\ UNCHANGED <<issued, type, m_counter, alive, reg, refs, overlapped, held,
                     queue, lost, released, m_last_event, complete, bad>>
  BY DEF NDRangeFinishes, counters, ring
<1>2. Typed /\ Registers /\ Discipline /\ Loop \in Actors
  BY DEF IInv, Actors
<1>3. s \in Seq(Steps) /\ EndsNDRange(c, Listed(Loop, s))
  BY NDRangeList
<1> HIDE DEF s
<1>4. Pending' = Pending \cup Listed(Loop, s) /\ \A x \in Pending : x.actor # Loop
  BY <1>1, <1>2, Pushed DEF Typed
<1>5. Discipline'
  BY <1>1, <1>2, <1>3, <1>4, NDRangeDiscipline
<1>6. reg[Loop] = -1
  BY <1>1, <1>2, NotLoaded DEF Doing
<1>7. queue' \in Seq(Issued) /\ lost' \subseteq Issued
      /\ m_last_event' \in Issued \cup {None}
  BY <1>1, <1>2 DEF Typed
<1> QED
  BY <1>1, <1>2, <1>3, <1>5, <1>6, <1>7, ListStep

\* Where the operations of a part of a list are.
LEMMA AboveLeft ==
    ASSUME NEW t, NEW n \in Nat, NEW s \in Seq(Steps), NEW x \in Above(t, n, s)
    PROVE  x.actor = t /\ x.left \in Nat /\ n < x.left /\ x.left <= n + Len(s)
<1>1. PICK k \in 1 .. Len(s) : x = Duty(t, n + k, s[Len(s) + 1 - k])
  BY DEF Above
<1>2. x.actor = t /\ x.left = n + k
  BY <1>1, DutyFields
<1>3. Len(s) \in Nat
  OBVIOUS
<1> QED
  BY <1>2, <1>3

\* The list of on_new_cmd_cb from its four parts.
LEMMA FourParts ==
    ASSUME NEW t, NEW a \in Seq(Steps), NEW u \in Steps, NEW h \in Seq(Steps),
           NEW d \in Seq(Steps)
    PROVE  /\ ((a \o <<u>>) \o h) \o d \in Seq(Steps)
           /\ Listed(t, ((a \o <<u>>) \o h) \o d) =
                 Above(t, 0, d) \cup Above(t, Len(d), h)
                    \cup {Duty(t, Len(d) + Len(h) + 1, u)}
                    \cup Above(t, Len(d) + Len(h) + 1, a)
<1> DEFINE n == Len(d) + Len(h)
<1>1. \A m \in Nat : \A v, w \in Seq(Steps) :
          /\ v \o w \in Seq(Steps)
          /\ Above(t, m, v \o w) = Above(t, m, w) \cup Above(t, m + Len(w), v)
  BY Joined
<1>2. <<u>> \in Seq(Steps) /\ 0 \in Nat /\ Len(d) \in Nat /\ n \in Nat
      /\ Len(<<u>>) = 1 /\ 0 + Len(d) = Len(d)
  OBVIOUS
<1> HIDE DEF n
<1> DEFINE l == a \o <<u>>
<1>3. l \in Seq(Steps) /\ Above(t, n, l) = Above(t, n, <<u>>) \cup Above(t, n + Len(<<u>>), a)
  BY <1>1, <1>2, Zenon
<1> HIDE DEF l
<1> DEFINE m == l \o h
<1>4. /\ m \in Seq(Steps)
      /\ Above(t, Len(d), m) = Above(t, Len(d), h) \cup Above(t, Len(d) + Len(h), l)
  BY <1>1, <1>2, <1>3, Zenon
<1> HIDE DEF m
<1>5. /\ m \o d \in Seq(Steps)
      /\ Above(t, 0, m \o d) = Above(t, 0, d) \cup Above(t, 0 + Len(d), m)
  BY <1>1, <1>2, <1>4, Zenon
<1>6. Above(t, n, <<u>>) = {Duty(t, n + 1, u)}
  <2>1. \A k, x : Above(t, k, <<x>>) = {Duty(t, k + 1, x)}
    BY Parts
  <2> QED
    BY <2>1
<1>7. Listed(t, m \o d) = Above(t, 0, m \o d)
  <2>1. \A s : Listed(t, s) = Above(t, 0, s)
    BY Parts
  <2> QED
    BY <2>1
<1>8. Above(t, n, l) = {Duty(t, n + 1, u)} \cup Above(t, n + 1, a)
  BY <1>2, <1>3, <1>6
<1>9. Above(t, 0 + Len(d), m) = Above(t, Len(d), h) \cup Above(t, n, l)
  BY <1>2, <1>4 DEF n
<1> QED
  BY <1>5, <1>7, <1>8, <1>9 DEF m, l, n

\* delete cmd counts down all that the command counts.
LEMMA DeleteList ==
    ASSUME NEW c \in Cmds, type[c] \in CommandTypes
    PROVE  /\ delete_cmd(c) \in Seq(Steps)
           /\ LET D == Above(Loop, 0, delete_cmd(c)) IN
              /\ \A x \in D : x.op = "down" /\ x.obj \in CountedBy(c) /\ x.who = OfCmd(c)
              /\ \A x, y \in D : Same(x, y) => x = y
              /\ \A o \in CountedBy(c) : \E x \in D :
                    x.op = "down" /\ x.obj = o /\ x.who = OfCmd(c)
<1> DEFINE e == Down(c, OfCmd(c))
           m == Down(mem, OfCmd(c))
           k == Down(kernel, OfCmd(c))
           z == Duty(Loop, 1, e)
           x == Duty(Loop, 2, m)
           y == Duty(Loop, 2, k)
           D == Above(Loop, 0, delete_cmd(c))
<1>1. e \in Steps /\ m \in Steps /\ k \in Steps
  <2>1. /\ c \in Counted /\ kernel \in Counted /\ mem \in Counted
        /\ OfCmd(c) \in Holders
    BY DEF Counted, Handles, Holders
  <2> QED
    BY <2>1, OpTyped DEF Down, OpNames
<1>2. /\ e.op = "down" /\ e.obj = c /\ e.who = OfCmd(c)
      /\ m.op = "down" /\ m.obj = mem /\ m.who = OfCmd(c)
      /\ k.op = "down" /\ k.obj = kernel /\ k.who = OfCmd(c)
  BY OpFields DEF Down
<1>3. c # mem /\ c # kernel
  BY HandlesDiffer DEF Handles
<1>4. /\ IsBuffer(c) => type[c] # "NDRANGE" /\ delete_cmd(c) = <<m>> \o <<e>>
      /\ type[c] = "NDRANGE" => ~IsBuffer(c) /\ delete_cmd(c) = <<k>> \o <<e>>
      /\ type[c] = "EMPTY" => /\ ~IsBuffer(c) /\ type[c] # "NDRANGE"
                              /\ delete_cmd(c) = <<>> \o <<e>>
      /\ IsBuffer(c) \/ type[c] = "NDRANGE" \/ type[c] = "EMPTY"
  BY DEF delete_cmd, IsBuffer, CommandTypes
<1> HIDE DEF e, m, k, D
<1>5. ASSUME NEW a \in Seq(Steps)
      PROVE  /\ a \o <<e>> \in Seq(Steps)
             /\ Above(Loop, 0, a \o <<e>>) = {z} \cup Above(Loop, 1, a)
  <2>1. <<e>> \in Seq(Steps) /\ 0 \in Nat /\ 0 + Len(<<e>>) = 1 /\ 0 + 1 = 1
    BY <1>1
  <2>2. /\ a \o <<e>> \in Seq(Steps)
        /\ Above(Loop, 0, a \o <<e>>) =
              Above(Loop, 0, <<e>>) \cup Above(Loop, 0 + Len(<<e>>), a)
    <3>1. \A n \in Nat : \A v, w \in Seq(Steps) :
          /\ v \o w \in Seq(Steps)
          /\ Above(Loop, n, v \o w) = Above(Loop, n, w) \cup Above(Loop, n + Len(w), v)
      BY Joined
    <3> QED
      BY <2>1, <3>1, Zenon
  <2>3. Above(Loop, 0, <<e>>) = {Duty(Loop, 0 + 1, e)}
    <3>1. \A n, v : Above(Loop, n, <<v>>) = {Duty(Loop, n + 1, v)}
      BY Parts
    <3> QED
      BY <3>1, Zenon
  <2> QED
    BY <2>1, <2>2, <2>3
<1>6. /\ Above(Loop, 1, <<>>) = {} /\ Above(Loop, 1, <<m>>) = {x}
      /\ Above(Loop, 1, <<k>>) = {y}
  <2>1. \A n, v : Above(Loop, n, <<v>>) = {Duty(Loop, n + 1, v)}
    BY Parts
  <2>2. \A n : Above(Loop, n, <<>>) = {}
    BY Parts
  <2>3. /\ Above(Loop, 1, <<m>>) = {Duty(Loop, 1 + 1, m)}
        /\ Above(Loop, 1, <<k>>) = {Duty(Loop, 1 + 1, k)}
    BY <2>1, Zenon
  <2>4. 1 + 1 = 2
    OBVIOUS
  <2> QED
    BY <2>2, <2>3, <2>4
<1>7. /\ z.op = "down" /\ z.obj = c /\ z.who = OfCmd(c)
      /\ x.op = "down" /\ x.obj = mem /\ x.who = OfCmd(c)
      /\ y.op = "down" /\ y.obj = kernel /\ y.who = OfCmd(c)
  BY <1>2, DutyFields
<1>8. <<m>> \in Seq(Steps) /\ <<k>> \in Seq(Steps) /\ <<>> \in Seq(Steps)
  BY <1>1
<1> HIDE DEF x, y, z
<1>9. CASE IsBuffer(c)
  <2>1. delete_cmd(c) \in Seq(Steps) /\ D = {z, x}
    BY <1>4, <1>5, <1>6, <1>8, <1>9 DEF D
  <2>2. CountedBy(c) = {c, mem}
    BY <1>4, <1>9 DEF CountedBy
  <2> QED
    BY <1>3, <1>7, <2>1, <2>2 DEF Same, D
<1>10. CASE type[c] = "NDRANGE"
  <2>1. delete_cmd(c) \in Seq(Steps) /\ D = {z, y}
    BY <1>4, <1>5, <1>6, <1>8, <1>10 DEF D
  <2>2. CountedBy(c) = {c, kernel}
    BY <1>4, <1>10 DEF CountedBy
  <2> QED
    BY <1>3, <1>7, <2>1, <2>2 DEF Same, D
<1>11. CASE type[c] = "EMPTY"
  <2>1. delete_cmd(c) \in Seq(Steps) /\ D = {z}
    BY <1>4, <1>5, <1>6, <1>8, <1>11 DEF D
  <2>2. CountedBy(c) = {c}
    BY <1>4, <1>11 DEF CountedBy
  <2> QED
    BY <1>7, <2>1, <2>2 DEF Same, D
<1> QED
  BY <1>4, <1>9, <1>10, <1>11

\* handle_a_cmd: a buffer command accesses what it counts and completes; an
\* NDRange command counts what its NDRange refers to before it is routed.
HandlesCommand(c, H) ==
    /\ \A x \in H :
          \/ /\ x.op = "use" /\ x.obj \in Handles /\ x.who = Nobody
             /\ x.obj # program => x.obj \in CountedBy(c)
          \/ x.op = "complete" /\ x.obj = c /\ x.who = Nobody
          \/ /\ type[c] = "NDRANGE" /\ x.who = OfNDRange(c)
             /\ x.op = "up" /\ x.obj \in {kernel, c}
             /\ \E y \in H : Before(x, y) /\ y.op = "route"
          \/ /\ type[c] = "NDRANGE" /\ x.who = Nobody
             /\ x.op = "route" /\ x.obj = c
             /\ \A o \in {kernel, c} : \E y \in H :
                   /\ Before(y, x) /\ y.op = "up"
                   /\ y.obj = o /\ y.who = OfNDRange(c)
    /\ \A x, y \in H : Same(x, y) /\ x.op = "up" /\ y.op = "up" => x = y
    /\ \A x, y \in H : Effect(x) /\ Effect(y) => x = y

\* The list of handle_a_cmd does that, wherever it is.
LEMMA HandleList ==
    ASSUME NEW c \in Cmds, type[c] \in CommandTypes, NEW n \in Nat
    PROVE  /\ handle_a_cmd(c) \in Seq(Steps)
           /\ HandlesCommand(c, Above(Loop, n, handle_a_cmd(c)))
<1> DEFINE a == Use(mem)
           b == Op("complete", c, Nobody)
           p == Use(kernel)
           q == Use(program)
           k == Up(kernel, OfNDRange(c))
           e == Up(c, OfNDRange(c))
           r == Op("route", c, Nobody)
<1>1. /\ a \in Steps /\ b \in Steps /\ p \in Steps /\ q \in Steps /\ k \in Steps
      /\ e \in Steps /\ r \in Steps
  <2>1. /\ c \in Counted /\ kernel \in Counted /\ mem \in Counted
        /\ program \in Counted /\ OfNDRange(c) \in Holders
    BY DEF Counted, Handles, Holders
  <2> QED
    BY <2>1, OpTyped DEF Use, Up, OpNames
<1>2. /\ a.op = "use" /\ a.obj = mem /\ a.who = Nobody
      /\ b.op = "complete" /\ b.obj = c /\ b.who = Nobody
      /\ p.op = "use" /\ p.obj = kernel /\ p.who = Nobody
      /\ q.op = "use" /\ q.obj = program /\ q.who = Nobody
      /\ k.op = "up" /\ k.obj = kernel /\ k.who = OfNDRange(c)
      /\ e.op = "up" /\ e.obj = c /\ e.who = OfNDRange(c)
      /\ r.op = "route" /\ r.obj = c /\ r.who = Nobody
  BY OpFields DEF Use, Up
<1>3. /\ IsBuffer(c) => handle_a_cmd(c) = <<a, b>> /\ mem \in CountedBy(c)
      /\ type[c] = "NDRANGE" => /\ handle_a_cmd(c) = <<p, q, k, e, r>>
                                /\ kernel \in CountedBy(c)
      /\ type[c] = "EMPTY" => handle_a_cmd(c) = <<>>
      /\ IsBuffer(c) \/ type[c] = "NDRANGE" \/ type[c] = "EMPTY"
      /\ mem \in Handles /\ kernel \in Handles /\ program \in Handles
  BY DEF handle_a_cmd, IsBuffer, CommandTypes, CountedBy, Handles
<1> HIDE DEF a, b, p, q, k, e, r
<1>4. kernel # c
  BY HandlesDiffer DEF Handles
<1>5. CASE IsBuffer(c)
  <2> DEFINE x == Duty(Loop, n + 2, a)
             y == Duty(Loop, n + 1, b)
  <2>1. Above(Loop, n, <<a, b>>) = {x, y}
    <3>1. \A m, v, u : Above(Loop, m, <<v, u>>) =
             {Duty(Loop, m + 2, v), Duty(Loop, m + 1, u)}
      BY Parts
    <3> QED
      BY <3>1, Zenon
  <2>2. /\ x.op = "use" /\ x.obj = mem /\ x.who = Nobody
        /\ y.op = "complete" /\ y.obj = c /\ y.who = Nobody
    BY <1>2, DutyFields
  <2> HIDE DEF x, y
  <2>3. HandlesCommand(c, {x, y})
    BY <1>3, <1>5, <2>2 DEF HandlesCommand, Effect
  <2>4. <<a, b>> \in Seq(Steps)
    BY <1>1
  <2> QED
    BY <1>3, <1>5, <2>1, <2>3, <2>4
<1>6. CASE type[c] = "NDRANGE"
  <2> DEFINE v == Duty(Loop, n + 5, p)
             w == Duty(Loop, n + 4, q)
             x == Duty(Loop, n + 3, k)
             y == Duty(Loop, n + 2, e)
             z == Duty(Loop, n + 1, r)
  <2>1. Above(Loop, n, <<p, q, k, e, r>>) = {v, w, x, y, z}
    <3>1. \A m, f, g, h, i, j : Above(Loop, m, <<f, g, h, i, j>>) =
             {Duty(Loop, m + 5, f), Duty(Loop, m + 4, g), Duty(Loop, m + 3, h),
              Duty(Loop, m + 2, i), Duty(Loop, m + 1, j)}
      BY Parts
    <3> QED
      BY <3>1
  <2>2. /\ v.op = "use" /\ v.obj = kernel /\ v.who = Nobody
        /\ w.op = "use" /\ w.obj = program /\ w.who = Nobody
        /\ x.op = "up" /\ x.obj = kernel /\ x.who = OfNDRange(c)
        /\ y.op = "up" /\ y.obj = c /\ y.who = OfNDRange(c)
        /\ z.op = "route" /\ z.obj = c /\ z.who = Nobody
        /\ x.actor = Loop /\ x.left = n + 3 /\ y.actor = Loop /\ y.left = n + 2
        /\ z.actor = Loop /\ z.left = n + 1
    BY <1>2, DutyFields
  <2> HIDE DEF v, w, x, y, z
  <2>3. Before(x, z) /\ Before(y, z)
    BY <2>2 DEF Before
  <2>4. HandlesCommand(c, {v, w, x, y, z})
    <3>1. \A g \in {v, w, x, y, z} :
          \/ /\ g.op = "use" /\ g.obj \in Handles /\ g.who = Nobody
             /\ g.obj # program => g.obj \in CountedBy(c)
          \/ /\ g.who = OfNDRange(c)
             /\ g.op = "up" /\ g.obj \in {kernel, c}
             /\ \E h \in {v, w, x, y, z} : Before(g, h) /\ h.op = "route"
          \/ /\ g.who = Nobody /\ g.op = "route" /\ g.obj = c
             /\ \A o \in {kernel, c} : \E h \in {v, w, x, y, z} :
                   /\ Before(h, g) /\ h.op = "up"
                   /\ h.obj = o /\ h.who = OfNDRange(c)
      BY <1>3, <1>6, <2>2, <2>3
    <3>2. \A g, h \in {v, w, x, y, z} :
             Same(g, h) /\ g.op = "up" /\ h.op = "up" => g = h
      BY <1>4, <2>2 DEF Same
    <3>3. \A g, h \in {v, w, x, y, z} : Effect(g) /\ Effect(h) => g = h
      BY <2>2 DEF Effect
    <3> HIDE DEF HandlesCommand
    <3> QED
      BY <1>6, <3>1, <3>2, <3>3 DEF HandlesCommand
  <2>5. <<p, q, k, e, r>> \in Seq(Steps)
    BY <1>1
  <2> QED
    BY <1>3, <1>6, <2>1, <2>4, <2>5
<1>7. CASE type[c] = "EMPTY"
  <2>1. Above(Loop, n, <<>>) = {} /\ <<>> \in Seq(Steps)
    BY Parts
  <2>2. HandlesCommand(c, {})
    BY DEF HandlesCommand
  <2> QED
    BY <1>3, <1>7, <2>1, <2>2
<1> QED
  BY <1>3, <1>5, <1>6, <1>7

\* The four parts of what on_new_cmd_cb gives the loop, put together: what
\* comes before delete cmd comes before all that the command counts down.
LEMMA CommandList ==
    ASSUME NEW c \in Cmds, type[c] \in CommandTypes,
           m_last_event \in Cmds \cup {None}
    PROVE  LET s == set_last_event(c) \o handle_a_cmd(c) \o delete_cmd(c)
           IN s \in Seq(Steps) /\ BeginsCommand(c, m_last_event, Listed(Loop, s))
<1> DEFINE a == IF m_last_event = None THEN <<>> ELSE <<Down(m_last_event, Last)>>
           u == Up(c, Last)
           v == Down(m_last_event, Last)
           h == handle_a_cmd(c)
           d == delete_cmd(c)
           n == Len(d) + Len(h)
           D == Above(Loop, 0, d)
           H == Above(Loop, Len(d), h)
           x0 == Duty(Loop, n + 1, u)
           A == Above(Loop, n + 1, a)
           s == set_last_event(c) \o handle_a_cmd(c) \o delete_cmd(c)
           N == Listed(Loop, s)
<1>1. h \in Seq(Steps) /\ d \in Seq(Steps)
  BY DeleteList, HandleList
<1>2. u \in Steps /\ a \in Seq(Steps)
  <2>1. c \in Counted /\ Last \in Holders
    BY DEF Counted, Holders
  <2>2. u \in Steps
    BY <2>1, OpTyped DEF Up, OpNames
  <2>3. m_last_event # None => v \in Steps
    <3>1. m_last_event # None => m_last_event \in Counted
      BY DEF Counted
    <3> QED
      BY <2>1, <3>1, OpTyped DEF Down, OpNames
  <2> QED
    BY <2>2, <2>3
<1>3. /\ u.op = "up" /\ u.obj = c /\ u.who = Last
      /\ v.op = "down" /\ v.obj = m_last_event /\ v.who = Last
  BY OpFields DEF Up, Down
<1>4. s = ((a \o <<u>>) \o h) \o d
  BY DEF set_last_event
<1>5. Len(d) \in Nat /\ Len(h) \in Nat /\ n \in Nat
  BY <1>1
<1> HIDE DEF a, u, v, h, d, s
<1>6. s \in Seq(Steps) /\ N = D \cup H \cup {x0} \cup A
  BY <1>1, <1>2, <1>4, FourParts
<1>7. A = IF m_last_event = None THEN {} ELSE {Duty(Loop, n + 2, v)}
  <2>1. \A m, w : Above(Loop, m, <<w>>) = {Duty(Loop, m + 1, w)}
    BY Parts
  <2>2. \A m : Above(Loop, m, <<>>) = {}
    BY Parts
  <2>3. Above(Loop, n + 1, <<v>>) = {Duty(Loop, (n + 1) + 1, v)}
    BY <2>1
  <2>4. (n + 1) + 1 = n + 2
    BY <1>5
  <2> QED
    BY <2>2, <2>3, <2>4 DEF a, v
<1>8. /\ x0.actor = Loop /\ x0.left = n + 1 /\ x0.op = "up" /\ x0.obj = c /\ x0.who = Last
      /\ \A x \in A : /\ x.actor = Loop /\ x.left = n + 2 /\ m_last_event # None
                      /\ x.op = "down" /\ x.obj = m_last_event /\ x.who = Last
      /\ m_last_event # None => \E x \in A : x.op = "down" /\ x.obj = m_last_event /\ x.who = Last
      /\ \A x, y \in A : x = y
  BY <1>3, <1>7, DutyFields
<1>9. /\ \A x \in D : x.op = "down" /\ x.obj \in CountedBy(c) /\ x.who = OfCmd(c)
      /\ \A x, y \in D : Same(x, y) => x = y
      /\ \A o \in CountedBy(c) : \E x \in D :
            x.op = "down" /\ x.obj = o /\ x.who = OfCmd(c)
  BY DeleteList DEF d
<1>10. HandlesCommand(c, H)
  BY <1>5, HandleList DEF h
<1>11. \A x \in D : x.actor = Loop /\ x.left \in Nat /\ x.left <= Len(d)
  <2>1. 0 \in Nat /\ 0 + Len(d) = Len(d)
    BY <1>5
  <2> QED
    BY <1>1, <2>1, AboveLeft
<1>12. \A x \in H : x.actor = Loop /\ x.left \in Nat /\ Len(d) < x.left
  BY <1>1, <1>5, AboveLeft
<1> HIDE DEF D, H, A, x0
<1>13. \A x \in H \cup {x0} \cup A :
          /\ x.actor = Loop
          /\ \A y \in D : Before(x, y)
  <2>1. \A x \in H \cup {x0} \cup A : x.actor = Loop /\ x.left \in Nat /\ Len(d) < x.left
    BY <1>5, <1>8, <1>12
  <2> QED
    BY <1>5, <1>11, <2>1 DEF Before
<1> HIDE DEF N, n
<1>14. \A x \in H \cup {x0} \cup A : FreedLater(x, c, N)
  BY <1>6, <1>9, <1>13 DEF FreedLater
<1>15. Last # OfCmd(c) /\ Last # OfNDRange(c) /\ Last # Nobody /\ OfCmd(c) # OfNDRange(c)
       /\ OfCmd(c) # Nobody
  BY HoldersDiffer
<1>16. ASSUME NEW x \in N
       PROVE  x.actor = Loop /\
          \/ /\ FreedLater(x, c, N)
             /\ \/ /\ x.op = "down" /\ x.obj = m_last_event /\ x.who = Last
                   /\ m_last_event # None
                \/ x.op = "up" /\ x.obj = c /\ x.who = Last
                \/ /\ x.op = "use" /\ x.obj \in Handles /\ x.who = Nobody
                   /\ x.obj # program => x.obj \in CountedBy(c)
                \/ x.op = "complete" /\ x.obj = c /\ x.who = Nobody
                \/ /\ type[c] = "NDRANGE" /\ x.who = OfNDRange(c)
                   /\ x.op = "up" /\ x.obj \in {kernel, c}
                   /\ \E y \in N : Before(x, y) /\ y.op = "route"
                \/ /\ type[c] = "NDRANGE" /\ x.who = Nobody
                   /\ x.op = "route" /\ x.obj = c
                   /\ \A o \in {kernel, c} : \E y \in N :
                         /\ Before(y, x) /\ y.op = "up"
                         /\ y.obj = o /\ y.who = OfNDRange(c)
          \/ x.op = "down" /\ x.obj \in CountedBy(c) /\ x.who = OfCmd(c)
  <2>1. CASE x \in D
    BY <1>9, <1>11, <2>1
  <2>2. CASE x \in H
    <3>1. H \subseteq N /\ x.actor = Loop /\ FreedLater(x, c, N)
      BY <1>6, <1>12, <1>14, <2>2
    <3> QED
      BY <1>10, <2>2, <3>1 DEF HandlesCommand
  <2>3. CASE x = x0
    BY <1>8, <1>14, <2>3
  <2>4. CASE x \in A
    BY <1>8, <1>14, <2>4
  <2> QED
    BY <1>6, <2>1, <2>2, <2>3, <2>4
<1>17. ASSUME NEW x \in N, NEW y \in N, Same(x, y), x.op \in {"up", "down"}, x.op = y.op
       PROVE  x = y
  <2>1. \A z \in H : z.op # "down" /\ (z.op = "up" => z.who = OfNDRange(c))
    BY <1>10, <1>15 DEF HandlesCommand
  <2>2. \A z, w \in H : Same(z, w) /\ z.op = "up" /\ w.op = "up" => z = w
    BY <1>10 DEF HandlesCommand
  <2>3. x.who = y.who
    BY <1>17 DEF Same
  <2>4. CASE x.op = "down"
    <3>1. x \in D \cup A /\ y \in D \cup A
      BY <1>6, <1>8, <1>17, <2>1, <2>4
    <3> QED
      BY <1>8, <1>9, <1>15, <1>17, <2>3, <3>1
  <2>5. CASE x.op = "up"
    <3>1. x \in H \cup {x0} /\ y \in H \cup {x0}
      BY <1>6, <1>8, <1>9, <1>17, <2>5
    <3> QED
      BY <1>8, <1>15, <1>17, <2>1, <2>2, <2>3, <2>5, <3>1
  <2> QED
    BY <1>17, <2>4, <2>5
<1>18. \A x, y \in N : Effect(x) /\ Effect(y) => x = y
  <2>1. \A x \in N : Effect(x) => x \in H
    BY <1>6, <1>8, <1>9 DEF Effect
  <2> QED
    BY <1>10, <2>1 DEF HandlesCommand
<1>19. /\ \A o \in CountedBy(c) : \E x \in N : x.op = "down" /\ x.obj = o /\ x.who = OfCmd(c)
       /\ \E x \in N : x.op = "up" /\ x.obj = c /\ x.who = Last
       /\ m_last_event # None =>
             \E x \in N : x.op = "down" /\ x.obj = m_last_event /\ x.who = Last
  BY <1>6, <1>8, <1>9
<1>20. BeginsCommand(c, m_last_event, N)
  BY <1>16, <1>17, <1>18, <1>19 DEF BeginsCommand
<1> QED
  BY <1>6, <1>20 DEF s, N, h, d

\* A step of the callback that changes nothing of what the threads have to do, and
\* loses what it takes from the ring.
LEMMA RingStep ==
    ASSUME IInv, \A c : InQueue(c)' <=> InQueue(c), OncePerRing',
           queue' \in Seq(Issued), lost' \subseteq Issued,
           UNCHANGED <<issued, type, m_counter, alive, reg, refs, overlapped,
                       todo, held, released, m_last_event, running, complete, bad>>
    PROVE  IInv'
<1>1. /\ Typed /\ Registers /\ Counters /\ Discipline /\ Apart /\ NoUseAfterDelete
  BY DEF IInv
<1>2. Typed'
  BY <1>1 DEF Typed, Issued
<1>3. Registers' /\ Counters'
  BY <1>1 DEF Registers, Counters, Exact, Doing, Now
<1>4. Discipline'
  BY <1>1, RingDiscipline
<1>5. Apart' /\ NoUseAfterDelete'
  BY <1>1 DEF Apart, NoUseAfterDelete
<1> QED
  BY <1>2, <1>3, <1>4, <1>5 DEF IInv

\* The ring is as it was: the callback finds it empty, or has handled its command.
LEMMA RingKept ==
    ASSUME IInv,
           UNCHANGED <<issued, type, m_counter, alive, reg, refs, overlapped,
                       todo, held, queue, lost, released, m_last_event, running,
                       complete, bad>>
    PROVE  IInv'
<1>1. (\A c : InQueue(c)' <=> InQueue(c)) /\ OncePerRing'
  BY DEF InQueue, OncePerRing, IInv, Discipline, Fresh
<1>2. queue' \in Seq(Issued) /\ lost' \subseteq Issued
  BY DEF IInv, Typed
<1> QED
  BY <1>1, <1>2, RingStep

\* The queue deletes itself: the commands in its ring are lost, and nothing that
\* counts is counted down.
LEMMA QueueDeleted ==
    ASSUME IInv, check_self_destroy
    PROVE  IInv'
<1>1. /\ queue' = IF released THEN <<>> ELSE queue
      /\ lost' = IF released THEN lost \cup Range(queue) ELSE lost
      /\ UNCHANGED <<issued, type, m_counter, alive, reg, refs, overlapped,
                     todo, held, released, m_last_event, running, complete, bad>>
  BY DEF check_self_destroy, counters
<1>2. queue \in Seq(Issued) /\ lost \subseteq Issued /\ OncePerRing
  BY DEF IInv, Typed, Discipline, Fresh
<1>3. CASE ~released
  BY <1>1, <1>3, RingKept
<1>4. CASE released
  <2>1. queue' = <<>> /\ lost' = lost \cup Range(queue) /\ Len(queue') = 0
    BY <1>1, <1>4
  <2>2. \A c : c \in Range(queue) <=> \E i \in 1 .. Len(queue) : queue[i] = c
    <3>1. DOMAIN queue = 1 .. Len(queue)
      BY <1>2
    <3> QED
      BY <3>1 DEF Range
  <2>3. Range(queue) \subseteq Issued
    BY <1>2 DEF Range
  <2>4. 1 .. 0 = {}
    OBVIOUS
  <2>5. \A c : InQueue(c)' <=> InQueue(c)
    BY <2>1, <2>2, <2>4 DEF InQueue
  <2>6. OncePerRing'
    BY <2>1, <2>4 DEF OncePerRing
  <2>7. queue' \in Seq(Issued) /\ lost' \subseteq Issued
    BY <1>2, <2>1, <2>3
  <2> QED
    BY <1>1, <2>5, <2>6, <2>7, RingStep
<1> QED
  BY <1>3, <1>4

\* The loop takes a command from the queue and begins it.
LEMMA CommandBegun ==
    ASSUME IInv, on_new_cmd_cb, queue # <<>>
    PROVE  IInv'
<1>0. PICK c, s, l : /\ c = Head(queue) /\ l = m_last_event
                     /\ s = set_last_event(c) \o handle_a_cmd(c) \o delete_cmd(c)
  OBVIOUS
<1>1. /\ todo[Loop] = <<>> /\ queue # <<>> /\ l \in complete \cup {None}
      /\ todo' = [todo EXCEPT ![Loop] = s]
      /\ m_last_event' = c /\ queue' = Tail(queue)
      /\ UNCHANGED <<issued, type, m_counter, alive, reg, refs, overlapped, held,
                     lost, released, running, complete, bad>>
  BY <1>0 DEF on_new_cmd_cb, counters
<1>2. Typed /\ Registers /\ Discipline /\ Loop \in Actors
  BY DEF IInv, Actors
<1>3. c \in Issued /\ Tail(queue) \in Seq(Issued) /\ Issued \subseteq Cmds
  <2>1. queue \in Seq(Issued) /\ Issued \subseteq Cmds
    BY <1>2, BoundAssumption DEF Typed, Issued, Cmds
  <2> QED
    BY <1>0, <1>1, <2>1
<1>4. s \in Seq(Steps) /\ BeginsCommand(c, l, Listed(Loop, s))
  <2>1. c \in Cmds /\ type[c] \in CommandTypes /\ m_last_event \in Cmds \cup {None}
    BY <1>2, <1>3 DEF Typed
  <2> QED
    BY <1>0, <2>1, CommandList
<1>5. Pending' = Pending \cup Listed(Loop, s) /\ \A x \in Pending : x.actor # Loop
  BY <1>1, <1>2, Pushed DEF Typed
<1>6. Discipline'
  <2>1. c = Head(queue) /\ l = m_last_event
    BY <1>0
  <2> QED
    BY <1>1, <1>2, <1>4, <1>5, <2>1, CommandDiscipline
<1>7. reg[Loop] = -1
  BY <1>1, <1>2, NotLoaded DEF Doing
<1>8. queue' \in Seq(Issued) /\ lost' \subseteq Issued
      /\ m_last_event' \in Issued \cup {None}
  BY <1>1, <1>2, <1>3 DEF Typed
<1> QED
  BY <1>1, <1>2, <1>4, <1>6, <1>7, <1>8, ListStep

-----------------------------------------------------------------------------
(* The invariant holds, and what follows from it.                          *)

\* Nothing is pending when no thread is in the middle of a call.
LEMMA NothingPending ==
    ASSUME \A t \in Actors : todo[t] = <<>>
    PROVE  Pending = {}
<1>1. \A t \in Actors : Listed(t, todo[t]) = {}
  BY DEF Listed
<1> QED
  BY <1>1 DEF Pending

\* At the start the application holds the handles and nothing else exists.
LEMMA InitIInv ==
    ASSUME Init
    PROVE  IInv
<1>1. /\ issued = 0 /\ queue = <<>> /\ lost = {} /\ m_last_event = None
      /\ running = {} /\ complete = {} /\ overlapped = {} /\ bad = {}
      /\ held = Handles /\ released = FALSE
      /\ \A o \in Counted : /\ refs[o] = IF o \in Handles THEN {App} ELSE {}
                            /\ m_counter[o] = IF o \in Handles THEN 1 ELSE 0
                            /\ alive[o] = (o \in Handles)
      /\ \A t \in Actors : todo[t] = <<>> /\ reg[t] = -1
  BY DEF Init
<1>2. Issued = {}
  BY <1>1 DEF Issued
<1>3. Pending = {}
  BY <1>1, NothingPending
<1>4. Typed
  <2>1. issued \in 0 .. MaxCmds
    BY <1>1, BoundAssumption
  <2>2. type \in [Cmds -> CommandTypes] /\ m_counter \in [Counted -> Nat]
        /\ alive \in [Counted -> BOOLEAN]
    BY DEF Init, CommandTypes
  <2>3. todo \in [Actors -> Seq(Steps)] /\ reg \in [Actors -> Nat \cup {-1}]
    <3>1. <<>> \in Seq(Steps)
      OBVIOUS
    <3> QED
      BY <3>1 DEF Init
  <2>4. queue \in Seq(Issued) /\ lost \subseteq Issued
    BY <1>1
  <2>5. refs \in [Counted -> SUBSET Holders]
    BY DEF Init, Holders
  <2> QED
    BY <1>1, <2>1, <2>2, <2>3, <2>4, <2>5 DEF Typed
<1>5. Registers
  BY <1>1 DEF Registers
<1>6. Counters
  <2> SUFFICES ASSUME NEW o \in Counted PROVE Exact(o)
    BY DEF Counters
  <2>1. CASE o \in Handles
    <3>1. IsFiniteSet({App}) /\ Cardinality({App}) = 1
      BY FS_Singleton
    <3> QED
      BY <1>1, <2>1, <3>1 DEF Exact
  <2>2. CASE o \notin Handles
    <3>1. IsFiniteSet({}) /\ Cardinality({}) = 0
      BY FS_EmptySet
    <3> QED
      BY <1>1, <2>2, <3>1 DEF Exact
  <2> QED
    BY <2>1, <2>2
<1>7. Discipline
  <2>1. Forms /\ Unique /\ NotYet /\ Owned /\ OneOutcome /\ Guarded /\ Routes
        /\ Effects /\ LastOnly
    BY <1>3 DEF Forms, Unique, NotYet, Owned, OneOutcome, Guarded, Routes,
                Effects, LastOnly
  <2>2. HeldCounted
    BY <1>1 DEF HeldCounted, Counted
  <2>3. Fresh
    <3>1. Len(queue) = 0
      BY <1>1
    <3> QED
      BY <1>2, <1>3, <3>1 DEF Fresh, OncePerRing
  <2>4. Islands /\ LastCounted
    BY <1>1 DEF Islands, LastCounted
  <2>5. NotIssued
    BY <1>1, HandlesDiffer DEF NotIssued, Counted
  <2>6. OwnReferrers
    BY <1>1 DEF OwnReferrers, Referrers
  <2>7. Accounted
    <3>1. App # Call /\ App # Last
      BY HoldersDiffer
    <3> QED
      BY <1>1, <1>2, <3>1 DEF Accounted
  <2>8. Everywhere /\ Waits
    BY <1>2, <1>3 DEF Everywhere, Waits
  <2> QED
    BY <2>1, <2>2, <2>3, <2>4, <2>5, <2>6, <2>7, <2>8 DEF Discipline
<1>8. Apart /\ NoUseAfterDelete
  BY <1>1 DEF Apart, NoUseAfterDelete
<1> QED
  BY <1>4, <1>5, <1>6, <1>7, <1>8 DEF IInv

\* A step that changes nothing.
LEMMA Stutter ==
    ASSUME IInv, UNCHANGED vars
    PROVE  IInv'
<1>1. UNCHANGED <<issued, type, m_counter, alive, todo, reg, held, queue, lost,
                  released, m_last_event, running, complete, refs, overlapped, bad>>
  BY DEF vars
<1>2. /\ Typed /\ Registers /\ Counters /\ Discipline /\ Apart /\ NoUseAfterDelete
  BY DEF IInv
<1>3. Typed'
  BY <1>1, <1>2 DEF Typed, Issued
<1>4. Registers' /\ Counters'
  BY <1>1, <1>2 DEF Registers, Counters, Exact, Doing, Now
<1>5. Discipline'
  BY <1>1, <1>2, LoadDiscipline
<1>6. Apart' /\ NoUseAfterDelete'
  BY <1>1, <1>2 DEF Apart, NoUseAfterDelete
<1> QED
  BY <1>3, <1>4, <1>5, <1>6 DEF IInv

\* One step of a call, in an application thread or in the loop.
LEMMA CallStepped ==
    ASSUME IInv, NEW t \in Actors, CallStep(t)
    PROVE  IInv'
<1>1. CASE LoadCounter(t)
  BY <1>1, LoadAlive, LoadDead
<1>2. CASE ref_cnt_up(t)
  BY <1>2, StoredUp
<1>3. CASE ref_cnt_down(t)
  BY <1>3, StoredDown
<1>4. CASE UseObject(t)
  <2>1. Doing(t, {"use", "wait"})
    BY <1>4 DEF UseObject, Doing
  <2> QED
    BY <1>4, <2>1, Access DEF UseObject, ring
<1> QED
  BY <1>1, <1>2, <1>3, <1>4 DEF CallStep

\* Every step of the program keeps the invariant.
LEMMA StepIInv ==
    ASSUME IInv, [Next]_vars
    PROVE  IInv'
<1>1. CASE LoopStep
  <2>1. Loop \in Actors
    BY DEF Actors
  <2>2. CASE on_new_cmd_cb
    <3>1. CASE queue # <<>>
      BY <2>2, <3>1, CommandBegun
    <3>2. CASE queue = <<>>
      <4>1. UNCHANGED <<issued, type, m_counter, alive, reg, refs, overlapped, todo,
                        held, queue, lost, released, m_last_event, running, complete,
                        bad>>
        BY <2>2, <3>2 DEF on_new_cmd_cb, counters
      <4> QED
        BY <4>1, RingKept
    <3> QED
      BY <3>1, <3>2
  <2>6. CASE CommandHandled
    <3>1. UNCHANGED <<issued, type, m_counter, alive, reg, refs, overlapped, todo,
                      held, queue, lost, released, m_last_event, running, complete,
                      bad>>
      BY <2>6 DEF CommandHandled, counters
    <3> QED
      BY <3>1, RingKept
  <2>7. CASE check_self_destroy
    BY <2>7, QueueDeleted
  <2>3. CASE LoopEffect
    BY <2>3, EffectDone
  <2>4. CASE CallStep(Loop)
    BY <2>1, <2>4, CallStepped
  <2>5. CASE \E c \in Cmds : NDRangeFinishes(c)
    BY <2>5, NDRangeFinished
  <2> QED
    BY <1>1, <2>2, <2>3, <2>4, <2>5, <2>6, <2>7 DEF LoopStep
<1>2. ASSUME NEW t \in Threads, ThreadStep(t) PROVE IInv'
  <2>1. t \in Actors
    BY DEF Actors
  <2>2. CASE CallStep(t)
    BY <2>1, <2>2, CallStepped
  <2>3. CASE Submit(t)
    BY <2>3, Submitted
  <2>4. CASE wait_until_complete(t)
    <3>1. Doing(t, {"use", "wait"})
      BY <2>4 DEF wait_until_complete, Doing
    <3> QED
      BY <2>1, <2>4, <3>1, Access DEF wait_until_complete, ring
  <2>5. CASE HandToUser(t)
    BY <2>5, Handed
  <2> QED
    BY <1>2, <2>2, <2>3, <2>4, <2>5 DEF ThreadStep
<1>3. ASSUME NEW t \in Threads, ReleaseQueue(t) PROVE IInv'
  BY <1>3, QueueReleased
<1>4. ASSUME NEW t \in Threads, NEW o \in Handles, Release(t, o) PROVE IInv'
  BY <1>4, Released
<1>5. ASSUME NEW t \in Threads, NEW ty \in Types, NEW b \in BOOLEAN,
             NEW w \in BOOLEAN, Enqueue(t, ty, b, w)
      PROVE  IInv'
  BY <1>5, Enqueued
<1>6. CASE UNCHANGED vars
  BY <1>6, Stutter
<1> QED
  BY <1>1, <1>2, <1>3, <1>4, <1>5, <1>6 DEF Next

\* The inductive invariant holds in every behaviour.
LEMMA Invariance == Spec => []IInv
<1>1. Init => IInv
  BY InitIInv
<1>2. IInv /\ [Next]_vars => IInv'
  BY StepIInv
<1> QED
  BY <1>1, <1>2, PTL DEF Spec

\* The counter of an object is the number of references that were taken to it and
\* not given up, however the threads and the loop interleave, whatever the ring
\* drops and whenever the queue deletes itself (struct ref_counter, il/ocl_ds.h).
THEOREM ReferencesCounted == Spec => []CountsReferences
<1>1. IInv => CountsReferences
  <2> SUFFICES ASSUME IInv PROVE CountsReferences
    OBVIOUS
  <2>1. Typed /\ Counters /\ Apart
    BY DEF IInv
  <2>2. Issued \subseteq Cmds
    BY <2>1, BoundAssumption DEF Typed, Issued, Cmds
  <2>3. TypeOK
    BY <2>1, <2>2 DEF TypeOK, Typed, Apart
  <2> QED
    BY <2>1, <2>3 DEF CountsReferences, Counters, Exact
<1> QED
  BY <1>1, Invariance, PTL

\* No object but the program is accessed after its deletion, unless two threads
\* updated its counter at the same time: every access of a call, of a command
\* or of an NDRange comes while a reference that its thread gives up later, or
\* a handle that the application holds, keeps the object alive.
THEOREM NoAccessToDeleted == Spec => []NoUseAfterDelete
<1>1. IInv => NoUseAfterDelete
  BY DEF IInv
<1> QED
  BY <1>1, Invariance, PTL

\* When nothing goes on, what is pending is a call that waits for an event, and
\* what it has to do with it.
LEMMA OnlyWaiting ==
    ASSUME IInv, Quiet, NEW x \in Pending
    PROVE  /\ x.actor \in Threads /\ x.op \in {"wait", "down", "hand"}
           /\ WaitsFor(x.actor, x.obj)
<1>1. Typed /\ Waits /\ Discipline
  BY DEF IInv, Discipline
<1>2. x.actor \in Actors /\ todo[x.actor] # <<>>
  BY <1>1, PendingTypes DEF PendingTyped, Typed
<1>3. x.actor \in Threads /\ Now(x.actor).op = "wait"
  BY <1>2 DEF Quiet, Actors
<1>4. IsNext(x.actor, Front(x.actor))
  BY <1>1, <1>2, NextPending
<1>5. x.op \in {"wait", "down", "hand"} /\ Front(x.actor).obj = x.obj
  BY <1>1, <1>3, <1>4 DEF IsNext, Waits
<1> QED
  BY <1>2, <1>3, <1>4, <1>5 DEF WaitsFor, Doing, IsNext

\* A call that waits for an event still refers to it.
LEMMA WaitingRefers ==
    ASSUME IInv, Quiet, NEW t \in Threads, NEW o \in Counted \ overlapped,
           WaitsFor(t, o)
    PROVE  Call \in refs[o]
<1>1. Typed /\ Discipline /\ Forms /\ Guarded /\ t \in Actors /\ todo[t] # <<>>
  BY DEF IInv, Discipline, Actors, WaitsFor, Doing
<1> DEFINE x == Front(t)
<1>2. x \in Pending /\ x.actor = t /\ x.op = "wait" /\ x.obj = o
  BY <1>1, NextPending DEF IsNext, WaitsFor, Doing
<1> HIDE DEF x
<1>3. o \in Issued /\ o \notin Handles /\ t # Loop
  <2>1. OfThread(x)
    BY <1>1, <1>2, ThreadsAssumption DEF Forms, OfLoop, Effect
  <2>2. o \in Issued
    BY <1>2, <2>1 DEF OfThread
  <2>3. Issued \subseteq Cmds
    BY <1>1, BoundAssumption DEF Typed, Issued, Cmds
  <2>4. o \notin Handles
    BY <2>2, <2>3, HandlesDiffer
  <2>5. t # Loop
    BY ThreadsAssumption
  <2> QED
    BY <2>2, <2>4, <2>5
<1>4. Accesses(x)
  BY <1>2, <1>3 DEF Accesses, Handles
<1>5. ~SubmitLater(x, o) /\ o \notin held
  BY <1>1, <1>3, OnlyWaiting DEF SubmitLater, Typed
<1>6. PICK y \in Pending : Before(x, y) /\ Gives(y) /\ y.obj = o /\ y.who \in refs[o]
  BY <1>1, <1>2, <1>4, <1>5 DEF Guarded, GivenLater
<1>7. y.op \in {"down", "hand"} /\ OfThread(y)
  BY <1>1, <1>6, OnlyWaiting, ThreadsAssumption DEF Gives, Forms, OfLoop
<1>8. y.who = Call
  BY <1>1, <1>3, <1>6, <1>7 DEF OfThread
<1> QED
  BY <1>6, <1>8

\* When nothing goes on, the references that are left to an object, but for the
\* application's own, are those of the commands that were lost or wait in the ring,
\* of the queue's m_last_event, and of a call that waits in vain (cmd_q.cc:58, 99,
\* 161-169): these leak, and no others do.
THEOREM OnlyTheseReferencesLeak == Spec => []OnlyTheseLeak
<1>1. IInv => OnlyTheseLeak
  <2> SUFFICES ASSUME IInv, Quiet, NEW o \in Counted \ overlapped
               PROVE  refs[o] \ {App, User} = Left(o)
    BY DEF OnlyTheseLeak
  <2>1. /\ Typed /\ Forms /\ Accounted /\ OwnReferrers /\ Everywhere /\ Fresh
        /\ LastCounted
    BY DEF IInv, Discipline
  <2>2. \A x \in Pending : /\ x.actor \in Threads /\ x.op \in {"wait", "down", "hand"}
                           /\ WaitsFor(x.actor, x.obj)
    BY OnlyWaiting
  <2>3. Issued \subseteq Cmds /\ Loop \notin Threads /\ running = {}
    BY <2>1, BoundAssumption, ThreadsAssumption DEF Typed, Issued, Cmds, Quiet
  <2>4. \A x \in Pending : /\ ~Effect(x) /\ ~Takes(x) /\ x.op # "submit"
                           /\ x.who # Last
                           /\ \A c \in Issued : /\ x.who # OfNDRange(c)
                                                /\ x.who = OfCmd(c) => ~Gives(x)
    <3> SUFFICES ASSUME NEW x \in Pending
          PROVE  /\ ~Effect(x) /\ ~Takes(x) /\ x.op # "submit" /\ x.who # Last
                 /\ \A c \in Issued : /\ x.who # OfNDRange(c)
                                      /\ x.who = OfCmd(c) => ~Gives(x)
      OBVIOUS
    <3>1. x.actor # Loop
      BY <2>2, <2>3
    <3> QED
      BY <2>1, <2>2, <3>1, OnlyThreads DEF Takes
  <2>5. \A c : ~InCall(c)
    BY <2>4 DEF InCall
  <2>6. \A c : InQueue(c) <=> c \in lost \cup Range(queue)
    <3>1. DOMAIN queue = 1 .. Len(queue)
      BY <2>1 DEF Typed
    <3> QED
      BY <3>1 DEF InQueue, Range
  <2>7. /\ \A c \in Issued : /\ OfCmd(c) \notin {App, Call, Last, User}
                              /\ OfNDRange(c) \notin {App, Call, Last, User}
        /\ \A c, d \in Issued : OfCmd(c) = OfCmd(d) => c = d
        /\ App # Call /\ App # Last /\ Call # User /\ Last # User
    BY <2>3, HoldersDiffer
  <2>8. ASSUME NEW c \in Issued, OfCmd(c) \in refs[o]
        PROVE  c \in lost \cup Range(queue) /\ o \in CountedBy(c)
    <3>1. ~Started(c)
      BY <2>1, <2>4, <2>8 DEF Accounted, Given
    <3>2. InQueue(c)
      BY <2>1, <2>5, <3>1 DEF Everywhere
    <3>3. o \in CountedBy(c)
      <4>1. OfCmd(c) \in Referrers(o)
        BY <2>1, <2>8 DEF OwnReferrers
      <4>2. CASE o \in Handles
        <5>1. OfCmd(c) \in {OfCmd(d) : d \in {e \in Issued : o \in CountedBy(e)}}
          BY <2>3, <2>7, <4>1, <4>2, HoldersDiffer DEF Referrers
        <5> QED
          BY <2>7, <5>1
      <4>3. CASE o \notin Handles
        <5>1. o \in Cmds /\ OfCmd(c) \in {OfCmd(o), OfNDRange(o)}
          BY <2>7, <4>1, <4>3 DEF Referrers, Counted
        <5>2. o = c
          BY <2>3, <5>1, HoldersDiffer
        <5> QED
          BY <5>2 DEF CountedBy
      <4> QED
        BY <4>2, <4>3
    <3> QED
      BY <2>6, <3>2, <3>3
  <2>9. \A c \in Issued : OfNDRange(c) \notin refs[o]
    <3> SUFFICES ASSUME NEW c \in Issued, OfNDRange(c) \in refs[o] PROVE FALSE
      OBVIOUS
    <3>1. \/ c \in running \/ Given(o, OfNDRange(c))
          \/ \E x \in Pending : x.op = "route" /\ x.obj = c
      BY <2>1 DEF Accounted
    <3> QED
      BY <2>3, <2>4, <3>1 DEF Given, Effect
  <2>10. Last \in refs[o] => o = m_last_event
    BY <2>1, <2>4 DEF Accounted, Given
  <2>11. Call \in refs[o] => \E t \in Threads : WaitsFor(t, o)
    <3> SUFFICES ASSUME Call \in refs[o] PROVE \E t \in Threads : WaitsFor(t, o)
      OBVIOUS
    <3>1. PICK x \in Pending : Gives(x) /\ x.obj = o /\ x.who = Call
      BY <2>1 DEF Accounted, Given
    <3> QED
      BY <2>2, <3>1
  <2>12. ASSUME NEW r \in refs[o], r \notin {App, User} PROVE r \in Left(o)
    <3>1. r \in Referrers(o)
      BY <2>1 DEF OwnReferrers
    <3>2. \/ r = Call \/ r = Last
          \/ \E c \in Issued : r = OfCmd(c)
          \/ \E c \in Issued : r = OfNDRange(c)
      <4>1. CASE o \in Handles
        BY <2>12, <3>1, <4>1 DEF Referrers
      <4>2. CASE o \notin Handles
        <5>1. o \in Issued
          <6>1. refs[o] # {}
            BY <2>12
          <6> QED
            BY <4>2, <6>1 DEF IInv, Discipline, NotIssued, Counted
        <5> QED
          BY <2>12, <3>1, <4>2, <5>1 DEF Referrers
      <4> QED
        BY <4>1, <4>2
    <3>3. ASSUME NEW c \in Issued, r = OfCmd(c) PROVE r \in Left(o)
      BY <2>8, <2>12, <3>3 DEF Left
    <3> QED
      BY <2>9, <2>10, <2>11, <2>12, <3>2, <3>3 DEF Left
  <2>13. ASSUME NEW r \in Left(o) PROVE r \in refs[o] /\ r \notin {App, User}
    <3>1. CASE r = Last /\ o = m_last_event
      <4>1. o # None
        BY HandlesAssumption DEF Counted, Cmds, None, Handles
      <4> QED
        BY <2>1, <2>4, <2>7, <3>1, <4>1 DEF LastCounted
    <3>2. CASE r = Call /\ \E t \in Threads : WaitsFor(t, o)
      BY <2>7, <3>2, WaitingRefers
    <3>3. ASSUME NEW c \in lost \cup Range(queue), o \in CountedBy(c), r = OfCmd(c)
          PROVE  r \in refs[o] /\ r \notin {App, User}
      <4>1. c \in Issued
        BY <2>1 DEF Typed, Range
      <4>2. FreshCmd(c)
        BY <2>1, <2>6, <4>1 DEF Fresh
      <4> QED
        BY <2>4, <2>7, <3>3, <4>1, <4>2 DEF FreshCmd
    <3> QED
      BY <3>1, <3>2, <3>3 DEF Left
  <2> QED
    BY <2>12, <2>13
<1> QED
  BY <1>1, Invariance, PTL

=============================================================================
