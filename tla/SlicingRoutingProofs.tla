-------------------------- MODULE SlicingRoutingProofs -------------------------
(***************************************************************************)
(* What SlicingRouting guarantees for any number of islands, of NDRanges,   *)
(* of work groups and of slots, for any costs and for schedulers of any     *)
(* ids: the islands' invariant of IslandsProofs, that the ring of NDRanges  *)
(* forgets none and repeats none, where every work group carved is, and how *)
(* long a slice occupies its island.                                        *)
(***************************************************************************)
EXTENDS SlicingRouting, IslandsProofs

-----------------------------------------------------------------------------
(* The choice of a scheduler. *)

\* What remains of a quant divided by a cost.
LEMMA Quotient ==
    ASSUME NEW q \in Nat, NEW c \in Nat \ {0}
    PROVE  /\ q \div c \in Nat /\ q \div c <= q
           /\ (q \div c) * c <= q
           /\ q \div c > 0 <=> c <= q
<1>1. q \div c \in Int /\ (q \div c) * c <= q /\ q < (q \div c) * c + c
  OBVIOUS
<1> DEFINE d == q \div c
<1>2. d \in Int /\ d * c <= q /\ q < d * c + c
  BY <1>1
<1> HIDE DEF d
<1>3. d >= 0
  <2>1. SUFFICES ASSUME d <= -1 PROVE FALSE
    BY <1>2
  <2>2. d * c + c <= 0
    <3>1. (d + 1) * c = d * c + c
      BY <1>2
    <3>2. d + 1 \in Int /\ d + 1 <= 0
      BY <1>2, <2>1
    <3>3. (d + 1) * c <= 0
      BY <3>2
    <3>4. QED
      BY <3>1, <3>3
  <2>3. QED
    BY <1>2, <2>2
<1>4. d <= q
  <2>1. d <= d * c
    BY <1>2, <1>3
  <2>2. QED
    BY <1>2, <2>1
<1>5. d > 0 <=> c <= q
  <2>1. ASSUME d > 0 PROVE c <= q
    <3>1. c <= d * c
      BY <1>2, <2>1
    <3>2. QED
      BY <1>2, <3>1
  <2>2. ASSUME c <= q PROVE d > 0
    <3>1. SUFFICES ASSUME d = 0 PROVE FALSE
      BY <1>2, <1>3
    <3>2. QED
      BY <1>2, <2>2, <3>1
  <2>3. QED
    BY <2>1, <2>2
<1>6. QED
  BY <1>2, <1>3, <1>4, <1>5 DEF d

\* Candidate k, which executes wgs[k] work groups in time cost[k], is better than
\* candidate j.
Better(wgs, cost, k, j) ==
    \/ wgs[k] > wgs[j]
    \/ wgs[k] = wgs[j] /\ cost[k] < cost[j]
    \/ wgs[k] = wgs[j] /\ cost[k] = cost[j] /\ k < j

\* Of several candidates one is the best: most work groups, then least time,
\* then first in the list.
LEMMA BestExists ==
    ASSUME NEW F \in SUBSET Nat, F # {}, NEW quant \in Nat,
           NEW wgs, NEW cost,
           \A k \in F : wgs[k] \in 0 .. quant /\ cost[k] \in Nat
    PROVE  \E k \in F : \A j \in F \ {k} : Better(wgs, cost, k, j)
<1>0. \A k \in F : /\ k \in Nat /\ wgs[k] \in Nat /\ wgs[k] <= quant
                   /\ quant - wgs[k] \in Nat /\ cost[k] \in Nat
  <2>1. ASSUME NEW k \in F PROVE wgs[k] \in 0 .. quant /\ cost[k] \in Nat /\ k \in Nat
    OBVIOUS
  <2>2. \A x \in 0 .. quant : x \in Nat /\ x <= quant /\ quant - x \in Nat
    OBVIOUS
  <2>3. QED
    BY <2>1, <2>2
<1> DEFINE A == {quant - wgs[k] : k \in F}
<1>1. A \in SUBSET Nat /\ A # {}
  BY <1>0
<1>2. PICK a \in A : \A x \in A : a <= x
  <2> HIDE DEF A
  <2>1. QED
    BY <1>1, LeastNat
<1> DEFINE B == {cost[k] : k \in {l \in F : quant - wgs[l] = a}}
<1>3. B \in SUBSET Nat /\ B # {}
  BY <1>0
<1>4. PICK b \in B : \A x \in B : b <= x
  <2> HIDE DEF B
  <2>1. QED
    BY <1>3, LeastNat
<1> DEFINE C == {k \in F : quant - wgs[k] = a /\ cost[k] = b}
<1>5. C \in SUBSET Nat /\ C # {}
  OBVIOUS
<1>6. PICK c \in C : \A x \in C : c <= x
  <2> HIDE DEF C
  <2>1. QED
    BY <1>5, LeastNat
<1>7. c \in F /\ quant - wgs[c] = a /\ cost[c] = b
  OBVIOUS
<1>8. ASSUME NEW j \in F, j # c
      PROVE  Better(wgs, cost, c, j)
  <2>1. a <= quant - wgs[j]
    BY <1>2
  <2>2. quant - wgs[j] = a => b <= cost[j]
    BY <1>4
  <2>3. quant - wgs[j] = a /\ cost[j] = b => c <= j
    BY <1>6
  <2> HIDE DEF A, B, C
  <2>4. j \in Nat /\ wgs[j] \in Nat /\ cost[j] \in Nat /\ c \in Nat
        /\ wgs[c] \in Nat /\ cost[c] \in Nat
    BY <1>0, <1>7
  <2>5. CASE quant - wgs[j] # a
    BY <1>7, <2>1, <2>4, <2>5 DEF Better
  <2>6. CASE quant - wgs[j] = a /\ cost[j] # b
    BY <1>7, <2>2, <2>4, <2>6 DEF Better
  <2>7. CASE quant - wgs[j] = a /\ cost[j] = b
    BY <1>7, <1>8, <2>3, <2>4, <2>7 DEF Better
  <2>8. QED
    BY <2>5, <2>6, <2>7
<1>9. QED
  BY <1>7, <1>8

\* Types of the algorithm's state.
AlgoTypes ==
    /\ m_ndranges \in Seq(NDRanges)
    /\ wg_cost \in [NDRanges -> [Island -> Nat]]
    /\ m_id \in [Island -> Nat]
    /\ dropped \subseteq Wgr

\* When no examination fails, every id on the free list leads to an island that
\* has a cost.
LEMMA ExaminedIsFit ==
    ASSUME SchedTypes, AlgoTypes, NEW n \in NDRanges, ~SelectFails(n),
           NEW k \in 1 .. Len(m_free_schedulers)
    PROVE  /\ k \in Nat
           /\ Examined[k] \in Island /\ Examined[k] # 0
           /\ Examined[k] = indexed(m_free_schedulers[k])
           /\ wg_cost[n][Examined[k]] \in Nat \ {0}
<1>1. /\ k \in Nat /\ m_free_schedulers[k] \in Island
      /\ Examined[k] = indexed(m_free_schedulers[k])
  BY DEF SchedTypes, Examined
<1>2. Examined[k] # 0 /\ wg_cost[n][Examined[k]] # 0
  BY DEF SelectFails
<1>3. Examined[k] \in Island
  <2>1. m_id[m_free_schedulers[k]] \in Nat /\ N \in Nat
    BY <1>1, IslandsAssumption DEF AlgoTypes
  <2>2. QED
    BY <1>1, <1>2, <2>1 DEF indexed, Island
<1>4. QED
  BY <1>1, <1>2, <1>3 DEF AlgoTypes

\* A scheduler is selected exactly if one that is examined fits a work group in
\* the quant, and it is such a one.
LEMMA SelectBest ==
    ASSUME SchedTypes, AlgoTypes, NEW n \in NDRanges, NEW quant \in Nat,
           ~SelectFails(n)
    PROVE  /\ select_best_scheduler(n, quant) # 0
                => \E k \in 1 .. Len(m_free_schedulers) :
                      /\ select_best_scheduler(n, quant) = Examined[k]
                      /\ wg_cost[n][Examined[k]] <= quant
           /\ (\E k \in 1 .. Len(m_free_schedulers) :
                  wg_cost[n][Examined[k]] <= quant)
                => select_best_scheduler(n, quant) # 0
<1> DEFINE wgs(k) == WgsInQuant(n, Examined[k], quant)
           cost(k) == wgs(k) * wg_cost[n][Examined[k]]
           fitting == {k \in 1 .. Len(m_free_schedulers) : wgs(k) > 0}
           better(j, k) == \/ wgs(j) > wgs(k)
                           \/ wgs(j) = wgs(k) /\ cost(j) < cost(k)
                           \/ wgs(j) = wgs(k) /\ cost(j) = cost(k) /\ j < k
           best == CHOOSE k \in fitting : \A j \in fitting \ {k} : better(k, j)
           sel == select_best_scheduler(n, quant)
<1>1. sel = IF fitting = {} THEN 0 ELSE Examined[best]
  BY DEF select_best_scheduler
<1>2. ASSUME NEW k \in 1 .. Len(m_free_schedulers)
      PROVE  /\ k \in Nat /\ Examined[k] \in Island /\ Examined[k] # 0
             /\ wgs(k) \in 0 .. quant /\ cost(k) \in Nat
             /\ wgs(k) > 0 <=> wg_cost[n][Examined[k]] <= quant
  <2> DEFINE c == wg_cost[n][Examined[k]]
  <2>1. /\ k \in Nat /\ Examined[k] \in Island /\ Examined[k] # 0
        /\ c \in Nat \ {0}
    BY ExaminedIsFit
  <2>2. wgs(k) = quant \div c /\ cost(k) = (quant \div c) * c
    BY DEF WgsInQuant
  <2> HIDE DEF c, wgs, cost
  <2>3. /\ quant \div c \in Nat /\ quant \div c <= quant
        /\ quant \div c > 0 <=> c <= quant
    BY <2>1, Quotient
  <2>4. wgs(k) \in 0 .. quant /\ cost(k) \in Nat /\ (wgs(k) > 0 <=> c <= quant)
    BY <2>1, <2>2, <2>3
  <2>5. QED
    BY <2>1, <2>4 DEF c
<1> HIDE DEF sel, wgs, cost
<1>3. fitting # {} => best \in fitting
  <2>1. SUFFICES ASSUME fitting # {} PROVE best \in fitting
    OBVIOUS
  <2> DEFINE w == [k \in fitting |-> wgs(k)]
             c == [k \in fitting |-> cost(k)]
  <2>2. \A k \in fitting : w[k] = wgs(k) /\ c[k] = cost(k)
    OBVIOUS
  <2>3. fitting \in SUBSET Nat /\ \A k \in fitting : w[k] \in 0 .. quant /\ c[k] \in Nat
    BY <1>2
  <2> HIDE DEF fitting, w, c
  <2>4. \E k \in fitting : \A j \in fitting \ {k} : Better(w, c, k, j)
    BY <2>1, <2>3, BestExists
  <2>5. \E k \in fitting : \A j \in fitting \ {k} : better(k, j)
    BY <2>2, <2>4 DEF Better
  <2>6. QED
    BY <2>5
<1> HIDE DEF best
<1>4. ASSUME sel # 0
      PROVE  \E k \in 1 .. Len(m_free_schedulers) :
                sel = Examined[k] /\ wg_cost[n][Examined[k]] <= quant
  <2>1. best \in fitting /\ sel = Examined[best]
    BY <1>1, <1>3, <1>4
  <2>2. best \in 1 .. Len(m_free_schedulers) /\ wgs(best) > 0
    BY <2>1
  <2>3. QED
    BY <1>2, <2>1, <2>2
<1>5. ASSUME NEW k \in 1 .. Len(m_free_schedulers), wg_cost[n][Examined[k]] <= quant
      PROVE  sel # 0
  <2>1. k \in fitting
    BY <1>2, <1>5
  <2>2. best \in fitting /\ sel = Examined[best]
    BY <1>1, <1>3, <2>1
  <2>3. QED
    BY <1>2, <2>2
<1>6. QED
  BY <1>4, <1>5 DEF sel

\* The WGR of a slice of at most wgs work groups, when some are left (or none was
\* carved of an NDRange of none).
LEMMA CarvedSlice ==
    ASSUME NEW n, NEW next \in Nat, NEW wgs \in Nat \ {0}, NEW total \in 0 .. MaxWgs,
           next < total \/ next = 0
    PROVE  \E to \in Nat :
              /\ CarvedWgr(n, next, wgs, total)
                    = [parent |-> n, start_x |-> next, size_x |-> to]
              /\ next <= to /\ to - next <= wgs
              /\ total > 0 => next < to /\ to <= total
<1> DEFINE carved == carve_wgs(next, wgs, total)
<1>1. total \in Nat /\ total <= MaxWgs /\ MaxWgs \in Nat
  BY MaxWgsAssumption
<1>2. \/ carved = total - next /\ (total > 0 => next + wgs > total - 1)
      \/ carved = wgs /\ (total > 0 => ~(next + wgs > total - 1))
  <2>1. CASE total > 0
    <3>1. UnsignedMod \in Nat \ {0} /\ total - 1 \in 0 .. UnsignedMod - 1
      BY <1>1, <2>1, UnsignedAssumption
    <3>2. (total - 1) % UnsignedMod = total - 1
      BY <3>1
    <3>3. QED
      BY <3>2 DEF carve_wgs
  <2>2. CASE ~(total > 0)
    BY <2>2 DEF carve_wgs
  <2>3. QED
    BY <2>1, <2>2
<1>3. /\ next + carved \in Nat /\ next <= next + carved
      /\ (next + carved) - next <= wgs
      /\ total > 0 => next < next + carved /\ next + carved <= total
  <2> HIDE DEF carved
  <2>1. CASE total > 0
    <3>1. next < total
      BY <2>1
    <3>2. QED
      BY <1>1, <1>2, <2>1, <3>1
  <2>2. CASE ~(total > 0)
    <3>1. next = 0 /\ total = 0
      BY <1>1, <2>2
    <3>2. QED
      BY <1>2, <3>1
  <2>3. QED
    BY <2>1, <2>2
<1>4. CarvedWgr(n, next, wgs, total)
         = [parent |-> n, start_x |-> next, size_x |-> next + carved]
  BY DEF CarvedWgr
<1> HIDE DEF carved
<1>5. QED
  BY <1>3, <1>4

-----------------------------------------------------------------------------
(* The ring of NDRanges. *)

\* The sequence s holds x, and holds nothing twice.
Holds(s, x) == \E k \in 1 .. Len(s) : s[k] = x
Distinct(s) == \A j, k \in 1 .. Len(s) : s[j] = s[k] => j = k

\* What popping the front leaves.
LEMMA TailHolds ==
    ASSUME NEW S, NEW s \in Seq(S), s # <<>>, Distinct(s)
    PROVE  /\ Head(s) \in S /\ Holds(s, Head(s)) /\ Tail(s) \in Seq(S)
           /\ Distinct(Tail(s))
           /\ \A x : Holds(Tail(s), x) <=> Holds(s, x) /\ x # Head(s)
<1> DEFINE t == Tail(s)
           h == Head(s)
<1>1. /\ t \in Seq(S) /\ Len(s) \in Nat /\ Len(s) >= 1 /\ Len(t) = Len(s) - 1
      /\ \A k \in 1 .. Len(t) : t[k] = s[k + 1]
      /\ h = s[1] /\ h \in S
  OBVIOUS
<1> HIDE DEF t, h
<1>2. \A k \in 1 .. Len(t) : k \in Nat /\ k + 1 \in 1 .. Len(s) /\ k + 1 # 1
  BY <1>1
<1>3. \A k \in 1 .. Len(s) : k # 1 => k - 1 \in 1 .. Len(t) /\ (k - 1) + 1 = k
  BY <1>1
<1>4. 1 \in 1 .. Len(s)
  BY <1>1
<1>5. Distinct(t)
  <2>1. ASSUME NEW j \in 1 .. Len(t), NEW k \in 1 .. Len(t), t[j] = t[k]
        PROVE  j = k
    <3>1. j + 1 = k + 1
      BY <1>1, <1>2, <2>1 DEF Distinct
    <3>2. QED
      BY <1>2, <3>1
  <2>2. QED
    BY <2>1 DEF Distinct
<1>6. ASSUME NEW x PROVE Holds(t, x) <=> Holds(s, x) /\ x # h
  <2>1. ASSUME Holds(t, x) PROVE Holds(s, x) /\ x # h
    <3>1. PICK k \in 1 .. Len(t) : s[k + 1] = x
      BY <1>1, <2>1 DEF Holds
    <3>2. QED
      BY <1>1, <1>2, <1>4, <3>1 DEF Holds, Distinct
  <2>2. ASSUME Holds(s, x), x # h PROVE Holds(t, x)
    <3>1. PICK k \in 1 .. Len(s) : s[k] = x /\ k # 1
      BY <1>1, <2>2 DEF Holds
    <3>2. t[k - 1] = x
      BY <1>1, <1>3, <3>1
    <3>3. QED
      BY <1>3, <3>1, <3>2 DEF Holds
  <2>3. QED
    BY <2>1, <2>2
<1>7. QED
  BY <1>1, <1>4, <1>5, <1>6 DEF Holds, t, h

\* What a push to the back leaves.
LEMMA AppendHolds ==
    ASSUME NEW S, NEW s \in Seq(S), NEW x \in S, Distinct(s), ~Holds(s, x)
    PROVE  /\ Append(s, x) \in Seq(S) /\ Distinct(Append(s, x))
           /\ \A y : Holds(Append(s, x), y) <=> Holds(s, y) \/ y = x
<1> DEFINE t == Append(s, x)
<1>1. /\ t \in Seq(S) /\ Len(s) \in Nat /\ Len(t) = Len(s) + 1
      /\ \A k \in 1 .. Len(s) : t[k] = s[k]
      /\ t[Len(s) + 1] = x
  BY AppendProperties
<1> HIDE DEF t
<1>2. \A k : k \in 1 .. Len(t) <=> k \in 1 .. Len(s) \/ k = Len(s) + 1
  BY <1>1
<1>3. \A k \in 1 .. Len(s) : s[k] # x
  BY DEF Holds
<1>4. Distinct(t)
  BY <1>1, <1>2, <1>3 DEF Distinct
<1>5. \A y : Holds(t, y) <=> Holds(s, y) \/ y = x
  BY <1>1, <1>2 DEF Holds
<1>6. QED
  BY <1>1, <1>4, <1>5 DEF t

\* What a push to the front leaves.
LEMMA PushFrontHolds ==
    ASSUME NEW S, NEW s \in Seq(S), NEW x \in S, Distinct(s), ~Holds(s, x)
    PROVE  /\ <<x>> \o s \in Seq(S) /\ Distinct(<<x>> \o s)
           /\ \A y : Holds(<<x>> \o s, y) <=> Holds(s, y) \/ y = x
<1> DEFINE t == <<x>> \o s
<1>1. <<x>> \in Seq(S) /\ Len(<<x>>) = 1 /\ <<x>>[1] = x
  OBVIOUS
<1>2. /\ t \in Seq(S) /\ Len(s) \in Nat /\ Len(t) = Len(s) + 1
      /\ \A k \in 1 .. Len(t) : t[k] = IF k <= 1 THEN <<x>>[k] ELSE s[k - 1]
  BY <1>1, ConcatProperties
<1> HIDE DEF t
<1>3. 1 \in 1 .. Len(t) /\ t[1] = x
  BY <1>1, <1>2
<1>4. \A k \in 1 .. Len(t) : k # 1 => k - 1 \in 1 .. Len(s) /\ t[k] = s[k - 1]
  BY <1>2
<1>5. \A k \in 1 .. Len(s) : k + 1 \in 1 .. Len(t) /\ t[k + 1] = s[k]
  BY <1>2
<1>6. \A k \in 1 .. Len(s) : s[k] # x
  BY DEF Holds
<1>7. Distinct(t)
  <2>1. ASSUME NEW j \in 1 .. Len(t), NEW k \in 1 .. Len(t), t[j] = t[k]
        PROVE  j = k
    <3>1. CASE j = 1 \/ k = 1
      BY <1>3, <1>4, <1>6, <2>1, <3>1
    <3>2. CASE j # 1 /\ k # 1
      <4>1. j - 1 = k - 1
        BY <1>4, <2>1, <3>2 DEF Distinct
      <4>2. j \in Int /\ k \in Int
        OBVIOUS
      <4>3. QED
        BY <4>1, <4>2
    <3>3. QED
      BY <3>1, <3>2
  <2>2. QED
    BY <2>1 DEF Distinct
<1>8. ASSUME NEW y PROVE Holds(t, y) <=> Holds(s, y) \/ y = x
  <2>1. Holds(t, y) => Holds(s, y) \/ y = x
    BY <1>3, <1>4 DEF Holds
  <2>2. Holds(s, y) \/ y = x => Holds(t, y)
    BY <1>3, <1>5 DEF Holds
  <2>3. QED
    BY <2>1, <2>2
<1>9. QED
  BY <1>2, <1>7, <1>8 DEF t

-----------------------------------------------------------------------------
(* The invariant. *)

\* The quant of an island on which a work group costs this much.
Limit(cost) == IF cost <= m_min_quant THEN m_min_quant ELSE LargerQuant

\* The ring holds an NDRange at most once, after it was routed and while it has
\* work groups left (one of no work groups waits until it is popped), and holds
\* every one that was carved but not to its end. One from which nothing was
\* carved yet has no WGRs and is not deleted.
RingInv ==
    /\ Distinct(m_ndranges)
    /\ \A n \in NDRanges :
          /\ m_total_size[n] <= MaxWgs
          /\ Holds(m_ndranges, n)
                => /\ ndr_state[n] # "NONE"
                   /\ m_next_wgr[n] < m_total_size[n] \/ m_next_wgr[n] = 0
          /\ m_next_wgr[n] \in 1 .. m_total_size[n] - 1 => Holds(m_ndranges, n)
          /\ m_next_wgr[n] = 0 /\ (Holds(m_ndranges, n) \/ m_total_size[n] > 0)
                => m_wgrs_in_the_wild[n] = 0 /\ ndr_state[n] # "DELETED"

\* No queue is longer than its slots.
QueuesFit == \A i \in Island : Len(m_in_queue[i]) <= QueueCapacity

\* A WGR that is out occupies its island for no longer than the quant it was made
\* for and the time of the work groups before it.
SlicesFit ==
    \A p \in Out :
       p[2].size_x * wg_cost[p[2].parent][p[1]]
          <= Limit(wg_cost[p[2].parent][p[1]])
             + p[2].start_x * wg_cost[p[2].parent][p[1]]

\* The WGRs of n that full queues dropped.
DroppedOf(n) == {d \in dropped : d.parent = n}

\* The work groups of a WGR that was dropped were carved, are not done and are in
\* no WGR that is out. The WGRs out and those dropped are counted, and the work
\* groups that are not theirs are done. Nothing is dropped while the schedulers'
\* ids are their indexes: an idle scheduler has room.
DroppedIsSound ==
    /\ \A d \in dropped :
          /\ Groups(d) \subseteq 0 .. m_next_wgr[d.parent] - 1
          /\ Groups(d) \cap done[d.parent] = {}
          /\ \A p \in OutOf(d.parent) : Groups(d) \cap Groups(p[2]) = {}
    /\ \A n \in NDRanges :
          /\ IsFiniteSet(DroppedOf(n))
          /\ Cardinality(OutOf(n)) + Cardinality(DroppedOf(n)) <= m_wgrs_in_the_wild[n]
          /\ \A v \in 0 .. m_next_wgr[n] - 1 :
                \/ v \in done[n]
                \/ \E p \in OutOf(n) : v \in Groups(p[2])
                \/ \E d \in DroppedOf(n) : v \in Groups(d)
    /\ dropped # {} => \E i \in Island : m_id[i] # i - 1

\* The inductive invariant.
Inv == /\ SchedInv
       /\ GroupsInv
       /\ DroppedIsSound
       /\ AlgoTypes
       /\ RingInv
       /\ QueuesFit
       /\ SlicesFit

\* It holds of the islands before anything was routed.
LEMMA InvInit ==
    ASSUME Init
    PROVE  Inv
<1>1. SchedInv /\ GroupsInv
  BY IslandsStart DEF Init
<1>2. AlgoTypes
  <2>1. m_id \in [Island -> Nat]
    BY IdsAssumption DEF Init
  <2>2. m_ndranges \in Seq(NDRanges) /\ dropped \subseteq Wgr
    BY DEF Init
  <2>3. wg_cost \in [NDRanges -> [Island -> Nat]]
    BY DEF Init
  <2>4. QED
    BY <2>1, <2>2, <2>3 DEF AlgoTypes
<1>3. QueuesFit /\ SlicesFit
  BY CapacityAssumption DEF Init, IslandsInit, QueuesFit, SlicesFit, Out
<1>4. DroppedIsSound
  <2>1. \A n \in NDRanges : /\ OutOf(n) = {} /\ DroppedOf(n) = {}
                            /\ m_next_wgr[n] = 0 /\ m_wgrs_in_the_wild[n] = 0
    BY DEF Init, IslandsInit, OutOf, Out, DroppedOf
  <2>2. IsFiniteSet({}) /\ Cardinality({}) = 0 /\ 0 .. 0 - 1 = {}
    BY FS_EmptySet
  <2>3. dropped = {}
    BY DEF Init
  <2>4. ASSUME NEW n \in NDRanges
        PROVE  /\ IsFiniteSet(DroppedOf(n))
               /\ Cardinality(OutOf(n)) + Cardinality(DroppedOf(n)) <= m_wgrs_in_the_wild[n]
               /\ 0 .. m_next_wgr[n] - 1 = {}
    <3>1. Cardinality(OutOf(n)) = 0 /\ Cardinality(DroppedOf(n)) = 0
      BY <2>1, <2>2
    <3>2. QED
      BY <2>1, <2>2, <3>1
  <2>5. QED
    BY <2>3, <2>4 DEF DroppedIsSound
<1>5. RingInv
  <2>1. Len(m_ndranges) = 0 /\ \A k : k \notin 1 .. 0
    BY DEF Init
  <2>2. \A n \in NDRanges : /\ m_next_wgr[n] = 0 /\ m_wgrs_in_the_wild[n] = 0
                            /\ m_total_size[n] = 0 /\ ndr_state[n] = "NONE"
    BY DEF Init, IslandsInit
  <2>3. Distinct(m_ndranges) /\ \A n : ~Holds(m_ndranges, n)
    BY <2>1 DEF Distinct, Holds
  <2>4. 0 \notin 1 .. 0 - 1 /\ 0 <= MaxWgs
    BY MaxWgsAssumption
  <2>5. QED
    BY <2>2, <2>3, <2>4 DEF RingInv
<1>6. QED
  BY <1>1, <1>2, <1>3, <1>4, <1>5 DEF Inv

\* The facts the step lemmas start from.
LEMMA Given ==
    ASSUME Inv
    PROVE  /\ SchedInv /\ GroupsInv /\ DroppedIsSound /\ AlgoTypes /\ RingInv
           /\ QueuesFit /\ SlicesFit /\ SchedTypes /\ NdrTypes /\ NoneTwice
           /\ OutIsSound /\ StatesAgree
           /\ m_ndranges \in Seq(NDRanges) /\ Distinct(m_ndranges)
BY DEF Inv, SchedInv, GroupsInv, AlgoTypes, RingInv

\* Steps that touch neither queues nor what DroppedIsSound speaks of.
LEMMA DroppedFrame ==
    ASSUME DroppedIsSound,
           UNCHANGED <<m_next_wgr, done, m_wgrs_in_the_wild, m_in_queue, m_id, dropped>>
    PROVE  DroppedIsSound'
<1>1. /\ \A n : OutOf(n)' = OutOf(n) /\ DroppedOf(n)' = DroppedOf(n)
      /\ m_next_wgr' = m_next_wgr /\ done' = done /\ dropped' = dropped
      /\ m_wgrs_in_the_wild' = m_wgrs_in_the_wild /\ m_id' = m_id
  BY DEF OutOf, Out, DroppedOf
<1>2. QED
  BY <1>1 DEF DroppedIsSound, Groups

\* Routing an NDRange.
LEMMA InvRoute ==
    ASSUME Inv, NEW n \in NDRanges, NEW total \in 0 .. MaxWgs,
           NEW cost \in [Island -> WgCosts], route_ndrange(n, total, cost)
    PROVE  Inv'
<1>1. /\ ndr_state[n] = "NONE"
      /\ ndr_state' = [ndr_state EXCEPT ![n] = "LIVE"]
      /\ m_total_size' = [m_total_size EXCEPT ![n] = total]
      /\ wg_cost' = [wg_cost EXCEPT ![n] = cost]
      /\ m_ndranges' = push_front(n)
      /\ m_next_wgr' = m_next_wgr /\ m_wgrs_in_the_wild' = m_wgrs_in_the_wild
      /\ event_state' = event_state /\ done' = done
      /\ m_in_queue' = m_in_queue /\ timer' = timer
      /\ m_free_schedulers' = m_free_schedulers /\ free_timer' = free_timer
      /\ m_id' = m_id /\ dropped' = dropped
  BY DEF route_ndrange, schedVars, freeVars
<1>2. /\ SchedInv /\ GroupsInv /\ DroppedIsSound /\ AlgoTypes /\ RingInv
      /\ QueuesFit /\ SlicesFit /\ SchedTypes /\ NdrTypes /\ NoneTwice
      /\ OutIsSound /\ StatesAgree
      /\ m_ndranges \in Seq(NDRanges) /\ Distinct(m_ndranges)
  BY Given
<1>3. total \in Nat /\ total <= MaxWgs
  BY MaxWgsAssumption
<1>4. Out' = Out /\ \A m : OutOf(m)' = OutOf(m)
  BY <1>1 DEF Out, OutOf
<1>5. \A p \in Out : p[2].parent \in NDRanges /\ p[2].parent # n /\ p[1] \in Island
  BY <1>1, <1>2 DEF OutIsSound, Out, Wgr
<1>6. SchedInv'
  BY <1>1, <1>2 DEF SchedInv, SchedTypes, TimerIffBusy, FreeIffIdle, FreeTimerIffFree
<1>7. GroupsInv'
  <2>1. NdrTypes'
    BY <1>1, <1>2, <1>3 DEF NdrTypes
  <2>2. NoneTwice'
    BY <1>1, <1>2 DEF NoneTwice
  <2>3. OutIsSound'
    BY <1>1, <1>2, <1>4, <1>5 DEF OutIsSound, Groups, NdrTypes
  <2>4. WildIsSound'
    BY <1>1, <1>2, <1>4 DEF GroupsInv, WildIsSound, Groups
  <2>5. StatesAgree'
    BY <1>1, <1>2 DEF StatesAgree, NdrTypes
  <2>6. QED
    BY <2>1, <2>2, <2>3, <2>4, <2>5 DEF GroupsInv
<1>8. DroppedIsSound' /\ QueuesFit'
  BY <1>1, <1>2, DroppedFrame DEF QueuesFit
<1>9. SlicesFit'
  <2>1. \A p \in Out : wg_cost'[p[2].parent] = wg_cost[p[2].parent]
    BY <1>1, <1>2, <1>5 DEF AlgoTypes
  <2>2. QED
    BY <1>2, <1>4, <2>1 DEF SlicesFit, Limit, LargerQuant
<1>10. /\ m_ndranges' \in Seq(NDRanges) /\ Distinct(m_ndranges')
       /\ \A x : Holds(m_ndranges, x) => Holds(m_ndranges', x)
       /\ \A x : Holds(m_ndranges', x) => Holds(m_ndranges, x) \/ x = n
  <2>1. ~Holds(m_ndranges, n)
    BY <1>1, <1>2 DEF RingInv
  <2>2. m_ndranges' = m_ndranges \/ m_ndranges' = <<n>> \o m_ndranges
    BY <1>1 DEF push_front
  <2>3. CASE m_ndranges' = m_ndranges
    BY <1>2, <2>3
  <2>4. CASE m_ndranges' = <<n>> \o m_ndranges
    <3>1. /\ <<n>> \o m_ndranges \in Seq(NDRanges) /\ Distinct(<<n>> \o m_ndranges)
          /\ \A y : Holds(<<n>> \o m_ndranges, y) <=> Holds(m_ndranges, y) \/ y = n
      BY <1>2, <2>1, PushFrontHolds
    <3>2. QED
      BY <2>4, <3>1, Zenon
  <2>5. QED
    BY <2>2, <2>3, <2>4
<1>11. AlgoTypes'
  <2>1. cost \in [Island -> Nat]
    BY CostAssumption
  <2>2. wg_cost' \in [NDRanges -> [Island -> Nat]]
    BY <1>1, <1>2, <2>1 DEF AlgoTypes
  <2>3. QED
    BY <1>1, <1>2, <1>10, <2>2 DEF AlgoTypes
<1>12. RingInv'
  <2>1. SUFFICES ASSUME NEW m \in NDRanges
                 PROVE  /\ m_total_size'[m] <= MaxWgs
                        /\ Holds(m_ndranges', m)
                              => /\ ndr_state'[m] # "NONE"
                                 /\ \/ m_next_wgr'[m] < m_total_size'[m]
                                    \/ m_next_wgr'[m] = 0
                        /\ m_next_wgr'[m] \in 1 .. m_total_size'[m] - 1
                              => Holds(m_ndranges', m)
                        /\ /\ m_next_wgr'[m] = 0
                           /\ Holds(m_ndranges', m) \/ m_total_size'[m] > 0
                           => m_wgrs_in_the_wild'[m] = 0 /\ ndr_state'[m] # "DELETED"
    BY <1>10 DEF RingInv, Distinct, Holds
  <2>2. /\ m_total_size[m] <= MaxWgs
        /\ Holds(m_ndranges, m)
              => /\ ndr_state[m] # "NONE"
                 /\ m_next_wgr[m] < m_total_size[m] \/ m_next_wgr[m] = 0
        /\ m_next_wgr[m] \in 1 .. m_total_size[m] - 1 => Holds(m_ndranges, m)
        /\ m_next_wgr[m] = 0 /\ (Holds(m_ndranges, m) \/ m_total_size[m] > 0)
              => m_wgrs_in_the_wild[m] = 0 /\ ndr_state[m] # "DELETED"
    BY <1>2 DEF RingInv
  <2>3. CASE m # n
    <3>1. /\ m_total_size'[m] = m_total_size[m] /\ ndr_state'[m] = ndr_state[m]
          /\ m_next_wgr'[m] = m_next_wgr[m]
          /\ m_wgrs_in_the_wild'[m] = m_wgrs_in_the_wild[m]
      BY <1>1, <1>2, <2>3 DEF NdrTypes
    <3>2. Holds(m_ndranges', m) <=> Holds(m_ndranges, m)
      BY <1>10, <2>3
    <3>3. QED
      BY <2>2, <3>1, <3>2
  <2>4. CASE m = n
    <3>1. /\ m_total_size'[n] = total /\ ndr_state'[n] = "LIVE" /\ m_next_wgr'[n] = 0
          /\ m_wgrs_in_the_wild'[n] = 0
      BY <1>1, <1>2 DEF NdrTypes, StatesAgree
    <3>2. QED
      BY <1>3, <2>4, <3>1
  <2>5. QED
    BY <2>3, <2>4
<1>13. QED
  BY <1>6, <1>7, <1>8, <1>9, <1>11, <1>12 DEF Inv

\* Steps that touch neither NDRanges, queues, ring nor costs.
LEMMA AlgoFrame ==
    ASSUME Inv, SchedInv', UNCHANGED <<ndrVars, m_in_queue, algoVars>>
    PROVE  Inv'
<1>1. GroupsInv' /\ DroppedIsSound'
  BY GroupsFrame, DroppedFrame DEF Inv, ndrVars, algoVars
<1>2. AlgoTypes' /\ RingInv' /\ QueuesFit' /\ SlicesFit'
  BY DEF Inv, ndrVars, algoVars, AlgoTypes, RingInv, Holds, Distinct, QueuesFit,
         SlicesFit, Out, Limit, LargerQuant
<1>3. QED
  BY <1>1, <1>2 DEF Inv

\* What a scheduler's callback means for the WGRs that were dropped.
LEMMA OnTimerDropped ==
    ASSUME SchedInv, GroupsInv, DroppedIsSound, dropped \subseteq Wgr,
           NEW i \in Island, on_timer(i), UNCHANGED <<m_id, dropped>>
    PROVE  DroppedIsSound'
<1>0. PICK w : w = Head(m_in_queue[i])
  OBVIOUS
<1> DEFINE p0 == <<i, w>>
           n == w.parent
<1>1. /\ SchedTypes /\ NdrTypes /\ NoneTwice
      /\ p0 \in Out /\ Out' = Out \ {p0} /\ w \in Wgr /\ n \in NDRanges
  <2>1. p0 \in Out /\ Out' = Out \ {p0}
    BY <1>0, OnTimerOut DEF GroupsInv
  <2>2. w \in Wgr
    BY <2>1 DEF Out
  <2>3. QED
    BY <2>1, <2>2 DEF SchedInv, GroupsInv, Wgr
<1>2. /\ m_next_wgr' = m_next_wgr
      /\ m_wgrs_in_the_wild'[n] = m_wgrs_in_the_wild[n] - 1
      /\ done'[n] = done[n] \cup Groups(w)
      /\ \A m \in NDRanges \ {n} : /\ m_wgrs_in_the_wild'[m] = m_wgrs_in_the_wild[m]
                                   /\ done'[m] = done[m]
      /\ m_wgrs_in_the_wild[n] \in Nat
  BY <1>0, <1>1 DEF on_timer, mark_as_finished, decrement_wgrs_counter, NdrTypes, Groups
<1>3. /\ OutOf(n)' = OutOf(n) \ {p0} /\ p0 \in OutOf(n)
      /\ \A m : m # n => OutOf(m)' = OutOf(m)
      /\ \A m : DroppedOf(m)' = DroppedOf(m)
  BY <1>1 DEF OutOf, DroppedOf
<1>4. /\ Cardinality(OutOf(n)) \in Nat
      /\ Cardinality(OutOf(n)') = Cardinality(OutOf(n)) - 1
  <2>1. IsFiniteSet(OutOf(n)) /\ Cardinality(OutOf(n)) \in Nat
    BY <1>1, OutIsFinite
  <2>2. Cardinality(OutOf(n) \ {p0}) = Cardinality(OutOf(n)) - 1
    BY <1>3, <2>1, FS_RemoveElement
  <2>3. QED
    BY <1>3, <2>1, <2>2
<1>5. p0[2] = w
  OBVIOUS
<1> HIDE DEF p0, n
<1>6. ASSUME NEW d \in dropped
      PROVE  /\ Groups(d) \subseteq 0 .. m_next_wgr'[d.parent] - 1
             /\ Groups(d) \cap done'[d.parent] = {}
             /\ \A p \in OutOf(d.parent)' : Groups(d) \cap Groups(p[2]) = {}
  <2>1. /\ d.parent \in NDRanges
        /\ Groups(d) \subseteq 0 .. m_next_wgr[d.parent] - 1
        /\ Groups(d) \cap done[d.parent] = {}
        /\ \A p \in OutOf(d.parent) : Groups(d) \cap Groups(p[2]) = {}
    BY DEF DroppedIsSound, Wgr
  <2>2. CASE d.parent = n
    <3>1. Groups(d) \cap Groups(w) = {}
      BY <1>3, <1>5, <2>1, <2>2
    <3>2. QED
      BY <1>2, <1>3, <2>1, <2>2, <3>1
  <2>3. CASE d.parent # n
    BY <1>2, <1>3, <2>1, <2>3
  <2>4. QED
    BY <2>2, <2>3
<1>7. ASSUME NEW m \in NDRanges
      PROVE  /\ IsFiniteSet(DroppedOf(m)')
             /\ Cardinality(OutOf(m)') + Cardinality(DroppedOf(m)')
                   <= m_wgrs_in_the_wild'[m]
             /\ \A v \in 0 .. m_next_wgr'[m] - 1 :
                   \/ v \in done'[m]
                   \/ \E p \in OutOf(m)' : v \in Groups(p[2])
                   \/ \E d \in DroppedOf(m)' : v \in Groups(d)
  <2>1. /\ IsFiniteSet(DroppedOf(m))
        /\ Cardinality(OutOf(m)) + Cardinality(DroppedOf(m)) <= m_wgrs_in_the_wild[m]
        /\ \A v \in 0 .. m_next_wgr[m] - 1 :
              \/ v \in done[m]
              \/ \E p \in OutOf(m) : v \in Groups(p[2])
              \/ \E d \in DroppedOf(m) : v \in Groups(d)
    BY DEF DroppedIsSound
  <2>2. Cardinality(DroppedOf(m)) \in Nat
    BY <2>1, FS_CardinalityType
  <2>3. CASE m = n
    <3>1. Cardinality(OutOf(m)') + Cardinality(DroppedOf(m)') <= m_wgrs_in_the_wild'[m]
      <4>1. /\ Cardinality(OutOf(n)') = Cardinality(OutOf(n)) - 1
            /\ DroppedOf(n)' = DroppedOf(n)
            /\ m_wgrs_in_the_wild'[n] = m_wgrs_in_the_wild[n] - 1
            /\ Cardinality(OutOf(n)) + Cardinality(DroppedOf(n)) <= m_wgrs_in_the_wild[n]
        BY <1>2, <1>3, <1>4, <2>1, <2>3
      <4>2. Cardinality(DroppedOf(n)') = Cardinality(DroppedOf(n))
        BY <4>1
      <4>3. Cardinality(OutOf(n)') + Cardinality(DroppedOf(n)') <= m_wgrs_in_the_wild'[n]
        BY <1>2, <1>4, <2>2, <2>3, <4>1, <4>2
      <4>4. QED
        BY <2>3, <4>3
    <3>2. ASSUME NEW v \in 0 .. m_next_wgr'[m] - 1
          PROVE  \/ v \in done'[m]
                 \/ \E p \in OutOf(m)' : v \in Groups(p[2])
                 \/ \E d \in DroppedOf(m)' : v \in Groups(d)
      BY <1>2, <1>3, <1>5, <2>1, <2>3
    <3>3. QED
      BY <1>3, <2>1, <3>1, <3>2
  <2>4. CASE m # n
    BY <1>2, <1>3, <2>1, <2>4
  <2>5. QED
    BY <2>3, <2>4
<1>8. QED
  BY <1>6, <1>7 DEF DroppedIsSound, Groups

\* The timers of the schedulers and of the free list.
LEMMA InvTimers ==
    ASSUME Inv, (\E i \in Island : SchedulerStep(i)) \/ ClockStep
    PROVE  Inv'
<1>1. SchedInv /\ GroupsInv
  BY DEF Inv
<1>2. CASE ClockStep
  <2>1. SchedInv'
    BY <1>1, <1>2, FreeExpireSched DEF ClockStep
  <2>2. QED
    BY <1>2, <2>1, AlgoFrame DEF ClockStep, FreeTimerExpires, schedVars
<1>3. ASSUME NEW i \in Island, TimerExpires(i), UNCHANGED algoVars
      PROVE  Inv'
  <2>1. SchedInv'
    BY <1>1, <1>3, ExpireSched
  <2>2. QED
    BY <1>3, <2>1, AlgoFrame DEF TimerExpires
<1>4. ASSUME NEW i \in Island, on_timer(i), UNCHANGED algoVars
      PROVE  Inv'
  <2>1. /\ DroppedIsSound /\ AlgoTypes /\ RingInv /\ QueuesFit /\ SlicesFit
        /\ SchedTypes /\ NdrTypes /\ NoneTwice /\ OutIsSound
    BY Given
  <2>2. SchedInv' /\ m_in_queue[i] # <<>> /\ Out' = Out \ {<<i, Head(m_in_queue[i])>>}
        /\ <<i, Head(m_in_queue[i])>> \in Out
    BY <1>1, <1>4, <2>1, OnTimerSched, OnTimerOut
  <2>3. GroupsInv' /\ DroppedIsSound'
    <3>1. GroupsInv'
      BY <1>1, <1>4, OnTimerGroups
    <3>2. dropped \subseteq Wgr /\ UNCHANGED <<m_id, dropped>>
      BY <1>4, <2>1 DEF AlgoTypes, algoVars
    <3>3. DroppedIsSound'
      BY <1>1, <1>4, <2>1, <3>2, OnTimerDropped
    <3>4. QED
      BY <3>1, <3>3
  <2>4. /\ m_ndranges' = m_ndranges /\ wg_cost' = wg_cost /\ m_id' = m_id
        /\ dropped' = dropped
    BY <1>4 DEF algoVars
  <2>5. AlgoTypes'
    BY <2>1, <2>4 DEF AlgoTypes
  <2>6. SlicesFit'
    BY <2>1, <2>2, <2>4 DEF SlicesFit, Limit, LargerQuant
  <2>7. QueuesFit'
    <3>1. m_in_queue' = [m_in_queue EXCEPT ![i] = Tail(m_in_queue[i])]
      BY <1>4 DEF on_timer
    <3>2. /\ m_in_queue \in [Island -> Seq(Wgr)] /\ m_in_queue[i] \in Seq(Wgr)
          /\ Len(Tail(m_in_queue[i])) = Len(m_in_queue[i]) - 1
          /\ Len(m_in_queue[i]) \in Nat
      BY <2>1, <2>2 DEF SchedTypes
    <3>3. ASSUME NEW j \in Island PROVE Len(m_in_queue'[j]) <= QueueCapacity
      <4>1. /\ Len(m_in_queue[j]) <= QueueCapacity /\ Len(m_in_queue[i]) <= QueueCapacity
            /\ QueueCapacity \in Nat
        BY <2>1, CapacityAssumption DEF QueuesFit
      <4>2. CASE j = i
        <5>1. m_in_queue'[j] = Tail(m_in_queue[i])
          BY <3>1, <3>2, <4>2
        <5>2. QED
          BY <3>2, <4>1, <5>1
      <4>3. CASE j # i
        BY <3>1, <3>2, <4>1, <4>3
      <4>4. QED
        BY <4>2, <4>3
    <3>4. QED
      BY <3>3 DEF QueuesFit
  <2>8. RingInv'
    <3>1. PICK w : w = Head(m_in_queue[i])
      OBVIOUS
    <3>2. /\ m_total_size' = m_total_size /\ m_next_wgr' = m_next_wgr
          /\ \/ ndr_state' = [ndr_state EXCEPT ![w.parent] = "DELETED"]
             \/ ndr_state' = ndr_state
          /\ m_wgrs_in_the_wild' = [m_wgrs_in_the_wild EXCEPT
                                       ![w.parent] = m_wgrs_in_the_wild[w.parent] - 1]
      BY <1>4, <3>1 DEF on_timer, mark_as_finished, decrement_wgrs_counter
    <3>3. /\ ndr_state \in [NDRanges -> {"NONE", "LIVE", "DELETED"}]
          /\ m_wgrs_in_the_wild \in [NDRanges -> Nat]
      BY <2>1 DEF NdrTypes
    <3>4. /\ \A m \in NDRanges : ndr_state[m] # "NONE" => ndr_state'[m] # "NONE"
          /\ \A m \in NDRanges \ {w.parent} :
                /\ ndr_state'[m] = ndr_state[m]
                /\ m_wgrs_in_the_wild'[m] = m_wgrs_in_the_wild[m]
      BY <3>2, <3>3
    <3>5. m_wgrs_in_the_wild[w.parent] # 0
      <4>1. <<i, w>> \in OutOf(w.parent) /\ w.parent \in NDRanges
        BY <2>2, <3>1 DEF OutOf, Out, Wgr
      <4>2. /\ IsFiniteSet(OutOf(w.parent)) /\ Cardinality(OutOf(w.parent)) \in Nat
            /\ Cardinality(OutOf(w.parent)) <= m_wgrs_in_the_wild[w.parent]
        BY <1>1, <2>1, <4>1, OutIsFinite DEF GroupsInv, WildIsSound
      <4>3. Cardinality(OutOf(w.parent)) # 0
        BY <4>1, <4>2, FS_EmptySet
      <4>4. m_wgrs_in_the_wild[w.parent] \in Nat
        BY <3>3, <4>1
      <4>5. QED
        BY <4>2, <4>3, <4>4
    <3>6. ASSUME NEW m \in NDRanges
          PROVE  /\ m_total_size'[m] <= MaxWgs
                 /\ Holds(m_ndranges', m)
                      => /\ ndr_state'[m] # "NONE"
                         /\ m_next_wgr'[m] < m_total_size'[m] \/ m_next_wgr'[m] = 0
                 /\ m_next_wgr'[m] \in 1 .. m_total_size'[m] - 1 => Holds(m_ndranges', m)
                 /\ /\ m_next_wgr'[m] = 0
                    /\ Holds(m_ndranges', m) \/ m_total_size'[m] > 0
                    => m_wgrs_in_the_wild'[m] = 0 /\ ndr_state'[m] # "DELETED"
      BY <2>1, <2>4, <3>2, <3>4, <3>5 DEF RingInv
    <3>7. Distinct(m_ndranges)'
      BY <2>1, <2>4 DEF RingInv, Distinct
    <3>8. QED
      BY <3>6, <3>7 DEF RingInv, Holds
  <2>9. QED
    BY <2>2, <2>3, <2>5, <2>6, <2>7, <2>8 DEF Inv
<1>5. QED
  BY <1>2, <1>3, <1>4 DEF SchedulerStep

\* The callbacks that slice nothing.
LEMMA InvNoSlice ==
    ASSUME Inv, NothingToSlice \/ PopDeleted \/ PopFails \/ FitsNowhere
    PROVE  Inv'
<1>1. SchedInv
  BY DEF Inv
<1>2. CASE NothingToSlice
  <2>1. SchedInv'
    BY <1>1, <1>2, RearmSched DEF NothingToSlice
  <2>2. QED
    BY <1>2, <2>1, AlgoFrame DEF NothingToSlice, schedVars
<1>3. CASE PopDeleted \/ PopFails
  <2>1. SchedInv'
    <3>1. UNCHANGED <<schedVars, freeVars>>
      BY <1>3 DEF PopDeleted, PopFails
    <3>2. QED
      BY <1>1, <3>1 DEF schedVars, freeVars, SchedInv, SchedTypes, TimerIffBusy,
                        FreeIffIdle, FreeTimerIffFree
  <2>2. QED
    BY <1>3, <2>1, AlgoFrame DEF PopDeleted, PopFails, schedVars
<1>4. CASE FitsNowhere
  <2>1. SchedInv'
    BY <1>1, <1>4, RearmSched DEF FitsNowhere
  <2>2. /\ GroupsInv /\ DroppedIsSound /\ AlgoTypes /\ RingInv /\ QueuesFit /\ SlicesFit
        /\ m_ndranges \in Seq(NDRanges) /\ Distinct(m_ndranges)
    BY Given
  <2>3. /\ m_ndranges # <<>> /\ m_ndranges' = Append(Tail(m_ndranges), Head(m_ndranges))
        /\ UNCHANGED <<ndrVars, m_in_queue, wg_cost, m_id, dropped>>
    BY <1>4 DEF FitsNowhere, PutBack, schedVars
  <2>4. /\ Head(m_ndranges) \in NDRanges /\ Holds(m_ndranges, Head(m_ndranges))
        /\ Tail(m_ndranges) \in Seq(NDRanges) /\ Distinct(Tail(m_ndranges))
        /\ \A x : Holds(Tail(m_ndranges), x)
                    <=> Holds(m_ndranges, x) /\ x # Head(m_ndranges)
    BY <2>2, <2>3, TailHolds
  <2>5. /\ m_ndranges' \in Seq(NDRanges) /\ Distinct(m_ndranges')
        /\ \A x : Holds(m_ndranges', x) <=> Holds(m_ndranges, x)
    <3>1. ~Holds(Tail(m_ndranges), Head(m_ndranges))
      BY <2>4
    <3>2. /\ m_ndranges' \in Seq(NDRanges) /\ Distinct(m_ndranges')
          /\ \A y : Holds(m_ndranges', y)
                      <=> Holds(Tail(m_ndranges), y) \/ y = Head(m_ndranges)
      BY <2>3, <2>4, <3>1, AppendHolds
    <3>3. QED
      BY <2>4, <3>2
  <2>6. GroupsInv' /\ DroppedIsSound'
    BY <2>2, <2>3, GroupsFrame, DroppedFrame DEF ndrVars
  <2>7. AlgoTypes' /\ QueuesFit' /\ SlicesFit'
    BY <2>2, <2>3, <2>5 DEF AlgoTypes, QueuesFit, SlicesFit, Out, Limit, LargerQuant
  <2>8. RingInv'
    <3>1. /\ m_total_size' = m_total_size /\ m_next_wgr' = m_next_wgr
          /\ ndr_state' = ndr_state /\ m_wgrs_in_the_wild' = m_wgrs_in_the_wild
      BY <2>3 DEF ndrVars
    <3>2. \A n \in NDRanges : Holds(m_ndranges', n) <=> Holds(m_ndranges, n)
      BY <2>5
    <3>3. Distinct(m_ndranges)'
      BY <2>5 DEF Distinct
    <3>4. ASSUME NEW n \in NDRanges
          PROVE  /\ m_total_size'[n] <= MaxWgs
                 /\ Holds(m_ndranges', n)
                      => /\ ndr_state'[n] # "NONE"
                         /\ m_next_wgr'[n] < m_total_size'[n] \/ m_next_wgr'[n] = 0
                 /\ m_next_wgr'[n] \in 1 .. m_total_size'[n] - 1 => Holds(m_ndranges', n)
                 /\ /\ m_next_wgr'[n] = 0
                    /\ Holds(m_ndranges', n) \/ m_total_size'[n] > 0
                    => m_wgrs_in_the_wild'[n] = 0 /\ ndr_state'[n] # "DELETED"
      BY <2>2, <3>1, <3>2 DEF RingInv
    <3>5. QED
      BY <3>3, <3>4 DEF RingInv, Holds
  <2>9. QED
    BY <2>1, <2>6, <2>7, <2>8 DEF Inv
<1>5. QED
  BY <1>2, <1>3, <1>4

\* The scheduler chosen has an id on the free list for its index, and fits at
\* least one work group in the quant, which is the smaller one if possible.
LEMMA ChosenFits ==
    ASSUME SchedInv, AlgoTypes, NEW n \in NDRanges, ~SelectFails(n), Chosen(n) # 0
    PROVE  /\ Chosen(n) \in Island
           /\ \E k \in 1 .. Len(m_free_schedulers) :
                 Chosen(n) = indexed(m_free_schedulers[k])
           /\ wg_cost[n][Chosen(n)] \in Nat \ {0}
           /\ wg_cost[n][Chosen(n)] <= Quant(n)
           /\ Quant(n) \in Nat
           /\ Quant(n) = Limit(wg_cost[n][Chosen(n)])
<1>1. SchedTypes
  BY DEF SchedInv
<1>2. m_min_quant \in Nat /\ LargerQuant \in Nat
  BY QuantAssumption DEF LargerQuant
<1>3. Quant(n) = IF select_best_scheduler(n, m_min_quant) # 0 THEN m_min_quant
                                                             ELSE LargerQuant
  BY DEF Quant
<1>4. PICK k \in 1 .. Len(m_free_schedulers) :
         Chosen(n) = Examined[k] /\ wg_cost[n][Examined[k]] <= Quant(n)
  BY <1>1, <1>2, <1>3, SelectBest DEF Chosen
<1>5. /\ Chosen(n) \in Island /\ Chosen(n) = indexed(m_free_schedulers[k])
      /\ wg_cost[n][Chosen(n)] \in Nat \ {0}
  BY <1>1, <1>4, ExaminedIsFit
<1>6. Quant(n) = Limit(wg_cost[n][Chosen(n)])
  <2>1. CASE wg_cost[n][Chosen(n)] <= m_min_quant
    <3>1. select_best_scheduler(n, m_min_quant) # 0
      BY <1>1, <1>2, <1>4, <2>1, SelectBest
    <3>2. QED
      BY <1>3, <2>1, <3>1 DEF Limit
  <2>2. CASE ~(wg_cost[n][Chosen(n)] <= m_min_quant)
    <3>1. Quant(n) # m_min_quant
      BY <1>4, <2>2
    <3>2. QED
      BY <1>3, <2>2, <3>1 DEF Limit
  <2>3. QED
    BY <2>1, <2>2
<1>7. QED
  BY <1>2, <1>3, <1>4, <1>5, <1>6

\* An island with a full queue is chosen only for an id that is not its index.
LEMMA FullIsMisnamed ==
    ASSUME SchedInv, AlgoTypes, NEW i \in Island, m_in_queue[i] # <<>>,
           \E k \in 1 .. Len(m_free_schedulers) : i = indexed(m_free_schedulers[k])
    PROVE  \E j \in Island : m_id[j] # j - 1
<1>1. PICK k \in 1 .. Len(m_free_schedulers) : i = indexed(m_free_schedulers[k])
  OBVIOUS
<1>2. PICK j \in Island : j = m_free_schedulers[k]
  BY DEF SchedInv, SchedTypes
<1>3. m_in_queue[j] = <<>>
  BY <1>2 DEF SchedInv, FreeIffIdle
<1>4. j \in Nat /\ j >= 1 /\ j <= N /\ N \in Nat
  BY IslandsAssumption DEF Island
<1>5. ASSUME m_id[j] = j - 1 PROVE FALSE
  <2>1. i = IF j - 1 < N THEN (j - 1) + 1 ELSE 0
    BY <1>1, <1>2, <1>5 DEF indexed
  <2>2. i = j
    BY <1>4, <2>1
  <2>3. QED
    BY <1>3, <2>2
<1>6. QED
  BY <1>5

\* What a slice does, with names for its parts: WGR w, of the work groups from
\* next to to - 1 of n, is submitted to scheduler i.
SliceOf(n, i, next, to, w, wgr) ==
    /\ n \in NDRanges /\ i \in Island /\ next \in Nat /\ to \in Nat
    /\ w = [parent |-> n, start_x |-> next, size_x |-> to]
    /\ next <= to /\ (m_total_size[n] > 0 => next < to /\ to <= m_total_size[n])
    /\ next < m_total_size[n] \/ next = 0
    /\ ndr_state[n] = "LIVE" /\ m_next_wgr[n] = next
    /\ m_next_wgr' = [m_next_wgr EXCEPT ![n] = to]
    /\ m_wgrs_in_the_wild' = [m_wgrs_in_the_wild EXCEPT ![n] = m_wgrs_in_the_wild[n] + 1]
    /\ wgr = [j \in {i} |-> w] /\ submit_wgr(wgr)
    /\ free_timer' = RearmedFreeTimer({i})
    /\ dropped' = IF Len(m_in_queue[i]) < QueueCapacity THEN dropped
                                                        ELSE dropped \cup {w}
    /\ UNCHANGED <<m_total_size, ndr_state, event_state, done, wg_cost, m_id>>

\* The slice of a step, how long it takes, and the ring after it.
LEMMA SliceParts ==
    ASSUME Inv, Slice
    PROVE  \E n, i, next, to, w, wgr :
              /\ SliceOf(n, i, next, to, w, wgr)
              /\ to * wg_cost[n][i] <= Limit(wg_cost[n][i]) + next * wg_cost[n][i]
              /\ \E k \in 1 .. Len(m_free_schedulers) : i = indexed(m_free_schedulers[k])
              /\ Holds(m_ndranges, n)
              /\ m_ndranges' \in Seq(NDRanges) /\ Distinct(m_ndranges')
              /\ \A x : x # n => (Holds(m_ndranges', x) <=> Holds(m_ndranges, x))
              /\ Holds(m_ndranges', n) <=> to < m_total_size[n]
<1>1. /\ SchedInv /\ GroupsInv /\ AlgoTypes /\ RingInv /\ NdrTypes
      /\ m_ndranges \in Seq(NDRanges) /\ Distinct(m_ndranges)
  BY Given
<1>2. PICK n : n = Head(m_ndranges)
  OBVIOUS
<1>3. PICK i \in {Chosen(n)} \ {0} : \E w \in {NextSlice(n, i)} :
         /\ m_next_wgr' = [m_next_wgr EXCEPT ![w.parent] = NextWgr(w)]
         /\ m_wgrs_in_the_wild' = [m_wgrs_in_the_wild EXCEPT ![w.parent] = @ + 1]
         /\ submit_wgr([j \in {i} |-> w])
         /\ free_timer' = RearmedFreeTimer({i})
         /\ m_ndranges' = AfterSlice(NextWgr(w))
         /\ dropped' = IF Len(m_in_queue[i]) < QueueCapacity THEN dropped
                                                             ELSE dropped \cup {w}
  BY <1>2 DEF Slice
<1>4. PICK w : w = NextSlice(n, i)
  OBVIOUS
<1>5. PICK next : next = m_next_wgr[n]
  OBVIOUS
<1>6. PICK wgs : wgs = WgsInQuant(n, i, Quant(n))
  OBVIOUS
<1>7. /\ m_ndranges # <<>> /\ ndr_state[n] = "LIVE" /\ ~SelectFails(n)
      /\ i = Chosen(n) /\ i # 0
      /\ w = CarvedWgr(n, next, wgs, m_total_size[n])
      /\ UNCHANGED <<m_total_size, ndr_state, event_state, done, wg_cost, m_id>>
  BY <1>2, <1>3, <1>4, <1>5, <1>6 DEF Slice, NextSlice
<1>8. /\ n \in NDRanges /\ Holds(m_ndranges, n)
      /\ Tail(m_ndranges) \in Seq(NDRanges) /\ Distinct(Tail(m_ndranges))
      /\ \A x : Holds(Tail(m_ndranges), x) <=> Holds(m_ndranges, x) /\ x # n
  BY <1>1, <1>2, <1>7, TailHolds
<1>9. /\ i \in Island
      /\ \E k \in 1 .. Len(m_free_schedulers) : i = indexed(m_free_schedulers[k])
      /\ wg_cost[n][i] \in Nat \ {0} /\ wg_cost[n][i] <= Quant(n)
      /\ Quant(n) \in Nat /\ Quant(n) = Limit(wg_cost[n][i])
  BY <1>1, <1>7, <1>8, ChosenFits
<1>10. /\ wgs \in Nat \ {0}
       /\ wgs * wg_cost[n][i] <= Limit(wg_cost[n][i])
  <2>1. /\ Quant(n) \div wg_cost[n][i] \in Nat
        /\ (Quant(n) \div wg_cost[n][i]) * wg_cost[n][i] <= Quant(n)
        /\ Quant(n) \div wg_cost[n][i] > 0
    BY <1>9, Quotient
  <2>2. QED
    BY <1>6, <1>9, <2>1 DEF WgsInQuant
<1>11. /\ next \in Nat /\ m_total_size[n] \in Nat
       /\ next < m_total_size[n] \/ next = 0
       /\ m_total_size[n] \in 0 .. MaxWgs
  BY <1>1, <1>5, <1>8, MaxWgsAssumption DEF RingInv, NdrTypes
<1>12. PICK to \in Nat :
          /\ w = [parent |-> n, start_x |-> next, size_x |-> to]
          /\ next <= to /\ to - next <= wgs
          /\ m_total_size[n] > 0 => next < to /\ to <= m_total_size[n]
  BY <1>7, <1>10, <1>11, CarvedSlice
<1>13. to * wg_cost[n][i] <= Limit(wg_cost[n][i]) + next * wg_cost[n][i]
  <2> DEFINE c == wg_cost[n][i]
             limit == Limit(c)
             len == to - next
  <2>1. /\ len \in Nat /\ len <= wgs /\ wgs \in Nat /\ c \in Nat
        /\ wgs * c <= limit /\ limit \in Nat /\ to = next + len
    BY <1>9, <1>10, <1>11, <1>12
  <2> HIDE DEF c, limit, len
  <2>2. len * c <= wgs * c
    BY <2>1
  <2>3. to * c = next * c + len * c
    BY <1>11, <2>1
  <2>4. len * c \in Nat /\ next * c \in Nat
    BY <1>11, <2>1
  <2>5. to * c <= limit + next * c
    BY <2>1, <2>2, <2>3, <2>4
  <2>6. QED
    BY <2>5 DEF c, limit
<1>14. SliceOf(n, i, next, to, w, [j \in {i} |-> w])
  <2>1. w.parent = n /\ NextWgr(w) = to
    BY <1>12 DEF NextWgr
  <2>2. /\ m_next_wgr' = [m_next_wgr EXCEPT ![n] = to]
        /\ m_wgrs_in_the_wild' = [m_wgrs_in_the_wild EXCEPT
                                     ![n] = m_wgrs_in_the_wild[n] + 1]
        /\ submit_wgr([j \in {i} |-> w])
        /\ free_timer' = RearmedFreeTimer({i})
        /\ dropped' = IF Len(m_in_queue[i]) < QueueCapacity THEN dropped
                                                            ELSE dropped \cup {w}
    BY <1>3, <1>4, <2>1
  <2>3. QED
    BY <1>5, <1>7, <1>8, <1>9, <1>11, <1>12, <2>2 DEF SliceOf
<1>15. m_ndranges' = IF to < m_total_size[n] THEN Append(Tail(m_ndranges), n)
                                             ELSE Tail(m_ndranges)
  BY <1>2, <1>3, <1>4, <1>12 DEF AfterSlice, PutBack, NextWgr
<1>16. /\ m_ndranges' \in Seq(NDRanges) /\ Distinct(m_ndranges')
       /\ \A x : x # n => (Holds(m_ndranges', x) <=> Holds(m_ndranges, x))
       /\ Holds(m_ndranges', n) <=> to < m_total_size[n]
  <2>1. CASE to < m_total_size[n]
    <3>1. m_ndranges' = Append(Tail(m_ndranges), n)
      BY <1>15, <2>1
    <3>2. ~Holds(Tail(m_ndranges), n)
      BY <1>8
    <3>3. /\ m_ndranges' \in Seq(NDRanges) /\ Distinct(m_ndranges')
          /\ \A y : Holds(m_ndranges', y) <=> Holds(Tail(m_ndranges), y) \/ y = n
      BY <1>8, <3>1, <3>2, AppendHolds
    <3>4. QED
      BY <1>8, <2>1, <3>3
  <2>2. CASE ~(to < m_total_size[n])
    <3>1. m_ndranges' = Tail(m_ndranges)
      BY <1>15, <2>2
    <3>2. QED
      BY <1>8, <2>2, <3>1
  <2>3. QED
    BY <2>1, <2>2
<1>17. QED
  BY <1>8, <1>9, <1>13, <1>14, <1>16

\* The WGR of a slice is not out, and what its submission adds to those that are.
LEMMA SliceOut ==
    ASSUME Inv, NEW n, NEW i, NEW next, NEW to, NEW w, NEW wgr,
           SliceOf(n, i, next, to, w, wgr),
           Holds(m_ndranges, n)
    PROVE  /\ w \in Wgr /\ w.parent = n
           /\ w.start_x = next /\ w.size_x = to
           /\ Groups(w) = next .. to - 1
           /\ Submission(wgr) /\ SchedInv'
           /\ \A p \in OutOf(n) : p[2] # w
           /\ Out' = IF Len(m_in_queue[i]) < QueueCapacity THEN Out \cup {<<i, w>>}
                                                           ELSE Out
<1>1. /\ SchedInv /\ GroupsInv /\ RingInv /\ SchedTypes /\ NdrTypes /\ NoneTwice
      /\ OutIsSound
  BY Given
<1>2. /\ DOMAIN wgr = {i} /\ wgr[i] = w /\ w \in Wgr /\ w.parent = n
      /\ w.start_x = next /\ w.size_x = to /\ Groups(w) = next .. to - 1
  BY DEF SliceOf, Wgr, Groups
<1>3. Submission(wgr)
  BY <1>2 DEF SliceOf, Submission
<1>4. SchedInv'
  BY <1>1, <1>2, <1>3, SubmitSched DEF SliceOf
<1>5. ASSUME NEW p \in OutOf(n), p[2] = w PROVE FALSE
  <2>1. next .. to - 1 \subseteq 0 .. next - 1
    BY <1>1, <1>2, <1>5 DEF OutOf, OutIsSound, SliceOf
  <2>2. next = to
    <3>1. next \in Nat /\ to \in Nat /\ next <= to
      BY DEF SliceOf
    <3>2. ASSUME next < to PROVE FALSE
      <4>1. next \in next .. to - 1 /\ next \notin 0 .. next - 1
        BY <3>1, <3>2
      <4>2. QED
        BY <2>1, <4>1
    <3>3. QED
      BY <3>1, <3>2
  <2>3. next = 0
    <3>1. m_total_size[n] \in Nat
      BY <1>1 DEF NdrTypes, SliceOf
    <3>2. QED
      BY <2>2, <3>1 DEF SliceOf
  <2>4. m_wgrs_in_the_wild[n] = 0
    BY <1>1, <2>3 DEF RingInv, SliceOf
  <2>5. /\ IsFiniteSet(OutOf(n)) /\ Cardinality(OutOf(n)) \in Nat
        /\ Cardinality(OutOf(n)) <= m_wgrs_in_the_wild[n]
    BY <1>1, OutIsFinite DEF GroupsInv, WildIsSound, SliceOf
  <2>6. Cardinality(OutOf(n)) = 0
    BY <2>4, <2>5
  <2>7. OutOf(n) = {}
    BY <2>5, <2>6, FS_EmptySet
  <2>8. QED
    BY <1>5, <2>7
<1>6. Out' = Out \cup Sent(wgr)
  <2>1. SchedTypes'
    BY <1>4 DEF SchedInv
  <2>2. \A p \in Out : p[1] \in DOMAIN wgr => p[2] # wgr[p[1]]
    BY <1>2, <1>5 DEF OutOf
  <2>3. QED
    BY <1>1, <1>3, <2>1, <2>2, SubmitOut
<1>7. Sent(wgr) = IF Len(m_in_queue[i]) < QueueCapacity THEN {<<i, w>>} ELSE {}
  BY <1>2 DEF Sent
<1>8. QED
  BY <1>2, <1>3, <1>4, <1>5, <1>6, <1>7

\* A set with one more element.
LEMMA OneMore ==
    ASSUME NEW S, IsFiniteSet(S), NEW x
    PROVE  /\ IsFiniteSet(S \cup {x}) /\ Cardinality(S \cup {x}) \in Nat
           /\ Cardinality(S \cup {x}) <= Cardinality(S) + 1
<1>1. /\ IsFiniteSet(S \cup {x}) /\ Cardinality(S) \in Nat
      /\ Cardinality(S \cup {x}) = IF x \in S THEN Cardinality(S) ELSE Cardinality(S) + 1
  BY FS_AddElement, FS_CardinalityType
<1>2. QED
  BY <1>1

\* A slice leaves the work groups consistent, those that are dropped included.
LEMMA SliceGroups ==
    ASSUME Inv, NEW n, NEW i, NEW next, NEW to, NEW w, NEW wgr,
           SliceOf(n, i, next, to, w, wgr),
           Holds(m_ndranges, n),
           \E k \in 1 .. Len(m_free_schedulers) : i = indexed(m_free_schedulers[k])
    PROVE  GroupsInv' /\ DroppedIsSound'
<1> DEFINE room == Len(m_in_queue[i]) < QueueCapacity
<1>1. /\ SchedInv /\ GroupsInv /\ DroppedIsSound /\ AlgoTypes /\ SchedTypes /\ NdrTypes
      /\ OutIsSound
  BY Given
<1>2. DOMAIN wgr = {i} /\ wgr[i] = w
  BY DEF SliceOf
<1>3. /\ w \in Wgr /\ w.parent = n
      /\ Groups(w) = next .. to - 1
      /\ Submission(wgr) /\ SchedInv'
      /\ \A p \in OutOf(n) : p[2] # w
      /\ Out' = IF room THEN Out \cup {<<i, w>>} ELSE Out
  BY SliceOut
<1>4. /\ n \in NDRanges /\ i \in Island /\ next \in Nat /\ to \in Nat /\ next <= to
      /\ ndr_state[n] = "LIVE" /\ m_next_wgr[n] = next
      /\ m_next_wgr' = [m_next_wgr EXCEPT ![n] = to]
      /\ m_wgrs_in_the_wild' = [m_wgrs_in_the_wild EXCEPT
                                   ![n] = m_wgrs_in_the_wild[n] + 1]
      /\ dropped' = IF room THEN dropped ELSE dropped \cup {w}
      /\ UNCHANGED <<m_total_size, ndr_state, event_state, done, m_id>>
  BY DEF SliceOf
<1>5. GroupsInv'
  <2>1. Carving(wgr, n, m_next_wgr[n], to)
    BY <1>2, <1>3, <1>4 DEF Carving
  <2>2. \A p \in OutOf(n) : p[1] \in DOMAIN wgr => p[2] # wgr[p[1]]
    BY <1>2, <1>3
  <2>3. ndr_state' = [ndr_state EXCEPT ![n] = "LIVE"]
    BY <1>1, <1>4 DEF NdrTypes
  <2>4. m_wgrs_in_the_wild' = [m_wgrs_in_the_wild EXCEPT
                                 ![n] = m_wgrs_in_the_wild[n] + Cardinality(DOMAIN wgr)]
    <3>1. Cardinality(DOMAIN wgr) = 1
      BY <1>2, <1>3, FS_Singleton
    <3>2. QED
      BY <1>4, <3>1
  <2>5. m_total_size' \in [NDRanges -> Nat]
    BY <1>1, <1>4 DEF NdrTypes
  <2>6. ndr_state[n] # "DELETED" /\ m_next_wgr[n] <= to
    BY <1>4
  <2>7. UNCHANGED <<event_state, done>>
    BY <1>4
  <2>8. n \in NDRanges /\ to \in Nat /\ m_next_wgr' = [m_next_wgr EXCEPT ![n] = to]
    BY <1>4
  <2>9. Submission(wgr) /\ SchedInv' /\ SchedInv /\ GroupsInv
    BY <1>1, <1>2, <1>3
  <2>10. QED
    BY <2>1, <2>2, <2>3, <2>4, <2>5, <2>6, <2>7, <2>8, <2>9, SubmitGroups
<1>6. /\ m_next_wgr'[n] = to
      /\ m_wgrs_in_the_wild'[n] = m_wgrs_in_the_wild[n] + 1
      /\ m_wgrs_in_the_wild[n] \in Nat
      /\ \A m \in NDRanges \ {n} : /\ m_next_wgr'[m] = m_next_wgr[m]
                                   /\ m_wgrs_in_the_wild'[m] = m_wgrs_in_the_wild[m]
      /\ done' = done
  BY <1>1, <1>4 DEF NdrTypes
<1>7. /\ OutOf(n)' = IF room THEN OutOf(n) \cup {<<i, w>>} ELSE OutOf(n)
      /\ DroppedOf(n)' = IF room THEN DroppedOf(n) ELSE DroppedOf(n) \cup {w}
      /\ \A m : m # n => OutOf(m)' = OutOf(m) /\ DroppedOf(m)' = DroppedOf(m)
  BY <1>2, <1>3, <1>4 DEF OutOf, DroppedOf
<1>8. <<i, w>>[2] = w
  OBVIOUS
<1> HIDE DEF room
<1>9. /\ done[n] \subseteq 0 .. next - 1
      /\ \A p \in OutOf(n) : Groups(p[2]) \subseteq 0 .. next - 1
      /\ \A d \in DroppedOf(n) : Groups(d) \subseteq 0 .. next - 1
  BY <1>1, <1>4 DEF GroupsInv, WildIsSound, OutIsSound, OutOf, DroppedOf, DroppedIsSound
<1>10. \A S : S \subseteq 0 .. next - 1 => S \subseteq 0 .. to - 1 /\ S \cap Groups(w) = {}
  BY <1>2, <1>3, <1>4
<1>11. Groups(w) \subseteq 0 .. to - 1
  BY <1>2, <1>3, <1>4
<1>12. ASSUME NEW d \in dropped'
       PROVE  /\ Groups(d) \subseteq 0 .. m_next_wgr'[d.parent] - 1
              /\ Groups(d) \cap done'[d.parent] = {}
              /\ \A p \in OutOf(d.parent)' : Groups(d) \cap Groups(p[2]) = {}
  <2>1. CASE d \in dropped
    <3>1. /\ d.parent \in NDRanges
          /\ Groups(d) \subseteq 0 .. m_next_wgr[d.parent] - 1
          /\ Groups(d) \cap done[d.parent] = {}
          /\ \A p \in OutOf(d.parent) : Groups(d) \cap Groups(p[2]) = {}
      BY <1>1, <2>1 DEF DroppedIsSound, AlgoTypes, Wgr
    <3>2. CASE d.parent = n
      <4>1. Groups(d) \subseteq 0 .. next - 1
        BY <1>4, <3>1, <3>2
      <4>2. Groups(d) \subseteq 0 .. to - 1 /\ Groups(d) \cap Groups(w) = {}
        BY <1>10, <4>1
      <4>3. \A p \in OutOf(n)' : Groups(d) \cap Groups(p[2]) = {}
        BY <1>7, <1>8, <3>1, <3>2, <4>2
      <4>4. QED
        BY <1>6, <3>1, <3>2, <4>2, <4>3
    <3>3. CASE d.parent # n
      BY <1>6, <1>7, <3>1, <3>3
    <3>4. QED
      BY <3>2, <3>3
  <2>2. CASE d \notin dropped
    <3>1. d = w /\ ~room
      BY <1>4, <2>2
    <3>2. /\ OutOf(n)' = OutOf(n) /\ d.parent = n
      BY <1>2, <1>3, <1>7, <3>1
    <3>3. Groups(w) \cap done[n] = {}
      BY <1>9, <1>10
    <3>4. \A p \in OutOf(n) : Groups(w) \cap Groups(p[2]) = {}
      BY <1>9, <1>10
    <3>5. QED
      BY <1>6, <1>11, <3>1, <3>2, <3>3, <3>4
  <2>3. QED
    BY <2>1, <2>2
<1>13. ASSUME NEW m \in NDRanges
       PROVE  /\ IsFiniteSet(DroppedOf(m)')
              /\ Cardinality(OutOf(m)') + Cardinality(DroppedOf(m)')
                    <= m_wgrs_in_the_wild'[m]
              /\ \A v \in 0 .. m_next_wgr'[m] - 1 :
                    \/ v \in done'[m]
                    \/ \E p \in OutOf(m)' : v \in Groups(p[2])
                    \/ \E d \in DroppedOf(m)' : v \in Groups(d)
  <2>1. /\ IsFiniteSet(DroppedOf(m))
        /\ Cardinality(OutOf(m)) + Cardinality(DroppedOf(m)) <= m_wgrs_in_the_wild[m]
        /\ \A v \in 0 .. m_next_wgr[m] - 1 :
              \/ v \in done[m]
              \/ \E p \in OutOf(m) : v \in Groups(p[2])
              \/ \E d \in DroppedOf(m) : v \in Groups(d)
    BY <1>1 DEF DroppedIsSound
  <2>2. CASE m # n
    BY <1>6, <1>7, <2>1, <2>2
  <2>3. CASE m = n
    <3>1. IsFiniteSet(OutOf(n)) /\ Cardinality(OutOf(n)) \in Nat
          /\ Cardinality(DroppedOf(n)) \in Nat
      BY <1>1, <2>1, <2>3, OutIsFinite, FS_CardinalityType
    <3>2. /\ IsFiniteSet(DroppedOf(n)')
          /\ Cardinality(OutOf(n)') + Cardinality(DroppedOf(n)')
                <= Cardinality(OutOf(n)) + Cardinality(DroppedOf(n)) + 1
      <4>1. CASE room
        <5>1. OutOf(n)' = OutOf(n) \cup {<<i, w>>} /\ DroppedOf(n)' = DroppedOf(n)
          BY <1>7, <4>1
        <5>2. Cardinality(OutOf(n)') <= Cardinality(OutOf(n)) + 1
          BY <3>1, <5>1, OneMore
        <5>3. QED
          <6>1. /\ IsFiniteSet(DroppedOf(n)')
                /\ Cardinality(DroppedOf(n)') = Cardinality(DroppedOf(n))
            BY <2>1, <2>3, <5>1
          <6>2. Cardinality(OutOf(n)') \in Nat
            BY <3>1, <5>1, OneMore
          <6>3. QED
            BY <3>1, <5>2, <6>1, <6>2
      <4>2. CASE ~room
        <5>1. OutOf(n)' = OutOf(n) /\ DroppedOf(n)' = DroppedOf(n) \cup {w}
          BY <1>7, <4>2
        <5>2. IsFiniteSet(DroppedOf(n))
          BY <2>1, <2>3
        <5>3. /\ IsFiniteSet(DroppedOf(n)')
              /\ Cardinality(DroppedOf(n)') <= Cardinality(DroppedOf(n)) + 1
              /\ Cardinality(DroppedOf(n)') \in Nat
          BY <5>1, <5>2, OneMore
        <5>4. Cardinality(OutOf(n)') = Cardinality(OutOf(n))
          BY <5>1
        <5>5. QED
          BY <3>1, <5>3, <5>4
      <4>3. QED
        BY <4>1, <4>2
    <3>3. Cardinality(OutOf(n)') + Cardinality(DroppedOf(n)') <= m_wgrs_in_the_wild'[n]
      <4>1. Cardinality(OutOf(n)') \in Nat /\ Cardinality(DroppedOf(n)') \in Nat
        <5>1. OutOf(n)' = OutOf(n) \cup {<<i, w>>} \/ OutOf(n)' = OutOf(n)
          BY <1>7
        <5>2. IsFiniteSet(OutOf(n)')
          BY <3>1, <5>1, OneMore
        <5>3. QED
          BY <3>2, <5>2, FS_CardinalityType
      <4>2. QED
        BY <1>6, <2>1, <2>3, <3>1, <3>2, <4>1
    <3>4. ASSUME NEW v \in 0 .. to - 1
          PROVE  \/ v \in done[n]
                 \/ \E p \in OutOf(n)' : v \in Groups(p[2])
                 \/ \E d \in DroppedOf(n)' : v \in Groups(d)
      <4>1. CASE v < next
        <5>1. v \in 0 .. next - 1
          BY <1>4, <4>1
        <5>2. \/ v \in done[n]
              \/ \E p \in OutOf(n) : v \in Groups(p[2])
              \/ \E d \in DroppedOf(n) : v \in Groups(d)
          BY <1>4, <2>1, <2>3, <5>1
        <5>3. OutOf(n) \subseteq OutOf(n)' /\ DroppedOf(n) \subseteq DroppedOf(n)'
          BY <1>7
        <5>4. QED
          BY <5>2, <5>3
      <4>2. CASE v >= next
        <5>1. v \in Groups(w)
          BY <1>2, <1>3, <1>4, <4>2
        <5>2. <<i, w>> \in OutOf(n)' \/ w \in DroppedOf(n)'
          BY <1>7
        <5>3. QED
          BY <1>8, <5>1, <5>2
      <4>3. QED
        BY <1>4, <4>1, <4>2
    <3>5. QED
      BY <1>6, <2>3, <3>2, <3>3, <3>4
  <2>4. QED
    BY <2>2, <2>3
<1>14. dropped' # {} => \E j \in Island : m_id'[j] # j - 1
  <2>1. CASE dropped' = dropped
    BY <1>1, <1>4, <2>1 DEF DroppedIsSound
  <2>2. CASE dropped' # dropped
    <3>1. ~room
      BY <1>4, <2>2
    <3>2. m_in_queue[i] # <<>>
      <4>1. ASSUME m_in_queue[i] = <<>> PROVE FALSE
        <5>1. Len(m_in_queue[i]) = 0
          BY <4>1
        <5>2. QED
          BY <3>1, <5>1, CapacityAssumption DEF room
      <4>2. QED
        BY <4>1
    <3>3. \E j \in Island : m_id[j] # j - 1
      BY <1>1, <1>4, <3>2, FullIsMisnamed
    <3>4. QED
      BY <1>4, <3>3
  <2>3. QED
    BY <2>1, <2>2
<1>15. DroppedIsSound'
  BY <1>12, <1>13, <1>14 DEF DroppedIsSound, Groups
<1>16. QED
  BY <1>5, <1>15

\* A slice.
LEMMA InvSlice ==
    ASSUME Inv, Slice
    PROVE  Inv'
<1>1. /\ SchedInv /\ GroupsInv /\ DroppedIsSound /\ AlgoTypes /\ RingInv
      /\ QueuesFit /\ SlicesFit /\ SchedTypes /\ NdrTypes
  BY Given
<1>2. PICK n, i, next, to, w, wgr :
         /\ SliceOf(n, i, next, to, w, wgr)
         /\ to * wg_cost[n][i] <= Limit(wg_cost[n][i]) + next * wg_cost[n][i]
         /\ \E k \in 1 .. Len(m_free_schedulers) : i = indexed(m_free_schedulers[k])
         /\ Holds(m_ndranges, n)
         /\ m_ndranges' \in Seq(NDRanges) /\ Distinct(m_ndranges')
         /\ \A x : x # n => (Holds(m_ndranges', x) <=> Holds(m_ndranges, x))
         /\ Holds(m_ndranges', n) <=> to < m_total_size[n]
  BY SliceParts
<1>3. DOMAIN wgr = {i} /\ wgr[i] = w
  BY <1>2 DEF SliceOf
<1>4. /\ w \in Wgr /\ w.parent = n
      /\ w.start_x = next /\ w.size_x = to
      /\ Submission(wgr) /\ SchedInv'
      /\ Out' = IF Len(m_in_queue[i]) < QueueCapacity THEN Out \cup {<<i, w>>} ELSE Out
  BY <1>2, SliceOut
<1>5. GroupsInv' /\ DroppedIsSound'
  BY <1>2, SliceGroups
<1>6. /\ n \in NDRanges /\ i \in Island /\ next \in Nat /\ to \in Nat
      /\ m_total_size[n] > 0 => next < to
      /\ next < m_total_size[n] \/ next = 0
      /\ m_next_wgr' = [m_next_wgr EXCEPT ![n] = to]
      /\ m_wgrs_in_the_wild' = [m_wgrs_in_the_wild EXCEPT
                                   ![n] = m_wgrs_in_the_wild[n] + 1]
      /\ dropped' = IF Len(m_in_queue[i]) < QueueCapacity THEN dropped
                                                          ELSE dropped \cup {w}
      /\ UNCHANGED <<m_total_size, ndr_state, wg_cost, m_id>>
      /\ ndr_state[n] = "LIVE"
  BY <1>2 DEF SliceOf
<1>7. SlicesFit'
  <2>1. SUFFICES ASSUME NEW p \in Out'
                 PROVE  p[2].size_x * wg_cost[p[2].parent][p[1]]
                           <= Limit(wg_cost[p[2].parent][p[1]])
                              + p[2].start_x * wg_cost[p[2].parent][p[1]]
    BY <1>6 DEF SlicesFit, Limit, LargerQuant
  <2>2. CASE p \in Out
    BY <1>1, <2>2 DEF SlicesFit
  <2>3. CASE p \notin Out
    <3>1. p = <<i, w>>
      BY <1>3, <1>4, <2>3
    <3>2. /\ p[2].size_x = to /\ p[2].start_x = next /\ p[2].parent = n /\ p[1] = i
      BY <1>3, <1>4, <3>1
    <3>3. QED
      BY <1>2, <3>2
  <2>4. QED
    BY <2>2, <2>3
<1>8. QueuesFit'
  <2>1. QueuesAfter(wgr)
    BY <1>1, <1>3, <1>4, SubmitQueues
  <2>2. ASSUME NEW j \in Island PROVE Len(m_in_queue'[j]) <= QueueCapacity
    <3>1. /\ m_in_queue[j] \in Seq(Wgr) /\ Len(m_in_queue[j]) \in Nat
          /\ Len(m_in_queue[j]) <= QueueCapacity /\ QueueCapacity \in Nat
      BY <1>1, CapacityAssumption DEF QueuesFit, SchedTypes
    <3>2. CASE m_in_queue'[j] = m_in_queue[j]
      BY <3>1, <3>2
    <3>3. CASE m_in_queue'[j] # m_in_queue[j]
      <4>1. /\ j = i /\ Len(m_in_queue[j]) < QueueCapacity
            /\ m_in_queue'[j] = Append(m_in_queue[j], w)
        BY <1>3, <1>4, <2>1, <3>3 DEF QueuesAfter
      <4>2. Len(Append(m_in_queue[j], w)) = Len(m_in_queue[j]) + 1
        BY <1>3, <1>4, <3>1, AppendProperties
      <4>3. QED
        BY <3>1, <4>1, <4>2
    <3>4. QED
      BY <3>2, <3>3
  <2>3. QED
    BY <2>2 DEF QueuesFit
<1>9. AlgoTypes'
  BY <1>1, <1>2, <1>3, <1>4, <1>6 DEF AlgoTypes
<1>10. RingInv'
  <2>1. /\ m_next_wgr'[n] = to
        /\ \A m \in NDRanges : m # n => /\ m_next_wgr'[m] = m_next_wgr[m]
                                        /\ m_wgrs_in_the_wild'[m] = m_wgrs_in_the_wild[m]
    BY <1>1, <1>6 DEF NdrTypes
  <2>2. ASSUME NEW m \in NDRanges
        PROVE  /\ m_total_size'[m] <= MaxWgs
               /\ Holds(m_ndranges', m)
                    => /\ ndr_state'[m] # "NONE"
                       /\ m_next_wgr'[m] < m_total_size'[m] \/ m_next_wgr'[m] = 0
               /\ m_next_wgr'[m] \in 1 .. m_total_size'[m] - 1 => Holds(m_ndranges', m)
               /\ /\ m_next_wgr'[m] = 0
                  /\ Holds(m_ndranges', m) \/ m_total_size'[m] > 0
                  => m_wgrs_in_the_wild'[m] = 0 /\ ndr_state'[m] # "DELETED"
    <3>1. /\ m_total_size[m] <= MaxWgs
          /\ Holds(m_ndranges, m)
                => /\ ndr_state[m] # "NONE"
                   /\ m_next_wgr[m] < m_total_size[m] \/ m_next_wgr[m] = 0
          /\ m_next_wgr[m] \in 1 .. m_total_size[m] - 1 => Holds(m_ndranges, m)
          /\ m_next_wgr[m] = 0 /\ (Holds(m_ndranges, m) \/ m_total_size[m] > 0)
                => m_wgrs_in_the_wild[m] = 0 /\ ndr_state[m] # "DELETED"
      BY <1>1 DEF RingInv
    <3>2. CASE m = n
      <4>1. m_total_size[n] \in Nat
        BY <1>1, <1>6 DEF NdrTypes
      <4>2. to \in 1 .. m_total_size[n] - 1 => to < m_total_size[n]
        BY <1>6, <4>1
      <4>3. ~(to = 0 /\ (to < m_total_size[n] \/ m_total_size[n] > 0))
        BY <1>6, <4>1
      <4>4. QED
        BY <1>2, <1>6, <2>1, <3>1, <3>2, <4>2, <4>3
    <3>3. CASE m # n
      BY <1>2, <1>6, <2>1, <3>1, <3>3
    <3>4. QED
      BY <3>2, <3>3
  <2>3. Distinct(m_ndranges)'
    BY <1>2 DEF Distinct
  <2>4. QED
    BY <2>2, <2>3 DEF RingInv, Holds
<1>11. QED
  BY <1>3, <1>4, <1>5, <1>7, <1>8, <1>9, <1>10 DEF Inv

\* It holds always.
LEMMA Invariance == Spec => []Inv
<1>1. Init => Inv
  BY InvInit
<1>2. Inv /\ [Next]_vars => Inv'
  <2>1. SUFFICES ASSUME Inv, [Next]_vars PROVE Inv'
    OBVIOUS
  <2>2. CASE UNCHANGED vars
    <3>1. SchedInv'
      BY <2>1, <2>2 DEF vars, islandVars, schedVars, freeVars, Inv, SchedInv, SchedTypes,
                        TimerIffBusy, FreeIffIdle, FreeTimerIffFree
    <3>2. QED
      BY <2>1, <2>2, <3>1, AlgoFrame DEF vars, islandVars, schedVars
  <2>3. QED
    BY <2>1, <2>2, InvRoute, InvTimers, InvNoSlice, InvSlice DEF Next, FreeTimerCallback
<1>3. QED
  BY <1>1, <1>2, PTL DEF Spec

-----------------------------------------------------------------------------
(* Theorems. *)

\* The free-schedulers timer is active or pending exactly while a scheduler is
\* free, although its callback changes it from repeating to one-shot.
THEOREM FreeTimerFires == Spec => []FreeTimerIffFree
<1>1. Inv => FreeTimerIffFree
  BY DEF Inv, SchedInv
<1>2. QED
  BY <1>1, Invariance, PTL

\* Every work group that was carved is done, with exactly one scheduler, or was
\* dropped by the full queue of a scheduler, of which one has an id that is not its
\* index; and what an NDRange lacks whose event completes is the rest that was not
\* carved, for which it waits in the ring (AlgoSlicing::on_free_schedulers,
\* NDRange::decrement_wgrs_counter).
THEOREM GroupsAreAccountedFor == Spec => []GroupsAccountedFor
<1>1. ASSUME Inv, NEW n \in NDRanges
      PROVE  /\ done[n] \cup QueuedGroups(n) \cup DroppedGroups(n)
                   = 0 .. m_next_wgr[n] - 1
             /\ done[n] \cap QueuedGroups(n) = {}
             /\ DroppedGroups(n) \cap (done[n] \cup QueuedGroups(n)) = {}
             /\ \A p, q \in Queued(n) :
                   p # q => Groups(m_in_queue[p[1]][p[2]])
                               \cap Groups(m_in_queue[q[1]][q[2]]) = {}
             /\ DroppedGroups(n) # {} => \E i \in Island : m_id[i] # i - 1
             /\ event_state[n] = "COMPLETE" =>
                   /\ done[n] = 0 .. m_next_wgr[n] - 1
                   /\ m_next_wgr[n] < m_total_size[n] =>
                         \E k \in 1 .. Len(m_ndranges) : m_ndranges[k] = n
  <2> DEFINE at(q) == m_in_queue[q[1]][q[2]]
  <2>1. /\ SchedTypes /\ GroupsInv /\ NoneTwice /\ OutIsSound /\ DroppedIsSound
        /\ QueuesFit /\ RingInv /\ NdrTypes /\ StatesAgree
    BY <1>1, Given
  <2>2. /\ \A q \in Queued(n) : <<q[1], at(q)>> \in OutOf(n)
        /\ \A p \in OutOf(n) : \E q \in Queued(n) : at(q) = p[2]
        /\ \A p, q \in Queued(n) : p # q => <<p[1], at(p)>> # <<q[1], at(q)>>
    BY <2>1, QueuedIsOut DEF QueuesFit
  <2>3. /\ QueuedGroups(n) = UNION {Groups(at(q)) : q \in Queued(n)}
        /\ DroppedGroups(n) = UNION {Groups(d) : d \in DroppedOf(n)}
    BY DEF QueuedGroups, DroppedGroups, DroppedOf
  <2>4. /\ \A d \in DroppedOf(n) :
              /\ Groups(d) \subseteq 0 .. m_next_wgr[n] - 1
              /\ Groups(d) \cap done[n] = {}
              /\ \A p \in OutOf(n) : Groups(d) \cap Groups(p[2]) = {}
        /\ IsFiniteSet(DroppedOf(n))
        /\ Cardinality(OutOf(n)) + Cardinality(DroppedOf(n)) <= m_wgrs_in_the_wild[n]
        /\ \A v \in 0 .. m_next_wgr[n] - 1 :
              \/ v \in done[n]
              \/ \E p \in OutOf(n) : v \in Groups(p[2])
              \/ \E d \in DroppedOf(n) : v \in Groups(d)
        /\ DroppedOf(n) # {} => \E i \in Island : m_id[i] # i - 1
    BY <2>1 DEF DroppedIsSound, DroppedOf
  <2>5. done[n] \subseteq 0 .. m_next_wgr[n] - 1
    BY <2>1 DEF GroupsInv, WildIsSound
  <2> HIDE DEF at
  <2>6. ASSUME NEW q \in Queued(n)
        PROVE  /\ Groups(at(q)) \subseteq 0 .. m_next_wgr[n] - 1
               /\ Groups(at(q)) \cap done[n] = {}
               /\ \A d \in DroppedOf(n) : Groups(d) \cap Groups(at(q)) = {}
               /\ \A r \in Out : r[2].parent = n /\ r # <<q[1], at(q)>>
                                   => Groups(at(q)) \cap Groups(r[2]) = {}
    <3>1. /\ <<q[1], at(q)>> \in OutOf(n) /\ <<q[1], at(q)>> \in Out
          /\ at(q).parent = n /\ <<q[1], at(q)>>[2] = at(q)
      BY <2>2 DEF OutOf
    <3>2. \A d \in DroppedOf(n) : Groups(d) \cap Groups(at(q)) = {}
      BY <2>4, <3>1
    <3>3. QED
      BY <2>1, <3>1, <3>2 DEF OutIsSound
  <2>7. done[n] \cup QueuedGroups(n) \cup DroppedGroups(n) = 0 .. m_next_wgr[n] - 1
    <3>1. ASSUME NEW v \in 0 .. m_next_wgr[n] - 1
          PROVE  v \in done[n] \/ v \in QueuedGroups(n) \/ v \in DroppedGroups(n)
      BY <2>2, <2>3, <2>4
    <3>2. QueuedGroups(n) \subseteq 0 .. m_next_wgr[n] - 1
      BY <2>3, <2>6
    <3>3. DroppedGroups(n) \subseteq 0 .. m_next_wgr[n] - 1
      BY <2>3, <2>4
    <3>4. QED
      BY <2>5, <3>1, <3>2, <3>3
  <2>8. done[n] \cap QueuedGroups(n) = {}
    BY <2>3, <2>6
  <2>9. DroppedGroups(n) \cap (done[n] \cup QueuedGroups(n)) = {}
    BY <2>3, <2>4, <2>6
  <2>10. ASSUME NEW p \in Queued(n), NEW q \in Queued(n), p # q
         PROVE  Groups(at(p)) \cap Groups(at(q)) = {}
    <3>1. /\ <<q[1], at(q)>> \in Out /\ at(q).parent = n
          /\ <<q[1], at(q)>> # <<p[1], at(p)>> /\ <<q[1], at(q)>>[2] = at(q)
      BY <2>2, <2>10 DEF OutOf
    <3>2. QED
      BY <2>6, <3>1
  <2>11. DroppedGroups(n) # {} => \E i \in Island : m_id[i] # i - 1
    BY <2>3, <2>4
  <2>12. ASSUME event_state[n] = "COMPLETE"
         PROVE  /\ done[n] = 0 .. m_next_wgr[n] - 1
                /\ m_next_wgr[n] < m_total_size[n] => Holds(m_ndranges, n)
    <3>1. ndr_state[n] = "DELETED" /\ m_wgrs_in_the_wild[n] = 0
      BY <2>1, <2>12 DEF StatesAgree
    <3>2. /\ IsFiniteSet(OutOf(n)) /\ Cardinality(OutOf(n)) \in Nat
          /\ Cardinality(DroppedOf(n)) \in Nat
      BY <2>1, <2>4, OutIsFinite, FS_CardinalityType
    <3>3. Cardinality(OutOf(n)) = 0 /\ Cardinality(DroppedOf(n)) = 0
      BY <2>4, <3>1, <3>2
    <3>4. OutOf(n) = {} /\ DroppedOf(n) = {}
      BY <2>4, <3>2, <3>3, FS_EmptySet
    <3>5. done[n] = 0 .. m_next_wgr[n] - 1
      BY <2>4, <2>5, <3>4
    <3>6. ASSUME m_next_wgr[n] < m_total_size[n] PROVE Holds(m_ndranges, n)
      <4>1. m_next_wgr[n] \in Nat /\ m_total_size[n] \in Nat
        BY <2>1 DEF NdrTypes
      <4>2. m_next_wgr[n] # 0
        BY <2>1, <3>1, <3>6, <4>1 DEF RingInv
      <4>3. m_next_wgr[n] \in 1 .. m_total_size[n] - 1
        BY <3>6, <4>1, <4>2
      <4>4. QED
        BY <2>1, <4>3 DEF RingInv
    <3>7. QED
      BY <3>5, <3>6
  <2>13. QED
    BY <2>7, <2>8, <2>9, <2>10, <2>11, <2>12 DEF at, Holds
<1>2. Inv => GroupsAccountedFor
  BY <1>1 DEF GroupsAccountedFor
<1>3. QED
  BY <1>2, Invariance, PTL

\* The ring holds an NDRange exactly while it has work groups to carve, and once.
THEOREM RingIsRight == Spec => []WaitsIffMoreWork
<1>1. ASSUME Inv, NEW n \in NDRanges
      PROVE  LET places == {k \in 1 .. Len(m_ndranges) : m_ndranges[k] = n}
             IN  /\ Cardinality(places) <= 1
                 /\ places # {} /\ m_total_size[n] > 0
                       => m_next_wgr[n] < m_total_size[n]
                 /\ m_next_wgr[n] \in 1 .. m_total_size[n] - 1 => places # {}
  <2> DEFINE places == {k \in 1 .. Len(m_ndranges) : m_ndranges[k] = n}
  <2>1. RingInv /\ NdrTypes
    BY <1>1, Given
  <2>2. places # {} <=> Holds(m_ndranges, n)
    BY DEF Holds
  <2>3. \A j, k \in places : j = k
    BY <2>1 DEF RingInv, Distinct
  <2>4. Cardinality(places) <= 1
    <3> HIDE DEF places
    <3>1. CASE places = {}
      BY <3>1, FS_EmptySet
    <3>2. CASE places # {}
      <4>1. PICK k : k \in places
        BY <3>2
      <4>2. places = {k}
        BY <2>3, <4>1
      <4>3. Cardinality({k}) = 1
        BY FS_Singleton
      <4>4. QED
        BY <4>2, <4>3
    <3>3. QED
      BY <3>1, <3>2
  <2>5. /\ Holds(m_ndranges, n) => m_next_wgr[n] < m_total_size[n] \/ m_next_wgr[n] = 0
        /\ m_next_wgr[n] \in 1 .. m_total_size[n] - 1 => Holds(m_ndranges, n)
    BY <2>1 DEF RingInv
  <2> HIDE DEF places
  <2>6. places # {} /\ m_total_size[n] > 0 => m_next_wgr[n] < m_total_size[n]
    BY <2>2, <2>5
  <2>7. m_next_wgr[n] \in 1 .. m_total_size[n] - 1 => places # {}
    BY <2>2, <2>5
  <2>8. QED
    BY <2>4, <2>6, <2>7 DEF places
<1>2. Inv => WaitsIffMoreWork
  BY <1>1 DEF WaitsIffMoreWork
<1>3. QED
  BY <1>2, Invariance, PTL

\* A slice occupies its island for no longer than its quant and the time of the
\* work groups before it: its execution cost is made of where it ends.
THEOREM SliceTimeIsBounded == Spec => []OverrunIsStart
<1>1. ASSUME Inv, NEW i \in Island, NEW k \in 1 .. Len(m_in_queue[i])
      PROVE  execution_cost(m_in_queue[i][k], i)
                <= Limit(wg_cost[m_in_queue[i][k].parent][i])
                   + m_in_queue[i][k].start_x * wg_cost[m_in_queue[i][k].parent][i]
  <2>1. SchedTypes /\ SlicesFit
    BY <1>1, Given
  <2>2. PICK p : p = <<i, m_in_queue[i][k]>>
    OBVIOUS
  <2>3. p \in Out /\ p[1] = i /\ p[2] = m_in_queue[i][k]
    BY <2>1, <2>2, OutMembers
  <2>4. QED
    BY <2>1, <2>3 DEF SlicesFit, execution_cost
<1>2. Inv => OverrunIsStart
  BY <1>1 DEF OverrunIsStart, Limit
<1>3. QED
  BY <1>2, Invariance, PTL
===============================================================================
