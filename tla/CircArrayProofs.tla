---------------------------- MODULE CircArrayProofs ----------------------------
(***************************************************************************)
(* CircArray implements BoundedDeque, for every capacity and every type of  *)
(* values, if nobody indexes an empty array. First the arithmetic of the    *)
(* slots, then what each change of the storage does to the list of the      *)
(* elements, then the invariant and the refinement.                         *)
(***************************************************************************)
EXTENDS CircArray, SequencesExt, SequenceTheorems, TLAPS

-----------------------------------------------------------------------------
(* Slots. *)

\* A sum of two indexes wraps around at most once.
LEMMA Wrap ==
    ASSUME NEW cap \in Nat \ {0}, NEW a \in 0 .. 2 * cap - 1
    PROVE  a % cap = IF a < cap THEN a ELSE a - cap
OBVIOUS

\* The slot of element i of an array that starts at slot start.
At(start, i, cap) == (start + i) % cap

\* An index that runs past the last slot wraps once.
LEMMA AtIs ==
    ASSUME NEW cap \in Nat \ {0}, NEW start \in 0 .. cap - 1, NEW i \in 0 .. cap
    PROVE  At(start, i, cap) = IF start + i < cap THEN start + i ELSE start + i - cap
<1> DEFINE a == start + i
<1>1. a \in 0 .. 2 * cap - 1
  OBVIOUS
<1> HIDE DEF a
<1>2. a % cap = IF a < cap THEN a ELSE a - cap
  BY <1>1, Wrap
<1>3. QED
  BY <1>2 DEF At, a

\* Elements are in slots, and different ones in different slots.
LEMMA SlotsDiffer ==
    ASSUME NEW cap \in Nat \ {0}, NEW start \in 0 .. cap - 1
    PROVE  /\ \A i \in 0 .. cap : At(start, i, cap) \in 0 .. cap - 1
           /\ \A i, j \in 0 .. cap - 1 :
                 At(start, i, cap) = At(start, j, cap) => i = j
<1>1. \A i \in 0 .. cap : At(start, i, cap) \in 0 .. cap - 1
  BY AtIs
<1>2. ASSUME NEW i \in 0 .. cap - 1, NEW j \in 0 .. cap - 1,
             At(start, i, cap) = At(start, j, cap)
      PROVE  i = j
  <2>1. /\ At(start, i, cap) = IF start + i < cap THEN start + i ELSE start + i - cap
        /\ At(start, j, cap) = IF start + j < cap THEN start + j ELSE start + j - cap
    BY AtIs
  <2> DEFINE x == At(start, i, cap)
             y == At(start, j, cap)
  <2>2. x = y
    BY <1>2
  <2>3. /\ x = IF start + i < cap THEN start + i ELSE start + i - cap
        /\ y = IF start + j < cap THEN start + j ELSE start + j - cap
    BY <2>1
  <2> HIDE DEF x, y
  <2>4. /\ cap \in Nat /\ start \in Nat /\ start < cap
        /\ i \in Nat /\ i < cap /\ j \in Nat /\ j < cap
    OBVIOUS
  <2>5. CASE start + i < cap
    <3>1. x = start + i
      BY <2>3, <2>5
    <3>2. CASE start + j < cap
      <4>1. y = start + j
        BY <2>3, <3>2
      <4>2. start + i = start + j
        BY <2>2, <3>1, <4>1
      <4>3. QED
        BY <2>4, <4>2
    <3>3. CASE ~(start + j < cap)
      <4>1. y = start + j - cap
        BY <2>3, <3>3
      <4>2. start + i = start + j - cap
        BY <2>2, <3>1, <4>1
      <4>3. QED
        BY <2>4, <4>2
    <3>4. QED
      BY <3>2, <3>3
  <2>6. CASE ~(start + i < cap)
    <3>1. x = start + i - cap
      BY <2>3, <2>6
    <3>2. CASE start + j < cap
      <4>1. y = start + j
        BY <2>3, <3>2
      <4>2. start + j = start + i - cap
        BY <2>2, <3>1, <4>1
      <4>3. QED
        BY <2>4, <4>2
    <3>3. CASE ~(start + j < cap)
      <4>1. y = start + j - cap
        BY <2>3, <3>3
      <4>2. start + i - cap = start + j - cap
        BY <2>2, <3>1, <4>1
      <4>3. QED
        BY <2>4, <4>2
    <3>4. QED
      BY <3>2, <3>3
  <2>7. QED
    BY <2>5, <2>6
<1>3. QED
  BY <1>1, <1>2

\* The slot behind that of element i is that of element i + 1, also counted from
\* the next start.
LEMMA NextSlot ==
    ASSUME NEW cap \in Nat \ {0}, NEW start \in 0 .. cap - 1, NEW i \in 0 .. cap - 1
    PROVE  /\ (At(start, i, cap) + 1) % cap = At(start, i + 1, cap)
           /\ (start + 1) % cap \in 0 .. cap - 1
           /\ At((start + 1) % cap, i, cap) = At(start, i + 1, cap)
<1>1. /\ At(start, i, cap) = IF start + i < cap THEN start + i ELSE start + i - cap
      /\ At(start, i + 1, cap) = IF start + (i + 1) < cap THEN start + (i + 1)
                                                          ELSE start + (i + 1) - cap
      /\ (start + 1) % cap = IF start + 1 < cap THEN start + 1 ELSE start + 1 - cap
  <2>1. At(start, i, cap) = IF start + i < cap THEN start + i ELSE start + i - cap
    BY AtIs
  <2>2. At(start, i + 1, cap) = IF start + (i + 1) < cap THEN start + (i + 1)
                                                         ELSE start + (i + 1) - cap
    <3>1. i + 1 \in 0 .. cap
      OBVIOUS
    <3>2. QED
      BY <3>1, AtIs
  <2>3. (start + 1) % cap = IF start + 1 < cap THEN start + 1 ELSE start + 1 - cap
    <3> DEFINE a == start + 1
    <3>1. a \in 0 .. 2 * cap - 1
      OBVIOUS
    <3> HIDE DEF a
    <3>2. a % cap = IF a < cap THEN a ELSE a - cap
      BY <3>1, Wrap
    <3>3. QED
      BY <3>2 DEF a
  <2>4. QED
    BY <2>1, <2>2, <2>3
<1>2. At(start, i, cap) \in 0 .. cap - 1 /\ At(start, i, cap) + 1 \in 0 .. 2 * cap - 1
  BY <1>1
<1>3. (At(start, i, cap) + 1) % cap
         = IF At(start, i, cap) + 1 < cap THEN At(start, i, cap) + 1
                                          ELSE At(start, i, cap) + 1 - cap
  BY <1>2, Wrap
<1>4. (start + 1) % cap \in 0 .. cap - 1
  BY <1>1
<1>5. At((start + 1) % cap, i, cap)
         = IF ((start + 1) % cap) + i < cap THEN ((start + 1) % cap) + i
                                          ELSE ((start + 1) % cap) + i - cap
  BY <1>4, AtIs
<1> DEFINE a == At(start, i, cap)
           b == At(start, i + 1, cap)
           s == (start + 1) % cap
<1> HIDE DEF a, b, s
<1>6. (a + 1) % cap = b
  BY <1>1, <1>3 DEF a, b
<1>7. At(s, i, cap) = b
  BY <1>1, <1>5 DEF b, s
<1>8. QED
  BY <1>4, <1>6, <1>7 DEF a, b, s

\* The start that push_front steps back to.
Previous(start, cap) == IF start = 0 THEN cap - 1 ELSE start - 1

\* From the slot before the start every index is one further on.
LEMMA PreviousSlot ==
    ASSUME NEW cap \in Nat \ {0}, NEW start \in 0 .. cap - 1
    PROVE  /\ Previous(start, cap) \in 0 .. cap - 1
           /\ At(Previous(start, cap), 0, cap) = Previous(start, cap)
           /\ \A i \in 1 .. cap :
                 At(Previous(start, cap), i, cap) = At(start, i - 1, cap)
<1> DEFINE p == Previous(start, cap)
<1>1. p \in 0 .. cap - 1 /\ p = IF start = 0 THEN cap - 1 ELSE start - 1
  BY DEF Previous
<1> HIDE DEF p
<1>2. At(p, 0, cap) = p
  BY <1>1, AtIs
<1>3. ASSUME NEW i \in 1 .. cap PROVE At(p, i, cap) = At(start, i - 1, cap)
  <2>1. i \in 0 .. cap /\ i - 1 \in 0 .. cap
    OBVIOUS
  <2>2. /\ At(p, i, cap) = IF p + i < cap THEN p + i ELSE p + i - cap
        /\ At(start, i - 1, cap) = IF start + (i - 1) < cap THEN start + (i - 1)
                                                          ELSE start + (i - 1) - cap
    BY <1>1, <2>1, AtIs
  <2>3. QED
    BY <1>1, <2>2
<1>4. QED
  BY <1>1, <1>2, <1>3 DEF p

-----------------------------------------------------------------------------
(* The storage and the list of its elements. *)

\* The elements of an array, front first.
List(arr, start, size, cap) == [i \in 1 .. size |-> arr[At(start, i - 1, cap)]]

\* An array all of whose elements are in slots and were written.
Ring(arr, start, size, cap) ==
    /\ cap \in Nat
    /\ arr \in [0 .. cap - 1 -> Value \cup {Junk}]
    /\ start \in Nat /\ (start = 0 \/ start < cap)
    /\ size \in 0 .. cap
    /\ \A i \in 0 .. size - 1 : arr[At(start, i, cap)] \in Value

\* What an array in order holds is a sequence of values, slot by slot.
LEMMA ListOfRing ==
    ASSUME NEW a, NEW s, NEW n, NEW c, Ring(a, s, n, c)
    PROVE  /\ n \in Nat /\ c \in Nat /\ n <= c
           /\ n > 0 => c \in Nat \ {0} /\ s \in 0 .. c - 1
           /\ List(a, s, n, c) \in Seq(Value)
           /\ Len(List(a, s, n, c)) = n
           /\ \A i \in 1 .. n : /\ List(a, s, n, c)[i] = a[At(s, i - 1, c)]
                                /\ a[At(s, i - 1, c)] \in Value
<1>1. n \in Nat /\ c \in Nat /\ n <= c /\ (n > 0 => c \in Nat \ {0} /\ s \in 0 .. c - 1)
  BY DEF Ring
<1>2. \A i \in 1 .. n : a[At(s, i - 1, c)] \in Value
  <2>1. \A i \in 1 .. n : i - 1 \in 0 .. n - 1
    BY <1>1
  <2>2. QED
    BY <2>1 DEF Ring
<1>3. List(a, s, n, c) \in [1 .. n -> Value]
  BY <1>2 DEF List
<1>4. List(a, s, n, c) \in Seq(Value) /\ Len(List(a, s, n, c)) = n
  <2>1. List(a, s, n, c) \in Seq(Value)
    BY <1>1, <1>3, SeqDef
  <2>2. QED
    BY <1>1, <1>3, <2>1, LenProperties
<1>5. QED
  BY <1>1, <1>2, <1>4 DEF List

\* A sequence names the elements of an array one by one.
Lists(t, a, s, n, c) == /\ t \in Seq(Value)
                        /\ Len(t) = n
                        /\ \A i \in 1 .. n : a[At(s, i - 1, c)] = t[i]

\* A sequence that names the elements one by one is the list of them.
LEMMA ListsEqual ==
    ASSUME NEW a, NEW s, NEW n, NEW c, Ring(a, s, n, c),
           NEW t, Lists(t, a, s, n, c)
    PROVE  List(a, s, n, c) = t
<1>1. /\ List(a, s, n, c) \in Seq(Value) /\ Len(List(a, s, n, c)) = n
      /\ \A i \in 1 .. n : List(a, s, n, c)[i] = a[At(s, i - 1, c)]
  BY ListOfRing
<1>2. QED
  BY <1>1, SeqEqual DEF Lists

\* Writing a value behind the last element.
HasBack(b, a, s, n, c, v) == /\ Ring(b, s, n + 1, c)
                             /\ List(b, s, n + 1, c) = Append(List(a, s, n, c), v)

\* push_back writes the slot behind the last element; the others keep theirs.
LEMMA StoredBack ==
    ASSUME NEW a, NEW s, NEW n, NEW c, Ring(a, s, n, c), n < c,
           NEW v \in Value, NEW b, b = [a EXCEPT ![At(s, n, c)] = v]
    PROVE  HasBack(b, a, s, n, c, v)
<1>1. n \in Nat /\ c \in Nat \ {0} /\ s \in 0 .. c - 1
  BY DEF Ring
<1>2. /\ \A i \in 0 .. n : At(s, i, c) \in 0 .. c - 1
      /\ \A i \in 0 .. n - 1 : At(s, i, c) # At(s, n, c)
  <2>1. n \in 0 .. c - 1 /\ (\A i \in 0 .. n : i \in 0 .. c /\ i \in 0 .. c - 1)
    BY <1>1
  <2>2. \A i \in 0 .. n - 1 : i \in 0 .. c - 1 /\ i # n
    BY <1>1
  <2>3. QED
    BY <1>1, <2>1, <2>2, SlotsDiffer
<1>3. a \in [0 .. c - 1 -> Value \cup {Junk}]
  BY DEF Ring
<1>4. /\ b \in [0 .. c - 1 -> Value \cup {Junk}]
      /\ b[At(s, n, c)] = v
      /\ \A i \in 0 .. n - 1 : b[At(s, i, c)] = a[At(s, i, c)]
  <2>1. At(s, n, c) \in 0 .. c - 1
    BY <1>1, <1>2
  <2>2. \A i \in 0 .. n - 1 : At(s, i, c) \in 0 .. c - 1
    BY <1>1, <1>2
  <2>3. QED
    BY <1>2, <1>3, <2>1, <2>2
<1>5. Ring(b, s, n + 1, c)
  <2>1. \A i \in 0 .. (n + 1) - 1 : i = n \/ i \in 0 .. n - 1
    BY <1>1
  <2>2. \A i \in 0 .. (n + 1) - 1 : b[At(s, i, c)] \in Value
    BY <1>4, <2>1 DEF Ring
  <2>3. n + 1 \in 0 .. c /\ s \in Nat
    BY <1>1
  <2>4. QED
    BY <1>1, <1>4, <2>2, <2>3 DEF Ring
<1> DEFINE l == List(a, s, n, c)
           t == Append(l, v)
<1>6. /\ l \in Seq(Value) /\ Len(l) = n
      /\ \A i \in 1 .. n : l[i] = a[At(s, i - 1, c)]
  BY ListOfRing
<1> HIDE DEF l
<1>7. /\ t \in Seq(Value) /\ Len(t) = n + 1
      /\ \A i \in 1 .. n : t[i] = l[i]
      /\ t[n + 1] = v
  BY <1>1, <1>6, AppendProperties
<1> HIDE DEF t
<1>8. ASSUME NEW i \in 1 .. n + 1 PROVE b[At(s, i - 1, c)] = t[i]
  <2>1. CASE i = n + 1
    <3>1. i - 1 = n
      BY <1>1, <2>1
    <3>2. QED
      BY <1>4, <1>7, <2>1, <3>1
  <2>2. CASE i # n + 1
    <3>1. i \in 1 .. n /\ i - 1 \in 0 .. n - 1
      BY <1>1, <2>2
    <3>2. QED
      BY <1>4, <1>6, <1>7, <3>1
  <2>3. QED
    BY <2>1, <2>2
<1>9. List(b, s, n + 1, c) = t
  <2> DEFINE m == n + 1
  <2>1. Ring(b, s, m, c) /\ Lists(t, b, s, m, c)
    BY <1>5, <1>7, <1>8 DEF Lists
  <2> HIDE DEF m
  <2>2. List(b, s, m, c) = t
    BY <2>1, ListsEqual
  <2>3. QED
    BY <2>2 DEF m
<1>10. QED
  BY <1>5, <1>9 DEF t, l, HasBack

\* Leaving out the first element: the array starts one slot further on.
LEMMA DroppedFront ==
    ASSUME NEW a, NEW s, NEW n, NEW c, Ring(a, s, n, c), n > 0
    PROVE  /\ Ring(a, (s + 1) % c, n - 1, c)
           /\ List(a, (s + 1) % c, n - 1, c) = Tail(List(a, s, n, c))
<1>1. n \in Nat \ {0} /\ c \in Nat \ {0} /\ s \in 0 .. c - 1 /\ n <= c
  BY DEF Ring
<1> DEFINE r == (s + 1) % c
<1>2. r \in 0 .. c - 1 /\ (\A i \in 0 .. n - 1 : At(r, i, c) = At(s, i + 1, c))
  <2>1. \A i \in 0 .. n - 1 : i \in 0 .. c - 1
    BY <1>1
  <2>2. 0 \in 0 .. c - 1
    BY <1>1
  <2>3. QED
    BY <1>1, <2>1, <2>2, NextSlot
<1> HIDE DEF r
<1>3. Ring(a, r, n - 1, c)
  <2>1. \A i \in 0 .. (n - 1) - 1 : i \in 0 .. n - 1 /\ i + 1 \in 0 .. n - 1
    BY <1>1
  <2>2. \A i \in 0 .. (n - 1) - 1 : a[At(r, i, c)] \in Value
    BY <1>2, <2>1 DEF Ring
  <2>3. n - 1 \in 0 .. c /\ r \in Nat /\ r < c
    BY <1>1, <1>2
  <2>4. QED
    BY <1>1, <2>2, <2>3 DEF Ring
<1> DEFINE l == List(a, s, n, c)
           t == Tail(l)
<1>4. /\ l \in Seq(Value) /\ Len(l) = n
      /\ \A i \in 1 .. n : l[i] = a[At(s, i - 1, c)]
  BY ListOfRing
<1> HIDE DEF l
<1>5. /\ t \in Seq(Value) /\ Len(t) = n - 1
      /\ \A i \in 1 .. n - 1 : t[i] = l[i + 1]
  <2>1. l # <<>>
    BY <1>1, <1>4
  <2>2. QED
    BY <1>1, <1>4, <2>1, HeadTailProperties
<1> HIDE DEF t
<1>6. ASSUME NEW i \in 1 .. n - 1 PROVE a[At(r, i - 1, c)] = t[i]
  <2>1. i - 1 \in 0 .. n - 1 /\ i + 1 \in 1 .. n /\ (i - 1) + 1 = i /\ (i + 1) - 1 = i
    BY <1>1
  <2>2. At(r, i - 1, c) = At(s, i, c)
    BY <1>2, <2>1
  <2>3. l[i + 1] = a[At(s, i, c)]
    BY <1>4, <2>1
  <2>4. QED
    BY <1>5, <2>2, <2>3
<1>7. List(a, r, n - 1, c) = t
  <2>1. Lists(t, a, r, n - 1, c)
    BY <1>5, <1>6 DEF Lists
  <2>2. QED
    BY <1>3, <2>1, ListsEqual
<1>8. QED
  BY <1>3, <1>7 DEF r, t, l

\* Leaving out the last element.
LEMMA DroppedBack ==
    ASSUME NEW a, NEW s, NEW n, NEW c, Ring(a, s, n, c), n > 0
    PROVE  /\ Ring(a, s, n - 1, c)
           /\ List(a, s, n - 1, c) = Front(List(a, s, n, c))
<1>1. n \in Nat \ {0} /\ c \in Nat /\ n <= c
  BY DEF Ring
<1>2. Ring(a, s, n - 1, c)
  <2>1. \A i \in 0 .. (n - 1) - 1 : i \in 0 .. n - 1
    BY <1>1
  <2>2. n - 1 \in 0 .. c
    BY <1>1
  <2>3. QED
    BY <2>1, <2>2 DEF Ring
<1> DEFINE l == List(a, s, n, c)
           t == Front(l)
<1>3. /\ l \in Seq(Value) /\ Len(l) = n
      /\ \A i \in 1 .. n : l[i] = a[At(s, i - 1, c)]
  BY ListOfRing
<1> HIDE DEF l
<1>4. /\ t \in Seq(Value) /\ Len(t) = n - 1
      /\ \A i \in 1 .. n - 1 : t[i] = l[i]
  <2>1. t = SubSeq(l, 1, n - 1)
    BY <1>3 DEF Front
  <2>2. \A i \in 1 .. n - 1 : l[i] \in Value
    <3>1. \A i \in 1 .. n - 1 : i \in 1 .. Len(l)
      BY <1>1, <1>3
    <3>2. QED
      BY <1>3, <3>1, ElementOfSeq
  <2> HIDE DEF t
  <2>3. QED
    BY <1>1, <1>3, <2>1, <2>2, SubSeqProperties
<1> HIDE DEF t
<1>5. ASSUME NEW i \in 1 .. n - 1 PROVE a[At(s, i - 1, c)] = t[i]
  <2>1. i \in 1 .. n
    BY <1>1
  <2>2. QED
    BY <1>3, <1>4, <2>1
<1>6. List(a, s, n - 1, c) = t
  <2>1. Lists(t, a, s, n - 1, c)
    BY <1>4, <1>5 DEF Lists
  <2>2. QED
    BY <1>2, <2>1, ListsEqual
<1>7. QED
  BY <1>2, <1>6 DEF t, l

\* Writing a value before the first element.
HasFront(b, p, a, s, n, c, v) ==
    /\ Ring(b, p, n + 1, c)
    /\ List(b, p, n + 1, c) = <<v>> \o List(a, s, n, c)

\* push_front writes the slot before the first element and starts there.
LEMMA StoredFront ==
    ASSUME NEW a, NEW s, NEW n, NEW c, Ring(a, s, n, c), n < c,
           NEW v \in Value, NEW p, p = Previous(s, c),
           NEW b, b = [a EXCEPT ![p] = v]
    PROVE  HasFront(b, p, a, s, n, c, v)
<1>1. n \in Nat /\ c \in Nat \ {0} /\ s \in 0 .. c - 1
  BY DEF Ring
<1>2. /\ p \in 0 .. c - 1 /\ At(p, 0, c) = p
      /\ \A i \in 1 .. c : At(p, i, c) = At(s, i - 1, c)
  BY <1>1, PreviousSlot
<1>3. \A i \in 1 .. n : At(p, i, c) \in 0 .. c - 1 /\ At(p, i, c) # p
  <2>1. \A i \in 1 .. n : i \in 0 .. c /\ i \in 0 .. c - 1 /\ i # 0
    BY <1>1
  <2>2. 0 \in 0 .. c - 1
    BY <1>1
  <2>3. /\ \A i \in 0 .. c : At(p, i, c) \in 0 .. c - 1
        /\ \A i, j \in 0 .. c - 1 : At(p, i, c) = At(p, j, c) => i = j
    BY <1>1, <1>2, SlotsDiffer
  <2>4. \A i \in 0 .. c - 1 : At(p, i, c) = p => i = 0
    BY <1>2, <2>2, <2>3
  <2>5. QED
    BY <2>1, <2>3, <2>4
<1>4. a \in [0 .. c - 1 -> Value \cup {Junk}]
  BY DEF Ring
<1>5. /\ b \in [0 .. c - 1 -> Value \cup {Junk}]
      /\ b[At(p, 0, c)] = v
      /\ \A i \in 1 .. n : b[At(p, i, c)] = a[At(s, i - 1, c)]
  <2>1. \A i \in 1 .. n : i \in 1 .. c
    BY <1>1
  <2>2. \A i \in 1 .. n : b[At(p, i, c)] = a[At(p, i, c)]
    BY <1>3, <1>4
  <2>3. QED
    BY <1>2, <1>4, <2>1, <2>2
<1> DEFINE m == n + 1
<1>6. m \in 1 .. c /\ m - 1 = n
  BY <1>1
<1> HIDE DEF m
<1>7. Ring(b, p, m, c)
  <2>1. ASSUME NEW i \in 0 .. m - 1 PROVE b[At(p, i, c)] \in Value
    <3>1. CASE i = 0
      BY <1>5, <3>1
    <3>2. CASE i # 0
      <4>1. i \in 1 .. n /\ i - 1 \in 0 .. n - 1
        BY <1>1, <1>6, <3>2
      <4>2. QED
        BY <1>5, <4>1 DEF Ring
    <3>3. QED
      BY <3>1, <3>2
  <2>2. m \in 0 .. c /\ p \in Nat /\ p < c
    BY <1>1, <1>2, <1>6
  <2>3. QED
    BY <1>1, <1>5, <2>1, <2>2 DEF Ring
<1> DEFINE l == List(a, s, n, c)
           t == <<v>> \o l
<1>8. /\ l \in Seq(Value) /\ Len(l) = n
      /\ \A i \in 1 .. n : l[i] = a[At(s, i - 1, c)]
  BY ListOfRing
<1> HIDE DEF l
<1>9. /\ t \in Seq(Value) /\ Len(t) = m /\ t[1] = v
      /\ \A i \in 2 .. m : t[i] = l[i - 1]
  <2> DEFINE u == <<v>>
  <2>1. u \in Seq(Value) /\ Len(u) = 1 /\ u[1] = v
    OBVIOUS
  <2> HIDE DEF u
  <2>2. /\ u \o l \in Seq(Value) /\ Len(u \o l) = 1 + n
        /\ \A i \in 1 .. 1 + n : (u \o l)[i] = IF i <= 1 THEN u[i] ELSE l[i - 1]
    <3>1. /\ u \o l \in Seq(Value) /\ Len(u \o l) = Len(u) + Len(l)
          /\ \A i \in 1 .. Len(u) + Len(l) :
                (u \o l)[i] = IF i <= Len(u) THEN u[i] ELSE l[i - Len(u)]
      BY <1>8, <2>1, ConcatProperties
    <3>2. QED
      BY <1>8, <2>1, <3>1
  <2>3. /\ u \o l \in Seq(Value) /\ Len(u \o l) = m /\ (u \o l)[1] = v
        /\ \A i \in 2 .. m : (u \o l)[i] = l[i - 1]
    BY <1>1, <1>6, <2>1, <2>2
  <2>4. QED
    BY <2>3 DEF u
<1> HIDE DEF t
<1>10. ASSUME NEW i \in 1 .. m PROVE b[At(p, i - 1, c)] = t[i]
  <2>1. CASE i = 1
    BY <1>5, <1>9, <2>1
  <2>2. CASE i # 1
    <3> DEFINE j == i - 1
    <3>1. i \in 2 .. m /\ j \in 1 .. n
      BY <1>1, <1>6, <2>2
    <3>2. t[i] = l[j]
      BY <1>9, <3>1
    <3> HIDE DEF j
    <3>3. b[At(p, j, c)] = l[j]
      BY <1>5, <1>8, <3>1
    <3>4. QED
      BY <3>2, <3>3 DEF j
  <2>3. QED
    BY <2>1, <2>2
<1>11. List(b, p, m, c) = t
  <2>1. Lists(t, b, p, m, c)
    BY <1>9, <1>10 DEF Lists
  <2>2. QED
    BY <1>7, <2>1, ListsEqual
<1>12. QED
  BY <1>7, <1>11 DEF t, l, m, HasFront

\* Moving every element behind the one at index k one slot towards it.
LacksItem(b, a, s, n, c, k) ==
    /\ Ring(b, s, n - 1, c)
    /\ List(b, s, n - 1, c) = RemoveAt(List(a, s, n, c), k + 1)

\* pop_at closes the gap that the element at index k leaves.
LEMMA TakenOut ==
    ASSUME NEW a, NEW s, NEW n, NEW c, Ring(a, s, n, c), NEW k \in 0 .. n - 1,
           NEW b,
           b = [x \in DOMAIN a |->
                   IF \E i \in k .. n - 2 : x = At(s, i, c)
                   THEN a[(x + 1) % c] ELSE a[x]]
    PROVE  LacksItem(b, a, s, n, c, k)
<1>1. n \in Nat \ {0} /\ c \in Nat \ {0} /\ s \in 0 .. c - 1 /\ n <= c
  BY DEF Ring
<1>2. a \in [0 .. c - 1 -> Value \cup {Junk}]
  BY DEF Ring
<1>3. \A x \in 0 .. c - 1 : (x + 1) % c \in 0 .. c - 1
  BY <1>1, NextSlot
<1>4. b \in [0 .. c - 1 -> Value \cup {Junk}]
  BY <1>2, <1>3
<1>5. ASSUME NEW i \in 0 .. n - 2
      PROVE  b[At(s, i, c)] = IF i < k THEN a[At(s, i, c)] ELSE a[At(s, i + 1, c)]
  <2>1. i \in 0 .. c - 1 /\ (\A j \in k .. n - 2 : j \in 0 .. c - 1)
    BY <1>1
  <2>2. At(s, i, c) \in 0 .. c - 1 /\ (At(s, i, c) + 1) % c = At(s, i + 1, c)
    <3>1. i \in 0 .. c
      BY <1>1, <2>1
    <3>2. At(s, i, c) \in 0 .. c - 1
      BY <1>1, <3>1, SlotsDiffer
    <3>3. (At(s, i, c) + 1) % c = At(s, i + 1, c)
      BY <1>1, <2>1, NextSlot
    <3>4. QED
      BY <3>2, <3>3
  <2>3. b[At(s, i, c)] = IF \E j \in k .. n - 2 : At(s, i, c) = At(s, j, c)
                         THEN a[At(s, i + 1, c)] ELSE a[At(s, i, c)]
    BY <1>2, <2>2
  <2>4. CASE i < k
    <3>1. \A j \in k .. n - 2 : j # i
      BY <2>4
    <3>2. ~ \E j \in k .. n - 2 : At(s, i, c) = At(s, j, c)
      BY <1>1, <2>1, <3>1, SlotsDiffer
    <3>3. QED
      BY <2>3, <2>4, <3>2
  <2>5. CASE ~(i < k)
    <3>1. i \in k .. n - 2
      BY <1>1, <2>5
    <3>2. QED
      BY <2>3, <2>5, <3>1
  <2>6. QED
    BY <2>4, <2>5
<1>6. Ring(b, s, n - 1, c)
  <2>1. \A i \in 0 .. (n - 1) - 1 : i \in 0 .. n - 2 /\ i \in 0 .. n - 1 /\ i + 1 \in 0 .. n - 1
    BY <1>1
  <2>2. \A i \in 0 .. (n - 1) - 1 : b[At(s, i, c)] \in Value
    BY <1>5, <2>1 DEF Ring
  <2>3. n - 1 \in 0 .. c /\ s \in Nat /\ s < c
    BY <1>1
  <2>4. QED
    BY <1>1, <1>4, <2>2, <2>3 DEF Ring
<1> DEFINE l == List(a, s, n, c)
           t == RemoveAt(l, k + 1)
<1>7. /\ l \in Seq(Value) /\ Len(l) = n
      /\ \A i \in 1 .. n : l[i] = a[At(s, i - 1, c)]
  BY ListOfRing
<1> HIDE DEF l
<1>8. /\ t \in Seq(Value) /\ Len(t) = n - 1
      /\ \A i \in 1 .. n - 1 : t[i] = IF i <= k THEN l[i] ELSE l[i + 1]
  <2>1. \A i \in 1 .. n : l[i] \in Value
    BY <1>7, ElementOfSeq
  <2> DEFINE u == SubSeq(l, 1, k)
             w == SubSeq(l, k + 2, n)
  <2>2. /\ u \in Seq(Value) /\ Len(u) = k
        /\ \A i \in 1 .. k : u[i] = l[i]
    <3>1. \A i \in 1 .. k : l[i] \in Value
      BY <1>1, <2>1
    <3>2. QED
      BY <1>1, <3>1, SubSeqProperties
  <2>3. /\ w \in Seq(Value) /\ Len(w) = n - k - 1
        /\ \A i \in 1 .. n - k - 1 : w[i] = l[k + 1 + i]
    <3>1. \A i \in k + 2 .. n : l[i] \in Value
      BY <1>1, <2>1
    <3>2. k + 2 \in Int /\ n \in Int
      BY <1>1
    <3>3. /\ w \in Seq(Value)
          /\ Len(w) = IF k + 2 <= n THEN n - (k + 2) + 1 ELSE 0
          /\ \A i \in 1 .. n - (k + 2) + 1 : w[i] = l[(k + 2) + i - 1]
      BY <3>1, <3>2, SubSeqProperties
    <3> HIDE DEF w
    <3>4. Len(w) = n - k - 1
      BY <1>1, <3>3
    <3>5. ASSUME NEW i \in 1 .. n - k - 1 PROVE w[i] = l[k + 1 + i]
      <4>1. i \in 1 .. n - (k + 2) + 1 /\ (k + 2) + i - 1 = k + 1 + i
        BY <1>1
      <4>2. QED
        BY <3>3, <4>1
    <3>6. QED
      BY <3>3, <3>4, <3>5
  <2>4. t = u \o w
    BY <1>7 DEF RemoveAt
  <2> HIDE DEF u, w, t
  <2>5. /\ t \in Seq(Value) /\ Len(t) = Len(u) + Len(w)
        /\ \A i \in 1 .. Len(u) + Len(w) : t[i] = IF i <= Len(u) THEN u[i]
                                                  ELSE w[i - Len(u)]
    BY <2>2, <2>3, <2>4, ConcatProperties
  <2>6. /\ Len(t) = n - 1
        /\ \A i \in 1 .. n - 1 : t[i] = IF i <= k THEN u[i] ELSE w[i - k]
    BY <1>1, <2>2, <2>3, <2>5
  <2>7. ASSUME NEW i \in 1 .. n - 1 PROVE t[i] = IF i <= k THEN l[i] ELSE l[i + 1]
    <3>1. CASE i <= k
      BY <2>2, <2>6, <3>1
    <3>2. CASE ~(i <= k)
      <4>1. i - k \in 1 .. n - k - 1 /\ k + 1 + (i - k) = i + 1
        BY <1>1, <3>2
      <4>2. t[i] = w[i - k]
        BY <2>6, <3>2
      <4>3. w[i - k] = l[i + 1]
        BY <2>3, <4>1
      <4>4. QED
        BY <3>2, <4>2, <4>3
    <3>3. QED
      BY <3>1, <3>2
  <2>8. QED
    BY <2>5, <2>6, <2>7
<1> HIDE DEF t
<1>9. ASSUME NEW i \in 1 .. n - 1 PROVE b[At(s, i - 1, c)] = t[i]
  <2>1. /\ i - 1 \in 0 .. n - 2 /\ i \in 1 .. n /\ i + 1 \in 1 .. n
        /\ (i - 1) + 1 = i /\ (i + 1) - 1 = i /\ (i - 1 < k <=> i <= k)
    BY <1>1
  <2>2. b[At(s, i - 1, c)] = IF i <= k THEN a[At(s, i - 1, c)] ELSE a[At(s, i, c)]
    BY <1>5, <2>1
  <2>3. l[i] = a[At(s, i - 1, c)] /\ l[i + 1] = a[At(s, i, c)]
    BY <1>7, <2>1
  <2>4. QED
    BY <1>8, <2>2, <2>3
<1>10. List(b, s, n - 1, c) = t
  <2>1. Lists(t, b, s, n - 1, c)
    BY <1>8, <1>9 DEF Lists
  <2>2. QED
    BY <1>6, <2>1, ListsEqual
<1>11. QED
  BY <1>6, <1>10 DEF t, l, LacksItem

\* Copying the elements to the same slots of a new array.
LEMMA Copied ==
    ASSUME NEW a, NEW s, NEW n, NEW c, Ring(a, s, n, c), NEW b,
           b = [x \in DOMAIN a |-> IF \E i \in 0 .. n - 1 : x = At(s, i, c)
                                   THEN a[x] ELSE Junk]
    PROVE  Ring(b, s, n, c) /\ List(b, s, n, c) = List(a, s, n, c)
<1>1. n \in Nat /\ c \in Nat /\ n <= c /\ (n > 0 => c \in Nat \ {0} /\ s \in 0 .. c - 1)
  BY DEF Ring
<1>2. a \in [0 .. c - 1 -> Value \cup {Junk}]
  BY DEF Ring
<1>3. b \in [0 .. c - 1 -> Value \cup {Junk}]
  BY <1>2
<1>4. ASSUME NEW i \in 0 .. n - 1 PROVE b[At(s, i, c)] = a[At(s, i, c)]
  <2>1. c \in Nat \ {0} /\ s \in 0 .. c - 1 /\ i \in 0 .. c
    BY <1>1
  <2>2. At(s, i, c) \in 0 .. c - 1
    BY <2>1, SlotsDiffer
  <2>3. QED
    BY <1>2, <2>2
<1>5. Ring(b, s, n, c)
  BY <1>3, <1>4 DEF Ring
<1>6. List(b, s, n, c) = List(a, s, n, c)
  <2>1. \A i \in 1 .. n : i - 1 \in 0 .. n - 1
    BY <1>1
  <2>2. \A i \in 1 .. n : b[At(s, i - 1, c)] = a[At(s, i - 1, c)]
    BY <1>4, <2>1
  <2>3. QED
    BY <2>2 DEF List
<1>7. QED
  BY <1>5, <1>6

\* Moving the elements to the first slots of an array twice as long.
LEMMA Resized ==
    ASSUME NEW a, NEW s, NEW n, NEW c, Ring(a, s, n, c), NEW b,
           b = [x \in 0 .. 2 * c - 1 |-> IF x < n THEN a[At(s, x, c)] ELSE Junk]
    PROVE  Ring(b, 0, n, 2 * c) /\ List(b, 0, n, 2 * c) = List(a, s, n, c)
<1>1. n \in Nat /\ c \in Nat /\ n <= c /\ (n > 0 => c \in Nat \ {0})
  BY DEF Ring
<1>2. \A i \in 0 .. n - 1 : a[At(s, i, c)] \in Value
  BY DEF Ring
<1>3. b \in [0 .. 2 * c - 1 -> Value \cup {Junk}]
  <2>1. \A x \in 0 .. 2 * c - 1 : x < n => x \in 0 .. n - 1
    BY <1>1
  <2>2. QED
    BY <1>2, <2>1
<1> DEFINE d == 2 * c
<1>4. d \in Nat /\ n <= d /\ (n > 0 => d \in Nat \ {0})
  BY <1>1
<1>5. ASSUME NEW i \in 0 .. n - 1 PROVE b[At(0, i, d)] = a[At(s, i, c)]
  <2>1. i \in 0 .. d - 1 /\ i < n
    BY <1>1, <1>4
  <2>2. At(0, i, d) = i
    <3>1. d \in Nat \ {0} /\ i \in 0 .. d /\ 0 \in 0 .. d - 1 /\ i < d
      BY <1>4, <2>1
    <3> HIDE DEF d
    <3>2. At(0, i, d) = IF 0 + i < d THEN 0 + i ELSE 0 + i - d
      BY <3>1, AtIs
    <3>3. QED
      BY <3>1, <3>2
  <2>3. b[i] = a[At(s, i, c)]
    BY <2>1
  <2>4. QED
    BY <2>2, <2>3
<1>6. Ring(b, 0, n, d)
  <2>1. b \in [0 .. d - 1 -> Value \cup {Junk}]
    BY <1>3
  <2> HIDE DEF d
  <2>2. \A i \in 0 .. n - 1 : b[At(0, i, d)] \in Value
    BY <1>2, <1>5
  <2>3. n \in 0 .. d
    BY <1>1, <1>4
  <2>4. QED
    BY <1>4, <2>1, <2>2, <2>3 DEF Ring
<1>7. List(b, 0, n, d) = List(a, s, n, c)
  <2> HIDE DEF d
  <2>1. \A i \in 1 .. n : i - 1 \in 0 .. n - 1
    BY <1>1
  <2>2. \A i \in 1 .. n : b[At(0, i - 1, d)] = a[At(s, i - 1, c)]
    BY <1>5, <2>1
  <2>3. QED
    BY <2>2 DEF List
<1>8. QED
  BY <1>6, <1>7

-----------------------------------------------------------------------------
(* The steps of CircArray. *)

\* ContentsInitialised in the words of the lemmas. It is inductive: that the
\* elements lie in written slots is all the operations rely on.
Inv == /\ Ring(_array, _start, _size, _capacity)
       /\ _capacity <= MaxCapacity
       /\ answer \in Answers

\* The invariant is the property the run checks.
LEMMA InvIsContentsInitialised == Inv <=> ContentsInitialised
<1>1. \A i \in Nat : Slot(i) = At(_start, i, _capacity)
  BY DEF Slot, At
<1>2. _size \in Nat => \A i \in 0 .. _size - 1 : i \in Nat
  OBVIOUS
<1>3. _capacity \in Nat /\ _capacity <= MaxCapacity <=> _capacity \in 0 .. MaxCapacity
  BY CapacitiesAreNat
<1>4. QED
  BY <1>1, <1>2, <1>3 DEF Inv, ContentsInitialised, ArrayTypeOK, Ring

\* What the operations and the deque see of the storage.
LEMMA Seen ==
    ASSUME Inv
    PROVE  /\ Contents = List(_array, _start, _size, _capacity)
           /\ Contents \in Seq(Value) /\ Len(Contents) = _size
           /\ _size \in Nat /\ _capacity \in Nat /\ _size <= _capacity
           /\ _size > 0 => _capacity \in Nat \ {0} /\ _start \in 0 .. _capacity - 1
           /\ Contents = <<>> <=> _size = 0
           /\ \A i \in 1 .. _size : /\ Contents[i] = _array[Slot(i - 1)]
                                    /\ Contents[i] \in Value
<1>1. Contents = List(_array, _start, _size, _capacity)
  BY DEF Contents, List, Slot, At
<1>2. /\ _size \in Nat /\ _capacity \in Nat /\ _size <= _capacity
      /\ _size > 0 => _capacity \in Nat \ {0} /\ _start \in 0 .. _capacity - 1
      /\ Contents \in Seq(Value) /\ Len(Contents) = _size
      /\ \A i \in 1 .. _size : /\ Contents[i] = _array[At(_start, i - 1, _capacity)]
                               /\ Contents[i] \in Value
  BY <1>1, ListOfRing DEF Inv
<1>3. Contents = <<>> <=> _size = 0
  BY <1>2, EmptySeq
<1>4. QED
  BY <1>1, <1>2, <1>3 DEF Slot, At

\* The storage a step leaves behind, and what it then lists.
LEMMA After ==
    ASSUME NEW a, NEW s, NEW n, NEW c, NEW t,
           _array' = a, _start' = s, _size' = n, _capacity' = c,
           Ring(a, s, n, c), c <= MaxCapacity, answer' \in Answers,
           List(a, s, n, c) = t
    PROVE  Inv' /\ Contents' = t
BY DEF Inv, Contents, List, Slot, At

\* push_back is a step of the deque: at the back, or refused, or in place of the
\* oldest element.
LEMMA PushBackStep ==
    ASSUME Inv, NEW v \in Value, NEW o \in BOOLEAN, push_back(v, o)
    PROVE  Inv' /\ Deque!DequeNext
<1> DEFINE a == _array
           s == _start
           n == _size
           c == _capacity
<1>1. /\ Contents = List(a, s, n, c) /\ Contents \in Seq(Value) /\ Len(Contents) = n
      /\ n \in Nat /\ c \in Nat /\ n <= c /\ c <= MaxCapacity /\ Ring(a, s, n, c)
      /\ n > 0 => c \in Nat \ {0} /\ s \in 0 .. c - 1
      /\ Contents = <<>> <=> n = 0
  BY Seen DEF Inv
<1>2. call' = <<"push_back", o>> /\ _capacity' = c
  BY DEF push_back
<1>3. CASE ~is_full /\ StoreBack(v, s, n)
  <2>1. /\ _array' = [a EXCEPT ![At(s, n, c)] = v] /\ _start' = s /\ _size' = n + 1
        /\ answer' = Rc("SUCCESS") /\ n < c
    BY <1>1, <1>3 DEF StoreBack, At, is_full
  <2>2. Ring(_array', s, n + 1, c) /\ List(_array', s, n + 1, c) = Append(Contents, v)
    <3>1. PICK b : b = _array'
      OBVIOUS
    <3>2. b = [a EXCEPT ![At(s, n, c)] = v] /\ n < c
      BY <2>1, <3>1
    <3>3. HasBack(b, a, s, n, c, v)
      BY <1>1, <3>2, StoredBack
    <3>4. QED
      BY <1>1, <3>1, <3>3 DEF HasBack
  <2>3. answer' \in Answers
    BY <2>1 DEF Answers
  <2>4. Inv' /\ Contents' = Append(Contents, v)
    BY <1>1, <1>2, <2>1, <2>2, <2>3, After
  <2>5. Deque!PushBack
    <3>1. ~Deque!Full
      BY <1>1, <2>1 DEF Deque!Full
    <3>2. Contents' = Append(IF Deque!Full THEN Tail(Contents) ELSE Contents, v)
      BY <2>4, <3>1
    <3>3. QED
      BY <1>2, <2>1, <3>1, <3>2 DEF Deque!PushBack, Deque!Rc, Rc
  <2>6. QED
    BY <2>4, <2>5 DEF Deque!DequeNext
<1>4. CASE /\ is_full /\ ~o /\ answer' = Rc("NO_SPACE_ERROR")
           /\ UNCHANGED <<_array, _start, _size>>
  <2>1. answer' \in Answers
    BY <1>4 DEF Answers
  <2>2. Inv' /\ Contents' = Contents
    BY <1>1, <1>2, <1>4, <2>1, After
  <2>3. Deque!Refuse
    BY <1>1, <1>2, <1>4, <2>2 DEF Deque!Refuse, Deque!Full, Deque!Rc, Rc, is_full
  <2>4. QED
    BY <2>2, <2>3 DEF Deque!DequeNext
<1>5. CASE /\ is_full /\ o /\ ~empty
           /\ StoreBack(v, (_start + 1) % _capacity, _size - 1)
  <2> DEFINE r == (s + 1) % c
             m == n - 1
  <2>1. n = c /\ n > 0
    BY <1>1, <1>5 DEF is_full, empty
  <2>2. /\ _array' = [a EXCEPT ![At(r, m, c)] = v] /\ _start' = r
        /\ _size' = m + 1 /\ answer' = Rc("SUCCESS")
    BY <1>5 DEF StoreBack, At
  <2>3. Ring(a, r, m, c) /\ List(a, r, m, c) = Tail(Contents)
    BY <1>1, <2>1, DroppedFront
  <2>4. m < c
    BY <1>1, <2>1
  <2> HIDE DEF r, m
  <2>5. /\ Ring(_array', r, m + 1, c)
        /\ List(_array', r, m + 1, c) = Append(Tail(Contents), v)
    <3>1. PICK b : b = _array'
      OBVIOUS
    <3>2. b = [a EXCEPT ![At(r, m, c)] = v]
      BY <2>2, <3>1
    <3>3. HasBack(b, a, r, m, c, v)
      BY <2>3, <2>4, <3>2, StoredBack
    <3>4. QED
      BY <2>3, <3>1, <3>3 DEF HasBack
  <2>6. answer' \in Answers
    BY <2>2 DEF Answers
  <2>7. Inv' /\ Contents' = Append(Tail(Contents), v)
    BY <1>1, <1>2, <2>2, <2>5, <2>6, After
  <2>8. Deque!PushBack
    BY <1>1, <1>2, <1>5, <2>1, <2>2, <2>7 DEF Deque!PushBack, Deque!Full, Deque!Rc, Rc
  <2>9. QED
    BY <2>7, <2>8 DEF Deque!DequeNext
<1>6. CASE /\ is_full /\ o /\ empty /\ answer' = Thrown("empty_buffer")
           /\ UNCHANGED <<_array, _start, _size>>
  <2>1. answer' \in Answers
    BY <1>6 DEF Answers
  <2>2. Inv' /\ Contents' = Contents
    BY <1>1, <1>2, <1>6, <2>1, After
  <2>3. Deque!Refuse
    BY <1>1, <1>2, <1>6, <2>2
       DEF Deque!Refuse, Deque!Full, Deque!Thrown, Thrown, is_full, empty
  <2>4. QED
    BY <2>2, <2>3 DEF Deque!DequeNext
<1>7. QED
  BY <1>3, <1>4, <1>5, <1>6 DEF push_back

\* push_front likewise, at the front.
LEMMA PushFrontStep ==
    ASSUME Inv, NEW v \in Value, NEW o \in BOOLEAN, push_front(v, o)
    PROVE  Inv' /\ Deque!DequeNext
<1> DEFINE a == _array
           s == _start
           n == _size
           c == _capacity
           p == PreviousStart
<1>1. /\ Contents = List(a, s, n, c) /\ Contents \in Seq(Value) /\ Len(Contents) = n
      /\ n \in Nat /\ c \in Nat /\ n <= c /\ c <= MaxCapacity /\ Ring(a, s, n, c)
      /\ Contents = <<>> <=> n = 0
  BY Seen DEF Inv
<1>2. call' = <<"push_front", o>> /\ _capacity' = c
  BY DEF push_front
<1>3. p = Previous(s, c)
  BY DEF PreviousStart, Previous
<1>4. CASE ~is_full /\ StoreFront(v, n)
  <2>1. /\ _array' = [a EXCEPT ![p] = v] /\ _start' = p /\ _size' = n + 1
        /\ answer' = Rc("SUCCESS") /\ n < c
    BY <1>1, <1>4 DEF StoreFront, is_full
  <2>2. /\ Ring(_array', p, n + 1, c)
        /\ List(_array', p, n + 1, c) = <<v>> \o Contents
    <3>1. PICK b : b = _array'
      OBVIOUS
    <3>2. b = [a EXCEPT ![p] = v] /\ n < c
      BY <2>1, <3>1
    <3>3. HasFront(b, p, a, s, n, c, v)
      BY <1>1, <1>3, <3>2, StoredFront
    <3>4. QED
      BY <1>1, <3>1, <3>3 DEF HasFront
  <2>3. answer' \in Answers
    BY <2>1 DEF Answers
  <2>4. Inv' /\ Contents' = <<v>> \o Contents
    <3> HIDE DEF p
    <3>1. QED
      BY <1>1, <1>2, <2>1, <2>2, <2>3, After
  <2>5. Deque!PushFront
    <3>1. ~Deque!Full
      BY <1>1, <2>1 DEF Deque!Full
    <3>2. Contents' = <<v>> \o (IF Deque!Full THEN Front(Contents) ELSE Contents)
      BY <2>4, <3>1
    <3>3. QED
      BY <1>2, <2>1, <3>1, <3>2 DEF Deque!PushFront, Deque!Rc, Rc, Deque!Front, Front
  <2>6. QED
    BY <2>4, <2>5 DEF Deque!DequeNext
<1>5. CASE /\ is_full /\ ~o /\ answer' = Rc("NO_SPACE_ERROR")
           /\ UNCHANGED <<_array, _start, _size>>
  <2>1. answer' \in Answers
    BY <1>5 DEF Answers
  <2>2. Inv' /\ Contents' = Contents
    BY <1>1, <1>2, <1>5, <2>1, After
  <2>3. Deque!Refuse
    BY <1>1, <1>2, <1>5, <2>2 DEF Deque!Refuse, Deque!Full, Deque!Rc, Rc, is_full
  <2>4. QED
    BY <2>2, <2>3 DEF Deque!DequeNext
<1>6. CASE is_full /\ o /\ ~empty /\ StoreFront(v, _size - 1)
  <2> DEFINE m == n - 1
  <2>1. n = c /\ n > 0
    BY <1>1, <1>6 DEF is_full, empty
  <2>2. /\ _array' = [a EXCEPT ![p] = v] /\ _start' = p
        /\ _size' = m + 1 /\ answer' = Rc("SUCCESS")
    BY <1>6 DEF StoreFront
  <2>3. Ring(a, s, m, c) /\ List(a, s, m, c) = Front(Contents)
    BY <1>1, <2>1, DroppedBack
  <2>4. m < c
    BY <1>1, <2>1
  <2> HIDE DEF m, p
  <2>5. /\ Ring(_array', p, m + 1, c)
        /\ List(_array', p, m + 1, c) = <<v>> \o Front(Contents)
    <3>1. PICK b : b = _array'
      OBVIOUS
    <3>2. b = [a EXCEPT ![p] = v]
      BY <2>2, <3>1
    <3>3. HasFront(b, p, a, s, m, c, v)
      BY <1>3, <2>3, <2>4, <3>2, StoredFront
    <3>4. QED
      BY <2>3, <3>1, <3>3 DEF HasFront
  <2>6. answer' \in Answers
    BY <2>2 DEF Answers
  <2>7. Inv' /\ Contents' = <<v>> \o Front(Contents)
    BY <1>1, <1>2, <2>2, <2>5, <2>6, After
  <2>8. Deque!PushFront
    <3>1. Deque!Full /\ Contents # <<>> /\ o = TRUE
      BY <1>1, <1>6, <2>1 DEF Deque!Full
    <3>2. Contents' = <<v>> \o (IF Deque!Full THEN Front(Contents) ELSE Contents)
      BY <2>7, <3>1
    <3>3. QED
      BY <1>2, <2>2, <3>1, <3>2 DEF Deque!PushFront, Deque!Rc, Rc, Deque!Front, Front
  <2>9. QED
    BY <2>7, <2>8 DEF Deque!DequeNext
<1>7. CASE /\ is_full /\ o /\ empty /\ answer' = Thrown("empty_buffer")
           /\ UNCHANGED <<_array, _start, _size>>
  <2>1. answer' \in Answers
    BY <1>7 DEF Answers
  <2>2. Inv' /\ Contents' = Contents
    BY <1>1, <1>2, <1>7, <2>1, After
  <2>3. Deque!Refuse
    BY <1>1, <1>2, <1>7, <2>2
       DEF Deque!Refuse, Deque!Full, Deque!Thrown, Thrown, is_full, empty
  <2>4. QED
    BY <2>2, <2>3 DEF Deque!DequeNext
<1>8. QED
  BY <1>4, <1>5, <1>6, <1>7 DEF push_front

\* Removing the first or the last element is leaving it out.
LEMMA RemoveEnds ==
    ASSUME NEW l \in Seq(Value), l # <<>>
    PROVE  /\ Deque!RemoveAt(l, 1) = Tail(l)
           /\ Deque!RemoveAt(l, Len(l)) = Front(l)
<1> DEFINE n == Len(l)
<1>1. n \in Nat /\ n > 0
  BY EmptySeq
<1>2. SubSeq(l, 1, 0) = <<>> /\ SubSeq(l, n + 1, n) = <<>>
  BY <1>1, SubSeqEmpty
<1>3. SubSeq(l, 2, n) = Tail(l) /\ Tail(l) \in Seq(Value)
  BY TailIsSubSeq, HeadTailProperties
<1>4. SubSeq(l, 1, n - 1) \in Seq(Value)
  <2>1. \A i \in 1 .. n - 1 : l[i] \in Value
    <3>1. \A i \in 1 .. n - 1 : i \in 1 .. Len(l)
      BY <1>1
    <3>2. QED
      BY <3>1, ElementOfSeq
  <2>2. QED
    BY <1>1, <2>1, SubSeqProperties
<1>5. Deque!RemoveAt(l, 1) = SubSeq(l, 1, 0) \o SubSeq(l, 2, n)
  BY <1>1 DEF Deque!RemoveAt
<1>6. Deque!RemoveAt(l, n) = SubSeq(l, 1, n - 1) \o SubSeq(l, n + 1, n)
  BY <1>1 DEF Deque!RemoveAt
<1>7. QED
  BY <1>2, <1>3, <1>4, <1>5, <1>6, ConcatEmptySeq DEF Front

\* pop_front takes the first element, or answers or throws that there is none.
LEMMA PopFrontStep ==
    ASSUME Inv, NEW failure \in {Rc("BUFFER_EMPTY_ERROR"), Thrown("empty_buffer")},
           pop_front(failure)
    PROVE  Inv' /\ Deque!DequeNext
<1> DEFINE a == _array
           s == _start
           n == _size
           c == _capacity
<1>1. /\ Contents = List(a, s, n, c) /\ Contents \in Seq(Value) /\ Len(Contents) = n
      /\ n \in Nat /\ c \in Nat /\ n <= c /\ c <= MaxCapacity /\ Ring(a, s, n, c)
      /\ n > 0 => c \in Nat \ {0} /\ s \in 0 .. c - 1
      /\ Contents = <<>> <=> n = 0
      /\ \A i \in 1 .. n : Contents[i] = a[Slot(i - 1)] /\ Contents[i] \in Value
  BY Seen DEF Inv
<1>2. call' = <<"pop_front", 0>> /\ _capacity' = c /\ _array' = a
  BY DEF pop_front
<1>3. CASE empty /\ answer' = failure /\ UNCHANGED <<_start, _size>>
  <2>1. answer' \in Answers
    BY <1>3 DEF Answers
  <2>2. Inv' /\ Contents' = Contents
    BY <1>1, <1>2, <1>3, <2>1, After
  <2>3. Contents = <<>>
    BY <1>1, <1>3 DEF empty
  <2>4. Deque!NoSuchItem
    BY <1>2, <1>3, <2>2, <2>3
       DEF Deque!NoSuchItem, Deque!Rc, Deque!Thrown, Rc, Thrown
  <2>5. QED
    BY <2>2, <2>4 DEF Deque!DequeNext
<1>4. CASE /\ ~empty /\ answer' = Returned(_array[_start])
           /\ _size' = _size - 1 /\ _start' = (_start + 1) % _capacity
  <2> DEFINE r == (s + 1) % c
             m == n - 1
  <2>1. n > 0 /\ _start' = r /\ _size' = m
    BY <1>1, <1>4 DEF empty
  <2>2. Ring(a, r, m, c) /\ List(a, r, m, c) = Tail(Contents)
    BY <1>1, <2>1, DroppedFront
  <2>3. answer' = Returned(Contents[1]) /\ Contents[1] \in Value
    <3>1. 1 \in 1 .. n
      BY <1>1, <2>1
    <3>2. Slot(0) = s
      <4>1. c \in Nat \ {0} /\ s \in 0 .. c - 1 /\ 0 \in 0 .. c
        BY <1>1, <2>1
      <4>2. At(s, 0, c) = IF s + 0 < c THEN s + 0 ELSE s + 0 - c
        BY <4>1, AtIs
      <4>3. At(s, 0, c) = s
        BY <4>1, <4>2
      <4>4. QED
        BY <4>3 DEF At, Slot
    <3>3. Contents[1] = a[Slot(0)] /\ Contents[1] \in Value
      BY <1>1, <3>1
    <3>4. QED
      BY <1>4, <3>2, <3>3
  <2>4. answer' \in Answers
    BY <2>3 DEF Answers
  <2> HIDE DEF r, m
  <2>5. Inv' /\ Contents' = Tail(Contents)
    BY <1>1, <1>2, <2>1, <2>2, <2>4, After
  <2>6. Deque!TakeOut
    <3>1. Contents' = Deque!RemoveAt(Contents, 1)
      <4>1. Contents \in Seq(Value) /\ Contents # <<>>
        BY <1>1, <2>1
      <4>2. Deque!RemoveAt(Contents, 1) = Tail(Contents)
        BY <4>1, RemoveEnds
      <4>3. Contents' = Tail(Contents)
        BY <2>5
      <4>4. QED
        BY <4>2, <4>3
    <3>2. 1 \in 1 .. Len(Contents)
      BY <1>1, <2>1
    <3>3. QED
      BY <1>2, <2>3, <3>1, <3>2 DEF Deque!TakeOut, Deque!Returned, Returned
  <2>7. QED
    BY <2>5, <2>6 DEF Deque!DequeNext
<1>5. QED
  BY <1>3, <1>4 DEF pop_front

\* pop_back takes the last one.
LEMMA PopBackStep ==
    ASSUME Inv, NEW failure \in {Rc("BUFFER_EMPTY_ERROR"), Thrown("empty_buffer")},
           pop_back(failure)
    PROVE  Inv' /\ Deque!DequeNext
<1> DEFINE a == _array
           s == _start
           n == _size
           c == _capacity
<1>1. /\ Contents = List(a, s, n, c) /\ Contents \in Seq(Value) /\ Len(Contents) = n
      /\ n \in Nat /\ c \in Nat /\ n <= c /\ c <= MaxCapacity /\ Ring(a, s, n, c)
      /\ n > 0 => c \in Nat \ {0} /\ s \in 0 .. c - 1
      /\ Contents = <<>> <=> n = 0
      /\ \A i \in 1 .. n : Contents[i] = a[Slot(i - 1)] /\ Contents[i] \in Value
  BY Seen DEF Inv
<1>2. call' = <<"pop_back", 0>> /\ _capacity' = c /\ _array' = a /\ _start' = s
  BY DEF pop_back
<1>3. CASE empty /\ answer' = failure /\ UNCHANGED _size
  <2>1. answer' \in Answers
    BY <1>3 DEF Answers
  <2>2. Inv' /\ Contents' = Contents
    BY <1>1, <1>2, <1>3, <2>1, After
  <2>3. Contents = <<>>
    BY <1>1, <1>3 DEF empty
  <2>4. Deque!NoSuchItem
    BY <1>2, <1>3, <2>2, <2>3
       DEF Deque!NoSuchItem, Deque!Rc, Deque!Thrown, Rc, Thrown
  <2>5. QED
    BY <2>2, <2>4 DEF Deque!DequeNext
<1>4. CASE /\ ~empty /\ answer' = Returned(_array[(_start + _size - 1) % _capacity])
           /\ _size' = _size - 1
  <2> DEFINE m == n - 1
  <2>1. n > 0 /\ _size' = m
    BY <1>1, <1>4 DEF empty
  <2>2. Ring(a, s, m, c) /\ List(a, s, m, c) = Front(Contents)
    BY <1>1, <2>1, DroppedBack
  <2>3. answer' = Returned(Contents[n]) /\ Contents[n] \in Value
    <3>1. n \in 1 .. n /\ s \in Int
      BY <1>1, <2>1
    <3>2. _start + _size - 1 = _start + (_size - 1)
      BY <1>1, <3>1
    <3>3. Slot(n - 1) = (_start + _size - 1) % _capacity
      BY <3>2 DEF Slot
    <3>4. Contents[n] = a[Slot(n - 1)] /\ Contents[n] \in Value
      BY <1>1, <3>1
    <3>5. QED
      BY <1>4, <3>3, <3>4
  <2>4. answer' \in Answers
    BY <2>3 DEF Answers
  <2> HIDE DEF m
  <2>5. Inv' /\ Contents' = Front(Contents)
    BY <1>1, <1>2, <2>1, <2>2, <2>4, After
  <2>6. Deque!TakeOut
    <3>1. Contents' = Deque!RemoveAt(Contents, Len(Contents))
      <4>1. Contents \in Seq(Value) /\ Contents # <<>>
        BY <1>1, <2>1
      <4>2. Deque!RemoveAt(Contents, Len(Contents)) = Front(Contents)
        BY <4>1, RemoveEnds
      <4>3. Contents' = Front(Contents)
        BY <2>5
      <4>4. QED
        BY <4>2, <4>3
    <3>2. Len(Contents) \in 1 .. Len(Contents) /\ answer' = Returned(Contents[Len(Contents)])
      BY <1>1, <2>1, <2>3
    <3>3. QED
      BY <1>2, <3>1, <3>2 DEF Deque!TakeOut, Deque!Returned, Returned
  <2>7. QED
    BY <2>5, <2>6 DEF Deque!DequeNext
<1>5. QED
  BY <1>3, <1>4 DEF pop_back

\* The bound of operator[] and pop_at does not wrap around if there are elements.
LEMMA Guard ==
    ASSUME Inv, IndexWhenEmpty = FALSE, NEW index \in Indices
    PROVE  index \in Nat /\ _size > 0 /\ (OutOfRange(index) <=> index >= _size)
<1>1. index \in Nat /\ _size \in Nat /\ _size > 0 /\ _size <= MaxCapacity
  BY Seen, CapacitiesAreNat DEF Indices, empty, Inv
<1>2. (_size - 1) % SizeMod = _size - 1
  BY <1>1, SizeModIsLarge, CapacitiesAreNat
<1>3. QED
  BY <1>1, <1>2 DEF OutOfRange

\* operator[] answers with the element at the index, or refuses it.
LEMMA SubscriptStep ==
    ASSUME Inv, IndexWhenEmpty = FALSE, NEW index \in Indices, subscript(index)
    PROVE  Inv' /\ Deque!DequeNext
<1>1. /\ Contents = List(_array, _start, _size, _capacity)
      /\ Len(Contents) = _size /\ _size \in Nat /\ _capacity <= MaxCapacity
      /\ Ring(_array, _start, _size, _capacity)
      /\ \A i \in 1 .. _size : /\ Contents[i] = _array[Slot(i - 1)]
                               /\ Contents[i] \in Value
  BY Seen DEF Inv
<1>2. index \in Nat /\ (OutOfRange(index) <=> index >= _size)
  BY Guard
<1>3. call' = <<"subscript", index>> /\ UNCHANGED <<_array, _start, _size, _capacity>>
  BY DEF subscript
<1>4. CASE OutOfRange(index)
  <2>1. answer' = Thrown("invalid_index") /\ answer' \in Answers
    BY <1>4 DEF subscript, Answers
  <2>2. Inv' /\ Contents' = Contents
    BY <1>1, <1>3, <2>1, After
  <2>3. call'[1] = "subscript" /\ call'[2] = index /\ index >= Len(Contents)
    BY <1>1, <1>2, <1>3, <1>4
  <2>4. Deque!NoSuchItem
    BY <1>3, <2>1, <2>2, <2>3 DEF Deque!NoSuchItem, Deque!Thrown, Thrown
  <2>5. QED
    BY <2>2, <2>4 DEF Deque!DequeNext
<1>5. CASE ~OutOfRange(index)
  <2> DEFINE i == index + 1
  <2>1. i \in 1 .. _size /\ i - 1 = index
    BY <1>1, <1>2, <1>5
  <2>2. answer' = Returned(_array[Slot(index)])
    BY <1>5 DEF subscript
  <2> HIDE DEF i
  <2>3. answer' = Returned(Contents[i]) /\ Contents[i] \in Value
    BY <1>1, <2>1, <2>2
  <2>4. answer' \in Answers
    BY <2>3 DEF Answers
  <2>5. Inv' /\ Contents' = Contents
    BY <1>1, <1>3, <2>4, After
  <2>6. i \in 1 .. Len(Contents) /\ call' = <<"subscript", i - 1>>
    BY <1>1, <1>3, <2>1
  <2>7. Deque!ReadItem
    BY <1>3, <2>3, <2>5, <2>6 DEF Deque!ReadItem, Deque!Returned, Returned
  <2>8. QED
    BY <2>5, <2>7 DEF Deque!DequeNext
<1>6. QED
  BY <1>4, <1>5

\* pop_at answers with it and removes it.
LEMMA PopAtStep ==
    ASSUME Inv, IndexWhenEmpty = FALSE, NEW index \in Indices, pop_at(index)
    PROVE  Inv' /\ Deque!DequeNext
<1> DEFINE a == _array
           s == _start
           n == _size
           c == _capacity
<1>1. /\ Contents = List(a, s, n, c) /\ Contents \in Seq(Value) /\ Len(Contents) = n
      /\ n \in Nat /\ c \in Nat /\ n <= c /\ c <= MaxCapacity /\ Ring(a, s, n, c)
      /\ \A i \in 1 .. n : Contents[i] = a[Slot(i - 1)] /\ Contents[i] \in Value
  BY Seen DEF Inv
<1>2. index \in Nat /\ n > 0 /\ (OutOfRange(index) <=> index >= n)
  BY Guard
<1>3. call' = <<"pop_at", index>> /\ _capacity' = c /\ _start' = s
  BY DEF pop_at
<1>4. CASE /\ OutOfRange(index) /\ answer' = Thrown("invalid_index")
           /\ UNCHANGED <<_array, _size>>
  <2>1. answer' \in Answers
    BY <1>4 DEF Answers
  <2>2. Inv' /\ Contents' = Contents
    BY <1>1, <1>3, <1>4, <2>1, After
  <2>3. call'[1] = "pop_at" /\ call'[2] = index /\ index >= Len(Contents)
    BY <1>1, <1>2, <1>3, <1>4
  <2>4. Deque!NoSuchItem
    BY <1>3, <1>4, <2>2, <2>3 DEF Deque!NoSuchItem, Deque!Thrown, Thrown
  <2>5. QED
    BY <2>2, <2>4 DEF Deque!DequeNext
<1>5. CASE /\ ~OutOfRange(index) /\ answer' = Returned(_array[Slot(index)])
           /\ _array' = ShiftLeft(index)
           /\ _size' = IF empty THEN _size ELSE _size - 1
  <2> DEFINE i == index + 1
             m == n - 1
  <2>1. /\ i \in 1 .. n /\ i - 1 = index /\ index \in 0 .. n - 1
        /\ _size' = m
    BY <1>1, <1>2, <1>5 DEF empty
  <2>2. PICK b : b = _array'
    OBVIOUS
  <2>3. b = [x \in DOMAIN a |-> IF \E j \in index .. n - 2 : x = At(s, j, c)
                                THEN a[(x + 1) % c] ELSE a[x]]
    BY <1>5, <2>2 DEF ShiftLeft, Slot, At
  <2>4. /\ Ring(b, s, m, c)
        /\ List(b, s, m, c) = RemoveAt(Contents, i)
    <3>1. LacksItem(b, a, s, n, c, index)
      BY <1>1, <2>1, <2>3, TakenOut
    <3>2. QED
      BY <1>1, <3>1 DEF LacksItem
  <2> HIDE DEF i, m
  <2>5. answer' = Returned(Contents[i]) /\ Contents[i] \in Value
    BY <1>1, <1>5, <2>1
  <2>6. answer' \in Answers
    BY <2>5 DEF Answers
  <2>7. Inv' /\ Contents' = RemoveAt(Contents, i)
    BY <1>1, <1>3, <2>1, <2>2, <2>4, <2>6, After
  <2>8. Deque!TakeOut
    <3>1. Contents' = Deque!RemoveAt(Contents, i)
      BY <2>7 DEF Deque!RemoveAt, RemoveAt
    <3>2. i \in 1 .. Len(Contents) /\ call' = <<"pop_at", i - 1>>
      BY <1>1, <1>3, <2>1
    <3>3. QED
      BY <1>3, <2>5, <3>1, <3>2 DEF Deque!TakeOut, Deque!Returned, Returned
  <2>9. QED
    BY <2>7, <2>8 DEF Deque!DequeNext
<1>6. QED
  BY <1>4, <1>5 DEF pop_at

\* A resize and a copy move the elements to other slots and change none.
LEMMA ReallocateStep ==
    ASSUME Inv, resize_by_two \/ deep_copy
    PROVE  Inv' /\ Deque!DequeNext
<1> DEFINE a == _array
           s == _start
           n == _size
           c == _capacity
<1>1. /\ Contents = List(a, s, n, c) /\ c \in Nat /\ c <= MaxCapacity /\ Ring(a, s, n, c)
  BY Seen DEF Inv
<1>2. answer' = Rc("SUCCESS") /\ answer' \in Answers /\ _size' = n
  BY DEF resize_by_two, deep_copy, Answers
<1>3. PICK b : b = _array'
  OBVIOUS
<1>4. CASE resize_by_two
  <2> DEFINE d == 2 * c
  <2>1. d <= MaxCapacity /\ _capacity' = d /\ _start' = 0 /\ call' = <<"resize_by_two", 0>>
    BY <1>4 DEF resize_by_two
  <2>2. b = [x \in 0 .. 2 * c - 1 |-> IF x < n THEN a[At(s, x, c)] ELSE Junk]
    BY <1>3, <1>4 DEF resize_by_two, Slot, At
  <2>3. Ring(b, 0, n, d) /\ List(b, 0, n, d) = Contents
    BY <1>1, <2>2, Resized
  <2>4. Inv' /\ Contents' = Contents
    <3> HIDE DEF d
    <3>1. QED
      BY <1>2, <1>3, <2>1, <2>3, After
  <2>5. Deque!Reallocate
    BY <1>2, <2>1, <2>4 DEF Deque!Reallocate, Deque!Rc, Rc
  <2>6. QED
    BY <2>4, <2>5 DEF Deque!DequeNext
<1>5. CASE deep_copy
  <2>1. _capacity' = c /\ _start' = s /\ call' = <<"deep_copy", 0>>
    BY <1>5 DEF deep_copy
  <2>2. b = [x \in DOMAIN a |-> IF \E i \in 0 .. n - 1 : x = At(s, i, c)
                                THEN a[x] ELSE Junk]
    BY <1>3, <1>5 DEF deep_copy, Slot, At
  <2>3. Ring(b, s, n, c) /\ List(b, s, n, c) = Contents
    BY <1>1, <2>2, Copied
  <2>4. Inv' /\ Contents' = Contents
    BY <1>1, <1>2, <1>3, <2>1, <2>3, After
  <2>5. Deque!Reallocate
    BY <1>2, <2>1, <2>4 DEF Deque!Reallocate, Deque!Rc, Rc
  <2>6. QED
    BY <2>4, <2>5 DEF Deque!DequeNext
<1>6. QED
  BY <1>4, <1>5

-----------------------------------------------------------------------------
(* The theorems. *)

\* A new array is an empty deque.
LEMMA Starts == ArrayInit => Inv /\ Deque!DequeInit
<1> SUFFICES ASSUME ArrayInit PROVE Inv /\ Deque!DequeInit
  OBVIOUS
<1>1. Ring(_array, _start, _size, _capacity) /\ _capacity <= MaxCapacity
  <2>1. _capacity \in Nat /\ _capacity <= MaxCapacity
    BY CapacitiesAreNat, CapacitiesFit DEF ArrayInit
  <2>2. \A i \in 0 .. _size - 1 : FALSE
    BY DEF ArrayInit
  <2>3. QED
    BY <2>1, <2>2 DEF ArrayInit, Ring
<1>2. Inv
  BY <1>1 DEF ArrayInit, Inv, Answers
<1>3. Contents = <<>>
  BY <1>2, Seen DEF ArrayInit
<1>4. Deque!DequeInit
  BY <1>1, <1>3 DEF ArrayInit, Deque!DequeInit, Deque!Rc, Rc, Ring
<1>5. QED
  BY <1>2, <1>4

\* Every operation keeps the invariant and is one of the deque's.
LEMMA Steps ==
    ASSUME IndexWhenEmpty = FALSE
    PROVE  Inv /\ [ArrayNext]_arrayVars => Inv' /\ [Deque!DequeNext]_(Deque!dequeVars)
<1> SUFFICES ASSUME Inv, [ArrayNext]_arrayVars
             PROVE  Inv' /\ [Deque!DequeNext]_(Deque!dequeVars)
  OBVIOUS
<1>1. CASE ArrayNext
  <2>1. ASSUME NEW v \in Value, NEW o \in BOOLEAN, push_back(v, o) \/ push_front(v, o)
        PROVE  Inv' /\ Deque!DequeNext
    BY <2>1, PushBackStep, PushFrontStep
  <2>2. ASSUME NEW failure \in {Rc("BUFFER_EMPTY_ERROR"), Thrown("empty_buffer")},
               pop_front(failure) \/ pop_back(failure)
        PROVE  Inv' /\ Deque!DequeNext
    BY <2>2, PopFrontStep, PopBackStep
  <2>3. ASSUME NEW index \in Indices, subscript(index) \/ pop_at(index)
        PROVE  Inv' /\ Deque!DequeNext
    BY <2>3, SubscriptStep, PopAtStep
  <2>4. CASE resize_by_two \/ deep_copy
    BY <2>4, ReallocateStep
  <2>5. QED
    BY <1>1, <2>1, <2>2, <2>3, <2>4 DEF ArrayNext
<1>2. CASE UNCHANGED arrayVars
  <2>1. Inv'
    BY <1>2 DEF arrayVars, Inv, Ring, At, Answers
  <2>2. UNCHANGED Deque!dequeVars
    BY <1>2 DEF arrayVars, Deque!dequeVars, Contents, Slot
  <2>3. QED
    BY <2>1, <2>2
<1>3. QED
  BY <1>1, <1>2

\* No sequence of operations hands out, shifts or copies a slot that was never
\* written: every index from 0 to _size - 1 leads to one that was. Of the callers
\* it is assumed that none indexes an empty array, whose guard wraps around
\* (circ_array.hpp: index > _size - 1).
THEOREM ElementsWereStored ==
    ASSUME IndexWhenEmpty = FALSE
    PROVE  ArraySpec => []ContentsInitialised
<1>1. ArrayInit => Inv
  BY Starts
<1>2. Inv /\ [ArrayNext]_arrayVars => Inv'
  BY Steps
<1>3. Inv => ContentsInitialised
  BY InvIsContentsInitialised
<1>4. QED
  BY <1>1, <1>2, <1>3, PTL DEF ArraySpec

\* Under the same assumption the ring is a bounded deque: every push, pop, index,
\* resize and copy has on the listed elements the effect, and gives the answer,
\* that BoundedDeque promises.
THEOREM RingIsADeque ==
    ASSUME IndexWhenEmpty = FALSE
    PROVE  ArraySpec => ImplementsDeque
<1>1. ArrayInit => Inv /\ Deque!DequeInit
  BY Starts
<1>2. Inv /\ [ArrayNext]_arrayVars => Inv' /\ [Deque!DequeNext]_(Deque!dequeVars)
  BY Steps
<1>3. QED
  BY <1>1, <1>2, PTL DEF ArraySpec, ImplementsDeque, Deque!DequeSpec
===============================================================================
