----------------------------- MODULE CircArray ------------------------------
(***************************************************************************)
(* CircArray<T> of cpp/circ_array.hpp: a ring of capacity slots, the index  *)
(* of the first element and the number of elements. One action per          *)
(* operation; operations that answer through an out-parameter and a return  *)
(* code are told apart from those that return the element or throw.         *)
(***************************************************************************)
EXTENDS Integers, Sequences

CONSTANTS Value,          \* the values of type T
          Junk,           \* what new T[n] leaves in a slot of a pointer type
          InitCapacities, \* the capacities the array is constructed with
          MaxCapacity,    \* bound: resize_by_two is not called beyond it
          SizeMod,        \* size_t arithmetic is modulo SizeMod
          IndexWhenEmpty  \* may a caller index an array that is empty?
                          \* (none in the repository does)

ASSUME JunkIsNoValue == Junk \notin Value
ASSUME CapacitiesAreNat == InitCapacities \subseteq Nat /\ MaxCapacity \in Nat
ASSUME SizeModIsLarge == SizeMod \in Nat /\ SizeMod > 2 * MaxCapacity
ASSUME CapacitiesFit == \A c \in InitCapacities : c <= MaxCapacity

VARIABLES _array, _start, _size, _capacity,
          call,   \* the last operation and its argument
          answer  \* what it told its caller

arrayVars == <<_array, _start, _size, _capacity, call, answer>>

Rc(code)       == <<"rc", code>>
Returned(v)    == <<"value", v>>
Thrown(except) == <<"throw", except>>

\* The slot that holds the element with the given index (operator[]).
Slot(index) == (_start + index) % _capacity

\* set_initial_values: a fresh array holds whatever new T[n] left in it.
ArrayInit == /\ _capacity \in InitCapacities
             /\ _array = [i \in 0 .. _capacity - 1 |-> Junk]
             /\ _start = 0
             /\ _size = 0
             /\ call = <<"construct", 0>>
             /\ answer = Rc("SUCCESS")

is_full == _size = _capacity
empty   == _size = 0

\* The guard of operator[] and pop_at: index > (_size - 1) throws. The
\* subtraction is on size_t, so for an empty array the bound wraps around.
OutOfRange(index) == index > (_size - 1) % SizeMod

\* The indices callers ask for.
Indices == {i \in 0 .. MaxCapacity : IndexWhenEmpty \/ ~empty}

-----------------------------------------------------------------------------
\* The effect of writing value behind the last of size elements from start.
StoreBack(value, start, size) ==
    /\ _array' = [_array EXCEPT ![(start + size) % _capacity] = value]
    /\ _start' = start
    /\ _size' = size + 1
    /\ answer' = Rc("SUCCESS")

push_back(value, overwrite_when_full) ==
    /\ call' = <<"push_back", overwrite_when_full>>
    /\ UNCHANGED _capacity
    /\ \/ /\ ~is_full
          /\ StoreBack(value, _start, _size)
       \/ /\ is_full /\ ~overwrite_when_full
          /\ answer' = Rc("NO_SPACE_ERROR")
          /\ UNCHANGED <<_array, _start, _size>>
       \/ /\ is_full /\ overwrite_when_full /\ ~empty
          /\ StoreBack(value, (_start + 1) % _capacity, _size - 1)
       \/ /\ is_full /\ overwrite_when_full /\ empty
          /\ answer' = Thrown("empty_buffer")
          /\ UNCHANGED <<_array, _start, _size>>

\* _start steps back by one slot and wraps to the last one.
PreviousStart == IF _start = 0 THEN _capacity - 1 ELSE _start - 1

StoreFront(value, size) ==
    /\ _array' = [_array EXCEPT ![PreviousStart] = value]
    /\ _start' = PreviousStart
    /\ _size' = size + 1
    /\ answer' = Rc("SUCCESS")

push_front(value, overwrite_when_full) ==
    /\ call' = <<"push_front", overwrite_when_full>>
    /\ UNCHANGED _capacity
    /\ \/ /\ ~is_full
          /\ StoreFront(value, _size)
       \/ /\ is_full /\ ~overwrite_when_full
          /\ answer' = Rc("NO_SPACE_ERROR")
          /\ UNCHANGED <<_array, _start, _size>>
       \/ /\ is_full /\ overwrite_when_full /\ ~empty
          /\ StoreFront(value, _size - 1)
       \/ /\ is_full /\ overwrite_when_full /\ empty
          /\ answer' = Thrown("empty_buffer")
          /\ UNCHANGED <<_array, _start, _size>>

\* pop_front (T&) answers BUFFER_EMPTY_ERROR, pop_front () throws.
pop_front(failure) ==
    /\ call' = <<"pop_front", 0>>
    /\ UNCHANGED <<_array, _capacity>>
    /\ \/ /\ empty
          /\ answer' = failure
          /\ UNCHANGED <<_start, _size>>
       \/ /\ ~empty
          /\ answer' = Returned(_array[_start])
          /\ _size' = _size - 1
          /\ _start' = (_start + 1) % _capacity

pop_back(failure) ==
    /\ call' = <<"pop_back", 0>>
    /\ UNCHANGED <<_array, _start, _capacity>>
    /\ \/ /\ empty
          /\ answer' = failure
          /\ UNCHANGED _size
       \/ /\ ~empty
          /\ answer' = Returned(_array[(_start + _size - 1) % _capacity])
          /\ _size' = _size - 1

\* operator[]
subscript(index) ==
    /\ call' = <<"subscript", index>>
    /\ answer' = IF OutOfRange(index) THEN Thrown("invalid_index")
                                      ELSE Returned(_array[Slot(index)])
    /\ UNCHANGED <<_array, _start, _size, _capacity>>

\* Mutant: the element to be removed is not overwritten.
Mutant_ShiftLeft(index) ==
    [s \in DOMAIN _array |->
        IF \E i \in index + 1 .. _size - 2 : s = Slot(i)
        THEN _array[(s + 1) % _capacity]
        ELSE _array[s]]

\* The slot of element i receives element i + 1 for every i from index on,
\* and the last element goes. With no elements the loop body never runs.
ShiftLeft(index) ==
    [s \in DOMAIN _array |->
        IF \E i \in index .. _size - 2 : s = Slot(i)
        THEN _array[(s + 1) % _capacity]
        ELSE _array[s]]

pop_at(index) ==
    /\ call' = <<"pop_at", index>>
    /\ UNCHANGED <<_start, _capacity>>
    /\ \/ /\ OutOfRange(index)
          /\ answer' = Thrown("invalid_index")
          /\ UNCHANGED <<_array, _size>>
       \/ /\ ~OutOfRange(index)
          /\ answer' = Returned(_array[Slot(index)])
          /\ _array' = ShiftLeft(index)
          /\ _size' = IF empty THEN _size ELSE _size - 1

\* Mutant: _start is not reset.
Mutant_resize_by_two ==
    /\ 2 * _capacity <= MaxCapacity
    /\ _capacity' = 2 * _capacity
    /\ _array' = [s \in 0 .. 2 * _capacity - 1 |->
                     IF s < _size THEN _array[Slot(s)] ELSE Junk]
    /\ call' = <<"resize_by_two", 0>>
    /\ answer' = Rc("SUCCESS")
    /\ UNCHANGED <<_start, _size>>

\* The elements move to the first slots of an array twice as long.
resize_by_two ==
    /\ 2 * _capacity <= MaxCapacity
    /\ _capacity' = 2 * _capacity
    /\ _array' = [s \in 0 .. 2 * _capacity - 1 |->
                     IF s < _size THEN _array[Slot(s)] ELSE Junk]
    /\ _start' = 0
    /\ call' = <<"resize_by_two", 0>>
    /\ answer' = Rc("SUCCESS")
    /\ UNCHANGED _size

\* deep_copy into a new array (copy constructor), which is used from then on:
\* _start is kept, so the elements stay in their slots.
deep_copy ==
    /\ _array' = [s \in DOMAIN _array |->
                     IF \E i \in 0 .. _size - 1 : s = Slot(i)
                     THEN _array[s] ELSE Junk]
    /\ call' = <<"deep_copy", 0>>
    /\ answer' = Rc("SUCCESS")
    /\ UNCHANGED <<_start, _size, _capacity>>

ArrayNext == \/ \E v \in Value, overwrite \in BOOLEAN :
                   push_back(v, overwrite) \/ push_front(v, overwrite)
             \/ \E failure \in {Rc("BUFFER_EMPTY_ERROR"), Thrown("empty_buffer")} :
                   pop_front(failure) \/ pop_back(failure)
             \/ \E index \in Indices : subscript(index) \/ pop_at(index)
             \/ resize_by_two
             \/ deep_copy

ArraySpec == ArrayInit /\ [][ArrayNext]_arrayVars

-----------------------------------------------------------------------------
\* The codes and exceptions an operation can answer with.
Answers == {Rc("SUCCESS"), Rc("NO_SPACE_ERROR"), Rc("BUFFER_EMPTY_ERROR"),
            Thrown("empty_buffer"), Thrown("invalid_index")}
           \cup {Returned(v) : v \in Value \cup {Junk}}

\* Type invariant: _start addresses a slot and no more elements are counted
\* than there are slots, whatever sequence of pushes, pops and resizes ran.
ArrayTypeOK == /\ _capacity \in 0 .. MaxCapacity
               /\ _array \in [0 .. _capacity - 1 -> Value \cup {Junk}]
               /\ _start \in Nat /\ (_start = 0 \/ _start < _capacity)
               /\ _size \in 0 .. _capacity
               /\ answer \in Answers

\* The elements, front first, as operator[] would list them.
Contents == [i \in 1 .. _size |-> _array[Slot(i - 1)]]

\* No element is ever an uninitialised slot: the slots between _start and
\* _start + _size have all been written (what pop_*, operator[] and
\* deep_copy rely on), and they are slots of the storage.
ContentsInitialised == ArrayTypeOK /\ \A i \in 0 .. _size - 1 : _array[Slot(i)] \in Value

Deque == INSTANCE BoundedDeque WITH items <- Contents, capacity <- _capacity

\* The ring implements the bounded deque: every operation has, on the
\* contents listed from _start, the effect and the answer it promises.
ImplementsDeque == Deque!DequeSpec
=============================================================================
