---------------------------- MODULE BoundedDeque ----------------------------
(***************************************************************************)
(* What CircArray promises its users (the command queue, the scheduler      *)
(* queues, the free-scheduler list, the slicing algorithm's NDRange list):  *)
(* a double-ended queue of at most capacity items. Each operation is one    *)
(* step; call is the invocation (name and argument) and answer what it      *)
(* told its caller: a return code, an element, or an exception.             *)
(***************************************************************************)
EXTENDS Integers, Sequences, SequencesExt

CONSTANT Value  \* the elements of type T

VARIABLES items,    \* the contents, front first
          capacity, \* how many items fit
          call, answer

dequeVars == <<items, capacity, call, answer>>

\* The three kinds of answer.
Rc(code)       == <<"rc", code>>
Returned(v)    == <<"value", v>>
Thrown(except) == <<"throw", except>>

DequeInit == /\ items = <<>>
             /\ capacity \in Nat
             /\ call = <<"construct", 0>>
             /\ answer = Rc("SUCCESS")

Full == Len(items) = capacity

\* A push on a deque with room for it, or, when overwriting, on one where the
\* item at the other end can make room.
PushBack == /\ \/ ~Full
               \/ items # <<>> /\ call' = <<"push_back", TRUE>>
            /\ call' \in {"push_back"} \X BOOLEAN
            /\ \E v \in Value :
                  items' = Append(IF Full THEN Tail(items) ELSE items, v)
            /\ answer' = Rc("SUCCESS")
            /\ UNCHANGED capacity

PushFront == /\ \/ ~Full
                \/ items # <<>> /\ call' = <<"push_front", TRUE>>
             /\ call' \in {"push_front"} \X BOOLEAN
             /\ \E v \in Value :
                   items' = <<v>> \o (IF Full THEN Front(items) ELSE items)
             /\ answer' = Rc("SUCCESS")
             /\ UNCHANGED capacity

\* A push that is refused leaves the contents alone and says so. Only a deque
\* of capacity 0 refuses one that may overwrite.
Refuse == /\ Full
          /\ \/ /\ call' \in {"push_back", "push_front"} \X {FALSE}
                /\ answer' = Rc("NO_SPACE_ERROR")
             \/ /\ call' \in {"push_back", "push_front"} \X {TRUE}
                /\ capacity = 0
                /\ answer' = Thrown("empty_buffer")
          /\ UNCHANGED <<items, capacity>>

\* Taking out the item at position i hands it to the caller; the others keep
\* their order. Positions are counted from 1, arguments from 0.
TakeOut == /\ \E i \in 1 .. Len(items) :
                 /\ \/ call' = <<"pop_at", i - 1>>
                    \/ call' = <<"pop_front", 0>> /\ i = 1
                    \/ call' = <<"pop_back", 0>> /\ i = Len(items)
                 /\ items' = RemoveAt(items, i)
                 /\ answer' = Returned(items[i])
           /\ UNCHANGED capacity

ReadItem == /\ \E i \in 1 .. Len(items) :
                  /\ call' = <<"subscript", i - 1>>
                  /\ answer' = Returned(items[i])
            /\ UNCHANGED <<items, capacity>>

\* There is nothing to take out, or the index is out of range.
NoSuchItem == /\ \/ /\ call' \in {"pop_front", "pop_back"} \X {0}
                    /\ items = <<>>
                    /\ answer' \in {Rc("BUFFER_EMPTY_ERROR"),
                                    Thrown("empty_buffer")}
                 \/ /\ call'[1] \in {"pop_at", "subscript"}
                    /\ call'[2] >= Len(items)
                    /\ answer' = Thrown("invalid_index")
              /\ UNCHANGED <<items, capacity>>

\* Growing and copying keep the contents.
Reallocate == /\ call' \in {"resize_by_two", "deep_copy"} \X {0}
              /\ capacity' = IF call'[1] = "resize_by_two"
                             THEN 2 * capacity ELSE capacity
              /\ answer' = Rc("SUCCESS")
              /\ UNCHANGED items

DequeNext == \/ PushBack \/ PushFront \/ Refuse
             \/ TakeOut \/ ReadItem \/ NoSuchItem \/ Reallocate

DequeSpec == DequeInit /\ [][DequeNext]_dequeVars
=============================================================================
