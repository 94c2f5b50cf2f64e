----------------------------- MODULE UnimemProofs -----------------------------
(***************************************************************************)
(* Proofs about Unimem for any memory objects, kernel addresses, sizes and  *)
(* data: every cl_mem's buffer is its own and as large as it says, holds    *)
(* what was last written with success, and no buffer of the driver is       *)
(* forgotten except where the code forgets it.                              *)
(***************************************************************************)
EXTENDS Unimem, TLAPS

\* What the handler's locals hold between two of its system calls.
HandlerInv ==
    /\ pc \in {"C", "read", "W", "D", "set"} => cmd \in Command
    /\ pc \in {"W", "D", "set"} => u_ptr # Null /\ buf_size[u_ptr] = cmd.size
    /\ pc \notin {"W", "D", "set"} => u_ptr = Null
    /\ pc = "read" => /\ s_return_msg.m_type = "z"
                      /\ s_return_msg.addr # Null
                      /\ buf_size[s_return_msg.addr] = cmd.size
    /\ pc = "W" => cmd.ptr # Null
    /\ pc = "set" /\ cmd.ptr # Null => contents[u_ptr] = cmd.ptr
    /\ pc = "closed" => \A m \in Mems : m_unimem_ptr[m] = Null

\* A buffer is pointed to by one cl_mem, or by the handler, or it is lost.
OwnersDisjoint ==
    /\ Held \cap InFlight = {}
    /\ (Held \cup InFlight) \cap lost = {}
    /\ \A m, n \in Mems : m # n /\ m_unimem_ptr[m] # Null
                             => m_unimem_ptr[m] # m_unimem_ptr[n]

\* A cl_mem's buffer was asked for with the size the cl_mem keeps.
SizesAgree ==
    \A m \in Mems : m_unimem_ptr[m] # Null
                       => buf_size[m_unimem_ptr[m]] = m_size[m]

\* The inductive invariant.
IInv == /\ UnimemTypeOK
        /\ HandlerInv
        /\ OwnersDisjoint
        /\ SizesAgree
        /\ ReadsSeeLastWrite
        /\ BuffersAccountedFor

-----------------------------------------------------------------------------
\* A request's size is one the driver's bookkeeping can hold.
LEMMA CommandFields ==
    ASSUME NEW c \in Command
    PROVE  c.mem \in Mems /\ c.size \in Sizes /\ c.ptr \in Data \cup {Null}
BY DEF Command

\* The initial state satisfies the inductive invariant.
LEMMA InvInit == UnimemInit => IInv
<1> SUFFICES ASSUME UnimemInit PROVE IInv
  OBVIOUS
<1>1. UnimemTypeOK
  <2>1. s_dev_opened \in BOOLEAN
    BY Zenon DEF UnimemInit
  <2>2. QED
    BY <2>1 DEF UnimemInit, UnimemTypeOK, NoReply
<1>2. HandlerInv /\ SizesAgree /\ ReadsSeeLastWrite
  BY DEF UnimemInit, HandlerInv, SizesAgree, ReadsSeeLastWrite
<1>3. Held = {} /\ InFlight = {}
  BY DEF UnimemInit, Held, InFlight, NoReply
<1>4. OwnersDisjoint /\ BuffersAccountedFor
  BY <1>3 DEF UnimemInit, OwnersDisjoint, BuffersAccountedFor
<1>5. QED
  BY <1>1, <1>2, <1>4 DEF IInv

\* What the driver's answer to an allocation request leaves: a buffer that was
\* not in use, or a reply without an address.
Allocates(a) ==
    /\ pc = "C" /\ pc' = "read"
    /\ allocated' = allocated \cup {a}
    /\ buf_size' = [buf_size EXCEPT ![a] = cmd.size]
    /\ s_return_msg' = [m_type |-> "z", addr |-> a]
    /\ UNCHANGED <<s_dev_opened, contents, m_unimem_ptr, m_size, written, cmd, u_ptr,
                   err_code, lost>>

\* The driver had no memory; or the request failed.
AllocationFails ==
    /\ pc = "C"
    /\ s_return_msg' = [s_return_msg EXCEPT !.addr = Null]
    /\ Finish("ALLOCATION_FAILURE")
    /\ UNCHANGED <<s_dev_opened, allocated, buf_size, contents,
                   m_unimem_ptr, m_size, written, lost>>

\* An allocation request has one of these two outcomes.
LEMMA AllocateEffect ==
    allocate_unimem => AllocationFails \/ \E a \in Addrs \ allocated : Allocates(a)
<1> SUFFICES ASSUME allocate_unimem
             PROVE  AllocationFails \/ \E a \in Addrs \ allocated : Allocates(a)
  OBVIOUS
<1> DEFINE msg == write_alloc_request(cmd.size)
<1>1. msg.m_type = "C" /\ msg.len = cmd.size
  BY DEF write_alloc_request, Request
<1>2. PICK rc \in rcs : /\ dev_write(msg, rc)
                        /\ IF rc < 0 THEN Finish("ALLOCATION_FAILURE")
                           ELSE pc' = "read" /\ UNCHANGED <<cmd, u_ptr, err_code>>
  BY DEF allocate_unimem
<1>3. handle_write_C(msg, rc)
  BY <1>1, <1>2 DEF dev_write
<1>4. CASE rc > 0
  <2>1. PICK a \in Addrs \ allocated :
           /\ allocated' = allocated \cup {a}
           /\ buf_size' = [buf_size EXCEPT ![a] = msg.len]
           /\ s_return_msg' = [m_type |-> "z", addr |-> a]
    BY <1>3, <1>4 DEF handle_write_C, rcs
  <2>2. Allocates(a)
    BY <1>1, <1>2, <1>3, <1>4, <2>1
    DEF allocate_unimem, Allocates, handle_write_C, memVars, rcs
  <2>3. QED
    BY <2>2
<1>5. CASE rc < 0
  BY <1>2, <1>3, <1>5
  DEF allocate_unimem, AllocationFails, handle_write_C, memVars, rcs
<1>6. QED
  BY <1>4, <1>5 DEF rcs

\* Every step of the handlers, of the driver and of a dying process keeps the
\* types.
LEMMA TypeStep == UnimemTypeOK /\ HandlerInv /\ [UnimemNext]_unimemVars => UnimemTypeOK'
<1> SUFFICES ASSUME UnimemTypeOK, HandlerInv, [UnimemNext]_unimemVars
             PROVE  UnimemTypeOK'
  OBVIOUS
<1> USE NullAssumption, UnwrittenAssumption
<1>1. CASE UnimemManager
  BY <1>1 DEF UnimemManager, dev_open, UnimemTypeOK, memVars
<1>2. CASE ProcessEnds
  <2>1. Held \subseteq Addrs
    <3>1. \A m \in Mems : m_unimem_ptr[m] \in Addrs \cup {Null}
      BY DEF UnimemTypeOK
    <3>2. QED
      BY <3>1, Zenon DEF Held
  <2>2. InFlight \subseteq Addrs
    BY DEF UnimemTypeOK, InFlight, HandlerInv
  <2>3. QED
    BY <1>2, <2>1, <2>2 DEF ProcessEnds, dev_release, UnimemTypeOK
<1>3. ASSUME NEW c \in Command, handle_write_command(c)
      PROVE  UnimemTypeOK'
  BY <1>3 DEF handle_write_command, Finish, UnimemTypeOK, driverVars, memVars
<1>4. ASSUME NEW c \in Command, handle_read_command(c)
      PROVE  UnimemTypeOK'
  <2>1. UNCHANGED driverVars
    BY <1>4
    DEF handle_read_command, copy_from_unimem, dev_write, handle_write_R,
        copy_unimem_buffer_to_user, Request
  <2>2. err_code' \in {"SUCCESS", "ONE", "INVALID_MEM_OBJECT", "INVALID_VALUE",
                       "ALLOCATION_FAILURE"}
    BY <1>4 DEF handle_read_command, ReadError
  <2>3. QED
    BY <1>4, <2>1, <2>2 DEF handle_read_command, UnimemTypeOK, driverVars, memVars
<1>5. CASE allocate_unimem
  <2>1. cmd.size \in Sizes
    BY <1>5, CommandFields DEF allocate_unimem, HandlerInv
  <2>2. CASE AllocationFails
    BY <2>2 DEF AllocationFails, Finish, UnimemTypeOK
  <2>3. ASSUME NEW a \in Addrs \ allocated, Allocates(a)
        PROVE  UnimemTypeOK'
    BY <2>1, <2>3 DEF Allocates, UnimemTypeOK
  <2>4. QED
    BY <1>5, <2>2, <2>3, AllocateEffect
<1>6. CASE read_alloc_response
  BY <1>6 DEF read_alloc_response, dev_read, UnimemTypeOK, memVars
<1>7. CASE CopyOfReplyFails
  BY <1>7 DEF CopyOfReplyFails, dev_read, Finish, HandlerInv, UnimemTypeOK, memVars
<1>8. CASE copy_to_unimem
  <2>1. cmd.ptr \in Data
    BY <1>8, CommandFields DEF copy_to_unimem, HandlerInv
  <2>2. PICK rc \in rcs :
           /\ handle_write_W(copy_user_buffer_to_unimem(u_ptr, cmd.ptr, cmd.size), rc)
           /\ pc' = IF rc < 0 THEN "D" ELSE "set"
    BY <1>8 DEF copy_to_unimem, dev_write, copy_user_buffer_to_unimem, Request
  <2>3. QED
    BY <1>8, <2>1, <2>2
    DEF copy_to_unimem, handle_write_W, copy_user_buffer_to_unimem, Request,
        UnimemTypeOK, memVars
<1>9. CASE release_unimem
  BY <1>9
  DEF release_unimem, dev_write, handle_write_D, write_destroy_request, Request,
      Finish, UnimemTypeOK, memVars
<1>10. CASE set_unimem_ptr
  <2>1. /\ cmd.mem \in Mems /\ cmd.size \in Sizes /\ cmd.ptr \in Data \cup {Null}
        /\ u_ptr \in Addrs
    BY <1>10, CommandFields DEF set_unimem_ptr, HandlerInv, UnimemTypeOK
  <2>2. contents[u_ptr] \in Data \cup {Unwritten} /\ m_unimem_ptr[cmd.mem] \in Addrs \cup {Null}
    BY <2>1 DEF UnimemTypeOK
  <2>3. QED
    BY <1>10, <2>1, <2>2 DEF set_unimem_ptr, Finish, UnimemTypeOK, driverVars
<1>11. ASSUME NEW m \in Mems, clReleaseMemObject(m)
       PROVE  UnimemTypeOK'
  <2>1. m_unimem_ptr[m] \in Addrs \cup {Null}
    BY DEF UnimemTypeOK
  <2>2. QED
    BY <1>11, <2>1 DEF clReleaseMemObject, UnimemTypeOK, driverVars
<1>12. CASE UNCHANGED unimemVars
  BY <1>12 DEF unimemVars, UnimemTypeOK, driverVars, memVars
<1>13. QED
  BY <1>1, <1>2, <1>3, <1>4, <1>5, <1>6, <1>7, <1>8, <1>9, <1>10, <1>11, <1>12
  DEF UnimemNext

-----------------------------------------------------------------------------
\* A step that changes neither the cl_mems, the buffers' bookkeeping, nor the
\* buffers the handler points to, leaves ownership as it was.
LEMMA OwnersFrame ==
    ASSUME OwnersDisjoint, SizesAgree, ReadsSeeLastWrite, BuffersAccountedFor,
           UNCHANGED <<m_unimem_ptr, m_size, written, allocated, buf_size,
                       contents, lost>>,
           InFlight' = InFlight
    PROVE  (OwnersDisjoint /\ SizesAgree /\ ReadsSeeLastWrite
               /\ BuffersAccountedFor)'
<1>1. Held' = Held
  BY DEF Held
<1>2. QED
  BY <1>1
  DEF OwnersDisjoint, SizesAgree, ReadsSeeLastWrite, BuffersAccountedFor

\* A process dies: what it pointed to is lost, and it points to nothing.
LEMMA InvProcessEnds == IInv /\ UnimemTypeOK' /\ ProcessEnds => IInv'
<1> SUFFICES ASSUME IInv, ProcessEnds, UnimemTypeOK' PROVE IInv'
  OBVIOUS
<1>1. Held' = {} /\ InFlight' = {}
  BY DEF ProcessEnds, Held, InFlight
<1>2. HandlerInv'
  BY DEF ProcessEnds, HandlerInv
<1>3. OwnersDisjoint' /\ SizesAgree' /\ ReadsSeeLastWrite'
  BY <1>1 DEF ProcessEnds, OwnersDisjoint, SizesAgree, ReadsSeeLastWrite
<1>4. BuffersAccountedFor'
  BY <1>1 DEF ProcessEnds, dev_release, IInv, BuffersAccountedFor
<1>5. QED
  BY <1>2, <1>3, <1>4 DEF IInv

\* A released object points to nothing, and the buffer it had is lost.
LEMMA InvReleaseMem ==
    ASSUME IInv, UnimemTypeOK', NEW mem \in Mems, clReleaseMemObject(mem)
    PROVE  IInv'
<1> USE NullAssumption
<1> DEFINE old == m_unimem_ptr[mem]
<1>1. /\ pc # "closed" /\ lost' = lost \cup ({old} \ {Null})
      /\ UNCHANGED <<driverVars, pc, cmd, u_ptr>>
  BY DEF clReleaseMemObject
<1>2. \A m \in Mems :
         /\ m_unimem_ptr'[m] = IF m = mem THEN Null ELSE m_unimem_ptr[m]
         /\ m # mem => m_size'[m] = m_size[m] /\ written'[m] = written[m]
  BY DEF clReleaseMemObject, IInv, UnimemTypeOK
<1>3. InFlight' = InFlight
  BY <1>1 DEF InFlight, driverVars
<1>4. \A m, n \in Mems : m # n /\ m_unimem_ptr[m] # Null
                             => m_unimem_ptr[m] # m_unimem_ptr[n]
  BY DEF IInv, OwnersDisjoint
<1>5. Held' = Held \ {old}
  <2>1. \A a : a \in Held <=> a # Null /\ \E m \in Mems : a = m_unimem_ptr[m]
    BY DEF Held
  <2>2. \A a : a \in Held' <=> a # Null /\ \E m \in Mems : a = m_unimem_ptr'[m]
    BY DEF Held
  <2>3. ASSUME NEW a PROVE a \in Held' <=> a \in Held \ {old}
    BY <1>2, <1>4, <2>1, <2>2
  <2>4. QED
    BY <2>3
<1>6. old # Null => old \in Held
  BY DEF Held
<1>7. HandlerInv'
  BY <1>1 DEF HandlerInv, IInv, driverVars
<1>8. OwnersDisjoint'
  <2>1. \A m, n \in Mems : m # n /\ m_unimem_ptr'[m] # Null
                              => m_unimem_ptr'[m] # m_unimem_ptr'[n]
    BY <1>2, <1>4
  <2>2. Held' \cap InFlight' = {} /\ (Held' \cup InFlight') \cap lost' = {}
    BY <1>1, <1>3, <1>5, <1>6 DEF IInv, OwnersDisjoint
  <2>3. QED
    BY <2>1, <2>2 DEF OwnersDisjoint
<1>9. BuffersAccountedFor'
  <2>1. Null \notin allocated /\ allocated' = allocated
    BY <1>1 DEF IInv, UnimemTypeOK, driverVars
  <2>2. QED
    BY <1>1, <1>3, <1>5, <1>6, <2>1 DEF IInv, BuffersAccountedFor
<1>10. SizesAgree' /\ ReadsSeeLastWrite'
  BY <1>1, <1>2 DEF SizesAgree, ReadsSeeLastWrite, IInv, driverVars
<1>11. QED
  BY <1>7, <1>8, <1>9, <1>10 DEF IInv

\* A request for a buffer: the driver's new buffer is nobody's before, and is
\* the one the reply names.
LEMMA InvAllocate == IInv /\ UnimemTypeOK' /\ allocate_unimem => IInv'
<1> SUFFICES ASSUME IInv, UnimemTypeOK', allocate_unimem PROVE IInv'
  OBVIOUS
<1> USE NullAssumption
<1>1. u_ptr = Null /\ pc = "C"
  BY DEF allocate_unimem, IInv, HandlerInv
<1>2. InFlight = {}
  BY <1>1 DEF InFlight
<1>3. CASE AllocationFails
  <2>1. InFlight' = InFlight
    BY <1>2, <1>3 DEF AllocationFails, Finish, InFlight
  <2>2. HandlerInv'
    BY <1>3 DEF AllocationFails, Finish, HandlerInv
  <2>3. QED
    BY <1>3, <2>1, <2>2, OwnersFrame DEF AllocationFails, IInv
<1>4. ASSUME NEW a \in Addrs \ allocated, Allocates(a)
      PROVE  IInv'
  <2>1. InFlight' = {a} /\ Held' = Held
    BY <1>1, <1>4 DEF Allocates, InFlight, Held
  <2>2. a \notin Held /\ a \notin lost
    BY DEF IInv, BuffersAccountedFor
  <2>3. HandlerInv'
    BY <1>1, <1>4 DEF Allocates, HandlerInv, IInv, UnimemTypeOK
  <2>4. OwnersDisjoint' /\ BuffersAccountedFor'
    BY <1>2, <1>4, <2>1, <2>2
    DEF Allocates, OwnersDisjoint, BuffersAccountedFor, IInv
  <2>5. \A m \in Mems : m_unimem_ptr[m] # Null => m_unimem_ptr[m] \in Held
    BY DEF Held
  <2>6. \A b \in Held : buf_size'[b] = buf_size[b]
    <3>1. buf_size \in [Addrs -> Sizes \cup {0}]
      BY DEF IInv, UnimemTypeOK
    <3>2. Held \subseteq Addrs
      BY DEF IInv, UnimemTypeOK, BuffersAccountedFor
    <3>3. QED
      BY <1>4, <2>2, <3>1, <3>2 DEF Allocates
  <2>7. SizesAgree' /\ ReadsSeeLastWrite'
    BY <1>4, <2>5, <2>6 DEF Allocates, SizesAgree, ReadsSeeLastWrite, IInv
  <2>8. QED
    BY <2>3, <2>4, <2>7 DEF IInv
<1>5. QED
  BY <1>3, <1>4, AllocateEffect

\* The handler takes the reply to its own request.
LEMMA InvReadReply == IInv /\ UnimemTypeOK' /\ read_alloc_response => IInv'
<1> SUFFICES ASSUME IInv, UnimemTypeOK', read_alloc_response PROVE IInv'
  OBVIOUS
<1> USE NullAssumption
<1>1. /\ pc = "read" /\ u_ptr = Null /\ s_return_msg.addr # Null
      /\ s_return_msg.m_type = "z" /\ u_ptr' = s_return_msg.addr
      /\ pc' \in {"set", "W"} /\ (pc' = "set" <=> cmd.ptr = Null)
  BY DEF read_alloc_response, IInv, HandlerInv, dev_read
<1>2. InFlight' = InFlight
  BY <1>1 DEF InFlight
<1>3. HandlerInv'
  BY <1>1 DEF read_alloc_response, dev_read, HandlerInv, IInv
<1>4. QED
  BY <1>2, <1>3, OwnersFrame DEF read_alloc_response, dev_read, memVars, IInv

\* A reply that the handler has no memory for is forgotten.
LEMMA InvReplyLost == IInv /\ UnimemTypeOK' /\ CopyOfReplyFails => IInv'
<1> SUFFICES ASSUME IInv, UnimemTypeOK', CopyOfReplyFails PROVE IInv'
  OBVIOUS
<1>1. /\ pc = "read" /\ u_ptr = Null /\ s_return_msg.m_type = "z"
      /\ pc' = "idle" /\ u_ptr' = Null
      /\ lost' = lost \cup {s_return_msg.addr}
  BY DEF CopyOfReplyFails, dev_read, Finish, IInv, HandlerInv
<1>2. InFlight = {s_return_msg.addr} /\ InFlight' = {} /\ Held' = Held
  BY <1>1 DEF InFlight, Held, CopyOfReplyFails, memVars
<1>3. HandlerInv'
  BY <1>1 DEF HandlerInv
<1>4. OwnersDisjoint' /\ BuffersAccountedFor'
  BY <1>1, <1>2
  DEF CopyOfReplyFails, dev_read, memVars, OwnersDisjoint, BuffersAccountedFor, IInv
<1>5. SizesAgree' /\ ReadsSeeLastWrite'
  BY DEF CopyOfReplyFails, dev_read, memVars, SizesAgree, ReadsSeeLastWrite, IInv
<1>6. QED
  BY <1>3, <1>4, <1>5 DEF IInv

\* The data, or some of it, goes into the handler's own buffer.
LEMMA InvCopy == IInv /\ UnimemTypeOK' /\ copy_to_unimem => IInv'
<1> SUFFICES ASSUME IInv, UnimemTypeOK', copy_to_unimem PROVE IInv'
  OBVIOUS
<1>1. PICK rc \in rcs :
         /\ handle_write_W(copy_user_buffer_to_unimem(u_ptr, cmd.ptr, cmd.size), rc)
         /\ pc' = IF rc < 0 THEN "D" ELSE "set"
  BY DEF copy_to_unimem, dev_write, copy_user_buffer_to_unimem, Request
<1>2. /\ contents' = [contents EXCEPT ![u_ptr] = IF rc > 0 THEN cmd.ptr ELSE Unwritten]
      /\ UNCHANGED <<s_dev_opened, s_return_msg, allocated, buf_size>>
  BY <1>1 DEF handle_write_W, copy_user_buffer_to_unimem, Request
<1>3. /\ pc = "W" /\ pc' \in {"D", "set"} /\ (pc' = "set" => rc > 0)
      /\ u_ptr # Null /\ u_ptr \in Addrs
      /\ UNCHANGED <<m_unimem_ptr, m_size, written, cmd, u_ptr, lost>>
  <2>1. pc = "W" /\ UNCHANGED <<m_unimem_ptr, m_size, written, cmd, u_ptr, lost>>
    BY DEF copy_to_unimem, memVars
  <2>2. u_ptr # Null /\ u_ptr \in Addrs
    BY <2>1 DEF IInv, HandlerInv, UnimemTypeOK
  <2>3. pc' \in {"D", "set"} /\ (pc' = "set" => rc > 0)
    BY <1>1 DEF rcs
  <2>4. QED
    BY <2>1, <2>2, <2>3
<1>4. InFlight' = InFlight /\ u_ptr \in InFlight /\ Held' = Held
  BY <1>3 DEF InFlight, Held
<1>5. HandlerInv'
  BY <1>2, <1>3 DEF HandlerInv, IInv, UnimemTypeOK
<1>6. OwnersDisjoint' /\ SizesAgree' /\ BuffersAccountedFor'
  BY <1>2, <1>3, <1>4
  DEF OwnersDisjoint, SizesAgree, BuffersAccountedFor, IInv
<1>7. \A m \in Mems : m_unimem_ptr[m] # Null => m_unimem_ptr[m] # u_ptr
  BY <1>4 DEF Held, OwnersDisjoint, IInv
<1>8. ReadsSeeLastWrite'
  BY <1>2, <1>3, <1>7 DEF ReadsSeeLastWrite, IInv, UnimemTypeOK
<1>9. QED
  BY <1>5, <1>6, <1>8 DEF IInv

\* The buffer of a copy that failed goes back to the driver.
LEMMA InvRelease == IInv /\ UnimemTypeOK' /\ release_unimem => IInv'
<1> SUFFICES ASSUME IInv, UnimemTypeOK', release_unimem PROVE IInv'
  OBVIOUS
<1>1. /\ allocated' = allocated \ {u_ptr}
      /\ UNCHANGED <<s_return_msg, buf_size, contents, m_unimem_ptr, m_size,
                     written, lost>>
  BY DEF release_unimem, dev_write, handle_write_D, write_destroy_request, Request,
         memVars
<1>2. pc = "D" /\ pc' = "idle" /\ u_ptr # Null /\ u_ptr' = Null
  BY DEF release_unimem, Finish, IInv, HandlerInv
<1>3. InFlight = {u_ptr} /\ InFlight' = {} /\ Held' = Held
  BY <1>1, <1>2 DEF InFlight, Held
<1>4. HandlerInv'
  BY <1>2 DEF HandlerInv
<1>5. OwnersDisjoint' /\ BuffersAccountedFor'
  BY <1>1, <1>3 DEF OwnersDisjoint, BuffersAccountedFor, IInv
<1>6. SizesAgree' /\ ReadsSeeLastWrite'
  BY <1>1 DEF SizesAgree, ReadsSeeLastWrite, IInv
<1>7. QED
  BY <1>4, <1>5, <1>6 DEF IInv

\* The cl_mem takes over the handler's buffer, and the one it had is lost.
LEMMA InvSetPtr == IInv /\ UnimemTypeOK' /\ set_unimem_ptr => IInv'
<1> SUFFICES ASSUME IInv, UnimemTypeOK', set_unimem_ptr PROVE IInv'
  OBVIOUS
<1> USE NullAssumption
<1> DEFINE mem == cmd.mem
           old == m_unimem_ptr[mem]
<1>1. /\ pc = "set" /\ pc' = "idle" /\ u_ptr' = Null
      /\ UNCHANGED <<s_return_msg, allocated, buf_size, contents>>
      /\ lost' = lost \cup ({old} \ {Null})
  BY DEF set_unimem_ptr, Finish, driverVars
<1>2. /\ cmd \in Command /\ u_ptr # Null /\ buf_size[u_ptr] = cmd.size
      /\ (cmd.ptr # Null => contents[u_ptr] = cmd.ptr)
  BY <1>1 DEF IInv, HandlerInv
<1>3. mem \in Mems
  BY <1>2, CommandFields
<1>4. \A m \in Mems :
         /\ m_unimem_ptr'[m] = IF m = mem THEN u_ptr ELSE m_unimem_ptr[m]
         /\ m_size'[m] = IF m = mem THEN cmd.size ELSE m_size[m]
         /\ written'[m] = IF m = mem
                          THEN IF cmd.ptr = Null THEN contents[u_ptr] ELSE cmd.ptr
                          ELSE written[m]
  BY DEF set_unimem_ptr, IInv, UnimemTypeOK
<1>5. InFlight = {u_ptr} /\ InFlight' = {}
  BY <1>1, <1>2 DEF InFlight
<1>6. \A m \in Mems : m_unimem_ptr[m] # Null => m_unimem_ptr[m] # u_ptr
  BY <1>5 DEF IInv, OwnersDisjoint, Held
<1>7. \A m, n \in Mems : m # n /\ m_unimem_ptr[m] # Null
                             => m_unimem_ptr[m] # m_unimem_ptr[n]
  BY DEF IInv, OwnersDisjoint
<1>8. Held' = (Held \ {old}) \cup {u_ptr}
  <2>1. \A a : a \in Held <=> a # Null /\ \E m \in Mems : a = m_unimem_ptr[m]
    BY DEF Held
  <2>2. \A a : a \in Held' <=> a # Null /\ \E m \in Mems : a = m_unimem_ptr'[m]
    BY DEF Held
  <2>3. ASSUME NEW a PROVE a \in Held' <=> a \in (Held \ {old}) \cup {u_ptr}
    <3>1. CASE a = u_ptr
      BY <1>2, <1>3, <1>4, <2>2, <3>1
    <3>2. CASE a # u_ptr
      BY <1>3, <1>4, <1>7, <2>1, <2>2, <3>2
    <3>3. QED
      BY <3>1, <3>2
  <2>4. QED
    BY <2>3
<1>9. HandlerInv'
  BY <1>1 DEF HandlerInv
<1>10. OwnersDisjoint'
  <2>1. \A m, n \in Mems : m # n /\ m_unimem_ptr'[m] # Null
                              => m_unimem_ptr'[m] # m_unimem_ptr'[n]
    BY <1>2, <1>4, <1>6, <1>7
  <2>2. (Held' \cup InFlight') \cap lost' = {}
    BY <1>1, <1>2, <1>3, <1>5, <1>6, <1>8 DEF IInv, OwnersDisjoint
  <2>3. QED
    BY <1>5, <2>1, <2>2 DEF OwnersDisjoint
<1>11. BuffersAccountedFor'
  <2>1. old # Null => old \in Held
    BY <1>3 DEF Held
  <2>2. Null \notin allocated
    BY DEF IInv, UnimemTypeOK
  <2>3. QED
    BY <1>1, <1>5, <1>8, <2>1, <2>2 DEF IInv, BuffersAccountedFor
<1>12. SizesAgree'
  BY <1>1, <1>2, <1>4 DEF SizesAgree, IInv
<1>13. ReadsSeeLastWrite'
  BY <1>1, <1>2, <1>4 DEF ReadsSeeLastWrite, IInv
<1>14. QED
  BY <1>9, <1>10, <1>11, <1>12, <1>13 DEF IInv

\* Every step keeps the inductive invariant.
LEMMA InvStep == IInv /\ [UnimemNext]_unimemVars => IInv'
<1> SUFFICES ASSUME IInv, [UnimemNext]_unimemVars PROVE IInv'
  OBVIOUS
<1> USE DEF IInv
<1>1. UnimemTypeOK'
  BY TypeStep
<1>2. CASE UnimemManager
  <2>1. /\ pc = "closed" /\ pc' = "idle"
        /\ UNCHANGED <<s_return_msg, allocated, buf_size, contents, memVars,
                       cmd, u_ptr, lost>>
    BY <1>2 DEF UnimemManager, dev_open
  <2>2. InFlight' = InFlight
    BY <2>1 DEF InFlight
  <2>3. HandlerInv'
    BY <2>1 DEF HandlerInv
  <2>4. QED
    BY <1>1, <2>1, <2>2, <2>3, OwnersFrame DEF memVars
<1>3. ASSUME NEW c \in Command, handle_write_command(c)
      PROVE  IInv'
  <2>1. /\ pc = "idle" /\ UNCHANGED <<driverVars, memVars, lost>>
        /\ \/ pc' = "idle" /\ u_ptr' = Null
           \/ pc' = "C" /\ cmd' = c /\ u_ptr' = u_ptr
    BY <1>3 DEF handle_write_command, Finish
  <2>2. u_ptr = Null
    BY <2>1 DEF HandlerInv
  <2>3. InFlight' = InFlight
    BY <2>1, <2>2 DEF InFlight, driverVars
  <2>4. HandlerInv'
    BY <2>1, <2>2 DEF HandlerInv
  <2>5. QED
    BY <1>1, <2>1, <2>3, <2>4, OwnersFrame DEF driverVars, memVars
<1>4. ASSUME NEW c \in Command, handle_read_command(c)
      PROVE  IInv'
  <2>1. UNCHANGED <<driverVars, memVars, pc, cmd, u_ptr, lost>>
    BY <1>4
    DEF handle_read_command, copy_from_unimem, dev_write, handle_write_R,
        copy_unimem_buffer_to_user, Request
  <2>2. InFlight' = InFlight
    BY <2>1 DEF InFlight, driverVars
  <2>3. HandlerInv'
    BY <2>1 DEF HandlerInv, driverVars, memVars
  <2>4. QED
    BY <1>1, <2>1, <2>2, <2>3, OwnersFrame DEF driverVars, memVars
<1>5. CASE UNCHANGED unimemVars
  <2>1. InFlight' = InFlight /\ HandlerInv'
    BY <1>5 DEF unimemVars, driverVars, memVars, InFlight, HandlerInv
  <2>2. QED
    BY <1>1, <1>5, <2>1, OwnersFrame DEF unimemVars, driverVars, memVars
<1>6. QED
  BY <1>1, <1>2, <1>3, <1>4, <1>5, InvProcessEnds, InvReleaseMem, InvAllocate,
     InvReadReply, InvReplyLost, InvCopy, InvRelease, InvSetPtr
  DEF UnimemNext

\* In every state of every run the inductive invariant holds.
LEMMA Invariance == UnimemSpec => []IInv
<1>1. QED
  BY InvInit, InvStep, PTL DEF UnimemSpec

-----------------------------------------------------------------------------
\* A buffer is one cl_mem's only, is allocated for as long as the cl_mem points
\* to it, and is as large as the cl_mem says: unimem_manager.cc and
\* handle_write_command never let two objects share one, nor a read or a write
\* run past the end of one. (Type correctness is its first conjunct.)
THEOREM PointersAreValid == UnimemSpec => []PointersValid
<1>1. IInv => PointersValid
  <2> SUFFICES ASSUME IInv, NEW m \in Mems, m_unimem_ptr[m] # Null
               PROVE  /\ m_unimem_ptr[m] \in allocated \ (lost \cup InFlight)
                      /\ buf_size[m_unimem_ptr[m]] = m_size[m]
                      /\ \A n \in Mems \ {m} : m_unimem_ptr[n] # m_unimem_ptr[m]
    BY DEF IInv, PointersValid
  <2>1. m_unimem_ptr[m] \in Held
    BY DEF Held
  <2>2. QED
    BY <2>1 DEF IInv, OwnersDisjoint, SizesAgree, BuffersAccountedFor
<1>2. QED
  BY <1>1, Invariance, PTL

\* A read with success delivers what was last written with success: failed
\* writes, other objects' writes and earlier processes leave the buffer alone.
THEOREM ReadsSeeWrites == UnimemSpec => []ReadsSeeLastWrite
<1>1. IInv => ReadsSeeLastWrite
  BY DEF IInv
<1>2. QED
  BY <1>1, Invariance, PTL

\* handle_write_command gives a buffer back when the copy fails. Besides that one,
\* a buffer is some object's, the handler's, or lost: by a second write to its
\* object, by clReleaseMemObject, by a malloc that failed or by the end of the
\* process. There is no other way to lose one, and none is freed while in use.
THEOREM NoBufferForgotten == UnimemSpec => []BuffersAccountedFor
<1>1. IInv => BuffersAccountedFor
  BY DEF IInv
<1>2. QED
  BY <1>1, Invariance, PTL
===============================================================================
