------------------------------- MODULE Unimem -------------------------------
(***************************************************************************)
(* Buffer memory: the dispatcher's handlers of write and read commands, the *)
(* UnimemManager they use (dispatcher.cc, unimem_manager.cc,                *)
(* unimem_utils.h), and the character device behind it                      *)
(* (unimem_buffer_alloc.c, buffer_ops.h).                                   *)
(*                                                                          *)
(* Commands are handled one at a time, by the event-loop thread; a step is  *)
(* a system call of the handler, each of which may fail. The process may    *)
(* die between two of them, while the driver's state lives on for the next  *)
(* process that opens the device. Two processes do not open it at the same  *)
(* instant. A program releases a memory object from its own thread, after   *)
(* the object's last command, which holds no reference to it.               *)
(***************************************************************************)
EXTENDS Integers

CONSTANTS Mems,      \* cl_mem objects
          Addrs,     \* kernel addresses of buffers
          Sizes,     \* sizes of commands and buffers
          Data,      \* what a host buffer holds
          Null,      \* a null pointer, of any kind
          Unwritten  \* what memory holds that nobody has written

ASSUME NullAssumption == Null \notin Addrs /\ Null \notin Data
ASSUME UnwrittenAssumption == Unwritten \notin Data
ASSUME SizesAssumption == Sizes \subseteq Nat

VARIABLES
    \* the driver
    s_dev_opened,   \* some process has the device open
    s_return_msg,   \* the reply waiting to be read, of m_type "z", or ""
    allocated,      \* the addresses vmalloc handed out and vfree did not take
    buf_size,       \* the size asked for at an address
    contents,       \* what the buffer at an address holds
    \* the library
    m_unimem_ptr,   \* of each cl_mem: the address struct it keeps, or Null
    m_size,         \* of each cl_mem
    pc, cmd,        \* the handler's next system call, and its command
    u_ptr,          \* its local: the buffer just allocated
    err_code,       \* what the last command's event was given
    \* history
    written,        \* the data last written to a cl_mem with success
    lost            \* buffers that nothing points to any more

driverVars == <<s_dev_opened, s_return_msg, allocated, buf_size, contents>>
memVars    == <<m_unimem_ptr, m_size, written>>
unimemVars == <<driverVars, memVars, pc, cmd, u_ptr, err_code, lost>>

NoReply == [m_type |-> "", addr |-> Null]
Command == [mem : Mems, size : Sizes, ptr : Data \cup {Null}]
NoCommand == [mem |-> Null, size |-> 0, ptr |-> Null]

\* init_func of the driver; no process has opened it yet.
UnimemInit == /\ s_dev_opened = FALSE
              /\ s_return_msg = NoReply
              /\ allocated = {}
              /\ buf_size = [a \in Addrs |-> 0]
              /\ contents = [a \in Addrs |-> Unwritten]
              /\ m_unimem_ptr = [m \in Mems |-> Null]
              /\ m_size = [m \in Mems |-> 0]
              /\ pc = "closed" /\ cmd = NoCommand /\ u_ptr = Null
              /\ err_code = "SUCCESS"
              /\ written = [m \in Mems |-> Unwritten]
              /\ lost = {}

\* The buffers that the library's objects and the handler point to.
Held == {m_unimem_ptr[m] : m \in Mems} \ {Null}
InFlight == (IF s_return_msg.m_type = "z" /\ pc = "read" THEN {s_return_msg.addr}
                                                        ELSE {})
            \cup ({u_ptr} \ {Null})

\* set_error and set_as_complete; the handler returns.
Finish(code) == /\ err_code' = code
                /\ pc' = "idle"
                /\ cmd' = NoCommand
                /\ u_ptr' = Null

-----------------------------------------------------------------------------
(* The driver. A handler's rc is negative when it fails.                     *)

rcs == {1, -1}

\* dev_open admits one user.
dev_open == /\ ~s_dev_opened
            /\ s_dev_opened' = TRUE
            /\ UNCHANGED <<s_return_msg, allocated, buf_size, contents>>

\* The driver keeps the buffers and the reply.
dev_release == /\ s_dev_opened' = FALSE
               /\ UNCHANGED <<s_return_msg, allocated, buf_size, contents>>

\* A reply is handed out once.
dev_read == /\ s_return_msg.m_type = "z"
            /\ s_return_msg' = [s_return_msg EXCEPT !.m_type = ""]
            /\ UNCHANGED <<s_dev_opened, allocated, buf_size, contents>>

\* vmalloc finds an address that is not in use, whose memory holds whatever it
\* held before, and the reply is set; or it finds none, and the address in the
\* reply is overwritten, its type is not.
handle_write_C(msg, rc) ==
    /\ \/ /\ rc > 0
          /\ \E a \in Addrs \ allocated :
                /\ allocated' = allocated \cup {a}
                /\ buf_size' = [buf_size EXCEPT ![a] = msg.len]
                /\ s_return_msg' = [m_type |-> "z", addr |-> a]
       \/ /\ rc < 0
          /\ s_return_msg' = [s_return_msg EXCEPT !.addr = Null]
          /\ UNCHANGED <<allocated, buf_size>>
    /\ UNCHANGED <<s_dev_opened, contents>>

\* vfree.
handle_write_D(msg, rc) ==
    /\ rc > 0
    /\ allocated' = allocated \ {msg.addr}
    /\ UNCHANGED <<s_dev_opened, s_return_msg, buf_size, contents>>

\* All the data is copied, or some of it.
handle_write_W(msg, rc) ==
    /\ contents' = [contents EXCEPT ![msg.addr] = IF rc > 0 THEN msg.ptr ELSE Unwritten]
    /\ UNCHANGED <<s_dev_opened, s_return_msg, allocated, buf_size>>

\* The buffer is copied to the reader, or not all of it.
handle_write_R(msg, rc) == UNCHANGED driverVars

dev_write(msg, rc) == CASE msg.m_type = "C" -> handle_write_C(msg, rc)
                        [] msg.m_type = "D" -> handle_write_D(msg, rc)
                        [] msg.m_type = "W" -> handle_write_W(msg, rc)
                        [] msg.m_type = "R" -> handle_write_R(msg, rc)

-----------------------------------------------------------------------------
(* The requests of the library: a type and the fields behind it.            *)

Request(type, addr, ptr, len) ==
    [m_type |-> type, addr |-> addr, ptr |-> ptr, len |-> len]
write_alloc_request(size)   == Request("C", Null, Null, size)
write_destroy_request(addr) == Request("D", addr, Null, 0)
copy_user_buffer_to_unimem(addr, ptr, len) == Request("W", addr, ptr, len)
copy_unimem_buffer_to_user(ptr, len, addr) == Request("R", addr, ptr, len)

-----------------------------------------------------------------------------
(* Processes. *)

\* The constructor opens the device; a process that may not dies of it.
UnimemManager == /\ pc = "closed"
                 /\ dev_open
                 /\ pc' = "idle"
                 /\ UNCHANGED <<memVars, cmd, u_ptr, err_code, lost>>

\* The process ends or dies, and the device is closed for it.
ProcessEnds == /\ pc # "closed"
               /\ dev_release
               /\ pc' = "closed" /\ cmd' = NoCommand /\ u_ptr' = Null
               /\ m_unimem_ptr' = [m \in Mems |-> Null]
               /\ m_size' = [m \in Mems |-> 0]
               /\ written' = [m \in Mems |-> Unwritten]
               /\ lost' = lost \cup Held \cup InFlight
               /\ UNCHANGED err_code

\* The object is deleted, and its UnimemPtr with it, which has no destructor: the
\* buffer stays with the driver. The name may then be a new object's.
clReleaseMemObject(m) ==
    /\ pc # "closed" /\ cmd.mem # m
    /\ m_unimem_ptr' = [m_unimem_ptr EXCEPT ![m] = Null]
    /\ m_size' = [m_size EXCEPT ![m] = 0]
    /\ written' = [written EXCEPT ![m] = Unwritten]
    /\ lost' = lost \cup ({m_unimem_ptr[m]} \ {Null})
    /\ UNCHANGED <<driverVars, pc, cmd, u_ptr, err_code>>

-----------------------------------------------------------------------------
(* handle_write_command. *)

\* check_read_write_params. (Its callers compare before they assign, so the
\* error code they pass on is 1.)
handle_write_command(c) ==
    /\ pc = "idle"
    /\ IF c.size < 1
       THEN Finish("ONE")
       ELSE pc' = "C" /\ cmd' = c /\ UNCHANGED <<u_ptr, err_code>>
    /\ UNCHANGED <<driverVars, memVars, lost>>

\* The request of allocate_unimem.
allocate_unimem ==
    /\ pc = "C"
    /\ \E rc \in rcs :
          /\ dev_write(write_alloc_request(cmd.size), rc)
          /\ IF rc < 0 THEN Finish("ALLOCATION_FAILURE")
                       ELSE pc' = "read" /\ UNCHANGED <<cmd, u_ptr, err_code>>
    /\ UNCHANGED <<memVars, lost>>

\* Mutant: the reply of another request is taken.
Mutant_read_alloc_response ==
    /\ pc = "read"
    /\ dev_read
    /\ \E a \in allocated : u_ptr' = a
    /\ pc' = IF cmd.ptr = Null THEN "set" ELSE "W"
    /\ UNCHANGED <<memVars, cmd, err_code, lost>>

\* Its reply, of which the handler keeps a copy.
read_alloc_response ==
    /\ pc = "read"
    /\ dev_read
    /\ u_ptr' = s_return_msg.addr
    /\ pc' = IF cmd.ptr = Null THEN "set" ELSE "W"
    /\ UNCHANGED <<memVars, cmd, err_code, lost>>

\* malloc has no room for the copy: the buffer is forgotten.
CopyOfReplyFails ==
    /\ pc = "read"
    /\ dev_read
    /\ lost' = lost \cup {s_return_msg.addr}
    /\ Finish("ALLOCATION_FAILURE")
    /\ UNCHANGED memVars

\* Mutant: the return code of the copy is not looked at.
Mutant_copy_to_unimem ==
    /\ pc = "W"
    /\ \E rc \in rcs :
          dev_write(copy_user_buffer_to_unimem(u_ptr, cmd.ptr, cmd.size), rc)
    /\ pc' = "set"
    /\ UNCHANGED <<memVars, cmd, u_ptr, err_code, lost>>

copy_to_unimem ==
    /\ pc = "W"
    /\ \E rc \in rcs :
          /\ dev_write(copy_user_buffer_to_unimem(u_ptr, cmd.ptr, cmd.size), rc)
          /\ pc' = IF rc < 0 THEN "D" ELSE "set"
    /\ UNCHANGED <<memVars, cmd, u_ptr, err_code, lost>>

\* Mutant: the buffer is not given back.
Mutant_release_unimem ==
    /\ pc = "D"
    /\ Finish("ALLOCATION_FAILURE")
    /\ UNCHANGED <<driverVars, memVars, lost>>

\* After a copy that failed.
release_unimem ==
    /\ pc = "D"
    /\ dev_write(write_destroy_request(u_ptr), 1)
    /\ Finish("ALLOCATION_FAILURE")
    /\ UNCHANGED <<memVars, lost>>

\* The cl_mem gets the new buffer; the one it had is neither used again nor
\* given back.
set_unimem_ptr ==
    /\ pc = "set"
    /\ m_unimem_ptr' = [m_unimem_ptr EXCEPT ![cmd.mem] = u_ptr]
    /\ m_size' = [m_size EXCEPT ![cmd.mem] = cmd.size]
    /\ written' = [written EXCEPT ![cmd.mem] =
                      IF cmd.ptr = Null THEN contents[u_ptr] ELSE cmd.ptr]
    /\ lost' = lost \cup ({m_unimem_ptr[cmd.mem]} \ {Null})
    /\ Finish("SUCCESS")
    /\ UNCHANGED driverVars

-----------------------------------------------------------------------------
(* handle_read_command, which is one system call at most.                    *)

\* What stops a read before it reaches the driver, in the order of the checks.
ReadError(c) ==
    CASE c.size < 1                    -> "ONE"
      [] m_unimem_ptr[c.mem] = Null    -> "INVALID_MEM_OBJECT"
      [] c.ptr = Null                  -> "INVALID_VALUE"
      [] c.size # m_size[c.mem]        -> "INVALID_VALUE"
      [] OTHER                         -> "SUCCESS"

copy_from_unimem(c, rc) ==
    dev_write(copy_unimem_buffer_to_user(c.ptr, m_size[c.mem], m_unimem_ptr[c.mem]),
              rc)

handle_read_command(c) ==
    /\ pc = "idle"
    /\ IF ReadError(c) # "SUCCESS"
       THEN err_code' = ReadError(c) /\ UNCHANGED driverVars
       ELSE \E rc \in rcs :
               /\ copy_from_unimem(c, rc)
               /\ err_code' = IF rc < 0 THEN "ALLOCATION_FAILURE" ELSE "SUCCESS"
    /\ UNCHANGED <<memVars, pc, cmd, u_ptr, lost>>

UnimemNext == \/ UnimemManager
              \/ ProcessEnds
              \/ \E m \in Mems : clReleaseMemObject(m)
              \/ \E c \in Command : handle_write_command(c) \/ handle_read_command(c)
              \/ allocate_unimem
              \/ read_alloc_response
              \/ CopyOfReplyFails
              \/ copy_to_unimem
              \/ release_unimem
              \/ set_unimem_ptr

UnimemSpec == UnimemInit /\ [][UnimemNext]_unimemVars

-----------------------------------------------------------------------------
(* Properties. *)

\* Type invariant.
UnimemTypeOK ==
    /\ s_dev_opened \in BOOLEAN
    /\ s_return_msg \in [m_type : {"", "z"}, addr : Addrs \cup {Null}]
    /\ allocated \subseteq Addrs
    /\ buf_size \in [Addrs -> Sizes \cup {0}]
    /\ contents \in [Addrs -> Data \cup {Unwritten}]
    /\ m_unimem_ptr \in [Mems -> Addrs \cup {Null}]
    /\ m_size \in [Mems -> Sizes \cup {0}]
    /\ pc \in {"closed", "idle", "C", "read", "W", "D", "set"}
    /\ cmd \in Command \cup {NoCommand}
    /\ u_ptr \in Addrs \cup {Null}
    /\ err_code \in {"SUCCESS", "ONE", "INVALID_MEM_OBJECT", "INVALID_VALUE",
                     "ALLOCATION_FAILURE"}
    /\ written \in [Mems -> Data \cup {Unwritten}]
    /\ lost \subseteq Addrs

\* A cl_mem's buffer is allocated, as large as the cl_mem says (so that a copy
\* stays inside it), and no other cl_mem's nor the one being filled.
PointersValid ==
    UnimemTypeOK /\ \A m \in Mems : m_unimem_ptr[m] # Null =>
       /\ m_unimem_ptr[m] \in allocated \ (lost \cup InFlight)
       /\ buf_size[m_unimem_ptr[m]] = m_size[m]
       /\ \A n \in Mems \ {m} : m_unimem_ptr[n] # m_unimem_ptr[m]

\* A buffer holds what was last written to its cl_mem with success: writes that
\* fail half-way, writes to other objects and the death of earlier processes
\* leave it alone. This is what a successful read delivers.
ReadsSeeLastWrite ==
    \A m \in Mems : m_unimem_ptr[m] # Null =>
                       contents[m_unimem_ptr[m]] = written[m]

\* dispatcher.cc:143-144, "try copying the data, if it fails, we need to
\* deallocate the buffer": every buffer the driver has handed out belongs to a
\* cl_mem or to the command being handled, or was lost in one of four ways: a
\* cl_mem was given another buffer, or was released, malloc failed, or the
\* process ended.
BuffersAccountedFor == allocated = Held \cup InFlight \cup lost

=============================================================================
