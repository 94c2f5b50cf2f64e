---------------------------- MODULE InOrderQueue ----------------------------
(***************************************************************************)
(* What an OpenCL in-order command queue promises: commands run in the      *)
(* order in which they were accepted, one at a time, each exactly once.     *)
(***************************************************************************)
EXTENDS Naturals, Sequences

CONSTANT Cmds

VARIABLES accepted, \* the commands the queue took, oldest first
          started,  \* the commands that were handed to the dispatcher
          finished  \* the commands whose event is COMPLETE

orderVars == <<accepted, started, finished>>

OrderInit == accepted = <<>> /\ started = <<>> /\ finished = {}

Accept(c) == /\ accepted' = Append(accepted, c)
             /\ UNCHANGED <<started, finished>>

\* The next command starts once everything that started has finished.
Start == /\ Len(started) < Len(accepted)
         /\ \A i \in 1 .. Len(started) : started[i] \in finished
         /\ started' = Append(started, accepted[Len(started) + 1])
         /\ UNCHANGED <<accepted, finished>>

Finish == /\ started # <<>>
          /\ started[Len(started)] \notin finished
          /\ finished' = finished \cup {started[Len(started)]}
          /\ UNCHANGED <<accepted, started>>

OrderNext == (\E c \in Cmds : Accept(c)) \/ Start \/ Finish

OrderSpec == OrderInit /\ [][OrderNext]_orderVars
=============================================================================
