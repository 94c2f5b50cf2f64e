---------------------------- MODULE MCSequential ----------------------------
(***************************************************************************)
(* The parts that share no state and run in one thread each: the ring        *)
(* (CircArray), the search for the fastest islands (AlgoSimple), the         *)
(* construction of Global (Startup) and the driver's buffers (Unimem). A     *)
(* behaviour is one of theirs: part says whose, and the others stay where    *)
(* they start. It is the sum of four state spaces, not their product.        *)
(***************************************************************************)
EXTENDS CircArray, AlgoSimple, Startup, Unimem

\* Two files, the name of one a prefix of the other's; kernel sources that name
\* them with and without a comment mark in front, one of them beyond the buffer.
MCNames == {<<"A">>, <<"A", "B">>}
MCLines == {<<"A", "\n", "B">>, <<"/", "/", " ", "A", "B", "\n">>,
            <<"/", "/", "A", "B">>}

\* Regions of FPGAs on two boards, one of them without its FPGA, one without any of
\* its numbers and one on a board that does not exist.
MCPRs == {<<0, 1, 3>>, <<0, 2, 3>>, <<0, 4, 3>>, <<1, 1, 3>>, <<1, Missing, 3>>,
          <<Missing, Missing, Missing>>, <<4, 1, 0>>}

VARIABLE part \* the one that runs

Parts == {"ring", "search", "startup", "unimem"}

\* What the ring's capacity is at the start matters to the ring alone.
Init == /\ part \in Parts
        /\ ArrayInit /\ SearchInit /\ StartupInit /\ UnimemInit
        /\ part # "ring" => \A c \in InitCapacities : _capacity <= c

Next == \/ /\ part = "ring" /\ ArrayNext
           /\ UNCHANGED <<searchVars, startupVars, unimemVars, part>>
        \/ /\ part = "search" /\ SearchNext
           /\ UNCHANGED <<arrayVars, startupVars, unimemVars, part>>
        \/ /\ part = "startup" /\ StartupNext
           /\ UNCHANGED <<arrayVars, searchVars, unimemVars, part>>
        \/ /\ part = "unimem" /\ UnimemNext
           /\ UNCHANGED <<arrayVars, searchVars, startupVars, part>>

Spec == Init /\ [][Next]_<<arrayVars, searchVars, startupVars, unimemVars, part>>

=============================================================================
