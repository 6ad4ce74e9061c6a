------------------------------- MODULE MCPool -------------------------------
(* Pool on small instances. *)
EXTENDS Pool, TLC

\* The three kinds of identity are interchangeable; only for safety runs.
Symmetry == Permutations(Slots) \cup Permutations(Clients) \cup Permutations(Sessions)

\* What the flags of a session say once no task holds it is of no consequence:
\* ConnectOk resets them, and no other action reads them.
Flags == [s \in Sessions |-> IF Unused(s) THEN <<>> ELSE <<dead[s], closed[s], permit[s]>>]

View == <<slots, supVars, clientVars, Flags, statsVars>>
=============================================================================
