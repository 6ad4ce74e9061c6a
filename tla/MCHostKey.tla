----------------------------- MODULE MCHostKey -----------------------------
(***************************************************************************)
(* HostKey for TLC.  Nothing tells two servers, two keys or two            *)
(* connections apart, and the run checks invariants alone.                 *)
(***************************************************************************)
EXTENDS HostKey, TLC

Symmetry == Permutations(Servers) \cup Permutations(Keys) \cup Permutations(Conns)

\* Dial sets what a connection is made with, and a start the snapshot: before
\* that nothing reads them.
LiveSettings == [c \in Conns |-> IF conn[c] = "none" THEN <<>> ELSE using[c]]
LiveSnapshot == IF phase = "stopped" THEN <<>> ELSE snapshot

View == <<presents, saved, phase, LiveSnapshot, conn, LiveSettings, prompt, card, history>>
===========================================================================
