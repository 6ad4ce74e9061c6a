--------------------------- MODULE ProxyService ---------------------------
(***************************************************************************)
(* What the application promises of the proxy it controls: there is one    *)
(* proxy at a time, each run uses the settings saved when it begins, a run *)
(* that was asked to go goes, and what waits for it to go then happens.    *)
(***************************************************************************)
EXTENDS Naturals

VARIABLES
  phase,   \* what the proxy is doing
  saved,   \* version of the saved settings, from 1
  uses     \* version of the settings in use, 0 when no proxy serves

serviceVars == <<phase, saved, uses>>

Init ==
  /\ phase = "stopped"
  /\ saved = 1
  /\ uses = 0

Save ==
  /\ saved' = saved + 1
  /\ UNCHANGED <<phase, uses>>

\* A run begins: nothing runs, or what ran before has just gone.
Begin ==
  /\ phase \in {"stopped", "restarting"}
  /\ phase' = "running"
  /\ uses' = saved
  /\ UNCHANGED saved

AskStop ==
  /\ phase \in {"running", "restarting"}
  /\ phase' = "stopping"
  /\ uses' = 0
  /\ UNCHANGED saved

\* The user wants a run as soon as nothing runs.
AskRestart ==
  /\ phase \in {"stopped", "running", "stopping"}
  /\ phase' = "restarting"
  /\ uses' = 0
  /\ UNCHANGED saved

\* The run has gone, by request or by itself, and no other begins.
Gone ==
  /\ phase \in {"running", "stopping", "restarting"}
  /\ phase' = "stopped"
  /\ uses' = 0
  /\ UNCHANGED saved

Next == Save \/ Begin \/ AskStop \/ AskRestart \/ Gone

SafeService == Init /\ [][Next]_serviceVars

\* What is going does go, whatever the user asks for meanwhile.
Leave ==
  /\ phase \in {"stopping", "restarting"}
  /\ Begin \/ Gone

Service == SafeService /\ WF_serviceVars(Leave)
===========================================================================
