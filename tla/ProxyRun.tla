------------------------------ MODULE ProxyRun ------------------------------
(***************************************************************************)
(* One run of the proxy around its pool (run_proxy in src/proxy/mod.rs and *)
(* Pool::close): the listener, the accept loop, and the end of a run, when *)
(* the supervisors and the clients of module Pool are aborted wherever     *)
(* they happen to be.                                                      *)
(*                                                                         *)
(* An abort drops a task at an await.  A task that is being polled when    *)
(* the abort comes runs on to its next suspension, through awaits that are *)
(* ready at once; so until it is dropped a task here goes on taking its    *)
(* own steps, and it is dropped only where it can be suspended.            *)
(***************************************************************************)
EXTENDS Pool

VARIABLES
  run,          \* where run_proxy is
  stop,         \* the shutdown sender was used
  supervisors,  \* the supervisor tasks that run (the JoinSet)
  status,       \* the status text of ProxyStats, by its kind
  result,       \* what run_proxy is going to return
  open          \* history: sessions connected and not asked to disconnect

runVars == <<run, stop, supervisors, status, result, open>>
allVars == <<vars, runVars>>

RunStates == {"binding", "serving", "retrying", "joining", "closing", "ended"}
Statuses  == {"Starting", "Connecting", "Listening", "Stopping", "Stopped"}
Results   == {"none", "ok", "error"}

\* Where a supervisor or a client can be suspended.
SupAwaits    == {"connecting", "serving", "disconnecting", "parked", "pausing"}
ClientAwaits == {"waiting"} \cup Leasing

---------------------------------------------------------------------------
(* The tasks of Pool, run by the runtime *)

\* Mutant of SlotStatus: the status goes by what was live before.
SlotStatusStale ==
  status' = IF slots' = slots THEN status
            ELSE IF LiveSlots = {} THEN "Connecting" ELSE "Listening"

\* set_slot is the only code of the pool that writes the status.
SlotStatus ==
  status' = IF slots' = slots THEN status
            ELSE IF LiveSlots' = {} THEN "Connecting" ELSE "Listening"

\* A supervisor tracks the sessions it connects and asks them to disconnect
\* once they have left their slot.
SupervisorRuns(i) ==
  /\ i \in supervisors
  /\ Supervise(i)
  /\ SlotStatus
  /\ open' = CASE sup[i] = "connecting" /\ sup'[i] = "serving" -> open \cup {held'[i]}
               [] sup'[i] = "disconnecting" -> open \ {held[i]}
               [] OTHER -> open
  /\ UNCHANGED <<run, stop, supervisors, result>>

\* Only the loop of run_proxy accepts clients.
ClientRuns(c) ==
  /\ client[c] = "idle" => run = "serving"
  /\ HandleClient(c)
  /\ UNCHANGED runVars

SessionEnds(s) ==
  /\ SessionCloses(s)
  /\ UNCHANGED runVars

---------------------------------------------------------------------------
(* run_proxy *)

RunStep(from, to) ==
  /\ run = from
  /\ run' = to

BindErr ==
  /\ RunStep("binding", "ended")
  /\ result' = "error"
  /\ UNCHANGED <<vars, stop, supervisors, status, open>>

BindOk ==
  /\ RunStep("binding", "serving")
  /\ supervisors' = Slots
  /\ status' = "Connecting"
  /\ UNCHANGED <<vars, stop, result, open>>

\* ProxyController asks for the end, and has said so in the status.
StopRequested ==
  /\ ~stop /\ run # "ended"
  /\ stop' = TRUE
  /\ status' = "Stopping"
  /\ UNCHANGED <<vars, run, supervisors, result, open>>

\* accept() failed: nothing else is polled during ACCEPT_RETRY_DELAY.
AcceptErr ==
  /\ RunStep("serving", "retrying")
  /\ UNCHANGED <<vars, stop, supervisors, status, result, open>>

RetryDelayPassed ==
  /\ RunStep("retrying", "serving")
  /\ UNCHANGED <<vars, stop, supervisors, status, result, open>>

\* The loop ends by the shutdown, or by a supervisor that has ended by itself.
LoopEnds ==
  /\ RunStep("serving", "joining")
  /\ \/ stop /\ result' = "ok"
     \/ supervisors # Slots /\ result' = "error"
  /\ UNCHANGED <<vars, stop, supervisors, status, open>>

\* A supervisor ends: everything it holds is dropped.
SupervisorGone(i) ==
  /\ i \in supervisors
  /\ supervisors' = supervisors \ {i}
  /\ held' = [held EXCEPT ![i] = NoSession]
  /\ woken' = woken \ {i}
  /\ UNCHANGED <<slots, sup, clientVars, sessionVars, statsVars, run, stop, status, result, open>>

SupervisorPanics(i) ==
  /\ run = "serving"
  /\ SupervisorGone(i)

SupervisorAborted(i) ==
  /\ run = "joining" /\ sup[i] \in SupAwaits
  /\ SupervisorGone(i)

\* Mutant of ClientAborted: a task that waits for its channel is not aborted.
ClientAbortedUnlessOpening(c) ==
  /\ run = "joining"
  /\ TaskEnds(c, {"waiting", "replying", "tunnel", "closing"})
  /\ UNCHANGED <<dead, permit, runVars>>

ClientAborted(c) ==
  /\ run = "joining"
  /\ TaskEnds(c, ClientAwaits)
  /\ UNCHANGED <<dead, permit, runVars>>

\* Mutant of Joined: the supervisors are aborted but not waited for.
JoinedClients == \A c \in Clients : client[c] = "idle"

\* Both join loops are over.
Joined == supervisors = {} /\ \A c \in Clients : client[c] = "idle"

\* Pool::close empties the slots and asks what they held to disconnect.
ClosePool ==
  /\ RunStep("joining", "closing")
  /\ Joined
  /\ slots' = [i \in Slots |-> NoSession]
  /\ open' = open \ {slots[i] : i \in Slots}
  /\ UNCHANGED <<supVars, clientVars, sessionVars, statsVars, stop, supervisors, status, result>>

\* The sessions have disconnected or timed out, and the run is over.
RunEnds ==
  /\ RunStep("closing", "ended")
  /\ \E ended \in SUBSET Sessions :
       closed' = [s \in Sessions |-> closed[s] \/ s \in ended]
  /\ shown' = 0
  /\ status' = "Stopped"
  /\ UNCHANGED <<slots, supVars, clientVars, dead, permit, connectError, stop, supervisors, result, open>>

---------------------------------------------------------------------------
RunInit ==
  /\ Init
  /\ run = "binding" /\ stop = FALSE /\ supervisors = {}
  /\ status = "Starting" /\ result = "none" /\ open = {}

RunNext ==
  \/ \E i \in Slots : \/ SupervisorRuns(i)
                      \/ SupervisorPanics(i)
                      \/ SupervisorAborted(i)
  \/ \E c \in Clients : ClientRuns(c) \/ ClientAborted(c)
  \/ \E s \in Sessions : SessionEnds(s)
  \/ BindErr
  \/ BindOk
  \/ StopRequested
  \/ AcceptErr
  \/ RetryDelayPassed
  \/ LoopEnds
  \/ ClosePool
  \/ RunEnds

RunSpec == RunInit /\ [][RunNext]_allVars

(***************************************************************************)
(* Fairness.  run_proxy runs; select! picks at random among the branches   *)
(* that are ready, so accepts that fail again and again cannot keep the    *)
(* shutdown out for ever.  Between two awaits a task runs on, and one that *)
(* was aborted is dropped the next time it is suspended.                   *)
(***************************************************************************)
RunFairness ==
  /\ WF_allVars(BindOk \/ BindErr)
  /\ WF_allVars(RetryDelayPassed)
  /\ SF_allVars(LoopEnds)
  /\ WF_allVars(ClosePool)
  /\ WF_allVars(RunEnds)
  /\ \A i \in Slots :
       /\ WF_allVars(sup[i] \notin SupAwaits /\ SupervisorRuns(i))
       /\ SF_allVars(SupervisorAborted(i))
  /\ \A c \in Clients :
       /\ WF_allVars(client[c] \notin ClientAwaits /\ client[c] # "idle" /\ ClientRuns(c))
       /\ SF_allVars(ClientAborted(c))

FairRunSpec == RunSpec /\ RunFairness

---------------------------------------------------------------------------
(* Properties *)

\* Every variable of the run keeps its type.
RunTypeOK ==
  /\ run \in RunStates
  /\ stop \in BOOLEAN
  /\ supervisors \in SUBSET Slots
  /\ status \in Statuses
  /\ result \in Results
  /\ open \in SUBSET Sessions

\* No session is lost track of: one that nobody has asked to disconnect is in
\* a slot, where close() finds it, wherever an abort caught its supervisor
\* (ConnectOk stores it with no await in between, and set_slot(None) and
\* disconnect() are one span too).
SessionsAreTracked == \A s \in open : \E i \in Slots : slots[i] = s

\* Once a run is over nothing of it is left, and the tasks that wrote the count
\* and the status during the stop, "Listening" over "Stopping" included, cannot
\* have the last word (the join loops before Pool::close).
NothingLeftBehind ==
  run \in {"closing", "ended"} =>
    /\ \A i \in Slots : slots[i] = NoSession /\ held[i] = NoSession
    /\ \A c \in Clients : client[c] = "idle" /\ lease[c] = NoSession
    /\ open = {}
    /\ run = "ended" => shown = 0 /\ status \in {"Starting", "Stopping", "Stopped"}

\* A run that is asked to stop ends, whatever its tasks were waiting for and
\* however often accept() fails.
StopEnds == stop ~> (run = "ended")

\* The run, as the RunStates of ProxyController name its stages: the status is
\* the last thing it writes, but a run without a listener writes none.
Stage ==
  CASE run = "binding" -> "spawned"
    [] run \in {"serving", "retrying"} -> "serving"
    [] run = "joining" -> "aborting"
    [] run = "closing" -> "closing"
    [] run = "ended" -> IF status = "Stopped" THEN "returning" ELSE "ended"

\* The controller of this one run, while the UI thread does no more than to ask
\* it to stop.
Controlled == INSTANCE ProxyController
  WITH Runs <- {"run"}, NoRun <- "none", MaxVersion <- 1,
       ui <- "idle", saved <- 1, usable <- TRUE,
       shutdown <- IF stop THEN "none" ELSE "run", taskAlive <- TRUE, startPending <- FALSE,
       run <- [r \in {"run"} |-> Stage],
       signalled <- IF stop THEN {"run"} ELSE {},
       failed <- IF result = "error" THEN {"run"} ELSE {},
       snapshot <- [r \in {"run"} |-> 1],
       connected <- shown > 0, error <- connectError,
       asked <- 1, wanted <- ~stop

\* A run does to the status, the count and the error what ProxyController takes
\* it to do, in that order: supervisors that are being aborted still write, and
\* once they are joined the last status alone is left to come (run_proxy).
RunsAsControlled ==
  [][Controlled!RunProxy("run") \/ Controlled!Stop]_(Controlled!vars)
=============================================================================
