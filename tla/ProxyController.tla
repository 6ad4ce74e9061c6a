-------------------------- MODULE ProxyController --------------------------
(***************************************************************************)
(* How the application starts, stops and restarts the proxy                *)
(* (src/app/proxy_control.rs and the handlers of src/main.rs that call     *)
(* it), against the life of a run (run_proxy in src/proxy/mod.rs).         *)
(*                                                                         *)
(* Handlers run one at a time on the UI thread, runs on the tokio runtime. *)
(* A handler that saves, stops and starts is one action per call, tied     *)
(* together by "ui", because a run may act between two of them.  Within    *)
(* stop() the status is written before the message is sent, so what a run  *)
(* does in between could as well come after both.                          *)
(*                                                                         *)
(* The settings are a version number and whether runtime_config() accepts  *)
(* them.  Supervisors appear by what they publish while they are not all   *)
(* joined; the rest of their life is in Pool.                              *)
(***************************************************************************)
EXTENDS Naturals, FiniteSets

CONSTANTS
  Runs,        \* identities of run_proxy tasks, reused once their end is handled
  NoRun,       \* None
  MaxVersion   \* bound on how often the settings are saved

ASSUME ControllerAssumption ==
  /\ NoRun \notin Runs
  /\ MaxVersion \in Nat \ {0}

VARIABLES
  ui,            \* what the handler on the UI thread still has to call
  saved,         \* version of the saved settings
  usable,        \* runtime_config() accepts them
  shutdown,      \* the run whose shutdown sender the controller holds
  taskAlive,     \* ProxyController::task_alive
  startPending,  \* ProxyController::start_pending
  run,           \* how far each run has come
  signalled,     \* runs whose shutdown receiver is ready
  failed,        \* runs that end with an error
  snapshot,      \* version of the settings each run was spawned with
  status,        \* ProxyStats::status
  connected,     \* ProxyStats::ssh_connected
  error,         \* ProxyStats::last_error is set
  asked,         \* history: version the latest request to start was made with
  wanted         \* history: a start was accepted, and no stop asked for since

settingsVars   == <<saved, usable>>
controllerVars == <<shutdown, taskAlive, startPending>>
runVars        == <<run, signalled, failed, snapshot>>
shownVars      == <<status, connected, error>>
historyVars    == <<asked, wanted>>
vars == <<ui, settingsVars, controllerVars, runVars, shownVars, historyVars>>

RunStates ==
  {"none",       \* no task, or its end has been handled
   "spawned",    \* about to bind the listener
   "serving",    \* in the select! loop
   "aborting",   \* out of the loop, supervisors and clients not all joined
   "closing",    \* in Pool::close
   "returning",  \* everything shown, result not yet returned
   "ended"}      \* the JoinHandle is ready, its watcher has yet to run

StatusTexts == {"Stopped", "Starting", "Connecting", "Listening", "Stopping"}

IsRunning == shutdown # NoRun

Active == {r \in Runs : run[r] # "none"}

---------------------------------------------------------------------------
(* Calls of the UI thread *)

\* Mutant of Signal: the sender is kept from the run.
SignalLost == UNCHANGED signalled

\* The sender is taken; the run's receiver becomes ready whether it is sent a
\* message or merely dropped.
Signal == signalled' = signalled \cup ({shutdown} \ {NoRun})

\* ProxyController::stop, called by Stop, StartStop and Reject, and by the
\* handlers that restart.  The message cannot be sent to a run that has returned.
Stop ==
  /\ ui \in {"idle", "restart"}
  /\ ui' = IF ui = "restart" THEN "start" ELSE "idle"
  /\ startPending' = FALSE
  /\ shutdown' = NoRun
  /\ Signal
  /\ status' = CASE IsRunning /\ run[shutdown] # "ended" -> "Stopping"
                 [] IsRunning /\ run[shutdown] = "ended" -> "Stopped"
                 [] ~IsRunning -> IF taskAlive THEN status ELSE "Stopped"
  /\ error' \in IF ui = "idle" THEN {error, TRUE} ELSE {error}  \* RejectHostKey explains it
  /\ wanted' = FALSE
  /\ UNCHANGED <<settingsVars, taskAlive, run, failed, snapshot, connected, asked>>

\* ProxyController::start is called by the user, or by a handler that restarts.
Starting ==
  /\ ui \in {"idle", "start"}
  /\ ui' = "idle"

\* It is already running.
StartIgnored ==
  /\ Starting
  /\ IsRunning
  /\ asked' = IF ui = "start" THEN saved ELSE asked
  /\ UNCHANGED <<settingsVars, controllerVars, runVars, shownVars, wanted>>

\* The settings do not make a RuntimeConfig.
StartRefused ==
  /\ Starting
  /\ ~IsRunning /\ ~usable
  /\ error' = TRUE
  /\ UNCHANGED <<settingsVars, controllerVars, runVars, status, connected, historyVars>>

\* The previous run is still stopping.
StartLater ==
  /\ Starting
  /\ ~IsRunning /\ usable /\ taskAlive
  /\ startPending' = TRUE
  /\ asked' = saved
  /\ wanted' = TRUE
  /\ UNCHANGED <<settingsVars, shutdown, taskAlive, runVars, shownVars>>

\* A run is spawned with a snapshot of the settings.
SpawnRun(r) ==
  /\ run[r] = "none"
  /\ run' = [run EXCEPT ![r] = "spawned"]
  /\ signalled' = signalled \ {r}
  /\ failed' = failed \ {r}
  /\ snapshot' = [snapshot EXCEPT ![r] = saved]
  /\ shutdown' = r
  /\ taskAlive' = TRUE
  /\ status' = "Starting"
  /\ error' = FALSE
  /\ asked' = saved
  /\ wanted' = TRUE
  /\ UNCHANGED <<settingsVars, startPending, connected>>

\* Mutant of StartNow: the task of the previous run is not looked at.
StartAnyway(r) ==
  /\ Starting
  /\ ~IsRunning /\ usable
  /\ SpawnRun(r)

StartNow(r) ==
  /\ Starting
  /\ ~IsRunning /\ usable /\ ~taskAlive
  /\ SpawnRun(r)

\* What a successful save leads to: nothing, or a restart (SaveAndStart, and
\* TrustHostKey while the proxy runs).
SaveThen(next) ==
  /\ ui = "idle" /\ saved < MaxVersion
  /\ saved' = saved + 1
  /\ usable' \in BOOLEAN
  /\ error' = FALSE
  /\ ui' = next
  /\ wanted' = (wanted /\ (Active # {} \/ startPending))
  /\ UNCHANGED <<controllerVars, runVars, status, connected, asked>>

\* Mutant of Save: the running proxy is not stopped before the start.
SaveNoStop == SaveThen("idle") \/ SaveThen("start")

\* The settings are saved, which clears the error shown.
Save == SaveThen("idle") \/ SaveThen("restart")

\* Nothing is saved; the form's problem or the file's is shown.
SaveFails ==
  /\ ui = "idle"
  /\ error' = TRUE
  /\ UNCHANGED <<ui, settingsVars, controllerVars, runVars, status, connected, historyVars>>

\* The watcher of a run: ProxyController::finish and what start_proxy does after
\* it, up to the pending start.
WatchThen(r, next) ==
  /\ ui = "idle"
  /\ run[r] = "ended"
  /\ run' = [run EXCEPT ![r] = "none"]
  /\ Signal
  /\ shutdown' = NoRun
  /\ taskAlive' = FALSE
  /\ startPending' = FALSE
  /\ ui' = next
  /\ status' = "Stopped"
  /\ error' = (error \/ r \in failed)
  /\ UNCHANGED <<settingsVars, failed, snapshot, connected, historyVars>>

\* Mutant of Watch: the pending start is forgotten.
WatchOnly(r) == WatchThen(r, "idle")

Watch(r) == WatchThen(r, IF startPending THEN "start" ELSE "idle")

---------------------------------------------------------------------------
(* A run: run_proxy *)

RunStep(r, from, to) ==
  /\ run[r] = from
  /\ run' = [run EXCEPT ![r] = to]
  /\ UNCHANGED <<ui, settingsVars, controllerVars, signalled, snapshot, historyVars>>

\* The listener is dropped only when run_proxy returns.
PortFree(r) ==
  \A q \in Runs \ {r} : run[q] \in {"none", "spawned", "ended"}

Bind(r) ==
  /\ RunStep(r, "spawned", "serving")
  /\ PortFree(r)
  /\ status' = "Connecting"
  /\ UNCHANGED <<failed, connected, error>>

BindFails(r) ==
  /\ RunStep(r, "spawned", "ended")
  /\ failed' = failed \cup {r}
  /\ UNCHANGED shownVars

\* Mutant of Publishing: run_proxy does not join its supervisors.
PublishingUnjoined == {"serving", "aborting", "closing", "returning"}

\* While a run is in these states some of its supervisors may still be alive:
\* abort takes effect only where they await, and run_proxy joins them.
Publishing == {"serving", "aborting"}

\* A supervisor fills or empties a slot, or reports a failed connect.
Publish(r) ==
  /\ run[r] \in Publishing
  /\ \/ connected' = TRUE /\ error' = FALSE /\ status' = "Listening"
     \/ connected' = FALSE /\ error' = error /\ status' = "Connecting"
     \/ connected' = connected /\ error' = TRUE /\ status' = status
  /\ UNCHANGED <<ui, settingsVars, controllerVars, runVars, historyVars>>

\* The select! loop sees the shutdown.
SeeShutdown(r) ==
  /\ r \in signalled
  /\ RunStep(r, "serving", "aborting")
  /\ UNCHANGED <<failed, shownVars>>

\* The select! loop sees the end of a supervisor, which is a panic.
SupervisorPanics(r) ==
  /\ RunStep(r, "serving", "aborting")
  /\ failed' = failed \cup {r}
  /\ UNCHANGED shownVars

\* All clients and supervisors are aborted and joined.
Joined(r) ==
  /\ RunStep(r, "aborting", "closing")
  /\ UNCHANGED <<failed, shownVars>>

\* Pool::close has asked every session to disconnect.
Closed(r) ==
  /\ RunStep(r, "closing", "returning")
  /\ connected' = FALSE
  /\ status' = "Stopped"
  /\ UNCHANGED <<failed, error>>

Return(r) ==
  /\ RunStep(r, "returning", "ended")
  /\ UNCHANGED <<failed, shownVars>>

---------------------------------------------------------------------------
Init ==
  /\ ui = "idle"
  /\ saved = 1
  /\ usable \in BOOLEAN
  /\ shutdown = NoRun
  /\ taskAlive = FALSE
  /\ startPending = FALSE
  /\ run = [r \in Runs |-> "none"]
  /\ signalled = {}
  /\ failed = {}
  /\ snapshot = [r \in Runs |-> 0]
  /\ status = "Stopped"
  /\ connected = FALSE
  /\ error \in BOOLEAN
  /\ asked = 0
  /\ wanted = FALSE

Start ==
  \/ StartIgnored
  \/ StartRefused
  \/ StartLater
  \/ \E r \in Runs : StartNow(r)

Handle ==
  \/ Stop
  \/ Start
  \/ Save
  \/ SaveFails
  \/ \E r \in Runs : Watch(r)

RunProxy(r) ==
  \/ Bind(r)
  \/ BindFails(r)
  \/ Publish(r)
  \/ SeeShutdown(r)
  \/ SupervisorPanics(r)
  \/ Joined(r)
  \/ Closed(r)
  \/ Return(r)

Next == Handle \/ \E r \in Runs : RunProxy(r)

Spec == Init /\ [][Next]_vars

(***************************************************************************)
(* Fairness.  A handler that has begun goes on, and the UI thread gets to  *)
(* run the watcher of a run that ended.  A run takes its own steps: bind   *)
(* answers, the loop sees a shutdown that stays ready, aborted tasks stop  *)
(* at their next await and Pool::close is bounded by                       *)
(* SSH_DISCONNECT_TIMEOUT.  Nothing is assumed of the user.                *)
(***************************************************************************)
Fairness ==
  /\ WF_vars(ui = "restart" /\ Stop)
  /\ WF_vars(ui = "start" /\ Start)
  /\ \A r \in Runs :
       /\ WF_vars(Watch(r))
       /\ WF_vars(Bind(r) \/ BindFails(r))
       /\ WF_vars(SeeShutdown(r))
       /\ WF_vars(Joined(r))
       /\ WF_vars(Closed(r))
       /\ WF_vars(Return(r))

FairSpec == Spec /\ Fairness

---------------------------------------------------------------------------
(* Properties *)

\* Every variable keeps its type, and the controller's fields describe its task:
\* there is one exactly while task_alive says so, the sender kept is its sender,
\* and a start is pending only while a task that was asked to stop goes.
TypeOK ==
  /\ ui \in {"idle", "restart", "start"}
  /\ saved \in 1..MaxVersion
  /\ usable \in BOOLEAN
  /\ shutdown \in Runs \cup {NoRun}
  /\ taskAlive \in BOOLEAN
  /\ startPending \in BOOLEAN
  /\ run \in [Runs -> RunStates]
  /\ signalled \in SUBSET Runs
  /\ failed \in SUBSET Runs
  /\ snapshot \in [Runs -> 0..MaxVersion]
  /\ status \in StatusTexts
  /\ connected \in BOOLEAN
  /\ error \in BOOLEAN
  /\ asked \in 0..MaxVersion
  /\ wanted \in BOOLEAN
  /\ taskAlive <=> Active # {}
  /\ IsRunning => run[shutdown] # "none"
  /\ startPending => taskAlive /\ ~IsRunning

\* There is never a second run while the task of one has not been seen to end,
\* however fast the user stops and starts: two runs would fight for the port and
\* write the same status (task_alive and start_pending in ProxyController).
OneRun == \A q, r \in Active : q = r

\* With no run left the window says so, whatever the last run and its supervisors
\* published on their way out (run_proxy joins them before it closes the pool,
\* and the watcher has the last word).
IdleIsTruthful == Active = {} => status = "Stopped" /\ ~connected

\* A proxy that runs uses settings at least as new as those the user last asked
\* to start with: a restart never leaves the old run in place, nor revives the
\* settings it had (SaveAndStart and TrustHostKey stop first).
RestartTakesNewSettings == IsRunning => snapshot[shutdown] >= asked

\* A start that was accepted is not dropped in silence: if nothing runs, nothing
\* waits to run and the user has not asked to stop, an error tells why
\* (start_proxy's watcher and ProxyController::finish).
NoSilentStop ==
  wanted /\ Active = {} /\ ~startPending /\ ui = "idle" => error

\* What ProxyController's fields mean to the user.
Phase ==
  CASE IsRunning -> "running"
    [] ~IsRunning /\ (ui = "start" \/ startPending) -> "restarting"
    [] ~IsRunning /\ ui # "start" /\ ~startPending /\ taskAlive -> "stopping"
    [] OTHER -> "stopped"

Abstract == INSTANCE ProxyService
  WITH phase <- Phase, uses <- IF IsRunning THEN snapshot[shutdown] ELSE 0

\* The controller keeps the promise of ProxyService, the end of every run that
\* was asked to go included.
IsService == Abstract!Service
===========================================================================
