-------------------------- MODULE ControllerProof --------------------------
(***************************************************************************)
(* Proofs about ProxyController, for any number of run identities and      *)
(* saves: its invariants, and that every step is a step of ProxyService or *)
(* changes nothing there.                                                  *)
(***************************************************************************)
EXTENDS ProxyController, TLAPS

\* A handler that is about to start has stopped before, or has just seen the
\* end of the previous run.
StartFollowsStop == ui = "start" => ~IsRunning /\ ~startPending

\* The sender is kept only while its run has not been asked to stop.
SenderIsUnused == IsRunning => shutdown \notin signalled

\* A run leaves its loop because it was asked to or because it failed.
EndHasCause ==
  \A r \in Runs :
    run[r] \in {"aborting", "closing", "returning", "ended"} => r \in signalled \cup failed

\* Somebody is left who will take the connected flag back.
ConnectedIsHeld ==
  connected => \E r \in Runs : run[r] \in {"serving", "aborting", "closing"}

\* A start that was accepted is in the hands of a run or of start_pending.
WantedIsHeld == wanted /\ Active # {} /\ ~startPending => IsRunning

IInv ==
  /\ TypeOK
  /\ OneRun
  /\ StartFollowsStop
  /\ SenderIsUnused
  /\ EndHasCause
  /\ ConnectedIsHeld
  /\ WantedIsHeld
  /\ IdleIsTruthful
  /\ RestartTakesNewSettings
  /\ NoSilentStop

\* A stop leaves no sender and no pending start.
LEMMA StopInv ==
  ASSUME IInv, Stop
  PROVE  IInv'
<1>1. TypeOK'
  BY ControllerAssumption DEF IInv, OneRun, Stop, Signal, settingsVars,
     controllerVars, runVars, shownVars, historyVars, TypeOK, RunStates,
     StatusTexts, Active, IsRunning
<1>2. StartFollowsStop'
  BY ControllerAssumption DEF IInv, TypeOK, RunStates, Stop, Signal, settingsVars,
     controllerVars, runVars, shownVars, historyVars, StartFollowsStop, IsRunning
<1>3. SenderIsUnused'
  BY ControllerAssumption DEF IInv, TypeOK, RunStates, Stop, Signal, settingsVars,
     controllerVars, runVars, shownVars, historyVars, SenderIsUnused, IsRunning
<1>4. EndHasCause'
  BY ControllerAssumption DEF IInv, TypeOK, RunStates, Stop, Signal, settingsVars,
     controllerVars, runVars, shownVars, historyVars, EndHasCause
<1>5. WantedIsHeld'
  BY ControllerAssumption DEF IInv, TypeOK, RunStates, Stop, Signal, settingsVars,
     controllerVars, runVars, shownVars, historyVars, WantedIsHeld, OneRun,
     StartFollowsStop, Active, IsRunning
<1>6. IdleIsTruthful'
  BY ControllerAssumption DEF IInv, TypeOK, RunStates, Stop, Signal, settingsVars,
     controllerVars, runVars, shownVars, historyVars, IdleIsTruthful,
     ConnectedIsHeld, OneRun, Active, IsRunning
<1>7. RestartTakesNewSettings'
  BY ControllerAssumption DEF IInv, TypeOK, RunStates, Stop, Signal, settingsVars,
     controllerVars, runVars, shownVars, historyVars, RestartTakesNewSettings,
     StartFollowsStop, IsRunning
<1>8. NoSilentStop'
  BY ControllerAssumption DEF IInv, TypeOK, RunStates, Stop, Signal, settingsVars,
     controllerVars, runVars, shownVars, historyVars, NoSilentStop, WantedIsHeld,
     SenderIsUnused, EndHasCause, StartFollowsStop, OneRun, Active, IsRunning
<1>9. OneRun' /\ ConnectedIsHeld'
  BY ControllerAssumption DEF IInv, TypeOK, RunStates, Stop, Signal, settingsVars,
     controllerVars, runVars, shownVars, historyVars, OneRun, Active,
     ConnectedIsHeld
<1> QED
  BY <1>1, <1>2, <1>3, <1>4, <1>5, <1>6, <1>7, <1>8, <1>9 DEF IInv

\* A start while running changes nothing; it never comes from a restart.
LEMMA StartIgnoredInv ==
  ASSUME IInv, StartIgnored
  PROVE  IInv'
<1>1. TypeOK'
  BY ControllerAssumption DEF IInv, OneRun, StartIgnored, Starting, settingsVars,
     controllerVars, runVars, shownVars, historyVars, TypeOK, RunStates,
     StatusTexts, Active, IsRunning
<1>2. RestartTakesNewSettings'
  BY ControllerAssumption DEF IInv, TypeOK, RunStates, StartIgnored, Starting,
     settingsVars, controllerVars, runVars, shownVars, historyVars,
     RestartTakesNewSettings, StartFollowsStop, IsRunning
<1>3. OneRun' /\ StartFollowsStop' /\ SenderIsUnused' /\ EndHasCause'
      /\ ConnectedIsHeld' /\ WantedIsHeld' /\ IdleIsTruthful' /\ NoSilentStop'
  BY ControllerAssumption DEF IInv, TypeOK, RunStates, StartIgnored, Starting,
     settingsVars, controllerVars, runVars, shownVars, historyVars, OneRun,
     Active, StartFollowsStop, IsRunning, SenderIsUnused, EndHasCause,
     ConnectedIsHeld, WantedIsHeld, IdleIsTruthful, NoSilentStop
<1> QED
  BY <1>1, <1>2, <1>3 DEF IInv

\* Unusable settings are answered with an error.
LEMMA StartRefusedInv ==
  ASSUME IInv, StartRefused
  PROVE  IInv'
<1>1. TypeOK'
  BY ControllerAssumption DEF IInv, OneRun, StartRefused, Starting, settingsVars,
     controllerVars, runVars, shownVars, historyVars, TypeOK, RunStates,
     StatusTexts, Active, IsRunning
<1>2. NoSilentStop'
  BY ControllerAssumption DEF IInv, TypeOK, RunStates, StartRefused, Starting,
     settingsVars, controllerVars, runVars, shownVars, historyVars, NoSilentStop,
     WantedIsHeld, SenderIsUnused, EndHasCause, StartFollowsStop, OneRun, Active,
     IsRunning
<1>3. OneRun' /\ StartFollowsStop' /\ SenderIsUnused' /\ EndHasCause'
      /\ ConnectedIsHeld' /\ WantedIsHeld' /\ IdleIsTruthful'
      /\ RestartTakesNewSettings'
  BY ControllerAssumption DEF IInv, TypeOK, RunStates, StartRefused, Starting,
     settingsVars, controllerVars, runVars, shownVars, historyVars, OneRun,
     Active, StartFollowsStop, IsRunning, SenderIsUnused, EndHasCause,
     ConnectedIsHeld, WantedIsHeld, IdleIsTruthful, RestartTakesNewSettings
<1> QED
  BY <1>1, <1>2, <1>3 DEF IInv

\* A start while the old task goes is left pending.
LEMMA StartLaterInv ==
  ASSUME IInv, StartLater
  PROVE  IInv'
<1>1. TypeOK'
  BY ControllerAssumption DEF IInv, OneRun, StartLater, Starting, settingsVars,
     controllerVars, runVars, shownVars, historyVars, TypeOK, RunStates,
     StatusTexts, Active, IsRunning
<1>2. StartFollowsStop'
  BY ControllerAssumption DEF IInv, TypeOK, RunStates, StartLater, Starting,
     settingsVars, controllerVars, runVars, shownVars, historyVars,
     StartFollowsStop, IsRunning
<1>3. WantedIsHeld'
  BY ControllerAssumption DEF IInv, TypeOK, RunStates, StartLater, Starting,
     settingsVars, controllerVars, runVars, shownVars, historyVars, WantedIsHeld,
     OneRun, StartFollowsStop, Active, IsRunning
<1>4. NoSilentStop'
  BY ControllerAssumption DEF IInv, TypeOK, RunStates, StartLater, Starting,
     settingsVars, controllerVars, runVars, shownVars, historyVars, NoSilentStop,
     WantedIsHeld, SenderIsUnused, EndHasCause, StartFollowsStop, OneRun, Active,
     IsRunning
<1>5. OneRun' /\ SenderIsUnused' /\ EndHasCause' /\ ConnectedIsHeld'
      /\ IdleIsTruthful' /\ RestartTakesNewSettings'
  BY ControllerAssumption DEF IInv, TypeOK, RunStates, StartLater, Starting,
     settingsVars, controllerVars, runVars, shownVars, historyVars, OneRun,
     Active, SenderIsUnused, IsRunning, EndHasCause, ConnectedIsHeld,
     IdleIsTruthful, RestartTakesNewSettings, StartFollowsStop
<1> QED
  BY <1>1, <1>2, <1>3, <1>4, <1>5 DEF IInv

\* A start with no task spawns the only run.
LEMMA StartNowInv ==
  ASSUME NEW r \in Runs, IInv, StartNow(r)
  PROVE  IInv'
<1>1. TypeOK'
  <2>1. /\ saved \in 1..MaxVersion
        /\ run' = [run EXCEPT ![r] = "spawned"]
        /\ snapshot' = [snapshot EXCEPT ![r] = saved]
        /\ shutdown' = r /\ shutdown' # NoRun
    BY ControllerAssumption DEF IInv, TypeOK, StartNow, SpawnRun
  <2>2. snapshot' \in [Runs -> 0..MaxVersion]
    BY <2>1 DEF IInv, TypeOK
  <2>3. run' \in [Runs -> RunStates] /\ run'[r] = "spawned" /\ Active' # {}
    BY <2>1 DEF IInv, TypeOK, RunStates, Active
  <2>4. startPending' = FALSE
    BY DEF IInv, TypeOK, StartNow, SpawnRun
  <2>5. /\ ui' = "idle" /\ taskAlive' = TRUE /\ status' = "Starting" /\ error' = FALSE
        /\ asked' = saved /\ wanted' = TRUE
        /\ signalled' = signalled \ {r} /\ failed' = failed \ {r}
        /\ UNCHANGED <<saved, usable, connected>>
    BY DEF StartNow, Starting, SpawnRun, settingsVars
  <2>6. asked' \in 0..MaxVersion
    BY <2>1, <2>5
  <2>7. IsRunning' => run'[shutdown'] # "none"
    BY <2>1, <2>3
  <2> QED
    BY <2>1, <2>2, <2>3, <2>4, <2>5, <2>6, <2>7 DEF IInv, TypeOK, StatusTexts
<1>2. OneRun'
  BY ControllerAssumption DEF IInv, TypeOK, RunStates, StartNow, Starting,
     SpawnRun, settingsVars, controllerVars, runVars, shownVars, historyVars,
     OneRun, Active
<1>3. SenderIsUnused'
  BY ControllerAssumption DEF IInv, TypeOK, RunStates, StartNow, Starting,
     SpawnRun, settingsVars, controllerVars, runVars, shownVars, historyVars,
     SenderIsUnused, IsRunning
<1>4. EndHasCause'
  BY ControllerAssumption DEF IInv, TypeOK, RunStates, StartNow, Starting,
     SpawnRun, settingsVars, controllerVars, runVars, shownVars, historyVars,
     EndHasCause
<1>5. WantedIsHeld'
  BY ControllerAssumption DEF IInv, TypeOK, RunStates, StartNow, Starting,
     SpawnRun, settingsVars, controllerVars, runVars, shownVars, historyVars,
     WantedIsHeld, OneRun, StartFollowsStop, Active, IsRunning
<1>6. IdleIsTruthful'
  BY ControllerAssumption DEF IInv, TypeOK, RunStates, StartNow, Starting,
     SpawnRun, settingsVars, controllerVars, runVars, shownVars, historyVars,
     IdleIsTruthful, ConnectedIsHeld, OneRun, Active, IsRunning
<1>7. RestartTakesNewSettings'
  BY ControllerAssumption DEF IInv, TypeOK, RunStates, StartNow, Starting,
     SpawnRun, settingsVars, controllerVars, runVars, shownVars, historyVars,
     RestartTakesNewSettings, StartFollowsStop, IsRunning
<1>8. NoSilentStop'
  BY ControllerAssumption DEF IInv, TypeOK, RunStates, StartNow, Starting,
     SpawnRun, settingsVars, controllerVars, runVars, shownVars, historyVars,
     NoSilentStop, WantedIsHeld, SenderIsUnused, EndHasCause, StartFollowsStop,
     OneRun, Active, IsRunning
<1>9. StartFollowsStop' /\ ConnectedIsHeld'
  BY ControllerAssumption DEF IInv, TypeOK, RunStates, StartNow, Starting,
     SpawnRun, settingsVars, controllerVars, runVars, shownVars, historyVars,
     StartFollowsStop, IsRunning, ConnectedIsHeld, OneRun, Active
<1> QED
  BY <1>1, <1>2, <1>3, <1>4, <1>5, <1>6, <1>7, <1>8, <1>9 DEF IInv

\* A save may clear the error, but then something is left to answer a start.
LEMMA SaveInv ==
  ASSUME IInv, Save
  PROVE  IInv'
<1>1. TypeOK'
  <2>1. saved' \in 1..MaxVersion /\ usable' \in BOOLEAN /\ error' = FALSE
    BY ControllerAssumption DEF IInv, TypeOK, Save, SaveThen
  <2>2. ui' \in {"idle", "restart"} /\ wanted' \in BOOLEAN
    BY DEF IInv, TypeOK, Save, SaveThen
  <2>3. UNCHANGED <<controllerVars, runVars, status, connected, asked>>
    BY DEF Save, SaveThen
  <2> QED
    BY <2>1, <2>2, <2>3
       DEF IInv, TypeOK, controllerVars, runVars, Active, IsRunning
<1>2. NoSilentStop'
  BY ControllerAssumption DEF IInv, TypeOK, RunStates, Save, SaveThen,
     settingsVars, controllerVars, runVars, shownVars, historyVars, NoSilentStop,
     WantedIsHeld, SenderIsUnused, EndHasCause, StartFollowsStop, OneRun, Active,
     IsRunning
<1>3. OneRun' /\ StartFollowsStop' /\ SenderIsUnused' /\ EndHasCause'
      /\ ConnectedIsHeld' /\ WantedIsHeld' /\ IdleIsTruthful'
      /\ RestartTakesNewSettings'
  BY ControllerAssumption DEF IInv, TypeOK, RunStates, Save, SaveThen,
     settingsVars, controllerVars, runVars, shownVars, historyVars, OneRun,
     Active, StartFollowsStop, IsRunning, SenderIsUnused, EndHasCause,
     ConnectedIsHeld, WantedIsHeld, IdleIsTruthful, RestartTakesNewSettings
<1> QED
  BY <1>1, <1>2, <1>3 DEF IInv

\* A failed save only shows its error.
LEMMA SaveFailsInv ==
  ASSUME IInv, SaveFails
  PROVE  IInv'
<1>1. TypeOK'
  BY ControllerAssumption DEF IInv, OneRun, SaveFails, settingsVars,
     controllerVars, runVars, shownVars, historyVars, TypeOK, RunStates,
     StatusTexts, Active, IsRunning
<1>2. OneRun' /\ StartFollowsStop' /\ SenderIsUnused' /\ EndHasCause'
      /\ ConnectedIsHeld' /\ WantedIsHeld' /\ IdleIsTruthful'
      /\ RestartTakesNewSettings' /\ NoSilentStop'
  BY ControllerAssumption DEF IInv, TypeOK, RunStates, SaveFails, settingsVars,
     controllerVars, runVars, shownVars, historyVars, OneRun, Active,
     StartFollowsStop, IsRunning, SenderIsUnused, EndHasCause, ConnectedIsHeld,
     WantedIsHeld, IdleIsTruthful, RestartTakesNewSettings, NoSilentStop
<1> QED
  BY <1>1, <1>2 DEF IInv

\* The end of the only run; its error is shown or a pending start follows.
LEMMA WatchInv ==
  ASSUME NEW r \in Runs, IInv, Watch(r)
  PROVE  IInv'
<1>1. TypeOK'
  <2>1. /\ run' = [run EXCEPT ![r] = "none"]
        /\ shutdown' = NoRun /\ taskAlive' = FALSE /\ startPending' = FALSE
        /\ ui' \in {"idle", "start"} /\ status' = "Stopped"
    BY DEF Watch, WatchThen
  <2>2. Active' = {} /\ run' \in [Runs -> RunStates]
    BY <2>1 DEF IInv, TypeOK, OneRun, Active, RunStates, Watch, WatchThen
  <2>3. signalled' \in SUBSET Runs /\ error' \in BOOLEAN
    BY DEF IInv, TypeOK, Watch, WatchThen, Signal
  <2>4. UNCHANGED <<settingsVars, failed, snapshot, connected, historyVars>>
    BY DEF Watch, WatchThen
  <2> QED
    BY <2>1, <2>2, <2>3, <2>4
       DEF IInv, TypeOK, StatusTexts, IsRunning, settingsVars, historyVars
<1>2. OneRun'
  BY ControllerAssumption DEF IInv, TypeOK, RunStates, Watch, WatchThen, Signal,
     settingsVars, controllerVars, runVars, shownVars, historyVars, OneRun, Active
<1>3. StartFollowsStop'
  BY ControllerAssumption DEF IInv, TypeOK, RunStates, Watch, WatchThen, Signal,
     settingsVars, controllerVars, runVars, shownVars, historyVars,
     StartFollowsStop, IsRunning
<1>4. SenderIsUnused'
  BY ControllerAssumption DEF IInv, TypeOK, RunStates, Watch, WatchThen, Signal,
     settingsVars, controllerVars, runVars, shownVars, historyVars,
     SenderIsUnused, IsRunning
<1>5. ConnectedIsHeld'
  BY ControllerAssumption DEF IInv, TypeOK, RunStates, Watch, WatchThen, Signal,
     settingsVars, controllerVars, runVars, shownVars, historyVars,
     ConnectedIsHeld, OneRun, Active
<1>6. WantedIsHeld'
  BY ControllerAssumption DEF IInv, TypeOK, RunStates, Watch, WatchThen, Signal,
     settingsVars, controllerVars, runVars, shownVars, historyVars, WantedIsHeld,
     OneRun, StartFollowsStop, Active, IsRunning
<1>7. IdleIsTruthful'
  BY ControllerAssumption DEF IInv, TypeOK, RunStates, Watch, WatchThen, Signal,
     settingsVars, controllerVars, runVars, shownVars, historyVars,
     IdleIsTruthful, ConnectedIsHeld, OneRun, Active, IsRunning
<1>8. RestartTakesNewSettings'
  BY ControllerAssumption DEF IInv, TypeOK, RunStates, Watch, WatchThen, Signal,
     settingsVars, controllerVars, runVars, shownVars, historyVars,
     RestartTakesNewSettings, StartFollowsStop, IsRunning
<1>9. NoSilentStop'
  BY ControllerAssumption DEF IInv, TypeOK, RunStates, Watch, WatchThen, Signal,
     settingsVars, controllerVars, runVars, shownVars, historyVars, NoSilentStop,
     WantedIsHeld, SenderIsUnused, EndHasCause, StartFollowsStop, OneRun, Active,
     IsRunning
<1>10. EndHasCause'
  BY ControllerAssumption DEF IInv, TypeOK, RunStates, Watch, WatchThen, Signal,
     settingsVars, controllerVars, runVars, shownVars, historyVars, EndHasCause
<1> QED
  BY <1>1, <1>2, <1>3, <1>4, <1>5, <1>6, <1>7, <1>8, <1>9, <1>10 DEF IInv

\* Steps of a run: the status and the connected flag change only while it lives.
LEMMA BindInv ==
  ASSUME NEW r \in Runs, IInv, Bind(r)
  PROVE  IInv'
<1>1. TypeOK'
  BY ControllerAssumption DEF IInv, OneRun, Bind, RunStep, settingsVars,
     controllerVars, runVars, shownVars, historyVars, TypeOK, RunStates,
     StatusTexts, Active, IsRunning
<1>2. IdleIsTruthful'
  BY ControllerAssumption DEF IInv, TypeOK, RunStates, Bind, RunStep,
     settingsVars, controllerVars, runVars, shownVars, historyVars,
     IdleIsTruthful, ConnectedIsHeld, OneRun, Active, IsRunning
<1>3. OneRun' /\ StartFollowsStop' /\ SenderIsUnused' /\ EndHasCause'
      /\ ConnectedIsHeld' /\ WantedIsHeld' /\ RestartTakesNewSettings'
      /\ NoSilentStop'
  BY ControllerAssumption DEF IInv, TypeOK, RunStates, Bind, RunStep,
     settingsVars, controllerVars, runVars, shownVars, historyVars, OneRun,
     Active, StartFollowsStop, IsRunning, SenderIsUnused, EndHasCause,
     ConnectedIsHeld, WantedIsHeld, RestartTakesNewSettings, NoSilentStop
<1> QED
  BY <1>1, <1>2, <1>3 DEF IInv

\* A run that cannot bind ends as failed.
LEMMA BindFailsInv ==
  ASSUME NEW r \in Runs, IInv, BindFails(r)
  PROVE  IInv'
<1>1. TypeOK'
  BY ControllerAssumption DEF IInv, OneRun, BindFails, RunStep, settingsVars,
     controllerVars, runVars, shownVars, historyVars, TypeOK, RunStates,
     StatusTexts, Active, IsRunning
<1>2. EndHasCause'
  BY ControllerAssumption DEF IInv, TypeOK, RunStates, BindFails, RunStep,
     settingsVars, controllerVars, runVars, shownVars, historyVars, EndHasCause
<1>3. ConnectedIsHeld'
  BY ControllerAssumption DEF IInv, TypeOK, RunStates, BindFails, RunStep,
     settingsVars, controllerVars, runVars, shownVars, historyVars,
     ConnectedIsHeld, OneRun, Active
<1>4. OneRun' /\ StartFollowsStop' /\ SenderIsUnused' /\ WantedIsHeld'
      /\ IdleIsTruthful' /\ RestartTakesNewSettings' /\ NoSilentStop'
  BY ControllerAssumption DEF IInv, TypeOK, RunStates, BindFails, RunStep,
     settingsVars, controllerVars, runVars, shownVars, historyVars, OneRun,
     Active, StartFollowsStop, IsRunning, SenderIsUnused, WantedIsHeld,
     IdleIsTruthful, ConnectedIsHeld, RestartTakesNewSettings, NoSilentStop,
     EndHasCause
<1> QED
  BY <1>1, <1>2, <1>3, <1>4 DEF IInv

\* What supervisors publish, they publish while their run lives.
LEMMA PublishInv ==
  ASSUME NEW r \in Runs, IInv, Publish(r)
  PROVE  IInv'
<1>1. TypeOK'
  BY ControllerAssumption DEF IInv, OneRun, Publish, Publishing, settingsVars,
     controllerVars, runVars, shownVars, historyVars, TypeOK, RunStates,
     StatusTexts, Active, IsRunning
<1>2. ConnectedIsHeld'
  BY ControllerAssumption DEF IInv, TypeOK, RunStates, Publish, Publishing,
     settingsVars, controllerVars, runVars, shownVars, historyVars,
     ConnectedIsHeld, OneRun, Active
<1>3. IdleIsTruthful'
  BY ControllerAssumption DEF IInv, TypeOK, RunStates, Publish, Publishing,
     settingsVars, controllerVars, runVars, shownVars, historyVars,
     IdleIsTruthful, ConnectedIsHeld, OneRun, Active, IsRunning
<1>4. OneRun' /\ StartFollowsStop' /\ SenderIsUnused' /\ EndHasCause'
      /\ WantedIsHeld' /\ RestartTakesNewSettings' /\ NoSilentStop'
  BY ControllerAssumption DEF IInv, TypeOK, RunStates, Publish, Publishing,
     settingsVars, controllerVars, runVars, shownVars, historyVars, OneRun,
     Active, StartFollowsStop, IsRunning, SenderIsUnused, EndHasCause,
     WantedIsHeld, RestartTakesNewSettings, NoSilentStop
<1> QED
  BY <1>1, <1>2, <1>3, <1>4 DEF IInv

\* A run leaves its loop for the shutdown it was sent.
LEMMA SeeShutdownInv ==
  ASSUME NEW r \in Runs, IInv, SeeShutdown(r)
  PROVE  IInv'
<1>1. TypeOK'
  BY ControllerAssumption DEF IInv, OneRun, SeeShutdown, RunStep, settingsVars,
     controllerVars, runVars, shownVars, historyVars, TypeOK, RunStates,
     StatusTexts, Active, IsRunning
<1>2. EndHasCause'
  BY ControllerAssumption DEF IInv, TypeOK, RunStates, SeeShutdown, RunStep,
     settingsVars, controllerVars, runVars, shownVars, historyVars, EndHasCause
<1>3. ConnectedIsHeld'
  BY ControllerAssumption DEF IInv, TypeOK, RunStates, SeeShutdown, RunStep,
     settingsVars, controllerVars, runVars, shownVars, historyVars,
     ConnectedIsHeld, OneRun, Active
<1>4. OneRun' /\ StartFollowsStop' /\ SenderIsUnused' /\ WantedIsHeld'
      /\ IdleIsTruthful' /\ RestartTakesNewSettings' /\ NoSilentStop'
  BY ControllerAssumption DEF IInv, TypeOK, RunStates, SeeShutdown, RunStep,
     settingsVars, controllerVars, runVars, shownVars, historyVars, OneRun,
     Active, StartFollowsStop, IsRunning, SenderIsUnused, WantedIsHeld,
     IdleIsTruthful, ConnectedIsHeld, RestartTakesNewSettings, NoSilentStop,
     EndHasCause
<1> QED
  BY <1>1, <1>2, <1>3, <1>4 DEF IInv

\* A run that a panic ends is a failed run.
LEMMA SupervisorPanicsInv ==
  ASSUME NEW r \in Runs, IInv, SupervisorPanics(r)
  PROVE  IInv'
<1>1. TypeOK'
  BY ControllerAssumption DEF IInv, OneRun, SupervisorPanics, RunStep,
     settingsVars, controllerVars, runVars, shownVars, historyVars, TypeOK,
     RunStates, StatusTexts, Active, IsRunning
<1>2. EndHasCause'
  BY ControllerAssumption DEF IInv, TypeOK, RunStates, SupervisorPanics, RunStep,
     settingsVars, controllerVars, runVars, shownVars, historyVars, EndHasCause
<1>3. ConnectedIsHeld'
  BY ControllerAssumption DEF IInv, TypeOK, RunStates, SupervisorPanics, RunStep,
     settingsVars, controllerVars, runVars, shownVars, historyVars,
     ConnectedIsHeld, OneRun, Active
<1>4. OneRun' /\ StartFollowsStop' /\ SenderIsUnused' /\ WantedIsHeld'
      /\ IdleIsTruthful' /\ RestartTakesNewSettings' /\ NoSilentStop'
  BY ControllerAssumption DEF IInv, TypeOK, RunStates, SupervisorPanics, RunStep,
     settingsVars, controllerVars, runVars, shownVars, historyVars, OneRun,
     Active, StartFollowsStop, IsRunning, SenderIsUnused, WantedIsHeld,
     IdleIsTruthful, ConnectedIsHeld, RestartTakesNewSettings, NoSilentStop,
     EndHasCause
<1> QED
  BY <1>1, <1>2, <1>3, <1>4 DEF IInv

\* The joins change nothing that is shown.
LEMMA JoinedInv ==
  ASSUME NEW r \in Runs, IInv, Joined(r)
  PROVE  IInv'
<1>1. TypeOK'
  BY ControllerAssumption DEF IInv, OneRun, Joined, RunStep, settingsVars,
     controllerVars, runVars, shownVars, historyVars, TypeOK, RunStates,
     StatusTexts, Active, IsRunning
<1>2. EndHasCause'
  BY ControllerAssumption DEF IInv, TypeOK, RunStates, Joined, RunStep,
     settingsVars, controllerVars, runVars, shownVars, historyVars, EndHasCause
<1>3. ConnectedIsHeld'
  BY ControllerAssumption DEF IInv, TypeOK, RunStates, Joined, RunStep,
     settingsVars, controllerVars, runVars, shownVars, historyVars,
     ConnectedIsHeld, OneRun, Active
<1>4. OneRun' /\ StartFollowsStop' /\ SenderIsUnused' /\ WantedIsHeld'
      /\ IdleIsTruthful' /\ RestartTakesNewSettings' /\ NoSilentStop'
  BY ControllerAssumption DEF IInv, TypeOK, RunStates, Joined, RunStep,
     settingsVars, controllerVars, runVars, shownVars, historyVars, OneRun,
     Active, StartFollowsStop, IsRunning, SenderIsUnused, WantedIsHeld,
     IdleIsTruthful, ConnectedIsHeld, RestartTakesNewSettings, NoSilentStop,
     EndHasCause
<1> QED
  BY <1>1, <1>2, <1>3, <1>4 DEF IInv

\* The end of Pool::close takes the connected flag back.
LEMMA ClosedInv ==
  ASSUME NEW r \in Runs, IInv, Closed(r)
  PROVE  IInv'
<1>1. TypeOK'
  BY ControllerAssumption DEF IInv, OneRun, Closed, RunStep, settingsVars,
     controllerVars, runVars, shownVars, historyVars, TypeOK, RunStates,
     StatusTexts, Active, IsRunning
<1>2. EndHasCause'
  BY ControllerAssumption DEF IInv, TypeOK, RunStates, Closed, RunStep,
     settingsVars, controllerVars, runVars, shownVars, historyVars, EndHasCause
<1>3. ConnectedIsHeld'
  BY ControllerAssumption DEF IInv, TypeOK, RunStates, Closed, RunStep,
     settingsVars, controllerVars, runVars, shownVars, historyVars,
     ConnectedIsHeld, OneRun, Active
<1>4. OneRun' /\ StartFollowsStop' /\ SenderIsUnused' /\ WantedIsHeld'
      /\ IdleIsTruthful' /\ RestartTakesNewSettings' /\ NoSilentStop'
  BY ControllerAssumption DEF IInv, TypeOK, RunStates, Closed, RunStep,
     settingsVars, controllerVars, runVars, shownVars, historyVars, OneRun,
     Active, StartFollowsStop, IsRunning, SenderIsUnused, WantedIsHeld,
     IdleIsTruthful, ConnectedIsHeld, RestartTakesNewSettings, NoSilentStop,
     EndHasCause
<1> QED
  BY <1>1, <1>2, <1>3, <1>4 DEF IInv

\* The result is returned after everything is shown.
LEMMA ReturnInv ==
  ASSUME NEW r \in Runs, IInv, Return(r)
  PROVE  IInv'
<1>1. TypeOK'
  BY ControllerAssumption DEF IInv, OneRun, Return, RunStep, settingsVars,
     controllerVars, runVars, shownVars, historyVars, TypeOK, RunStates,
     StatusTexts, Active, IsRunning
<1>2. EndHasCause'
  BY ControllerAssumption DEF IInv, TypeOK, RunStates, Return, RunStep,
     settingsVars, controllerVars, runVars, shownVars, historyVars, EndHasCause
<1>3. ConnectedIsHeld'
  BY ControllerAssumption DEF IInv, TypeOK, RunStates, Return, RunStep,
     settingsVars, controllerVars, runVars, shownVars, historyVars,
     ConnectedIsHeld, OneRun, Active
<1>4. OneRun' /\ StartFollowsStop' /\ SenderIsUnused' /\ WantedIsHeld'
      /\ IdleIsTruthful' /\ RestartTakesNewSettings' /\ NoSilentStop'
  BY ControllerAssumption DEF IInv, TypeOK, RunStates, Return, RunStep,
     settingsVars, controllerVars, runVars, shownVars, historyVars, OneRun,
     Active, StartFollowsStop, IsRunning, SenderIsUnused, WantedIsHeld,
     IdleIsTruthful, ConnectedIsHeld, RestartTakesNewSettings, NoSilentStop,
     EndHasCause
<1> QED
  BY <1>1, <1>2, <1>3, <1>4 DEF IInv

---------------------------------------------------------------------------
(* The invariant *)

\* At first there is no task.
LEMMA InitInv == Init => IInv
<1> SUFFICES ASSUME Init PROVE IInv
  OBVIOUS
<1>1. Active = {} /\ ~IsRunning
  BY DEF Init, Active, IsRunning
<1>2. /\ saved \in 1..MaxVersion /\ asked \in 0..MaxVersion
      /\ snapshot \in [Runs -> 0..MaxVersion]
  BY ControllerAssumption DEF Init
<1>3. TypeOK
  BY <1>1, <1>2 DEF Init, TypeOK, RunStates, StatusTexts
<1>4. OneRun /\ StartFollowsStop /\ SenderIsUnused /\ EndHasCause /\ ConnectedIsHeld
  BY <1>1 DEF Init, OneRun, StartFollowsStop, SenderIsUnused, EndHasCause,
     ConnectedIsHeld
<1>5. WantedIsHeld /\ IdleIsTruthful /\ RestartTakesNewSettings /\ NoSilentStop
  BY <1>1 DEF Init, WantedIsHeld, IdleIsTruthful, RestartTakesNewSettings,
     NoSilentStop
<1> QED
  BY <1>3, <1>4, <1>5 DEF IInv

\* Every step keeps the invariant.
LEMMA NextInv == IInv /\ [Next]_vars => IInv'
<1> SUFFICES ASSUME IInv, [Next]_vars PROVE IInv'
  OBVIOUS
<1>1. CASE UNCHANGED vars
  BY <1>1 DEF vars, settingsVars, controllerVars, runVars, shownVars, historyVars,
     IInv,
     TypeOK, OneRun, Active, IsRunning, StartFollowsStop, SenderIsUnused, EndHasCause,
     ConnectedIsHeld, WantedIsHeld, IdleIsTruthful, RestartTakesNewSettings, NoSilentStop
<1>2. CASE Handle
  BY <1>2, StopInv, StartIgnoredInv, StartRefusedInv, StartLaterInv, StartNowInv,
     SaveInv,
     SaveFailsInv, WatchInv DEF Handle, Start
<1>3. ASSUME NEW r \in Runs, RunProxy(r) PROVE IInv'
  BY <1>3, BindInv, BindFailsInv, PublishInv, SeeShutdownInv, SupervisorPanicsInv,
     JoinedInv, ClosedInv, ReturnInv DEF RunProxy
<1> QED
  BY <1>1, <1>2, <1>3 DEF Next

\* The invariant holds throughout every behaviour.
LEMMA Invariance == Spec => []IInv
BY InitInv, NextInv, PTL DEF Spec

---------------------------------------------------------------------------
(* The properties of ProxyController *)

\* Every variable keeps its type, and ProxyController's fields describe its task.
THEOREM TypeCorrect == Spec => []TypeOK
<1>1. IInv => TypeOK
  BY DEF IInv
<1> QED
  BY <1>1, Invariance, PTL

\* However fast the user stops and starts, a second run is never spawned beside
\* one whose end has not been handled (ProxyController::start and finish).
THEOREM AtMostOneRun == Spec => []OneRun
<1>1. IInv => OneRun
  BY DEF IInv
<1> QED
  BY <1>1, Invariance, PTL

\* When no run is left, the status says Stopped and nothing is shown connected
\* (the end of run_proxy and its watcher).
THEOREM IdleTheorem == Spec => []IdleIsTruthful
<1>1. IInv => IdleIsTruthful
  BY DEF IInv
<1> QED
  BY <1>1, Invariance, PTL

\* A proxy that runs has settings no older than the last request to start.
THEOREM RestartTheorem == Spec => []RestartTakesNewSettings
<1>1. IInv => RestartTakesNewSettings
  BY DEF IInv
<1> QED
  BY <1>1, Invariance, PTL

\* An accepted start that comes to nothing leaves an error (start_proxy).
THEOREM NoSilentStopTheorem == Spec => []NoSilentStop
<1>1. IInv => NoSilentStop
  BY DEF IInv
<1> QED
  BY <1>1, Invariance, PTL

---------------------------------------------------------------------------
(* ProxyController implements the safety part of ProxyService *)

\* The controller starts with nothing running.
LEMMA InitRefines == Init => Abstract!Init
BY ControllerAssumption DEF Init, Abstract!Init, Phase, IsRunning

\* What the mapped variables are, by cases a backend can use.
LEMMA Mapping ==
  /\ IsRunning => Phase = "running"
  /\ ~IsRunning /\ (ui = "start" \/ startPending) => Phase = "restarting"
  /\ ~IsRunning /\ ui # "start" /\ ~startPending /\ taskAlive => Phase = "stopping"
  /\ ~IsRunning /\ ui # "start" /\ ~startPending /\ ~taskAlive => Phase = "stopped"
BY DEF Phase, IsRunning

\* A step that touches neither the controller, the settings nor a handler under
\* way is a stutter of ProxyService.
LEMMA RunsAreHidden ==
  ASSUME IInv, UNCHANGED <<ui, settingsVars, controllerVars, snapshot>>
  PROVE  UNCHANGED Abstract!serviceVars
BY DEF Abstract!serviceVars, settingsVars, controllerVars, Phase, IsRunning

\* Every step of the controller is a step of ProxyService or a stutter.
LEMMA NextRefines == IInv /\ [Next]_vars => [Abstract!Next]_(Abstract!serviceVars)
<1> SUFFICES ASSUME IInv, [Next]_vars PROVE [Abstract!Next]_(Abstract!serviceVars)
  OBVIOUS
<1> USE DEF Abstract!Next, Abstract!serviceVars
<1>1. CASE UNCHANGED vars
  BY <1>1, RunsAreHidden DEF vars, runVars
<1>2. CASE Stop
  <2>1. /\ UNCHANGED saved
        /\ ~IsRunning'
        /\ IF ui = "restart" THEN Phase' = "restarting"
           ELSE Phase' = IF taskAlive THEN "stopping" ELSE "stopped"
    BY <1>2, ControllerAssumption DEF Stop, Phase, IsRunning, settingsVars
  <2>2. ui # "start" /\ (Phase = "restarting" => taskAlive)
        /\ (IsRunning => taskAlive)
    BY <1>2 DEF Stop, Phase, IsRunning, IInv, TypeOK, Active
  <2> QED
    BY <2>1, <2>2, Mapping DEF Abstract!AskStop, Abstract!AskRestart
<1>3. CASE StartIgnored
  <2>1. ui = "idle"
    BY <1>3 DEF StartIgnored, Starting, IInv, StartFollowsStop
  <2> QED
    BY <1>3, <2>1, RunsAreHidden DEF StartIgnored, Starting, runVars
<1>4. CASE StartRefused
  <2>1. UNCHANGED saved /\ ~IsRunning /\ ~IsRunning' /\ ui' = "idle"
          /\ UNCHANGED <<startPending, taskAlive>>
    BY <1>4 DEF StartRefused, Starting, IsRunning, settingsVars, controllerVars
  <2>2. Phase' = IF startPending THEN "restarting"
                 ELSE IF taskAlive THEN "stopping" ELSE "stopped"
    BY <2>1 DEF Phase
  <2> QED
    BY <2>1, <2>2, Mapping DEF Abstract!AskStop, Abstract!Gone
<1>5. CASE StartLater
  <2>1. UNCHANGED saved /\ ~IsRunning /\ ~IsRunning' /\ Phase' = "restarting"
    BY <1>5 DEF StartLater, Phase, IsRunning, settingsVars
  <2>2. Phase \in {"stopping", "restarting"}
    BY <1>5, <2>1, Mapping DEF StartLater
  <2> QED
    BY <2>1, <2>2 DEF Abstract!AskRestart
<1>6. ASSUME NEW r \in Runs, StartNow(r) PROVE Abstract!Next
  <2>1. UNCHANGED saved /\ IsRunning' /\ ~IsRunning /\ Phase' = "running"
    BY <1>6, ControllerAssumption DEF StartNow, SpawnRun, Phase, IsRunning,
       settingsVars
  <2>2. snapshot'[shutdown'] = saved
    BY <1>6 DEF StartNow, SpawnRun, IInv, TypeOK
  <2>3. Phase \in {"stopped", "restarting"}
    BY <1>6, <2>1, Mapping DEF StartNow
  <2> QED
    BY <2>1, <2>2, <2>3 DEF Abstract!Begin
<1>7. CASE Save
  <2>1. saved' = saved + 1 /\ UNCHANGED <<controllerVars, snapshot>> /\ ui # "start"
        /\ ui' # "start"
    BY <1>7 DEF Save, SaveThen, runVars
  <2>2. UNCHANGED Phase
    BY <2>1 DEF Phase, IsRunning, controllerVars
  <2> QED
    BY <2>1, <2>2 DEF Abstract!Save, IsRunning, controllerVars
<1>8. CASE SaveFails
  BY <1>8, RunsAreHidden DEF SaveFails, runVars
<1>9. ASSUME NEW r \in Runs, Watch(r) PROVE [Abstract!Next]_(Abstract!serviceVars)
  <2>1. /\ UNCHANGED saved
        /\ ~IsRunning'
        /\ Phase' = IF startPending THEN "restarting" ELSE "stopped"
    BY <1>9 DEF Watch, WatchThen, Phase, IsRunning, settingsVars
  <2>2. taskAlive /\ ui = "idle" /\ (startPending => ~IsRunning)
    BY <1>9 DEF Watch, WatchThen, IInv, TypeOK, Active
  <2> QED
    BY <2>1, <2>2, Mapping DEF Abstract!Gone
<1>10. ASSUME NEW r \in Runs, RunProxy(r) PROVE UNCHANGED Abstract!serviceVars
  <2>1. UNCHANGED <<ui, settingsVars, controllerVars, snapshot>>
    BY <1>10 DEF RunProxy, Bind, BindFails, Publish, SeeShutdown,
       SupervisorPanics, Joined,
       Closed, Return, RunStep, runVars
  <2> QED
    BY <2>1, RunsAreHidden
<1> QED
  BY <1>1, <1>2, <1>3, <1>4, <1>5, <1>6, <1>7, <1>8, <1>9, <1>10 DEF Next, Handle,
     Start

\* Every run of the controller is one ProxyService allows: the phases the user
\* sees change only as promised, and each proxy uses the settings saved when it
\* was started (the safety part of IsService).
THEOREM Refinement == Spec => Abstract!SafeService
BY InitRefines, NextRefines, Invariance, PTL DEF Spec, Abstract!SafeService
===========================================================================
