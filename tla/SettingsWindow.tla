--------------------------- MODULE SettingsWindow ---------------------------
(***************************************************************************)
(* The settings window (src/main.rs, src/settings/): the form and what is  *)
(* saved of it, the window that shows it, the question about unsaved       *)
(* changes, and how a host key prompt raises the window.                   *)
(*                                                                         *)
(* The application runs on the UI thread, one event at a time, but an      *)
(* event is not one step: refresh_stats reads what the threads of the      *)
(* proxy write meanwhile and may open the window, opening it refreshes     *)
(* again, and the window is built after the handler has returned.  `todo`  *)
(* holds the calls the current event still has to make, the next one       *)
(* first.                                                                  *)
(***************************************************************************)
EXTENDS Naturals, Sequences, SequencesExt, FiniteSets

CONSTANTS
  Values,     \* what the connection settings can be
  Windows,    \* bound: windows that are open at once
  NoWindow

ASSUME SettingsAssumption == NoWindow \notin Windows

VARIABLES
  saved,            \* the connection settings in AppConfig
  form,             \* SettingsForm
  settings_window,  \* the handle the application keeps
  active_tab,
  menu_open,
  log_task,         \* the task that refreshes the log view is there
  stats_task,       \* the task that refreshes the traffic is there
  running,          \* ProxyController has a run it was not asked to stop
  task_alive,       \* it has one that has not returned
  prompt,           \* ProxyStats holds a host key prompt
  snapshot,         \* and so did stats_snapshot
  windows,          \* the windows that are open
  inputs,           \* what the inputs of each show
  asking,           \* those that ask about unsaved changes
  todo,             \* the calls left of the current event
  deferred,         \* windows to build when it is over
  source,           \* the window whose event it is
  leaving,          \* the window to remove when it is over
  turn,             \* history: what the current event met
  raced,            \* history: a prompt asked for a window it need not have
  switched          \* history: one took the user off the logs, and the tasks
                    \* have not been synchronised since

formVars   == <<saved, form>>
taskVars   == <<log_task, stats_task, switched>>
runVars    == <<running, task_alive>>
promptVars == <<prompt, snapshot>>
viewVars   == <<windows, inputs, asking>>
vars == <<formVars, settings_window, active_tab, menu_open, taskVars, runVars,
          promptVars, viewVars, todo, deferred, source, leaving, turn, raced>>

Tabs == {"General", "Connection", "Logs"}

\* The text of a form: a value as from_config writes it, the same with blanks
\* around it, or a text that cannot be saved.
Invalid == [text |-> "none", shape |-> "invalid"]
Plain(v)  == [text |-> v, shape |-> "plain"]
Padded(v) == [text |-> v, shape |-> "padded"]
Forms == {Plain(v) : v \in Values} \cup {Padded(v) : v \in Values} \cup {Invalid}

\* apply_to_config, which trims what the user typed, and save_error.
Applied(f) == f.text
Saveable(f) == f # Invalid

has_unsaved_changes == form # Plain(saved)

Idle == todo = <<>> /\ deferred = 0 /\ leaving = NoWindow

---------------------------------------------------------------------------
(* refresh_stats, sync_refresh_tasks and open_settings *)

Call(name) == todo # <<>> /\ Head(todo) = name

SyncRefreshTasks(tab) ==
  /\ log_task' = (settings_window # NoWindow /\ tab = "Logs")
  /\ stats_task' = (running /\ (settings_window # NoWindow \/ menu_open))

Refreshed ==
  /\ Call("refresh")
  /\ snapshot' = prompt
  /\ SyncRefreshTasks(active_tab)
  /\ UNCHANGED <<formVars, settings_window, menu_open, runVars, prompt, viewVars,
                 deferred, source, leaving, raced>>

HostKeyPrompted == prompt /\ ~snapshot

\* Mutant of AskNow: the user is not taken away from another tab.
AskNowIfClosed ==
  /\ HostKeyPrompted /\ Refreshed
  /\ active_tab' = IF settings_window = NoWindow THEN "General" ELSE active_tab
  /\ switched' = FALSE
  /\ todo' = <<"open">> \o Tail(todo)
  /\ turn' = turn \cup {"noticed"}

\* A prompt that was not there before opens the settings on the first tab, after
\* the tasks have been synchronised with the one before.
AskNow ==
  /\ HostKeyPrompted /\ Refreshed
  /\ active_tab' = "General"
  /\ switched' = log_task'
  /\ todo' = <<"open">> \o Tail(todo)
  /\ turn' = turn \cup {"noticed"}

Refresh ==
  /\ ~HostKeyPrompted /\ Refreshed
  /\ switched' = FALSE
  /\ todo' = Tail(todo)
  /\ UNCHANGED <<active_tab, turn>>

\* The handle reaches its window, which comes to the front.
Activate ==
  /\ Call("open")
  /\ settings_window \in windows
  /\ todo' = Tail(todo)
  /\ UNCHANGED <<formVars, settings_window, active_tab, menu_open, taskVars, runVars,
                 promptVars, viewVars, deferred, source, leaving, turn, raced>>

Requested == deferred > 0 \/ "defer" \in Range(todo)

\* There is no handle, or its update fails: the window is gone, or it is the
\* one whose event is handled (gpui does not update a window within its own
\* update).
OpenSettings ==
  /\ Call("open")
  /\ settings_window \notin windows \/ settings_window = source
  /\ settings_window' = NoWindow
  /\ todo' = <<"refresh", "defer">> \o Tail(todo)
  /\ raced' = (raced \/ ("noticed" \in turn /\ (Requested \/ windows # {})))
  /\ UNCHANGED <<formVars, active_tab, menu_open, taskVars, runVars, promptVars,
                 viewVars, deferred, source, leaving, turn>>

Defer ==
  /\ Call("defer")
  /\ todo' = Tail(todo)
  /\ deferred' = deferred + 1
  /\ UNCHANGED <<formVars, settings_window, active_tab, menu_open, taskVars, runVars,
                 promptVars, viewVars, source, leaving, turn, raced>>

\* SettingsView::new copies the form into the inputs of its window.
NewInputs(w) == [x \in windows' |-> IF x = w THEN form ELSE inputs[x]]

\* The handler has returned: the view reads the form as it is now.
BuildWindow(w) ==
  /\ todo = <<>> /\ deferred > 0
  /\ w \notin windows
  /\ deferred' = deferred - 1
  /\ windows' = windows \cup {w}
  /\ inputs' = NewInputs(w)
  /\ settings_window' = w
  /\ todo' = <<"refresh">>
  /\ source' = NoWindow
  /\ UNCHANGED <<formVars, active_tab, menu_open, taskVars, runVars, promptVars,
                 asking, leaving, turn, raced>>

BuildErr ==
  /\ todo = <<>> /\ deferred > 0
  /\ deferred' = deferred - 1
  /\ source' = NoWindow
  /\ turn' = turn \cup {"failed"}
  /\ UNCHANGED <<formVars, settings_window, active_tab, menu_open, taskVars, runVars,
                 promptVars, viewVars, todo, leaving, raced>>

---------------------------------------------------------------------------
(* Events without a window *)

\* An event of w, or of none, with the calls it makes in the end.
Event(w, calls) ==
  /\ Idle
  /\ source' = w
  /\ todo' = calls
  /\ turn' = {}
  /\ UNCHANGED <<deferred, raced>>

\* An event of a window that is not behind its question.
WindowEvent(w, calls) ==
  /\ w \in windows \ asking
  /\ Event(w, calls)
  /\ UNCHANGED <<menu_open, leaving>>

\* The stats channel, the timer of stats_task, or a toggle of the menu.
StatsChanged ==
  /\ Event(NoWindow, <<"refresh">>)
  /\ UNCHANGED <<formVars, settings_window, active_tab, menu_open, taskVars, runVars,
                 promptVars, viewVars, leaving>>

MenuSettings ==
  /\ Event(NoWindow, <<"open", "refresh">>)
  /\ UNCHANGED <<formVars, settings_window, active_tab, menu_open, taskVars, runVars,
                 promptVars, viewVars, leaving>>

\* menuWillOpen and menuDidClose.
MenuToggled ==
  /\ Event(NoWindow, <<"refresh">>)
  /\ menu_open' = ~menu_open
  /\ UNCHANGED <<formVars, settings_window, active_tab, taskVars, runVars, promptVars,
                 viewVars, leaving>>

\* start and stop of ProxyController: a start may be refused, or has to wait
\* for the run that was asked to stop.
Start ==
  \/ ~task_alive /\ running' = TRUE /\ task_alive' = TRUE
  \/ UNCHANGED runVars

Stop == running' = FALSE /\ UNCHANGED task_alive

Restart == IF task_alive THEN Stop ELSE Start

\* From the menu, or from a window.  Refreshes in a row are one: what only the
\* last can see is a change that comes with an event of its own.
StartStop(w) ==
  /\ Event(w, <<"refresh">>)
  /\ w \in windows \ asking \/ w = NoWindow
  /\ Start \/ Stop
  /\ UNCHANGED <<formVars, settings_window, active_tab, menu_open, taskVars, promptVars,
                 viewVars, leaving>>

\* A run has returned, and the start that waited for it follows, if any.
RunEnded ==
  /\ task_alive
  /\ running' \in {FALSE, ~running} /\ task_alive' = running'
  /\ Event(NoWindow, <<"refresh">>)
  /\ UNCHANGED <<formVars, settings_window, active_tab, menu_open, taskVars, promptVars,
                 viewVars, leaving>>

\* check_server_key, on a thread of the proxy, whatever the application does.
PromptShown ==
  /\ task_alive /\ ~prompt
  /\ prompt' = TRUE
  /\ UNCHANGED <<formVars, settings_window, active_tab, menu_open, taskVars, runVars,
                 snapshot, viewVars, todo, deferred, source, leaving, turn, raced>>

---------------------------------------------------------------------------
(* Events of a window *)

\* Mutant of TabClicked: the tasks are synchronised when the logs are shown, and
\* not when they are left.
TabClickedEntering(w, tab) ==
  /\ WindowEvent(w, <<>>)
  /\ active_tab' = tab
  /\ \/ tab = "Logs" /\ SyncRefreshTasks(tab) /\ switched' = FALSE
     \/ tab # "Logs" /\ UNCHANGED taskVars
  /\ UNCHANGED <<formVars, settings_window, runVars, promptVars, viewVars>>

TabClicked(w, tab) ==
  /\ WindowEvent(w, <<>>)
  /\ active_tab' = tab
  /\ SyncRefreshTasks(tab)
  /\ switched' = FALSE
  /\ UNCHANGED <<formVars, settings_window, runVars, promptVars, viewVars>>

\* The user types, or chooses another method or key file.
FieldEdited(w, f) ==
  /\ WindowEvent(w, <<>>)
  /\ active_tab = "Connection"
  /\ form' = f
  /\ inputs' = [inputs EXCEPT ![w] = f]
  /\ UNCHANGED <<saved, settings_window, active_tab, taskVars, runVars, promptVars,
                 windows, asking>>

\* Mutant of Revert: the inputs keep what was typed.
RevertUnsynced(w) ==
  /\ WindowEvent(w, <<>>)
  /\ active_tab = "Connection" /\ has_unsaved_changes
  /\ form' = Plain(saved)
  /\ UNCHANGED <<saved, settings_window, active_tab, taskVars, runVars, promptVars,
                 viewVars>>

\* sync_inputs: the form the application changed is copied into the inputs.
SyncInputs(w) == inputs' = [inputs EXCEPT ![w] = form']

\* revert_form, and sync_inputs for the window it was clicked in.
Revert(w) ==
  /\ WindowEvent(w, <<>>)
  /\ active_tab = "Connection" /\ has_unsaved_changes
  /\ form' = Plain(saved)
  /\ SyncInputs(w)
  /\ UNCHANGED <<saved, settings_window, active_tab, taskVars, runVars, promptVars,
                 windows, asking>>

\* Save, or Save and Start: writing the Keychain or the file may fail.
Save(w) ==
  /\ WindowEvent(w, <<"refresh">>)
  /\ active_tab = "Connection" /\ Saveable(form)
  /\ \/ /\ saved' = Applied(form)
        /\ Restart \/ UNCHANGED runVars
     \/ UNCHANGED <<saved, runVars>>
  /\ UNCHANGED <<form, settings_window, active_tab, taskVars, promptVars, viewVars>>

\* The card of the prompt.  trust_host_key restarts a proxy that runs, unless
\* the settings have changed or saving fails; a rejection stops it.
PromptAnswered(w) ==
  /\ active_tab = "General" /\ snapshot
  /\ prompt' = FALSE
  /\ \/ WindowEvent(w, <<"refresh">>) /\ Stop
     \/ WindowEvent(w, <<>>) /\ UNCHANGED runVars
  /\ UNCHANGED <<formVars, settings_window, active_tab, taskVars, snapshot, viewVars>>

Without(w) ==
  /\ windows' = windows \ {w}
  /\ inputs' = [x \in windows' |-> inputs[x]]

\* The callback of on_window_should_close: nothing to ask, and settings_closed.
CloseClean(w) ==
  /\ WindowEvent(w, <<"refresh">>)
  /\ ~has_unsaved_changes
  /\ settings_window' = NoWindow
  /\ Without(w)
  /\ UNCHANGED <<formVars, active_tab, taskVars, runVars, promptVars, asking>>

\* Mutant of CloseDirty: the handle is given up before the answer is known.
CloseDirtyForgets(w) ==
  /\ WindowEvent(w, <<>>)
  /\ has_unsaved_changes
  /\ asking' = asking \cup {w}
  /\ settings_window' = NoWindow
  /\ UNCHANGED <<formVars, active_tab, taskVars, runVars, promptVars, windows, inputs>>

CloseDirty(w) ==
  /\ WindowEvent(w, <<>>)
  /\ has_unsaved_changes
  /\ asking' = asking \cup {w}
  /\ UNCHANGED <<formVars, settings_window, active_tab, taskVars, runVars, promptVars,
                 windows, inputs>>

\* The answer reaches resolve_close from a task of its own.
Answer(w) ==
  /\ w \in asking
  /\ asking' = asking \ {w}
  /\ Event(NoWindow, <<"refresh">>)
  /\ UNCHANGED <<settings_window, menu_open, taskVars, runVars, promptVars, windows,
                 inputs>>

AnswerSave(w) ==
  /\ Answer(w)
  /\ \/ /\ Saveable(form)
        /\ saved' = Applied(form)
        /\ leaving' = w
        /\ UNCHANGED <<form, active_tab>>
     \/ /\ active_tab' = "Connection"
        /\ UNCHANGED <<formVars, leaving>>

\* Mutant of AnswerDontSave: the window closes with the form as it is.
AnswerDontRevert(w) ==
  /\ Answer(w)
  /\ leaving' = w
  /\ UNCHANGED <<formVars, active_tab>>

AnswerDontSave(w) ==
  /\ Answer(w)
  /\ form' = Plain(saved)
  /\ leaving' = w
  /\ UNCHANGED <<saved, active_tab>>

AnswerCancel(w) ==
  /\ Answer(w)
  /\ UNCHANGED <<formVars, active_tab, leaving>>

\* Mutant of RemoveWindow: settings_closed is left to the callback of the
\* window, which a removal does not call.
RemoveWindowOnly ==
  /\ leaving # NoWindow /\ todo = <<>> /\ deferred = 0
  /\ Without(leaving)
  /\ leaving' = NoWindow
  /\ todo' = <<"refresh">>
  /\ UNCHANGED <<formVars, settings_window, active_tab, menu_open, taskVars, runVars,
                 promptVars, asking, deferred, source, turn, raced>>

\* resolve_close has returned true: remove_window and settings_closed.
RemoveWindow ==
  /\ leaving # NoWindow /\ todo = <<>> /\ deferred = 0
  /\ Without(leaving)
  /\ leaving' = NoWindow
  /\ settings_window' = NoWindow
  /\ todo' = <<"refresh">>
  /\ turn' = turn \cup (IF "noticed" \in turn THEN {"left"} ELSE {})
  /\ UNCHANGED <<formVars, active_tab, menu_open, taskVars, runVars, promptVars,
                 asking, deferred, source, raced>>

---------------------------------------------------------------------------
Init ==
  /\ saved \in Values /\ form = Plain(saved)
  /\ settings_window = NoWindow /\ active_tab = "General" /\ menu_open = FALSE
  /\ log_task = FALSE /\ stats_task = FALSE /\ switched = FALSE
  /\ running = FALSE /\ task_alive = FALSE /\ prompt = FALSE /\ snapshot = FALSE
  /\ windows = {} /\ inputs = <<>> /\ asking = {}
  /\ todo = <<>> /\ deferred = 0 /\ source = NoWindow /\ leaving = NoWindow
  /\ turn = {} /\ raced = FALSE

Next ==
  \/ AskNow
  \/ Refresh
  \/ Activate
  \/ OpenSettings
  \/ Defer
  \/ BuildErr
  \/ StatsChanged
  \/ MenuSettings
  \/ MenuToggled
  \/ RunEnded
  \/ PromptShown
  \/ RemoveWindow
  \/ \E w \in Windows \cup {NoWindow} : StartStop(w)
  \/ \E w \in Windows :
       \/ BuildWindow(w)
       \/ \E tab \in Tabs : TabClicked(w, tab)
       \/ \E f \in Forms : FieldEdited(w, f)
       \/ Revert(w)
       \/ Save(w)
       \/ PromptAnswered(w)
       \/ CloseClean(w)
       \/ CloseDirty(w)
       \/ AnswerSave(w)
       \/ AnswerDontSave(w)
       \/ AnswerCancel(w)

Spec == Init /\ [][Next]_vars

---------------------------------------------------------------------------
(* Properties *)

\* Every variable keeps its type, and between two events the handle is that of
\* an open window (settings_closed after remove_window).
TypeOK ==
  /\ saved \in Values /\ form \in Forms
  /\ settings_window \in Windows \cup {NoWindow} /\ active_tab \in Tabs
  /\ \A flag \in {menu_open, log_task, stats_task, running, task_alive, prompt, snapshot,
                  raced, switched} :
       flag \in BOOLEAN
  /\ windows \in SUBSET Windows /\ inputs \in [windows -> Forms]
  /\ asking \in SUBSET windows
  /\ todo \in Seq({"refresh", "open", "defer"}) /\ deferred \in Nat
  /\ {source, leaving} \subseteq Windows \cup {NoWindow}
  /\ turn \subseteq {"noticed", "failed", "left"}
  /\ Idle /\ settings_window # NoWindow => settings_window \in windows

\* Edits do not outlive their window: once it is closed, by whichever answer,
\* the form is what is saved, so the next window shows that and the next save
\* writes nothing the user has given up (resolve_close).
ClosedIsSettled ==
  Idle /\ windows = {} => Saveable(form) /\ Applied(form) = saved

\* The application has one settings window.  The one way to a second is a host
\* key prompt that refresh_stats notices when a window has been requested and
\* not been built, or in an event of the window itself (open_settings).
OneWindow == Cardinality(windows) > 1 => raced

\* What the inputs show is what a save would write, also for a form the
\* application changed on its own (sync_inputs) or while the window was being
\* built, as long as the form has one window.
InputsShowForm == ~raced => \A w \in windows \ {leaving} : inputs[w] = form

\* "The proxy cannot connect until the user decides, so ask now.": when an event
\* that noticed a new prompt is over, the settings are open on the tab that asks.
\* The exceptions are a window that cannot be opened, and a prompt noticed by
\* resolve_close, which brings the window it is about to remove to the front.
PromptIsAsked ==
  Idle /\ "noticed" \in turn /\ turn \cap {"failed", "left"} = {}
    => settings_window \in windows /\ active_tab = "General"

\* The tasks that refresh what is shown run when it is shown, and no longer: every
\* event that changes what sync_refresh_tasks looks at has to reach it.  The one
\* exception is a host key prompt that takes the user off the logs of an open
\* window: refresh_stats changes the tab after synchronising, so log_task goes on
\* until the next refresh or tab.
TasksFollow ==
  Idle =>
    /\ stats_task <=> running /\ (settings_window \in windows \/ menu_open)
    /\ log_task <=> settings_window \in windows /\ (active_tab = "Logs" \/ switched)
=============================================================================
