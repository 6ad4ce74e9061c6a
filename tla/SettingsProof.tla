--------------------------- MODULE SettingsProof ---------------------------
(***************************************************************************)
(* Proofs about SettingsWindow, for any set of settings and any number of  *)
(* windows.                                                                *)
(*                                                                         *)
(* The invariants of SettingsWindow speak of the moment between two        *)
(* events.  SInv says what holds in the middle of one: what is not in      *)
(* place yet is still to be done by a call in `todo`, by a window that is  *)
(* to be built, or by the removal of the one that leaves.                  *)
(***************************************************************************)
EXTENDS SettingsWindow, SequenceTheorems, FiniteSetTheorems, TLAPS

Calls == {"refresh", "open", "defer"}

\* The calls s still makes name.
Makes(s, name) == \E i \in 1..Len(s) : s[i] = name

FormTyped == saved \in Values /\ form \in Forms

FlagsTyped ==
  /\ menu_open \in BOOLEAN /\ log_task \in BOOLEAN /\ stats_task \in BOOLEAN
  /\ running \in BOOLEAN /\ task_alive \in BOOLEAN
  /\ prompt \in BOOLEAN /\ snapshot \in BOOLEAN
  /\ raced \in BOOLEAN /\ switched \in BOOLEAN

CallsTyped ==
  /\ todo \in Seq(Calls) /\ deferred \in Nat
  /\ source \in Windows \cup {NoWindow}
  /\ turn \in SUBSET {"noticed", "failed", "left"}

\* The handle is that of an open window, whatever is under way, and the window
\* that is to be removed is open and asks nothing.
ViewTyped ==
  /\ active_tab \in Tabs
  /\ windows \in SUBSET Windows /\ inputs \in [windows -> Forms]
  /\ settings_window \in windows \cup {NoWindow}
  /\ leaving \in windows \cup {NoWindow}
  /\ asking \in SUBSET (windows \ {leaving})

\* When no window stays, the form is what is saved.
LeavingSettles ==
  windows \subseteq {leaving} => Saveable(form) /\ Applied(form) = saved

\* The tasks run exactly when what they refresh is shown, a prompt has just hidden
\* it, or refresh_stats is still to be called.
TasksFollowSoon ==
  \/ Makes(todo, "refresh")
  \/ /\ stats_task <=> running /\ (settings_window # NoWindow \/ menu_open)
     /\ log_task <=> settings_window # NoWindow /\ (active_tab = "Logs" \/ switched)

\* A prompt that was noticed has its window, or the window is on its way.
PromptIsAskedSoon ==
  "noticed" \in turn /\ turn \cap {"failed", "left"} = {} =>
    /\ active_tab = "General"
    /\ settings_window # NoWindow \/ Makes(todo, "open") \/ Makes(todo, "defer")
         \/ deferred > 0

\* open_settings is the first call or none, and if no prompt has called it, the
\* menu has: then nothing is requested yet.
OpenComesFirst ==
  /\ \A i \in 1..Len(todo) : todo[i] = "open" => i = 1
  /\ Makes(todo, "open") /\ "noticed" \notin turn =>
       ~Makes(todo, "defer") /\ deferred = 0 /\ source = NoWindow

\* The calls s ask for one window at most.
DefersOnce(s) == \A i, j \in 1..Len(s) : s[i] = "defer" /\ s[j] = "defer" => i = j

\* Without a race, one window is requested at most, and only when there is none.
OneRequest ==
  ~raced =>
    /\ DefersOnce(todo)
    /\ deferred <= 1
    /\ deferred = 1 => ~Makes(todo, "defer")
    /\ deferred = 1 \/ Makes(todo, "defer") => windows = {}

\* Without a race, the window that is open is the one of the handle.
HandleIsTheWindow == ~raced => windows \in {{}, {settings_window}}

SInv ==
  /\ FormTyped /\ FlagsTyped /\ CallsTyped /\ ViewTyped
  /\ LeavingSettles
  /\ TasksFollowSoon
  /\ PromptIsAskedSoon
  /\ OpenComesFirst
  /\ OneRequest
  /\ HandleIsTheWindow
  /\ InputsShowForm

---------------------------------------------------------------------------
(* The calls of an event *)

\* Requested looks for the call that asks for a window.
LEMMA RequestedIsMade ==
  ASSUME todo \in Seq(Calls)
  PROVE  Requested <=> deferred > 0 \/ Makes(todo, "defer")
<1>1. "defer" \in Range(todo) <=> Makes(todo, "defer")
  BY DEF Range, Makes
<1> QED
  BY <1>1 DEF Requested

\* A call that is done leaves the others.
LEMMA CallDone ==
  ASSUME NEW s \in Seq(Calls), s # <<>>
  PROVE  /\ Tail(s) \in Seq(Calls)
         /\ Len(Tail(s)) = Len(s) - 1
         /\ \A i \in 1..Len(Tail(s)) : i + 1 \in 1..Len(s) /\ Tail(s)[i] = s[i + 1]
         /\ Head(s) = s[1] /\ 1 \in 1..Len(s) /\ Len(s) \in Nat
         /\ \A name : Makes(s, name) <=> Head(s) = name \/ Makes(Tail(s), name)
<1>1. Tail(s) \in Seq(Calls) /\ Len(Tail(s)) = Len(s) - 1 /\ Len(s) \in Nat
      /\ Head(s) = s[1] /\ 1 \in 1..Len(s)
  BY EmptySeq, HeadTailProperties, LenProperties
<1>2. \A i \in 1..Len(Tail(s)) : i + 1 \in 1..Len(s) /\ Tail(s)[i] = s[i + 1]
  BY <1>1, HeadTailProperties
<1>3. ASSUME NEW name
      PROVE  Makes(s, name) <=> Head(s) = name \/ Makes(Tail(s), name)
  <2>1. Makes(Tail(s), name) => Makes(s, name)
    BY <1>2 DEF Makes
  <2>2. Head(s) = name => Makes(s, name)
    BY <1>1 DEF Makes
  <2>3. ASSUME NEW i \in 1..Len(s), s[i] = name, Head(s) # name
        PROVE  Makes(Tail(s), name)
    <3>1. i - 1 \in 1..Len(Tail(s)) /\ (i - 1) + 1 = i
      BY <1>1, <2>3
    <3>2. Tail(s)[i - 1] = name
      BY <1>2, <2>3, <3>1
    <3> QED
      BY <3>1, <3>2 DEF Makes
  <2> QED
    BY <2>1, <2>2, <2>3 DEF Makes
<1> QED
  BY <1>1, <1>2, <1>3

\* Calls that are put first come before the others.
LEMMA CallFirst ==
  ASSUME NEW s \in Seq(Calls), NEW c \in Calls
  PROVE  /\ <<c>> \o s \in Seq(Calls)
         /\ Len(<<c>> \o s) = 1 + Len(s) /\ Len(s) \in Nat
         /\ (<<c>> \o s)[1] = c
         /\ \A i \in 2..(1 + Len(s)) : i - 1 \in 1..Len(s) /\ (<<c>> \o s)[i] = s[i - 1]
         /\ \A name : Makes(<<c>> \o s, name) <=> c = name \/ Makes(s, name)
<1>1. <<c>> \in Seq(Calls) /\ Len(<<c>>) = 1 /\ Len(s) \in Nat
  BY LenProperties
<1>2. <<c>> \o s \in Seq(Calls) /\ Len(<<c>> \o s) = 1 + Len(s)
  BY <1>1, ConcatProperties
<1>3. (<<c>> \o s)[1] = c
  BY <1>1, ConcatProperties
<1>4. \A i \in 2..(1 + Len(s)) : i - 1 \in 1..Len(s) /\ (<<c>> \o s)[i] = s[i - 1]
  BY <1>1, ConcatProperties
<1>5. ASSUME NEW name
      PROVE  Makes(<<c>> \o s, name) <=> c = name \/ Makes(s, name)
  <2>1. c = name => Makes(<<c>> \o s, name)
    BY <1>1, <1>2, <1>3 DEF Makes
  <2>2. ASSUME NEW i \in 1..Len(s), s[i] = name
        PROVE  Makes(<<c>> \o s, name)
    <3>1. i + 1 \in 2..(1 + Len(s)) /\ (i + 1) - 1 = i /\ i + 1 \in 1..(1 + Len(s))
      BY <1>1
    <3> QED
      BY <1>2, <1>4, <2>2, <3>1 DEF Makes
  <2>3. ASSUME NEW i \in 1..(1 + Len(s)), (<<c>> \o s)[i] = name, c # name
        PROVE  Makes(s, name)
    <3>1. i \in 2..(1 + Len(s))
      BY <1>1, <1>3, <2>3
    <3> QED
      BY <1>4, <2>3, <3>1 DEF Makes
  <2> QED
    BY <1>2, <2>1, <2>2, <2>3 DEF Makes
<1> QED
  BY <1>1, <1>2, <1>3, <1>4, <1>5

\* The calls an event makes of its own.
LEMMA EventCalls ==
  /\ <<>> \in Seq(Calls) /\ <<"refresh">> \in Seq(Calls)
  /\ <<"open", "refresh">> \in Seq(Calls)
  /\ \A name : ~Makes(<<>>, name)
  /\ \A name : Makes(<<"refresh">>, name) <=> name = "refresh"
  /\ \A name : Makes(<<"open", "refresh">>, name) <=> name \in {"open", "refresh"}
BY DEF Calls, Makes

\* Two calls put first are put first one after the other.
LEMMA TwoCallsFirst ==
  ASSUME NEW s \in Seq(Calls)
  PROVE  <<"refresh", "defer">> \o s = <<"refresh">> \o (<<"defer">> \o s)
<1>1. <<"refresh">> \in Seq(Calls) /\ <<"defer">> \in Seq(Calls)
  BY DEF Calls
<1>2. <<"refresh", "defer">> = <<"refresh">> \o <<"defer">>
  OBVIOUS
<1> QED
  BY <1>1, <1>2, ConcatAssociative

---------------------------------------------------------------------------
(* The kinds of step *)

\* What an event of the application or of window w starts with.
EventOf(w) ==
  \/ Event(w, <<>>)
  \/ Event(w, <<"refresh">>)
  \/ w = NoWindow /\ Event(w, <<"open", "refresh">>)

\* Every step is a call of the event under way, the building or the removal of
\* a window after it, a prompt of the proxy, or a new event.
LEMMA StepKinds ==
  ASSUME Next
  PROVE  \/ AskNow \/ Refresh \/ Activate \/ OpenSettings \/ Defer
         \/ BuildErr \/ \E w \in Windows : BuildWindow(w)
         \/ RemoveWindow
         \/ PromptShown
         \/ \E w \in Windows \cup {NoWindow} : EventOf(w)
<1> DEFINE SomeEvent == \E w \in Windows \cup {NoWindow} : EventOf(w)
<1>1. StatsChanged \/ MenuSettings \/ MenuToggled \/ RunEnded => SomeEvent
  BY DEF StatsChanged, MenuSettings, MenuToggled, RunEnded, EventOf
<1>2. ASSUME NEW w \in Windows \cup {NoWindow}, StartStop(w)
      PROVE  SomeEvent
  BY <1>2 DEF StartStop, EventOf
<1>3. ASSUME NEW w \in Windows
      PROVE  /\ \A tab \in Tabs : TabClicked(w, tab) => SomeEvent
             /\ \A f \in Forms : FieldEdited(w, f) => SomeEvent
             /\ Revert(w) \/ Save(w) \/ PromptAnswered(w) => SomeEvent
             /\ CloseClean(w) \/ CloseDirty(w) => SomeEvent
  BY DEF TabClicked, FieldEdited, Revert, Save, PromptAnswered, CloseClean, CloseDirty,
         WindowEvent, EventOf
<1>4. ASSUME NEW w \in Windows, AnswerSave(w) \/ AnswerDontSave(w) \/ AnswerCancel(w)
      PROVE  SomeEvent
  BY <1>4 DEF AnswerSave, AnswerDontSave, AnswerCancel, Answer, EventOf
<1> HIDE DEF SomeEvent
<1>5. \/ AskNow \/ Refresh \/ Activate \/ OpenSettings \/ Defer
      \/ BuildErr \/ \E w \in Windows : BuildWindow(w)
      \/ RemoveWindow
      \/ PromptShown
      \/ SomeEvent
  BY <1>1, <1>2, <1>3, <1>4 DEF Next
<1> QED
  BY <1>5 DEF SomeEvent

\* An event starts when the one before it is over, and keeps what came of it.
LEMMA EventStarts ==
  ASSUME CallsTyped, NEW w \in Windows \cup {NoWindow}, EventOf(w)
  PROVE  /\ todo = <<>> /\ deferred = 0 /\ leaving = NoWindow
         /\ todo' \in Seq(Calls) /\ deferred' = 0 /\ source' = w
         /\ turn' = {} /\ raced' = raced
         /\ \A name : ~Makes(todo, name)
         /\ ~Makes(todo', "defer")
         /\ \A i \in 1..Len(todo') : todo'[i] = "open" => i = 1
         /\ Makes(todo', "open") => w = NoWindow
<1>1. /\ todo = <<>> /\ deferred = 0 /\ leaving = NoWindow
      /\ deferred' = 0 /\ source' = w /\ turn' = {} /\ raced' = raced
  BY DEF EventOf, Event, Idle
<1>2. CASE todo' = <<>>
  BY <1>1, <1>2, EventCalls
<1>3. CASE todo' = <<"refresh">>
  BY <1>1, <1>3, EventCalls
<1>4. CASE w = NoWindow /\ todo' = <<"open", "refresh">>
  BY <1>1, <1>4, EventCalls
<1> QED
  BY <1>2, <1>3, <1>4 DEF EventOf, Event

\* What a step can do to the form and to what is saved.
LEMMA FormStep ==
  ASSUME Next, FormTyped
  PROVE  FormTyped'
<1>1. Saveable(form) => Applied(form) \in Values
  BY DEF FormTyped, Forms, Saveable, Applied, Plain, Padded, Invalid
<1>2. Plain(saved) \in Forms
  BY DEF FormTyped, Forms
<1>3. ASSUME UNCHANGED formVars PROVE FormTyped'
  BY <1>3 DEF FormTyped, formVars
<1>4. ASSUME NEW w \in Windows, NEW f \in Forms, FieldEdited(w, f)
      PROVE  FormTyped'
  BY <1>4 DEF FormTyped, FieldEdited
<1>5. ASSUME NEW w \in Windows, Revert(w) \/ AnswerDontSave(w)
      PROVE  FormTyped'
  BY <1>2, <1>5 DEF FormTyped, Revert, AnswerDontSave
<1>6. ASSUME NEW w \in Windows, Save(w) \/ AnswerSave(w)
      PROVE  FormTyped'
  BY <1>1, <1>6 DEF FormTyped, formVars, Save, AnswerSave
<1>7. AskNow \/ Refresh => UNCHANGED formVars
  BY DEF AskNow, Refresh, Refreshed
<1>8. Activate \/ OpenSettings \/ Defer \/ BuildErr \/ RemoveWindow => UNCHANGED formVars
  BY DEF Activate, OpenSettings, Defer, BuildErr, RemoveWindow
<1>9. StatsChanged \/ MenuSettings \/ MenuToggled \/ RunEnded \/ PromptShown
        => UNCHANGED formVars
  BY DEF StatsChanged, MenuSettings, MenuToggled, RunEnded, PromptShown
<1>10. ASSUME NEW w \in Windows \cup {NoWindow}, StartStop(w)
       PROVE  UNCHANGED formVars
  BY <1>10 DEF StartStop
<1>11. ASSUME NEW w \in Windows,
              \/ BuildWindow(w) \/ PromptAnswered(w) \/ CloseClean(w) \/ CloseDirty(w)
              \/ AnswerCancel(w)
       PROVE  UNCHANGED formVars
  BY <1>11 DEF BuildWindow, PromptAnswered, CloseClean, CloseDirty, AnswerCancel
<1>12. ASSUME NEW w \in Windows, NEW tab \in Tabs, TabClicked(w, tab)
       PROVE  UNCHANGED formVars
  BY <1>12 DEF TabClicked
<1> QED
  BY <1>3, <1>4, <1>5, <1>6, <1>7, <1>8, <1>9, <1>10, <1>11, <1>12 DEF Next

\* The calls of an event.
LEMMA CallsStep ==
  ASSUME Next, CallsTyped
  PROVE  CallsTyped'
<1>1. ASSUME AskNow PROVE CallsTyped'
  <2>1. /\ todo # <<>> /\ todo' = <<"open">> \o Tail(todo)
        /\ UNCHANGED <<deferred, source>> /\ turn' = turn \cup {"noticed"}
    BY <1>1 DEF AskNow, Refreshed, Call
  <2>2. todo' \in Seq(Calls)
    BY <2>1, CallDone, CallFirst DEF CallsTyped, Calls
  <2> QED
    BY <2>1, <2>2 DEF CallsTyped
<1>2. ASSUME Refresh \/ Activate \/ Defer PROVE CallsTyped'
  <2>1. /\ todo # <<>> /\ todo' = Tail(todo)
        /\ UNCHANGED <<source, turn>> /\ deferred' \in {deferred, deferred + 1}
    BY <1>2 DEF Refresh, Refreshed, Activate, Defer, Call
  <2> QED
    BY <2>1, CallDone DEF CallsTyped
<1>3. ASSUME OpenSettings PROVE CallsTyped'
  <2>1. /\ todo # <<>> /\ todo' = <<"refresh", "defer">> \o Tail(todo)
        /\ UNCHANGED <<deferred, source, turn>>
    BY <1>3 DEF OpenSettings, Call
  <2>2. Tail(todo) \in Seq(Calls) /\ <<"defer">> \o Tail(todo) \in Seq(Calls)
    BY <2>1, CallDone, CallFirst DEF CallsTyped, Calls
  <2>3. todo' \in Seq(Calls)
    BY <2>1, <2>2, TwoCallsFirst, CallFirst DEF Calls
  <2> QED
    BY <2>1, <2>3 DEF CallsTyped
<1>4. ASSUME BuildErr PROVE CallsTyped'
  BY <1>4 DEF BuildErr, CallsTyped
<1>5. ASSUME NEW w \in Windows, BuildWindow(w) PROVE CallsTyped'
  BY <1>5, EventCalls DEF BuildWindow, CallsTyped
<1>6. ASSUME RemoveWindow PROVE CallsTyped'
  BY <1>6, EventCalls DEF RemoveWindow, CallsTyped
<1>7. ASSUME PromptShown PROVE CallsTyped'
  BY <1>7 DEF PromptShown, CallsTyped
<1>8. ASSUME NEW w \in Windows \cup {NoWindow}, EventOf(w) PROVE CallsTyped'
  BY <1>8, EventStarts DEF CallsTyped
<1> QED
  BY StepKinds, <1>1, <1>2, <1>3, <1>4, <1>5, <1>6, <1>7, <1>8

\* What is shown.
LEMMA ViewStep ==
  ASSUME Next, FormTyped, CallsTyped, ViewTyped
  PROVE  ViewTyped'
<1> USE SettingsAssumption
<1>0. Plain(saved) \in Forms /\ form \in Forms
  BY DEF FormTyped, Forms
<1>1. ASSUME UNCHANGED <<active_tab, windows, inputs, settings_window, leaving, asking>>
      PROVE  ViewTyped'
  BY <1>1 DEF ViewTyped
<1>2. ASSUME AskNow PROVE ViewTyped'
  BY <1>2 DEF AskNow, Refreshed, viewVars, ViewTyped, Tabs
<1>3. ASSUME OpenSettings PROVE ViewTyped'
  BY <1>3 DEF OpenSettings, viewVars, ViewTyped
<1>4. Refresh \/ Activate \/ Defer \/ BuildErr \/ PromptShown
        => UNCHANGED <<active_tab, windows, inputs, settings_window, leaving, asking>>
  BY DEF Refresh, Refreshed, Activate, Defer, BuildErr, PromptShown, viewVars
<1>5. StatsChanged \/ MenuSettings \/ MenuToggled \/ RunEnded
        => UNCHANGED <<active_tab, windows, inputs, settings_window, leaving, asking>>
  BY DEF StatsChanged, MenuSettings, MenuToggled, RunEnded, viewVars
<1>6. ASSUME NEW w \in Windows \cup {NoWindow}, StartStop(w)
      PROVE  ViewTyped'
  BY <1>1, <1>6 DEF StartStop, viewVars
<1>7. ASSUME RemoveWindow PROVE ViewTyped'
  BY <1>7 DEF RemoveWindow, Without, ViewTyped
<1>8. ASSUME NEW w \in Windows, BuildWindow(w) PROVE ViewTyped'
  BY <1>0, <1>8 DEF BuildWindow, NewInputs, ViewTyped
<1>9. ASSUME NEW w \in Windows, NEW tab \in Tabs, TabClicked(w, tab)
      PROVE  ViewTyped'
  BY <1>9 DEF TabClicked, WindowEvent, viewVars, ViewTyped
<1>10. ASSUME NEW w \in Windows, NEW f \in Forms, FieldEdited(w, f)
       PROVE  ViewTyped'
  BY <1>10 DEF FieldEdited, WindowEvent, ViewTyped
<1>11. ASSUME NEW w \in Windows, Revert(w) PROVE ViewTyped'
  BY <1>0, <1>11 DEF Revert, SyncInputs, WindowEvent, ViewTyped
<1>12. ASSUME NEW w \in Windows, Save(w) \/ PromptAnswered(w) PROVE ViewTyped'
  BY <1>1, <1>12 DEF Save, PromptAnswered, WindowEvent, viewVars
<1>13. ASSUME NEW w \in Windows, CloseClean(w) PROVE ViewTyped'
  BY <1>13 DEF CloseClean, Without, WindowEvent, Event, Idle, ViewTyped
<1>14. ASSUME NEW w \in Windows, CloseDirty(w) PROVE ViewTyped'
  BY <1>14 DEF CloseDirty, WindowEvent, Event, Idle, ViewTyped
<1>15. ASSUME NEW w \in Windows, AnswerSave(w) PROVE ViewTyped'
  BY <1>15 DEF AnswerSave, Answer, Event, Idle, ViewTyped, Tabs
<1>16. ASSUME NEW w \in Windows, AnswerDontSave(w) \/ AnswerCancel(w) PROVE ViewTyped'
  BY <1>16 DEF AnswerDontSave, AnswerCancel, Answer, Event, Idle, ViewTyped
<1> QED
  BY <1>1, <1>2, <1>3, <1>4, <1>5, <1>6, <1>7, <1>8, <1>9, <1>10, <1>11, <1>12, <1>13,
     <1>14, <1>15, <1>16 DEF Next

\* The flags.
LEMMA FlagsStep ==
  ASSUME Next, FlagsTyped
  PROVE  FlagsTyped'
<1> DEFINE flags == <<menu_open, taskVars, runVars, promptVars, raced>>
<1>1. ASSUME UNCHANGED flags PROVE FlagsTyped'
  BY <1>1 DEF FlagsTyped, taskVars, runVars, promptVars
<1>2. ASSUME NEW tab, SyncRefreshTasks(tab)
      PROVE  log_task' \in BOOLEAN /\ stats_task' \in BOOLEAN
  BY <1>2 DEF SyncRefreshTasks
<1>3. ASSUME AskNow \/ Refresh PROVE FlagsTyped'
  <2>1. /\ SyncRefreshTasks(active_tab)
        /\ snapshot' = prompt /\ prompt' = prompt
        /\ menu_open' = menu_open /\ raced' = raced
        /\ running' = running /\ task_alive' = task_alive
        /\ switched' \in {FALSE, log_task'}
    BY <1>3 DEF AskNow, Refresh, Refreshed, runVars
  <2> QED
    BY <1>2, <2>1, Zenon DEF FlagsTyped
<1>4. ASSUME OpenSettings PROVE FlagsTyped'
  BY <1>4, Zenon DEF OpenSettings, taskVars, runVars, promptVars, FlagsTyped
<1>5. Activate \/ Defer \/ BuildErr \/ RemoveWindow => UNCHANGED flags
  BY DEF Activate, Defer, BuildErr, RemoveWindow
<1>6. StatsChanged \/ MenuSettings => UNCHANGED flags
  BY DEF StatsChanged, MenuSettings, Event
<1>7. ASSUME MenuToggled PROVE FlagsTyped'
  BY <1>7, Zenon DEF MenuToggled, Event, taskVars, runVars, promptVars, FlagsTyped
<1>8. ASSUME PromptShown PROVE FlagsTyped'
  BY <1>8, Zenon DEF PromptShown, taskVars, runVars, FlagsTyped
<1>9. ASSUME running' \in BOOLEAN, task_alive' \in BOOLEAN,
             UNCHANGED <<menu_open, taskVars, promptVars, raced>>
      PROVE  FlagsTyped'
  BY <1>9, Zenon DEF taskVars, promptVars, FlagsTyped
<1>10. ASSUME Start \/ Stop \/ UNCHANGED runVars
       PROVE  running' \in BOOLEAN /\ task_alive' \in BOOLEAN
  BY <1>10, Zenon DEF Start, Stop, runVars, FlagsTyped
<1>11. ASSUME RunEnded PROVE FlagsTyped'
  <2>1. running' \in BOOLEAN /\ task_alive' \in BOOLEAN
    BY <1>11, Zenon DEF RunEnded, FlagsTyped
  <2> QED
    BY <1>9, <1>11, <2>1 DEF RunEnded, Event
<1>12. ASSUME NEW w \in Windows \cup {NoWindow}, StartStop(w) PROVE FlagsTyped'
  BY <1>9, <1>10, <1>12 DEF StartStop, Event
<1>13. ASSUME NEW w \in Windows, Save(w) PROVE FlagsTyped'
  BY <1>9, <1>10, <1>13 DEF Save, Restart, WindowEvent, Event
<1>14. ASSUME NEW w \in Windows, PromptAnswered(w) PROVE FlagsTyped'
  <2>1. running' \in BOOLEAN /\ task_alive' \in BOOLEAN
    BY <1>10, <1>14 DEF PromptAnswered
  <2>2. prompt' = FALSE /\ UNCHANGED <<menu_open, taskVars, snapshot, raced>>
    BY <1>14 DEF PromptAnswered, WindowEvent, Event
  <2> QED
    BY <2>1, <2>2, Zenon DEF taskVars, FlagsTyped
<1>15. ASSUME NEW w \in Windows, NEW tab \in Tabs, TabClicked(w, tab) PROVE FlagsTyped'
  <2>1. /\ UNCHANGED <<menu_open, runVars, promptVars, raced>> /\ SyncRefreshTasks(tab)
        /\ switched' = FALSE
    BY <1>15 DEF TabClicked, WindowEvent, Event
  <2> QED
    BY <1>2, <2>1, Zenon DEF runVars, promptVars, FlagsTyped
<1>16. ASSUME NEW w \in Windows, NEW f \in Forms, FieldEdited(w, f)
       PROVE  UNCHANGED flags
  BY <1>16 DEF FieldEdited, WindowEvent, Event
<1>17. ASSUME NEW w \in Windows,
              BuildWindow(w) \/ Revert(w) \/ CloseClean(w) \/ CloseDirty(w)
       PROVE  UNCHANGED flags
  BY <1>17 DEF BuildWindow, Revert, CloseClean, CloseDirty, WindowEvent, Event
<1>18. ASSUME NEW w \in Windows, AnswerSave(w) \/ AnswerDontSave(w) \/ AnswerCancel(w)
       PROVE  UNCHANGED flags
  BY <1>18 DEF AnswerSave, AnswerDontSave, AnswerCancel, Answer, Event
<1> HIDE DEF flags
<1> QED
  BY <1>1, <1>3, <1>4, <1>5, <1>6, <1>7, <1>8, <1>11, <1>12, <1>13, <1>14, <1>15, <1>16,
     <1>17, <1>18 DEF Next

---------------------------------------------------------------------------
(* What holds in the middle of an event *)

\* The form is settled when its last window goes, and only a window edits it.
LEMMA SettledStep ==
  ASSUME Next, FormTyped, CallsTyped, ViewTyped, LeavingSettles
  PROVE  LeavingSettles'
<1> USE SettingsAssumption
<1>1. ASSUME UNCHANGED <<formVars, windows, leaving>> PROVE LeavingSettles'
  BY <1>1 DEF LeavingSettles, formVars
<1>2. ASSUME form' = Plain(saved') PROVE LeavingSettles'
  BY <1>2 DEF LeavingSettles, Saveable, Applied, Plain, Invalid
<1>3. AskNow \/ Refresh \/ Activate \/ OpenSettings \/ Defer \/ BuildErr \/ PromptShown
        => UNCHANGED <<formVars, windows, leaving>>
  BY DEF AskNow, Refresh, Refreshed, Activate, OpenSettings, Defer, BuildErr, PromptShown,
         viewVars
<1>4. StatsChanged \/ MenuSettings \/ MenuToggled \/ RunEnded
        => UNCHANGED <<formVars, windows, leaving>>
  BY DEF StatsChanged, MenuSettings, MenuToggled, RunEnded, viewVars
<1>5. ASSUME NEW w \in Windows \cup {NoWindow}, StartStop(w)
      PROVE  UNCHANGED <<formVars, windows, leaving>>
  BY <1>5 DEF StartStop, viewVars
<1>6. ASSUME NEW w \in Windows, NEW tab \in Tabs, TabClicked(w, tab)
      PROVE  UNCHANGED <<formVars, windows, leaving>>
  BY <1>6 DEF TabClicked, WindowEvent, viewVars
<1>7. ASSUME NEW w \in Windows, PromptAnswered(w) \/ CloseDirty(w) \/ AnswerCancel(w)
      PROVE  UNCHANGED <<formVars, windows, leaving>>
  BY <1>7 DEF PromptAnswered, CloseDirty, AnswerCancel, Answer, WindowEvent, viewVars
<1>8. ASSUME NEW w \in Windows, NEW f \in Forms, FieldEdited(w, f)
      PROVE  LeavingSettles'
  <2>1. w \in windows' /\ leaving' = NoWindow /\ w # NoWindow
    BY <1>8 DEF FieldEdited, WindowEvent, Event, Idle
  <2> QED
    BY <2>1 DEF LeavingSettles
<1>9. ASSUME NEW w \in Windows, Revert(w) \/ AnswerDontSave(w) PROVE LeavingSettles'
  BY <1>2, <1>9 DEF Revert, AnswerDontSave
<1>10. ASSUME NEW w \in Windows, CloseClean(w) PROVE LeavingSettles'
  BY <1>2, <1>10 DEF CloseClean, has_unsaved_changes, formVars
<1>11. ASSUME NEW w \in Windows, Save(w) \/ AnswerSave(w) PROVE LeavingSettles'
  <2>1. CASE Saveable(form) /\ saved' = Applied(form) /\ form' = form
    BY <2>1 DEF LeavingSettles, Saveable, Applied
  <2>2. CASE UNCHANGED <<formVars, windows, leaving>>
    BY <1>1, <2>2
  <2> QED
    BY <1>11, <2>1, <2>2 DEF Save, AnswerSave, Answer, WindowEvent, formVars, viewVars
<1>12. ASSUME NEW w \in Windows, BuildWindow(w) PROVE LeavingSettles'
  <2>1. ~(windows' \subseteq {leaving'})
    BY <1>12 DEF BuildWindow, ViewTyped
  <2> QED
    BY <2>1 DEF LeavingSettles
<1>13. ASSUME RemoveWindow PROVE LeavingSettles'
  <2>1. windows' \subseteq {leaving'} => windows \subseteq {leaving}
    BY <1>13 DEF RemoveWindow, Without, ViewTyped
  <2> QED
    BY <1>13, <2>1 DEF RemoveWindow, LeavingSettles, formVars
<1> QED
  BY <1>1, <1>3, <1>4, <1>5, <1>6, <1>7, <1>8, <1>9, <1>10, <1>11, <1>12, <1>13 DEF Next

\* The tasks of sync_refresh_tasks.
LEMMA TasksStep ==
  ASSUME Next, CallsTyped, TasksFollowSoon
  PROVE  TasksFollowSoon'
<1> DEFINE seen == <<taskVars, running, settings_window, menu_open, active_tab>>
<1>1. ASSUME Makes(todo', "refresh") PROVE TasksFollowSoon'
  BY <1>1 DEF TasksFollowSoon
<1>2. ASSUME UNCHANGED <<running, settings_window, menu_open>>, NEW tab,
             SyncRefreshTasks(tab),
             \/ active_tab' = tab /\ switched' = FALSE
             \/ active_tab' = "General" /\ switched' = log_task'
      PROVE  TasksFollowSoon'
  <2>1. log_task' <=> settings_window' # NoWindow /\ tab = "Logs"
    BY <1>2 DEF SyncRefreshTasks
  <2>2. stats_task' <=> running' /\ (settings_window' # NoWindow \/ menu_open')
    BY <1>2 DEF SyncRefreshTasks
  <2>3. log_task' <=> settings_window' # NoWindow /\ (active_tab' = "Logs" \/ switched')
    <3>1. CASE active_tab' = tab /\ switched' = FALSE
      BY <2>1, <3>1, Zenon
    <3>2. CASE active_tab' = "General" /\ switched' = log_task'
      <4>1. active_tab' # "Logs"
        BY <3>2
      <4> QED
        BY <2>1, <3>2, <4>1, Zenon
    <3> QED
      BY <1>2, <3>1, <3>2
  <2> QED
    BY <2>2, <2>3 DEF TasksFollowSoon
<1>3. ASSUME UNCHANGED seen, Makes(todo, "refresh") => Makes(todo', "refresh")
      PROVE  TasksFollowSoon'
  BY <1>3 DEF TasksFollowSoon, taskVars
<1>4. ASSUME UNCHANGED seen, todo = <<>> PROVE TasksFollowSoon'
  BY <1>3, <1>4, EventCalls
<1>5. ASSUME todo' = <<"refresh">> \/ todo' = <<"open", "refresh">> PROVE TasksFollowSoon'
  BY <1>1, <1>5, EventCalls
<1>6. ASSUME AskNow PROVE TasksFollowSoon'
  BY <1>2, <1>6 DEF AskNow, Refreshed, runVars
<1>7. ASSUME Refresh PROVE TasksFollowSoon'
  BY <1>2, <1>7 DEF Refresh, Refreshed, runVars
<1>8. ASSUME Activate \/ Defer PROVE TasksFollowSoon'
  <2>1. todo # <<>> /\ todo' = Tail(todo) /\ Head(todo) # "refresh" /\ UNCHANGED seen
    BY <1>8 DEF Activate, Defer, Call, runVars
  <2>2. Makes(todo, "refresh") => Makes(todo', "refresh")
    BY <2>1, CallDone DEF CallsTyped
  <2> QED
    BY <1>3, <2>1, <2>2
<1>9. ASSUME OpenSettings PROVE TasksFollowSoon'
  <2>1. todo # <<>> /\ todo' = <<"refresh", "defer">> \o Tail(todo)
    BY <1>9 DEF OpenSettings, Call
  <2>2. Tail(todo) \in Seq(Calls) /\ <<"defer">> \o Tail(todo) \in Seq(Calls)
    BY <2>1, CallDone, CallFirst DEF CallsTyped, Calls
  <2> QED
    BY <1>1, <2>1, <2>2, TwoCallsFirst, CallFirst DEF Calls
<1>10. ASSUME BuildErr PROVE TasksFollowSoon'
  BY <1>4, <1>10 DEF BuildErr, runVars
<1>11. ASSUME NEW w \in Windows, BuildWindow(w) PROVE TasksFollowSoon'
  BY <1>5, <1>11 DEF BuildWindow
<1>12. ASSUME PromptShown PROVE TasksFollowSoon'
  BY <1>3, <1>12 DEF PromptShown, runVars
<1>13. StatsChanged \/ MenuSettings \/ MenuToggled \/ RunEnded \/ RemoveWindow
         => todo' = <<"refresh">> \/ todo' = <<"open", "refresh">>
  BY DEF StatsChanged, MenuSettings, MenuToggled, RunEnded, RemoveWindow, Event
<1>14. ASSUME NEW w \in Windows \cup {NoWindow}, StartStop(w) PROVE TasksFollowSoon'
  BY <1>5, <1>14 DEF StartStop, Event
<1>15. ASSUME NEW w \in Windows, NEW tab \in Tabs, TabClicked(w, tab)
       PROVE  TasksFollowSoon'
  BY <1>2, <1>15 DEF TabClicked, WindowEvent, runVars
<1>16. ASSUME NEW w \in Windows, NEW f \in Forms, FieldEdited(w, f)
       PROVE  TasksFollowSoon'
  BY <1>4, <1>16 DEF FieldEdited, WindowEvent, Event, Idle, runVars
<1>17. ASSUME NEW w \in Windows, Revert(w) \/ CloseDirty(w) PROVE TasksFollowSoon'
  BY <1>4, <1>17 DEF Revert, CloseDirty, WindowEvent, Event, Idle, runVars
<1>18. ASSUME NEW w \in Windows, Save(w) \/ CloseClean(w) PROVE TasksFollowSoon'
  BY <1>5, <1>18 DEF Save, CloseClean, WindowEvent, Event
<1>19. ASSUME NEW w \in Windows, PromptAnswered(w) PROVE TasksFollowSoon'
  <2>1. CASE todo' = <<"refresh">>
    BY <1>5, <2>1
  <2>2. CASE WindowEvent(w, <<>>) /\ UNCHANGED runVars
    BY <1>4, <1>19, <2>2 DEF PromptAnswered, WindowEvent, Event, Idle, runVars
  <2> QED
    BY <1>19, <2>1, <2>2 DEF PromptAnswered, WindowEvent, Event
<1>20. ASSUME NEW w \in Windows, AnswerSave(w) \/ AnswerDontSave(w) \/ AnswerCancel(w)
       PROVE  TasksFollowSoon'
  BY <1>5, <1>20 DEF AnswerSave, AnswerDontSave, AnswerCancel, Answer, Event
<1> HIDE DEF seen
<1> QED
  BY <1>5, <1>6, <1>7, <1>8, <1>9, <1>10, <1>11, <1>12, <1>13, <1>14, <1>15, <1>16, <1>17,
     <1>18, <1>19, <1>20 DEF Next

\* A new prompt, from refresh_stats to the window that asks.
LEMMA PromptStep ==
  ASSUME Next, CallsTyped, ViewTyped, PromptIsAskedSoon
  PROVE  PromptIsAskedSoon'
<1> USE SettingsAssumption
<1>1. ASSUME turn' = turn, active_tab' = active_tab,
             \/ settings_window' # NoWindow
             \/ Makes(todo', "open") \/ Makes(todo', "defer") \/ deferred' > 0
      PROVE  PromptIsAskedSoon'
  BY <1>1 DEF PromptIsAskedSoon
<1>2. ASSUME AskNow PROVE PromptIsAskedSoon'
  <2>1. /\ todo # <<>> /\ todo' = <<"open">> \o Tail(todo) /\ active_tab' = "General"
    BY <1>2 DEF AskNow, Refreshed, Call
  <2>2. Makes(todo', "open")
    BY <2>1, CallDone, CallFirst DEF CallsTyped, Calls
  <2> QED
    BY <2>1, <2>2 DEF PromptIsAskedSoon
<1>3. ASSUME Refresh PROVE PromptIsAskedSoon'
  <2>1. /\ todo # <<>> /\ todo' = Tail(todo) /\ Head(todo) = "refresh"
        /\ UNCHANGED <<active_tab, turn, settings_window, deferred>>
    BY <1>3 DEF Refresh, Refreshed, Call
  <2>2. /\ Makes(todo, "open") => Makes(todo', "open")
        /\ Makes(todo, "defer") => Makes(todo', "defer")
    BY <2>1, CallDone DEF CallsTyped
  <2> QED
    BY <2>1, <2>2 DEF PromptIsAskedSoon
<1>4. ASSUME Activate PROVE PromptIsAskedSoon'
  BY <1>1, <1>4 DEF Activate, ViewTyped
<1>5. ASSUME OpenSettings PROVE PromptIsAskedSoon'
  <2>1. todo # <<>> /\ todo' = <<"refresh", "defer">> \o Tail(todo)
    BY <1>5 DEF OpenSettings, Call
  <2>2. /\ Tail(todo) \in Seq(Calls) /\ <<"defer">> \o Tail(todo) \in Seq(Calls)
        /\ Makes(<<"defer">> \o Tail(todo), "defer")
    BY <2>1, CallDone, CallFirst DEF CallsTyped, Calls
  <2>3. Makes(todo', "defer")
    BY <2>1, <2>2, TwoCallsFirst, CallFirst DEF Calls
  <2> QED
    BY <1>5, <2>3 DEF OpenSettings, PromptIsAskedSoon
<1>6. ASSUME Defer PROVE PromptIsAskedSoon'
  BY <1>1, <1>6 DEF Defer, CallsTyped
<1>7. ASSUME NEW w \in Windows, BuildWindow(w) PROVE PromptIsAskedSoon'
  BY <1>7 DEF BuildWindow, PromptIsAskedSoon, CallsTyped
<1>8. ASSUME BuildErr PROVE PromptIsAskedSoon'
  BY <1>8 DEF BuildErr, PromptIsAskedSoon
<1>9. ASSUME RemoveWindow PROVE PromptIsAskedSoon'
  BY <1>9 DEF RemoveWindow, PromptIsAskedSoon
<1>10. ASSUME PromptShown PROVE PromptIsAskedSoon'
  BY <1>10 DEF PromptShown, PromptIsAskedSoon
<1>11. ASSUME NEW w \in Windows \cup {NoWindow}, EventOf(w) PROVE PromptIsAskedSoon'
  BY <1>11, EventStarts DEF PromptIsAskedSoon
<1> QED
  BY StepKinds, <1>2, <1>3, <1>4, <1>5, <1>6, <1>7, <1>8, <1>9, <1>10, <1>11

\* What is left after a call that opens nothing, and before the next one, has no
\* call of open_settings.
LEMMA OpenIsNotLeft ==
  ASSUME todo \in Seq(Calls), todo # <<>>, OpenComesFirst
  PROVE  ~Makes(Tail(todo), "open")
<1>1. \A i \in 1..Len(Tail(todo)) :
        i \in Nat \ {0} /\ i + 1 \in 1..Len(todo) /\ Tail(todo)[i] = todo[i + 1]
  BY CallDone
<1>2. \A i \in Nat \ {0} : i + 1 # 1
  OBVIOUS
<1> QED
  BY <1>1, <1>2 DEF Makes, OpenComesFirst

\* Every step keeps OpenComesFirst.
LEMMA OpenFirstStep ==
  ASSUME Next, CallsTyped, OpenComesFirst
  PROVE  OpenComesFirst'
<1>1. ASSUME ~Makes(todo', "open") PROVE OpenComesFirst'
  BY <1>1 DEF OpenComesFirst, Makes
<1>2. ASSUME AskNow PROVE OpenComesFirst'
  <2>1. /\ todo \in Seq(Calls) /\ todo # <<>> /\ todo' = <<"open">> \o Tail(todo)
        /\ "noticed" \in turn'
    BY <1>2 DEF AskNow, Refreshed, Call, CallsTyped
  <2>2. ASSUME NEW i \in 1..Len(todo'), todo'[i] = "open", i # 1
        PROVE  FALSE
    <3>1. /\ Tail(todo) \in Seq(Calls) /\ Len(todo') = 1 + Len(Tail(todo))
          /\ Len(Tail(todo)) \in Nat
      BY <2>1, CallDone, CallFirst DEF Calls
    <3>2. i \in 2..(1 + Len(Tail(todo)))
      BY <2>2, <3>1
    <3>3. i - 1 \in 1..Len(Tail(todo)) /\ Tail(todo)[i - 1] = "open"
      BY <2>1, <2>2, <3>1, <3>2, CallFirst DEF Calls
    <3> QED
      BY <2>1, <3>3, OpenIsNotLeft DEF Makes
  <2> QED
    BY <2>1, <2>2 DEF OpenComesFirst
<1>3. ASSUME Refresh \/ Activate \/ Defer PROVE OpenComesFirst'
  <2>1. todo # <<>> /\ todo' = Tail(todo)
    BY <1>3 DEF Refresh, Refreshed, Activate, Defer, Call
  <2> QED
    BY <1>1, <2>1, OpenIsNotLeft DEF CallsTyped
<1>4. ASSUME OpenSettings PROVE OpenComesFirst'
  <2>1. todo # <<>> /\ todo' = <<"refresh", "defer">> \o Tail(todo)
    BY <1>4 DEF OpenSettings, Call
  <2>2. /\ Tail(todo) \in Seq(Calls) /\ <<"defer">> \o Tail(todo) \in Seq(Calls)
        /\ ~Makes(<<"defer">> \o Tail(todo), "open")
    BY <2>1, OpenIsNotLeft, CallDone, CallFirst DEF CallsTyped, Calls
  <2> QED
    BY <1>1, <2>1, <2>2, TwoCallsFirst, CallFirst DEF Calls
<1>5. ASSUME NEW w \in Windows, BuildWindow(w) PROVE OpenComesFirst'
  BY <1>1, <1>5, EventCalls DEF BuildWindow
<1>6. ASSUME RemoveWindow PROVE OpenComesFirst'
  BY <1>1, <1>6, EventCalls DEF RemoveWindow
<1>7. ASSUME BuildErr PROVE OpenComesFirst'
  BY <1>1, <1>7, EventCalls DEF BuildErr
<1>8. ASSUME PromptShown PROVE OpenComesFirst'
  BY <1>8 DEF PromptShown, OpenComesFirst
<1>9. ASSUME NEW w \in Windows \cup {NoWindow}, EventOf(w) PROVE OpenComesFirst'
  BY <1>9, EventStarts DEF OpenComesFirst
<1> QED
  BY StepKinds, <1>2, <1>3, <1>4, <1>5, <1>6, <1>7, <1>8, <1>9

\* A call that is done, or another that comes first, requests no window.
LEMMA DefersOnceKept ==
  ASSUME NEW s \in Seq(Calls), DefersOnce(s)
  PROVE  /\ s # <<>> => DefersOnce(Tail(s))
         /\ s # <<>> /\ Head(s) = "defer" => ~Makes(Tail(s), "defer")
         /\ \A c \in Calls \ {"defer"} : DefersOnce(<<c>> \o s)
         /\ ~Makes(s, "defer") => DefersOnce(<<"defer">> \o s)
<1>1. ASSUME s # <<>> PROVE DefersOnce(Tail(s))
  <2>1. \A i \in 1..Len(Tail(s)) :
          i \in Nat /\ i + 1 \in 1..Len(s) /\ Tail(s)[i] = s[i + 1]
    BY <1>1, CallDone
  <2>2. \A i, j \in Nat : i + 1 = j + 1 => i = j
    OBVIOUS
  <2> QED
    BY <2>1, <2>2 DEF DefersOnce
<1>2. ASSUME s # <<>>, Head(s) = "defer", NEW i \in 1..Len(Tail(s)), Tail(s)[i] = "defer"
      PROVE  FALSE
  <2>1. i + 1 \in 1..Len(s) /\ s[i + 1] = "defer" /\ 1 \in 1..Len(s) /\ s[1] = "defer"
    BY <1>2, CallDone
  <2>2. i + 1 # 1
    BY <1>2
  <2> QED
    BY <2>1, <2>2 DEF DefersOnce
<1>3. ASSUME NEW c \in Calls, c # "defer" \/ ~Makes(s, "defer"),
             NEW i \in 1..Len(<<c>> \o s), NEW j \in 1..Len(<<c>> \o s),
             (<<c>> \o s)[i] = "defer", (<<c>> \o s)[j] = "defer"
      PROVE  i = j
  <2> DEFINE t == <<c>> \o s
  <2>1. Len(t) = 1 + Len(s) /\ Len(s) \in Nat /\ t[1] = c
    BY CallFirst
  <2>2. \A k \in 2..(1 + Len(s)) : k - 1 \in 1..Len(s) /\ t[k] = s[k - 1]
    BY CallFirst
  <2>3. i \in 1..(1 + Len(s)) /\ j \in 1..(1 + Len(s)) /\ t[i] = "defer" /\ t[j] = "defer"
    BY <1>3, <2>1
  <2> HIDE DEF t
  <2>4. CASE i = 1 /\ j = 1
    BY <2>4
  <2>5. CASE i # 1 /\ j # 1
    <3>1. i \in 2..(1 + Len(s)) /\ j \in 2..(1 + Len(s))
      BY <2>1, <2>3, <2>5
    <3>2. i - 1 = j - 1
      BY <2>2, <2>3, <3>1 DEF DefersOnce
    <3> QED
      BY <3>1, <3>2
  <2>6. CASE i = 1 /\ j # 1
    <3>1. c = "defer" /\ j \in 2..(1 + Len(s))
      BY <2>1, <2>3, <2>6
    <3> QED
      BY <1>3, <2>2, <2>3, <3>1 DEF Makes
  <2>7. CASE i # 1 /\ j = 1
    <3>1. c = "defer" /\ i \in 2..(1 + Len(s))
      BY <2>1, <2>3, <2>7
    <3> QED
      BY <1>3, <2>2, <2>3, <3>1 DEF Makes
  <2> QED
    BY <2>4, <2>5, <2>6, <2>7
<1>4. \A c \in Calls : c # "defer" \/ ~Makes(s, "defer") => DefersOnce(<<c>> \o s)
  BY <1>3 DEF DefersOnce
<1>5. s # <<>> /\ Head(s) = "defer" => ~Makes(Tail(s), "defer")
  BY <1>2 DEF Makes
<1> QED
  BY <1>1, <1>4, <1>5 DEF Calls

\* Without a race, open_settings is called for a second window only when the
\* first has neither been opened nor requested.
LEMMA OpensNoSecond ==
  ASSUME CallsTyped, ViewTyped, OpenComesFirst, HandleIsTheWindow, OpenSettings, ~raced'
  PROVE  ~raced /\ windows = {} /\ deferred = 0 /\ ~Makes(todo, "defer")
<1>1. ~raced /\ ("noticed" \in turn => ~Requested /\ windows = {})
  BY DEF OpenSettings
<1>2. CASE "noticed" \in turn
  BY <1>1, <1>2, RequestedIsMade DEF CallsTyped
<1>3. CASE "noticed" \notin turn
  <2>1. Makes(todo, "open")
    BY CallDone DEF OpenSettings, Call, CallsTyped
  <2>2. ~Makes(todo, "defer") /\ deferred = 0 /\ source = NoWindow
    BY <1>3, <2>1 DEF OpenComesFirst
  <2>3. settings_window \notin windows
    BY <2>2, SettingsAssumption DEF OpenSettings, ViewTyped
  <2> QED
    BY <1>1, <2>2, <2>3 DEF HandleIsTheWindow
<1> QED
  BY <1>2, <1>3

\* Every step keeps OneRequest.
LEMMA RequestStep ==
  ASSUME Next, CallsTyped, ViewTyped, OpenComesFirst, OneRequest, HandleIsTheWindow
  PROVE  OneRequest'
<1> SUFFICES ASSUME ~raced'
             PROVE  /\ DefersOnce(todo')
                    /\ deferred' <= 1
                    /\ deferred' = 1 => ~Makes(todo', "defer")
                    /\ deferred' = 1 \/ Makes(todo', "defer") => windows' = {}
  BY DEF OneRequest
<1>1. ASSUME deferred' = 0, ~Makes(todo', "defer")
      PROVE  /\ DefersOnce(todo') /\ deferred' <= 1
             /\ deferred' = 1 => ~Makes(todo', "defer")
             /\ deferred' = 1 \/ Makes(todo', "defer") => windows' = {}
  BY <1>1 DEF DefersOnce, Makes
<1>2. ASSUME ~raced
      PROVE  /\ DefersOnce(todo) /\ deferred <= 1
             /\ deferred = 1 => ~Makes(todo, "defer")
             /\ deferred = 1 \/ Makes(todo, "defer") => windows = {}
  BY <1>2 DEF OneRequest
<1>3. CASE AskNow
  <2>1. /\ todo # <<>> /\ todo' = <<"open">> \o Tail(todo)
        /\ UNCHANGED <<deferred, windows, raced>>
    BY <1>3 DEF AskNow, Refreshed, Call, viewVars
  <2>2. Tail(todo) \in Seq(Calls) /\ DefersOnce(Tail(todo))
    BY <1>2, <2>1, CallDone, DefersOnceKept DEF CallsTyped
  <2>3. DefersOnce(todo') /\ (Makes(todo', "defer") => Makes(todo, "defer"))
    BY <2>1, <2>2, CallDone, CallFirst, DefersOnceKept DEF CallsTyped, Calls
  <2> QED
    BY <1>2, <2>1, <2>3
<1>4. CASE Refresh \/ Activate
  <2>1. /\ todo # <<>> /\ todo' = Tail(todo)
        /\ UNCHANGED <<deferred, windows, raced>>
    BY <1>4 DEF Refresh, Refreshed, Activate, Call, viewVars
  <2>2. DefersOnce(todo') /\ (Makes(todo', "defer") => Makes(todo, "defer"))
    BY <1>2, <2>1, CallDone, DefersOnceKept DEF CallsTyped
  <2> QED
    BY <1>2, <2>1, <2>2
<1>5. CASE Defer
  <2>1. /\ todo # <<>> /\ Head(todo) = "defer" /\ todo' = Tail(todo)
        /\ deferred' = deferred + 1 /\ UNCHANGED <<windows, raced>>
    BY <1>5 DEF Defer, Call, viewVars
  <2>2. Makes(todo, "defer") /\ DefersOnce(todo') /\ ~Makes(todo', "defer")
    BY <1>2, <2>1, CallDone, DefersOnceKept DEF CallsTyped
  <2>3. deferred = 0 /\ windows = {}
    BY <1>2, <2>1, <2>2 DEF CallsTyped
  <2> QED
    BY <2>1, <2>2, <2>3
<1>6. CASE OpenSettings
  <2>1. todo # <<>> /\ todo' = <<"refresh", "defer">> \o Tail(todo)
        /\ UNCHANGED <<deferred, windows>>
    BY <1>6 DEF OpenSettings, Call, viewVars
  <2>2. ~raced /\ windows = {} /\ deferred = 0 /\ ~Makes(todo, "defer")
    BY <1>6, OpensNoSecond
  <2>3. /\ Tail(todo) \in Seq(Calls) /\ ~Makes(Tail(todo), "defer")
        /\ DefersOnce(Tail(todo))
    BY <1>2, <2>1, <2>2, CallDone, DefersOnceKept DEF CallsTyped
  <2>4. <<"defer">> \o Tail(todo) \in Seq(Calls) /\ DefersOnce(<<"defer">> \o Tail(todo))
    BY <2>3, CallFirst, DefersOnceKept DEF Calls
  <2>5. DefersOnce(todo')
    BY <2>1, <2>3, <2>4, TwoCallsFirst, DefersOnceKept DEF Calls
  <2> QED
    BY <2>1, <2>2, <2>5
<1>7. CASE BuildErr
  <2>1. todo = <<>> /\ todo' = todo /\ deferred > 0 /\ deferred' = deferred - 1
        /\ UNCHANGED raced
    BY <1>7 DEF BuildErr
  <2>2. deferred' = 0
    BY <1>2, <2>1 DEF CallsTyped
  <2> QED
    BY <1>1, <2>1, <2>2, EventCalls
<1>8. ASSUME NEW w \in Windows, BuildWindow(w)
      PROVE  deferred' = 0 /\ ~Makes(todo', "defer")
  <2>1. todo' = <<"refresh">> /\ deferred > 0 /\ deferred' = deferred - 1 /\ UNCHANGED raced
    BY <1>8 DEF BuildWindow
  <2> QED
    BY <1>2, <2>1, EventCalls DEF CallsTyped
<1>9. CASE RemoveWindow
  BY <1>1, <1>9, EventCalls DEF RemoveWindow
<1>10. CASE PromptShown
  BY <1>2, <1>10 DEF PromptShown, viewVars
<1>11. ASSUME NEW w \in Windows \cup {NoWindow}, EventOf(w)
       PROVE  deferred' = 0 /\ ~Makes(todo', "defer")
  BY <1>11, EventStarts
<1> QED
  BY StepKinds, <1>1, <1>3, <1>4, <1>5, <1>6, <1>7, <1>8, <1>9, <1>10, <1>11

\* The window of the handle is the only one, and its inputs follow the form.
LEMMA WindowStep ==
  ASSUME Next, CallsTyped, ViewTyped, OpenComesFirst, OneRequest, HandleIsTheWindow,
         InputsShowForm
  PROVE  HandleIsTheWindow' /\ InputsShowForm'
<1> USE SettingsAssumption
<1> SUFFICES ASSUME ~raced'
             PROVE  /\ windows' \in {{}, {settings_window'}}
                    /\ \A w \in windows' \ {leaving'} : inputs'[w] = form'
  BY DEF HandleIsTheWindow, InputsShowForm
<1> DEFINE Kept == /\ windows' \in {{}, {settings_window'}}
                  /\ \A w \in windows' \ {leaving'} : inputs'[w] = form'
           shown == <<windows, settings_window, inputs, leaving, form>>
<1>1. ASSUME ~raced
      PROVE  /\ windows \in {{}, {settings_window}}
             /\ \A w \in windows \ {leaving} : inputs[w] = form
  BY <1>1 DEF HandleIsTheWindow, InputsShowForm
<1>2. ASSUME windows' = {} PROVE Kept
  BY <1>2
<1>3. ASSUME UNCHANGED <<shown, raced>> PROVE Kept
  BY <1>1, <1>3
<1>4. AskNow \/ Refresh \/ Activate \/ Defer \/ BuildErr \/ PromptShown
        => UNCHANGED <<shown, raced>>
  BY DEF AskNow, Refresh, Refreshed, Activate, Defer, BuildErr, PromptShown, viewVars,
         formVars
<1>5. StatsChanged \/ MenuSettings \/ MenuToggled \/ RunEnded
        => UNCHANGED <<shown, raced>>
  BY DEF StatsChanged, MenuSettings, MenuToggled, RunEnded, Event, viewVars, formVars
<1>6. ASSUME NEW w \in Windows \cup {NoWindow}, StartStop(w)
      PROVE  UNCHANGED <<shown, raced>>
  BY <1>6 DEF StartStop, Event, viewVars, formVars
<1>7. ASSUME NEW w \in Windows, NEW tab \in Tabs, TabClicked(w, tab)
      PROVE  UNCHANGED <<shown, raced>>
  BY <1>7 DEF TabClicked, WindowEvent, Event, viewVars, formVars
<1>8. ASSUME NEW w \in Windows,
             Save(w) \/ PromptAnswered(w) \/ CloseDirty(w) \/ AnswerCancel(w)
      PROVE  UNCHANGED <<shown, raced>>
  BY <1>8 DEF Save, PromptAnswered, CloseDirty, AnswerCancel, Answer, WindowEvent, Event,
              viewVars, formVars
<1>9. ASSUME OpenSettings PROVE Kept
  <2>1. windows = {}
    BY <1>9, OpensNoSecond
  <2> QED
    BY <1>2, <1>9, <2>1 DEF OpenSettings, viewVars
<1>10. ASSUME NEW w \in Windows, BuildWindow(w) PROVE Kept
  <2>1. /\ ~raced /\ deferred > 0
        /\ windows' = windows \cup {w} /\ settings_window' = w /\ form' = form
        /\ inputs' = NewInputs(w)
    BY <1>10 DEF BuildWindow, formVars
  <2>2. deferred = 1
    BY <2>1 DEF OneRequest, CallsTyped
  <2>3. windows' = {w}
    BY <2>1, <2>2 DEF OneRequest
  <2>4. inputs'[w] = form'
    BY <2>1, <2>3 DEF NewInputs
  <2> QED
    BY <2>1, <2>3, <2>4
<1>11. ASSUME RemoveWindow PROVE Kept
  <2>1. windows' = {}
    BY <1>1, <1>11 DEF RemoveWindow, Without, ViewTyped
  <2> QED
    BY <1>2, <2>1
<1>12. ASSUME NEW w \in Windows, CloseClean(w) PROVE Kept
  <2>1. windows' = {}
    BY <1>1, <1>12 DEF CloseClean, Without, WindowEvent, Event
  <2> QED
    BY <1>2, <2>1
<1>13. ASSUME NEW w \in Windows, w \in windows, ~raced,
              UNCHANGED <<windows, settings_window>>, SyncInputs(w)
       PROVE  Kept
  <2>1. windows = {settings_window} /\ w = settings_window
    BY <1>1, <1>13
  <2>2. inputs'[w] = form'
    BY <1>13 DEF SyncInputs, ViewTyped
  <2> QED
    BY <1>13, <2>1, <2>2
<1>14. ASSUME NEW w \in Windows, NEW f \in Forms, FieldEdited(w, f) PROVE Kept
  <2>1. SyncInputs(w)
    BY <1>14 DEF FieldEdited, SyncInputs
  <2> QED
    BY <1>13, <1>14, <2>1 DEF FieldEdited, WindowEvent, Event
<1>15. ASSUME NEW w \in Windows, Revert(w) PROVE Kept
  BY <1>13, <1>15 DEF Revert, WindowEvent, Event
<1>16. ASSUME NEW w \in Windows, AnswerSave(w) PROVE Kept
  BY <1>1, <1>16 DEF AnswerSave, Answer, Event, Idle, ViewTyped, formVars
<1>17. ASSUME NEW w \in Windows, AnswerDontSave(w) PROVE Kept
  <2>1. windows' = {w} /\ settings_window' = w /\ leaving' = w
    BY <1>1, <1>17 DEF AnswerDontSave, Answer, Event, ViewTyped
  <2> QED
    BY <2>1
<1> HIDE DEF Kept, shown
<1>18. Kept
  BY <1>3, <1>4, <1>5, <1>6, <1>7, <1>8, <1>9, <1>10, <1>11, <1>12, <1>14, <1>15, <1>16,
     <1>17 DEF Next
<1> QED
  BY <1>18 DEF Kept

---------------------------------------------------------------------------
(* The invariant and what follows from it *)

\* At first there is no window and nothing to do.
LEMMA InitInv == Init => SInv
<1> SUFFICES ASSUME Init PROVE SInv
  OBVIOUS
<1>1. FormTyped
  BY DEF Init, FormTyped, Forms
<1>2. FlagsTyped
  BY Zenon DEF Init, FlagsTyped
<1>3. CallsTyped
  BY EventCalls DEF Init, CallsTyped
<1>4. ViewTyped
  BY DEF Init, ViewTyped, Tabs
<1>5. LeavingSettles
  BY DEF Init, LeavingSettles, Saveable, Applied, Plain, Invalid
<1>6. TasksFollowSoon
  BY DEF Init, TasksFollowSoon
<1>7. PromptIsAskedSoon
  BY DEF Init, PromptIsAskedSoon
<1>8. OpenComesFirst /\ OneRequest
  BY EventCalls DEF Init, OpenComesFirst, OneRequest, DefersOnce
<1>9. HandleIsTheWindow /\ InputsShowForm
  BY DEF Init, HandleIsTheWindow, InputsShowForm
<1> QED
  BY <1>1, <1>2, <1>3, <1>4, <1>5, <1>6, <1>7, <1>8, <1>9 DEF SInv

\* Every step keeps the invariant.
LEMMA NextInv == SInv /\ [Next]_vars => SInv'
<1> SUFFICES ASSUME SInv, [Next]_vars PROVE SInv'
  OBVIOUS
<1>1. CASE Next
  BY <1>1, FormStep, FlagsStep, CallsStep, ViewStep, SettledStep, TasksStep, PromptStep,
     OpenFirstStep, RequestStep, WindowStep DEF SInv
<1>2. CASE UNCHANGED vars
  <2>1. /\ UNCHANGED <<saved, form, settings_window, active_tab, menu_open>>
        /\ UNCHANGED <<log_task, stats_task, running, task_alive, prompt, snapshot>>
        /\ UNCHANGED <<windows, inputs, asking, todo, deferred, source, leaving>>
        /\ UNCHANGED <<turn, raced, switched>>
    BY <1>2 DEF vars, formVars, taskVars, runVars, promptVars, viewVars
  <2>2. FormTyped' /\ FlagsTyped' /\ CallsTyped' /\ ViewTyped'
    BY <2>1 DEF SInv, FormTyped, FlagsTyped, CallsTyped, ViewTyped
  <2>3. LeavingSettles' /\ TasksFollowSoon' /\ PromptIsAskedSoon'
    BY <2>1 DEF SInv, LeavingSettles, TasksFollowSoon, PromptIsAskedSoon
  <2>4. OpenComesFirst' /\ OneRequest' /\ HandleIsTheWindow' /\ InputsShowForm'
    BY <2>1 DEF SInv, OpenComesFirst, OneRequest, HandleIsTheWindow, InputsShowForm
  <2> QED
    BY <2>2, <2>3, <2>4 DEF SInv
<1> QED
  BY <1>1, <1>2

\* The invariant holds throughout every behaviour.
LEMMA Invariance == Spec => []SInv
<1> QED
  BY InitInv, NextInv, PTL DEF Spec

\* Every variable keeps its type, and the handle the application keeps is that
\* of an open window (open_settings, settings_closed, resolve_close).
THEOREM TypeCorrect == Spec => []TypeOK
<1>1. SInv => TypeOK
  <2> SUFFICES ASSUME SInv PROVE TypeOK
    OBVIOUS
  <2>1. \A flag \in {menu_open, log_task, stats_task, running, task_alive, prompt, snapshot,
                     raced, switched} : flag \in BOOLEAN
    BY Zenon DEF SInv, FlagsTyped
  <2>2. todo \in Seq({"refresh", "open", "defer"}) /\ deferred \in Nat
        /\ turn \subseteq {"noticed", "failed", "left"}
    BY DEF SInv, CallsTyped, Calls
  <2>3. /\ settings_window \in Windows \cup {NoWindow} /\ active_tab \in Tabs
        /\ windows \in SUBSET Windows /\ inputs \in [windows -> Forms]
        /\ asking \in SUBSET windows
        /\ {source, leaving} \subseteq Windows \cup {NoWindow}
        /\ settings_window # NoWindow => settings_window \in windows
    BY DEF SInv, ViewTyped, CallsTyped
  <2> QED
    BY <2>1, <2>2, <2>3 DEF TypeOK, SInv, FormTyped
<1> QED
  BY <1>1, Invariance, PTL

\* Edits do not outlive their window: with no window open between two events,
\* the form is what is saved (resolve_close, revert_form, save_settings).
THEOREM ClosedTheorem == Spec => []ClosedIsSettled
<1>1. SInv => ClosedIsSettled
  BY DEF SInv, LeavingSettles, ClosedIsSettled
<1> QED
  BY <1>1, Invariance, PTL

\* A second settings window takes a host key prompt that is noticed while the
\* first is requested or in its own event (open_settings).
THEOREM OneWindowTheorem == Spec => []OneWindow
<1>1. SInv => OneWindow
  <2> SUFFICES ASSUME SInv, ~raced PROVE ~(Cardinality(windows) > 1)
    BY DEF OneWindow
  <2>1. windows = {} \/ windows = {settings_window}
    BY DEF SInv, HandleIsTheWindow
  <2>2. Cardinality(windows) \in {0, 1}
    BY <2>1, FS_EmptySet, FS_Singleton
  <2> QED
    BY <2>2
<1> QED
  BY <1>1, Invariance, PTL

\* What the inputs of a window show is what a save would write (sync_inputs).
THEOREM InputsTheorem == Spec => []InputsShowForm
<1>1. SInv => InputsShowForm
  BY DEF SInv
<1> QED
  BY <1>1, Invariance, PTL

\* A new host key prompt is on screen when the event that noticed it is over
\* (refresh_stats, open_settings).
THEOREM PromptTheorem == Spec => []PromptIsAsked
<1>1. SInv => PromptIsAsked
  <2>1. Idle => ~Makes(todo, "open") /\ ~Makes(todo, "defer") /\ deferred = 0
    BY EventCalls DEF Idle
  <2> QED
    BY <2>1 DEF SInv, ViewTyped, PromptIsAskedSoon, PromptIsAsked
<1> QED
  BY <1>1, Invariance, PTL

\* The tasks that refresh what is shown run when it is shown and no longer, but
\* for log_task after a prompt has changed the tab (sync_refresh_tasks,
\* refresh_stats).
THEOREM TasksTheorem == Spec => []TasksFollow
<1>1. SInv => TasksFollow
  <2>1. Idle => ~Makes(todo, "refresh")
    BY EventCalls DEF Idle
  <2> QED
    BY <2>1, SettingsAssumption DEF SInv, ViewTyped, TasksFollowSoon, TasksFollow
<1> QED
  BY <1>1, Invariance, PTL
==========================================================================
