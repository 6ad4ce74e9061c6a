----------------------------- MODULE StatsFeed -----------------------------
(***************************************************************************)
(* How what the proxy publishes reaches the menu and the window            *)
(* (src/app/stats.rs, and refresh_stats and sync_refresh_tasks of          *)
(* src/main.rs).                                                           *)
(*                                                                         *)
(* Any thread writes a field and then sends a notification through a       *)
(* bounded channel, which it does not wait for.  The UI thread takes one   *)
(* notification at a time and copies the fields one by one.  The byte      *)
(* counters send nothing; a timer is to cover for them while the proxy     *)
(* runs and somebody can see it.                                           *)
(*                                                                         *)
(* The code's order of reading the fields is one of those allowed here.    *)
(* The application is past subscribe(), about to refresh for the first     *)
(* time (ProxyBear::listen).                                               *)
(***************************************************************************)
EXTENDS Naturals

CONSTANTS
  Threads,   \* the UI thread and the runtime's workers
  UI,        \* the UI thread
  Fields,    \* fields of ProxyStats
  Locked,    \* those behind a Mutex, held until the notification is sent
  Quiet,     \* those whose writers send nothing: bytes_up, bytes_down
  Values,    \* what a field may hold
  NoField,   \* None
  Capacity   \* notifications the channel holds, STATS_CHANNEL_SIZE and one

ASSUME StatsAssumption ==
  /\ UI \in Threads
  /\ Locked \subseteq Fields
  /\ Quiet \subseteq Fields
  /\ NoField \notin Fields
  /\ Capacity \in Nat \ {0}

VARIABLES
  value,       \* ProxyStats
  writing,     \* the field each thread has stored and has yet to notify of
  queue,       \* how many notifications wait
  refreshing,  \* the UI thread is in refresh_stats
  left,        \* fields its snapshot has yet to read
  shown,       \* ProxyBear::stats_snapshot
  watched,     \* the proxy runs, and its window or menu is open
  timer        \* ProxyBear::stats_task

vars == <<value, writing, queue, refreshing, left, shown, watched, timer>>

---------------------------------------------------------------------------
(* Writers *)

\* The field's lock, if it has one, is free.
Free(f) == f \in Locked => \A t \in Threads : writing[t] # f

\* set_status, set_error, clear_error, set_host_key_prompt, ssh_connected,
\* ssh_disconnected, add_up, add_down: nothing happens when nothing changes.
Write(t, f, v) ==
  /\ writing[t] = NoField
  /\ t = UI => ~refreshing
  /\ Free(f)
  /\ value[f] # v
  /\ value' = [value EXCEPT ![f] = v]
  /\ writing' = [writing EXCEPT ![t] = IF f \in Quiet THEN NoField ELSE f]
  /\ UNCHANGED <<queue, refreshing, left, shown, watched, timer>>

\* Mutant of Notify: a refresh under way is thought to be enough.
NotifyUnlessRefreshing(t) ==
  /\ writing[t] # NoField
  /\ writing' = [writing EXCEPT ![t] = NoField]
  /\ queue' = IF refreshing \/ queue = Capacity THEN queue ELSE queue + 1
  /\ UNCHANGED <<value, refreshing, left, shown, watched, timer>>

\* notify_changed: what does not fit is dropped.
Notify(t) ==
  /\ writing[t] # NoField
  /\ writing' = [writing EXCEPT ![t] = NoField]
  /\ queue' = IF queue = Capacity THEN queue ELSE queue + 1
  /\ UNCHANGED <<value, refreshing, left, shown, watched, timer>>

---------------------------------------------------------------------------
(* The UI thread *)

BeginRefresh ==
  /\ ~refreshing /\ writing[UI] = NoField
  /\ refreshing' = TRUE
  /\ left' = Fields
  /\ UNCHANGED <<value, writing, shown, timer>>

\* stats.next() returns a notification.
Wake ==
  /\ queue > 0
  /\ queue' = queue - 1
  /\ BeginRefresh
  /\ UNCHANGED watched

\* A handler starts or stops the proxy, opens or closes the window or the menu,
\* sees a run end, or does none of these, and refreshes.
Handle ==
  /\ watched' \in BOOLEAN
  /\ BeginRefresh
  /\ UNCHANGED queue

\* Five seconds have passed in stats_task.
TimerFires ==
  /\ timer
  /\ BeginRefresh
  /\ UNCHANGED <<queue, watched>>

\* snapshot() copies a field.
Read(f) ==
  /\ f \in left
  /\ Free(f)
  /\ shown' = [shown EXCEPT ![f] = value[f]]
  /\ left' = left \ {f}
  /\ UNCHANGED <<value, writing, queue, refreshing, watched, timer>>

EndRefresh ==
  /\ refreshing /\ left = {}
  /\ refreshing' = FALSE
  /\ UNCHANGED <<value, writing, left, shown, watched>>

\* Mutant of Finish: the notifications sent meanwhile are taken as dealt with.
FinishDraining ==
  /\ EndRefresh
  /\ queue' = 0
  /\ timer' = watched

\* Mutant of Finish: the timer is left to others.
FinishUnsynced ==
  /\ EndRefresh
  /\ UNCHANGED <<queue, timer>>

\* The copy is shown, and sync_refresh_tasks starts or drops the timer.
Finish ==
  /\ EndRefresh
  /\ timer' = watched
  /\ UNCHANGED queue

---------------------------------------------------------------------------
Init ==
  /\ value \in [Fields -> Values]
  /\ writing = [t \in Threads |-> NoField]
  /\ queue = 0
  /\ refreshing = TRUE
  /\ left = Fields
  /\ shown \in [Fields -> Values]
  /\ watched = FALSE
  /\ timer = FALSE

Publish(t) ==
  \/ \E f \in Fields, v \in Values : Write(t, f, v)
  \/ Notify(t)

Refresh ==
  \/ Wake
  \/ Handle
  \/ TimerFires
  \/ \E f \in Fields : Read(f)
  \/ Finish

Next == (\E t \in Threads : Publish(t)) \/ Refresh

Spec == Init /\ [][Next]_vars

(***************************************************************************)
(* Fairness.  A thread that has stored goes on to notify.  The UI thread's *)
(* executor runs ready tasks in turn, so neither the listener nor the      *)
(* timer is passed over for ever by other handlers; a lock that is asked   *)
(* for again and again is obtained.  Nothing is assumed of handlers or of  *)
(* writers beginning.                                                      *)
(***************************************************************************)
Fairness ==
  /\ \A t \in Threads : WF_vars(Notify(t))
  /\ SF_vars(Wake)
  /\ SF_vars(TimerFires)
  /\ \A f \in Fields : SF_vars(Read(f))
  /\ WF_vars(Finish)

FairSpec == Spec /\ Fairness

---------------------------------------------------------------------------
(* Properties *)

\* Every variable keeps its type, and a locked field has one writer at a time.
TypeOK ==
  /\ value \in [Fields -> Values]
  /\ writing \in [Threads -> (Fields \ Quiet) \cup {NoField}]
  /\ queue \in 0..Capacity
  /\ refreshing \in BOOLEAN
  /\ left \in SUBSET Fields
  /\ shown \in [Fields -> Values]
  /\ watched \in BOOLEAN
  /\ timer \in BOOLEAN
  /\ left # {} => refreshing
  /\ \A t, u \in Threads :
       writing[t] = writing[u] /\ writing[t] \in Locked => t = u

\* What is shown is the present value of a field unless something is on its way
\* that will make the UI thread read it again: a notification dropped by a full
\* channel, or sent while a refresh has already read the field, is never the
\* last word (notify_changed, and the order of next() and snapshot()).
NoLostUpdate ==
  \A f \in Fields \ Quiet :
    \/ shown[f] = value[f]
    \/ f \in left
    \/ queue > 0
    \/ \E t \in Threads : writing[t] = f

\* A value that stays is shown, however many others change at the same time.
WindowCatchesUp ==
  \A f \in Fields \ Quiet, v \in Values :
    value[f] = v ~> (shown[f] = v \/ value[f] # v)

\* The byte counters, which notify nobody, are shown all the same while the
\* proxy runs and can be seen (sync_refresh_tasks).
CountersTick ==
  \A f \in Quiet, v \in Values :
    (watched /\ value[f] = v) ~> (shown[f] = v \/ value[f] # v \/ ~watched)
===========================================================================
