------------------------------ MODULE LogFile ------------------------------
(***************************************************************************)
(* The activity log: the rotating file (src/app/logging.rs), the viewer    *)
(* that follows it by its length (src/settings/log_tail.rs), and the task  *)
(* that wakes the viewer (sync_refresh_tasks in src/main.rs).              *)
(*                                                                         *)
(* Writers take turns under a lock; one of them stands for all.  The UI    *)
(* thread reads the same path without that lock, so every system call of   *)
(* either side is an action; open and read_to_end are one, because a file  *)
(* that has left its path grows no more.  A line is its number, written at *)
(* once, and every line has size 1.                                        *)
(***************************************************************************)
EXTENDS Naturals, FiniteSets, SequencesExt

CONSTANTS
  MaxSize,   \* LOG_MAX_SIZE
  MaxShown,  \* MAX_LOG_LINES
  MaxLines,  \* bound: lines written altogether
  NoFile     \* there is no such file

ASSUME LogAssumption ==
  /\ MaxSize \in Nat \ {0}
  /\ MaxShown \in Nat \ {0}
  /\ MaxLines \in Nat
  /\ NoFile \notin Seq(Nat)

VARIABLES
  data,      \* the log, the old log, and the writer's file when it has no name
  handle,    \* which of them RotatingWriter::file is
  append,    \* that file was opened for appending
  pos,       \* else, where it writes next
  writer,    \* what write is about to do
  written,   \* the line being written, or the last one
  shown,     \* LogTail::lines
  offset,    \* LogTail::offset
  viewer,    \* what read_new is about to do
  len,       \* the size it has seen
  task,      \* ProxyBear::log_task
  unseen,    \* LOG_CHANGED has a version the task has not seen
  news,      \* history: a line was written since the last refresh
  replaced   \* history: the file the offset is about has left the path

file == <<data, handle, append, pos>>
view == <<shown, offset, viewer, len>>
vars == <<file, writer, written, view, task, unseen, news, replaced>>

Hole == 0  \* what a file holds where nothing was written

Names == {"log", "old", "gone"}

\* The files once f has lost its name; the writer keeps the one it has open.
Unlinked(f) ==
  [data EXCEPT ![f] = NoFile, !["gone"] = IF handle = f THEN data[f] ELSE @]

---------------------------------------------------------------------------
(* RotatingWriter, under SharedWriter's lock *)

\* Mutant of Check: the line to be written is not counted.
CheckBefore ==
  /\ writer = "idle" /\ written < MaxLines
  /\ written' = written + 1
  /\ writer' = IF Len(data[handle]) > MaxSize THEN "rename" ELSE "write"
  /\ UNCHANGED <<file, view, task, unseen, news, replaced>>

\* write begins: the size of the open file decides.
Check ==
  /\ writer = "idle" /\ written < MaxLines
  /\ written' = written + 1
  /\ writer' = IF Len(data[handle]) + 1 > MaxSize THEN "rename" ELSE "write"
  /\ UNCHANGED <<file, view, task, unseen, news, replaced>>

\* remove_file and rename
Rename ==
  /\ writer = "rename" /\ data["log"] # NoFile
  /\ data' = [Unlinked("old") EXCEPT !["log"] = NoFile, !["old"] = data["log"]]
  /\ handle' = IF handle = "log" THEN "old" ELSE "gone"
  /\ writer' = "reopen"
  /\ replaced' = TRUE
  /\ UNCHANGED <<append, pos, written, view, task, unseen, news>>

\* rename fails, whether or not remove_file did.
RenameFails ==
  /\ writer = "rename"
  /\ \/ UNCHANGED <<data, handle>>
     \/ /\ data' = Unlinked("old")
        /\ handle' = IF handle = "old" THEN "gone" ELSE handle
  /\ writer' = "truncate"
  /\ UNCHANGED <<append, pos, written, view, task, unseen, news, replaced>>

\* The log opened anew; a file without a name goes away with its handle.
Opened(content, appending) ==
  /\ data' = [data EXCEPT !["log"] = content, !["gone"] = NoFile]
  /\ handle' = "log"
  /\ append' = appending
  /\ pos' = 0
  /\ writer' = "write"

\* After a rename: clear may have created the file meanwhile.
Reopen ==
  /\ writer = "reopen"
  /\ Opened(IF data["log"] = NoFile THEN <<>> ELSE data["log"], TRUE)
  /\ UNCHANGED <<written, view, task, unseen, news, replaced>>

\* After a failed rename: truncate in place, and do not append.
Truncate ==
  /\ writer = "truncate"
  /\ Opened(<<>>, FALSE)
  /\ replaced' = TRUE
  /\ UNCHANGED <<written, view, task, unseen, news>>

Put ==
  /\ writer = "write"
  /\ LET d == data[handle]
         gap == IF append THEN <<>> ELSE [i \in 1..(pos - Len(d)) |-> Hole]
     IN  data' = [data EXCEPT ![handle] = d \o gap \o <<written>>]
  /\ pos' = IF append THEN pos ELSE pos + 1
  /\ writer' = "notify"
  /\ news' = TRUE
  /\ UNCHANGED <<handle, append, written, view, task, unseen, replaced>>

\* open or write fails, and write returns the error: the line is lost.
WriteFails ==
  /\ writer \in {"reopen", "truncate", "write"}
  /\ writer' = "idle"
  /\ UNCHANGED <<file, written, view, task, unseen, news, replaced>>

\* Mutant of Notify: a refresh under way is thought to be enough.
NotifyUnlessReading ==
  /\ writer = "notify"
  /\ unseen' = IF task # "off" /\ viewer = "idle" THEN TRUE ELSE unseen
  /\ writer' = "idle"
  /\ UNCHANGED <<file, written, view, task, news, replaced>>

\* LOG_CHANGED.send, still under the lock.
Notify ==
  /\ writer = "notify"
  /\ unseen' = (task # "off")
  /\ writer' = "idle"
  /\ UNCHANGED <<file, written, view, task, news, replaced>>

---------------------------------------------------------------------------
(* The window, on the UI thread *)

\* The Logs tab is selected, or the window opens on it: sync_refresh_tasks
\* subscribes if there is no task, then refresh begins.
OpenLogs ==
  /\ viewer = "idle"
  /\ task' = IF task = "off" THEN "waiting" ELSE task
  /\ unseen' = IF task = "off" THEN FALSE ELSE unseen
  /\ viewer' = "stat"
  /\ UNCHANGED <<file, writer, written, shown, offset, len, news, replaced>>

\* Another tab is selected, or the window closes: the task is dropped.
CloseLogs ==
  /\ viewer = "idle" /\ task # "off"
  /\ task' = "off"
  /\ unseen' = FALSE
  /\ UNCHANGED <<file, writer, written, view, news, replaced>>

\* changed() returns, and has seen the version; a second goes by.
Changed ==
  /\ viewer = "idle" /\ task = "waiting" /\ unseen
  /\ task' = "delay"
  /\ unseen' = FALSE
  /\ UNCHANGED <<file, writer, written, view, news, replaced>>

\* borrow_and_update, then refresh begins.
Refresh ==
  /\ viewer = "idle" /\ task = "delay"
  /\ task' = "waiting"
  /\ unseen' = FALSE
  /\ viewer' = "stat"
  /\ UNCHANGED <<file, writer, written, shown, offset, len, news, replaced>>

\* metadata: a file that is shorter than the offset is another one.
Stat ==
  /\ viewer = "stat"
  /\ news' = FALSE
  /\ IF data["log"] = NoFile
       THEN /\ offset' = 0
            /\ viewer' = "idle"
            /\ UNCHANGED <<shown, len>>
       ELSE /\ len' = Len(data["log"])
            /\ IF len' < offset THEN offset' = 0 /\ shown' = <<>>
                                ELSE UNCHANGED <<offset, shown>>
            /\ viewer' = IF len' = offset' THEN "idle" ELSE "read"
  /\ replaced' = (replaced /\ offset' # 0)
  /\ UNCHANGED <<file, writer, written, task, unseen>>

\* Mutant of Pushed: one line too many is kept.
PushedLate(lines) ==
  LET all == shown \o lines
  IN  SubSeq(all, IF Len(all) > MaxShown THEN Len(all) - MaxShown ELSE 1, Len(all))

\* push_line of each: the oldest give way.
Pushed(lines) ==
  LET all == shown \o lines
  IN  SubSeq(all, IF Len(all) > MaxShown THEN Len(all) - MaxShown + 1 ELSE 1, Len(all))

\* Mutant of Read: notifications are marked as seen once all is read.
ReadThenMark ==
  /\ viewer = "read" /\ data["log"] # NoFile
  /\ shown' = Pushed(SubSeq(data["log"], offset + 1, Len(data["log"])))
  /\ offset' = len
  /\ viewer' = "idle"
  /\ unseen' = FALSE
  /\ UNCHANGED <<file, writer, written, len, task, news, replaced>>

\* open, seek and read_to_end: the file may have grown, or be another.
Read ==
  /\ viewer = "read" /\ data["log"] # NoFile
  /\ shown' = Pushed(SubSeq(data["log"], offset + 1, Len(data["log"])))
  /\ offset' = len
  /\ viewer' = "idle"
  /\ UNCHANGED <<file, writer, written, len, task, unseen, news, replaced>>

\* open finds no file.
ReadNothing ==
  /\ viewer = "read" /\ data["log"] = NoFile
  /\ offset' = 0
  /\ viewer' = "idle"
  /\ replaced' = FALSE
  /\ UNCHANGED <<file, writer, written, shown, len, task, unseen, news>>

\* Mutant of ReadFails: the offset is taken before the file is opened.
ReadFailsLate ==
  /\ viewer \in {"stat", "read"}
  /\ viewer' = "idle"
  /\ offset' = IF viewer = "read" THEN len ELSE offset
  /\ news' = FALSE
  /\ UNCHANGED <<file, writer, written, shown, len, task, unseen, replaced>>

\* Any other error: "Could not read log".
ReadFails ==
  /\ viewer \in {"stat", "read"}
  /\ viewer' = "idle"
  /\ news' = IF viewer = "stat" THEN FALSE ELSE news
  /\ UNCHANGED <<file, writer, written, shown, offset, len, task, unseen, replaced>>

\* LogTail::clear; when it fails nothing changes.
Clear ==
  /\ viewer = "idle" /\ task # "off"
  /\ data' = [data EXCEPT !["log"] = <<>>]
  /\ offset' = 0
  /\ shown' = <<>>
  /\ replaced' = FALSE
  /\ UNCHANGED <<handle, append, pos, writer, written, viewer, len, task, unseen, news>>

\* The user deletes the log or the old log in the Finder.
Delete(f) ==
  /\ data[f] # NoFile
  /\ data' = Unlinked(f)
  /\ handle' = IF handle = f THEN "gone" ELSE handle
  /\ replaced' = (replaced \/ f = "log")
  /\ UNCHANGED <<append, pos, writer, written, view, task, unseen, news>>

---------------------------------------------------------------------------
Init ==
  /\ data = [f \in Names |-> IF f = "log" THEN <<>> ELSE NoFile]
  /\ handle = "log" /\ append = TRUE /\ pos = 0
  /\ writer = "idle" /\ written = 0
  /\ shown = <<>> /\ offset = 0 /\ viewer = "idle" /\ len = 0
  /\ task = "off" /\ unseen = FALSE
  /\ news = FALSE /\ replaced = FALSE

Write == Check \/ Rename \/ RenameFails \/ Reopen \/ Truncate \/ Put \/ WriteFails \/ Notify

ReadNew == Stat \/ Read \/ ReadNothing \/ ReadFails

Window == OpenLogs \/ CloseLogs \/ Changed \/ Refresh \/ ReadNew \/ Clear

Next == Write \/ Window \/ \E f \in {"log", "old"} : Delete(f)

Spec == Init /\ [][Next]_vars

(***************************************************************************)
(* Fairness: the writer that has the lock goes on to notify, a system call *)
(* returns, and the executor of the UI thread runs a task that is ready.   *)
(* Nothing is assumed of lines being written or of the user.               *)
(***************************************************************************)
FairSpec ==
  Spec /\ WF_vars(Notify) /\ WF_vars(ReadNew) /\ WF_vars(Changed) /\ WF_vars(Refresh)

---------------------------------------------------------------------------
(* Properties *)

\* Every variable keeps its type; the writer always has a file, and one without
\* a name exists only while the writer has it.
TypeOK ==
  /\ data \in [Names -> Seq(0..MaxLines) \cup {NoFile}]
  /\ handle \in Names /\ data[handle] # NoFile
  /\ data["gone"] # NoFile => handle = "gone"
  /\ append \in BOOLEAN /\ pos \in 0..MaxLines
  /\ writer \in {"idle", "rename", "reopen", "truncate", "write", "notify"}
  /\ written \in 0..MaxLines
  /\ shown \in Seq(0..MaxLines) /\ Len(shown) <= MaxShown
  /\ offset \in Nat /\ len \in Nat
  /\ viewer \in {"idle", "stat", "read"}
  /\ task \in {"off", "waiting", "delay"}
  /\ unseen \in BOOLEAN /\ (unseen => task # "off")
  /\ news \in BOOLEAN /\ replaced \in BOOLEAN

\* Where a file holds a line.
Lines(d) == {i \in DOMAIN d : d[i] # Hole}

DiskIsBounded ==
  \A f \in Names : data[f] # NoFile => Cardinality(Lines(data[f])) <= MaxSize

\* "keeping disk usage bounded" (RotatingWriter): what any file holds stays
\* within the limit, whatever is deleted, cleared or failed under the writer, and
\* the view keeps no more than its own, however much a refresh reads (push_line).
WithinLimits == DiskIsBounded /\ Len(shown) <= MaxShown

\* While the Logs tab is open, a line written after the last refresh has left
\* the task a notification to see: none is marked as seen unread
\* (borrow_and_update before refresh, subscribe before the first one).
NewsIsAnnounced ==
  viewer = "idle" /\ task # "off" /\ news => unseen \/ task = "delay" \/ writer = "notify"

\* What the offset has passed was shown, unless the file was replaced by
\* another that is as long: growth between metadata and read_to_end, a failed
\* read and a file that comes and goes skip nothing (read_new).
NothingSkipped ==
  viewer = "idle" /\ ~replaced /\ data["log"] # NoFile =>
    \A i \in 1..Len(data["log"]) :
      i <= offset /\ data["log"][i] # Hole =>
        data["log"][i] \in ToSet(shown) \/ Len(shown) = MaxShown

\* A line that is written while the Logs tab is open brings about a refresh
\* (sync_refresh_tasks).
NewsIsRead == news /\ task # "off" ~> ~news \/ task = "off"
===========================================================================
