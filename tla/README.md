# ProxyBear in TLA+

ProxyBear is a macOS tray application that runs a local SOCKS5 proxy over a
pool of SSH sessions. This directory holds TLA+ models of its core, TLC
configurations that check them on small instances, and TLAPS proofs of their
safety properties for every value of the constants. Paths below are relative to
the repository; `PROJECT.json` maps each definition to the lines it models.

Run a check with `tlc -config X.cfg M.tla`, a proof with `tlapm MProof.tla`.

## The system

Two worlds share a process. The **UI thread** (gpui) runs handlers one at a
time: menu and window events, the end of a proxy run, notifications. The **tokio
runtime** has two worker threads and runs the proxy: one task per run, one
supervisor per pool slot, one task per SOCKS client. They meet in four places:
the shutdown message and `JoinHandle` of a run, the `AppConfig` cloned into a run,
`ProxyStats`, and the log.

| Component | State | Operations | Talks to |
|---|---|---|---|
| SSH session pool, `src/proxy/pool.rs` | watched vector of slots; per session: dead flag, notification, channel count; wake-ups | `supervise`, `wait_for_client`, `set_slot`, `acquire`, `open_channel`, `open_on`, `check_sessions`, `kill`, `close` | connector, clients, stats |
| Proxy run, `src/proxy/mod.rs` | listener, supervisors, clients | bind, accept, stop, abort, join, close; `handle_client` | pool, SOCKS, tunnel, stats |
| SSH connector, `src/proxy/ssh.rs` | snapshot of the settings | `connect`, `check_server_key`, authentication | russh, stats |
| SOCKS handshake, `src/proxy/socks.rs` | one stream | `negotiate_no_auth`, `read_request`, `write_reply` | client |
| Tunnel, `src/proxy/tunnel.rs` | one stream, one channel | `pump` | client, russh, stats |
| Proxy controller, `src/app/proxy_control.rs`, `start_proxy` in `src/main.rs` | shutdown sender, `task_alive`, `start_pending` | `start`, `stop`, `finish` | run, UI handlers |
| Host key trust, `ssh.rs`, `main.rs`, `settings/mod.rs` | saved fingerprint, prompt | check, trust, reject, forget, save | connector, settings, stats |
| Proxy statistics, `src/app/stats.rs` | fields, a bounded channel of notifications | setters, `snapshot`, `subscribe` | everything |
| Secrets and config file, `src/config/` | config file, Keychain, settings in memory | load, migrate, save | settings form |
| Settings form, `src/settings/mod.rs` | text fields | edit, apply, revert | config, host key |
| Log file and view, `src/app/logging.rs`, `src/settings/log_tail.rs` | two files, the open one, offset, lines | write, rotate, refresh, clear | UI task |
| Application shell, `src/main.rs` | window, tab, refresh tasks, feedback | handlers, `open_settings`, `refresh_stats`, `sync_refresh_tasks`, `resolve_close` | everything |
| Settings views, `src/settings/view.rs` | inputs of a window | `new`, `sync_inputs`, `on_field` | form, shell |
| Tray, presenter, theme, updater, platform, icons | what was last shown | platform calls | shell |

### What is hard

* **Interleavings.** Supervisors and clients run on two threads and find each
  other through a `watch` channel, a `Notify` and atomics. What a client saw of a
  session may be over when it uses it; a supervisor may fall asleep just as a client asks.
* **Order.** `set_slot` counts and publishes under the slots lock; supervisors are
  joined before the run writes its last status; `kill` marks a session before its
  slot is emptied; a field is stored before its notification is sent.
* **Requests that overtake each other.** Start, stop, save and restart arrive while
  an earlier run is still going; a host key prompt is answered after the
  settings have changed.
* **Tasks that are dropped.** A run that ends aborts its tasks wherever they are;
  what they held must be found by somebody else.
* **Calls that come back.** Opening the settings refreshes, a refresh may open the
  settings, and the window is built only after the event is over.
* **Failure in the middle.** A save writes two Keychain items and a file, each of
  which may fail, and the application may be killed in between. A channel is
  open but its client has gone. A log rotation removes, renames and reopens.
* **Time.** Connects, waits, pings and retries have timeouts that race with late answers.

Every such place is listed under `hazards` in `PROJECT.json` at its line, with the
properties that would catch it going wrong, or with why none does.

### What makes each component correct

* Pool: no waiting client is overlooked; a session in use can be reached by the
  checks until it is declared dead; unlimited waits are earned; a retry goes
  elsewhere; what a client acts on it has seen; counts and errors shown are those
  of a possible present.
* Controller: one run at a time; the last request wins; a restart takes the new
  settings; what is shown when nothing runs says so.
* Host keys: a session is accepted only with a key that an answer of the user has
  made trusted for that server.
* Statistics: no change is lost on its way to the window.
* Secrets: no interruption and no failed read loses or overwrites a secret.
* Log: disk use is bounded, and the view skips no line it could have read.
* Run: when it is over no session, task or status of its own is left, and a
  stop always gets there.
* Tunnel: what is relayed is whole, both ways and half-closed; neither direction
  stalls the other; the channel is closed at the end.
* SOCKS: one verdict, success only with a channel, and no byte of the tunnel is
  taken for the handshake.
* Form and shell: what is shown is what would be saved; closing settles unsaved
  changes; one window; a host key prompt is asked; tasks follow what is shown.

## The modules

| Module | Models | Composition |
|---|---|---|
| `PoolService` | abstract: what a client may expect of the pool | |
| `Pool` | supervisors, slots, clients from accept to end of tunnel | implements `PoolService` |
| `MCPool` | symmetry and a view for TLC | extends `Pool` |
| `ProxyRun` | bind, accept loop, panics, stop, abort, join and `Pool::close` | extends `Pool`, whose tasks it runs and aborts; implements the run of `ProxyController` |
| `Tunnel` | one SOCKS connection: handshake, replies, `pump` | its channel comes from `Pool` |
| `ProxyService` | abstract: what starting, stopping and restarting promise | |
| `ProxyController` | the controller, its callers and the life of a run | implements `ProxyService` |
| `HostKey` | settings, snapshot, connections, prompt and decisions about server keys | |
| `StatsFeed` | writers of `ProxyStats`, channel, refresh, timer | |
| `SecretStore` | config file, Keychain, settings in memory, form | |
| `LogFile` | rotating writer, viewer, the task that wakes it | |
| `SettingsWindow` | form, window, unsaved changes, prompts that raise it, refresh tasks | |
| `MCSettings` | symmetry for TLC | extends `SettingsWindow` |
| `MCHostKey` | symmetry and a view for TLC | extends `HostKey` |
| `PoolProof`, `TunnelProof`, `ControllerProof`, `HostKeyProof`, `StatsProof`, `SecretProof`, `LogProof`, `SettingsProof` | theorems | each extends its module; `PoolProof` extends `ProxyRun`, and so `Pool` |

Definitions carry the names of the source where they can. An operator whose
comment begins with "Mutant of" is not part of the model: it is a plausible bug
in the definition after it, with which TLC finds one of the properties violated.

### How state and actions correspond to the code

**Pool.** An action is one span of code between two points where another task
can be seen: an await, a lock, or an atomic others read. `sup[i]` and
`client[c]` are the await points of `supervise` and `handle_client`. A session
identity is one `Arc<Session>` and is reused once no task holds it. The read
guard that `wait_for` returns and `acquire` keeps until the lease is made keeps
writers out (`SlotsWritable`) and other clients not, so a selection is a span of
its own: `Look` is one `is_live` of the filter, `ReadLoad` one load of
`active_channels`, `Select` the `fetch_add` of `Lease::new`. Sessions may die, and
leases be made and dropped, between any two. `timeout` polls `wait_for` and then
its timer: `PollPending` and `WaitTimeout` are two steps, and a slot may fill up in
between. The receiver count that `wait_for_client` reads is `Receivers`;
an enabled `Notified` is "registered". Time is left out: any timer may fire
whenever the code awaits it, and whether a session was "stable" is free.
`active_channels` is the number of leases, which is what `Lease` keeps it at; a
relaxed load is taken to return the count of its moment. `calm` is history: the
clients during whose selection no lease has changed.
`PoolService` sees of it the usable sessions, who waits, who has which session,
what each has given up on, and what a client has seen (`missed`, `sight`); slots,
supervisors, wake-ups and pings are gone. It promises no more of a choice than the
code can keep: a client is served a session it has seen usable, the least loaded
one if it was `calm`, and refused only if it has seen that none was.

**ProxyRun.** The tasks of `Pool` run as they do there, and may be aborted while
the run is `joining`, but only at an await where they can be suspended
(`SupAwaits`, `ClientAwaits`): a task that is being polled goes on to the next
one. `open` is history: the sessions connected and not yet asked to
disconnect. `ClosePool` is the loop of `Pool::close` over the slots; the
wait for the sessions is `RunEnds`. `result` is the `Result` of the loop.
`Stage` and `Controlled` read a run as `ProxyController` does, which knows of it
only whether it is starting, up, unwinding or over, and what it publishes.

**Tunnel.** A stream is the number of chunks that have passed a point, since both
transports keep bytes in order; the greeting and the request are the first two
chunks the client writes. The two futures of `pump` are `upload` and `download`,
each action one of them from an await to the next. `window` is what russh lets
`data()` send, `unread` what the client's socket holds. What russh or the peers
do is in `Environment`.

**ProxyController.** A handler that saves, stops and starts is one action per
call, tied together by `ui`, since a run may act between the calls. Settings are
a version number and whether `runtime_config` accepts them. Supervisors appear
by what they may publish until all are joined.

**HostKey.** The controller is reduced to its phases; a connection copies
`snapshot`, the settings its run was spawned with. `card` is what the window asks
about, drawn from `stats_snapshot` (`Show`); the prompt may be replaced before it is
answered, and `trust_host_key` acts on the prompt. History keeps the two apart:
`confirmed` has the server and key on the card, `slipped` what was trusted instead.

**StatsFeed.** A write and its notification are two actions; a field behind a
`Mutex` stays locked between them; `snapshot` reads field by field, in any
order. A wake-up consumes one notification.

**SecretStore.** One action per Keychain item and per file replacement, so that
each may fail and the application may end between any two. `save_config` renames
a complete file into place and so is one step. `kept`, `touched`, `chosen`,
`failed`, `unread` and `torn` are history; `torn` has the accounts that a failed
write has left different in the Keychain and in memory.

**LogFile.** One action per system call of the writer and of the viewer. Writers
hold one lock and so are one process. Files are sequences of lines of size one;
`Hole` is what lies between the end of a truncated file and the position of a
writer that does not append.

**SettingsWindow.** An event of the UI thread is a sequence of calls: `todo` holds
those it still has to make, so that a host key prompt of a proxy thread can come
between any two. `deferred` counts the windows `cx.defer` will build after the
event. `source` is the window whose event it is: gpui cannot update a window
within its own update, so `activate_window` fails there. A form is one text:
as `from_config` writes it, with blanks around it, or invalid. Refreshes in a row
that see the same state are one. `turn`, `raced` and `switched` (a prompt took the user
off the logs) are history.

## The runs

| Run | Instance | Shows |
|---|---|---|
| `pool_sharing` | 2 slots, 2 clients, 2 sessions, 2 attempts, symmetry | six invariants of the pool, `PoolService` implemented |
| `pool_live` | 1 slot, 2 clients, 2 sessions, 1 attempt, fairness | asking reconnects, counts converge, no retries on a timer |
| `pool_release` | 1 slot, 2 clients, 2 sessions | finding: a channel left open |
| `proxy_run` | 2 slots, 1 client, 1 session, 1 attempt, fairness | sessions stay tracked, nothing is left behind, a stop ends, a run does what `ProxyController` takes it to (`RunsAsControlled`) |
| `tunnel` | 3 chunks each way, SSH window of 2, socket of 1, every greeting and request, fairness | what is relayed is whole, one verdict, directions do not stall each other |
| `controller` | 2 runs, 3 versions of the settings, fairness | four invariants, `ProxyService` implemented with its liveness |
| `hostkey` | 2 servers, 2 keys, 2 connections, symmetry | a session is accepted only with a key an answer of the user made trusted for its server |
| `stats` | UI thread and 2 workers; a locked, an unlocked and a silent field; 2 values; channel of 2, fairness | nothing lost, the window catches up |
| `secrets` | 2 secrets, with or without an old file | nothing lost unless a write fails; memory and the next launch differ only where one has torn them |
| `secrets_moved` | 2 secrets | finding: secrets lost after a failed migration |
| `log` | files of 2 lines, view of 3, 5 lines, fairness | bounded files and view, nothing skipped, news read |
| `settings` | 2 values, 2 windows, symmetry | closing settles, one window, inputs show the form, prompts are asked, tasks follow |

**Why the bounds are enough to be interesting.** Two of each kind is where
sharing begins: two supervisors publish against each other, two clients compete
for one session or hold two, and a dead session, its successor and a retry
coexist. A client that ends is used again, so runs are not bounded in length.
Two attempts include a retry and giving up. Two run identities would allow the
second run `OneRun` forbids; three versions allow a save while a start with the
previous one is pending (`MaxVersion` bounds the saves). Two servers with two
keys include a changed key, a moved server and both, and with two connections a
prompt that replaces another while its card is shown. A channel of two fills up
with two workers. Two secrets and the empty one include an edit, its undoing and
a removal. A file of two lines with five written rotates twice, and a view of
three loses its oldest (`MaxLines` bounds the lines written).
Three chunks with a window of two and a socket of one fill both and
leave one waiting (`MaxUp`, `MaxDown` bound them). In `proxy_run` one session
and its identity used again is enough for a session to be lost; two supervisors
let one end while the other runs. Two windows would show a second one, two values
let a save differ from an edit (`Windows` bounds those open at once).
Symmetry is used in three runs that check no liveness: invariants and, in
`pool_sharing`, single steps. The view of `pool_sharing` leaves out flags of sessions
nobody holds, which `ConnectOk` resets; that of `hostkey` the settings of connections
and runs that have ended, which `Dial` and a start set anew. The largest runs are
`pool_sharing` (2.0 million states), `hostkey` (1.6), `secrets` (1.4) and
`proxy_run` (0.3). The proofs cover all other sizes, and the
types of every module: no run spends its time on these.

### Fairness

Fairness is stated only for what the code's own scheduling gives.

* Tokio and gpui run ready tasks: weak fairness of a supervisor's, a run's and a
  watcher's steps. `connect` and `disconnect` have timeouts in the code.
* `ClearSlot` has strong fairness: it waits for the write half of a lock other
  tasks hold again and again, and tokio's `watch` uses a lock that does not pass a writer over for ever.
* In `StatsFeed`, the listener, the timer and the mutexes have strong fairness: the executor
  takes ready tasks in turn, so other handlers cannot keep one out for ever.
* In `LogFile`, the writer that holds the lock notifies, system calls return,
  and the task of the view runs.
* In `Tunnel`, the task of `pump` runs and `select!` polls both futures: weak
  fairness of each step of theirs, one at a time. That the client reads or
  that the server opens its window is a hypothesis of the property, for that
  direction alone.
* In `ProxyRun`, `run_proxy` runs; `select!` picks at random among ready branches,
  so failing accepts cannot keep the shutdown out (strong fairness of
  `LoopEnds`); an aborted task is dropped the next time it is suspended
  (strong fairness of the aborts, since it may run in between).
* Nothing is assumed of the user, of clients, of the server, of the network, or of a timeout
  the property does not need.

## What is proved

All theorems hold for any sets and bounds that satisfy the named `ASSUME` of the
module. Each proof is by one inductive invariant: `Init` implies it, every
action preserves it (one lemma per action or group of actions), it implies the properties.
A refinement is proved step by step under that invariant: the initial states map to
initial states, and every action to an action of the abstract module or to none.

| Module | Theorems | Inductive invariant |
|---|---|---|
| `PoolProof` | `TypeCorrect` and all six invariants of `pool_sharing` | the properties with: a slot holds what its supervisor serves (`SlotFollowsSupervisor`), what a client has given up on is dead (`TriedAreDead`), a client that checks on its live session has pinged it or has its answer (`PingPendingOrAnswered`). The first is why a leased session that left its slot must be marked dead; the second why a retry cannot choose it. |
| `PoolProof`, on `PoolService` | `PoolRefinement`: `Spec => IsPoolService` | that of `Pool` with: the attempts of a client count the sessions it has given up on (`TriesCounted`), what a selecting client knows is in the slots (`ScansSlots`, `SeesAll`), and a choice nobody disturbs is the least loaded (`CalmChoice`) |
| `PoolProof`, on `ProxyRun` | `RunTypeCorrect`, both invariants of `proxy_run`, and that a run keeps what the pool promises (`RunKeepsPool`) | for the first three: a session that is open is in a slot, and a slot filled by a live supervisor holds what that supervisor serves; before the bind and after the joins there is no task, and after the close no slot. For the last: the invariant of `Pool` for the slots whose supervisor has not ended |
| `PoolProof`, from `ProxyRun` to `ProxyController` | `RunRefinement`: `RunSpec => RunsAsControlled` | the same, with: what the run returns is not decided before its loop ends (`Undecided`) |
| `TunnelProof` | `TypeCorrect`, and all three invariants of `tunnel` | the properties with: what has been told follows the phase (`Replies`), nothing is relayed before the tunnel (`Fresh`), each count follows the one before it (`Counts`), the upload ends only behind all the client wrote (`UploadEnds`) |
| `ControllerProof` | `TypeCorrect` and all four invariants of `controller`; `Refinement`: `Spec => Abstract!SafeService` | the properties with: a start follows its stop in one handler, the kept sender was not used, a run that ends has a cause, a connection is shown only while a run is left to take it back (`ConnectedIsHeld`), and what the user wants is running or pending (`WantedIsHeld`) |
| `HostKeyProof` | `TypeCorrect`, both invariants of `hostkey`, and that all connections of a run have the same settings (`SettingsTheorem`) | keys in saved and snapshot settings were made trusted by an answer (`SettingsVouched`), every connection uses the snapshot (`UsesSnapshot`), no acceptance without a key (`TrustedHasKey`) |
| `StatsProof` | `TypeCorrect`, `NothingIsLost` | `TypeOK` and `NoLostUpdate` are inductive together |
| `SecretProof` | `TypeCorrect`, all three invariants of `secrets` | while migrating, memory is the file and the Keychain has what is behind (`Migrating`); the Keychain holds the form where a save has been and memory elsewhere (`KeychainFollows`); the form differs only where edited; a save announces what it writes |
| `LogProof` | `TypeCorrect` and all three invariants of `log` | three of its own. Disk: a writer about to write has room, and a log just moved away is empty if it is there (`Fits`). View: while the file is the same, offset and size lie within it and what the offset has passed was shown (`OffsetInv`). Notifications: once a refresh has taken the size, what is written later is announced, although the refresh has yet to read (`Announced`). |
| `SettingsProof` | `TypeCorrect` and all five invariants of `settings` | in the middle of an event, what is not in place yet is still to be done: by a call in `todo`, by a window that is to be built (`deferred`), or by the removal of the one that leaves (`TasksFollowSoon`, `PromptIsAskedSoon`, `LeavingSettles`). `OneWindow` needs that `open_settings` comes first among the calls of an event (`OpenComesFirst`) and that one window is requested at most, and only when there is none (`OneRequest`) |

`PoolProof` uses that the sets of slots and of clients are finite (`PoolAssumption`),
for the counts; a run has so many tasks at a time.
Its invariant has the set of supervised slots as a parameter: all slots in `Pool`
alone, and in a run those whose supervisor has not ended. A supervisor that panics
leaves its session in its slot, and no promise of the pool may depend on it any
more. `RunKeepsPool` states them together (`PoolIsKept`, no property of a run):
the invariants of `Pool` hold in every state of a run, except that the published
count is out of date while the pool is closed, which `NothingLeftBehind` settles,
and that only a supervisor that has not ended needs its wake-up.

That `Pool` implements `PoolService` rests on five parts of the invariant. What a
client may be given it has seen live, so it is not among what it had given up on,
which is dead (`TriedAreDead`, in `ScansSlots`). A client that has found nothing has
yet to look at all that is usable (`SeesAll`), so it is refused only if nothing is;
one that is calm has found what has no more leases than any usable session it has
looked at (`CalmChoice`). When a supervisor empties its slot or disconnects, nobody
is deprived of a usable session, because it is dead already (`SlotFollowsSupervisor`).
And a request is dropped after `Attempts` different sessions, because no two
attempts are on the same one (`RetryElsewhere`, in `TriesCounted`). That a run does
what `ProxyController` takes it to closes the gap between the two levels: what the
controller's theorems assume of a run is what the tasks of `Pool`, aborted anywhere, do.

**Model-checked only.** Liveness (`AskingReconnects`, `ShownCountConverges`,
`NoBusyRetry`, `StopEnds`, `NeitherStallsTheOther`, `WindowCatchesUp`,
`CountersTick`, `NewsIsRead`, the fairness part of `IsService`): fairness involves
ENABLED, which the prover does not handle; it offers no induction over data and
does not reason about RECURSIVE operators (the models use none).

## Findings

1. `pool_release`: when the success reply cannot be written, the opened channel
   is dropped, which russh does not close on the server.
2. `secrets_moved`: when the Keychain refuses a secret of an old config file, the
   next save of any setting removes it from the file; it is then nowhere but in memory.

Seen while modelling and in the models, with no run of their own:

* A client whose session ends between `wait_for` and the selection is refused at
  once (`SelectNone`; `pool.rs:251`), without the wait and the retry of `pool.rs:172-173`.
  So is one whose timer expires after a poll that found nothing, although a
  session has come up since (`WaitTimeout`).
* "New channels go to the least-loaded one" (`pool.rs:82-83`) holds of a selection
  that nobody disturbs. Two clients that select at once can both read a load
  of 0 and lease the same session while another has none, and a session that dies
  after the filter has passed it is leased all the same.
* The key that is trusted is that of the prompt of the moment, which a connection
  may have replaced since its card was drawn (`main.rs:515`): the user answers about
  one key, and another becomes trusted for the saved server (`slipped`).
* Another connection of the pool, with the settings of its run, asks again for the
  key the user has just trusted (`ssh.rs:186`). Nothing takes the prompt back when
  that run ends: only an answer does.
* After a save that fails half-way, typing the old secret again and saving
  reports success, but the other one stays in the Keychain: `save_secrets`
  compares with the settings in memory (`config/mod.rs:256-265`). Such an account
  stays `torn` until a save stores it anew.
* A host key prompt that takes the user off the logs leaves `log_task` running
  until the next refresh: the tab changes after `sync_refresh_tasks`
  (`main.rs:336-340`; `switched`, in `TasksFollow`).
* A log that is rotated and has outgrown the offset by the next refresh is taken
  for the same file; lines written between `metadata` and `read_to_end` are shown
  twice; after a failed rename the log is not opened for appending, so Clear Log
  leaves a gap of NULs before the next line.
* A form saved with blanks around a text stays "unsaved" (`has_unsaved_changes`
  compares untrimmed text), so closing asks although nothing would change
  (`ClosedIsSettled` compares what a save would write).
* A host key prompt noticed while a window is requested and not yet built, or in
  an event of the window itself, opens a second window (`raced`, in `OneWindow`);
  one noticed by the refresh of `resolve_close` raises the window that is about
  to be removed, and the user is asked only when the settings are opened again
  (`"left"`, in `PromptIsAsked`).
* A channel that is lost without an Eof ends `pump` as if the server had finished
  (`RemoteEnds`), and Quit leaves without the question about unsaved changes.

## Not modelled

Modelled in this order, the most shared state first: pool, controller, host keys,
statistics, secrets, log, tunnel with handshake, run, settings window.

* **Tray and presenter**: platform calls and texts; what the menu sends is in
  `SettingsWindow` and `ProxyController`. A check mark that shows the click after
  a failed save is state of AppKit.
* **Views and theme**: rendering, and the search and level filter of the log view,
  which no other part reads.
* **Launch agent** (`set_autostart`): a file and a call to `launchctl`, whose
  effect the source does not describe.
* **Authentication and the SSH protocol**: russh; a connect is one outcome.
* **Updater, platform, icons, file dialogs**: single calls. Build and release
  scripts have no state at run time. Durations, log and message texts are left out.
* **Memory order**: every load of an atomic returns the last value stored.

What is left to do: the composition of `StatsFeed` with `HostKey`, which would show
that a card follows its prompt in the end.
