------------------------------- MODULE Pool -------------------------------
(***************************************************************************)
(* The pool of SSH sessions shared by all SOCKS clients of one proxy run   *)
(* (src/proxy/pool.rs), with the part of a client's life that uses it      *)
(* (handle_client in src/proxy/mod.rs).                                    *)
(*                                                                         *)
(* One supervisor task per slot keeps a session connected while clients    *)
(* need it; one task per SOCKS client opens a channel on a live session.   *)
(* The tasks run on two worker threads, so every action below is one span  *)
(* of code between two points where another task can be seen: an await, a  *)
(* lock, or an atomic that another task reads.                             *)
(*                                                                         *)
(* Time is left out.  A timer may fire whenever the code awaits it, and    *)
(* whether a lost session was "stable" is a free choice.  A session        *)
(* identity stands for one Arc<Session>; it is reused once no task holds   *)
(* it.  Session::active_channels is not a variable: Lease adds one when    *)
(* made and takes one away when dropped, so the count of a session is the  *)
(* number of leases on it.  A client that selects a session reads these    *)
(* counts one after the other, under a guard that other clients share; a   *)
(* relaxed load is taken to return the count of the moment it is made.     *)
(***************************************************************************)
EXTENDS Naturals, FiniteSets

CONSTANTS
  Slots,       \* indices of the slots, one supervisor each (pool_size)
  Clients,     \* SOCKS client tasks; an identity is reused once it ended
  Sessions,    \* identities of SSH sessions
  NoSession,   \* None
  Attempts     \* CHANNEL_OPEN_ATTEMPTS

ASSUME PoolAssumption ==
  /\ IsFiniteSet(Slots) /\ IsFiniteSet(Clients)
  /\ Attempts \in Nat \ {0}
  /\ NoSession \notin Sessions

VARIABLES
  slots,         \* the watched vector: slot -> session or NoSession
  dead,          \* Session::dead
  closed,        \* the session's russh task has ended (Handle::is_closed)
  permit,        \* Session::kill holds a notification not yet consumed
  sup,           \* where each supervisor is
  held,          \* the supervisor's own Arc of the session it serves
  woken,         \* supervisors whose registered wake-up has been notified
  client,        \* where each client task is
  lease,         \* the session a client holds a Lease on
  attempt,       \* the iteration of open_channel's loop
  tried,         \* history: sessions this client has given up on
  pinged,        \* sessions whose ping the client still waits for
  answered,      \* the client's own session has answered its ping
  unread,        \* sessions a selecting client has still to look at
  looking,       \* the one it has found live and whose load it reads next
  best,          \* the least loaded one it has read so far
  bestLoad,      \* and the load it has read
  calm,          \* history: clients during whose selection no lease has changed
  shown,         \* the live count last published to ProxyStats, 0 when none
  connectError   \* ProxyStats shows the error of a failed connect

supVars     == <<sup, held, woken>>
scanVars    == <<unread, looking, best, bestLoad>>
clientVars  == <<client, lease, attempt, tried, pinged, answered, scanVars, calm>>
sessionVars == <<dead, closed, permit>>
statsVars   == <<shown, connectError>>
vars == <<slots, supVars, clientVars, sessionVars, statsVars>>

SupervisorStates ==
  {"connecting", "serving", "clearing", "disconnecting",
   "registered", "parked", "pausing"}

\* Clients in these states are inside acquire and hold a receiver of slots.
Acquiring == {"asking", "waking", "waiting", "timing", "selecting"}

\* Clients in these states hold a lease.
Leasing == {"opening", "pinging", "awaiting", "replying", "tunnel", "closing"}

ClientStates == {"idle"} \cup Acquiring \cup Leasing

---------------------------------------------------------------------------
(* Sessions and slots *)

\* Session::is_live
IsLive(s) == ~dead[s] /\ ~closed[s]

\* The slots that hold a live session.
LiveSlots == {i \in Slots : slots[i] # NoSession /\ IsLive(slots[i])}

AnyLive == LiveSlots # {}

\* Session::active_channels
Load(s) == Cardinality({c \in Clients : lease[c] = s})

\* No task holds an Arc of s, nor remembers it as tried: the identity may stand
\* for a new session.
Unused(s) ==
  /\ \A i \in Slots : slots[i] # s /\ held[i] # s
  /\ \A c \in Clients : lease[c] # s /\ s \notin tried[c] /\ s \notin pinged[c]

\* Mutant of Kill: the supervisor is not told.
KillSilently(s) ==
  /\ dead' = [dead EXCEPT ![s] = TRUE]
  /\ UNCHANGED permit

\* Session::kill: only the first kill leaves a notification.
Kill(s) ==
  /\ dead' = [dead EXCEPT ![s] = TRUE]
  /\ permit' = [permit EXCEPT ![s] = @ \/ ~dead[s]]

\* Nobody holds the read guard of slots, which acquire keeps from the moment
\* wait_for is satisfied until the lease is made.
SlotsWritable == \A c \in Clients : client[c] # "selecting"

\* Mutant of SetSlot: the count is taken before the slot is stored.
SetSlotStaleCount(i, s) ==
  /\ SlotsWritable
  /\ slots' = [slots EXCEPT ![i] = s]
  /\ shown' = Cardinality(LiveSlots)
  /\ connectError' = (connectError /\ LiveSlots' = {})

\* Pool::set_slot: the count is taken and published under the slots lock.
SetSlot(i, s) ==
  /\ SlotsWritable
  /\ slots' = [slots EXCEPT ![i] = s]
  /\ shown' = Cardinality(LiveSlots')
  /\ connectError' = (connectError /\ LiveSlots' = {})

---------------------------------------------------------------------------
(* Supervisors: Pool::supervise and Pool::wait_for_client *)

SupStep(i, from, to) ==
  /\ sup[i] = from
  /\ sup' = [sup EXCEPT ![i] = to]

\* connect() returned a session: store it, with no await in between.
ConnectOk(i, s) ==
  /\ SupStep(i, "connecting", "serving")
  /\ Unused(s)
  /\ held' = [held EXCEPT ![i] = s]
  /\ dead' = [dead EXCEPT ![s] = FALSE]
  /\ closed' = [closed EXCEPT ![s] = FALSE]
  /\ permit' = [permit EXCEPT ![s] = FALSE]
  /\ SetSlot(i, s)
  /\ UNCHANGED <<woken, clientVars>>

\* Mutant of ConnectErr: the error is shown whatever the other slots hold.
ConnectErrAlwaysShown(i) ==
  /\ SupStep(i, "connecting", "registered")
  /\ connectError' = TRUE
  /\ woken' = woken \ {i}
  /\ UNCHANGED <<slots, held, clientVars, sessionVars, shown>>

\* connect() failed or timed out: report_connect_error looks at the slots
\* and publishes under their read guard.
ConnectErr(i) ==
  /\ SupStep(i, "connecting", "registered")
  /\ connectError' = (connectError \/ ~AnyLive)
  /\ woken' = woken \ {i}
  /\ UNCHANGED <<slots, held, clientVars, sessionVars, shown>>

\* Mutant of SessionLost: the slot is emptied before the session is marked dead.
SessionLostUnmarked(i) ==
  /\ SupStep(i, "serving", "clearing")
  /\ closed[held[i]] \/ permit[held[i]]
  /\ UNCHANGED <<slots, held, woken, clientVars, sessionVars, statsVars>>

\* The select! over `closed` and `kill.notified()` completes.
SessionLost(i) ==
  /\ SupStep(i, "serving", "clearing")
  /\ closed[held[i]] \/ permit[held[i]]
  /\ dead' = [dead EXCEPT ![held[i]] = TRUE]
  /\ UNCHANGED <<slots, held, woken, clientVars, closed, permit, statsVars>>

\* Mutant of ClearSlot: the session is replaced without a disconnect.
ClearSlotForgets(i) ==
  /\ SupStep(i, "clearing", "registered")
  /\ held' = [held EXCEPT ![i] = NoSession]
  /\ UNCHANGED <<woken, clientVars, sessionVars>>
  /\ SetSlot(i, NoSession)

\* set_slot(index, None)
ClearSlot(i) ==
  /\ SupStep(i, "clearing", "disconnecting")
  /\ UNCHANGED <<held, woken, clientVars, sessionVars>>
  /\ SetSlot(i, NoSession)

\* disconnect() has ended the session's task, or has timed out on a connection
\* that no longer moves.  A stable session reconnects at once; otherwise the
\* supervisor registers for a wake-up (Notified::enable) and drops its Arc.
Disconnected(i) ==
  /\ \E to \in {"connecting", "registered"} : SupStep(i, "disconnecting", to)
  /\ \E ended \in BOOLEAN : closed' = [closed EXCEPT ![held[i]] = @ \/ ended]
  /\ held' = [held EXCEPT ![i] = NoSession]
  /\ woken' = woken \ {i}
  /\ UNCHANGED <<slots, clientVars, dead, permit, statsVars>>

\* The receivers of slots that Pool::wait_for_client counts.
Receivers == {c \in Clients : client[c] \in Acquiring}

\* Mutant of CountReceivers: clients that already wait are not looked for.
CountReceiversNever(i) ==
  /\ SupStep(i, "registered", "parked")
  /\ UNCHANGED <<slots, held, woken, clientVars, sessionVars, statsVars>>

\* Mutant of CountReceivers: failed attempts are repeated on the timer alone.
CountReceiversTimer(i) ==
  /\ SupStep(i, "registered", "pausing")
  /\ UNCHANGED <<slots, held, woken, clientVars, sessionVars, statsVars>>

\* receiver_count() is read after registering.
CountReceivers(i) ==
  /\ SupStep(i, "registered", IF Receivers = {} THEN "parked" ELSE "pausing")
  /\ UNCHANGED <<slots, held, woken, clientVars, sessionVars, statsVars>>

\* wake.await completes.
Woken(i) ==
  /\ i \in woken
  /\ SupStep(i, "parked", "pausing")
  /\ UNCHANGED <<slots, held, woken, clientVars, sessionVars, statsVars>>

\* The rest of RECONNECT_MIN_INTERVAL has passed.
IntervalPassed(i) ==
  /\ SupStep(i, "pausing", "connecting")
  /\ UNCHANGED <<slots, held, woken, clientVars, sessionVars, statsVars>>

---------------------------------------------------------------------------
(* Clients inside Pool::acquire *)

ClientStep(c, from, to) ==
  /\ client[c] \in from
  /\ client' = [client EXCEPT ![c] = to]

\* A client was accepted and has sent its request: open_channel starts, and
\* acquire subscribes to slots.
Accept(c) ==
  /\ ClientStep(c, {"idle"}, "asking")
  /\ attempt' = [attempt EXCEPT ![c] = 1]
  /\ UNCHANGED <<slots, supVars, lease, tried, pinged, answered, scanVars, calm, sessionVars, statsVars>>

\* acquire looks for a slot whose supervisor may be asleep.
CheckSlots(c) ==
  /\ ClientStep(c, {"asking"}, IF LiveSlots = Slots THEN "waiting" ELSE "waking")
  /\ UNCHANGED <<slots, supVars, lease, attempt, tried, pinged, answered, scanVars, calm, sessionVars, statsVars>>

\* Mutant of NotifyWaiters: notify_one() in its place.
NotifyOne(c) ==
  /\ ClientStep(c, {"waking"}, "waiting")
  /\ LET asleep == {i \in Slots : sup[i] \in {"registered", "parked"}}
     IN  IF asleep = {} THEN UNCHANGED woken
         ELSE \E i \in asleep : woken' = woken \cup {i}
  /\ UNCHANGED <<slots, sup, held, lease, attempt, tried, pinged, answered, scanVars, calm, sessionVars, statsVars>>

\* wake.notify_waiters(): every wake-up registered by now completes.
NotifyWaiters(c) ==
  /\ ClientStep(c, {"waking"}, "waiting")
  /\ woken' = woken \cup {i \in Slots : sup[i] \in {"registered", "parked"}}
  /\ UNCHANGED <<slots, sup, held, lease, attempt, tried, pinged, answered, scanVars, calm, sessionVars, statsVars>>

\* A poll of wait_for finds no live session; the timer around it comes next.
PollPending(c) ==
  /\ ~AnyLive
  /\ ClientStep(c, {"waiting"}, "timing")
  /\ UNCHANGED <<slots, supVars, lease, attempt, tried, pinged, answered, scanVars, calm, sessionVars, statsVars>>

\* The timer has not expired: the task sleeps until a slot or the timer wakes it.
TimerPending(c) ==
  /\ ClientStep(c, {"timing"}, "waiting")
  /\ UNCHANGED <<slots, supVars, lease, attempt, tried, pinged, answered, scanVars, calm, sessionVars, statsVars>>

\* SESSION_WAIT_TIMEOUT: nobody asks again what the slots hold by now.
WaitTimeout(c) ==
  /\ ClientStep(c, {"timing"}, "idle")
  /\ tried' = [tried EXCEPT ![c] = {}]
  /\ UNCHANGED <<slots, supVars, lease, attempt, pinged, answered, scanVars, calm, sessionVars, statsVars>>

\* wait_for found a live session and keeps the read guard, which other clients
\* may share: what the slots hold stays as it is.
SessionReady(c) ==
  /\ AnyLive
  /\ ClientStep(c, {"waiting"}, "selecting")
  /\ unread' = [unread EXCEPT ![c] = {slots[i] : i \in Slots} \ {NoSession}]
  /\ calm' = calm \cup {c}
  /\ UNCHANGED <<slots, supVars, lease, attempt, tried, pinged, answered, looking, best, bestLoad, sessionVars, statsVars>>

\* The filter looks at the next session.
Look(c, s) ==
  /\ client[c] = "selecting" /\ looking[c] = NoSession
  /\ s \in unread[c]
  /\ unread' = [unread EXCEPT ![c] = @ \ {s}]
  /\ looking' = [looking EXCEPT ![c] = IF IsLive(s) THEN s ELSE NoSession]
  /\ UNCHANGED <<slots, supVars, client, lease, attempt, tried, pinged, answered, best, bestLoad, calm, sessionVars, statsVars>>

\* Mutant of ReadLoad: the session read last wins, whatever its load.
ReadLoadLast(c) ==
  /\ client[c] = "selecting" /\ looking[c] # NoSession
  /\ best' = [best EXCEPT ![c] = looking[c]]
  /\ bestLoad' = [bestLoad EXCEPT ![c] = Load(looking[c])]
  /\ looking' = [looking EXCEPT ![c] = NoSession]
  /\ UNCHANGED <<slots, supVars, client, lease, attempt, tried, pinged, answered, unread, calm, sessionVars, statsVars>>

\* min_by_key loads active_channels and keeps the lesser.
ReadLoad(c) ==
  /\ client[c] = "selecting" /\ looking[c] # NoSession
  /\ IF best[c] = NoSession \/ Load(looking[c]) < bestLoad[c]
     THEN /\ best' = [best EXCEPT ![c] = looking[c]]
          /\ bestLoad' = [bestLoad EXCEPT ![c] = Load(looking[c])]
     ELSE UNCHANGED <<best, bestLoad>>
  /\ looking' = [looking EXCEPT ![c] = NoSession]
  /\ UNCHANGED <<slots, supVars, client, lease, attempt, tried, pinged, answered, unread, calm, sessionVars, statsVars>>

\* All sessions have been looked at.
ScanOver(c) == unread[c] = {} /\ looking[c] = NoSession

\* Lease::new adds to the load of the session that was found, whatever became
\* of it since, and the guard is dropped.
Select(c) ==
  /\ ClientStep(c, {"selecting"}, "opening")
  /\ ScanOver(c) /\ best[c] # NoSession
  /\ lease' = [lease EXCEPT ![c] = best[c]]
  /\ best' = [best EXCEPT ![c] = NoSession]
  /\ bestLoad' = [bestLoad EXCEPT ![c] = 0]
  /\ calm' = {}
  /\ UNCHANGED <<slots, supVars, attempt, tried, pinged, answered, unread, looking, sessionVars, statsVars>>

\* Every session that satisfied wait_for died before it was looked at.
SelectNone(c) ==
  /\ ClientStep(c, {"selecting"}, "idle")
  /\ ScanOver(c) /\ best[c] = NoSession
  /\ tried' = [tried EXCEPT ![c] = {}]
  /\ calm' = calm \ {c}
  /\ UNCHANGED <<slots, supVars, lease, attempt, pinged, answered, scanVars, sessionVars, statsVars>>

---------------------------------------------------------------------------
(* Clients inside Pool::open_channel and Pool::open_on *)

DropLease(c) ==
  /\ lease' = [lease EXCEPT ![c] = NoSession]
  /\ calm' = {}

\* States in which the answer to the channel open is awaited.
AwaitingOpen == {"opening", "pinging", "awaiting"}

\* Leaving open_on drops check_sessions with the pings still out.
DropPings(c) ==
  /\ pinged' = [pinged EXCEPT ![c] = {}]
  /\ answered' = [answered EXCEPT ![c] = FALSE]

\* The client's task ends, after its last reply if it failed: its lease and what
\* it remembers are dropped.
TaskEnds(c, from) ==
  /\ ClientStep(c, from, "idle")
  /\ DropLease(c)
  /\ tried' = [tried EXCEPT ![c] = {}]
  /\ DropPings(c)
  /\ UNCHANGED <<slots, supVars, attempt, scanVars, closed, statsVars>>

\* The server confirmed the channel.
OpenOk(c) ==
  /\ ClientStep(c, AwaitingOpen, "replying")
  /\ ~closed[lease[c]]
  /\ DropPings(c)
  /\ UNCHANGED <<slots, supVars, lease, attempt, tried, scanVars, calm, sessionVars, statsVars>>

\* ChannelOpenFailure: the target is to blame, the session is kept.
OpenTargetErr(c) ==
  /\ TaskEnds(c, AwaitingOpen)
  /\ ~closed[lease[c]]
  /\ UNCHANGED <<dead, permit>>

\* What open_channel does after a failed session, but for the kill itself.
RetryOrGiveUp(c, from, more) ==
  IF more
  THEN /\ ClientStep(c, from, "asking")
       /\ attempt' = [attempt EXCEPT ![c] = @ + 1]
       /\ tried' = [tried EXCEPT ![c] = @ \cup {lease[c]}]
       /\ DropLease(c)
       /\ DropPings(c)
       /\ UNCHANGED <<slots, supVars, scanVars, closed, statsVars>>
  ELSE TaskEnds(c, from)

\* Mutant of SessionFailed: the failed session is not killed.
SessionFailedKept(c, from) ==
  /\ RetryOrGiveUp(c, from, attempt[c] < Attempts)
  /\ UNCHANGED <<dead, permit>>

\* ChannelAttemptError::Session: kill the session, drop the lease and go
\* round the loop again while attempts are left.
SessionFailed(c, from) ==
  /\ RetryOrGiveUp(c, from, attempt[c] < Attempts)
  /\ Kill(lease[c])

\* Any other error of the pending open is taken for the session's, and
\* classify_channel_open does not ask whether the session's task has ended.
OpenSessionErr(c) ==
  /\ client[c] \in AwaitingOpen
  /\ SessionFailed(c, AwaitingOpen)

\* CHANNEL_OPEN_RESPONSE_TIMEOUT: check_sessions pings all live sessions.
Stall(c) ==
  /\ ClientStep(c, {"opening"}, "pinging")
  /\ pinged' = [pinged EXCEPT ![c] = {slots[i] : i \in LiveSlots}]
  /\ UNCHANGED <<slots, supVars, lease, attempt, tried, answered, scanVars, calm, sessionVars, statsVars>>

\* A ping is answered in time.
PingAnswered(c, s) ==
  /\ client[c] = "pinging" /\ s \in pinged[c]
  /\ ~closed[s]
  /\ pinged' = [pinged EXCEPT ![c] = @ \ {s}]
  /\ answered' = [answered EXCEPT ![c] = @ \/ s = lease[c]]
  /\ UNCHANGED <<slots, supVars, client, lease, attempt, tried, scanVars, calm, sessionVars, statsVars>>

\* A ping fails or SSH_PING_TIMEOUT passes.
PingFailed(c, s) ==
  /\ client[c] = "pinging" /\ s \in pinged[c]
  /\ pinged' = [pinged EXCEPT ![c] = @ \ {s}]
  /\ Kill(s)
  /\ UNCHANGED <<slots, supVars, client, lease, attempt, tried, answered, scanVars, calm, closed, statsVars>>

\* Mutant of CheckedLive: the end of the pings is taken for an answer.
CheckedAnyway(c) ==
  /\ ClientStep(c, {"pinging"}, "awaiting")
  /\ pinged[c] = {}
  /\ UNCHANGED <<slots, supVars, lease, attempt, tried, pinged, answered, scanVars, calm, sessionVars, statsVars>>

\* All pings are in and the session is live: wait for the open without limit.
CheckedLive(c) ==
  /\ ClientStep(c, {"pinging"}, "awaiting")
  /\ pinged[c] = {}
  /\ IsLive(lease[c])
  /\ UNCHANGED <<slots, supVars, lease, attempt, tried, pinged, answered, scanVars, calm, sessionVars, statsVars>>

\* All pings are in and the session is gone.
CheckedDead(c) ==
  /\ client[c] = "pinging" /\ pinged[c] = {}
  /\ ~IsLive(lease[c])
  /\ SessionFailed(c, {"pinging"})

---------------------------------------------------------------------------
(* The rest of handle_client *)

\* REPLY_SUCCEEDED is written and the tunnel starts.
ReplyOk(c) ==
  /\ ClientStep(c, {"replying"}, "tunnel")
  /\ UNCHANGED <<slots, supVars, lease, attempt, tried, pinged, answered, scanVars, calm, sessionVars, statsVars>>

\* The local client is gone: `?` returns and the channel is dropped unclosed.
ReplyErr(c) ==
  /\ TaskEnds(c, {"replying"})
  /\ UNCHANGED <<dead, permit>>

\* Both directions of pump are done, or one of them failed.
TunnelEnds(c) ==
  /\ ClientStep(c, {"tunnel"}, "closing")
  /\ UNCHANGED <<slots, supVars, lease, attempt, tried, pinged, answered, scanVars, calm, sessionVars, statsVars>>

\* pump has closed the channel and returned, with a local error or none.
TunnelClosed(c) ==
  /\ TaskEnds(c, {"closing"})
  /\ UNCHANGED <<dead, permit>>

\* pump has closed the channel and returned an SSH error, whatever russh means
\* by it: the session is killed.
TunnelSshErr(c) ==
  /\ client[c] = "closing"
  /\ Kill(lease[c])
  /\ TaskEnds(c, {"closing"})

---------------------------------------------------------------------------
(* The network and the SSH server *)

\* A session that is in use ends: the peer, the network or a missed keepalive.
SessionCloses(s) ==
  /\ ~closed[s] /\ ~Unused(s)
  /\ closed' = [closed EXCEPT ![s] = TRUE]
  /\ UNCHANGED <<slots, supVars, clientVars, dead, permit, statsVars>>

---------------------------------------------------------------------------
Init ==
  /\ slots = [i \in Slots |-> NoSession]
  /\ dead = [s \in Sessions |-> FALSE]
  /\ closed = [s \in Sessions |-> FALSE]
  /\ permit = [s \in Sessions |-> FALSE]
  /\ sup = [i \in Slots |-> "connecting"]
  /\ held = [i \in Slots |-> NoSession]
  /\ woken = {}
  /\ client = [c \in Clients |-> "idle"]
  /\ lease = [c \in Clients |-> NoSession]
  /\ attempt = [c \in Clients |-> 1]
  /\ tried = [c \in Clients |-> {}]
  /\ pinged = [c \in Clients |-> {}]
  /\ answered = [c \in Clients |-> FALSE]
  /\ unread = [c \in Clients |-> {}]
  /\ looking = [c \in Clients |-> NoSession]
  /\ best = [c \in Clients |-> NoSession]
  /\ bestLoad = [c \in Clients |-> 0]
  /\ calm = {}
  /\ shown = 0
  /\ connectError = FALSE

Supervise(i) ==
  \/ \E s \in Sessions : ConnectOk(i, s)
  \/ ConnectErr(i)
  \/ SessionLost(i)
  \/ ClearSlot(i)
  \/ Disconnected(i)
  \/ CountReceivers(i)
  \/ Woken(i)
  \/ IntervalPassed(i)

Acquire(c) ==
  \/ CheckSlots(c)
  \/ NotifyWaiters(c)
  \/ PollPending(c)
  \/ TimerPending(c)
  \/ WaitTimeout(c)
  \/ SessionReady(c)
  \/ \E s \in Sessions : Look(c, s)
  \/ ReadLoad(c)
  \/ Select(c)
  \/ SelectNone(c)

OpenChannel(c) ==
  \/ OpenOk(c)
  \/ OpenTargetErr(c)
  \/ OpenSessionErr(c)
  \/ Stall(c)
  \/ \E s \in Sessions : PingAnswered(c, s) \/ PingFailed(c, s)
  \/ CheckedLive(c)
  \/ CheckedDead(c)

HandleClient(c) ==
  \/ Accept(c)
  \/ Acquire(c)
  \/ OpenChannel(c)
  \/ ReplyOk(c)
  \/ ReplyErr(c)
  \/ TunnelEnds(c)
  \/ TunnelClosed(c)
  \/ TunnelSshErr(c)

Next ==
  \/ \E i \in Slots : Supervise(i)
  \/ \E c \in Clients : HandleClient(c)
  \/ \E s \in Sessions : SessionCloses(s)

Spec == Init /\ [][Next]_vars

(***************************************************************************)
(* Fairness.  A supervisor that can take a step takes one: its tasks run   *)
(* on the runtime, connect() is bounded by SSH_CONNECT_TIMEOUT and         *)
(* disconnect() by SSH_DISCONNECT_TIMEOUT.  A client inside acquire also   *)
(* runs until it waits; nothing is assumed of its timeout, of the server   *)
(* or of the network.  ClearSlot needs strong fairness only against        *)
(* clients that hold the read guard again and again; the lock is fair.     *)
(***************************************************************************)
Fairness ==
  /\ \A i \in Slots :
       /\ WF_vars(\/ \E s \in Sessions : ConnectOk(i, s)
                  \/ ConnectErr(i))
       /\ WF_vars(SessionLost(i))
       /\ SF_vars(ClearSlot(i))
       /\ WF_vars(Disconnected(i))
       /\ WF_vars(CountReceivers(i))
       /\ WF_vars(Woken(i))
       /\ WF_vars(IntervalPassed(i))
  /\ \A c \in Clients :
       /\ WF_vars(CheckSlots(c))
       /\ WF_vars(NotifyWaiters(c))
       /\ WF_vars(TimerPending(c) \/ WaitTimeout(c))
       /\ WF_vars(client[c] = "selecting" /\ Acquire(c))

FairSpec == Spec /\ Fairness

---------------------------------------------------------------------------
(* Properties *)

\* Every variable keeps its type; a lease is held exactly while a client is
\* between acquire and the end of its tunnel.
TypeOK ==
  /\ slots \in [Slots -> Sessions \cup {NoSession}]
  /\ dead \in [Sessions -> BOOLEAN]
  /\ closed \in [Sessions -> BOOLEAN]
  /\ permit \in [Sessions -> BOOLEAN]
  /\ sup \in [Slots -> SupervisorStates]
  /\ held \in [Slots -> Sessions \cup {NoSession}]
  /\ woken \in SUBSET Slots
  /\ client \in [Clients -> ClientStates]
  /\ lease \in [Clients -> Sessions \cup {NoSession}]
  /\ attempt \in [Clients -> 1..Attempts]
  /\ tried \in [Clients -> SUBSET Sessions]
  /\ pinged \in [Clients -> SUBSET Sessions]
  /\ answered \in [Clients -> BOOLEAN]
  /\ unread \in [Clients -> SUBSET Sessions]
  /\ looking \in [Clients -> Sessions \cup {NoSession}]
  /\ best \in [Clients -> Sessions \cup {NoSession}]
  /\ bestLoad \in [Clients -> Nat]
  /\ calm \in SUBSET Clients
  /\ shown \in Nat
  /\ connectError \in BOOLEAN
  /\ \A c \in Clients : lease[c] # NoSession <=> client[c] \in Leasing

\* Once a client has finished asking and waits for a session, no supervisor is
\* asleep without a wake-up on its way: enabling the wake-up before counting
\* the receivers, and subscribing before looking at the slots, closes the gap
\* between the two (wait_for_client and acquire).
NoLostWakeup ==
  \A i \in Slots, c \in Clients :
    sup[i] = "parked" /\ client[c] \in {"waiting", "timing", "selecting"} => i \in woken

\* A session that a client uses and nobody has killed is still in its slot, so
\* check_sessions can reach it whichever client stalls (set_slot(None) comes
\* after the dead flag).
UsableIsInSlot ==
  \A c \in Clients :
    lease[c] # NoSession /\ ~dead[lease[c]] => \E i \in Slots : slots[i] = lease[c]

\* A client that goes on waiting for its channel without a limit does so
\* because its own session has answered a ping: a session that was dropped
\* from the slots in between does not count as having answered (open_on).
PatienceIsEarned ==
  \A c \in Clients : client[c] = "awaiting" => answered[c]

\* A retry never lands on a session this client has already found dead, even
\* while that session is still in its slot (open_channel's loop and kill).
RetryElsewhere ==
  \A c \in Clients : lease[c] \notin tried[c]

OccupiedSlots == {i \in Slots : slots[i] # NoSession}

\* The published count never hides a live session and never counts more than
\* the slots hold, whatever order supervisors report in (set_slot).
ShownCountIsSane ==
  /\ Cardinality(LiveSlots) <= shown
  /\ shown <= Cardinality(OccupiedSlots)

\* A connect error is shown only while no session serves clients: a failure
\* that races with another slot's success cannot leave its error behind
\* (report_connect_error and set_slot share the slots lock).
ErrorMeansDown == connectError => ~AnyLive

\* A client that asked while a supervisor was between attempts makes it try
\* again, unless the client stops waiting first (wait_for_client).
AskingReconnects ==
  \A i \in Slots, c \in Clients :
    (client[c] \in {"waiting", "timing"} /\ sup[i] # "serving")
      ~> (sup[i] = "connecting" \/ client[c] \notin {"waiting", "timing"})

\* A count that has become wrong is put right: whoever kills a session leaves a
\* notification its supervisor cannot miss.
ShownCountConverges ==
  (shown # Cardinality(LiveSlots)) ~> (shown = Cardinality(LiveSlots))

\* No retries on a timer: a supervisor fails to connect again and again only
\* while clients keep asking (the comment on the Err branch of supervise).
NoBusyRetry ==
  \A i \in Slots :
    ([]<><<ConnectErr(i)>>_vars) => ([]<>(Receivers # {}))

\* "russh does not close channels on drop; release it on the server too": a task
\* that got a channel ends only after closing it, unless the session is gone.
ChannelsReleased ==
  [][\A c \in Clients :
       client[c] \in {"replying", "tunnel"} /\ client'[c] = "idle" => closed[lease[c]]]_vars

\* Clients in these states have their channel.
HasChannel == {"replying", "tunnel", "closing"}

\* What the clients can tell of the pool and of each other.
Usable  == {slots[i] : i \in LiveSlots}
Waiting == {c \in Clients : client[c] \in Acquiring}
Opened  == {c \in Clients : client[c] \in HasChannel}
Missed  == {c \in Clients : client[c] = "timing"}
Sight   == [c \in Clients |-> {looking[c], best[c]} \ {NoSession}]

Service == INSTANCE PoolService
  WITH usable <- Usable, waiting <- Waiting, opened <- Opened, gaveUp <- tried,
       missed <- Missed, sight <- Sight

\* Supervisors, sessions that come and go and clients that share them keep the
\* promise of PoolService: to wait, to be given a session that was seen usable,
\* and the least loaded one unless another client took or left one meanwhile, to
\* retry on another one, and to fail only for want of sessions or for the
\* target's sake (acquire, open_channel, open_on, kill and set_slot together).
IsPoolService == Service!SafeService
===========================================================================
