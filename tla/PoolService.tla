---------------------------- MODULE PoolService ----------------------------
(***************************************************************************)
(* What the pool promises to a SOCKS client.  It waits, and is refused     *)
(* only if it has seen that no session is usable, which may have changed   *)
(* by then.  It is given a session it has seen usable, and not one it has  *)
(* given up on; when no other client took or left a session while it was   *)
(* looking, none that is usable has fewer channels.  A session that fails  *)
(* it fails everybody, and a request that no target is to blame for is     *)
(* dropped only when Attempts sessions have failed it.                     *)
(***************************************************************************)
EXTENDS Naturals, FiniteSets

CONSTANTS
  Clients,     \* those who ask for a channel
  Sessions,    \* identities of sessions
  NoSession,   \* None
  Attempts     \* sessions a request may be tried on

VARIABLES
  usable,      \* the sessions that clients are given
  waiting,     \* clients that wait for one
  lease,       \* the session each client has been given
  opened,      \* clients that have their channel
  gaveUp,      \* sessions each client has given up on, in its request
  missed,      \* waiting clients that have found no session usable
  sight,       \* sessions each client has seen usable and may be given
  calm         \* clients that look while nobody takes or leaves a session

serviceVars == <<usable, waiting, lease, opened, gaveUp, missed, sight, calm>>
lookVars    == <<missed, sight, calm>>

Load(s) == Cardinality({c \in Clients : lease[c] = s})

---------------------------------------------------------------------------
(* Sessions *)

\* A session that nobody has to do with becomes usable.
Up(s) ==
  /\ s \notin usable
  /\ \A c \in Clients : lease[c] # s /\ s \notin gaveUp[c]
  /\ usable' = usable \cup {s}
  /\ UNCHANGED <<waiting, lease, opened, gaveUp, lookVars>>

Down(s) ==
  /\ s \in usable
  /\ usable' = usable \ {s}
  /\ UNCHANGED <<waiting, lease, opened, gaveUp, lookVars>>

---------------------------------------------------------------------------
(* Clients that wait *)

Ask(c) ==
  /\ c \notin waiting /\ lease[c] = NoSession
  /\ waiting' = waiting \cup {c}
  /\ UNCHANGED <<usable, lease, opened, gaveUp, lookVars>>

\* There is nothing to choose from.
Miss(c) ==
  /\ c \in waiting /\ usable = {}
  /\ missed' = missed \cup {c}
  /\ UNCHANGED <<usable, waiting, lease, opened, gaveUp, sight, calm>>

KeepWaiting(c) ==
  /\ c \in missed
  /\ missed' = missed \ {c}
  /\ UNCHANGED <<usable, waiting, lease, opened, gaveUp, sight, calm>>

\* There is something to choose from.
Begin(c) ==
  /\ c \in waiting \ missed /\ usable # {}
  /\ calm' = calm \cup {c}
  /\ UNCHANGED <<usable, waiting, lease, opened, gaveUp, missed, sight>>

\* The choice is made among sessions seen at different moments.
See(c) ==
  /\ c \in waiting \ missed
  /\ \E seen \in SUBSET (sight[c] \cup usable) : sight' = [sight EXCEPT ![c] = seen]
  /\ UNCHANGED <<usable, waiting, lease, opened, gaveUp, missed, calm>>

Serve(c, s) ==
  /\ c \in waiting \ missed
  /\ s \in sight[c] \ gaveUp[c]
  /\ c \in calm => \A t \in usable : Load(s) <= Load(t)
  /\ waiting' = waiting \ {c}
  /\ lease' = [lease EXCEPT ![c] = s]
  /\ sight' = [sight EXCEPT ![c] = {}]
  /\ calm' = {}
  /\ UNCHANGED <<usable, opened, gaveUp, missed>>

Refuse(c) ==
  /\ c \in waiting
  /\ c \in missed \/ usable = {}
  /\ waiting' = waiting \ {c}
  /\ missed' = missed \ {c}
  /\ calm' = calm \ {c}
  /\ gaveUp' = [gaveUp EXCEPT ![c] = {}]
  /\ UNCHANGED <<usable, lease, opened, sight>>

---------------------------------------------------------------------------
(* Clients that have been given a session *)

\* The session opens the channel.
Open(c) ==
  /\ lease[c] # NoSession /\ c \notin opened
  /\ opened' = opened \cup {c}
  /\ UNCHANGED <<usable, waiting, lease, gaveUp, lookVars>>

\* The session fails the client, and from now on nobody is given it.
Retry(c) ==
  /\ lease[c] # NoSession /\ c \notin opened
  /\ Cardinality(gaveUp[c]) + 1 < Attempts
  /\ usable' = usable \ {lease[c]}
  /\ waiting' = waiting \cup {c}
  /\ gaveUp' = [gaveUp EXCEPT ![c] = @ \cup {lease[c]}]
  /\ lease' = [lease EXCEPT ![c] = NoSession]
  /\ calm' = {}
  /\ UNCHANGED <<opened, missed, sight>>

Leave(c) ==
  /\ lease[c] # NoSession
  /\ lease' = [lease EXCEPT ![c] = NoSession]
  /\ gaveUp' = [gaveUp EXCEPT ![c] = {}]
  /\ calm' = {}
  /\ UNCHANGED <<waiting, missed, sight>>

\* The last session the request was to be tried on fails it, too.
Exhaust(c) ==
  /\ Leave(c)
  /\ c \notin opened
  /\ Cardinality(gaveUp[c]) + 1 = Attempts
  /\ usable' = usable \ {lease[c]}
  /\ UNCHANGED opened

\* The target is to blame: the session is kept.
TargetFails(c) ==
  /\ Leave(c)
  /\ c \notin opened
  /\ UNCHANGED <<usable, opened>>

\* The client is done with its channel, or the session has failed it.
Finish(c) ==
  /\ Leave(c)
  /\ c \in opened
  /\ usable' \in {usable, usable \ {lease[c]}}
  /\ opened' = opened \ {c}

---------------------------------------------------------------------------
Init ==
  /\ usable = {} /\ waiting = {} /\ opened = {} /\ missed = {} /\ calm = {}
  /\ lease = [c \in Clients |-> NoSession]
  /\ gaveUp = [c \in Clients |-> {}]
  /\ sight = [c \in Clients |-> {}]

Request(c) ==
  \/ Ask(c)
  \/ Miss(c)
  \/ KeepWaiting(c)
  \/ Begin(c)
  \/ See(c)
  \/ \E s \in Sessions : Serve(c, s)
  \/ Refuse(c)
  \/ Open(c)
  \/ Retry(c)
  \/ Exhaust(c)
  \/ TargetFails(c)
  \/ Finish(c)

Next ==
  \/ \E s \in Sessions : Up(s) \/ Down(s)
  \/ \E c \in Clients : Request(c)

SafeService == Init /\ [][Next]_serviceVars
=============================================================================
