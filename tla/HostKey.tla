------------------------------ MODULE HostKey ------------------------------
(***************************************************************************)
(* How a server's host key comes to be trusted: the check that each SSH    *)
(* session makes with its run's snapshot of the settings                   *)
(* (check_server_key in src/proxy/ssh.rs), the prompt it raises            *)
(* (ProxyStats::host_key_prompt), and what the user does about it          *)
(* (src/main.rs, and apply_to_config in src/settings/mod.rs).              *)
(*                                                                         *)
(* The user answers a card drawn from stats_snapshot, and the handler acts *)
(* on the prompt of that moment: it may have been replaced since.  So the  *)
(* history keeps apart what the user confirmed, the server and key on the  *)
(* card, and what slipped in for it.                                       *)
(*                                                                         *)
(* The life of the proxy is that of ProxyService; here a run is its        *)
(* snapshot and its connections.  A server is a host and port.  Aborting a *)
(* supervisor is taken to end its connection attempt.                      *)
(***************************************************************************)

CONSTANTS
  Servers,   \* host and port
  Keys,      \* fingerprints
  NoKey,     \* None, for a fingerprint
  NoPrompt,  \* None, for a prompt
  Conns      \* the pool's connections, one per supervisor

ASSUME HostKeyAssumption ==
  /\ NoKey \notin Keys
  /\ NoPrompt \notin [server : Servers, key : Keys, previous : Keys \cup {NoKey}]
  /\ NoPrompt \notin Servers \X Keys

VARIABLES
  presents,   \* the key each server presents
  saved,      \* the saved settings: the server and the key trusted for it
  phase,      \* ProxyService's phase
  snapshot,   \* the settings the latest run began with
  conn,       \* how far each connection is
  using,      \* the settings each connection was made with
  prompt,     \* ProxyStats::host_key_prompt
  card,       \* the server and key the window asks about
  confirmed,  \* history: servers with the keys the user confirmed for them
  slipped     \* history: those trusted although no card had shown them

runVars == <<phase, snapshot, conn, using>>
history == <<confirmed, slipped>>
vars == <<presents, saved, runVars, prompt, card, history>>

Settings == [server : Servers, key : Keys \cup {NoKey}]

Prompts == [server : Servers, key : Keys, previous : Keys \cup {NoKey}]

---------------------------------------------------------------------------
(* The proxy *)

\* Connector::ssh
RunSettings == snapshot

\* A supervisor connects, until run_proxy has joined it.
Dial(c) ==
  /\ phase # "stopped"
  /\ conn[c] = "none"
  /\ conn' = [conn EXCEPT ![c] = "dialing"]
  /\ using' = [using EXCEPT ![c] = RunSettings]
  /\ UNCHANGED <<presents, saved, phase, snapshot, prompt, card, history>>

\* check_server_key: a key that is not the snapshot's is refused and shown.
CheckKey(c) ==
  /\ conn[c] = "dialing"
  /\ LET server == using[c].server
         offered == presents[server]
     IN  IF using[c].key = offered
         THEN /\ conn' = [conn EXCEPT ![c] = "trusted"]
              /\ UNCHANGED prompt
         ELSE /\ conn' = [conn EXCEPT ![c] = "none"]
              /\ prompt' = [server |-> server, key |-> offered, previous |-> using[c].key]
  /\ UNCHANGED <<presents, saved, phase, snapshot, using, card, history>>

\* A connection fails or is lost.
ConnEnds(c) ==
  /\ conn[c] # "none"
  /\ conn' = [conn EXCEPT ![c] = "none"]
  /\ UNCHANGED <<presents, saved, phase, snapshot, using, prompt, card, history>>

EndConns == conn' = [c \in Conns |-> "none"]

\* The run has ended, its supervisors joined; a pending start follows, unless
\* the settings saved by now cannot be used.
RunGone ==
  /\ phase # "stopped"
  /\ EndConns
  /\ \/ phase = "restarting" /\ phase' = "running" /\ snapshot' = saved
     \/ phase' = "stopped" /\ UNCHANGED snapshot
  /\ UNCHANGED <<presents, saved, using, prompt, card, history>>

---------------------------------------------------------------------------
(* The user *)

Start ==
  /\ \/ phase = "stopped" /\ phase' = "running" /\ snapshot' = saved
     \/ phase = "stopping" /\ phase' = "restarting" /\ UNCHANGED snapshot
  /\ UNCHANGED <<presents, saved, conn, using, prompt, card, history>>

StopTo == IF phase = "stopped" THEN "stopped" ELSE "stopping"

Stop ==
  /\ phase # "stopped"
  /\ phase' = StopTo
  /\ UNCHANGED <<presents, saved, snapshot, conn, using, prompt, card, history>>

\* Stop and start: at once when nothing runs, else when the old run has gone;
\* settings that cannot be used are refused by start.
Restart ==
  \/ phase = "stopped" /\ phase' = "running" /\ snapshot' = saved'
  \/ phase # "stopped" /\ phase' = "restarting" /\ UNCHANGED snapshot
  \/ phase' = StopTo /\ UNCHANGED snapshot

\* Mutant of KeyFor: the key outlives a change of server.
KeyForAny(server) == saved.key

\* apply_to_config: the saved key belongs to the previous server.
KeyFor(server) == IF server = saved.server THEN saved.key ELSE NoKey

\* Save and SaveAndStart
SaveServer(server) ==
  /\ saved' = [server |-> server, key |-> KeyFor(server)]
  /\ Restart \/ UNCHANGED <<phase, snapshot>>
  /\ UNCHANGED <<presents, conn, using, prompt, card, history>>

\* Mutant of SameServer: the prompt is not compared with the settings.
AnyServer == TRUE

\* trust_host_key looks whether the prompt is about the server that is saved.
SameServer == prompt.server = saved.server

\* refresh_stats, and the frame drawn from what it read: the next is drawn when
\* the prompt has been noticed, which any thread may replace meanwhile.
Show ==
  /\ card' = IF prompt = NoPrompt THEN NoPrompt ELSE <<prompt.server, prompt.key>>
  /\ UNCHANGED <<presents, saved, runVars, prompt, history>>

\* TrustHostKey on the card; the save may fail.  What is trusted is the prompt of
\* now.  One raised between its reading and its clearing is lost, as if that
\* connection had failed.
Trust ==
  /\ card # NoPrompt
  /\ prompt # NoPrompt
  /\ prompt' = NoPrompt
  /\ confirmed' = confirmed \cup {card}
  /\ \/ /\ SameServer
        /\ saved' = [saved EXCEPT !.key = prompt.key]
        /\ slipped' = slipped \cup ({<<prompt.server, prompt.key>>} \ confirmed')
        /\ IF phase = "running" THEN Restart ELSE UNCHANGED <<phase, snapshot>>
     \/ UNCHANGED <<saved, slipped, phase, snapshot>>
  /\ UNCHANGED <<presents, conn, using, card>>

\* RejectHostKey on the card, whatever the prompt is by now.
Reject ==
  /\ card # NoPrompt
  /\ prompt' = NoPrompt
  /\ phase' = StopTo
  /\ UNCHANGED <<presents, saved, snapshot, conn, using, card, history>>

\* ForgetHostKey
Forget ==
  /\ saved.key # NoKey
  /\ saved' = [saved EXCEPT !.key = NoKey]
  /\ UNCHANGED <<presents, runVars, prompt, card, history>>

---------------------------------------------------------------------------
\* A server gets another key.
Rekey(server, key) ==
  /\ presents' = [presents EXCEPT ![server] = key]
  /\ UNCHANGED <<saved, runVars, prompt, card, history>>

\* A key saved by an earlier launch is taken to have been confirmed then.
Init ==
  /\ presents \in [Servers -> Keys]
  /\ saved \in Settings
  /\ phase = "stopped"
  /\ snapshot = saved
  /\ conn = [c \in Conns |-> "none"]
  /\ using = [c \in Conns |-> saved]
  /\ prompt = NoPrompt
  /\ card = NoPrompt
  /\ confirmed = IF saved.key = NoKey THEN {} ELSE {<<saved.server, saved.key>>}
  /\ slipped = {}

Connect(c) == Dial(c) \/ CheckKey(c) \/ ConnEnds(c)

Decide == Show \/ Trust \/ Reject \/ Forget

Next ==
  \/ \E c \in Conns : Connect(c)
  \/ RunGone
  \/ Start
  \/ Stop
  \/ \E server \in Servers : SaveServer(server)
  \/ Decide
  \/ \E server \in Servers, key \in Keys : Rekey(server, key)

Spec == Init /\ [][Next]_vars

---------------------------------------------------------------------------
(* Properties *)

\* Every variable keeps its type, and connections live only with their run.
TypeOK ==
  /\ presents \in [Servers -> Keys]
  /\ saved \in Settings
  /\ phase \in {"stopped", "running", "stopping", "restarting"}
  /\ snapshot \in Settings
  /\ conn \in [Conns -> {"none", "dialing", "trusted"}]
  /\ using \in [Conns -> Settings]
  /\ prompt \in Prompts \cup {NoPrompt}
  /\ card \in (Servers \X Keys) \cup {NoPrompt}
  /\ confirmed \in SUBSET (Servers \X Keys)
  /\ slipped \in SUBSET (Servers \X Keys)
  /\ phase = "stopped" => \A c \in Conns : conn[c] = "none"

\* What the user's answers have made trusted.
Trusted == confirmed \cup slipped

\* A session is accepted only from a server with a key that the user's answer has
\* made trusted for that very server, whatever is saved, changed or forgotten
\* while prompts are open and connections are being made ("Unknown or changed
\* keys are refused until the user trusts them", ssh.rs).  The user has seen that
\* key, unless a connection replaced the prompt while its card was on screen:
\* trust_host_key then takes the key of the newer prompt, and that one is in
\* `slipped`.
OnlyTrustedKeys ==
  \A c \in Conns :
    conn[c] = "trusted" => <<using[c].server, using[c].key>> \in Trusted

\* The previous key a prompt names is another key, once trusted for the server it
\* names: the user is never told that the key of one server replaces the key of
\* another (HostKeyPrompt::previous).
PromptKnowsItsPast ==
  prompt # NoPrompt /\ prompt.previous # NoKey =>
    /\ prompt.previous # prompt.key
    /\ <<prompt.server, prompt.previous>> \in Trusted

\* All connections of the pool are made with the same settings, although these
\* may be saved anew while the proxy runs ("so every session in the pool uses
\* the same ones", run_proxy).
SameSettings ==
  \A c, d \in Conns : conn[c] # "none" /\ conn[d] # "none" => using[c] = using[d]
===========================================================================
