---------------------------- MODULE HostKeyProof ----------------------------
(***************************************************************************)
(* Proofs about HostKey, for any number of servers, keys and connections:  *)
(* trust comes from an answer of the user to a prompt about that server,   *)
(* and from nothing else.  That the key is the one the user saw is not     *)
(* claimed: see `slipped` in HostKey.                                      *)
(***************************************************************************)
EXTENDS HostKey, TLAPS

\* Settings that carry a key carry one that an answer made trusted for their
\* server.
Vouched(settings) ==
  settings.key # NoKey => <<settings.server, settings.key>> \in Trusted

\* What is saved, and what a run copied from it, is vouched for.
SettingsVouched == Vouched(saved) /\ Vouched(snapshot)

\* A connection that has not ended was made with the settings of the run.
UsesSnapshot == \A c \in Conns : conn[c] # "none" => using[c] = snapshot

\* No session is accepted without a key in the settings.
TrustedHasKey == \A c \in Conns : conn[c] = "trusted" => using[c].key # NoKey

IInv ==
  /\ TypeOK
  /\ SettingsVouched
  /\ UsesSnapshot
  /\ TrustedHasKey
  /\ PromptKnowsItsPast

\* The application starts with no run, no prompt and what it trusted before.
LEMMA InitInv == Init => IInv
<1> SUFFICES ASSUME Init PROVE IInv
  OBVIOUS
<1>1. TypeOK
  BY DEF Init, TypeOK, Settings
<1>2. SettingsVouched
  BY DEF Init, SettingsVouched, Vouched, Trusted
<1> QED
  BY <1>1, <1>2 DEF Init, IInv, UsesSnapshot, TrustedHasKey, PromptKnowsItsPast

\* What is trusted changes with its history.
LEMMA TrustedStays ==
  ASSUME UNCHANGED history
  PROVE  Trusted' = Trusted
BY DEF history, Trusted

\* While the connections, the snapshot and the prompt stay, more answers disturb
\* nothing that is said of them.
LEMMA TrustedGrows ==
  ASSUME IInv, Trusted \subseteq Trusted', UNCHANGED <<conn, using, snapshot, prompt>>
  PROVE  UsesSnapshot' /\ TrustedHasKey' /\ PromptKnowsItsPast'
BY DEF IInv, UsesSnapshot, TrustedHasKey, PromptKnowsItsPast

\* A run that begins does so when no connection is left, with settings that are
\* vouched for.
LEMMA RestartKeeps ==
  ASSUME IInv, Restart, saved' \in Settings, Vouched(saved)', UNCHANGED <<conn, using>>,
         Trusted \subseteq Trusted'
  PROVE  /\ phase' \in {"stopped", "running", "stopping", "restarting"}
         /\ snapshot' \in Settings
         /\ phase' = "stopped" => \A c \in Conns : conn'[c] = "none"
         /\ SettingsVouched'
         /\ UsesSnapshot'
         /\ TrustedHasKey'
BY DEF IInv, TypeOK, Restart, StopTo, SettingsVouched, Vouched, UsesSnapshot,
   TrustedHasKey

\* A supervisor connects with the settings of the run.
LEMMA DialInv ==
  ASSUME IInv, NEW c \in Conns, Dial(c)
  PROVE  IInv'
<1>1. TypeOK'
  BY DEF IInv, TypeOK, Dial, RunSettings, history
<1>2. UsesSnapshot' /\ TrustedHasKey'
  BY DEF IInv, TypeOK, Dial, RunSettings, UsesSnapshot, TrustedHasKey
<1>3. SettingsVouched' /\ PromptKnowsItsPast'
  BY TrustedStays DEF IInv, Dial, SettingsVouched, Vouched, PromptKnowsItsPast
<1> QED
  BY <1>1, <1>2, <1>3 DEF IInv

\* A key is accepted when it is the snapshot's; otherwise the prompt that is
\* raised names the snapshot's server and key.
LEMMA CheckKeyInv ==
  ASSUME IInv, NEW c \in Conns, CheckKey(c)
  PROVE  IInv'
<1> DEFINE offered == presents[using[c].server]
<1>1. /\ using[c] \in Settings
      /\ using[c] = snapshot
      /\ offered \in Keys
      /\ Vouched(using[c])
  BY DEF IInv, TypeOK, CheckKey, UsesSnapshot, SettingsVouched, Vouched, Settings
<1>2. CASE using[c].key = offered
  <2>1. conn' = [conn EXCEPT ![c] = "trusted"] /\ UNCHANGED <<prompt, using, snapshot>>
    BY <1>2 DEF CheckKey
  <2>2. offered # NoKey
    BY <1>1, HostKeyAssumption
  <2>3. TypeOK'
    BY <2>1 DEF CheckKey, IInv, TypeOK, history
  <2>4. UsesSnapshot' /\ TrustedHasKey'
    BY <1>2, <2>1, <2>2 DEF IInv, TypeOK, CheckKey, UsesSnapshot, TrustedHasKey
  <2>5. SettingsVouched' /\ PromptKnowsItsPast'
    BY <2>1, TrustedStays DEF CheckKey, IInv, SettingsVouched, Vouched, PromptKnowsItsPast
  <2> QED
    BY <2>3, <2>4, <2>5 DEF IInv
<1>3. CASE using[c].key # offered
  <2>1. /\ conn' = [conn EXCEPT ![c] = "none"]
        /\ prompt' = [server |-> using[c].server, key |-> offered,
                      previous |-> using[c].key]
        /\ UNCHANGED <<using, snapshot>>
    BY <1>3 DEF CheckKey
  <2>2. TypeOK'
    BY <1>1, <2>1 DEF CheckKey, IInv, TypeOK, Settings, Prompts, history
  <2>3. UsesSnapshot' /\ TrustedHasKey'
    BY <2>1 DEF IInv, TypeOK, CheckKey, UsesSnapshot, TrustedHasKey
  <2>4. PromptKnowsItsPast'
    BY <1>1, <1>3, <2>1, TrustedStays DEF CheckKey, Vouched, PromptKnowsItsPast
  <2>5. SettingsVouched'
    BY TrustedStays DEF CheckKey, IInv, SettingsVouched, Vouched
  <2> QED
    BY <2>2, <2>3, <2>4, <2>5 DEF IInv
<1> QED
  BY <1>2, <1>3

\* A connection ends.
LEMMA ConnEndsInv ==
  ASSUME IInv, NEW c \in Conns, ConnEnds(c)
  PROVE  IInv'
<1>1. TypeOK'
  BY DEF IInv, TypeOK, ConnEnds, history
<1>2. UsesSnapshot' /\ TrustedHasKey'
  BY DEF IInv, TypeOK, ConnEnds, UsesSnapshot, TrustedHasKey
<1>3. SettingsVouched' /\ PromptKnowsItsPast'
  BY TrustedStays DEF IInv, ConnEnds, SettingsVouched, Vouched, PromptKnowsItsPast
<1> QED
  BY <1>1, <1>2, <1>3 DEF IInv

\* The end of a run takes its connections along, before the next one copies the
\* settings.
LEMMA RunGoneInv ==
  ASSUME IInv, RunGone
  PROVE  IInv'
<1>1. TypeOK'
  BY DEF IInv, TypeOK, RunGone, EndConns, history
<1>2. UsesSnapshot' /\ TrustedHasKey'
  BY DEF RunGone, EndConns, UsesSnapshot, TrustedHasKey
<1>3. SettingsVouched' /\ PromptKnowsItsPast'
  BY TrustedStays DEF IInv, RunGone, SettingsVouched, Vouched, PromptKnowsItsPast
<1> QED
  BY <1>1, <1>2, <1>3 DEF IInv

\* The user starts or stops the proxy.
LEMMA StartStopInv ==
  ASSUME IInv, Start \/ Stop
  PROVE  IInv'
<1>1. TypeOK'
  BY DEF IInv, TypeOK, Start, Stop, StopTo, history
<1>2. UsesSnapshot' /\ TrustedHasKey'
  BY DEF IInv, TypeOK, Start, Stop, UsesSnapshot, TrustedHasKey
<1>3. SettingsVouched' /\ PromptKnowsItsPast'
  BY TrustedStays DEF IInv, Start, Stop, SettingsVouched, Vouched, PromptKnowsItsPast
<1> QED
  BY <1>1, <1>2, <1>3 DEF IInv

\* A save keeps the key only with its server.
LEMMA SaveServerInv ==
  ASSUME IInv, NEW server \in Servers, SaveServer(server)
  PROVE  IInv'
<1>1. saved' \in Settings /\ Vouched(saved)'
  BY TrustedStays DEF IInv, TypeOK, Settings, SaveServer, KeyFor, SettingsVouched, Vouched
<1>2. UNCHANGED <<presents, conn, using, prompt, card, history>> /\ Trusted' = Trusted
  BY TrustedStays DEF SaveServer
<1>3. CASE Restart
  BY <1>1, <1>2, <1>3, RestartKeeps DEF IInv, TypeOK, PromptKnowsItsPast, history
<1>4. CASE UNCHANGED <<phase, snapshot>>
  BY <1>1, <1>2, <1>4, TrustedGrows DEF IInv, TypeOK, SettingsVouched, Vouched, history
<1> QED
  BY <1>3, <1>4 DEF SaveServer

\* An answer makes the key of the prompt trusted for its server, which is the
\* saved one, whether or not the card showed that key.
LEMMA TrustInv ==
  ASSUME IInv, Trust
  PROVE  IInv'
<1>1. /\ prompt \in Prompts /\ card \in Servers \X Keys
      /\ prompt' = NoPrompt /\ confirmed' = confirmed \cup {card}
      /\ UNCHANGED <<presents, conn, using, card>>
  BY DEF IInv, TypeOK, Trust
<1>2. PromptKnowsItsPast'
  BY <1>1 DEF PromptKnowsItsPast
<1>3. CASE UNCHANGED <<saved, slipped, phase, snapshot>>
  <2>1. Trusted \subseteq Trusted' /\ confirmed' \in SUBSET (Servers \X Keys)
    BY <1>1, <1>3 DEF IInv, TypeOK, Trusted
  <2> QED
    BY <1>1, <1>2, <1>3, <2>1
    DEF IInv, TypeOK, SettingsVouched, Vouched, UsesSnapshot, TrustedHasKey
<1>4. CASE /\ SameServer
           /\ saved' = [saved EXCEPT !.key = prompt.key]
           /\ slipped' = slipped \cup ({<<prompt.server, prompt.key>>} \ confirmed')
           /\ IF phase = "running" THEN Restart ELSE UNCHANGED <<phase, snapshot>>
  <2>1. Trusted' = Trusted \cup {card, <<prompt.server, prompt.key>>}
    BY <1>1, <1>4 DEF Trusted
  <2>2. saved' \in Settings /\ Vouched(saved)'
    BY <1>1, <1>4, <2>1 DEF IInv, TypeOK, Settings, Prompts, SameServer, Vouched
  <2>3. /\ Trusted \subseteq Trusted'
        /\ confirmed' \in SUBSET (Servers \X Keys) /\ slipped' \in SUBSET (Servers \X Keys)
    BY <1>1, <1>4, <2>1 DEF IInv, TypeOK, Prompts
  <2>4. CASE Restart
    BY <1>1, <1>2, <2>2, <2>3, <2>4, RestartKeeps DEF IInv, TypeOK
  <2>5. CASE UNCHANGED <<phase, snapshot>>
    BY <1>1, <1>2, <2>2, <2>3, <2>5
    DEF IInv, TypeOK, SettingsVouched, Vouched, UsesSnapshot, TrustedHasKey
  <2> QED
    BY <1>4, <2>4, <2>5
<1> QED
  BY <1>3, <1>4 DEF Trust

\* The window shows a prompt, the user rejects a key or forgets one, or the server
\* gets another.
LEMMA ShowRejectForgetInv ==
  ASSUME IInv,
         Show \/ Reject \/ Forget \/ \E server \in Servers, key \in Keys : Rekey(server, key)
  PROVE  IInv'
<1>1. CASE Reject
  BY <1>1, TrustedStays
  DEF Reject, StopTo, history, IInv, TypeOK, SettingsVouched, Vouched, UsesSnapshot,
      TrustedHasKey, PromptKnowsItsPast
<1>2. CASE Forget
  <2>1. saved' \in Settings /\ Vouched(saved)'
    BY <1>2, TrustedStays DEF Forget, IInv, TypeOK, Settings, Vouched
  <2> QED
    BY <1>2, <2>1, TrustedGrows, TrustedStays
    DEF Forget, runVars, history, IInv, TypeOK, SettingsVouched, Vouched
<1>3. ASSUME NEW server \in Servers, NEW key \in Keys, Rekey(server, key) PROVE IInv'
  BY <1>3, TrustedGrows, TrustedStays
  DEF Rekey, runVars, history, IInv, TypeOK, SettingsVouched, Vouched
<1>4. CASE Show
  <2>1. card' \in (Servers \X Keys) \cup {NoPrompt}
    BY <1>4 DEF Show, IInv, TypeOK, Prompts
  <2> QED
    BY <1>4, <2>1, TrustedGrows, TrustedStays
    DEF Show, runVars, history, IInv, TypeOK, SettingsVouched, Vouched
<1> QED
  BY <1>1, <1>2, <1>3, <1>4

\* Every step keeps the invariant.
LEMMA NextInv == IInv /\ [Next]_vars => IInv'
<1> SUFFICES ASSUME IInv, [Next]_vars PROVE IInv'
  OBVIOUS
<1>1. CASE UNCHANGED vars
  <2>1. TypeOK' /\ SettingsVouched'
    BY <1>1, TrustedStays DEF IInv, TypeOK, SettingsVouched, Vouched, vars, runVars, history
  <2> QED
    BY <1>1, <2>1, TrustedGrows, TrustedStays DEF IInv, vars, runVars, history
<1>2. ASSUME NEW c \in Conns, Connect(c) PROVE IInv'
  BY <1>2, DialInv, CheckKeyInv, ConnEndsInv DEF Connect
<1>3. CASE Next
  BY <1>2, <1>3, RunGoneInv, StartStopInv, SaveServerInv, TrustInv, ShowRejectForgetInv
  DEF Next, Decide
<1> QED
  BY <1>1, <1>3

\* The inductive invariant holds throughout.
LEMMA Invariance == Spec => []IInv
BY InitInv, NextInv, PTL DEF Spec

---------------------------------------------------------------------------

\* TypeOK, the end of all connections with their run included (run_proxy joins
\* its supervisors).
THEOREM TypeCorrect == Spec => []TypeOK
<1>1. IInv => TypeOK
  BY DEF IInv
<1> QED
  BY <1>1, Invariance, PTL

\* An accepted session rests on an answer that made that key trusted for that
\* server: confirmed on its card, or slipped in for another one (check_server_key,
\* trust_host_key and apply_to_config together).
THEOREM TrustTheorem == Spec => []OnlyTrustedKeys
<1>1. IInv => OnlyTrustedKeys
  BY DEF IInv, OnlyTrustedKeys, SettingsVouched, Vouched, UsesSnapshot, TrustedHasKey
<1> QED
  BY <1>1, Invariance, PTL

\* A prompt never attributes the key of one server to another
\* (HostKeyPrompt::previous).
THEOREM PromptTheorem == Spec => []PromptKnowsItsPast
<1>1. IInv => PromptKnowsItsPast
  BY DEF IInv
<1> QED
  BY <1>1, Invariance, PTL

\* The connections of a pool agree on their settings (run_proxy's snapshot).
THEOREM SettingsTheorem == Spec => []SameSettings
<1>1. IInv => SameSettings
  BY DEF IInv, SameSettings, UsesSnapshot
<1> QED
  BY <1>1, Invariance, PTL
=============================================================================
