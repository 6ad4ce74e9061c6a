---------------------------- MODULE SecretStore ----------------------------
(***************************************************************************)
(* Where the SSH password and the key passphrase are kept: the Keychain,   *)
(* the settings in memory, the settings form, and, left there by an older  *)
(* version, the config file (src/config/mod.rs, src/config/keychain.rs and *)
(* the handlers of src/main.rs that load and save).                        *)
(*                                                                         *)
(* Handlers run on the UI thread, but the application may be killed        *)
(* between any two writes, and each write or read may fail, so each is an  *)
(* action.  save_config replaces the file at once (rename).  What a failed *)
(* read or write of the Keychain does is assumed to be nothing.            *)
(***************************************************************************)
EXTENDS Naturals

CONSTANTS
  Secrets,  \* passwords and passphrases
  Empty,    \* the empty string
  Legacy    \* an older version has left its config file

ASSUME SecretAssumption ==
  /\ Empty \notin Secrets
  /\ Legacy \in BOOLEAN

VARIABLES
  file,      \* secrets in the config file
  keychain,  \* secrets in the Keychain, Empty when there is no item
  config,    \* secrets of the settings in memory
  form,      \* secrets in the settings form
  app,       \* what the application is doing
  step,      \* how far it is with that: an account's turn, or the file's
  unread,    \* history: accounts that this launch could not read
  failed,    \* history: a write has failed since launch
  torn,      \* history: accounts that a failed write has left different in the
             \* Keychain and in memory
  kept,      \* history: secrets that could be in the Keychain if the user did nothing
  touched,   \* history: accounts the user has edited since launch
  chosen     \* history: secrets the next launch may find

stores == <<file, keychain>>
memory == <<config, form>>
history == <<unread, failed, torn, kept, touched, chosen>>
vars == <<stores, memory, app, step, history>>

\* The order in which load_secrets and save_secrets take them.
Account == <<"ssh_password", "key_passphrase">>

Accounts == {Account[1], Account[2]}

\* The step after the secrets.
FileStep == 3

Blank == [a \in Accounts |-> Empty]

Strings == Secrets \cup {Empty}

\* What load_config and load_secrets are going to find.
NextLaunch == IF file = Blank THEN keychain ELSE file

---------------------------------------------------------------------------
(* Launch: load_config and load_secrets *)

\* A launch after a failed write makes the best of what it finds.
Launch ==
  /\ app = "off"
  /\ app' = IF file = Blank THEN "reading" ELSE "migrating"
  /\ step' = 1
  /\ config' = file
  /\ unread' = {} /\ touched' = {} /\ failed' = FALSE /\ torn' = {}
  /\ kept' = [a \in Accounts |-> {keychain[a]} \cup (IF file = Blank THEN {} ELSE {file[a]})]
  /\ chosen' = IF failed THEN [a \in Accounts |-> {NextLaunch[a]}] ELSE chosen
  /\ UNCHANGED <<stores, form>>

\* load_secrets has returned; SettingsForm::from_config
Loaded == app' = "idle" /\ step' = 1 /\ form' = config'

\* What a config file that a migration has left loses when it is replaced: what is
\* not in the Keychain yet.
Lost == IF file = Blank THEN {} ELSE {a \in Accounts : keychain[a] # file[a]}

\* A write fails; what comes after it is not tried.  The error is shown until
\* a start, an SSH session or a later save clears it.
WriteFails ==
  /\ failed' = TRUE
  /\ UNCHANGED <<stores, config, unread, kept, touched, chosen>>

\* Mutant of MigrateSecret: the second secret is forgotten.
MigrateFirst ==
  /\ app = "migrating" /\ step < FileStep
  /\ keychain' = [keychain EXCEPT ![Account[step]] = config[Account[step]]]
  /\ step' = FileStep
  /\ UNCHANGED <<file, memory, app, history>>

\* keychain::set of one account: an empty one is deleted.
MigrateSecret ==
  /\ app = "migrating" /\ step < FileStep
  /\ keychain' = [keychain EXCEPT ![Account[step]] = config[Account[step]]]
  /\ step' = step + 1
  /\ UNCHANGED <<file, memory, app, history>>

\* save_config, once both secrets are in the Keychain.
MigrateFile ==
  /\ app = "migrating" /\ step = FileStep
  /\ file' = Blank
  /\ UNCHANGED <<keychain, config, history>>
  /\ Loaded

MigrationFails ==
  /\ app = "migrating"
  /\ WriteFails
  /\ UNCHANGED torn
  /\ Loaded

\* keychain::get of one account
ReadSecret ==
  /\ app = "reading"
  /\ config' = [config EXCEPT ![Account[step]] = keychain[Account[step]]]
  /\ IF step = 2 THEN Loaded ELSE step' = step + 1 /\ UNCHANGED <<app, form>>
  /\ UNCHANGED <<stores, history>>

\* A read fails; the accounts that have not been read stay empty in memory.
ReadFails ==
  /\ app = "reading"
  /\ unread' = {Account[i] : i \in step..2}
  /\ UNCHANGED <<stores, config, failed, torn, kept, touched, chosen>>
  /\ Loaded

---------------------------------------------------------------------------
(* The user *)

Edit(a, s) ==
  /\ app = "idle"
  /\ form[a] # s
  /\ form' = [form EXCEPT ![a] = s]
  /\ touched' = touched \cup {a}
  /\ UNCHANGED <<stores, config, app, step, unread, failed, torn, kept, chosen>>

\* revert_form
Revert ==
  /\ app = "idle"
  /\ form' = config
  /\ UNCHANGED <<stores, config, app, step, history>>

\* save_settings begins.
Save ==
  /\ app = "idle"
  /\ app' = "storing"
  /\ chosen' = [a \in Accounts |-> IF a \in unread /\ form[a] = config[a]
                                   THEN chosen[a] ELSE chosen[a] \cup {form[a]}]
  /\ UNCHANGED <<stores, memory, step, unread, failed, torn, kept, touched>>

\* Mutant of Differs: every secret is written back.
DiffersAlways(a) == TRUE

\* save_secrets compares the old settings with the new.
Differs(a) == form[a] # config[a]

\* keychain::set of one account, if it is to be set.
StoreSecret ==
  /\ app = "storing" /\ step < FileStep
  /\ LET a == Account[step]
     IN  keychain' = IF Differs(a) THEN [keychain EXCEPT ![a] = form[a]] ELSE keychain
  /\ step' = step + 1
  /\ UNCHANGED <<file, memory, app, history>>

\* save_config_state; "Settings saved."
StoreFile ==
  /\ app = "storing" /\ step = FileStep
  /\ file' = Blank
  /\ config' = form
  /\ app' = "idle" /\ step' = 1
  /\ LET known == {a \in Accounts : ~(a \in unread /\ form[a] = config[a])}
     IN  /\ unread' = unread \ known
         /\ chosen' = [a \in Accounts |-> IF a \in known THEN {form[a]} ELSE chosen[a]]
  /\ torn' = (torn \cup Lost) \ {a \in Accounts : Differs(a)}
  /\ UNCHANGED <<keychain, form, failed, kept, touched>>

\* What a save that fails has stored already.
StoredSoFar == {a \in Accounts : Differs(a) /\ \E i \in 1..(step - 1) : Account[i] = a}

\* Mutant of StoreFails: memory takes the new settings before they are written.
StoreFailsLate ==
  /\ app = "storing"
  /\ step < FileStep => Differs(Account[step])
  /\ app' = "idle" /\ step' = 1
  /\ torn' = torn \cup StoredSoFar
  /\ config' = form
  /\ failed' = TRUE
  /\ UNCHANGED <<stores, form, unread, kept, touched, chosen>>

StoreFails ==
  /\ app = "storing"
  /\ step < FileStep => Differs(Account[step])
  /\ app' = "idle" /\ step' = 1
  /\ torn' = torn \cup StoredSoFar
  /\ UNCHANGED form
  /\ WriteFails

\* save_config_state for any other setting: autostart, auto-connect, the log
\* level, a host key trusted or forgotten.
SaveOther ==
  /\ app = "idle"
  /\ file' = Blank
  /\ torn' = torn \cup Lost
  /\ UNCHANGED <<keychain, memory, app, step, unread, failed, kept, touched, chosen>>

\* The application quits, crashes or is killed.
Quit ==
  /\ app # "off"
  /\ app' = "off" /\ step' = 1
  /\ config' = Blank /\ form' = Blank
  /\ UNCHANGED <<stores, history>>

---------------------------------------------------------------------------
Init ==
  /\ \/ file = Blank /\ keychain \in [Accounts -> Strings]
     \/ Legacy /\ file \in [Accounts -> Strings] /\ keychain = Blank
  /\ config = Blank
  /\ form = Blank
  /\ app = "off"
  /\ step = 1
  /\ unread = {} /\ touched = {} /\ failed = FALSE /\ torn = {}
  /\ kept = [a \in Accounts |-> {}]
  /\ chosen = [a \in Accounts |-> {NextLaunch[a]}]

Load == Launch \/ MigrateSecret \/ MigrateFile \/ MigrationFails \/ ReadSecret \/ ReadFails

Use ==
  \/ \E a \in Accounts, s \in Strings : Edit(a, s)
  \/ Revert
  \/ Save
  \/ StoreSecret
  \/ StoreFile
  \/ StoreFails
  \/ SaveOther

Next == Load \/ Use \/ Quit

Spec == Init /\ [][Next]_vars

---------------------------------------------------------------------------
(* Properties *)

\* Every variable keeps its type, and the Keychain is read only when the file
\* has nothing to move there.
TypeOK ==
  /\ \A f \in {file, keychain, config, form} : f \in [Accounts -> Strings]
  /\ app \in {"off", "migrating", "reading", "idle", "storing"}
  /\ step \in 1..FileStep
  /\ unread \in SUBSET Accounts
  /\ failed \in BOOLEAN
  /\ torn \in SUBSET Accounts
  /\ kept \in [Accounts -> SUBSET Strings]
  /\ touched \in SUBSET Accounts
  /\ chosen \in [Accounts -> SUBSET Strings]
  /\ app = "reading" => file = Blank /\ step < FileStep

\* "Unchanged secrets are never written back, so a failed read here cannot erase
\* what the Keychain holds" (ProxyBear::new): an item the user has not edited is
\* what it was, whatever could not be read and whatever else is saved.
UntouchedIsKept ==
  app # "off" => \A a \in Accounts \ touched : keychain[a] \in kept[a]

\* Unless a write has failed, the application may be killed at any point of a
\* migration or a save: the next launch finds each secret as last saved, or as
\* the save that was interrupted would have it (the order in load_secrets).
SurvivesCrashes ==
  ~failed => \A a \in Accounts : NextLaunch[a] \in chosen[a]

\* The secrets in use are those the next launch will use, but for those that
\* could not be read and those that a failed write has torn: a save that stored
\* the item and then failed, or the replacement of a config file whose migration
\* had failed.  A torn account stays so, through later saves too, until a save
\* stores it anew (save_settings compares the form with what is in memory, not
\* with the Keychain); no other sequence of failures tells the two apart.
InStep ==
  app = "idle" => \A a \in Accounts \ (unread \cup torn) : config[a] = NextLaunch[a]

\* "Settings saved" and "moving any that an older version left": what the next
\* launch finds is what was last saved, after failed writes too.
SavedSecretsSurvive == \A a \in Accounts : NextLaunch[a] \in chosen[a]
===========================================================================
