---------------------------- MODULE SecretProof ----------------------------
(***************************************************************************)
(* Proofs about SecretStore, for any set of secrets, with or without an    *)
(* old config file: no interruption and no failed read loses a secret, and *)
(* what a failed write tears is told apart from what it does not.          *)
(***************************************************************************)
EXTENDS SecretStore, TLAPS

InUse == app \in {"idle", "storing"}

\* What a migration copies is what the file holds, and the accounts that are
\* behind it are in the Keychain.
Migrating ==
  app = "migrating" =>
    /\ file # Blank
    /\ config = file
    /\ \A a \in Accounts : config[a] \in kept[a]
    /\ \A i \in 1..2 : i < step => keychain[Account[i]] = config[Account[i]]

\* The accounts that are behind load_secrets have been read.
Reading ==
  app = "reading" =>
    /\ ~failed
    /\ \A i \in 1..2 : i < step => config[Account[i]] = keychain[Account[i]]

\* The form differs from the settings only where the user has edited it.
FormIsEdited ==
  InUse => \A a \in Accounts : form[a] # config[a] => a \in touched

\* Only a migration that failed leaves secrets in the file, and they are the ones
\* in use until the file is replaced.
LeftoverInUse == InUse /\ file # Blank => failed /\ config = file

\* Nothing is torn but by a failure.
TornByFailure == torn # {} => failed

\* Account i has been written by the save that is going on.
Stored(i) == app = "storing" /\ i < step

\* What the Keychain holds while the settings are in use: what is in memory, but
\* for what a failed write has torn, or, where the save has been, what is in the
\* form.
KeychainFollows ==
  InUse =>
    \A i \in 1..2 :
      LET a == Account[i]
      IN  /\ Stored(i) /\ Differs(a) => keychain[a] = form[a]
          /\ file = Blank /\ a \notin unread \cup torn /\ ~(Stored(i) /\ Differs(a))
               => keychain[a] = config[a]

\* A save has announced what it is about to write.
SaveAnnounced ==
  app = "storing" => \A a \in Accounts : Differs(a) => form[a] \in chosen[a]

IInv ==
  /\ TypeOK
  /\ app \in {"off", "idle"} => step = 1
  /\ UntouchedIsKept
  /\ SurvivesCrashes
  /\ Migrating
  /\ Reading
  /\ FormIsEdited
  /\ LeftoverInUse
  /\ TornByFailure
  /\ KeychainFollows
  /\ SaveAnnounced

USE SecretAssumption

\* The accounts are the two that load_secrets and save_secrets take in turn.
LEMMA TwoAccounts ==
  /\ Account[1] \in Accounts /\ Account[2] \in Accounts
  /\ Account[1] # Account[2]
  /\ \A a \in Accounts : \E i \in 1..2 : a = Account[i]
  /\ \A i \in 1..2 : Account[i] \in Accounts
  /\ \A i, j \in 1..2 : Account[i] = Account[j] => i = j
BY DEF Account, Accounts

\* Empty stores have the type of the stores.
LEMMA BlankType == Blank \in [Accounts -> Strings]
BY DEF Blank, Strings

\* The application is off, and the next launch may find what it will find.
LEMMA InitInv == Init => IInv
<1> SUFFICES ASSUME Init PROVE IInv
  OBVIOUS
<1>1. file \in [Accounts -> Strings] /\ keychain \in [Accounts -> Strings]
  BY BlankType DEF Init
<1>2. TypeOK
  <2>1. NextLaunch \in [Accounts -> Strings]
    BY <1>1 DEF NextLaunch
  <2>2. chosen \in [Accounts -> SUBSET Strings]
    BY <2>1 DEF Init
  <2>3. /\ \A f \in {file, keychain, config, form} : f \in [Accounts -> Strings]
        /\ kept \in [Accounts -> SUBSET Strings]
    BY <1>1, BlankType DEF Init
  <2>4. /\ app = "off" /\ step = 1 /\ unread = {} /\ touched = {} /\ failed = FALSE
        /\ torn = {}
    BY DEF Init
  <2>5. app \in {"off", "migrating", "reading", "idle", "storing"}
    BY <2>4
  <2>6. step \in 1..FileStep
    BY <2>4 DEF FileStep
  <2>7. failed \in BOOLEAN
    BY <2>4
  <2> QED
    BY <2>2, <2>3, <2>4, <2>5, <2>6, <2>7 DEF TypeOK
<1>3. SurvivesCrashes
  BY DEF Init, SurvivesCrashes
<1> QED
  BY <1>2, <1>3 DEF Init, IInv, InUse, UntouchedIsKept, Migrating, Reading, FormIsEdited,
     LeftoverInUse, KeychainFollows, TornByFailure, SaveAnnounced

\* A launch that finds secrets in the file sets out to migrate them.
LEMMA LaunchInv == IInv /\ Launch => IInv'
<1> SUFFICES ASSUME IInv, Launch PROVE IInv'
  OBVIOUS
<1>1. /\ app' \in {"reading", "migrating"} /\ step' = 1 /\ ~failed' /\ config' = file
      /\ app' = "reading" => file' = Blank
      /\ app' = "migrating" => file' # Blank
      /\ torn' = {}
      /\ UNCHANGED <<file, keychain>>
  BY DEF Launch, stores
<1>2. NextLaunch \in [Accounts -> Strings] /\ NextLaunch' = NextLaunch
  BY <1>1 DEF IInv, TypeOK, NextLaunch
<1>3. /\ kept' \in [Accounts -> SUBSET Strings]
      /\ \A a \in Accounts : keychain[a] \in kept'[a]
      /\ app' = "migrating" => \A a \in Accounts : file[a] \in kept'[a]
  BY DEF Launch, IInv, TypeOK
<1>4. /\ chosen' \in [Accounts -> SUBSET Strings]
      /\ \A a \in Accounts : NextLaunch[a] \in chosen'[a]
  BY <1>2 DEF Launch, IInv, TypeOK, SurvivesCrashes
<1>5. TypeOK'
  <2>1. /\ unread' = {} /\ touched' = {} /\ failed' = FALSE /\ torn' = {}
        /\ form' = form
    BY DEF Launch
  <2>2. \A f \in {file', keychain', config', form'} : f \in [Accounts -> Strings]
    BY <1>1, <2>1 DEF IInv, TypeOK
  <2>3. failed' \in BOOLEAN
    BY <2>1
  <2>4. step' \in 1..FileStep /\ app' \in {"off", "migrating", "reading", "idle", "storing"}
    BY <1>1 DEF FileStep
  <2>5. app' = "reading" => file' = Blank /\ step' < FileStep
    BY <1>1 DEF FileStep
  <2> QED
    BY <1>3, <1>4, <2>1, <2>2, <2>3, <2>4, <2>5 DEF TypeOK
<1>6. UntouchedIsKept' /\ SurvivesCrashes'
  BY <1>1, <1>2, <1>3, <1>4 DEF UntouchedIsKept, SurvivesCrashes
<1>7. Migrating' /\ Reading'
  BY <1>1, <1>3 DEF Migrating, Reading
<1> QED
  BY <1>1, <1>5, <1>6, <1>7 DEF IInv, InUse, FormIsEdited, LeftoverInUse,
     KeychainFollows, TornByFailure, SaveAnnounced

\* One account of the migration: the next launch would still migrate.
LEMMA MigrateSecretInv == IInv /\ MigrateSecret => IInv'
<1> SUFFICES ASSUME IInv, MigrateSecret PROVE IInv'
  OBVIOUS
<1>1. /\ app = "migrating" /\ step \in 1..2 /\ step' = step + 1
      /\ UNCHANGED <<file, config, form, app, unread, failed, torn, kept, touched, chosen>>
      /\ keychain' = [keychain EXCEPT ![Account[step]] = config[Account[step]]]
  BY DEF IInv, TypeOK, MigrateSecret, memory, history, FileStep
<1>2. TypeOK'
  BY <1>1, TwoAccounts DEF IInv, TypeOK, FileStep
<1>3. Migrating'
  BY <1>1, TwoAccounts DEF IInv, TypeOK, Migrating
<1>4. UntouchedIsKept' /\ SurvivesCrashes'
  BY <1>1, TwoAccounts DEF IInv, TypeOK, UntouchedIsKept, SurvivesCrashes, NextLaunch, Migrating
<1> QED
  BY <1>1, <1>2, <1>3, <1>4 DEF IInv, InUse, Reading, FormIsEdited, LeftoverInUse,
     KeychainFollows, TornByFailure, SaveAnnounced

\* The end of a migration: both secrets are in the Keychain.
LEMMA MigrateFileInv == IInv /\ MigrateFile => IInv'
<1> SUFFICES ASSUME IInv, MigrateFile PROVE IInv'
  OBVIOUS
<1>1. /\ app = "migrating" /\ step = 3 /\ app' = "idle" /\ step' = 1
      /\ form' = config /\ file' = Blank
      /\ UNCHANGED <<keychain, config, unread, failed, torn, kept, touched, chosen>>
  BY DEF MigrateFile, Loaded, history, FileStep
<1>2. \A a \in Accounts : keychain[a] = config[a] /\ config[a] = file[a]
  BY <1>1, TwoAccounts DEF IInv, Migrating
<1>3. TypeOK'
  BY <1>1, BlankType DEF IInv, TypeOK, FileStep
<1>4. SurvivesCrashes'
  BY <1>1, <1>2 DEF IInv, SurvivesCrashes, NextLaunch, Migrating
<1>5. KeychainFollows'
  BY <1>1, <1>2, TwoAccounts DEF KeychainFollows, Stored, Differs
<1> QED
  BY <1>1, <1>3, <1>4, <1>5 DEF IInv, InUse, UntouchedIsKept, Migrating, Reading,
     FormIsEdited, LeftoverInUse, TornByFailure, SaveAnnounced

\* A write fails while migrating: the file keeps the secrets that are in use.
LEMMA MigrationFailsInv == IInv /\ MigrationFails => IInv'
<1> SUFFICES ASSUME IInv, MigrationFails PROVE IInv'
  OBVIOUS
<1>1. /\ app = "migrating" /\ app' = "idle" /\ step' = 1 /\ form' = config /\ failed'
      /\ failed' = TRUE
      /\ UNCHANGED <<file, keychain, config, unread, torn, kept, touched, chosen>>
  BY DEF MigrationFails, WriteFails, Loaded, stores
<1>2. TypeOK'
  BY <1>1 DEF IInv, TypeOK, FileStep
<1> QED
  BY <1>1, <1>2 DEF IInv, InUse, UntouchedIsKept, SurvivesCrashes, Migrating, Reading,
     FormIsEdited, LeftoverInUse, KeychainFollows, Stored, TornByFailure, SaveAnnounced

\* One account is read; after the second the settings are in use.
LEMMA ReadSecretInv == IInv /\ ReadSecret => IInv'
<1> SUFFICES ASSUME IInv, ReadSecret PROVE IInv'
  OBVIOUS
<1>1. /\ app = "reading" /\ step \in 1..2 /\ file = Blank
      /\ UNCHANGED <<file, keychain, unread, failed, torn, kept, touched, chosen>>
      /\ config' = [config EXCEPT ![Account[step]] = keychain[Account[step]]]
  BY DEF IInv, TypeOK, ReadSecret, stores, history, FileStep
<1>2. /\ config' \in [Accounts -> Strings]
      /\ \A i \in 1..2 : i <= step => config'[Account[i]] = keychain[Account[i]]
  BY <1>1, TwoAccounts DEF IInv, TypeOK, Reading
<1>3. UntouchedIsKept' /\ SurvivesCrashes'
  <2>1. app' # "off" /\ NextLaunch' = NextLaunch
    BY <1>1 DEF ReadSecret, Loaded, NextLaunch
  <2> QED
    BY <1>1, <2>1 DEF IInv, UntouchedIsKept, SurvivesCrashes
<1>4. CASE step = 2
  <2>1. app' = "idle" /\ step' = 1 /\ form' = config'
    BY <1>4 DEF ReadSecret, Loaded
  <2>2. TypeOK'
    BY <1>1, <1>2, <2>1 DEF IInv, TypeOK, FileStep
  <2>3. KeychainFollows'
    BY <1>1, <1>2, <1>4, <2>1, TwoAccounts DEF KeychainFollows, Stored, Differs
  <2> QED
    BY <1>1, <1>3, <2>1, <2>2, <2>3 DEF IInv, InUse, Migrating, Reading, FormIsEdited,
       LeftoverInUse, TornByFailure, SaveAnnounced
<1>5. CASE step = 1
  <2>1. step' = 2 /\ app' = "reading" /\ form' = form
    BY <1>1, <1>5 DEF ReadSecret
  <2>2. TypeOK'
    BY <1>1, <1>2, <2>1 DEF IInv, TypeOK, FileStep
  <2>3. Reading'
    BY <1>1, <1>2, <1>5, <2>1 DEF IInv, Reading
  <2> QED
    BY <1>1, <1>3, <2>1, <2>2, <2>3 DEF IInv, InUse, Migrating, FormIsEdited,
       LeftoverInUse, KeychainFollows, TornByFailure, SaveAnnounced
<1> QED
  BY <1>1, <1>4, <1>5

\* A read fails: the accounts not read are excepted from what is said.
LEMMA ReadFailsInv == IInv /\ ReadFails => IInv'
<1> SUFFICES ASSUME IInv, ReadFails PROVE IInv'
  OBVIOUS
<1>1. /\ app = "reading" /\ step \in 1..2 /\ file = Blank
      /\ app' = "idle" /\ step' = 1 /\ form' = config
      /\ unread' = {Account[i] : i \in step..2}
      /\ UNCHANGED <<file, keychain, config, failed, torn, kept, touched, chosen>>
  BY DEF IInv, TypeOK, ReadFails, Loaded, stores, FileStep
<1>2. unread' \subseteq Accounts /\ \A i \in 1..2 : Account[i] \notin unread' => i < step
  BY <1>1, TwoAccounts
<1>3. TypeOK'
  BY <1>1, <1>2 DEF IInv, TypeOK, FileStep
<1>4. KeychainFollows'
  BY <1>1, <1>2 DEF IInv, Reading, KeychainFollows, Stored, Differs
<1> QED
  BY <1>1, <1>3, <1>4 DEF IInv, InUse, UntouchedIsKept, SurvivesCrashes, NextLaunch,
     Migrating, Reading, FormIsEdited, LeftoverInUse, TornByFailure, SaveAnnounced

\* The user types in the form, or takes it back.
LEMMA FormInv ==
  ASSUME IInv, Revert \/ \E a \in Accounts, s \in Strings : Edit(a, s)
  PROVE  IInv'
<1>1. /\ app = "idle" /\ touched \subseteq touched' /\ touched' \in SUBSET Accounts
      /\ form' \in [Accounts -> Strings]
      /\ \A a \in Accounts : form'[a] # config[a] => a \in touched'
      /\ UNCHANGED <<file, keychain, config, app, step, unread, failed, torn, kept, chosen>>
  BY DEF IInv, TypeOK, Revert, Edit, FormIsEdited, InUse, stores, history
<1>2. TypeOK'
  BY <1>1 DEF IInv, TypeOK
<1>3. KeychainFollows'
  BY <1>1 DEF IInv, InUse, KeychainFollows, Stored
<1> QED
  BY <1>1, <1>2, <1>3 DEF IInv, InUse, UntouchedIsKept, SurvivesCrashes, NextLaunch,
     Migrating, Reading, FormIsEdited, LeftoverInUse, TornByFailure, SaveAnnounced

\* A save begins: what differs is announced.
LEMMA SaveInv == IInv /\ Save => IInv'
<1> SUFFICES ASSUME IInv, Save PROVE IInv'
  OBVIOUS
<1>1. /\ app = "idle" /\ step = 1 /\ app' = "storing"
      /\ UNCHANGED <<file, keychain, config, form, step, unread, failed, torn, kept, touched>>
  BY DEF IInv, Save, stores, memory
<1>2. /\ chosen' \in [Accounts -> SUBSET Strings]
      /\ \A a \in Accounts : chosen[a] \subseteq chosen'[a]
      /\ \A a \in Accounts : Differs(a) => form[a] \in chosen'[a]
  BY DEF IInv, TypeOK, Save, Differs
<1>3. TypeOK'
  BY <1>1, <1>2 DEF IInv, TypeOK
<1>4. KeychainFollows'
  BY <1>1 DEF IInv, InUse, KeychainFollows, Stored, Differs
<1>5. SurvivesCrashes'
  BY <1>1, <1>2 DEF IInv, SurvivesCrashes, NextLaunch
<1> QED
  BY <1>1, <1>2, <1>3, <1>4, <1>5 DEF IInv, InUse, UntouchedIsKept, Migrating, Reading,
     FormIsEdited, LeftoverInUse, TornByFailure, SaveAnnounced, Differs

\* One account of a save.
LEMMA StoreSecretInv == IInv /\ StoreSecret => IInv'
<1> SUFFICES ASSUME IInv, StoreSecret PROVE IInv'
  OBVIOUS
<1> DEFINE acct == Account[step]
<1>1. /\ app = "storing" /\ step \in 1..2 /\ step' = step + 1
      /\ keychain' = IF Differs(acct) THEN [keychain EXCEPT ![acct] = form[acct]] ELSE keychain
      /\ UNCHANGED <<file, config, form, app, unread, failed, torn, kept, touched, chosen>>
  BY DEF IInv, TypeOK, StoreSecret, memory, history, FileStep
<1>2. acct \in Accounts
  BY <1>1, TwoAccounts
<1>3. /\ keychain' \in [Accounts -> Strings]
      /\ \A a \in Accounts : a # acct => keychain'[a] = keychain[a]
      /\ Differs(acct) => keychain'[acct] = form[acct]
      /\ ~Differs(acct) => keychain'[acct] = keychain[acct]
  BY <1>1, <1>2 DEF IInv, TypeOK
<1>4. TypeOK'
  BY <1>1, <1>3 DEF IInv, TypeOK, FileStep
<1>5. UntouchedIsKept'
  BY <1>1, <1>2, <1>3 DEF IInv, UntouchedIsKept, FormIsEdited, InUse, Differs
<1>6. SurvivesCrashes'
  <2> SUFFICES ASSUME ~failed, NEW a \in Accounts PROVE NextLaunch'[a] \in chosen[a]
    BY <1>1 DEF SurvivesCrashes
  <2>1. NextLaunch = keychain /\ NextLaunch' = keychain'
    BY <1>1 DEF IInv, LeftoverInUse, InUse, NextLaunch
  <2> QED
    BY <1>1, <1>2, <1>3, <2>1 DEF IInv, SurvivesCrashes, SaveAnnounced
<1>7. KeychainFollows'
  <2> SUFFICES ASSUME NEW i \in 1..2
               PROVE  LET a == Account[i]
                      IN  /\ i < step + 1 /\ Differs(a) => keychain'[a] = form[a]
                          /\ file = Blank /\ a \notin unread \cup torn
                               /\ ~(i < step + 1 /\ Differs(a)) => keychain'[a] = config[a]
    BY <1>1 DEF KeychainFollows, Stored, InUse, Differs
  <2>1. CASE i = step
    BY <1>1, <1>3, <2>1 DEF IInv, KeychainFollows, Stored, InUse, Differs
  <2>2. CASE i # step
    <3>1. keychain'[Account[i]] = keychain[Account[i]]
      BY <1>1, <1>3, <2>2, TwoAccounts
    <3>2. i < step + 1 <=> i < step
      BY <1>1, <2>2
    <3> QED
      BY <1>1, <3>1, <3>2 DEF IInv, KeychainFollows, Stored, InUse
  <2> QED
    BY <2>1, <2>2
<1> QED
  BY <1>1, <1>4, <1>5, <1>6, <1>7 DEF IInv, InUse, Migrating, Reading, FormIsEdited,
     LeftoverInUse, TornByFailure, SaveAnnounced, Differs

\* A save succeeds: whatever was announced is in the Keychain.
LEMMA StoreFileInv == IInv /\ StoreFile => IInv'
<1> SUFFICES ASSUME IInv, StoreFile PROVE IInv'
  OBVIOUS
<1> DEFINE known == {a \in Accounts : ~(a \in unread /\ form[a] = config[a])}
<1>1. /\ app = "storing" /\ step = 3 /\ app' = "idle" /\ step' = 1
      /\ file' = Blank /\ config' = form
      /\ unread' = unread \ known
      /\ chosen' = [a \in Accounts |-> IF a \in known THEN {form[a]} ELSE chosen[a]]
      /\ torn' = (torn \cup Lost) \ {a \in Accounts : Differs(a)}
      /\ UNCHANGED <<keychain, form, failed, kept, touched>>
  BY DEF StoreFile, FileStep
<1>2. \A a \in known \ torn' : keychain[a] = form[a]
  <2> SUFFICES ASSUME NEW a \in known \ torn' PROVE keychain[a] = form[a]
    OBVIOUS
  <2>1. PICK i \in 1..2 : a = Account[i]
    BY TwoAccounts
  <2>2. i < step
    BY <1>1
  <2>3. CASE Differs(a)
    BY <1>1, <2>1, <2>2, <2>3 DEF IInv, KeychainFollows, Stored, InUse
  <2>4. CASE ~Differs(a)
    <3>1. a \notin unread /\ a \notin torn /\ a \notin Lost /\ form[a] = config[a]
      BY <1>1, <2>4 DEF Differs
    <3>2. CASE file = Blank
      BY <1>1, <2>1, <2>4, <3>1, <3>2 DEF IInv, KeychainFollows, InUse
    <3>3. CASE file # Blank
      BY <1>1, <3>1, <3>3 DEF IInv, LeftoverInUse, InUse, Lost
    <3> QED
      BY <3>2, <3>3
  <2> QED
    BY <2>3, <2>4
<1>3. TypeOK'
  <2>1. /\ file' \in [Accounts -> Strings] /\ config' \in [Accounts -> Strings]
        /\ unread' \in SUBSET Accounts /\ torn' \in SUBSET Accounts
    BY <1>1, BlankType DEF IInv, TypeOK, Lost
  <2>2. chosen' \in [Accounts -> SUBSET Strings]
    BY <1>1 DEF IInv, TypeOK
  <2> QED
    BY <1>1, <2>1, <2>2 DEF IInv, TypeOK, FileStep
<1>4. ~failed => Lost = {}
  BY <1>1 DEF IInv, LeftoverInUse, InUse, Lost
<1>5. SurvivesCrashes'
  <2> SUFFICES ASSUME ~failed, NEW a \in Accounts PROVE NextLaunch'[a] \in chosen'[a]
    BY <1>1 DEF SurvivesCrashes
  <2>1. NextLaunch' = keychain /\ NextLaunch = keychain
    BY <1>1 DEF IInv, LeftoverInUse, InUse, NextLaunch
  <2>2. torn' = {}
    BY <1>1, <1>4 DEF IInv, TornByFailure
  <2> QED
    BY <1>1, <1>2, <2>1, <2>2 DEF IInv, SurvivesCrashes
<1>6. KeychainFollows'
  <2> SUFFICES ASSUME NEW i \in 1..2, Account[i] \notin unread' \cup torn'
               PROVE  keychain[Account[i]] = form[Account[i]]
    BY <1>1 DEF KeychainFollows, Stored
  <2>1. Account[i] \in known
    BY <1>1, TwoAccounts
  <2> QED
    BY <1>2, <2>1
<1> QED
  BY <1>1, <1>3, <1>4, <1>5, <1>6 DEF IInv, InUse, UntouchedIsKept, Migrating, Reading,
     FormIsEdited, LeftoverInUse, TornByFailure, SaveAnnounced

\* A save fails: the accounts it has stored are torn.
LEMMA StoreFailsInv == IInv /\ StoreFails => IInv'
<1> SUFFICES ASSUME IInv, StoreFails PROVE IInv'
  OBVIOUS
<1>1. /\ app = "storing" /\ app' = "idle" /\ step' = 1 /\ failed' /\ failed' = TRUE
      /\ torn' = torn \cup StoredSoFar
      /\ UNCHANGED <<file, keychain, config, form, unread, kept, touched, chosen>>
  BY DEF StoreFails, WriteFails, stores
<1>2. TypeOK'
  BY <1>1 DEF IInv, TypeOK, FileStep, StoredSoFar
<1>3. KeychainFollows'
  <2> SUFFICES ASSUME NEW i \in 1..2, file = Blank, Account[i] \notin unread \cup torn'
               PROVE  keychain[Account[i]] = config[Account[i]]
    BY <1>1 DEF KeychainFollows, Stored
  <2>1. ~(Stored(i) /\ Differs(Account[i]))
    BY <1>1, TwoAccounts DEF Stored, StoredSoFar, IInv, TypeOK, FileStep
  <2> QED
    BY <1>1, <2>1 DEF IInv, KeychainFollows, InUse
<1> QED
  BY <1>1, <1>2, <1>3 DEF IInv, InUse, UntouchedIsKept, SurvivesCrashes, Migrating, Reading,
     FormIsEdited, LeftoverInUse, TornByFailure, SaveAnnounced

\* Another setting is saved: what the file still held is lost, unless it is in the
\* Keychain already.
LEMMA SaveOtherInv == IInv /\ SaveOther => IInv'
<1> SUFFICES ASSUME IInv, SaveOther PROVE IInv'
  OBVIOUS
<1>1. /\ app = "idle" /\ file' = Blank /\ torn' = torn \cup Lost
      /\ UNCHANGED <<keychain, config, form, app, step, unread, failed, kept, touched, chosen>>
  BY DEF SaveOther, memory
<1>2. TypeOK'
  BY <1>1, BlankType DEF IInv, TypeOK, Lost
<1>3. ~failed => NextLaunch' = NextLaunch
  BY <1>1 DEF IInv, LeftoverInUse, InUse, NextLaunch
<1>4. KeychainFollows'
  <2> SUFFICES ASSUME NEW i \in 1..2, Account[i] \notin unread \cup torn \cup Lost
               PROVE  keychain[Account[i]] = config[Account[i]]
    BY <1>1 DEF KeychainFollows, Stored
  <2>1. CASE file = Blank
    BY <1>1, <2>1 DEF IInv, InUse, KeychainFollows, Stored
  <2>2. CASE file # Blank
    BY <1>1, <2>2, TwoAccounts DEF IInv, InUse, LeftoverInUse, Lost
  <2> QED
    BY <2>1, <2>2
<1>5. ~failed => Lost = {}
  BY <1>1 DEF IInv, LeftoverInUse, InUse, Lost
<1> QED
  BY <1>1, <1>2, <1>3, <1>4, <1>5 DEF IInv, InUse, UntouchedIsKept, SurvivesCrashes, Migrating,
     Reading, FormIsEdited, LeftoverInUse, TornByFailure, SaveAnnounced

\* The application ends, at any point.
LEMMA QuitInv == IInv /\ Quit => IInv'
<1> SUFFICES ASSUME IInv, Quit PROVE IInv'
  OBVIOUS
<1>1. /\ app' = "off" /\ step' = 1 /\ config' = Blank /\ form' = Blank
      /\ UNCHANGED <<file, keychain, unread, failed, torn, kept, touched, chosen>>
  BY DEF Quit, stores, history
<1>2. TypeOK'
  BY <1>1, BlankType DEF IInv, TypeOK, FileStep
<1> QED
  BY <1>1, <1>2 DEF IInv, InUse, UntouchedIsKept, SurvivesCrashes, NextLaunch, Migrating,
     Reading, FormIsEdited, LeftoverInUse, KeychainFollows, TornByFailure, SaveAnnounced

\* Nothing else changes the stores or the settings.
LEMMA StutterInv == IInv /\ UNCHANGED vars => IInv'
BY DEF vars, stores, memory, history, IInv, TypeOK, InUse, UntouchedIsKept, SurvivesCrashes,
   NextLaunch, Migrating, Reading, FormIsEdited, LeftoverInUse, KeychainFollows, Stored,
   Differs, TornByFailure, SaveAnnounced

\* The invariant holds in every reachable state.
LEMMA Invariance == Spec => []IInv
<1>1. IInv /\ [Next]_vars => IInv'
  BY LaunchInv, MigrateSecretInv, MigrateFileInv, MigrationFailsInv, ReadSecretInv,
     ReadFailsInv, FormInv, SaveInv, StoreSecretInv, StoreFileInv, StoreFailsInv,
     SaveOtherInv, QuitInv, StutterInv DEF Next, Load, Use
<1> QED
  BY InitInv, <1>1, PTL DEF Spec

---------------------------------------------------------------------------
\* The Keychain is read only when the file has nothing to move there, in every
\* run of load_secrets and save_settings.
THEOREM TypeCorrect == Spec => []TypeOK
BY Invariance, PTL DEF IInv

\* A Keychain item the user has not edited is what it was at launch, or what the
\* file had for it, whatever fails.
THEOREM UntouchedTheorem == Spec => []UntouchedIsKept
BY Invariance, PTL DEF IInv

\* A migration or a save that is cut off at any point loses no secret.
THEOREM CrashTheorem == Spec => []SurvivesCrashes
BY Invariance, PTL DEF IInv

\* The secrets in use are those of the next launch, but for what could not be read
\* and what a failed write has torn (save_settings, load_secrets).
THEOREM InStepTheorem == Spec => []InStep
<1>1. IInv => InStep
  <2> SUFFICES ASSUME IInv, app = "idle", NEW a \in Accounts \ (unread \cup torn)
               PROVE  config[a] = NextLaunch[a]
    BY DEF InStep
  <2>1. PICK i \in 1..2 : a = Account[i]
    BY TwoAccounts
  <2>2. CASE file = Blank
    BY <2>1, <2>2 DEF IInv, KeychainFollows, Stored, InUse, NextLaunch
  <2>3. CASE file # Blank
    BY <2>3 DEF IInv, LeftoverInUse, InUse, NextLaunch
  <2> QED
    BY <2>2, <2>3
<1> QED
  BY Invariance, <1>1, PTL
===========================================================================
