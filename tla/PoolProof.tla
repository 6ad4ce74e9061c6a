---------------------------- MODULE PoolProof ----------------------------
(***************************************************************************)
(* Proofs about Pool, and about ProxyRun around it, for every number of    *)
(* slots, clients and sessions.                                            *)
(*                                                                         *)
(* The safety properties of Pool are proved together, because they rest on *)
(* each other: IInv adds to them how a supervisor's place is tied to its   *)
(* slot, that what a client has given up on is dead, and that a client     *)
(* which checks on a live session still has a ping out to it or has its    *)
(* answer.                                                                 *)
(*                                                                         *)
(* In a run of the proxy a supervisor may end wherever it is, by a panic   *)
(* or an abort, and leave its slot as it was.  So IInv is about the slots  *)
(* A that still have their supervisor: all of them in Pool alone, and in   *)
(* ProxyRun those whose supervisor has not ended.                          *)
(***************************************************************************)
EXTENDS ProxyRun, FiniteSetTheorems, TLAPS

USE DEF scanVars

\* A slot is occupied exactly while its supervisor serves it, by the session
\* the supervisor holds; what is about to leave its slot is dead already.
SlotFollowsSupervisor(A) ==
  \A i \in A :
    /\ slots[i] # NoSession <=> sup[i] \in {"serving", "clearing"}
    /\ held[i] # NoSession <=> sup[i] \in {"serving", "clearing", "disconnecting"}
    /\ slots[i] # NoSession => slots[i] = held[i]
    /\ sup[i] \in {"clearing", "disconnecting"} => dead[held[i]]

\* NoLostWakeup, for the supervisors of A.
WakesWaiters(A) ==
  \A i \in A, c \in Clients :
    sup[i] = "parked" /\ client[c] \in {"waiting", "timing", "selecting"} => i \in woken

\* What a client has given up on is dead, and its identity is not reused.
TriedAreDead == \A c \in Clients : \A s \in tried[c] : dead[s]

\* A client that checks on its session, still live, has its answer or has a
\* ping out to it.
PingPendingOrAnswered ==
  \A c \in Clients :
    client[c] = "pinging" /\ IsLive(lease[c]) => lease[c] \in pinged[c] \/ answered[c]

IInv(A) ==
  /\ TypeOK
  /\ SlotFollowsSupervisor(A)
  /\ WakesWaiters(A)
  /\ UsableIsInSlot
  /\ TriedAreDead
  /\ RetryElsewhere
  /\ PingPendingOrAnswered
  /\ PatienceIsEarned
  /\ ErrorMeansDown
  /\ ShownCountIsSane

\* A client scans only while it selects, among what is in the slots, and comes
\* upon no session it has given up on.
ScansSlots ==
  \A c \in Clients :
    /\ client[c] # "selecting" => ScanOver(c) /\ best[c] = NoSession
    /\ \A s \in Sessions :
         s \in unread[c] \/ s \in {looking[c], best[c]} => \E i \in Slots : slots[i] = s
    /\ looking[c] \notin tried[c] /\ best[c] \notin tried[c]

---------------------------------------------------------------------------
(* Counting slots *)

\* Sets of slots are finite and their sizes follow inclusion.
LEMMA SlotCounts ==
  ASSUME NEW S \in SUBSET Slots, NEW T \in SUBSET S
  PROVE  Cardinality(T) \in Nat /\ Cardinality(S) \in Nat
           /\ Cardinality(T) <= Cardinality(S)
<1>1. IsFiniteSet(S) /\ IsFiniteSet(T)
  BY PoolAssumption, FS_Subset
<1> QED
  BY <1>1, FS_Subset, FS_CardinalityType

\* The count taken by set_slot is right when it is published, and an error
\* survives it only when nothing is live.
LEMMA SetSlotPublishes ==
  ASSUME NEW i \in Slots, NEW s, SetSlot(i, s), connectError \in BOOLEAN
  PROVE  /\ shown' \in Nat
         /\ connectError' \in BOOLEAN
         /\ ShownCountIsSane'
         /\ ErrorMeansDown'
<1>1. LiveSlots' \in SUBSET OccupiedSlots' /\ OccupiedSlots' \in SUBSET Slots
  BY DEF LiveSlots, OccupiedSlots
<1>2. shown' = Cardinality(LiveSlots')
  BY DEF SetSlot
<1>3. /\ shown' \in Nat
      /\ Cardinality(LiveSlots') <= Cardinality(OccupiedSlots')
  BY <1>1, <1>2, SlotCounts
<1>4. ShownCountIsSane'
  BY <1>2, <1>3 DEF ShownCountIsSane
<1>5. ErrorMeansDown' /\ connectError' \in BOOLEAN
  BY DEF SetSlot, ErrorMeansDown, AnyLive
<1> QED
  BY <1>2, <1>3, <1>4, <1>5

\* A step that leaves the slots, their supervisors and what is shown alone, and
\* brings no session back to life, keeps what is said about these.
LEMMA SessionsOnlyFail ==
  ASSUME NEW A \in SUBSET Slots, IInv(A),
         UNCHANGED <<slots, sup, held, statsVars>>,
         \A s \in Sessions : (dead[s] => dead'[s]) /\ (closed[s] => closed'[s])
  PROVE  SlotFollowsSupervisor(A)' /\ ErrorMeansDown' /\ ShownCountIsSane'
<1>1. SlotFollowsSupervisor(A)'
  BY DEF IInv, TypeOK, SlotFollowsSupervisor
<1>2. LiveSlots' \in SUBSET LiveSlots /\ LiveSlots \in SUBSET Slots
  BY DEF LiveSlots, IsLive, IInv, TypeOK
<1>3. ErrorMeansDown'
  BY <1>2 DEF ErrorMeansDown, AnyLive, IInv, statsVars
<1>4. Cardinality(LiveSlots') \in Nat /\ Cardinality(LiveSlots) \in Nat
        /\ Cardinality(LiveSlots') <= Cardinality(LiveSlots)
  BY <1>2, SlotCounts
<1>5. OccupiedSlots' = OccupiedSlots /\ shown' = shown
  BY DEF OccupiedSlots, statsVars
<1>6. ShownCountIsSane'
  BY <1>4, <1>5 DEF ShownCountIsSane, IInv, TypeOK
<1> QED
  BY <1>1, <1>3, <1>6

\* A load is a number: the clients are finitely many.
LEMMA LoadCounts == \A s : Load(s) \in Nat
<1>1. \A s : {c \in Clients : lease[c] = s} \in SUBSET Clients
  OBVIOUS
<1> QED
  BY <1>1, PoolAssumption, FS_Subset, FS_CardinalityType DEF Load

---------------------------------------------------------------------------
(* Clients *)

\* A new client only subscribes.
LEMMA AcceptInv ==
  ASSUME NEW A \in SUBSET Slots, NEW c \in Clients, IInv(A), Accept(c)
  PROVE  IInv(A)'
<1>1. SlotFollowsSupervisor(A)' /\ ErrorMeansDown' /\ ShownCountIsSane'
  BY SessionsOnlyFail DEF Accept, ClientStep, supVars, sessionVars, statsVars,
     IInv, TypeOK
<1>2. TypeOK'
  BY PoolAssumption DEF IInv, Accept, ClientStep, supVars, sessionVars, statsVars,
     TypeOK, SupervisorStates, ClientStates, Acquiring, Leasing
<1>3. WakesWaiters(A)' /\ UsableIsInSlot' /\ TriedAreDead' /\ RetryElsewhere'
      /\ PingPendingOrAnswered' /\ PatienceIsEarned'
  BY PoolAssumption DEF IInv, TypeOK, Accept, ClientStep, supVars, sessionVars,
     statsVars, IsLive, WakesWaiters, UsableIsInSlot, TriedAreDead,
     RetryElsewhere, PingPendingOrAnswered, PatienceIsEarned
<1> QED
  BY <1>1, <1>2, <1>3 DEF IInv

\* A client that wakes nobody has seen every slot occupied, so nobody sleeps.
LEMMA CheckSlotsInv ==
  ASSUME NEW A \in SUBSET Slots, NEW c \in Clients, IInv(A), CheckSlots(c)
  PROVE  IInv(A)'
<1>1. SlotFollowsSupervisor(A)' /\ ErrorMeansDown' /\ ShownCountIsSane'
  BY SessionsOnlyFail DEF CheckSlots, ClientStep, supVars, sessionVars, statsVars,
     IInv, TypeOK
<1>2. TypeOK'
  BY PoolAssumption DEF IInv, CheckSlots, ClientStep, supVars, sessionVars,
     statsVars, TypeOK, SupervisorStates, ClientStates, Acquiring, Leasing
<1>3. WakesWaiters(A)'
  BY PoolAssumption DEF IInv, TypeOK, CheckSlots, ClientStep, supVars,
     sessionVars, statsVars, WakesWaiters, SlotFollowsSupervisor, LiveSlots
<1>4. UsableIsInSlot' /\ TriedAreDead' /\ RetryElsewhere' /\ PingPendingOrAnswered'
      /\ PatienceIsEarned'
  BY PoolAssumption DEF IInv, TypeOK, CheckSlots, ClientStep, supVars,
     sessionVars, statsVars, IsLive, UsableIsInSlot, TriedAreDead, RetryElsewhere,
     PingPendingOrAnswered, PatienceIsEarned
<1> QED
  BY <1>1, <1>2, <1>3, <1>4 DEF IInv

\* notify_waiters leaves no supervisor asleep without its wake-up.
LEMMA NotifyWaitersInv ==
  ASSUME NEW A \in SUBSET Slots, NEW c \in Clients, IInv(A), NotifyWaiters(c)
  PROVE  IInv(A)'
<1>1. SlotFollowsSupervisor(A)' /\ ErrorMeansDown' /\ ShownCountIsSane'
  BY SessionsOnlyFail DEF NotifyWaiters, ClientStep, supVars, sessionVars,
     statsVars, IInv, TypeOK
<1>2. TypeOK'
  BY PoolAssumption DEF IInv, NotifyWaiters, ClientStep, supVars, sessionVars,
     statsVars, TypeOK, SupervisorStates, ClientStates, Acquiring, Leasing
<1>3. WakesWaiters(A)'
  BY PoolAssumption DEF IInv, TypeOK, NotifyWaiters, ClientStep, supVars,
     sessionVars, statsVars, WakesWaiters, SlotFollowsSupervisor, LiveSlots
<1>4. UsableIsInSlot' /\ TriedAreDead' /\ RetryElsewhere' /\ PingPendingOrAnswered'
      /\ PatienceIsEarned'
  BY PoolAssumption DEF IInv, TypeOK, NotifyWaiters, ClientStep, supVars,
     sessionVars, statsVars, IsLive, UsableIsInSlot, TriedAreDead, RetryElsewhere,
     PingPendingOrAnswered, PatienceIsEarned
<1> QED
  BY <1>1, <1>2, <1>3, <1>4 DEF IInv

\* A client that waited goes on to select.
LEMMA SessionReadyInv ==
  ASSUME NEW A \in SUBSET Slots, NEW c \in Clients, IInv(A), SessionReady(c)
  PROVE  IInv(A)'
<1>1. SlotFollowsSupervisor(A)' /\ ErrorMeansDown' /\ ShownCountIsSane'
  BY SessionsOnlyFail DEF SessionReady, ClientStep, supVars, sessionVars,
     statsVars, IInv, TypeOK
<1>2. TypeOK'
  BY PoolAssumption DEF IInv, SessionReady, ClientStep, supVars, sessionVars,
     statsVars, TypeOK, SupervisorStates, ClientStates, Acquiring, Leasing
<1>3. WakesWaiters(A)'
  BY PoolAssumption DEF IInv, TypeOK, SessionReady, ClientStep, supVars,
     sessionVars, statsVars, WakesWaiters, SlotFollowsSupervisor, LiveSlots
<1>4. UsableIsInSlot' /\ TriedAreDead' /\ RetryElsewhere' /\ PingPendingOrAnswered'
      /\ PatienceIsEarned'
  BY PoolAssumption DEF IInv, TypeOK, SessionReady, ClientStep, supVars,
     sessionVars, statsVars, IsLive, UsableIsInSlot, TriedAreDead, RetryElsewhere,
     PingPendingOrAnswered, PatienceIsEarned
<1> QED
  BY <1>1, <1>2, <1>3, <1>4 DEF IInv

\* A client that found nothing looks at its timer.
LEMMA PollPendingInv ==
  ASSUME NEW A \in SUBSET Slots, NEW c \in Clients, IInv(A), PollPending(c)
  PROVE  IInv(A)'
<1>1. SlotFollowsSupervisor(A)' /\ ErrorMeansDown' /\ ShownCountIsSane'
  BY SessionsOnlyFail DEF PollPending, ClientStep, supVars, sessionVars, statsVars,
     IInv, TypeOK
<1>2. TypeOK'
  BY PoolAssumption, LoadCounts DEF IInv, PollPending, ClientStep, supVars, sessionVars,
     statsVars, TypeOK, SupervisorStates, ClientStates, Acquiring, Leasing
<1>3. WakesWaiters(A)' /\ UsableIsInSlot' /\ TriedAreDead' /\ RetryElsewhere'
      /\ PingPendingOrAnswered' /\ PatienceIsEarned'
  BY PoolAssumption DEF IInv, TypeOK, PollPending, ClientStep, supVars, sessionVars,
     statsVars, IsLive, WakesWaiters, UsableIsInSlot, TriedAreDead, RetryElsewhere,
     PingPendingOrAnswered, PatienceIsEarned
<1> QED
  BY <1>1, <1>2, <1>3 DEF IInv

\* A timer that runs on leaves the client waiting.
LEMMA TimerPendingInv ==
  ASSUME NEW A \in SUBSET Slots, NEW c \in Clients, IInv(A), TimerPending(c)
  PROVE  IInv(A)'
<1>1. SlotFollowsSupervisor(A)' /\ ErrorMeansDown' /\ ShownCountIsSane'
  BY SessionsOnlyFail DEF TimerPending, ClientStep, supVars, sessionVars, statsVars,
     IInv, TypeOK
<1>2. TypeOK'
  BY PoolAssumption, LoadCounts DEF IInv, TimerPending, ClientStep, supVars, sessionVars,
     statsVars, TypeOK, SupervisorStates, ClientStates, Acquiring, Leasing
<1>3. WakesWaiters(A)' /\ UsableIsInSlot' /\ TriedAreDead' /\ RetryElsewhere'
      /\ PingPendingOrAnswered' /\ PatienceIsEarned'
  BY PoolAssumption DEF IInv, TypeOK, TimerPending, ClientStep, supVars, sessionVars,
     statsVars, IsLive, WakesWaiters, UsableIsInSlot, TriedAreDead, RetryElsewhere,
     PingPendingOrAnswered, PatienceIsEarned
<1> QED
  BY <1>1, <1>2, <1>3 DEF IInv

\* The filter only reads.
LEMMA LookInv ==
  ASSUME NEW A \in SUBSET Slots, NEW c \in Clients, NEW s \in Sessions, IInv(A), Look(c, s)
  PROVE  IInv(A)'
<1>1. SlotFollowsSupervisor(A)' /\ ErrorMeansDown' /\ ShownCountIsSane'
  BY SessionsOnlyFail DEF Look, ClientStep, supVars, sessionVars, statsVars,
     IInv, TypeOK
<1>2. TypeOK'
  BY PoolAssumption, LoadCounts DEF IInv, Look, ClientStep, supVars, sessionVars,
     statsVars, TypeOK, SupervisorStates, ClientStates, Acquiring, Leasing
<1>3. WakesWaiters(A)' /\ UsableIsInSlot' /\ TriedAreDead' /\ RetryElsewhere'
      /\ PingPendingOrAnswered' /\ PatienceIsEarned'
  BY PoolAssumption DEF IInv, TypeOK, Look, ClientStep, supVars, sessionVars,
     statsVars, IsLive, WakesWaiters, UsableIsInSlot, TriedAreDead, RetryElsewhere,
     PingPendingOrAnswered, PatienceIsEarned
<1> QED
  BY <1>1, <1>2, <1>3 DEF IInv

\* So does the comparison of loads.
LEMMA ReadLoadInv ==
  ASSUME NEW A \in SUBSET Slots, NEW c \in Clients, IInv(A), ReadLoad(c)
  PROVE  IInv(A)'
<1>1. SlotFollowsSupervisor(A)' /\ ErrorMeansDown' /\ ShownCountIsSane'
  BY SessionsOnlyFail DEF ReadLoad, ClientStep, supVars, sessionVars, statsVars,
     IInv, TypeOK
<1>2. TypeOK'
  BY PoolAssumption, LoadCounts DEF IInv, ReadLoad, ClientStep, supVars, sessionVars,
     statsVars, TypeOK, SupervisorStates, ClientStates, Acquiring, Leasing
<1>3. WakesWaiters(A)' /\ UsableIsInSlot' /\ TriedAreDead' /\ RetryElsewhere'
      /\ PingPendingOrAnswered' /\ PatienceIsEarned'
  BY PoolAssumption DEF IInv, TypeOK, ReadLoad, ClientStep, supVars, sessionVars,
     statsVars, IsLive, WakesWaiters, UsableIsInSlot, TriedAreDead, RetryElsewhere,
     PingPendingOrAnswered, PatienceIsEarned
<1> QED
  BY <1>1, <1>2, <1>3 DEF IInv

\* A client that gives up forgets what it tried.
LEMMA WaitTimeoutInv ==
  ASSUME NEW A \in SUBSET Slots, NEW c \in Clients, IInv(A), WaitTimeout(c)
  PROVE  IInv(A)'
<1>1. SlotFollowsSupervisor(A)' /\ ErrorMeansDown' /\ ShownCountIsSane'
  BY SessionsOnlyFail DEF WaitTimeout, ClientStep, supVars, sessionVars,
     statsVars, IInv, TypeOK
<1>2. TypeOK'
  BY PoolAssumption DEF IInv, WaitTimeout, ClientStep, supVars, sessionVars,
     statsVars, TypeOK, SupervisorStates, ClientStates, Acquiring, Leasing
<1>3. WakesWaiters(A)' /\ UsableIsInSlot' /\ TriedAreDead' /\ RetryElsewhere'
      /\ PingPendingOrAnswered' /\ PatienceIsEarned'
  BY PoolAssumption DEF IInv, TypeOK, WaitTimeout, ClientStep, supVars,
     sessionVars, statsVars, IsLive, WakesWaiters, UsableIsInSlot, TriedAreDead,
     RetryElsewhere, PingPendingOrAnswered, PatienceIsEarned
<1> QED
  BY <1>1, <1>2, <1>3 DEF IInv

\* What is selected is in a slot, alive or not, and not among the sessions tried.
LEMMA SelectInv ==
  ASSUME NEW A \in SUBSET Slots, NEW c \in Clients, IInv(A), ScansSlots, Select(c)
  PROVE  IInv(A)'
<1>1. SlotFollowsSupervisor(A)' /\ ErrorMeansDown' /\ ShownCountIsSane'
  BY SessionsOnlyFail DEF Select, ClientStep, supVars, sessionVars, statsVars,
     IInv, TypeOK
<1>2. TypeOK'
  BY PoolAssumption DEF IInv, Select, ClientStep, supVars, sessionVars, statsVars,
     TypeOK, SupervisorStates, ClientStates, Acquiring, Leasing
<1>3. UsableIsInSlot'
  BY PoolAssumption DEF IInv, TypeOK, Select, ClientStep, supVars, sessionVars,
     statsVars, UsableIsInSlot, ScansSlots
<1>4. RetryElsewhere'
  BY PoolAssumption DEF IInv, TypeOK, Select, ClientStep, supVars, sessionVars,
     statsVars, RetryElsewhere, ScansSlots
<1>5. PingPendingOrAnswered'
  BY PoolAssumption DEF IInv, TypeOK, Select, ClientStep, supVars, sessionVars,
     statsVars, PingPendingOrAnswered, IsLive, Leasing
<1>6. WakesWaiters(A)' /\ TriedAreDead' /\ PatienceIsEarned'
  BY PoolAssumption DEF IInv, TypeOK, Select, ClientStep, supVars, sessionVars,
     statsVars, IsLive, WakesWaiters, TriedAreDead, PatienceIsEarned
<1> QED
  BY <1>1, <1>2, <1>3, <1>4, <1>5, <1>6 DEF IInv

\* A client that finds nothing to select is refused.
LEMMA SelectNoneInv ==
  ASSUME NEW A \in SUBSET Slots, NEW c \in Clients, IInv(A), SelectNone(c)
  PROVE  IInv(A)'
<1>1. SlotFollowsSupervisor(A)' /\ ErrorMeansDown' /\ ShownCountIsSane'
  BY SessionsOnlyFail DEF SelectNone, ClientStep, supVars, sessionVars, statsVars,
     IInv, TypeOK
<1>2. TypeOK'
  BY PoolAssumption DEF IInv, SelectNone, ClientStep, supVars, sessionVars,
     statsVars, TypeOK, SupervisorStates, ClientStates, Acquiring, Leasing
<1>3. WakesWaiters(A)' /\ UsableIsInSlot' /\ TriedAreDead' /\ RetryElsewhere'
      /\ PingPendingOrAnswered' /\ PatienceIsEarned'
  BY PoolAssumption DEF IInv, TypeOK, SelectNone, ClientStep, supVars,
     sessionVars, statsVars, IsLive, WakesWaiters, UsableIsInSlot, TriedAreDead,
     RetryElsewhere, PingPendingOrAnswered, PatienceIsEarned
<1> QED
  BY <1>1, <1>2, <1>3 DEF IInv

\* An opened channel ends the checks.
LEMMA OpenOkInv ==
  ASSUME NEW A \in SUBSET Slots, NEW c \in Clients, IInv(A), OpenOk(c)
  PROVE  IInv(A)'
<1>1. SlotFollowsSupervisor(A)' /\ ErrorMeansDown' /\ ShownCountIsSane'
  BY SessionsOnlyFail DEF OpenOk, ClientStep, supVars, sessionVars, statsVars,
     AwaitingOpen, DropPings, IInv, TypeOK
<1>2. TypeOK'
  BY PoolAssumption DEF IInv, OpenOk, ClientStep, supVars, sessionVars, statsVars,
     AwaitingOpen, DropPings, TypeOK, SupervisorStates, ClientStates, Acquiring,
     Leasing
<1>3. WakesWaiters(A)' /\ UsableIsInSlot' /\ TriedAreDead' /\ RetryElsewhere'
      /\ PingPendingOrAnswered' /\ PatienceIsEarned'
  BY PoolAssumption DEF IInv, TypeOK, OpenOk, ClientStep, supVars, sessionVars,
     statsVars, AwaitingOpen, DropPings, IsLive, WakesWaiters, UsableIsInSlot,
     TriedAreDead, RetryElsewhere, PingPendingOrAnswered, PatienceIsEarned
<1> QED
  BY <1>1, <1>2, <1>3 DEF IInv

\* The session of a stalled client, if live, is among those pinged.
LEMMA StallInv ==
  ASSUME NEW A \in SUBSET Slots, NEW c \in Clients, IInv(A), Stall(c)
  PROVE  IInv(A)'
<1>1. SlotFollowsSupervisor(A)' /\ ErrorMeansDown' /\ ShownCountIsSane'
  BY SessionsOnlyFail DEF Stall, ClientStep, supVars, sessionVars, statsVars,
     IInv, TypeOK
<1>2. TypeOK'
  BY PoolAssumption DEF IInv, Stall, ClientStep, supVars, sessionVars, statsVars,
     TypeOK, SupervisorStates, ClientStates, Acquiring, Leasing, LiveSlots
<1>3. PingPendingOrAnswered'
  BY PoolAssumption DEF IInv, TypeOK, Stall, ClientStep, supVars, sessionVars,
     statsVars, PingPendingOrAnswered, UsableIsInSlot, LiveSlots, IsLive, Leasing
<1>4. WakesWaiters(A)' /\ UsableIsInSlot' /\ TriedAreDead' /\ RetryElsewhere'
      /\ PatienceIsEarned'
  BY PoolAssumption DEF IInv, TypeOK, Stall, ClientStep, supVars, sessionVars,
     statsVars, IsLive, WakesWaiters, UsableIsInSlot, TriedAreDead,
     RetryElsewhere, PatienceIsEarned
<1> QED
  BY <1>1, <1>2, <1>3, <1>4 DEF IInv

\* An answer of the client's own session is remembered.
LEMMA PingAnsweredInv ==
  ASSUME NEW A \in SUBSET Slots, NEW c \in Clients, NEW s \in Sessions, IInv(A),
         PingAnswered(c, s)
  PROVE  IInv(A)'
<1>1. SlotFollowsSupervisor(A)' /\ ErrorMeansDown' /\ ShownCountIsSane'
  BY SessionsOnlyFail DEF PingAnswered, ClientStep, supVars, sessionVars,
     statsVars, IInv, TypeOK
<1>2. TypeOK'
  BY PoolAssumption DEF IInv, PingAnswered, ClientStep, supVars, sessionVars,
     statsVars, TypeOK, SupervisorStates, ClientStates, Acquiring, Leasing
<1>3. PingPendingOrAnswered'
  BY PoolAssumption DEF IInv, TypeOK, PingAnswered, ClientStep, supVars,
     sessionVars, statsVars, PingPendingOrAnswered, UsableIsInSlot, LiveSlots,
     IsLive, Leasing
<1>4. PatienceIsEarned'
  BY PoolAssumption DEF IInv, TypeOK, PingAnswered, ClientStep, supVars,
     sessionVars, statsVars, PatienceIsEarned, PingPendingOrAnswered
<1>5. WakesWaiters(A)' /\ UsableIsInSlot' /\ TriedAreDead' /\ RetryElsewhere'
  BY PoolAssumption DEF IInv, TypeOK, PingAnswered, ClientStep, supVars,
     sessionVars, statsVars, IsLive, WakesWaiters, UsableIsInSlot, TriedAreDead,
     RetryElsewhere
<1> QED
  BY <1>1, <1>2, <1>3, <1>4, <1>5 DEF IInv

\* A session that does not answer is killed, so it is not live any more.
LEMMA PingFailedInv ==
  ASSUME NEW A \in SUBSET Slots, NEW c \in Clients, NEW s \in Sessions, IInv(A),
         PingFailed(c, s)
  PROVE  IInv(A)'
<1>1. SlotFollowsSupervisor(A)' /\ ErrorMeansDown' /\ ShownCountIsSane'
  BY SessionsOnlyFail DEF PingFailed, ClientStep, supVars, sessionVars, statsVars,
     Kill, IInv, TypeOK
<1>2. TypeOK'
  BY PoolAssumption DEF IInv, PingFailed, ClientStep, supVars, sessionVars,
     statsVars, Kill, TypeOK, SupervisorStates, ClientStates, Acquiring, Leasing
<1>3. UsableIsInSlot'
  BY PoolAssumption DEF IInv, TypeOK, PingFailed, ClientStep, supVars,
     sessionVars, statsVars, Kill, UsableIsInSlot, SlotFollowsSupervisor,
     LiveSlots, IsLive
<1>4. PingPendingOrAnswered'
  BY PoolAssumption DEF IInv, TypeOK, PingFailed, ClientStep, supVars,
     sessionVars, statsVars, Kill, PingPendingOrAnswered, UsableIsInSlot,
     LiveSlots, IsLive, Leasing
<1>5. WakesWaiters(A)' /\ TriedAreDead' /\ RetryElsewhere' /\ PatienceIsEarned'
  BY PoolAssumption DEF IInv, TypeOK, PingFailed, ClientStep, supVars,
     sessionVars, statsVars, Kill, IsLive, WakesWaiters, TriedAreDead,
     RetryElsewhere, PatienceIsEarned
<1> QED
  BY <1>1, <1>2, <1>3, <1>4, <1>5 DEF IInv

\* With no ping left out, a session that is live has answered.
LEMMA CheckedLiveInv ==
  ASSUME NEW A \in SUBSET Slots, NEW c \in Clients, IInv(A), CheckedLive(c)
  PROVE  IInv(A)'
<1>1. SlotFollowsSupervisor(A)' /\ ErrorMeansDown' /\ ShownCountIsSane'
  BY SessionsOnlyFail DEF CheckedLive, ClientStep, supVars, sessionVars,
     statsVars, IInv, TypeOK
<1>2. TypeOK'
  BY PoolAssumption DEF IInv, CheckedLive, ClientStep, supVars, sessionVars,
     statsVars, TypeOK, SupervisorStates, ClientStates, Acquiring, Leasing
<1>3. PatienceIsEarned'
  BY PoolAssumption DEF IInv, TypeOK, CheckedLive, ClientStep, supVars,
     sessionVars, statsVars, PatienceIsEarned, PingPendingOrAnswered
<1>4. WakesWaiters(A)' /\ UsableIsInSlot' /\ TriedAreDead' /\ RetryElsewhere'
      /\ PingPendingOrAnswered'
  BY PoolAssumption DEF IInv, TypeOK, CheckedLive, ClientStep, supVars,
     sessionVars, statsVars, IsLive, WakesWaiters, UsableIsInSlot, TriedAreDead,
     RetryElsewhere, PingPendingOrAnswered
<1> QED
  BY <1>1, <1>2, <1>3, <1>4 DEF IInv

\* The tunnel begins on the same lease.
LEMMA ReplyOkInv ==
  ASSUME NEW A \in SUBSET Slots, NEW c \in Clients, IInv(A), ReplyOk(c)
  PROVE  IInv(A)'
<1>1. SlotFollowsSupervisor(A)' /\ ErrorMeansDown' /\ ShownCountIsSane'
  BY SessionsOnlyFail DEF ReplyOk, ClientStep, supVars, sessionVars, statsVars,
     IInv, TypeOK
<1>2. TypeOK'
  BY PoolAssumption DEF IInv, ReplyOk, ClientStep, supVars, sessionVars,
     statsVars, TypeOK, SupervisorStates, ClientStates, Acquiring, Leasing
<1>3. WakesWaiters(A)' /\ UsableIsInSlot' /\ TriedAreDead' /\ RetryElsewhere'
      /\ PingPendingOrAnswered' /\ PatienceIsEarned'
  BY PoolAssumption DEF IInv, TypeOK, ReplyOk, ClientStep, supVars, sessionVars,
     statsVars, IsLive, WakesWaiters, UsableIsInSlot, TriedAreDead,
     RetryElsewhere, PingPendingOrAnswered, PatienceIsEarned
<1> QED
  BY <1>1, <1>2, <1>3 DEF IInv

\* The tunnel ends with the lease still held.
LEMMA TunnelEndsInv ==
  ASSUME NEW A \in SUBSET Slots, NEW c \in Clients, IInv(A), TunnelEnds(c)
  PROVE  IInv(A)'
<1>1. SlotFollowsSupervisor(A)' /\ ErrorMeansDown' /\ ShownCountIsSane'
  BY SessionsOnlyFail DEF TunnelEnds, ClientStep, supVars, sessionVars, statsVars,
     IInv, TypeOK
<1>2. TypeOK'
  BY PoolAssumption DEF IInv, TunnelEnds, ClientStep, supVars, sessionVars,
     statsVars, TypeOK, SupervisorStates, ClientStates, Acquiring, Leasing
<1>3. WakesWaiters(A)' /\ UsableIsInSlot' /\ TriedAreDead' /\ RetryElsewhere'
      /\ PingPendingOrAnswered' /\ PatienceIsEarned'
  BY PoolAssumption DEF IInv, TypeOK, TunnelEnds, ClientStep, supVars,
     sessionVars, statsVars, IsLive, WakesWaiters, UsableIsInSlot, TriedAreDead,
     RetryElsewhere, PingPendingOrAnswered, PatienceIsEarned
<1> QED
  BY <1>1, <1>2, <1>3 DEF IInv

\* The end of a client's task, whether or not it has killed its session.
LEMMA TaskEndsInv ==
  ASSUME NEW A \in SUBSET Slots, NEW c \in Clients, NEW from \in SUBSET Leasing, IInv(A),
         TaskEnds(c, from),
         UNCHANGED <<dead, permit>> \/ Kill(lease[c])
  PROVE  IInv(A)'
<1> DEFINE Frame ==
      /\ \A s \in Sessions : (dead[s] => dead'[s]) /\ (dead'[s] \in BOOLEAN)
      /\ permit' \in [Sessions -> BOOLEAN] /\ dead' \in [Sessions -> BOOLEAN]
<1>1. lease[c] \in Sessions
  BY DEF IInv, TypeOK, TaskEnds, ClientStep
<1>2. Frame
  BY <1>1 DEF IInv, TypeOK, Kill
<1>3. /\ client' = [client EXCEPT ![c] = "idle"]
      /\ lease' = [lease EXCEPT ![c] = NoSession]
      /\ tried' = [tried EXCEPT ![c] = {}]
      /\ pinged' = [pinged EXCEPT ![c] = {}]
      /\ answered' = [answered EXCEPT ![c] = FALSE]
      /\ calm' = {}
      /\ UNCHANGED <<slots, sup, held, woken, attempt, scanVars, closed, statsVars>>
  BY DEF TaskEnds, ClientStep, DropLease, DropPings, supVars
<1> HIDE DEF Frame
<1>4. SlotFollowsSupervisor(A)' /\ ErrorMeansDown' /\ ShownCountIsSane'
  BY <1>2, <1>3, SessionsOnlyFail DEF Frame
<1>5. TypeOK'
  BY <1>2, <1>3 DEF Frame, IInv, TypeOK, ClientStates, Leasing, statsVars
<1>6. WakesWaiters(A)' /\ UsableIsInSlot' /\ TriedAreDead' /\ RetryElsewhere'
  BY <1>2, <1>3, PoolAssumption
     DEF Frame, IInv, TypeOK, WakesWaiters, UsableIsInSlot, TriedAreDead, RetryElsewhere
<1>7. PingPendingOrAnswered' /\ PatienceIsEarned'
  BY <1>2, <1>3 DEF Frame, IInv, TypeOK, PingPendingOrAnswered, PatienceIsEarned,
     IsLive, Leasing
<1> QED
  BY <1>4, <1>5, <1>6, <1>7 DEF IInv

\* A failed session: the client goes round open_channel's loop or gives up.
LEMMA SessionFailedInv ==
  ASSUME NEW A \in SUBSET Slots, NEW c \in Clients, NEW from \in SUBSET AwaitingOpen,
         IInv(A), SessionFailed(c, from)
  PROVE  IInv(A)'
<1>1. Kill(lease[c])
  BY DEF SessionFailed
<1>2. CASE attempt[c] < Attempts
  <2>1. /\ client[c] \in AwaitingOpen
        /\ client' = [client EXCEPT ![c] = "asking"]
        /\ attempt' = [attempt EXCEPT ![c] = @ + 1]
        /\ tried' = [tried EXCEPT ![c] = @ \cup {lease[c]}]
        /\ lease' = [lease EXCEPT ![c] = NoSession]
        /\ pinged' = [pinged EXCEPT ![c] = {}]
        /\ answered' = [answered EXCEPT ![c] = FALSE]
        /\ calm' = {}
        /\ UNCHANGED <<slots, sup, held, woken, scanVars, closed, statsVars>>
    BY <1>2 DEF SessionFailed, RetryOrGiveUp, ClientStep, DropLease, DropPings,
       supVars
  <2>2. lease[c] \in Sessions
    BY <2>1 DEF IInv, TypeOK, AwaitingOpen, Leasing
  <2>3. /\ dead' = [dead EXCEPT ![lease[c]] = TRUE]
        /\ permit' \in [Sessions -> BOOLEAN]
    BY <1>1, <2>2 DEF Kill, IInv, TypeOK
  <2>4. SlotFollowsSupervisor(A)' /\ ErrorMeansDown' /\ ShownCountIsSane'
    BY <2>1, <2>2, <2>3, SessionsOnlyFail DEF IInv, TypeOK
  <2>5. TypeOK'
    <3>1. attempt' \in [Clients -> 1..Attempts]
      BY <1>2, <2>1, PoolAssumption DEF IInv, TypeOK
    <3>2. tried' \in [Clients -> SUBSET Sessions]
      BY <2>1, <2>2 DEF IInv, TypeOK
    <3> QED
      BY <2>1, <2>2, <2>3, <3>1, <3>2
         DEF IInv, TypeOK, ClientStates, Acquiring, Leasing, statsVars
  <2>6. WakesWaiters(A)' /\ UsableIsInSlot'
    BY <2>1, <2>2, <2>3 DEF IInv, TypeOK, WakesWaiters, UsableIsInSlot
  <2>7. TriedAreDead'
    BY <2>1, <2>2, <2>3 DEF IInv, TypeOK, TriedAreDead
  <2>8. RetryElsewhere'
    BY <2>1, <2>2, PoolAssumption DEF IInv, TypeOK, RetryElsewhere
  <2>9. PingPendingOrAnswered' /\ PatienceIsEarned'
    BY <2>1, <2>2, <2>3 DEF IInv, TypeOK, PingPendingOrAnswered,
       PatienceIsEarned, IsLive, Leasing
  <2> QED
    BY <2>4, <2>5, <2>6, <2>7, <2>8, <2>9 DEF IInv
<1>3. CASE ~(attempt[c] < Attempts)
  <2>1. TaskEnds(c, from)
    BY <1>3 DEF SessionFailed, RetryOrGiveUp
  <2> QED
    BY <1>1, <2>1, TaskEndsInv DEF AwaitingOpen, Leasing
<1> QED
  BY <1>2, <1>3

---------------------------------------------------------------------------
(* Supervisors and the network *)

\* A new session takes an identity nothing refers to.
LEMMA ConnectOkInv ==
  ASSUME NEW A \in SUBSET Slots, NEW i \in A, NEW s \in Sessions, IInv(A), ConnectOk(i, s)
  PROVE  IInv(A)'
<1>1. SetSlot(i, s)
  BY DEF ConnectOk, SupStep, clientVars, SetSlot, Unused
<1>2. shown' \in Nat /\ connectError' \in BOOLEAN /\ ShownCountIsSane'
      /\ ErrorMeansDown'
  BY <1>1, SetSlotPublishes DEF IInv, TypeOK
<1>3. TypeOK'
  BY <1>2, PoolAssumption DEF IInv, ConnectOk, SupStep, clientVars, SetSlot,
     Unused, TypeOK, SupervisorStates, ClientStates, Acquiring, Leasing
<1>4. SlotFollowsSupervisor(A)'
  BY PoolAssumption DEF IInv, TypeOK, ConnectOk, SupStep, clientVars, SetSlot,
     Unused, SlotFollowsSupervisor
<1>5. WakesWaiters(A)'
  BY PoolAssumption DEF IInv, TypeOK, ConnectOk, SupStep, clientVars, SetSlot,
     Unused, WakesWaiters, SlotFollowsSupervisor, LiveSlots
<1>6. UsableIsInSlot'
  BY PoolAssumption DEF IInv, TypeOK, ConnectOk, SupStep, clientVars, SetSlot,
     Unused, UsableIsInSlot, SlotFollowsSupervisor, LiveSlots, IsLive
<1>7. TriedAreDead'
  BY PoolAssumption DEF IInv, TypeOK, ConnectOk, SupStep, clientVars, SetSlot,
     Unused, TriedAreDead
<1>8. RetryElsewhere'
  BY PoolAssumption DEF IInv, TypeOK, ConnectOk, SupStep, clientVars, SetSlot,
     Unused, RetryElsewhere, TriedAreDead, LiveSlots, IsLive
<1>9. PingPendingOrAnswered'
  BY PoolAssumption DEF IInv, TypeOK, ConnectOk, SupStep, clientVars, SetSlot,
     Unused, PingPendingOrAnswered, UsableIsInSlot, LiveSlots, IsLive, Leasing
<1>10. PatienceIsEarned'
  BY PoolAssumption DEF IInv, TypeOK, ConnectOk, SupStep, clientVars, SetSlot,
     Unused, IsLive, PatienceIsEarned
<1> QED
  BY <1>1, <1>2, <1>3, <1>4, <1>5, <1>6, <1>7, <1>8, <1>9, <1>10 DEF IInv

\* A failed connect is shown only when no session is live.
LEMMA ConnectErrInv ==
  ASSUME NEW A \in SUBSET Slots, NEW i \in A, IInv(A), ConnectErr(i)
  PROVE  IInv(A)'
<1>1. UNCHANGED <<slots, dead, closed, shown>>
  BY DEF ConnectErr, SupStep, clientVars, sessionVars
<1>2. LiveSlots' = LiveSlots /\ OccupiedSlots' = OccupiedSlots
  BY <1>1 DEF LiveSlots, OccupiedSlots, IsLive
<1>3. ErrorMeansDown' /\ ShownCountIsSane'
  BY <1>1, <1>2 DEF ConnectErr, SupStep, clientVars, sessionVars, IInv,
     ErrorMeansDown, AnyLive, ShownCountIsSane
<1>4. TypeOK'
  BY PoolAssumption DEF IInv, ConnectErr, SupStep, clientVars, sessionVars,
     TypeOK, SupervisorStates, ClientStates, Acquiring, Leasing
<1>5. SlotFollowsSupervisor(A)'
  BY PoolAssumption DEF IInv, TypeOK, ConnectErr, SupStep, clientVars,
     sessionVars, SlotFollowsSupervisor
<1>6. WakesWaiters(A)'
  BY PoolAssumption DEF IInv, TypeOK, ConnectErr, SupStep, clientVars,
     sessionVars, WakesWaiters, SlotFollowsSupervisor, LiveSlots
<1>7. UsableIsInSlot' /\ TriedAreDead' /\ RetryElsewhere' /\ PingPendingOrAnswered'
      /\ PatienceIsEarned'
  BY PoolAssumption DEF IInv, TypeOK, ConnectErr, SupStep, clientVars,
     sessionVars, IsLive, UsableIsInSlot, TriedAreDead, RetryElsewhere,
     PingPendingOrAnswered, PatienceIsEarned
<1> QED
  BY <1>1, <1>2, <1>3, <1>4, <1>5, <1>6, <1>7 DEF IInv

\* A lost session is dead before it leaves its slot.
LEMMA SessionLostInv ==
  ASSUME NEW A \in SUBSET Slots, NEW i \in A, IInv(A), SessionLost(i)
  PROVE  IInv(A)'
<1>1. LiveSlots' \in SUBSET LiveSlots /\ LiveSlots \in SUBSET Slots
  BY DEF SessionLost, SupStep, clientVars, statsVars, LiveSlots, IsLive, IInv,
     TypeOK, SlotFollowsSupervisor
<1>2. UNCHANGED <<slots, shown, connectError>>
  BY DEF SessionLost, SupStep, clientVars, statsVars
<1>3. ErrorMeansDown'
  BY <1>1, <1>2 DEF ErrorMeansDown, AnyLive, IInv
<1>4. Cardinality(LiveSlots') \in Nat /\ Cardinality(LiveSlots) \in Nat
      /\ Cardinality(LiveSlots') <= Cardinality(LiveSlots)
  BY <1>1, SlotCounts
<1>5. ShownCountIsSane'
  BY <1>2, <1>4 DEF ShownCountIsSane, OccupiedSlots, IInv, TypeOK
<1>6. TypeOK'
  BY PoolAssumption DEF IInv, SessionLost, SupStep, clientVars, statsVars, TypeOK,
     SupervisorStates, ClientStates, Acquiring, Leasing
<1>7. SlotFollowsSupervisor(A)'
  BY PoolAssumption DEF IInv, TypeOK, SessionLost, SupStep, clientVars, statsVars,
     SlotFollowsSupervisor
<1>8. PingPendingOrAnswered'
  BY PoolAssumption DEF IInv, TypeOK, SessionLost, SupStep, clientVars, statsVars,
     PingPendingOrAnswered, UsableIsInSlot, LiveSlots, IsLive, Leasing
<1>9. WakesWaiters(A)' /\ UsableIsInSlot' /\ TriedAreDead' /\ RetryElsewhere'
      /\ PatienceIsEarned'
  BY PoolAssumption DEF IInv, TypeOK, SessionLost, SupStep, clientVars, statsVars,
     IsLive, WakesWaiters, UsableIsInSlot, TriedAreDead, RetryElsewhere,
     PatienceIsEarned
<1> QED
  BY <1>1, <1>2, <1>3, <1>4, <1>5, <1>6, <1>7, <1>8, <1>9 DEF IInv

\* Emptying a slot publishes the count of what is left.
LEMMA ClearSlotInv ==
  ASSUME NEW A \in SUBSET Slots, NEW i \in A, IInv(A), ClearSlot(i)
  PROVE  IInv(A)'
<1>1. SetSlot(i, NoSession)
  BY DEF ClearSlot, SupStep, clientVars, sessionVars, SetSlot
<1>2. shown' \in Nat /\ connectError' \in BOOLEAN /\ ShownCountIsSane'
      /\ ErrorMeansDown'
  BY <1>1, SetSlotPublishes DEF IInv, TypeOK
<1>3. TypeOK'
  BY <1>2, PoolAssumption DEF IInv, ClearSlot, SupStep, clientVars, sessionVars,
     SetSlot, TypeOK, SupervisorStates, ClientStates, Acquiring, Leasing
<1>4. SlotFollowsSupervisor(A)'
  BY PoolAssumption DEF IInv, TypeOK, ClearSlot, SupStep, clientVars, sessionVars,
     SetSlot, SlotFollowsSupervisor
<1>5. WakesWaiters(A)'
  BY PoolAssumption DEF IInv, TypeOK, ClearSlot, SupStep, clientVars, sessionVars,
     SetSlot, WakesWaiters, SlotFollowsSupervisor, LiveSlots
<1>6. UsableIsInSlot'
  BY PoolAssumption DEF IInv, TypeOK, ClearSlot, SupStep, clientVars, sessionVars,
     SetSlot, UsableIsInSlot, SlotFollowsSupervisor, LiveSlots, IsLive
<1>7. TriedAreDead' /\ RetryElsewhere' /\ PingPendingOrAnswered' /\ PatienceIsEarned'
  BY PoolAssumption DEF IInv, TypeOK, ClearSlot, SupStep, clientVars, sessionVars,
     SetSlot, IsLive, TriedAreDead, RetryElsewhere, PingPendingOrAnswered,
     PatienceIsEarned
<1> QED
  BY <1>1, <1>2, <1>3, <1>4, <1>5, <1>6, <1>7 DEF IInv

\* A supervisor that registers has no slot and no wake-up yet.
LEMMA DisconnectedInv ==
  ASSUME NEW A \in SUBSET Slots, NEW i \in A, IInv(A), Disconnected(i)
  PROVE  IInv(A)'
<1>1. LiveSlots' \in SUBSET LiveSlots /\ LiveSlots \in SUBSET Slots
  BY DEF Disconnected, SupStep, clientVars, statsVars, LiveSlots, IsLive, IInv,
     TypeOK, SlotFollowsSupervisor
<1>2. UNCHANGED <<slots, shown, connectError>>
  BY DEF Disconnected, SupStep, clientVars, statsVars
<1>3. ErrorMeansDown'
  BY <1>1, <1>2 DEF ErrorMeansDown, AnyLive, IInv
<1>4. Cardinality(LiveSlots') \in Nat /\ Cardinality(LiveSlots) \in Nat
      /\ Cardinality(LiveSlots') <= Cardinality(LiveSlots)
  BY <1>1, SlotCounts
<1>5. ShownCountIsSane'
  BY <1>2, <1>4 DEF ShownCountIsSane, OccupiedSlots, IInv, TypeOK
<1>6. TypeOK'
  <2>1. PICK ended \in BOOLEAN : closed' = [closed EXCEPT ![held[i]] = @ \/ ended]
    BY DEF Disconnected
  <2>2. \A s \in Sessions : closed'[s] \in BOOLEAN
    BY <2>1 DEF IInv, TypeOK
  <2>3. closed' \in [Sessions -> BOOLEAN]
    BY <2>1, <2>2 DEF IInv, TypeOK
  <2> QED
    BY <2>3, PoolAssumption DEF IInv, Disconnected, SupStep, clientVars,
       statsVars, TypeOK, SupervisorStates, ClientStates, Acquiring, Leasing
<1>7. SlotFollowsSupervisor(A)'
  BY PoolAssumption DEF IInv, TypeOK, Disconnected, SupStep, clientVars,
     statsVars, SlotFollowsSupervisor
<1>8. WakesWaiters(A)'
  BY PoolAssumption DEF IInv, TypeOK, Disconnected, SupStep, clientVars,
     statsVars, WakesWaiters, SlotFollowsSupervisor, LiveSlots
<1>9. PingPendingOrAnswered'
  BY PoolAssumption DEF IInv, TypeOK, Disconnected, SupStep, clientVars,
     statsVars, PingPendingOrAnswered, UsableIsInSlot, LiveSlots, IsLive, Leasing
<1>10. UsableIsInSlot' /\ TriedAreDead' /\ RetryElsewhere' /\ PatienceIsEarned'
  BY PoolAssumption DEF IInv, TypeOK, Disconnected, SupStep, clientVars,
     statsVars, IsLive, UsableIsInSlot, TriedAreDead, RetryElsewhere,
     PatienceIsEarned
<1> QED
  BY <1>1, <1>2, <1>3, <1>4, <1>5, <1>6, <1>7, <1>8, <1>9, <1>10 DEF IInv

\* A supervisor falls asleep only when no client is inside acquire.
LEMMA CountReceiversInv ==
  ASSUME NEW A \in SUBSET Slots, NEW i \in A, IInv(A), CountReceivers(i)
  PROVE  IInv(A)'
<1>1. UNCHANGED <<slots, dead, closed, shown>>
  BY DEF CountReceivers, SupStep, clientVars, sessionVars, statsVars, Receivers,
     Acquiring
<1>2. LiveSlots' = LiveSlots /\ OccupiedSlots' = OccupiedSlots
  BY <1>1 DEF LiveSlots, OccupiedSlots, IsLive
<1>3. ErrorMeansDown' /\ ShownCountIsSane'
  BY <1>1, <1>2 DEF CountReceivers, SupStep, clientVars, sessionVars, statsVars,
     Receivers, Acquiring, IInv, ErrorMeansDown, AnyLive, ShownCountIsSane
<1>4. TypeOK'
  BY PoolAssumption DEF IInv, CountReceivers, SupStep, clientVars, sessionVars,
     statsVars, Receivers, Acquiring, TypeOK, SupervisorStates, ClientStates,
     Acquiring, Leasing
<1>5. SlotFollowsSupervisor(A)'
  BY PoolAssumption DEF IInv, TypeOK, CountReceivers, SupStep, clientVars,
     sessionVars, statsVars, Receivers, Acquiring, SlotFollowsSupervisor
<1>6. WakesWaiters(A)'
  BY PoolAssumption DEF IInv, TypeOK, CountReceivers, SupStep, clientVars,
     sessionVars, statsVars, Receivers, Acquiring, WakesWaiters,
     SlotFollowsSupervisor, LiveSlots
<1>7. UsableIsInSlot' /\ TriedAreDead' /\ RetryElsewhere' /\ PingPendingOrAnswered'
      /\ PatienceIsEarned'
  BY PoolAssumption DEF IInv, TypeOK, CountReceivers, SupStep, clientVars,
     sessionVars, statsVars, Receivers, Acquiring, IsLive, UsableIsInSlot,
     TriedAreDead, RetryElsewhere, PingPendingOrAnswered, PatienceIsEarned
<1> QED
  BY <1>1, <1>2, <1>3, <1>4, <1>5, <1>6, <1>7 DEF IInv

\* A supervisor that wakes is not asleep.
LEMMA WokenInv ==
  ASSUME NEW A \in SUBSET Slots, NEW i \in A, IInv(A), Woken(i)
  PROVE  IInv(A)'
<1>1. UNCHANGED <<slots, dead, closed, shown>>
  BY DEF Woken, SupStep, clientVars, sessionVars, statsVars
<1>2. LiveSlots' = LiveSlots /\ OccupiedSlots' = OccupiedSlots
  BY <1>1 DEF LiveSlots, OccupiedSlots, IsLive
<1>3. ErrorMeansDown' /\ ShownCountIsSane'
  BY <1>1, <1>2 DEF Woken, SupStep, clientVars, sessionVars, statsVars, IInv,
     ErrorMeansDown, AnyLive, ShownCountIsSane
<1>4. TypeOK'
  BY PoolAssumption DEF IInv, Woken, SupStep, clientVars, sessionVars, statsVars,
     TypeOK, SupervisorStates, ClientStates, Acquiring, Leasing
<1>5. SlotFollowsSupervisor(A)'
  BY PoolAssumption DEF IInv, TypeOK, Woken, SupStep, clientVars, sessionVars,
     statsVars, SlotFollowsSupervisor
<1>6. WakesWaiters(A)'
  BY PoolAssumption DEF IInv, TypeOK, Woken, SupStep, clientVars, sessionVars,
     statsVars, WakesWaiters, SlotFollowsSupervisor, LiveSlots
<1>7. UsableIsInSlot' /\ TriedAreDead' /\ RetryElsewhere' /\ PingPendingOrAnswered'
      /\ PatienceIsEarned'
  BY PoolAssumption DEF IInv, TypeOK, Woken, SupStep, clientVars, sessionVars,
     statsVars, IsLive, UsableIsInSlot, TriedAreDead, RetryElsewhere,
     PingPendingOrAnswered, PatienceIsEarned
<1> QED
  BY <1>1, <1>2, <1>3, <1>4, <1>5, <1>6, <1>7 DEF IInv

\* A supervisor that tries again is not asleep.
LEMMA IntervalPassedInv ==
  ASSUME NEW A \in SUBSET Slots, NEW i \in A, IInv(A), IntervalPassed(i)
  PROVE  IInv(A)'
<1>1. UNCHANGED <<slots, dead, closed, shown>>
  BY DEF IntervalPassed, SupStep, clientVars, sessionVars, statsVars
<1>2. LiveSlots' = LiveSlots /\ OccupiedSlots' = OccupiedSlots
  BY <1>1 DEF LiveSlots, OccupiedSlots, IsLive
<1>3. ErrorMeansDown' /\ ShownCountIsSane'
  BY <1>1, <1>2 DEF IntervalPassed, SupStep, clientVars, sessionVars, statsVars,
     IInv, ErrorMeansDown, AnyLive, ShownCountIsSane
<1>4. TypeOK'
  BY PoolAssumption DEF IInv, IntervalPassed, SupStep, clientVars, sessionVars,
     statsVars, TypeOK, SupervisorStates, ClientStates, Acquiring, Leasing
<1>5. SlotFollowsSupervisor(A)'
  BY PoolAssumption DEF IInv, TypeOK, IntervalPassed, SupStep, clientVars,
     sessionVars, statsVars, SlotFollowsSupervisor
<1>6. WakesWaiters(A)'
  BY PoolAssumption DEF IInv, TypeOK, IntervalPassed, SupStep, clientVars,
     sessionVars, statsVars, WakesWaiters, SlotFollowsSupervisor, LiveSlots
<1>7. UsableIsInSlot' /\ TriedAreDead' /\ RetryElsewhere' /\ PingPendingOrAnswered'
      /\ PatienceIsEarned'
  BY PoolAssumption DEF IInv, TypeOK, IntervalPassed, SupStep, clientVars,
     sessionVars, statsVars, IsLive, UsableIsInSlot, TriedAreDead, RetryElsewhere,
     PingPendingOrAnswered, PatienceIsEarned
<1> QED
  BY <1>1, <1>2, <1>3, <1>4, <1>5, <1>6, <1>7 DEF IInv

\* A session that ends is live no more.
LEMMA SessionClosesInv ==
  ASSUME NEW A \in SUBSET Slots, NEW s \in Sessions, IInv(A), SessionCloses(s)
  PROVE  IInv(A)'
<1>1. SlotFollowsSupervisor(A)' /\ ErrorMeansDown' /\ ShownCountIsSane'
  BY SessionsOnlyFail DEF SessionCloses, supVars, clientVars, statsVars, IInv, TypeOK
<1>2. TypeOK'
  BY PoolAssumption DEF IInv, SessionCloses, supVars, clientVars, statsVars,
     TypeOK, SupervisorStates, ClientStates, Acquiring, Leasing
<1>3. PingPendingOrAnswered'
  BY PoolAssumption DEF IInv, TypeOK, SessionCloses, supVars, clientVars,
     statsVars, PingPendingOrAnswered, UsableIsInSlot, LiveSlots, IsLive, Leasing
<1>4. WakesWaiters(A)' /\ UsableIsInSlot' /\ TriedAreDead' /\ RetryElsewhere'
      /\ PatienceIsEarned'
  BY PoolAssumption DEF IInv, TypeOK, SessionCloses, supVars, clientVars,
     statsVars, IsLive, WakesWaiters, UsableIsInSlot, TriedAreDead,
     RetryElsewhere, PatienceIsEarned
<1> QED
  BY <1>1, <1>2, <1>3, <1>4 DEF IInv

---------------------------------------------------------------------------
(* The invariant *)

\* At first nothing is connected and nobody asks.
LEMMA InitInv == Init => IInv(Slots)
<1> SUFFICES ASSUME Init PROVE IInv(Slots)
  OBVIOUS
<1>1. TypeOK
  <2>1. /\ attempt \in [Clients -> 1..Attempts]
        /\ shown \in Nat
    BY PoolAssumption DEF Init
  <2>2. /\ sup \in [Slots -> SupervisorStates]
        /\ client \in [Clients -> ClientStates]
        /\ \A c \in Clients : lease[c] # NoSession <=> client[c] \in Leasing
        /\ bestLoad \in [Clients -> Nat]
    BY DEF Init, SupervisorStates, ClientStates, Leasing
  <2> QED
    BY <2>1, <2>2 DEF Init, TypeOK
<1>2. /\ SlotFollowsSupervisor(Slots) /\ WakesWaiters(Slots) /\ UsableIsInSlot /\ TriedAreDead
      /\ RetryElsewhere /\ PingPendingOrAnswered /\ PatienceIsEarned /\ ErrorMeansDown
  BY DEF Init, SlotFollowsSupervisor, WakesWaiters, UsableIsInSlot, TriedAreDead,
         RetryElsewhere, PingPendingOrAnswered, PatienceIsEarned, ErrorMeansDown
<1>3. LiveSlots = {} /\ OccupiedSlots = {} /\ shown = 0
  BY DEF Init, LiveSlots, OccupiedSlots
<1>4. ShownCountIsSane
  BY <1>3, FS_EmptySet DEF ShownCountIsSane
<1> QED
  BY <1>1, <1>2, <1>4 DEF IInv

\* Every step of a supervisor keeps the invariant.
LEMMA SuperviseInv ==
  ASSUME NEW A \in SUBSET Slots, NEW i \in A, IInv(A), Supervise(i)
  PROVE  IInv(A)'
BY ConnectOkInv, ConnectErrInv, SessionLostInv, ClearSlotInv, DisconnectedInv,
   CountReceiversInv, WokenInv, IntervalPassedInv DEF Supervise

\* So does every step of a client.
LEMMA HandleClientInv ==
  ASSUME NEW A \in SUBSET Slots, NEW c \in Clients, IInv(A), ScansSlots, HandleClient(c)
  PROVE  IInv(A)'
<1>1. CASE Acquire(c)
  BY <1>1, CheckSlotsInv, NotifyWaitersInv, PollPendingInv, TimerPendingInv, WaitTimeoutInv,
     SessionReadyInv, LookInv, ReadLoadInv, SelectInv, SelectNoneInv DEF Acquire
<1>2. CASE OpenChannel(c)
  <2>1. CASE OpenTargetErr(c)
    BY <2>1, TaskEndsInv DEF OpenTargetErr, AwaitingOpen, Leasing
  <2>2. CASE OpenSessionErr(c)
    BY <2>2, SessionFailedInv DEF OpenSessionErr
  <2>3. CASE CheckedDead(c)
    BY <2>3, SessionFailedInv DEF CheckedDead, AwaitingOpen
  <2>4. CASE \E s \in Sessions : PingAnswered(c, s) \/ PingFailed(c, s)
    BY <2>4, PingAnsweredInv, PingFailedInv
  <2> QED
    BY <1>2, <2>1, <2>2, <2>3, <2>4, OpenOkInv, StallInv, CheckedLiveInv DEF OpenChannel
<1>3. CASE ReplyErr(c) \/ TunnelClosed(c) \/ TunnelSshErr(c)
  BY <1>3, TaskEndsInv DEF ReplyErr, TunnelClosed, TunnelSshErr, Leasing
<1> QED
  BY <1>1, <1>2, <1>3, AcceptInv, ReplyOkInv, TunnelEndsInv DEF HandleClient

\* A step that is no part of a scan leaves the scans in order: while one goes on,
\* the slots stay as they are.
LEMMA ScansKept ==
  ASSUME TypeOK, TypeOK', ScansSlots, UNCHANGED scanVars, slots' = slots \/ SlotsWritable,
         \A d \in Clients :
           client[d] = "selecting" => client'[d] = "selecting" /\ tried'[d] = tried[d]
  PROVE  ScansSlots'
<1> SUFFICES ASSUME NEW d \in Clients
             PROVE  /\ client'[d] # "selecting" => ScanOver(d)' /\ best'[d] = NoSession
                    /\ \A s \in Sessions :
                         s \in unread'[d] \/ s \in {looking'[d], best'[d]}
                           => \E i \in Slots : slots'[i] = s
                    /\ looking'[d] \notin tried'[d] /\ best'[d] \notin tried'[d]
  BY DEF ScansSlots
<1>1. CASE client[d] = "selecting"
  BY <1>1 DEF ScansSlots, SlotsWritable
<1>2. CASE client[d] # "selecting"
  <2>1. unread'[d] = {} /\ looking'[d] = NoSession /\ best'[d] = NoSession
    BY <1>2 DEF ScansSlots, ScanOver
  <2>2. tried'[d] \in SUBSET Sessions
    BY DEF TypeOK
  <2> QED
    BY <2>1, <2>2, PoolAssumption DEF ScanOver
<1> QED
  BY <1>1, <1>2

\* Supervisors wait with the slots until no client scans them.
LEMMA SuperviseScans ==
  ASSUME TypeOK, TypeOK', ScansSlots, NEW i \in Slots, Supervise(i)
  PROVE  ScansSlots'
<1>1. UNCHANGED clientVars
  BY DEF Supervise, ConnectOk, ConnectErr, SessionLost, ClearSlot, Disconnected,
         CountReceivers, Woken, IntervalPassed
<1>2. slots' = slots \/ SlotsWritable
  BY DEF Supervise, ConnectOk, ConnectErr, SessionLost, ClearSlot, Disconnected,
         CountReceivers, Woken, IntervalPassed, SetSlot
<1> QED
  BY <1>1, <1>2, ScansKept DEF clientVars

\* A client finds in the slots what it then compares and leases.
LEMMA HandleClientScans ==
  ASSUME NEW A \in SUBSET Slots, IInv(A), TypeOK', ScansSlots, NEW c \in Clients, HandleClient(c)
  PROVE  ScansSlots'
<1> USE DEF IInv, TypeOK, ClientStep
<1>1. ASSUME UNCHANGED <<slots, scanVars>>, client[c] # "selecting",
             \A d \in Clients \ {c} : client'[d] = client[d] /\ tried'[d] = tried[d]
      PROVE  ScansSlots'
  BY <1>1, ScansKept
<1>2. ASSUME NEW from \in SUBSET Leasing, TaskEnds(c, from) PROVE ScansSlots'
  BY <1>1, <1>2 DEF TaskEnds, Leasing
<1>3. ASSUME NEW from \in SUBSET AwaitingOpen, SessionFailed(c, from) PROVE ScansSlots'
  <2>1. CASE TaskEnds(c, from)
    BY <1>2, <2>1 DEF AwaitingOpen, Leasing
  <2>2. CASE ~TaskEnds(c, from)
    BY <1>1, <1>3, <2>2 DEF SessionFailed, RetryOrGiveUp, AwaitingOpen
  <2> QED
    BY <2>1, <2>2
<1>4. CASE Accept(c) \/ CheckSlots(c) \/ NotifyWaiters(c) \/ PollPending(c)
           \/ TimerPending(c) \/ WaitTimeout(c)
  BY <1>1, <1>4 DEF Accept, CheckSlots, NotifyWaiters, PollPending, TimerPending, WaitTimeout
<1>5. CASE SessionReady(c)
  <2>1. /\ client[c] = "waiting" /\ client' = [client EXCEPT ![c] = "selecting"]
        /\ unread' = [unread EXCEPT ![c] = {slots[i] : i \in Slots} \ {NoSession}]
        /\ UNCHANGED <<slots, tried, looking, best>>
    BY <1>5 DEF SessionReady
  <2> QED
    BY <2>1 DEF ScansSlots, ScanOver
<1>6. CASE \E s \in Sessions : Look(c, s)
  <2>1. PICK s \in Sessions : Look(c, s)
    BY <1>6
  <2>2. /\ client[c] = "selecting" /\ s \in unread[c]
        /\ unread' = [unread EXCEPT ![c] = @ \ {s}]
        /\ looking' = [looking EXCEPT ![c] = IF IsLive(s) THEN s ELSE NoSession]
        /\ UNCHANGED <<slots, client, tried, best>>
    BY <2>1 DEF Look
  <2>3. IsLive(s) => s \notin tried[c]
    BY DEF IsLive, TriedAreDead
  <2> QED
    BY <2>2, <2>3, PoolAssumption DEF ScansSlots, ScanOver
<1>7. CASE ReadLoad(c)
  <2>1. /\ client[c] = "selecting"
        /\ best' = [best EXCEPT ![c] = looking[c]] \/ best' = best
        /\ looking' = [looking EXCEPT ![c] = NoSession]
        /\ UNCHANGED <<slots, client, tried, unread>>
    BY <1>7 DEF ReadLoad
  <2> QED
    BY <2>1, PoolAssumption DEF ScansSlots, ScanOver
<1>8. CASE Select(c)
  <2>1. /\ best' = [best EXCEPT ![c] = NoSession] /\ client' = [client EXCEPT ![c] = "opening"]
        /\ ScanOver(c) /\ UNCHANGED <<slots, tried, unread, looking>>
    BY <1>8 DEF Select
  <2> QED
    BY <2>1, PoolAssumption DEF ScansSlots, ScanOver
<1>9. CASE SelectNone(c)
  <2>1. /\ client' = [client EXCEPT ![c] = "idle"] /\ ScanOver(c) /\ best[c] = NoSession
        /\ tried' = [tried EXCEPT ![c] = {}] /\ UNCHANGED <<slots, scanVars>>
    BY <1>9 DEF SelectNone
  <2> QED
    BY <2>1 DEF ScansSlots, ScanOver
<1>10. CASE OpenOk(c) \/ Stall(c) \/ CheckedLive(c) \/ ReplyOk(c) \/ TunnelEnds(c)
  BY <1>1, <1>10 DEF OpenOk, Stall, CheckedLive, ReplyOk, TunnelEnds, AwaitingOpen
<1>11. CASE \E s \in Sessions : PingAnswered(c, s) \/ PingFailed(c, s)
  BY <1>1, <1>11 DEF PingAnswered, PingFailed
<1>12. CASE OpenTargetErr(c) \/ ReplyErr(c) \/ TunnelClosed(c) \/ TunnelSshErr(c)
  BY <1>2, <1>12 DEF OpenTargetErr, ReplyErr, TunnelClosed, TunnelSshErr, AwaitingOpen, Leasing
<1>13. CASE OpenSessionErr(c) \/ CheckedDead(c)
  BY <1>3, <1>13 DEF OpenSessionErr, CheckedDead, AwaitingOpen
<1> QED
  BY <1>4, <1>5, <1>6, <1>7, <1>8, <1>9, <1>10, <1>11, <1>12, <1>13
     DEF HandleClient, Acquire, OpenChannel

\* Every step keeps the invariant.
LEMMA NextInv == IInv(Slots) /\ ScansSlots /\ [Next]_vars => (IInv(Slots) /\ ScansSlots)'
<1> SUFFICES ASSUME IInv(Slots), ScansSlots, [Next]_vars PROVE IInv(Slots)' /\ ScansSlots'
  OBVIOUS
<1>1. CASE UNCHANGED vars
  BY <1>1 DEF vars, supVars, clientVars, sessionVars, statsVars, IInv, TypeOK,
     SlotFollowsSupervisor, WakesWaiters, UsableIsInSlot, TriedAreDead, RetryElsewhere,
     PingPendingOrAnswered, PatienceIsEarned, ErrorMeansDown, ShownCountIsSane,
     AnyLive, LiveSlots, OccupiedSlots, IsLive, ScansSlots, ScanOver
<1>2. ASSUME NEW i \in Slots, Supervise(i) PROVE IInv(Slots)' /\ ScansSlots'
  BY <1>2, SuperviseInv, SuperviseScans DEF IInv
<1>3. ASSUME NEW c \in Clients, HandleClient(c) PROVE IInv(Slots)' /\ ScansSlots'
  BY <1>3, HandleClientInv, HandleClientScans DEF IInv
<1>4. ASSUME NEW s \in Sessions, SessionCloses(s) PROVE IInv(Slots)' /\ ScansSlots'
  BY <1>4, SessionClosesInv, ScansKept DEF IInv, SessionCloses, clientVars
<1> QED
  BY <1>1, <1>2, <1>3, <1>4 DEF Next

\* The invariant holds throughout every behaviour.
LEMMA Invariance == Spec => [](IInv(Slots) /\ ScansSlots)
<1>1. Init => ScansSlots
  BY PoolAssumption DEF Init, ScansSlots, ScanOver
<1> QED
  BY <1>1, InitInv, NextInv, PTL DEF Spec

---------------------------------------------------------------------------
(* The properties of Pool *)

\* Every variable keeps its type, and a lease is held exactly while a client is
\* between acquire and the end of its tunnel.
THEOREM TypeCorrect == Spec => []TypeOK
<1>1. IInv(Slots) => TypeOK
  BY DEF IInv
<1> QED
  BY <1>1, Invariance, PTL

\* No client waits for a session while a supervisor sleeps without a wake-up on
\* its way (acquire and wait_for_client), whatever the number of either.
THEOREM WakeupsAreNotLost == Spec => []NoLostWakeup
<1>1. IInv(Slots) => NoLostWakeup
  BY DEF IInv, WakesWaiters, NoLostWakeup
<1> QED
  BY <1>1, Invariance, PTL

\* A leased session that nobody has killed is in a slot, where check_sessions
\* finds it (supervise marks a session dead before it empties the slot).
THEOREM UsableSessionsStayInSlots == Spec => []UsableIsInSlot
<1>1. IInv(Slots) => UsableIsInSlot
  BY DEF IInv
<1> QED
  BY <1>1, Invariance, PTL

\* A client waits without limit for its channel only after its own session has
\* answered a ping (open_on).
THEOREM PatienceTheorem == Spec => []PatienceIsEarned
<1>1. IInv(Slots) => PatienceIsEarned
  BY DEF IInv
<1> QED
  BY <1>1, Invariance, PTL

\* No retry of open_channel lands on a session its client has given up on.
THEOREM RetriesGoElsewhere == Spec => []RetryElsewhere
<1>1. IInv(Slots) => RetryElsewhere
  BY DEF IInv
<1> QED
  BY <1>1, Invariance, PTL

\* A connect error is never shown beside a live session (report_connect_error
\* and set_slot, called by any number of supervisors).
THEOREM ErrorsAreNotStale == Spec => []ErrorMeansDown
<1>1. IInv(Slots) => ErrorMeansDown
  BY DEF IInv
<1> QED
  BY <1>1, Invariance, PTL

\* The published count lies between the live and the occupied slots at all
\* times (set_slot).
THEOREM ShownCountTheorem == Spec => []ShownCountIsSane
<1>1. IInv(Slots) => ShownCountIsSane
  BY DEF IInv
<1> QED
  BY <1>1, Invariance, PTL

---------------------------------------------------------------------------
(* Pool keeps the promise of PoolService                                   *)

\* The sessions a client has given up on are counted by its attempts.
TriesCounted ==
  \A c \in Clients :
    /\ IsFiniteSet(tried[c])
    /\ client[c] = "idle" => tried[c] = {}
    /\ client[c] # "idle" => attempt[c] = Cardinality(tried[c]) + 1

\* What a step of a client does to its attempts.
LEMMA ClientTries ==
  ASSUME IInv(Slots), NEW c \in Clients, HandleClient(c)
  PROVE  /\ \A d \in Clients \ {c} :
              client'[d] = client[d] /\ tried'[d] = tried[d] /\ attempt'[d] = attempt[d]
         /\ \/ client[c] = "idle" /\ client'[c] # "idle"
               /\ attempt'[c] = 1 /\ tried'[c] = tried[c]
            \/ client'[c] = "idle" /\ tried'[c] = {}
            \/ client[c] # "idle" /\ client'[c] # "idle"
               /\ attempt'[c] = attempt[c] + 1 /\ tried'[c] = tried[c] \cup {lease[c]}
            \/ client[c] # "idle" /\ client'[c] # "idle"
               /\ attempt'[c] = attempt[c] /\ tried'[c] = tried[c]
<1> USE DEF IInv, TypeOK, ClientStep
<1>1. ASSUME NEW from, TaskEnds(c, from) PROVE client'[c] = "idle" /\ tried'[c] = {}
  BY <1>1 DEF TaskEnds
<1>2. ASSUME NEW from, TaskEnds(c, from), NEW d \in Clients \ {c}
      PROVE  client'[d] = client[d] /\ tried'[d] = tried[d] /\ attempt'[d] = attempt[d]
  BY <1>2 DEF TaskEnds
<1>3. ASSUME NEW from \in SUBSET AwaitingOpen, SessionFailed(c, from), attempt[c] < Attempts
      PROVE  /\ client[c] # "idle" /\ client' = [client EXCEPT ![c] = "asking"]
             /\ attempt' = [attempt EXCEPT ![c] = @ + 1]
             /\ tried' = [tried EXCEPT ![c] = @ \cup {lease[c]}]
  BY <1>3 DEF SessionFailed, RetryOrGiveUp, AwaitingOpen
<1>4. ASSUME NEW from, SessionFailed(c, from), ~(attempt[c] < Attempts)
      PROVE  TaskEnds(c, from)
  BY <1>4 DEF SessionFailed, RetryOrGiveUp
<1>5. CASE Accept(c)
  BY <1>5 DEF Accept
<1>6. CASE Acquire(c)
  BY <1>6 DEF Acquire, CheckSlots, NotifyWaiters, PollPending, TimerPending, WaitTimeout,
     SessionReady, Look, ReadLoad, Select, SelectNone
<1>7. CASE OpenOk(c) \/ Stall(c) \/ CheckedLive(c)
           \/ \E s \in Sessions : PingAnswered(c, s) \/ PingFailed(c, s)
  BY <1>7 DEF OpenOk, Stall, CheckedLive, PingAnswered, PingFailed, AwaitingOpen
<1>8. CASE OpenSessionErr(c) \/ CheckedDead(c)
  <2>1. PICK from \in SUBSET AwaitingOpen : SessionFailed(c, from)
    BY <1>8 DEF OpenSessionErr, CheckedDead, AwaitingOpen
  <2>2. CASE attempt[c] < Attempts
    BY <1>3, <2>1, <2>2
  <2> QED
    BY <1>1, <1>2, <1>4, <2>1, <2>2
<1>9. CASE OpenTargetErr(c) \/ ReplyErr(c) \/ TunnelClosed(c) \/ TunnelSshErr(c)
  BY <1>1, <1>2, <1>9 DEF OpenTargetErr, ReplyErr, TunnelClosed, TunnelSshErr
<1>10. CASE ReplyOk(c) \/ TunnelEnds(c)
  BY <1>10 DEF ReplyOk, TunnelEnds
<1> QED
  BY <1>5, <1>6, <1>7, <1>8, <1>9, <1>10 DEF HandleClient, OpenChannel

\* Each attempt but the first is one more session given up on: no session is
\* tried twice.
LEMMA TriesNext == IInv(Slots) /\ TriesCounted /\ [Next]_vars => TriesCounted'
<1> SUFFICES ASSUME IInv(Slots), TriesCounted, [Next]_vars PROVE TriesCounted'
  OBVIOUS
<1>1. ASSUME UNCHANGED <<client, tried, attempt>> PROVE TriesCounted'
  BY <1>1 DEF TriesCounted
<1>2. ASSUME NEW c \in Clients, HandleClient(c) PROVE TriesCounted'
  <2> SUFFICES ASSUME NEW d \in Clients
               PROVE  /\ IsFiniteSet(tried'[d])
                      /\ client'[d] = "idle" => tried'[d] = {}
                      /\ client'[d] # "idle" => attempt'[d] = Cardinality(tried'[d]) + 1
    BY DEF TriesCounted
  <2>1. CASE d # c
    BY <1>2, <2>1, ClientTries DEF TriesCounted
  <2>2. lease[c] \notin tried[c] /\ IsFiniteSet(tried[c])
    BY DEF IInv, RetryElsewhere, TriesCounted
  <2>3. /\ IsFiniteSet(tried[c] \cup {lease[c]})
        /\ Cardinality(tried[c] \cup {lease[c]}) = Cardinality(tried[c]) + 1
        /\ Cardinality(tried[c]) \in Nat
    BY <2>2, FS_AddElement, FS_CardinalityType
  <2>4. IsFiniteSet({}) /\ Cardinality({}) = 0
    BY FS_EmptySet
  <2>5. CASE d = c
    <3>1. client[c] = "idle" => tried[c] = {}
      BY DEF TriesCounted
    <3>2. client[c] # "idle" => attempt[c] = Cardinality(tried[c]) + 1
      BY DEF TriesCounted
    <3>3. CASE client[c] = "idle" /\ client'[c] # "idle"
                 /\ attempt'[c] = 1 /\ tried'[c] = tried[c]
      BY <2>4, <2>5, <3>1, <3>3
    <3>4. CASE client'[c] = "idle" /\ tried'[c] = {}
      BY <2>4, <2>5, <3>4
    <3>5. CASE client[c] # "idle" /\ client'[c] # "idle"
                 /\ attempt'[c] = attempt[c] + 1 /\ tried'[c] = tried[c] \cup {lease[c]}
      BY <2>3, <2>5, <3>2, <3>5
    <3>6. CASE client[c] # "idle" /\ client'[c] # "idle"
                 /\ attempt'[c] = attempt[c] /\ tried'[c] = tried[c]
      BY <2>2, <2>5, <3>2, <3>6
    <3> QED
      BY <1>2, <3>3, <3>4, <3>5, <3>6, ClientTries
  <2> QED
    BY <2>1, <2>5
<1>3. ASSUME NEW i \in Slots, Supervise(i) PROVE UNCHANGED clientVars
  BY <1>3 DEF Supervise, ConnectOk, ConnectErr, SessionLost, ClearSlot, Disconnected,
              CountReceivers, Woken, IntervalPassed
<1>4. ASSUME NEW s \in Sessions, SessionCloses(s) PROVE UNCHANGED clientVars
  BY <1>4 DEF SessionCloses
<1> QED
  BY <1>1, <1>2, <1>3, <1>4 DEF Next, vars, clientVars

\* While no lease changes, a client that selects knows the load of the session it
\* would take, and that none of those it has looked at and may still be given to
\* others has fewer.
CalmChoice ==
  \A c \in calm :
    /\ client[c] = "selecting"
    /\ best[c] # NoSession => bestLoad[c] = Load(best[c])
    /\ \A s \in Usable :
         \/ s \in unread[c] \/ s = looking[c]
         \/ best[c] # NoSession /\ Load(best[c]) <= Load(s)

\* Sessions are usable as long as the slots and the sessions' flags do not change.
LEMMA UsableStays ==
  ASSUME UNCHANGED <<slots, dead, closed>>
  PROVE  Usable' = Usable /\ LiveSlots' = LiveSlots
  BY DEF Usable, LiveSlots, IsLive

\* A client that has found nothing so far has still to look at all there is.
SeesAll ==
  \A c \in Clients :
    client[c] = "selecting" /\ best[c] = NoSession
      => \A s \in Usable : s \in unread[c] \/ s = looking[c]

\* Steps that take no part in the choice and bring no session up leave it as good.
LEMMA ChoiceKept ==
  ASSUME CalmChoice, lease' = lease, calm' \in SUBSET calm,
         calm # {} => Usable' \subseteq Usable,
         \A d \in calm' : /\ client'[d] = "selecting"
                          /\ unread'[d] = unread[d] /\ looking'[d] = looking[d]
                          /\ best'[d] = best[d] /\ bestLoad'[d] = bestLoad[d]
  PROVE  CalmChoice'
<1>1. \A s : Load(s)' = Load(s)
  BY DEF Load
<1>2. \A d \in calm' : d \in calm
  OBVIOUS
<1> QED
  BY <1>1, <1>2 DEF CalmChoice

\* A client ends sessions at most.
LEMMA HandleClientEnds ==
  ASSUME TypeOK, NEW c \in Clients, HandleClient(c)
  PROVE  Usable' \subseteq Usable
<1> USE DEF TypeOK
<1>1. ASSUME slots' = slots, closed' = closed,
             dead' = dead \/ \E s \in Sessions : dead' = [dead EXCEPT ![s] = TRUE]
      PROVE  Usable' \subseteq Usable
  BY <1>1 DEF Usable, LiveSlots, IsLive
<1>2. ASSUME Kill(lease[c]), lease[c] # NoSession
      PROVE  \E s \in Sessions : dead' = [dead EXCEPT ![s] = TRUE]
  BY <1>2 DEF Kill
<1>3. ASSUME client[c] \in Leasing PROVE lease[c] # NoSession
  BY <1>3
<1>4. CASE Accept(c) \/ Acquire(c)
  BY <1>1, <1>4 DEF Accept, Acquire, CheckSlots, NotifyWaiters, PollPending, TimerPending,
     WaitTimeout, SessionReady, Look, ReadLoad, Select, SelectNone, sessionVars
<1>5. CASE OpenOk(c) \/ Stall(c) \/ CheckedLive(c) \/ ReplyOk(c) \/ TunnelEnds(c)
  BY <1>1, <1>5 DEF OpenOk, Stall, CheckedLive, ReplyOk, TunnelEnds, sessionVars
<1>6. CASE \E s \in Sessions : PingAnswered(c, s) \/ PingFailed(c, s)
  BY <1>1, <1>6 DEF PingAnswered, PingFailed, Kill, sessionVars
<1>7. CASE OpenTargetErr(c) \/ ReplyErr(c) \/ TunnelClosed(c)
  BY <1>1, <1>7 DEF OpenTargetErr, ReplyErr, TunnelClosed, TaskEnds
<1>8. CASE TunnelSshErr(c)
  BY <1>1, <1>2, <1>3, <1>8 DEF TunnelSshErr, TaskEnds, Leasing
<1>9. ASSUME NEW from \in SUBSET AwaitingOpen, SessionFailed(c, from)
      PROVE  Usable' \subseteq Usable
  <2>1. /\ UNCHANGED <<slots, closed>> /\ client[c] \in AwaitingOpen /\ Kill(lease[c])
    BY <1>9 DEF SessionFailed, RetryOrGiveUp, TaskEnds, ClientStep
  <2> QED
    BY <1>1, <1>2, <1>3, <2>1 DEF AwaitingOpen, Leasing
<1>10. CASE OpenSessionErr(c) \/ CheckedDead(c)
  BY <1>9, <1>10 DEF OpenSessionErr, CheckedDead, AwaitingOpen
<1> QED
  BY <1>4, <1>5, <1>6, <1>7, <1>8, <1>10 DEF HandleClient, OpenChannel

\* So does a supervisor while a client selects, because the slots cannot change.
LEMMA SuperviseEnds ==
  ASSUME TypeOK, SlotFollowsSupervisor(Slots), ~SlotsWritable, NEW i \in Slots, Supervise(i)
  PROVE  Usable' \subseteq Usable
<1>1. slots' = slots
  BY DEF Supervise, ConnectOk, ConnectErr, SessionLost, ClearSlot, Disconnected,
     CountReceivers, Woken, IntervalPassed, SetSlot
<1>2. \A s \in Sessions : (dead[s] => dead'[s]) /\ (closed[s] => closed'[s])
  <2>1. CASE SessionLost(i)
    BY <2>1 DEF SessionLost, TypeOK, SlotFollowsSupervisor, SupStep
  <2>2. CASE Disconnected(i)
    BY <2>2 DEF Disconnected, TypeOK, SlotFollowsSupervisor, SupStep
  <2>3. CASE ConnectErr(i) \/ CountReceivers(i) \/ Woken(i) \/ IntervalPassed(i)
    BY <2>3 DEF ConnectErr, CountReceivers, Woken, IntervalPassed, sessionVars
  <2>4. CASE ClearSlot(i) \/ \E s \in Sessions : ConnectOk(i, s)
    BY <2>4 DEF ClearSlot, ConnectOk, SetSlot
  <2> QED
    BY <2>1, <2>2, <2>3, <2>4 DEF Supervise
<1> QED
  BY <1>1, <1>2 DEF TypeOK, Usable, LiveSlots, IsLive

\* While a client selects, what is usable only becomes less.
LEMMA NothingComesUp ==
  ASSUME IInv(Slots), ~SlotsWritable, [Next]_vars
  PROVE  Usable' \subseteq Usable
<1>1. ASSUME NEW s \in Sessions, SessionCloses(s) PROVE Usable' \subseteq Usable
  BY <1>1 DEF SessionCloses, IInv, TypeOK, Usable, LiveSlots, IsLive
<1>2. CASE UNCHANGED vars
  BY <1>2, UsableStays DEF vars, sessionVars
<1> QED
  BY <1>1, <1>2, SuperviseEnds, HandleClientEnds DEF Next, IInv

\* Supervisors keep out of the scan of a client.
LEMMA SuperviseClients ==
  ASSUME NEW i \in Slots, Supervise(i)
  PROVE  UNCHANGED clientVars
BY DEF Supervise, ConnectOk, ConnectErr, SessionLost, ClearSlot, Disconnected,
   CountReceivers, Woken, IntervalPassed

\* A client that selects looks at each session the slots held when it began.
LEMMA SeesNext == IInv(Slots) /\ ScansSlots /\ SeesAll /\ [Next]_vars => SeesAll'
<1> SUFFICES ASSUME IInv(Slots), ScansSlots, SeesAll, [Next]_vars,
                    NEW d \in Clients, client'[d] = "selecting", best'[d] = NoSession,
                    NEW t \in Usable'
             PROVE  t \in unread'[d] \/ t = looking'[d]
  BY DEF SeesAll
<1> USE DEF IInv, TypeOK, ClientStep
<1>1. ASSUME client[d] = "selecting" PROVE t \in Usable
  BY <1>1, NothingComesUp DEF SlotsWritable
<1>2. CASE /\ client[d] = "selecting"
           /\ unread'[d] = unread[d] /\ looking'[d] = looking[d] /\ best'[d] = best[d]
  BY <1>1, <1>2 DEF SeesAll
<1>3. ASSUME NEW c \in Clients, SessionReady(c)
      PROVE  t \in unread'[d] \/ t = looking'[d]
  <2>1. /\ client' = [client EXCEPT ![c] = "selecting"]
        /\ unread' = [unread EXCEPT ![c] = {slots[i] : i \in Slots} \ {NoSession}]
        /\ UNCHANGED <<looking, best>>
    BY <1>3 DEF SessionReady
  <2>2. CASE d = c
    <3>1. Usable' = Usable
      BY <1>3, UsableStays DEF SessionReady, sessionVars
    <3>2. t \in {slots[i] : i \in Slots} \ {NoSession}
      BY <3>1 DEF Usable, LiveSlots
    <3>3. unread'[c] = {slots[i] : i \in Slots} \ {NoSession}
      BY <2>1
    <3> QED
      BY <2>2, <3>2, <3>3
  <2>3. CASE d # c
    BY <1>2, <2>1, <2>3
  <2> QED
    BY <2>2, <2>3
<1>4. ASSUME NEW c \in Clients, NEW s \in Sessions, Look(c, s)
      PROVE  t \in unread'[d] \/ t = looking'[d]
  <2>1. /\ looking[c] = NoSession
        /\ unread' = [unread EXCEPT ![c] = @ \ {s}]
        /\ looking' = [looking EXCEPT ![c] = IF IsLive(s) THEN s ELSE NoSession]
        /\ UNCHANGED <<client, best>>
    BY <1>4 DEF Look
  <2>2. CASE d = c
    <3>1. t \in Usable /\ t # NoSession /\ IsLive(t)
      BY <1>1, <2>1 DEF Usable, LiveSlots
    <3>2. t \in unread[c]
      BY <2>1, <2>2, <3>1 DEF SeesAll
    <3> QED
      BY <2>1, <2>2, <3>1, <3>2
  <2>3. CASE d # c
    BY <1>2, <2>1, <2>3
  <2> QED
    BY <2>2, <2>3
<1>5. ASSUME NEW c \in Clients, ReadLoad(c)
      PROVE  t \in unread'[d] \/ t = looking'[d]
  <2>1. /\ looking[c] # NoSession /\ looking' = [looking EXCEPT ![c] = NoSession]
        /\ UNCHANGED <<client, unread>>
        /\ \/ best[c] # NoSession /\ best' = best
           \/ best' = [best EXCEPT ![c] = looking[c]]
    BY <1>5 DEF ReadLoad
  <2>2. d # c
    BY <2>1
  <2> QED
    BY <1>2, <2>1, <2>2
<1>6. ASSUME NEW c \in Clients, HandleClient(c), ~SessionReady(c), ~ReadLoad(c),
             \A s \in Sessions : ~Look(c, s)
      PROVE  t \in unread'[d] \/ t = looking'[d]
  <2>1. d # c => client'[d] = client[d]
    BY <1>6, ClientTries
  <2>2. ASSUME NEW from, TaskEnds(c, from)
        PROVE  UNCHANGED scanVars /\ client'[c] # "selecting"
    BY <2>2 DEF TaskEnds
  <2>3. ASSUME NEW from, SessionFailed(c, from)
        PROVE  UNCHANGED scanVars /\ client'[c] # "selecting"
    BY <2>2, <2>3 DEF SessionFailed, RetryOrGiveUp
  <2>4. client'[c] # "selecting" \/ UNCHANGED <<client, scanVars>>
    <3>1. CASE Accept(c) \/ Acquire(c)
      BY <1>6, <3>1 DEF Accept, Acquire, CheckSlots, NotifyWaiters, PollPending, TimerPending,
         WaitTimeout, Select, SelectNone
    <3>2. CASE ReplyOk(c) \/ TunnelEnds(c)
      BY <3>2 DEF ReplyOk, TunnelEnds
    <3>3. CASE OpenOk(c) \/ Stall(c) \/ CheckedLive(c)
               \/ \E s \in Sessions : PingAnswered(c, s) \/ PingFailed(c, s)
      BY <3>3 DEF OpenOk, Stall, CheckedLive, PingAnswered, PingFailed
    <3>4. CASE OpenTargetErr(c) \/ ReplyErr(c) \/ TunnelClosed(c) \/ TunnelSshErr(c)
      BY <2>2, <3>4 DEF OpenTargetErr, ReplyErr, TunnelClosed, TunnelSshErr
    <3>5. CASE OpenSessionErr(c) \/ CheckedDead(c)
      BY <2>3, <3>5 DEF OpenSessionErr, CheckedDead
    <3> QED
      BY <1>6, <3>1, <3>2, <3>3, <3>4, <3>5 DEF HandleClient, OpenChannel
  <2>5. d # c => unread'[d] = unread[d] /\ looking'[d] = looking[d] /\ best'[d] = best[d]
    <3>1. CASE Select(c)
      BY <3>1 DEF Select
    <3>2. CASE (Accept(c) \/ Acquire(c)) /\ ~Select(c)
      BY <1>6, <3>2 DEF Accept, Acquire, CheckSlots, NotifyWaiters, PollPending, TimerPending,
         WaitTimeout, SelectNone
    <3>3. CASE ReplyOk(c) \/ TunnelEnds(c)
      BY <3>3 DEF ReplyOk, TunnelEnds
    <3>4. CASE OpenOk(c) \/ Stall(c) \/ CheckedLive(c)
               \/ \E s \in Sessions : PingAnswered(c, s) \/ PingFailed(c, s)
      BY <3>4 DEF OpenOk, Stall, CheckedLive, PingAnswered, PingFailed
    <3>5. CASE OpenTargetErr(c) \/ ReplyErr(c) \/ TunnelClosed(c) \/ TunnelSshErr(c)
      BY <2>2, <3>5 DEF OpenTargetErr, ReplyErr, TunnelClosed, TunnelSshErr
    <3>6. CASE OpenSessionErr(c) \/ CheckedDead(c)
      BY <2>3, <3>6 DEF OpenSessionErr, CheckedDead
    <3> QED
      BY <1>6, <3>1, <3>2, <3>3, <3>4, <3>5, <3>6 DEF HandleClient, OpenChannel
  <2> QED
    BY <1>2, <2>1, <2>4, <2>5
<1>7. CASE \E i \in Slots : Supervise(i)
  BY <1>2, <1>7, SuperviseClients DEF clientVars
<1>8. CASE \E s \in Sessions : SessionCloses(s)
  BY <1>2, <1>8 DEF SessionCloses, clientVars
<1>9. CASE UNCHANGED vars
  BY <1>2, <1>9 DEF vars, clientVars
<1> QED
  BY <1>3, <1>4, <1>5, <1>6, <1>7, <1>8, <1>9 DEF Next

\* The choice of a client is good until a lease changes, and then nobody's is.
LEMMA HandleClientChoice ==
  ASSUME TypeOK, ScansSlots, CalmChoice, NEW c \in Clients, HandleClient(c)
  PROVE  CalmChoice'
<1> USE DEF TypeOK, ClientStep
<1>1. ASSUME UNCHANGED <<lease, scanVars, calm>>, client[c] # "selecting",
             \A d \in Clients \ {c} : client'[d] = client[d]
      PROVE  CalmChoice'
  <2>1. Usable' \subseteq Usable
    BY HandleClientEnds
  <2>2. \A d \in calm' : client'[d] = "selecting"
    BY <1>1 DEF CalmChoice
  <2> QED
    BY <1>1, <2>1, <2>2, ChoiceKept
<1>2. ASSUME calm' = {} PROVE CalmChoice'
  BY <1>2 DEF CalmChoice
<1>3. ASSUME NEW from, TaskEnds(c, from) PROVE CalmChoice'
  BY <1>2, <1>3 DEF TaskEnds, DropLease
<1>4. ASSUME NEW from, SessionFailed(c, from) PROVE CalmChoice'
  BY <1>2, <1>3, <1>4 DEF SessionFailed, RetryOrGiveUp, DropLease
<1>5. CASE Accept(c) \/ CheckSlots(c) \/ NotifyWaiters(c) \/ PollPending(c)
           \/ TimerPending(c) \/ WaitTimeout(c)
  BY <1>1, <1>5 DEF Accept, CheckSlots, NotifyWaiters, PollPending, TimerPending, WaitTimeout,
     sessionVars
<1>6. ASSUME UNCHANGED <<slots, lease, sessionVars>>
      PROVE  Usable' = Usable /\ \A s : Load(s)' = Load(s)
  BY <1>6, UsableStays DEF Load, sessionVars
<1>7. CASE SessionReady(c)
  <2>1. /\ client[c] = "waiting" /\ client' = [client EXCEPT ![c] = "selecting"]
        /\ unread' = [unread EXCEPT ![c] = {slots[i] : i \in Slots} \ {NoSession}]
        /\ calm' = calm \cup {c}
        /\ UNCHANGED <<slots, lease, looking, best, bestLoad, sessionVars>>
    BY <1>7 DEF SessionReady
  <2>2. best[c] = NoSession
    BY <2>1 DEF ScansSlots
  <2>3. Usable \subseteq {slots[i] : i \in Slots} \ {NoSession}
    BY DEF Usable, LiveSlots
  <2>4. \A d \in calm : d # c
    BY <2>1 DEF CalmChoice
  <2> QED
    BY <1>6, <2>1, <2>2, <2>3, <2>4 DEF CalmChoice
<1>8. CASE \E s \in Sessions : Look(c, s)
  <2>1. PICK s \in Sessions : Look(c, s)
    BY <1>8
  <2>2. /\ looking[c] = NoSession
        /\ unread' = [unread EXCEPT ![c] = @ \ {s}]
        /\ looking' = [looking EXCEPT ![c] = IF IsLive(s) THEN s ELSE NoSession]
        /\ UNCHANGED <<slots, client, lease, best, bestLoad, calm, sessionVars>>
    BY <2>1 DEF Look
  <2>3. s \in Usable => IsLive(s)
    BY DEF Usable, LiveSlots
  <2>4. NoSession \notin Usable
    BY DEF Usable, LiveSlots
  <2> QED
    BY <1>6, <2>2, <2>3, <2>4 DEF CalmChoice
<1>9. CASE ReadLoad(c)
  <2>1. /\ looking[c] # NoSession /\ looking' = [looking EXCEPT ![c] = NoSession]
        /\ UNCHANGED <<slots, client, lease, unread, calm, sessionVars>>
        /\ IF best[c] = NoSession \/ Load(looking[c]) < bestLoad[c]
           THEN /\ best' = [best EXCEPT ![c] = looking[c]]
                /\ bestLoad' = [bestLoad EXCEPT ![c] = Load(looking[c])]
           ELSE UNCHANGED <<best, bestLoad>>
    BY <1>9 DEF ReadLoad
  <2>2. \A s : Load(s) \in Nat
    BY LoadCounts
  <2> SUFFICES ASSUME NEW d \in calm
               PROVE  /\ client[d] = "selecting"
                      /\ best'[d] # NoSession => bestLoad'[d] = Load(best'[d])
                      /\ \A s \in Usable :
                           \/ s \in unread[d] \/ s = looking'[d]
                           \/ best'[d] # NoSession /\ Load(best'[d]) <= Load(s)
    BY <1>6, <2>1 DEF CalmChoice
  <2>3. CASE d # c
    BY <2>1, <2>3 DEF CalmChoice
  <2>4. CASE d = c /\ (best[c] = NoSession \/ Load(looking[c]) < bestLoad[c])
    <3>1. best'[c] = looking[c] /\ bestLoad'[c] = Load(looking[c])
      BY <2>1, <2>4
    <3>2. best[c] # NoSession => Load(looking[c]) <= Load(best[c])
      BY <2>2, <2>4 DEF CalmChoice
    <3>3. \A s \in Usable : s \in unread[c] \/ Load(looking[c]) <= Load(s)
      BY <2>2, <2>4, <3>2 DEF CalmChoice
    <3> QED
      BY <2>1, <2>4, <3>1, <3>3 DEF CalmChoice
  <2>5. CASE d = c /\ ~(best[c] = NoSession \/ Load(looking[c]) < bestLoad[c])
    <3>1. best' = best /\ bestLoad' = bestLoad /\ best[c] # NoSession
      BY <2>1, <2>5
    <3>2. Load(best[c]) <= Load(looking[c])
      BY <2>2, <2>5 DEF CalmChoice
    <3> QED
      BY <2>1, <2>5, <3>1, <3>2 DEF CalmChoice
  <2> QED
    BY <2>3, <2>4, <2>5
<1>10. CASE Select(c)
  BY <1>2, <1>10 DEF Select
<1>11. CASE SelectNone(c)
  <2>1. /\ client' = [client EXCEPT ![c] = "idle"] /\ calm' = calm \ {c}
        /\ UNCHANGED <<slots, lease, scanVars, sessionVars>>
    BY <1>11 DEF SelectNone
  <2>2. \A d \in calm' : client'[d] = "selecting"
    BY <2>1 DEF CalmChoice
  <2> QED
    BY <1>6, <2>1, <2>2, ChoiceKept
<1>12. CASE OpenOk(c) \/ Stall(c) \/ CheckedLive(c) \/ ReplyOk(c) \/ TunnelEnds(c)
  BY <1>1, <1>12 DEF OpenOk, Stall, CheckedLive, ReplyOk, TunnelEnds, AwaitingOpen, sessionVars
<1>13. CASE \E s \in Sessions : PingAnswered(c, s) \/ PingFailed(c, s)
  BY <1>1, <1>13 DEF PingAnswered, PingFailed
<1>14. CASE OpenTargetErr(c) \/ ReplyErr(c) \/ TunnelClosed(c) \/ TunnelSshErr(c)
  BY <1>3, <1>14 DEF OpenTargetErr, ReplyErr, TunnelClosed, TunnelSshErr
<1>15. CASE OpenSessionErr(c) \/ CheckedDead(c)
  BY <1>4, <1>15 DEF OpenSessionErr, CheckedDead
<1> QED
  BY <1>5, <1>7, <1>8, <1>9, <1>10, <1>11, <1>12, <1>13, <1>14, <1>15
     DEF HandleClient, Acquire, OpenChannel

\* Every step keeps the choices good.
LEMMA ChoiceNext == IInv(Slots) /\ ScansSlots /\ CalmChoice /\ [Next]_vars => CalmChoice'
<1> SUFFICES ASSUME IInv(Slots), ScansSlots, CalmChoice, [Next]_vars PROVE CalmChoice'
  OBVIOUS
<1>1. CASE UNCHANGED vars
  BY <1>1, UsableStays DEF vars, clientVars, sessionVars, CalmChoice, Load
<1>2. calm # {} => Usable' \subseteq Usable
  BY NothingComesUp DEF CalmChoice, SlotsWritable, IInv, TypeOK
<1>3. ASSUME UNCHANGED clientVars PROVE CalmChoice'
  BY <1>2, <1>3, ChoiceKept DEF clientVars, CalmChoice
<1>4. ASSUME NEW s \in Sessions, SessionCloses(s) PROVE UNCHANGED clientVars
  BY <1>4 DEF SessionCloses
<1> QED
  BY <1>1, <1>3, <1>4, SuperviseClients, HandleClientChoice DEF Next, IInv

\* A step of Pool as PoolService may take it.
ServiceStep == [Service!Next]_(Service!serviceVars)

\* The two modules count alike.
LEMMA ServiceCounts == \A S : Service!Cardinality(S) = Cardinality(S)
  BY DEF Service!Cardinality, Cardinality

\* Who waits and who has its channel follows from where the clients are.
LEMMA ClientMoves ==
  ASSUME TypeOK, NEW c \in Clients, NEW to, client' = [client EXCEPT ![c] = to]
  PROVE  /\ to \in Acquiring => Waiting' = Waiting \cup {c}
         /\ to \notin Acquiring => Waiting' = Waiting \ {c}
         /\ to \notin Acquiring /\ c \notin Waiting => Waiting' = Waiting
         /\ to \in HasChannel => Opened' = Opened \cup {c}
         /\ to \notin HasChannel => Opened' = Opened \ {c}
         /\ to \notin HasChannel /\ c \notin Opened => Opened' = Opened
  BY DEF TypeOK, Waiting, Opened

\* Only a poll that finds nothing adds to those who have missed.
LEMMA MissedMoves ==
  ASSUME TypeOK, NEW c \in Clients, NEW to, client' = [client EXCEPT ![c] = to]
  PROVE  /\ to = "timing" => Missed' = Missed \cup {c}
         /\ to # "timing" => Missed' = Missed \ {c}
         /\ to # "timing" /\ client[c] # "timing" => Missed' = Missed
  BY DEF TypeOK, Missed

\* What a client goes by changes with what it has in hand.
LEMMA SightStays ==
  ASSUME UNCHANGED <<looking, best>>
  PROVE  Sight' = Sight
  BY DEF Sight

\* One that is dead or closed is not.
LEMMA UsableLoses ==
  ASSUME TypeOK, NEW s \in Sessions, slots' = slots,
         \A t \in Sessions \ {s} : dead'[t] = dead[t] /\ closed'[t] = closed[t],
         dead'[s] \/ closed'[s]
  PROVE  Usable' = Usable \ {s}
  BY DEF TypeOK, Usable, LiveSlots, IsLive

\* The end of a session takes it from the clients, once.
LEMMA DownOnce ==
  ASSUME NEW s \in Sessions, Usable' = Usable \ {s},
         UNCHANGED <<client, lease, tried, looking, best, calm>>
  PROVE  ServiceStep
<1>1. Waiting' = Waiting /\ Opened' = Opened /\ Missed' = Missed /\ Sight' = Sight
  BY DEF Waiting, Opened, Missed, Sight
<1>2. CASE s \in Usable
  BY <1>1, <1>2 DEF ServiceStep, Service!Next, Service!Down, Service!lookVars
<1>3. CASE s \notin Usable
  BY <1>1, <1>3 DEF ServiceStep, Service!serviceVars, Service!lookVars
<1> QED
  BY <1>2, <1>3

\* A supervisor gives the clients sessions nobody knows and takes dead ones.
LEMMA SupervisorServes ==
  ASSUME IInv(Slots), NEW i \in Slots, Supervise(i)
  PROVE  ServiceStep
<1> USE DEF IInv, SupStep
<1>1. ASSUME NEW s \in Sessions, ConnectOk(i, s) PROVE ServiceStep
  <2>1. /\ slots[i] = NoSession /\ slots' = [slots EXCEPT ![i] = s]
        /\ dead' = [dead EXCEPT ![s] = FALSE] /\ closed' = [closed EXCEPT ![s] = FALSE]
        /\ UNCHANGED <<client, lease, tried, looking, best, calm>>
    BY <1>1 DEF ConnectOk, SetSlot, SlotFollowsSupervisor, clientVars
  <2>2. /\ \A j \in Slots : slots[j] # s
        /\ \A c \in Clients : lease[c] # s /\ s \notin tried[c]
    BY <1>1 DEF ConnectOk, Unused
  <2>3. Usable' = Usable \cup {s} /\ s \notin Usable
    BY <2>1, <2>2, PoolAssumption DEF TypeOK, Usable, LiveSlots, IsLive
  <2>4. Waiting' = Waiting /\ Opened' = Opened /\ Missed' = Missed /\ Sight' = Sight
    BY <2>1 DEF Waiting, Opened, Missed, Sight
  <2> QED
    BY <2>1, <2>2, <2>3, <2>4 DEF ServiceStep, Service!Next, Service!Up, Service!lookVars
<1>2. CASE SessionLost(i)
  <2>1. held[i] \in Sessions
    BY <1>2 DEF SessionLost, SlotFollowsSupervisor, TypeOK
  <2>2. Usable' = Usable \ {held[i]}
    BY <1>2, <2>1, UsableLoses DEF SessionLost, TypeOK
  <2> QED
    BY <1>2, <2>1, <2>2, DownOnce DEF SessionLost, clientVars
<1>3. CASE ClearSlot(i)
  <2>1. slots[i] = held[i] /\ dead[held[i]] /\ slots' = [slots EXCEPT ![i] = NoSession]
        /\ UNCHANGED <<dead, closed, client, lease, tried, looking, best, calm>>
    BY <1>3 DEF ClearSlot, SetSlot, SlotFollowsSupervisor, clientVars, sessionVars
  <2>2. Usable' = Usable
    BY <2>1 DEF TypeOK, Usable, LiveSlots, IsLive
  <2> QED
    BY <2>1, <2>2 DEF ServiceStep, Service!serviceVars, Service!lookVars, Waiting, Opened,
       Missed, Sight
<1>4. CASE Disconnected(i)
  <2>1. held[i] \in Sessions /\ dead[held[i]]
    BY <1>4 DEF Disconnected, SlotFollowsSupervisor, TypeOK
  <2>2. Usable' = Usable \ {held[i]}
    BY <1>4, <2>1, UsableLoses DEF Disconnected, TypeOK
  <2> QED
    BY <1>4, <2>1, <2>2, DownOnce DEF Disconnected, clientVars
<1>5. CASE ConnectErr(i) \/ CountReceivers(i) \/ Woken(i) \/ IntervalPassed(i)
  BY <1>5, UsableStays DEF ConnectErr, CountReceivers, Woken, IntervalPassed, clientVars,
     sessionVars, ServiceStep, Service!serviceVars, Service!lookVars, Waiting, Opened,
     Missed, Sight
<1> QED
  BY <1>1, <1>2, <1>3, <1>4, <1>5 DEF Supervise

\* A client waits, looks for a session and takes it, or is refused.
LEMMA AcquireServes ==
  ASSUME IInv(Slots), ScansSlots, SeesAll, CalmChoice, NEW c \in Clients,
         Accept(c) \/ Acquire(c)
  PROVE  ServiceStep
<1> USE DEF IInv, ClientStep
<1>1. lease[c] # NoSession <=> client[c] \in Leasing
  BY DEF TypeOK
<1>2. Usable' = Usable
  BY UsableStays DEF Accept, Acquire, CheckSlots, NotifyWaiters, PollPending, TimerPending,
     WaitTimeout, SessionReady, Look, ReadLoad, Select, SelectNone, sessionVars
<1>3. {"idle", "opening"} \cap (Acquiring \cup HasChannel) = {} /\ Acquiring \cap HasChannel = {}
  BY DEF Acquiring, HasChannel
<1>4. Usable = {} <=> ~AnyLive
  BY DEF Usable, AnyLive
<1>5. CASE Accept(c)
  <2>1. /\ client[c] = "idle" /\ client' = [client EXCEPT ![c] = "asking"]
        /\ UNCHANGED <<lease, tried, looking, best, calm>>
    BY <1>5 DEF Accept
  <2>2. c \notin Waiting /\ c \notin Opened /\ "asking" \in Acquiring \ HasChannel
    BY <2>1 DEF Waiting, Opened, Acquiring, HasChannel
  <2>3. Waiting' = Waiting \cup {c} /\ Opened' = Opened
    BY <2>1, <2>2, ClientMoves
  <2>4. Missed' = Missed
    BY <2>1 DEF TypeOK, Missed
  <2>5. Sight' = Sight
    BY <2>1, SightStays
  <2> QED
    BY <1>1, <1>2, <2>1, <2>2, <2>3, <2>4, <2>5 DEF Leasing, ServiceStep, Service!Next, Service!Request,
       Service!Ask, Service!lookVars
<1>6. ASSUME client[c] \in Acquiring,
             \E to \in Acquiring : client' = [client EXCEPT ![c] = to]
      PROVE  Waiting' = Waiting /\ Opened' = Opened /\ c \in Waiting
  BY <1>3, <1>6 DEF TypeOK, Waiting, Opened
<1>7. CASE CheckSlots(c) \/ NotifyWaiters(c)
  <2>1. \E to \in Acquiring \ {"timing"} : client' = [client EXCEPT ![c] = to]
    BY <1>7 DEF CheckSlots, NotifyWaiters, Acquiring
  <2>2. /\ client[c] \in Acquiring \ {"timing"}
        /\ UNCHANGED <<lease, tried, looking, best, calm>>
    BY <1>7 DEF CheckSlots, NotifyWaiters, Acquiring
  <2>3. Missed' = Missed /\ Sight' = Sight
    BY <2>1, <2>2, ClientMoves, MissedMoves, SightStays
  <2> QED
    BY <1>2, <1>6, <2>1, <2>2, <2>3
       DEF ServiceStep, Service!serviceVars, Service!lookVars
<1>8. CASE PollPending(c)
  <2>1. /\ client[c] = "waiting" /\ client' = [client EXCEPT ![c] = "timing"]
        /\ Usable = {} /\ UNCHANGED <<lease, tried, looking, best, calm>>
    BY <1>4, <1>8 DEF PollPending
  <2>2. Missed' = Missed \cup {c} /\ Sight' = Sight
    BY <2>1, ClientMoves, MissedMoves, SightStays
  <2>3. Waiting' = Waiting /\ Opened' = Opened /\ c \in Waiting
    BY <1>6, <2>1 DEF Acquiring
  <2> QED
    BY <1>2, <2>1, <2>2, <2>3
       DEF ServiceStep, Service!Next, Service!Request, Service!Miss
<1>9. CASE TimerPending(c)
  <2>1. /\ client[c] = "timing" /\ client' = [client EXCEPT ![c] = "waiting"]
        /\ UNCHANGED <<lease, tried, looking, best, calm>>
    BY <1>9 DEF TimerPending
  <2>2. c \in Missed
    BY <2>1 DEF Missed
  <2>3. Waiting' = Waiting /\ Opened' = Opened
    BY <1>6, <2>1 DEF Acquiring
  <2>4. Missed' = Missed \ {c}
    BY <2>1 DEF TypeOK, Missed
  <2>5. Sight' = Sight
    BY <2>1, SightStays
  <2> QED
    BY <1>2, <2>1, <2>2, <2>3, <2>4, <2>5
       DEF ServiceStep, Service!Next, Service!Request, Service!KeepWaiting
<1>10. CASE SessionReady(c)
  <2>1. /\ client[c] = "waiting" /\ client' = [client EXCEPT ![c] = "selecting"]
        /\ Usable # {} /\ calm' = calm \cup {c} /\ UNCHANGED <<lease, tried, looking, best>>
    BY <1>4, <1>10 DEF SessionReady
  <2>2. Missed' = Missed /\ Sight' = Sight /\ c \notin Missed
    BY <2>1, ClientMoves, MissedMoves, SightStays DEF Missed
  <2>3. Waiting' = Waiting /\ Opened' = Opened /\ c \in Waiting
    BY <1>6, <2>1 DEF Acquiring
  <2> QED
    BY <1>2, <2>1, <2>2, <2>3
       DEF ServiceStep, Service!Next, Service!Request, Service!Begin
<1>11. ASSUME NEW seen \in SUBSET (Sight[c] \cup Usable), Sight' = [Sight EXCEPT ![c] = seen],
              client[c] = "selecting", UNCHANGED <<client, lease, tried, calm>>
       PROVE  ServiceStep
  <2>1. Waiting' = Waiting /\ Opened' = Opened /\ Missed' = Missed
    BY <1>11 DEF Waiting, Opened, Missed
  <2>2. c \in Waiting \ Missed
    BY <1>11 DEF Waiting, Missed, Acquiring
  <2> QED
    BY <1>2, <1>11, <2>1, <2>2
       DEF ServiceStep, Service!Next, Service!Request, Service!See
<1>12. CASE \E s \in Sessions : Look(c, s)
  <2>1. PICK s \in Sessions : Look(c, s)
    BY <1>12
  <2>2. /\ client[c] = "selecting" /\ looking[c] = NoSession /\ s \in unread[c]
        /\ looking' = [looking EXCEPT ![c] = IF IsLive(s) THEN s ELSE NoSession]
        /\ UNCHANGED <<client, lease, tried, best, calm>>
    BY <2>1 DEF Look
  <2>3. PICK i \in Slots : slots[i] = s
    BY <2>2 DEF ScansSlots
  <2>4. IsLive(s) => s \in Usable
    BY <2>3, PoolAssumption DEF Usable, LiveSlots
  <2> DEFINE seen == {looking'[c], best[c]} \ {NoSession}
  <2>5. seen \in SUBSET (Sight[c] \cup Usable)
    BY <2>2, <2>4 DEF Sight, TypeOK
  <2>6. Sight' = [Sight EXCEPT ![c] = seen]
    BY <2>2 DEF Sight, TypeOK
  <2> QED
    BY <1>11, <2>2, <2>5, <2>6
<1>13. CASE ReadLoad(c)
  <2>1. /\ client[c] = "selecting" /\ looking' = [looking EXCEPT ![c] = NoSession]
        /\ best' = [best EXCEPT ![c] = looking[c]] \/ best' = best
        /\ UNCHANGED <<client, lease, tried, calm>>
    BY <1>13 DEF ReadLoad
  <2> DEFINE seen == {looking'[c], best'[c]} \ {NoSession}
  <2>2. seen \in SUBSET (Sight[c] \cup Usable)
    BY <2>1 DEF Sight, TypeOK
  <2>3. Sight' = [Sight EXCEPT ![c] = seen]
    BY <2>1 DEF Sight, TypeOK
  <2> QED
    BY <1>11, <2>1, <2>2, <2>3
<1>14. CASE WaitTimeout(c) \/ SelectNone(c)
  <2>1. /\ client[c] \in Acquiring /\ client' = [client EXCEPT ![c] = "idle"]
        /\ tried' = [tried EXCEPT ![c] = {}] /\ UNCHANGED <<lease, looking, best>>
    BY <1>14 DEF WaitTimeout, SelectNone, Acquiring
  <2>2. c \in Waiting /\ c \notin Opened
    BY <2>1 DEF Acquiring, HasChannel, Waiting, Opened
  <2>3. /\ Waiting' = Waiting \ {c} /\ Opened' = Opened /\ Missed' = Missed \ {c}
        /\ Sight' = Sight
    BY <1>3, <2>1, <2>2, ClientMoves, MissedMoves, SightStays
  <2>4. calm' = calm \ {c}
    BY <1>14 DEF WaitTimeout, SelectNone, CalmChoice
  <2>5. CASE WaitTimeout(c)
    <3>1. c \in Missed
      BY <2>5 DEF WaitTimeout, Missed
    <3> QED
      BY <1>2, <2>1, <2>2, <2>3, <2>4, <3>1
         DEF ServiceStep, Service!Next, Service!Request, Service!Refuse
  <2>6. CASE SelectNone(c)
    <3>1. Usable = {}
      <4>1. client[c] = "selecting" /\ ScanOver(c) /\ best[c] = NoSession
        BY <2>6 DEF SelectNone
      <4>2. NoSession \notin Usable
        BY DEF Usable, LiveSlots
      <4> QED
        BY <4>1, <4>2 DEF ScanOver, SeesAll
    <3> QED
      BY <1>2, <2>1, <2>2, <2>3, <2>4, <3>1
         DEF ServiceStep, Service!Next, Service!Request, Service!Refuse
  <2> QED
    BY <1>14, <2>5, <2>6
<1>15. CASE Select(c)
  <2>1. /\ client[c] = "selecting" /\ client' = [client EXCEPT ![c] = "opening"]
        /\ ScanOver(c) /\ best[c] # NoSession /\ calm' = {}
        /\ lease' = [lease EXCEPT ![c] = best[c]] /\ best' = [best EXCEPT ![c] = NoSession]
        /\ UNCHANGED <<tried, looking>>
    BY <1>15 DEF Select
  <2>2. best[c] \in Sight[c] \ tried[c] /\ best[c] \in Sessions
    BY <2>1 DEF Sight, ScansSlots, TypeOK
  <2>3. c \in calm => \A t \in Usable : Load(best[c]) <= Load(t)
    <3>1. NoSession \notin Usable
      BY DEF Usable, LiveSlots
    <3> QED
      BY <2>1, <3>1 DEF CalmChoice, ScanOver
  <2>4. c \in calm => \A t \in Usable : Service!Load(best[c]) <= Service!Load(t)
    BY <2>3, ServiceCounts DEF Service!Load, Load
  <2>5. c \in Waiting \ Missed /\ c \notin Opened
    BY <2>1 DEF Acquiring, HasChannel, Waiting, Opened, Missed
  <2>6. Waiting' = Waiting \ {c} /\ Opened' = Opened
    BY <1>3, <2>1, <2>5, ClientMoves
  <2>7. Missed' = Missed
    BY <2>1 DEF TypeOK, Missed
  <2>8. Sight' = [Sight EXCEPT ![c] = {}]
    BY <2>1 DEF Sight, ScanOver, TypeOK
  <2> QED
    BY <1>2, <2>1, <2>2, <2>4, <2>5, <2>6, <2>7, <2>8
       DEF ServiceStep, Service!Next, Service!Request, Service!Serve
<1> QED
  BY <1>5, <1>7, <1>8, <1>9, <1>10, <1>12, <1>13, <1>14, <1>15 DEF Acquire

\* A client holds its session until the session opens the channel, fails it or is
\* of no more use to it.
LEMMA OpenServes ==
  ASSUME IInv(Slots), TriesCounted, NEW c \in Clients,
         OpenChannel(c) \/ ReplyOk(c) \/ ReplyErr(c) \/ TunnelEnds(c)
           \/ TunnelClosed(c) \/ TunnelSshErr(c)
  PROVE  ServiceStep
<1> USE DEF IInv
<1>1. client[c] \in Leasing /\ lease[c] \in Sessions /\ lease[c] # NoSession
  BY DEF TypeOK, OpenChannel, OpenOk, OpenTargetErr, OpenSessionErr, Stall, PingAnswered,
     PingFailed, CheckedLive, CheckedDead, ReplyOk, ReplyErr, TunnelEnds, TunnelClosed,
     TunnelSshErr, TaskEnds, ClientStep, Leasing, AwaitingOpen
<1>2. /\ c \notin Waiting
      /\ c \in Opened <=> client[c] \in HasChannel
      /\ "asking" \in Acquiring \ HasChannel /\ "idle" \notin Acquiring \cup HasChannel
      /\ client[c] # "timing"
  BY <1>1 DEF Waiting, Opened, Leasing, Acquiring, HasChannel
<1>3. ASSUME Kill(lease[c]), UNCHANGED <<slots, closed>>
      PROVE  Usable' = Usable \ {lease[c]}
  BY <1>1, <1>3, UsableLoses DEF Kill, TypeOK
<1>4. ASSUME NEW from, TaskEnds(c, from)
      PROVE  /\ Waiting' = Waiting /\ Opened' = Opened \ {c}
             /\ Missed' = Missed /\ Sight' = Sight /\ calm' = {}
             /\ lease' = [lease EXCEPT ![c] = NoSession]
             /\ tried' = [tried EXCEPT ![c] = {}]
             /\ UNCHANGED <<slots, closed>>
  <2>1. /\ client' = [client EXCEPT ![c] = "idle"]
        /\ lease' = [lease EXCEPT ![c] = NoSession] /\ calm' = {}
        /\ tried' = [tried EXCEPT ![c] = {}]
        /\ UNCHANGED <<slots, closed, looking, best>>
    BY <1>4 DEF TaskEnds, ClientStep, DropLease
  <2>2. Waiting' = Waiting /\ Opened' = Opened \ {c} /\ Missed' = Missed
    BY <1>2, <2>1, ClientMoves, MissedMoves
  <2> QED
    BY <2>1, <2>2, SightStays
<1>5. CASE OpenOk(c)
  <2>1. /\ client[c] \in AwaitingOpen /\ client' = [client EXCEPT ![c] = "replying"]
        /\ UNCHANGED <<slots, dead, closed, lease, tried, looking, best, calm>>
    BY <1>5 DEF OpenOk, ClientStep, sessionVars
  <2>2. /\ Waiting' = Waiting /\ Opened' = Opened \cup {c} /\ c \notin Opened
        /\ Missed' = Missed /\ Sight' = Sight
    BY <1>2, <2>1, ClientMoves, MissedMoves, SightStays DEF AwaitingOpen, Acquiring, HasChannel
  <2> QED
    BY <1>1, <2>1, <2>2, UsableStays
       DEF ServiceStep, Service!Next, Service!Request, Service!Open, Service!lookVars
<1>6. CASE OpenTargetErr(c)
  <2>1. TaskEnds(c, AwaitingOpen) /\ c \notin Opened /\ Usable' = Usable
    BY <1>2, <1>4, <1>6, UsableStays
       DEF OpenTargetErr, TaskEnds, ClientStep, AwaitingOpen, HasChannel
  <2>2. Service!Leave(c) /\ Opened' = Opened
    BY <1>1, <1>4, <2>1 DEF Service!Leave
  <2> QED
    BY <2>1, <2>2 DEF ServiceStep, Service!Next, Service!Request, Service!TargetFails
<1>7. ASSUME NEW from \in SUBSET AwaitingOpen, client[c] \in from, SessionFailed(c, from)
      PROVE  ServiceStep
  <2>1. c \notin Opened
    BY <1>2, <1>7 DEF AwaitingOpen, HasChannel
  <2>2. attempt[c] = Cardinality(tried[c]) + 1 /\ Cardinality(tried[c]) \in Nat
        /\ attempt[c] \in 1..Attempts
    BY <1>1, FS_CardinalityType DEF TriesCounted, TypeOK, Leasing
  <2>3. CASE attempt[c] < Attempts
    <3>1. /\ client' = [client EXCEPT ![c] = "asking"]
          /\ tried' = [tried EXCEPT ![c] = @ \cup {lease[c]}]
          /\ lease' = [lease EXCEPT ![c] = NoSession]
          /\ calm' = {}
          /\ UNCHANGED <<slots, closed, looking, best>> /\ Kill(lease[c])
      BY <1>7, <2>3 DEF SessionFailed, RetryOrGiveUp, ClientStep, DropLease
    <3>2. Waiting' = Waiting \cup {c} /\ Opened' = Opened
      BY <1>2, <2>1, <3>1, ClientMoves
    <3>3. Usable' = Usable \ {lease[c]}
      BY <1>3, <3>1
    <3>4. Service!Cardinality(tried[c]) + 1 < Attempts
      BY <2>2, <2>3, ServiceCounts
    <3>5. Missed' = Missed
      BY <1>2, <3>1 DEF TypeOK, Missed
    <3>6. Sight' = Sight
      BY <3>1, SightStays
    <3> QED
      BY <1>1, <2>1, <3>1, <3>2, <3>3, <3>4, <3>5, <3>6
         DEF ServiceStep, Service!Next, Service!Request, Service!Retry
  <2>4. CASE ~(attempt[c] < Attempts)
    <3>1. TaskEnds(c, from) /\ Kill(lease[c])
      BY <1>7, <2>4 DEF SessionFailed, RetryOrGiveUp
    <3>2. Usable' = Usable \ {lease[c]}
      BY <1>3, <1>4, <3>1
    <3>3. Service!Cardinality(tried[c]) + 1 = Attempts
      BY <2>2, <2>4, ServiceCounts, PoolAssumption
    <3>4. Service!Leave(c) /\ Opened' = Opened
      BY <1>1, <1>4, <2>1, <3>1 DEF Service!Leave
    <3> QED
      BY <2>1, <3>2, <3>3, <3>4 DEF ServiceStep, Service!Next, Service!Request, Service!Exhaust
  <2> QED
    BY <2>3, <2>4
<1>8. CASE OpenSessionErr(c) \/ CheckedDead(c)
  BY <1>7, <1>8 DEF OpenSessionErr, CheckedDead, AwaitingOpen
<1>9. CASE Stall(c) \/ CheckedLive(c) \/ ReplyOk(c) \/ TunnelEnds(c)
           \/ \E s \in Sessions : PingAnswered(c, s)
  <2>1. UNCHANGED <<slots, dead, closed, lease, tried, looking, best, calm>>
    BY <1>9 DEF Stall, CheckedLive, ReplyOk, TunnelEnds, PingAnswered, sessionVars
  <2>2. Waiting' = Waiting /\ Opened' = Opened /\ Missed' = Missed /\ Sight' = Sight
    <3>1. CASE Stall(c) \/ CheckedLive(c)
      <4>1. \E to \in {"pinging", "awaiting"} : client' = [client EXCEPT ![c] = to]
        BY <3>1 DEF Stall, CheckedLive, ClientStep
      <4>2. c \notin Opened
        BY <1>2, <3>1 DEF Stall, CheckedLive, ClientStep, HasChannel
      <4> QED
        BY <1>2, <2>1, <4>1, <4>2, ClientMoves, MissedMoves, SightStays DEF Acquiring, HasChannel
    <3>2. CASE ReplyOk(c) \/ TunnelEnds(c)
      <4>1. \E to \in {"tunnel", "closing"} : client' = [client EXCEPT ![c] = to]
        BY <3>2 DEF ReplyOk, TunnelEnds, ClientStep
      <4>2. Opened \cup {c} = Opened
        BY <1>2, <3>2 DEF ReplyOk, TunnelEnds, ClientStep, HasChannel
      <4> QED
        BY <1>2, <2>1, <4>1, <4>2, ClientMoves, MissedMoves, SightStays DEF Acquiring, HasChannel
    <3>3. CASE \E s \in Sessions : PingAnswered(c, s)
      BY <3>3 DEF PingAnswered, Waiting, Opened, Missed, Sight
    <3> QED
      BY <1>9, <3>1, <3>2, <3>3
  <2> QED
    BY <2>1, <2>2, UsableStays DEF ServiceStep, Service!serviceVars, Service!lookVars
<1>10. ASSUME NEW s \in Sessions, PingFailed(c, s) PROVE ServiceStep
  <2>1. Usable' = Usable \ {s}
    BY <1>10, UsableLoses DEF PingFailed, Kill, TypeOK
  <2> QED
    BY <1>10, <2>1, DownOnce DEF PingFailed
<1>11. CASE ReplyErr(c) \/ TunnelClosed(c) \/ TunnelSshErr(c)
  <2>1. PICK from \in SUBSET {"replying", "closing"} : client[c] \in from /\ TaskEnds(c, from)
    BY <1>11 DEF ReplyErr, TunnelClosed, TunnelSshErr, TaskEnds, ClientStep
  <2>2. c \in Opened
    BY <1>2, <2>1 DEF HasChannel
  <2>3. Usable' \in {Usable, Usable \ {lease[c]}}
    BY <1>3, <1>4, <1>11, <2>1, UsableStays DEF ReplyErr, TunnelClosed, TunnelSshErr
  <2>4. Service!Leave(c)
    BY <1>1, <1>4, <2>1 DEF Service!Leave
  <2>5. Opened' = Opened \ {c}
    BY <1>4, <2>1
  <2> QED
    BY <2>2, <2>3, <2>4, <2>5 DEF ServiceStep, Service!Next, Service!Request, Service!Finish
<1> QED
  BY <1>5, <1>6, <1>8, <1>9, <1>10, <1>11 DEF OpenChannel

\* What the argument goes by.
SInv == IInv(Slots) /\ ScansSlots /\ TriesCounted /\ SeesAll /\ CalmChoice

\* Every step of Pool is one of PoolService, or none.
LEMMA StepServes == SInv /\ [Next]_vars => ServiceStep
<1> SUFFICES ASSUME SInv, [Next]_vars PROVE ServiceStep
  OBVIOUS
<1>1. ASSUME NEW s \in Sessions, SessionCloses(s) PROVE ServiceStep
  <2>1. Usable' = Usable \ {s}
    BY <1>1, UsableLoses DEF SessionCloses, SInv, IInv, TypeOK
  <2> QED
    BY <1>1, <2>1, DownOnce DEF SessionCloses, clientVars
<1>2. CASE UNCHANGED vars
  BY <1>2, UsableStays, SightStays DEF vars, clientVars, sessionVars, ServiceStep,
     Service!serviceVars, Service!lookVars, Waiting, Opened, Missed
<1> QED
  BY <1>1, <1>2, SupervisorServes, AcquireServes, OpenServes DEF Next, HandleClient, SInv

\* Before the first connection nothing is usable and nobody waits.
LEMMA InitServes == Init => TriesCounted /\ SeesAll /\ CalmChoice /\ Service!Init
<1> SUFFICES ASSUME Init PROVE TriesCounted /\ SeesAll /\ CalmChoice /\ Service!Init
  OBVIOUS
<1>1. TriesCounted
  BY FS_EmptySet DEF Init, TriesCounted
<1>2. Usable = {} /\ Waiting = {} /\ Opened = {} /\ Missed = {}
  BY DEF Init, Usable, LiveSlots, Waiting, Opened, Missed, Acquiring, HasChannel
<1>3. Sight = [c \in Clients |-> {}]
  BY DEF Init, Sight
<1>4. SeesAll /\ CalmChoice
  BY DEF Init, SeesAll, CalmChoice
<1> QED
  BY <1>1, <1>2, <1>3, <1>4 DEF Init, Service!Init

\* Pool keeps the promise of PoolService to its clients: they are refused only if
\* they have seen that nothing is usable, take a session they have seen usable, the
\* least loaded one unless another client took or left one while they looked, never
\* return to a session that failed them, and are dropped only when the target or
\* Attempts sessions have failed.
THEOREM PoolRefinement == Spec => IsPoolService
<1>1. Init => TriesCounted /\ SeesAll /\ CalmChoice /\ Service!Init
  BY InitServes
<1>2. SInv /\ [Next]_vars => (TriesCounted /\ SeesAll /\ CalmChoice)'
  BY TriesNext, SeesNext, ChoiceNext DEF SInv
<1>3. SInv /\ [Next]_vars => [Service!Next]_(Service!serviceVars)
  BY StepServes DEF ServiceStep
<1>4. Spec => [](IInv(Slots) /\ ScansSlots)
  BY Invariance
<1>5. SInv <=> (IInv(Slots) /\ ScansSlots) /\ TriesCounted /\ SeesAll /\ CalmChoice
  BY DEF SInv
<1> QED
  BY <1>1, <1>2, <1>3, <1>4, <1>5, PTL DEF Spec, IsPoolService, Service!SafeService

---------------------------------------------------------------------------
(* A run of the proxy: wherever its tasks are when they are aborted, no    *)
(* session is lost track of and nothing of the run is left.                *)

\* The types the argument needs; the other variables do not matter to it.
Shape ==
  /\ slots \in [Slots -> Sessions \cup {NoSession}]
  /\ held \in [Slots -> Sessions \cup {NoSession}]
  /\ sup \in [Slots -> SupervisorStates]
  /\ client \in [Clients -> ClientStates]
  /\ lease \in [Clients -> Sessions \cup {NoSession}]
  /\ looking \in [Clients -> Sessions \cup {NoSession}]
  /\ best \in [Clients -> Sessions \cup {NoSession}]
  /\ \A c \in Clients : lease[c] # NoSession => client[c] \in Leasing
  /\ run \in RunStates
  /\ supervisors \in SUBSET Slots
  /\ open \in SUBSET Sessions

\* A slot is filled by its supervisor, which holds what it has put there; a
\* supervisor that has ended holds nothing.
Holds ==
  /\ \A i \in supervisors :
       slots[i] # NoSession => sup[i] \in {"serving", "clearing"} /\ slots[i] = held[i]
  /\ \A i \in Slots \ supervisors : held[i] = NoSession

\* Before a run has its listener there is nothing of it.
Unbound ==
  run = "binding" =>
    /\ supervisors = {} /\ open = {} /\ shown = 0
    /\ status \in {"Starting", "Stopping"}
    /\ \A i \in Slots : slots[i] = NoSession
    /\ \A c \in Clients : client[c] = "idle"

\* After the join loops no task is left.
AllJoined ==
  run \in {"closing", "ended"} =>
    supervisors = {} /\ \A c \in Clients : client[c] = "idle"

RInv ==
  /\ Shape
  /\ Holds
  /\ Unbound
  /\ AllJoined
  /\ SessionsAreTracked
  /\ NothingLeftBehind

\* Before the first run nothing is connected.
LEMMA RunInitInv == RunInit => RInv
<1> SUFFICES ASSUME RunInit PROVE RInv
  OBVIOUS
<1>1. Shape
  BY DEF RunInit, Init, Shape, SupervisorStates, ClientStates, RunStates
<1>2. Holds /\ Unbound /\ AllJoined /\ SessionsAreTracked /\ NothingLeftBehind
  BY DEF RunInit, Init, Holds, Unbound, AllJoined, SessionsAreTracked, NothingLeftBehind
<1> QED
  BY <1>1, <1>2 DEF RInv

---------------------------------------------------------------------------
(* What the tasks of Pool do to the slots *)

\* A client's step leaves slots and supervisors alone, and its lease goes with
\* its state.
LEMMA ClientKeepsSlots ==
  ASSUME Shape, NEW c \in Clients, HandleClient(c)
  PROVE  /\ UNCHANGED <<slots, held, sup, shown>>
         /\ client' \in [Clients -> ClientStates]
         /\ lease' \in [Clients -> Sessions \cup {NoSession}]
         /\ looking' \in [Clients -> Sessions \cup {NoSession}]
         /\ best' \in [Clients -> Sessions \cup {NoSession}]
         /\ \A d \in Clients : lease'[d] # NoSession => client'[d] \in Leasing
         /\ \A d \in Clients \ {c} : client'[d] = client[d]
<1> USE DEF Shape, ClientStep, DropLease, DropPings, supVars, statsVars, Acquiring,
        Leasing, ClientStates
<1>1. CASE Accept(c)
  BY <1>1 DEF Accept
<1>2. CASE CheckSlots(c)
  BY <1>2 DEF CheckSlots
<1>3. CASE NotifyWaiters(c)
  BY <1>3 DEF NotifyWaiters
<1>4. CASE PollPending(c) \/ TimerPending(c) \/ SessionReady(c)
           \/ ReadLoad(c) \/ \E s \in Sessions : Look(c, s)
  BY <1>4 DEF PollPending, TimerPending, SessionReady, Look, ReadLoad
<1>5. CASE WaitTimeout(c) \/ SelectNone(c)
  BY <1>5 DEF WaitTimeout, SelectNone
<1>6. CASE Select(c)
  BY <1>6 DEF Select
<1>7. CASE OpenOk(c) \/ Stall(c) \/ CheckedLive(c)
  BY <1>7 DEF OpenOk, Stall, CheckedLive, AwaitingOpen
<1>8. CASE ReplyOk(c) \/ TunnelEnds(c)
  BY <1>8 DEF ReplyOk, TunnelEnds
<1>9. ASSUME NEW from, TaskEnds(c, from)
      PROVE  /\ UNCHANGED <<slots, held, sup, shown>>
             /\ client' \in [Clients -> ClientStates]
             /\ lease' \in [Clients -> Sessions \cup {NoSession}]
             /\ UNCHANGED <<looking, best>>
             /\ \A d \in Clients : lease'[d] # NoSession => client'[d] \in Leasing
             /\ \A d \in Clients \ {c} : client'[d] = client[d]
  BY <1>9 DEF TaskEnds
<1>10. CASE OpenTargetErr(c) \/ ReplyErr(c) \/ TunnelClosed(c) \/ TunnelSshErr(c)
  BY <1>9, <1>10 DEF OpenTargetErr, ReplyErr, TunnelClosed, TunnelSshErr
<1>11. ASSUME NEW from, SessionFailed(c, from)
       PROVE  /\ UNCHANGED <<slots, held, sup, shown>>
              /\ client' \in [Clients -> ClientStates]
              /\ lease' \in [Clients -> Sessions \cup {NoSession}]
              /\ UNCHANGED <<looking, best>>
              /\ \A d \in Clients : lease'[d] # NoSession => client'[d] \in Leasing
              /\ \A d \in Clients \ {c} : client'[d] = client[d]
  <2>1. CASE TaskEnds(c, from)
    BY <1>9, <2>1
  <2>2. CASE ~TaskEnds(c, from)
    BY <1>11, <2>2 DEF SessionFailed, RetryOrGiveUp
  <2> QED
    BY <2>1, <2>2
<1>12. CASE OpenSessionErr(c) \/ CheckedDead(c)
  BY <1>11, <1>12 DEF OpenSessionErr, CheckedDead
<1>13. CASE \E s \in Sessions : PingAnswered(c, s) \/ PingFailed(c, s)
  BY <1>13 DEF PingAnswered, PingFailed
<1> QED
  BY <1>1, <1>2, <1>3, <1>4, <1>5, <1>6, <1>7, <1>8, <1>10, <1>12, <1>13
     DEF HandleClient, Acquire, OpenChannel

\* A supervisor fills an empty slot with the session it holds, or empties it on
\* the way to the disconnect; it touches no other slot.
LEMMA SupervisorKeepsSlots ==
  ASSUME Shape, NEW i \in Slots, Supervise(i)
  PROVE  /\ UNCHANGED <<client, lease, looking, best>>
         /\ slots' \in [Slots -> Sessions \cup {NoSession}]
         /\ held' \in [Slots -> Sessions \cup {NoSession}]
         /\ sup' \in [Slots -> SupervisorStates]
         /\ \A j \in Slots \ {i} :
              slots'[j] = slots[j] /\ held'[j] = held[j] /\ sup'[j] = sup[j]
         /\ \/ /\ sup[i] = "connecting" /\ sup'[i] = "serving"
               /\ slots'[i] = held'[i] /\ held'[i] \in Sessions
            \/ /\ sup[i] = "clearing" /\ sup'[i] = "disconnecting"
               /\ slots'[i] = NoSession
            \/ /\ sup[i] = "serving" /\ sup'[i] = "clearing"
               /\ slots' = slots /\ held' = held
            \/ /\ sup[i] \notin {"serving", "clearing"}
               /\ sup'[i] \in {"connecting", "registered", "parked", "pausing"}
               /\ slots' = slots
<1> USE DEF Shape, SupStep, SetSlot, SupervisorStates, clientVars
<1>1. CASE \E s \in Sessions : ConnectOk(i, s)
  BY <1>1 DEF ConnectOk
<1>2. CASE ConnectErr(i) \/ CountReceivers(i) \/ Woken(i) \/ IntervalPassed(i)
  BY <1>2 DEF ConnectErr, CountReceivers, Woken, IntervalPassed
<1>3. CASE SessionLost(i)
  BY <1>3 DEF SessionLost
<1>4. CASE ClearSlot(i)
  BY <1>4 DEF ClearSlot
<1>5. CASE Disconnected(i)
  BY <1>5 DEF Disconnected
<1> QED
  BY <1>1, <1>2, <1>3, <1>4, <1>5 DEF Supervise

---------------------------------------------------------------------------
(* The steps of a run *)

\* A step of a supervisor opens a session only into its slot, and empties only
\* that one.
LEMMA SupervisorRunsInv ==
  ASSUME RInv, NEW i \in Slots, SupervisorRuns(i)
  PROVE  RInv'
<1> USE DEF RInv, SupervisorRuns
<1>1. i \in supervisors /\ Supervise(i) /\ UNCHANGED <<run, stop, supervisors>>
  OBVIOUS
<1>2. run \notin {"binding", "closing", "ended"}
  BY <1>1 DEF Unbound, AllJoined
<1>3. /\ slots' \in [Slots -> Sessions \cup {NoSession}]
      /\ held' \in [Slots -> Sessions \cup {NoSession}]
      /\ sup' \in [Slots -> SupervisorStates]
      /\ \A j \in Slots \ {i} :
           slots'[j] = slots[j] /\ held'[j] = held[j] /\ sup'[j] = sup[j]
      /\ UNCHANGED <<client, lease, looking, best>>
  BY <1>1, SupervisorKeepsSlots
<1>4. Shape'
  <2>1. open' \in SUBSET Sessions
    BY <1>1, SupervisorKeepsSlots DEF Shape
  <2> QED
    BY <1>1, <1>3, <2>1 DEF Shape
<1>5. Holds'
  <2>1. slots'[i] # NoSession =>
          sup'[i] \in {"serving", "clearing"} /\ slots'[i] = held'[i]
    BY <1>1, SupervisorKeepsSlots DEF Holds, Shape
  <2> QED
    BY <1>1, <1>3, <2>1 DEF Holds, Shape
<1>6. SessionsAreTracked'
  <2>1. CASE sup[i] = "connecting" /\ sup'[i] = "serving"
    <3>1. open' = open \cup {held'[i]} /\ slots'[i] = held'[i] /\ slots[i] = NoSession
      BY <1>1, <2>1, SupervisorKeepsSlots DEF Holds
    <3>2. NoSession \notin open
      BY PoolAssumption DEF Shape
    <3> QED
      BY <1>3, <3>1, <3>2 DEF SessionsAreTracked
  <2>2. CASE sup'[i] = "disconnecting"
    BY <1>1, <1>3, <2>2, SupervisorKeepsSlots DEF SessionsAreTracked, Holds
  <2>3. CASE sup'[i] # "disconnecting" /\ ~(sup[i] = "connecting" /\ sup'[i] = "serving")
    <3>1. open' = open /\ slots' = slots
      BY <1>1, <2>3, SupervisorKeepsSlots
    <3> QED
      BY <3>1 DEF SessionsAreTracked
  <2> QED
    BY <2>1, <2>2, <2>3
<1> QED
  BY <1>1, <1>2, <1>4, <1>5, <1>6 DEF Unbound, AllJoined, NothingLeftBehind

\* A step of a client leaves the slots to the supervisors.
LEMMA ClientRunsInv ==
  ASSUME RInv, NEW c \in Clients, ClientRuns(c)
  PROVE  RInv'
<1> USE DEF RInv, ClientRuns, runVars
<1>1. HandleClient(c) /\ UNCHANGED <<run, stop, supervisors, status, open>>
  OBVIOUS
<1>2. /\ UNCHANGED <<slots, held, sup, shown>>
      /\ client' \in [Clients -> ClientStates]
      /\ lease' \in [Clients -> Sessions \cup {NoSession}]
      /\ looking' \in [Clients -> Sessions \cup {NoSession}]
      /\ best' \in [Clients -> Sessions \cup {NoSession}]
      /\ \A d \in Clients : lease'[d] # NoSession => client'[d] \in Leasing
  BY <1>1, ClientKeepsSlots
<1>3. run \notin {"binding", "closing", "ended"}
  BY DEF Unbound, AllJoined
<1>4. Shape' /\ Holds'
  BY <1>1, <1>2 DEF Shape, Holds
<1> QED
  BY <1>1, <1>2, <1>3, <1>4
     DEF Unbound, AllJoined, SessionsAreTracked, NothingLeftBehind

\* A supervisor that ends leaves its session to the slot.
LEMMA SupervisorGoneInv ==
  ASSUME RInv, NEW i \in Slots, SupervisorGone(i)
  PROVE  RInv'
<1> USE DEF RInv, SupervisorGone, clientVars
<1>1. run \notin {"binding", "closing", "ended"}
  BY DEF Unbound, AllJoined
<1>2. Shape'
  BY DEF Shape
<1>3. Holds'
  BY DEF Holds, Shape
<1> QED
  BY <1>1, <1>2, <1>3 DEF Unbound, AllJoined, SessionsAreTracked, NothingLeftBehind

\* A client that is aborted leaves the slots to the supervisors.
LEMMA ClientAbortedInv ==
  ASSUME RInv, NEW c \in Clients, ClientAborted(c)
  PROVE  RInv'
<1> USE DEF RInv, ClientAborted, TaskEnds, ClientStep, DropLease, supVars, statsVars,
        runVars
<1>1. Shape'
  BY DEF Shape, ClientStates
<1>2. Holds'
  BY DEF Holds
<1> QED
  BY <1>1, <1>2 DEF Unbound, AllJoined, SessionsAreTracked, NothingLeftBehind

\* Pool::close reaches every session that is open, so none is left.
LEMMA ClosePoolInv ==
  ASSUME RInv, ClosePool
  PROVE  RInv'
<1> USE DEF RInv, ClosePool, RunStep, Joined, supVars, clientVars, statsVars
<1>1. Shape'
  BY DEF Shape, RunStates
<1>2. Holds'
  BY DEF Holds
<1>3. open' = {}
  BY DEF SessionsAreTracked
<1>4. \A c \in Clients : client[c] = "idle" /\ lease[c] = NoSession
  BY DEF Shape, Leasing
<1>5. \A i \in Slots : slots'[i] = NoSession /\ held'[i] = NoSession
  BY DEF Holds
<1>6. NothingLeftBehind'
  BY <1>3, <1>4, <1>5 DEF NothingLeftBehind
<1> QED
  BY <1>1, <1>2, <1>3, <1>6 DEF Unbound, AllJoined, SessionsAreTracked

\* The other steps of run_proxy change no task and no slot.
LEMMA RunStepInv ==
  ASSUME RInv,
         \/ BindErr \/ BindOk \/ StopRequested \/ AcceptErr \/ RetryDelayPassed
         \/ LoopEnds \/ RunEnds \/ \E s \in Sessions : SessionEnds(s)
  PROVE  RInv'
<1> USE DEF RInv, vars, supVars, clientVars, sessionVars, statsVars, runVars, RunStep,
        BindErr, BindOk, StopRequested, AcceptErr, RetryDelayPassed, LoopEnds, RunEnds,
        SessionEnds, SessionCloses
<1>1. UNCHANGED <<slots, held, sup, client, lease, looking, best, open>>
  OBVIOUS
<1>2. Shape'
  BY <1>1 DEF Shape, RunStates
<1>3. Holds'
  BY <1>1 DEF Holds, Unbound
<1>4. Unbound' /\ AllJoined'
  BY <1>1 DEF Unbound, AllJoined
<1>5. SessionsAreTracked'
  BY <1>1 DEF SessionsAreTracked
<1>6. CASE BindErr
  <2>1. \A c \in Clients : lease[c] = NoSession
    BY <1>6 DEF Shape, Unbound, Leasing
  <2> QED
    BY <1>1, <1>2, <1>3, <1>4, <1>5, <1>6, <2>1 DEF NothingLeftBehind, Unbound, Holds
<1>7. CASE ~BindErr
  <2>1. NothingLeftBehind'
    BY <1>1, <1>7 DEF NothingLeftBehind
  <2> QED
    BY <1>2, <1>3, <1>4, <1>5, <2>1
<1> QED
  BY <1>6, <1>7

\* Every step of a run keeps its invariant.
LEMMA RunNextInv == RInv /\ [RunNext]_allVars => RInv'
<1> SUFFICES ASSUME RInv, [RunNext]_allVars PROVE RInv'
  OBVIOUS
<1>1. CASE \E i \in Slots : SupervisorRuns(i)
  BY <1>1, SupervisorRunsInv
<1>2. CASE \E i \in Slots : SupervisorPanics(i) \/ SupervisorAborted(i)
  BY <1>2, SupervisorGoneInv DEF SupervisorPanics, SupervisorAborted
<1>3. CASE \E c \in Clients : ClientRuns(c) \/ ClientAborted(c)
  BY <1>3, ClientRunsInv, ClientAbortedInv
<1>4. CASE ClosePool
  BY <1>4, ClosePoolInv
<1>5. CASE UNCHANGED allVars
  BY <1>5 DEF allVars, vars, supVars, clientVars, statsVars, runVars, RInv, Shape, Holds,
              Unbound, AllJoined, SessionsAreTracked, NothingLeftBehind
<1>6. CASE \/ BindErr \/ BindOk \/ StopRequested \/ AcceptErr \/ RetryDelayPassed
           \/ LoopEnds \/ RunEnds \/ \E s \in Sessions : SessionEnds(s)
  BY <1>6, RunStepInv
<1> QED
  BY <1>1, <1>2, <1>3, <1>4, <1>5, <1>6 DEF RunNext

\* The invariant of a run holds throughout every behaviour.
LEMMA RunInvariance == RunSpec => []RInv
BY RunInitInv, RunNextInv, PTL DEF RunSpec

\* Wherever an abort catches a supervisor, the session it served is in its slot
\* or was asked to disconnect.
THEOREM SessionsStayTracked == RunSpec => []SessionsAreTracked
<1>1. RInv => SessionsAreTracked
  BY DEF RInv
<1> QED
  BY <1>1, RunInvariance, PTL

\* A run that is over has left no session, no task, no count and no status.
THEOREM RunLeavesNothing == RunSpec => []NothingLeftBehind
<1>1. RInv => NothingLeftBehind
  BY DEF RInv
<1> QED
  BY <1>1, RunInvariance, PTL

\* Every variable of the run keeps its type, whatever its tasks do.
THEOREM RunTypeCorrect == RunSpec => []RunTypeOK
<1> DEFINE Told == stop \in BOOLEAN /\ status \in Statuses /\ result \in Results
<1>1. RunInit => Told
  BY DEF RunInit, Statuses, Results
<1>2. Told /\ [RunNext]_allVars => Told'
  <2> SUFFICES ASSUME Told, [RunNext]_allVars PROVE Told'
    OBVIOUS
  <2>1. ASSUME NEW i \in Slots, SupervisorRuns(i) PROVE Told'
    BY <2>1 DEF SupervisorRuns, SlotStatus, Statuses
  <2>2. CASE \E i \in Slots : SupervisorPanics(i) \/ SupervisorAborted(i)
    BY <2>2 DEF SupervisorPanics, SupervisorAborted, SupervisorGone
  <2>3. CASE \E c \in Clients : ClientRuns(c) \/ ClientAborted(c)
    BY <2>3 DEF ClientRuns, ClientAborted, runVars
  <2>4. CASE \E s \in Sessions : SessionEnds(s)
    BY <2>4 DEF SessionEnds, runVars
  <2>5. CASE BindErr \/ BindOk \/ StopRequested \/ AcceptErr
    BY <2>5 DEF BindErr, BindOk, StopRequested, AcceptErr, Statuses, Results
  <2>6. CASE RetryDelayPassed \/ LoopEnds \/ ClosePool \/ RunEnds
    BY <2>6 DEF RetryDelayPassed, LoopEnds, ClosePool, RunEnds, Statuses, Results
  <2>7. CASE UNCHANGED allVars
    BY <2>7 DEF allVars, runVars
  <2> QED
    BY <2>1, <2>2, <2>3, <2>4, <2>5, <2>6, <2>7 DEF RunNext
<1>3. RInv /\ Told => RunTypeOK
  BY DEF RInv, Shape, RunTypeOK
<1> QED
  BY <1>1, <1>2, <1>3, RunInvariance, PTL DEF RunSpec

---------------------------------------------------------------------------
(* What Pool promises, within a run *)

\* The slots whose supervisor has not ended.
Supervised == IF run = "binding" THEN Slots ELSE supervisors

Kept ==
  /\ run # "closing" => \E A \in SUBSET Slots : A = Supervised /\ IInv(A)
  /\ run = "closing" => TypeOK /\ TriedAreDead

KInv == Kept /\ ScansSlots

\* What holds of some slots holds of fewer.
LEMMA FewerSupervisors ==
  ASSUME NEW A \in SUBSET Slots, NEW B \in SUBSET A, IInv(A)
  PROVE  IInv(B)
BY DEF IInv, SlotFollowsSupervisor, WakesWaiters

\* A supervisor that ends drops its Arc of the session, and its slot keeps its own.
LEMMA SupervisorGoneKeeps ==
  ASSUME NEW A \in SUBSET Slots, NEW i \in A, IInv(A), SupervisorGone(i)
  PROVE  IInv(A \ {i})'
<1> USE DEF SupervisorGone, clientVars, sessionVars, statsVars
<1>1. TypeOK'
  BY DEF IInv, TypeOK
<1>2. SlotFollowsSupervisor(A \ {i})' /\ WakesWaiters(A \ {i})'
  BY DEF IInv, TypeOK, SlotFollowsSupervisor, WakesWaiters
<1>3. UsableIsInSlot' /\ TriedAreDead' /\ RetryElsewhere'
  BY DEF IInv, UsableIsInSlot, TriedAreDead, RetryElsewhere
<1>4. PingPendingOrAnswered' /\ PatienceIsEarned'
  BY DEF IInv, PingPendingOrAnswered, PatienceIsEarned, IsLive
<1>5. LiveSlots' = LiveSlots /\ OccupiedSlots' = OccupiedSlots
  BY DEF LiveSlots, OccupiedSlots, IsLive
<1>6. ErrorMeansDown' /\ ShownCountIsSane'
  BY <1>5 DEF IInv, ErrorMeansDown, AnyLive, ShownCountIsSane
<1> QED
  BY <1>1, <1>2, <1>3, <1>4, <1>6 DEF IInv

\* An aborted client drops its lease, if it has one, and forgets what it tried.
LEMMA ClientAbortedKeeps ==
  ASSUME NEW A \in SUBSET Slots, NEW c \in Clients, IInv(A), ClientAborted(c)
  PROVE  IInv(A)'
<1>1. TaskEnds(c, ClientAwaits) /\ UNCHANGED <<dead, permit>>
  BY DEF ClientAborted
<1>2. CASE client[c] \in Leasing
  <2>1. TaskEnds(c, Leasing)
    BY <1>1, <1>2 DEF TaskEnds, ClientStep
  <2> QED
    BY <1>1, <2>1, TaskEndsInv
<1>3. CASE client[c] \notin Leasing
  <2>1. /\ client' = [client EXCEPT ![c] = "idle"]
        /\ lease' = [lease EXCEPT ![c] = NoSession]
        /\ tried' = [tried EXCEPT ![c] = {}]
        /\ pinged' = [pinged EXCEPT ![c] = {}]
        /\ answered' = [answered EXCEPT ![c] = FALSE]
        /\ calm' = {}
        /\ UNCHANGED <<slots, sup, held, woken, attempt, scanVars, closed, dead, permit, statsVars>>
    BY <1>1 DEF TaskEnds, ClientStep, DropLease, DropPings, supVars
  <2>2. SlotFollowsSupervisor(A)' /\ ErrorMeansDown' /\ ShownCountIsSane'
    BY <2>1, SessionsOnlyFail DEF IInv
  <2>3. TypeOK'
    BY <2>1 DEF IInv, TypeOK, ClientStates, Leasing, statsVars
  <2>4. WakesWaiters(A)' /\ UsableIsInSlot' /\ TriedAreDead' /\ RetryElsewhere'
    BY <2>1, PoolAssumption
       DEF IInv, TypeOK, WakesWaiters, UsableIsInSlot, TriedAreDead, RetryElsewhere
  <2>5. PingPendingOrAnswered' /\ PatienceIsEarned'
    BY <2>1 DEF IInv, TypeOK, PingPendingOrAnswered, PatienceIsEarned, IsLive
  <2> QED
    BY <2>2, <2>3, <2>4, <2>5 DEF IInv
<1> QED
  BY <1>2, <1>3

\* close() leaves a pool that nobody uses.
LEMMA ClosePoolKeeps ==
  ASSUME NEW A \in SUBSET Slots, IInv(A), ClosePool
  PROVE  TypeOK' /\ TriedAreDead'
<1> USE DEF ClosePool, RunStep, supVars, clientVars, sessionVars, statsVars
<1>1. TypeOK'
  BY DEF IInv, TypeOK
<1>2. TriedAreDead'
  BY DEF IInv, TriedAreDead
<1> QED
  BY <1>1, <1>2

\* When the run is over the pool is empty, and shows that it is.
LEMMA RunEndsKeeps ==
  ASSUME RInv, TypeOK, TriedAreDead, RunEnds
  PROVE  IInv({})'
<1> USE DEF RunEnds, RunStep, supVars, clientVars
<1>1. /\ \A i \in Slots : slots[i] = NoSession
      /\ \A c \in Clients : client[c] = "idle" /\ lease[c] = NoSession
  BY DEF RInv, NothingLeftBehind
<1>2. closed' \in [Sessions -> BOOLEAN]
  <2>1. PICK ended \in SUBSET Sessions :
          closed' = [s \in Sessions |-> closed[s] \/ s \in ended]
    OBVIOUS
  <2> QED
    BY <2>1, Zenon
<1>3. TypeOK'
  BY <1>2 DEF TypeOK
<1>4. SlotFollowsSupervisor({})' /\ WakesWaiters({})'
  BY DEF SlotFollowsSupervisor, WakesWaiters
<1>5. UsableIsInSlot' /\ TriedAreDead' /\ RetryElsewhere'
  BY <1>1, PoolAssumption DEF TypeOK, UsableIsInSlot, TriedAreDead, RetryElsewhere
<1>6. PingPendingOrAnswered' /\ PatienceIsEarned'
  BY <1>1 DEF PingPendingOrAnswered, PatienceIsEarned
<1>7. LiveSlots' = {} /\ OccupiedSlots' = {} /\ shown' = 0
  BY <1>1 DEF LiveSlots, OccupiedSlots
<1>8. ErrorMeansDown' /\ ShownCountIsSane'
  BY <1>7, FS_EmptySet DEF ErrorMeansDown, AnyLive, ShownCountIsSane
<1> QED
  BY <1>3, <1>4, <1>5, <1>6, <1>8 DEF IInv

\* A step that concerns nothing Pool knows of.
LEMMA PoolUntouched ==
  ASSUME UNCHANGED vars
  PROVE  /\ \A A \in SUBSET Slots : IInv(A) => IInv(A)'
         /\ TypeOK /\ TriedAreDead => TypeOK' /\ TriedAreDead'
         /\ ScansSlots => ScansSlots'
BY DEF vars, supVars, clientVars, sessionVars, statsVars, IInv, TypeOK,
   SlotFollowsSupervisor, WakesWaiters, UsableIsInSlot, TriedAreDead, RetryElsewhere,
   PingPendingOrAnswered, PatienceIsEarned, ErrorMeansDown, ShownCountIsSane,
   AnyLive, LiveSlots, OccupiedSlots, IsLive, ScansSlots, ScanOver

\* Every step of a run keeps what the pool is promised.
LEMMA KeptNext == RInv /\ KInv /\ [RunNext]_allVars => Kept'
<1> SUFFICES ASSUME RInv, KInv, [RunNext]_allVars PROVE Kept'
  OBVIOUS
<1>1. supervisors \in SUBSET Slots
  BY DEF RInv, Shape
<1>2. ASSUME run' # "closing", NEW A \in SUBSET Slots, A = Supervised', IInv(A)'
      PROVE  Kept'
  BY <1>2 DEF Kept
<1>3. CASE \E i \in Slots : SupervisorRuns(i)
  <2>1. PICK i \in Slots : SupervisorRuns(i)
    BY <1>3
  <2>2. i \in supervisors /\ Supervise(i) /\ UNCHANGED <<run, supervisors>>
    BY <2>1 DEF SupervisorRuns
  <2>3. run \notin {"binding", "closing", "ended"}
    BY <2>2 DEF RInv, Unbound, AllJoined
  <2>4. PICK A \in SUBSET Slots : A = Supervised /\ IInv(A)
    BY <2>3 DEF KInv, Kept
  <2>5. i \in A /\ A = Supervised'
    BY <2>2, <2>3, <2>4 DEF Supervised
  <2>6. IInv(A)'
    BY <2>2, <2>4, <2>5, SuperviseInv
  <2> QED
    BY <1>2, <2>2, <2>3, <2>5, <2>6
<1>4. CASE \E i \in Slots : SupervisorPanics(i) \/ SupervisorAborted(i)
  <2>1. PICK i \in Slots : SupervisorGone(i)
    BY <1>4 DEF SupervisorPanics, SupervisorAborted
  <2>2. i \in supervisors /\ supervisors' = supervisors \ {i} /\ run' = run
    BY <2>1 DEF SupervisorGone
  <2>3. run \notin {"binding", "closing", "ended"}
    BY <2>2 DEF RInv, Unbound, AllJoined
  <2>4. PICK A \in SUBSET Slots : A = Supervised /\ IInv(A)
    BY <2>3 DEF KInv, Kept
  <2>5. i \in A /\ A \ {i} = Supervised'
    BY <2>2, <2>3, <2>4 DEF Supervised
  <2>6. IInv(A \ {i})'
    BY <2>1, <2>4, <2>5, SupervisorGoneKeeps
  <2> QED
    BY <1>2, <2>2, <2>3, <2>5, <2>6
<1>5. CASE \E c \in Clients : ClientRuns(c) \/ ClientAborted(c)
  <2>1. PICK c \in Clients : ClientRuns(c) \/ ClientAborted(c)
    BY <1>5
  <2>2. UNCHANGED <<run, supervisors>>
    BY <2>1 DEF ClientRuns, ClientAborted, runVars
  <2>3. run # "closing"
    BY <2>1 DEF RInv, AllJoined, ClientRuns, ClientAborted
  <2>4. PICK A \in SUBSET Slots : A = Supervised /\ IInv(A)
    BY <2>3 DEF KInv, Kept
  <2>5. IInv(A)'
    BY <2>1, <2>4, HandleClientInv, ClientAbortedKeeps DEF ClientRuns, KInv
  <2>6. A = Supervised'
    BY <2>2, <2>4 DEF Supervised
  <2> QED
    BY <1>2, <2>2, <2>3, <2>5, <2>6
<1>6. CASE \E s \in Sessions : SessionEnds(s)
  <2>1. PICK s \in Sessions : SessionCloses(s) /\ UNCHANGED <<run, supervisors>>
    BY <1>6 DEF SessionEnds, runVars
  <2>2. CASE run = "closing"
    <3>1. TypeOK' /\ TriedAreDead'
      BY <2>1, <2>2 DEF KInv, Kept, SessionCloses, supVars, clientVars, statsVars, TypeOK,
                        TriedAreDead
    <3> QED
      BY <2>1, <2>2, <3>1 DEF KInv, Kept
  <2>3. CASE run # "closing"
    <3>1. PICK A \in SUBSET Slots : A = Supervised /\ IInv(A)
      BY <2>3 DEF KInv, Kept
    <3>2. IInv(A)'
      BY <2>1, <3>1, SessionClosesInv
    <3>3. A = Supervised'
      BY <2>1, <3>1 DEF Supervised
    <3> QED
      BY <1>2, <2>1, <2>3, <3>2, <3>3
  <2> QED
    BY <2>2, <2>3
<1>7. CASE ClosePool
  <2>1. run = "joining" /\ run' = "closing"
    BY <1>7 DEF ClosePool, RunStep
  <2>2. PICK A \in SUBSET Slots : IInv(A)
    BY <2>1 DEF KInv, Kept
  <2> QED
    BY <1>7, <2>1, <2>2, ClosePoolKeeps DEF KInv, Kept
<1>8. CASE RunEnds
  <2>1. run = "closing" /\ run' = "ended" /\ supervisors' = supervisors
    BY <1>8 DEF RunEnds, RunStep
  <2>2. Supervised' = {}
    BY <2>1 DEF RInv, AllJoined, Supervised
  <2>3. IInv({})'
    BY <1>8, <2>1, RunEndsKeeps DEF KInv, Kept
  <2> QED
    BY <1>2, <2>1, <2>2, <2>3
<1>9. CASE BindErr \/ BindOk
  <2>1. /\ UNCHANGED vars
        /\ run = "binding" /\ run' \in {"ended", "serving"}
        /\ supervisors' \in {supervisors, Slots}
    BY <1>9 DEF BindErr, BindOk, RunStep
  <2>2. PICK A \in SUBSET Slots : A = Slots /\ IInv(A)
    BY <2>1 DEF KInv, Kept, Supervised
  <2>3. PICK B \in SUBSET Slots : B = Supervised'
    BY <1>1, <2>1 DEF Supervised
  <2>4. IInv(B)'
    BY <2>1, <2>2, <2>3, FewerSupervisors, PoolUntouched
  <2> QED
    BY <1>2, <2>1, <2>3, <2>4
<1>10. CASE StopRequested \/ AcceptErr \/ RetryDelayPassed \/ LoopEnds \/ UNCHANGED allVars
  <2>1. /\ UNCHANGED <<vars, supervisors>>
        /\ run = "binding" <=> run' = "binding"
        /\ run = "closing" <=> run' = "closing"
    BY <1>10 DEF StopRequested, AcceptErr, RetryDelayPassed, LoopEnds, RunStep, allVars,
                 runVars
  <2>2. Supervised' = Supervised
    BY <2>1 DEF Supervised
  <2>3. CASE run = "closing"
    BY <2>1, <2>3, PoolUntouched DEF KInv, Kept
  <2>4. CASE run # "closing"
    <3>1. PICK A \in SUBSET Slots : A = Supervised /\ IInv(A)
      BY <2>4 DEF KInv, Kept
    <3>2. IInv(A)'
      BY <2>1, <3>1, PoolUntouched
    <3> QED
      BY <1>2, <2>1, <2>2, <2>4, <3>1, <3>2
  <2> QED
    BY <2>3, <2>4
<1> QED
  BY <1>3, <1>4, <1>5, <1>6, <1>7, <1>8, <1>9, <1>10 DEF RunNext

\* The end of tasks and of the pool leaves no scan behind.
LEMMA ScansNext == RInv /\ KInv /\ Kept' /\ [RunNext]_allVars => ScansSlots'
<1> SUFFICES ASSUME RInv, KInv, Kept', [RunNext]_allVars PROVE ScansSlots'
  OBVIOUS
<1>1. TypeOK /\ ScansSlots /\ TypeOK'
  BY DEF KInv, Kept, IInv
<1>2. CASE \E i \in Slots : SupervisorRuns(i)
  BY <1>1, <1>2, SuperviseScans DEF SupervisorRuns
<1>3. CASE \E c \in Clients : ClientRuns(c)
  <2>1. PICK c \in Clients : HandleClient(c) /\ UNCHANGED run
    BY <1>3 DEF ClientRuns, runVars
  <2>2. run # "closing"
    BY <1>3 DEF RInv, AllJoined, ClientRuns
  <2>3. PICK A \in SUBSET Slots : IInv(A)
    BY <2>2 DEF KInv, Kept
  <2> QED
    BY <1>1, <2>1, <2>3, HandleClientScans
<1>4. CASE \/ \E i \in Slots : SupervisorPanics(i) \/ SupervisorAborted(i)
           \/ \E s \in Sessions : SessionEnds(s)
  BY <1>1, <1>4, ScansKept DEF SupervisorPanics, SupervisorAborted, SupervisorGone,
     SessionEnds, SessionCloses, clientVars
<1>5. CASE \E c \in Clients : ClientAborted(c)
  <2>1. PICK c \in Clients : TaskEnds(c, ClientAwaits)
    BY <1>5 DEF ClientAborted
  <2>2. /\ client' = [client EXCEPT ![c] = "idle"] /\ tried' = [tried EXCEPT ![c] = {}]
        /\ client[c] # "selecting" /\ UNCHANGED <<slots, scanVars>>
    BY <2>1 DEF TaskEnds, ClientStep, ClientAwaits, Leasing
  <2>3. \A d \in Clients : client[d] = "selecting"
          => client'[d] = "selecting" /\ tried'[d] = tried[d]
    BY <1>1, <2>2 DEF TypeOK
  <2> QED
    BY <1>1, <2>2, <2>3, ScansKept
<1>6. CASE ClosePool \/ RunEnds
  <2>1. SlotsWritable
    BY <1>6 DEF ClosePool, RunEnds, RunStep, Joined, SlotsWritable, RInv, AllJoined
  <2> QED
    BY <1>1, <1>6, <2>1, ScansKept DEF ClosePool, RunEnds, clientVars
<1>7. CASE \/ BindErr \/ BindOk \/ StopRequested \/ AcceptErr \/ RetryDelayPassed \/ LoopEnds
           \/ UNCHANGED allVars
  <2>1. UNCHANGED vars
    BY <1>7 DEF BindErr, BindOk, StopRequested, AcceptErr, RetryDelayPassed, LoopEnds, allVars
  <2> QED
    BY <1>1, <2>1, PoolUntouched
<1> QED
  BY <1>2, <1>3, <1>4, <1>5, <1>6, <1>7 DEF RunNext

\* Both invariants hold throughout every run.
LEMMA KeptInvariance == RunSpec => [](RInv /\ KInv)
<1>1. RunInit => RInv /\ KInv
  <2> SUFFICES ASSUME RunInit PROVE RInv /\ KInv
    OBVIOUS
  <2>1. IInv(Slots) /\ run = "binding"
    BY InitInv DEF RunInit
  <2>2. PICK A \in SUBSET Slots : A = Supervised /\ IInv(A)
    BY <2>1 DEF Supervised
  <2>3. ScansSlots
    BY PoolAssumption DEF RunInit, Init, ScansSlots, ScanOver
  <2> QED
    BY <2>1, <2>2, <2>3, RunInitInv DEF KInv, Kept
<1>2. RInv /\ KInv /\ [RunNext]_allVars => (RInv /\ KInv)'
  BY RunNextInv, KeptNext, ScansNext DEF KInv, Kept
<1> QED
  BY <1>1, <1>2, PTL DEF RunSpec

\* What a run keeps of the promises of its pool: all of them while it has one,
\* but for the wake-ups of supervisors that have ended, and the count between
\* Pool::close and the end of the run, which set_live_connections(0) brings.
PoolIsKept ==
  /\ UsableIsInSlot /\ PatienceIsEarned /\ RetryElsewhere /\ ErrorMeansDown
  /\ run # "closing" => ShownCountIsSane
  /\ \A i \in supervisors, c \in Clients :
       sup[i] = "parked" /\ client[c] \in {"waiting", "timing", "selecting"} => i \in woken

\* Panics, aborts and the end of a run, wherever they catch supervisors and
\* clients, break no promise of the pool to the tasks that go on (run_proxy).
THEOREM RunKeepsPool == RunSpec => []PoolIsKept
<1>1. RInv /\ KInv => PoolIsKept
  <2> SUFFICES ASSUME RInv, KInv PROVE PoolIsKept
    OBVIOUS
  <2>1. CASE run # "closing"
    <3>1. PICK A \in SUBSET Slots : A = Supervised /\ IInv(A)
      BY <2>1 DEF KInv, Kept
    <3>2. supervisors \in SUBSET A
      BY <3>1 DEF Supervised, RInv, Shape
    <3> QED
      BY <3>1, <3>2 DEF IInv, WakesWaiters, PoolIsKept
  <2>2. CASE run = "closing"
    <3>1. /\ supervisors = {} /\ \A i \in Slots : slots[i] = NoSession
          /\ \A c \in Clients : client[c] = "idle" /\ lease[c] = NoSession
      BY <2>2 DEF RInv, AllJoined, NothingLeftBehind
    <3>2. LiveSlots = {}
      BY <3>1 DEF LiveSlots
    <3>3. RetryElsewhere
      BY <2>2, <3>1, PoolAssumption DEF KInv, Kept, TypeOK, RetryElsewhere
    <3> QED
      BY <2>2, <3>1, <3>2, <3>3 DEF UsableIsInSlot, PatienceIsEarned, ErrorMeansDown,
         AnyLive, PoolIsKept
  <2> QED
    BY <2>1, <2>2
<1> QED
  BY <1>1, KeptInvariance, PTL

---------------------------------------------------------------------------
(* A run is what ProxyController takes it to be *)

\* The types of what is mapped.
LEMMA MappedTypes ==
  ASSUME RInv, KInv
  PROVE  TypeOK /\ shown \in Nat /\ connectError \in BOOLEAN /\ run \in RunStates
<1>1. TypeOK
  BY DEF KInv, Kept, IInv
<1> QED
  BY <1>1, SlotCounts DEF TypeOK, RInv, Shape

\* What set_slot publishes, it publishes together.
LEMMA SlotPublishes ==
  ASSUME RInv, KInv, NEW i \in Slots, NEW s, SetSlot(i, s), SlotStatus, slots'[i] # slots[i]
  PROVE  \/ shown' > 0 /\ connectError' = FALSE /\ status' = "Listening"
         \/ shown' = 0 /\ connectError' = connectError /\ status' = "Connecting"
<1>1. connectError \in BOOLEAN
  BY MappedTypes
<1>2. shown' = Cardinality(LiveSlots') /\ connectError' = (connectError /\ LiveSlots' = {})
      /\ status' = IF LiveSlots' = {} THEN "Connecting" ELSE "Listening"
  BY DEF SetSlot, SlotStatus
<1>3. LiveSlots' \in SUBSET Slots /\ IsFiniteSet(LiveSlots')
  BY PoolAssumption, FS_Subset DEF LiveSlots
<1>4. Cardinality(LiveSlots') \in Nat /\ (Cardinality(LiveSlots') = 0 <=> LiveSlots' = {})
  BY <1>3, FS_CardinalityType, FS_EmptySet
<1>5. CASE LiveSlots' = {}
  BY <1>1, <1>2, <1>4, <1>5
<1>6. CASE LiveSlots' # {}
  <2>1. shown' \in Nat /\ shown' # 0
    BY <1>2, <1>4, <1>6
  <2>2. connectError' = FALSE /\ status' = "Listening"
    BY <1>2, <1>6
  <2> QED
    BY <2>1, <2>2
<1> QED
  BY <1>5, <1>6

\* What a supervisor publishes, in any of its steps.
LEMMA SupervisorPublishes ==
  ASSUME RInv, KInv, NEW i \in Slots, SupervisorRuns(i)
  PROVE  \/ UNCHANGED <<shown, connectError, status>>
         \/ shown' > 0 /\ connectError' = FALSE /\ status' = "Listening"
         \/ shown' = 0 /\ connectError' = connectError /\ status' = "Connecting"
         \/ shown' = shown /\ connectError' = TRUE /\ status' = status
<1> USE DEF SupervisorRuns
<1>1. ASSUME NEW s \in Sessions, ConnectOk(i, s)
      PROVE  SetSlot(i, s) /\ slots'[i] # slots[i]
  <2>1. slots \in [Slots -> Sessions \cup {NoSession}]
    BY DEF RInv, Shape
  <2> QED
    BY <1>1, <2>1 DEF ConnectOk, Unused, SetSlot
<1>2. CASE ClearSlot(i)
  <2>1. run \in {"serving", "retrying", "joining"}
    BY DEF RInv, Shape, RunStates, AllJoined, Unbound
  <2>2. slots[i] # NoSession
    BY <1>2, <2>1 DEF ClearSlot, SupStep, KInv, Kept, Supervised, IInv, SlotFollowsSupervisor
  <2>3. slots \in [Slots -> Sessions \cup {NoSession}]
    BY DEF RInv, Shape
  <2> QED
    BY <1>2, <2>2, <2>3, SlotPublishes DEF ClearSlot, SetSlot
<1>3. CASE ConnectErr(i)
  <2>1. connectError \in BOOLEAN
    BY MappedTypes
  <2> QED
    BY <1>3, <2>1 DEF ConnectErr, SlotStatus
<1>4. CASE SessionLost(i) \/ Disconnected(i) \/ CountReceivers(i) \/ Woken(i)
             \/ IntervalPassed(i)
  BY <1>4 DEF SessionLost, Disconnected, CountReceivers, Woken, IntervalPassed, statsVars,
              SlotStatus
<1> QED
  BY <1>1, <1>2, <1>3, <1>4, SlotPublishes DEF Supervise

\* A step that changes nothing the controller sees.
LEMMA HiddenStep ==
  ASSUME UNCHANGED <<Stage, stop, status, result, shown, connectError>>
  PROVE  UNCHANGED Controlled!vars
BY DEF Controlled!vars, Controlled!settingsVars, Controlled!controllerVars,
       Controlled!runVars, Controlled!shownVars, Controlled!historyVars

\* What the controller takes a run to publish.
LEMMA PublishStep ==
  ASSUME Stage \in {"serving", "aborting"}, UNCHANGED <<Stage, stop, result>>,
         \/ shown' > 0 /\ connectError' = FALSE /\ status' = "Listening"
         \/ shown' = 0 /\ connectError' = connectError /\ status' = "Connecting"
         \/ shown' = shown /\ connectError' = TRUE /\ status' = status
  PROVE  Controlled!Publish("run")
BY DEF Controlled!Publish, Controlled!Publishing, Controlled!settingsVars,
       Controlled!controllerVars, Controlled!runVars, Controlled!historyVars

\* A run goes from one stage to the next.
LEMMA StageStep ==
  ASSUME NEW from, NEW to, Stage = from, Stage' = to, UNCHANGED stop
  PROVE  Controlled!RunStep("run", from, to)
<1>1. [r \in {"run"} |-> Stage'] = [[r \in {"run"} |-> Stage] EXCEPT !["run"] = to]
  OBVIOUS
<1> QED
  BY <1>1 DEF Controlled!RunStep, Controlled!settingsVars, Controlled!controllerVars,
              Controlled!historyVars

\* A request to stop.
LEMMA StopStep ==
  ASSUME ~stop, stop' = TRUE, status' = "Stopping", Stage # "ended",
         UNCHANGED <<Stage, result, shown, connectError>>
  PROVE  Controlled!Stop
<1>1. Controlled!IsRunning /\ Controlled!Signal
  BY DEF Controlled!IsRunning, Controlled!Signal
<1>2. [r \in {"run"} |-> Stage][IF stop THEN "none" ELSE "run"] # "ended"
  OBVIOUS
<1>3. connectError' \in {connectError, TRUE}
  OBVIOUS
<1>4. (IF stop THEN "none" ELSE "run")' = "none" /\ (~stop)' = FALSE
  OBVIOUS
<1>5. UNCHANGED <<Controlled!settingsVars, TRUE, [r \in {"run"} |-> Stage],
                  IF result = "error" THEN {"run"} ELSE {}, [r \in {"run"} |-> 1],
                  shown > 0, 1>>
  BY DEF Controlled!settingsVars
<1>6. status' = CASE /\ Controlled!IsRunning
                     /\ [r \in {"run"} |-> Stage][IF stop THEN "none" ELSE "run"] # "ended"
                       -> "Stopping"
                  [] /\ Controlled!IsRunning
                     /\ [r \in {"run"} |-> Stage][IF stop THEN "none" ELSE "run"] = "ended"
                       -> "Stopped"
                  [] ~Controlled!IsRunning -> IF TRUE THEN status ELSE "Stopped"
  BY <1>1, <1>2
<1>7. /\ "idle" \in {"idle", "restart"}
      /\ "idle" = IF "idle" = "restart" THEN "start" ELSE "idle"
      /\ connectError' \in IF "idle" = "idle" THEN {connectError, TRUE} ELSE {connectError}
  BY <1>3
<1> QED
  BY <1>1, <1>4, <1>5, <1>6, <1>7 DEF Controlled!Stop

\* Clients publish nothing.
LEMMA ClientLeavesStats ==
  ASSUME NEW c \in Clients, HandleClient(c)
  PROVE  UNCHANGED statsVars
BY DEF HandleClient, Accept, Acquire, CheckSlots, NotifyWaiters, PollPending, TimerPending,
       WaitTimeout, SessionReady, Look, ReadLoad, Select, SelectNone, OpenChannel, OpenOk, OpenTargetErr, OpenSessionErr, Stall,
       PingAnswered, PingFailed, CheckedLive, CheckedDead, SessionFailed, RetryOrGiveUp,
       ReplyOk, ReplyErr, TunnelEnds, TunnelClosed, TunnelSshErr, TaskEnds

\* What run_proxy returns is not decided before its loop ends.
Undecided == run \in {"binding", "serving", "retrying"} => result = "none"

\* Every step keeps it so.
LEMMA UndecidedNext == Undecided /\ [RunNext]_allVars => Undecided'
<1> SUFFICES ASSUME Undecided, [RunNext]_allVars PROVE Undecided'
  OBVIOUS
<1> USE DEF Undecided, RunStep
<1>1. CASE \/ \E i \in Slots : \/ SupervisorRuns(i)
                              \/ SupervisorPanics(i) \/ SupervisorAborted(i)
           \/ \E c \in Clients : ClientRuns(c) \/ ClientAborted(c)
           \/ \E s \in Sessions : SessionEnds(s)
  BY <1>1 DEF SupervisorRuns, SupervisorPanics, SupervisorAborted, SupervisorGone, ClientRuns,
              ClientAborted, SessionEnds, runVars
<1>2. CASE BindErr \/ BindOk \/ StopRequested \/ AcceptErr \/ RetryDelayPassed
  BY <1>2 DEF BindErr, BindOk, StopRequested, AcceptErr, RetryDelayPassed
<1>3. CASE LoopEnds \/ ClosePool \/ RunEnds
  BY <1>3 DEF LoopEnds, ClosePool, RunEnds
<1>4. CASE UNCHANGED allVars
  BY <1>4 DEF allVars, runVars
<1> QED
  BY <1>1, <1>2, <1>3, <1>4 DEF RunNext

\* Every step of a run is one the controller expects, or hidden from it.
LEMMA StepsAsControlled ==
  ASSUME RInv, KInv, Undecided, RunNext
  PROVE  [Controlled!RunProxy("run") \/ Controlled!Stop]_(Controlled!vars)
<1> USE DEF RunStep
<1>1. shown \in Nat /\ run \in RunStates
  BY MappedTypes
<1>2. ASSUME NEW i \in Slots, SupervisorRuns(i)
      PROVE  Controlled!Publish("run") \/ UNCHANGED Controlled!vars
  <2>1. run \in {"serving", "retrying", "joining"}
    BY <1>1, <1>2 DEF SupervisorRuns, RInv, RunStates, AllJoined, Unbound
  <2>2. Stage \in {"serving", "aborting"} /\ UNCHANGED <<Stage, stop, result>>
    BY <1>2, <2>1 DEF SupervisorRuns, Stage
  <2> QED
    BY <1>2, <2>2, SupervisorPublishes, PublishStep, HiddenStep
<1>3. ASSUME UNCHANGED <<run, stop, status, result, shown, connectError>>
      PROVE  UNCHANGED Controlled!vars
  BY <1>3, HiddenStep DEF Stage
<1>4. CASE \E i \in Slots : SupervisorPanics(i) \/ SupervisorAborted(i)
  BY <1>3, <1>4 DEF SupervisorPanics, SupervisorAborted, SupervisorGone, statsVars
<1>5. CASE \E c \in Clients : ClientRuns(c) \/ ClientAborted(c)
  <2>1. UNCHANGED <<statsVars, runVars>>
    BY <1>5, ClientLeavesStats DEF ClientRuns, ClientAborted, TaskEnds
  <2> QED
    BY <1>3, <2>1 DEF statsVars, runVars
<1>6. CASE \E s \in Sessions : SessionEnds(s)
  BY <1>3, <1>6 DEF SessionEnds, SessionCloses, statsVars, runVars
<1>7. CASE BindErr
  <2>1. Stage = "spawned" /\ Stage' = "ended" /\ status # "Stopped"
    BY <1>7 DEF BindErr, Stage, RInv, Unbound
  <2>2. Controlled!RunStep("run", "spawned", "ended")
    BY <1>7, <2>1, StageStep DEF BindErr
  <2> QED
    BY <1>7, <2>2 DEF BindErr, vars, statsVars, Controlled!RunProxy, Controlled!BindFails,
                      Controlled!shownVars
<1>8. CASE BindOk
  <2>1. Controlled!RunStep("run", "spawned", "serving")
    BY <1>8, StageStep DEF BindOk, Stage
  <2> QED
    BY <1>8, <2>1 DEF BindOk, vars, statsVars, Controlled!RunProxy, Controlled!Bind,
                      Controlled!PortFree
<1>9. CASE StopRequested
  <2>1. Stage # "ended" /\ UNCHANGED Stage
    BY <1>1, <1>9 DEF StopRequested, Stage, RunStates
  <2> QED
    BY <1>9, <2>1, StopStep DEF StopRequested, vars, statsVars
<1>10. CASE AcceptErr \/ RetryDelayPassed
  <2>1. UNCHANGED Stage
    BY <1>10 DEF AcceptErr, RetryDelayPassed, Stage
  <2> QED
    BY <1>10, <2>1, HiddenStep DEF AcceptErr, RetryDelayPassed, vars, statsVars
<1>11. CASE LoopEnds
  <2>1. Controlled!RunStep("run", "serving", "aborting")
    BY <1>11, StageStep DEF LoopEnds, Stage
  <2>2. CASE stop /\ result' = "ok"
    BY <1>11, <2>1, <2>2 DEF LoopEnds, vars, statsVars, Controlled!RunProxy,
       Controlled!SeeShutdown, Controlled!shownVars, Undecided
  <2>3. CASE result' = "error"
    BY <1>11, <2>1, <2>3 DEF LoopEnds, vars, statsVars, Controlled!RunProxy,
       Controlled!SupervisorPanics, Controlled!shownVars
  <2> QED
    BY <1>11, <2>2, <2>3 DEF LoopEnds
<1>12. CASE ClosePool
  <2>1. Controlled!RunStep("run", "aborting", "closing")
    BY <1>12, StageStep DEF ClosePool, Stage
  <2> QED
    BY <1>12, <2>1 DEF ClosePool, statsVars, Controlled!RunProxy, Controlled!Joined,
                       Controlled!shownVars
<1>13. CASE RunEnds
  <2>1. Controlled!RunStep("run", "closing", "returning")
    BY <1>13, StageStep DEF RunEnds, Stage
  <2> QED
    BY <1>13, <2>1 DEF RunEnds, Controlled!RunProxy, Controlled!Closed
<1>14. Controlled!Publish("run") => Controlled!RunProxy("run")
  BY DEF Controlled!RunProxy
<1> QED
  BY <1>2, <1>4, <1>5, <1>6, <1>7, <1>8, <1>9, <1>10, <1>11, <1>12, <1>13, <1>14 DEF RunNext

\* ProxyController's abstraction of a run is right: whatever supervisors, clients
\* and the network do, and wherever an abort or a panic catches them, what the run
\* publishes and the stages it goes through are those the controller expects.
THEOREM RunRefinement == RunSpec => RunsAsControlled
<1>1. RunInit => Undecided
  BY DEF RunInit, Undecided
<1>2. RInv /\ KInv /\ Undecided /\ [RunNext]_allVars
        => [Controlled!RunProxy("run") \/ Controlled!Stop]_(Controlled!vars)
  <2>1. ASSUME UNCHANGED allVars PROVE UNCHANGED Controlled!vars
    BY <2>1, HiddenStep DEF allVars, vars, statsVars, runVars, Stage
  <2> QED
    BY <2>1, StepsAsControlled
<1> QED
  BY <1>1, <1>2, UndecidedNext, KeptInvariance, PTL DEF RunSpec, RunsAsControlled
===========================================================================
