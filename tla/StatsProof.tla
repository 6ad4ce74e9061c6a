----------------------------- MODULE StatsProof -----------------------------
(***************************************************************************)
(* Proofs about StatsFeed, for any number of threads, fields and values    *)
(* and any size of the channel.                                            *)
(***************************************************************************)
EXTENDS StatsFeed, TLAPS

IInv == TypeOK /\ NoLostUpdate

\* The application starts with a refresh of everything ahead.
LEMMA InitInv == Init => IInv
<1> SUFFICES ASSUME Init PROVE IInv
  OBVIOUS
<1>1. writing \in [Threads -> (Fields \ Quiet) \cup {NoField}]
  BY DEF Init
<1>2. \A t \in Threads : writing[t] \notin Locked
  BY StatsAssumption DEF Init
<1>3. 0 \in 0..Capacity
  BY StatsAssumption
<1>4. TypeOK
  BY <1>1, <1>2, <1>3 DEF Init, TypeOK
<1> QED
  BY <1>4 DEF Init, IInv, NoLostUpdate

\* A writer that changes a field owes a notification for it.
LEMMA WriteInv ==
  ASSUME IInv, NEW t \in Threads, NEW f \in Fields, NEW v \in Values, Write(t, f, v)
  PROVE  IInv'
<1> USE StatsAssumption
<1>1. /\ value' \in [Fields -> Values]
      /\ writing' \in [Threads -> (Fields \ Quiet) \cup {NoField}]
  BY DEF IInv, TypeOK, Write
<1>2. ASSUME NEW x \in Threads, NEW y \in Threads, writing'[x] = writing'[y],
             writing'[x] \in Locked
      PROVE  x = y
  BY <1>2 DEF IInv, TypeOK, Write, Free
<1>3. TypeOK'
  BY <1>1, <1>2 DEF IInv, TypeOK, Write
<1>4. ASSUME NEW g \in Fields \ Quiet
      PROVE  \/ shown'[g] = value'[g] \/ g \in left' \/ queue' > 0
             \/ \E x \in Threads : writing'[x] = g
  <2>1. CASE g = f
    BY <1>4, <2>1 DEF IInv, TypeOK, Write
  <2>2. CASE g # f
    <3>1. value'[g] = value[g] /\ UNCHANGED <<shown, left, queue>>
      BY <2>2 DEF IInv, TypeOK, Write
    <3>2. \A x \in Threads : writing[x] = g => writing'[x] = g
      BY <1>4 DEF IInv, TypeOK, Write
    <3> QED
      BY <1>4, <3>1, <3>2 DEF IInv, NoLostUpdate
  <2> QED
    BY <2>1, <2>2
<1> QED
  BY <1>3, <1>4 DEF IInv, NoLostUpdate

\* Once a notification is sent the channel is not empty, even if it was full.
LEMMA NotifyInv ==
  ASSUME IInv, NEW t \in Threads, Notify(t)
  PROVE  IInv'
<1> USE StatsAssumption
<1>1. queue' \in 0..Capacity /\ queue' > 0
  BY DEF IInv, TypeOK, Notify
<1>2. writing' \in [Threads -> (Fields \ Quiet) \cup {NoField}]
  BY DEF IInv, TypeOK, Notify
<1>3. ASSUME NEW x \in Threads, NEW y \in Threads, writing'[x] = writing'[y],
             writing'[x] \in Locked
      PROVE  x = y
  BY <1>3 DEF IInv, TypeOK, Notify
<1>4. TypeOK'
  BY <1>1, <1>2, <1>3 DEF IInv, TypeOK, Notify
<1> QED
  BY <1>1, <1>4 DEF IInv, NoLostUpdate

\* A refresh that begins has every field ahead of it.
LEMMA BeginInv ==
  ASSUME IInv, BeginRefresh, queue' \in 0..Capacity, watched' \in BOOLEAN
  PROVE  IInv'
<1>1. TypeOK'
  BY DEF IInv, TypeOK, BeginRefresh
<1>2. NoLostUpdate'
  BY DEF NoLostUpdate, BeginRefresh
<1> QED
  BY <1>1, <1>2 DEF IInv

\* A field that has been read is shown.
LEMMA ReadInv ==
  ASSUME IInv, NEW f \in Fields, Read(f)
  PROVE  IInv'
<1>1. TypeOK'
  BY DEF IInv, TypeOK, Read
<1>2. NoLostUpdate'
  BY DEF IInv, TypeOK, NoLostUpdate, Read
<1> QED
  BY <1>1, <1>2 DEF IInv

\* The end of a refresh leaves the notifications that came meanwhile.
LEMMA FinishInv ==
  ASSUME IInv, Finish
  PROVE  IInv'
<1>1. TypeOK'
  BY DEF IInv, TypeOK, Finish, EndRefresh
<1>2. NoLostUpdate'
  BY DEF IInv, NoLostUpdate, Finish, EndRefresh
<1> QED
  BY <1>1, <1>2 DEF IInv

\* Every step keeps the invariant.
LEMMA NextInv == IInv /\ [Next]_vars => IInv'
<1> SUFFICES ASSUME IInv, [Next]_vars PROVE IInv'
  OBVIOUS
<1>1. CASE UNCHANGED vars
  BY <1>1 DEF IInv, TypeOK, NoLostUpdate, vars
<1>2. ASSUME NEW t \in Threads, Publish(t) PROVE IInv'
  BY <1>2, WriteInv, NotifyInv DEF Publish
<1>3. CASE Wake
  <2>1. queue' \in 0..Capacity /\ watched' \in BOOLEAN
    BY <1>3, StatsAssumption DEF IInv, TypeOK, Wake
  <2> QED
    BY <1>3, <2>1, BeginInv DEF Wake
<1>4. CASE Handle \/ TimerFires
  BY <1>4, BeginInv DEF IInv, TypeOK, Handle, TimerFires
<1>5. CASE Next
  BY <1>2, <1>3, <1>4, <1>5, ReadInv, FinishInv DEF IInv, TypeOK, Next, Refresh, Read
<1> QED
  BY <1>1, <1>5

\* The inductive invariant holds throughout.
LEMMA Invariance == Spec => []IInv
BY InitInv, NextInv, PTL DEF Spec

---------------------------------------------------------------------------

\* TypeOK, with the locks of ProxyStats keeping writers of a field apart.
THEOREM TypeCorrect == Spec => []TypeOK
<1>1. IInv => TypeOK
  BY DEF IInv
<1> QED
  BY <1>1, Invariance, PTL

\* No change of a field that notifies is missed by the window, however small the
\* channel is and whoever writes (notify_changed and refresh_stats).
THEOREM NothingIsLost == Spec => []NoLostUpdate
<1>1. IInv => NoLostUpdate
  BY DEF IInv
<1> QED
  BY <1>1, Invariance, PTL
=============================================================================
