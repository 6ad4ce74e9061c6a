----------------------------- MODULE TunnelProof -----------------------------
(***************************************************************************)
(* Proofs about Tunnel, for any amount of data in either direction, any    *)
(* SSH window and any socket buffer.                                       *)
(***************************************************************************)
EXTENDS Tunnel, SequenceTheorems, TLAPS

\* The replies follow the phase.
Replies ==
  /\ phase = "greeting" => told = <<>>
  /\ phase \in {"request", "opening", "replying"} => told = <<"method">>
  /\ phase \in {"pump", "closing"} => told = <<"method", "succeeded">>
  /\ phase = "ended" =>
       \/ told \in {<<>>, <<"noMethod">>, <<"method">>}
       \/ \E m \in Messages : told = <<"method", m>>

\* Before the tunnel starts nothing has moved in it.
Fresh ==
  /\ phase \in {"greeting", "request", "opening", "replying"} =>
       /\ upload = "reading" /\ uploaded = 0 /\ ~eofSent /\ up = 0
       /\ download = "waiting" /\ delivered = 0 /\ received = 0 /\ down = 0
       /\ result = "none"
  /\ phase = "pump" => result = "none"

\* Where the chunks are.
Counts ==
  /\ taken <= written
  /\ phase = "greeting" => taken = 0
  /\ phase = "request" => taken = 1
  /\ phase \in {"opening", "replying"} => taken = Handshake
  /\ received = delivered + DownInHand
  /\ received <= sent

\* The end of the upload is found once, with nothing left to read.
UploadEnds ==
  /\ upload = "finishing" => local # "open" /\ taken = written
  /\ eofSent => upload = "ended"

IInv ==
  /\ TypeOK
  /\ Replies
  /\ Fresh
  /\ Counts
  /\ UploadEnds
  /\ UploadIsWhole
  /\ DownloadIsWhole
  /\ OneVerdict

\* The conversations handle_client can have, as sequences.
LEMMA Conversations ==
  /\ Append(<<>>, "method") = <<"method">>
  /\ Append(<<>>, "noMethod") = <<"noMethod">>
  /\ \A m \in Messages : Append(<<"method">>, m) = <<"method", m>>
  /\ \A m \in Messages : <<"method", m>> # <<>> /\ <<"method", m>> # <<"method">>
  /\ \A m \in Messages : Len(<<"method", m>>) = 2
  /\ \A m, n \in Messages : <<"method", m>> = <<"method", n>> => m = n
<1>1. \A m \in Messages : <<"method", m>>[2] = m
  OBVIOUS
<1>2. \A m, n \in Messages : <<"method", m>> = <<"method", n>> => m = n
  BY <1>1
<1>3. /\ Append(<<>>, "method") = <<"method">>
      /\ Append(<<>>, "noMethod") = <<"noMethod">>
  OBVIOUS
<1>4. ASSUME NEW m \in Messages
      PROVE  Append(<<"method">>, m) = <<"method", m>>
  <2>1. /\ Append(<<"method">>, m) \in Seq(Messages)
        /\ Len(Append(<<"method">>, m)) = 2
        /\ Append(<<"method">>, m)[1] = "method"
        /\ Append(<<"method">>, m)[2] = m
    BY DEF Messages
  <2>2. /\ <<"method", m>> \in Seq(Messages)
        /\ Len(<<"method", m>>) = 2
        /\ <<"method", m>>[1] = "method"
        /\ <<"method", m>>[2] = m
    BY DEF Messages
  <2>3. \A i \in 1..2 : Append(<<"method">>, m)[i] = <<"method", m>>[i]
    BY <2>1, <2>2
  <2> QED
    BY <2>1, <2>2, <2>3, SeqEqual
<1>5. \A m \in Messages : <<"method", m>> # <<>> /\ <<"method", m>> # <<"method">>
  OBVIOUS
<1>6. \A m \in Messages : Len(<<"method", m>>) = 2
  OBVIOUS
<1> QED
  BY <1>2, <1>3, <1>4, <1>5, <1>6

LEMMA InitInv == Init => IInv
<1> SUFFICES ASSUME Init PROVE IInv
  OBVIOUS
<1> USE DEF Init
<1>1. TypeOK
  <2>1. told \in Seq(Messages)
    OBVIOUS
  <2>2. eofSent \in BOOLEAN /\ closed \in BOOLEAN /\ killed \in BOOLEAN
    OBVIOUS
  <2>3. /\ written \in 0..(Handshake + MaxUp) /\ window \in 0..Window
        /\ sent \in 0..MaxDown /\ unread \in 0..Room
    BY TunnelAssumption DEF Handshake
  <2> QED
    BY <2>1, <2>2, <2>3 DEF TypeOK, Phases
<1>2. Replies /\ Fresh /\ UploadEnds /\ UploadIsWhole /\ DownloadIsWhole
  BY DEF Replies, Fresh, UploadEnds, UploadIsWhole, DownloadIsWhole, UpInHand, DownInHand
<1>3. Counts
  BY DEF Counts, DownInHand
<1>4. OneVerdict
  BY DEF OneVerdict, Handshake
<1> QED
  BY <1>1, <1>2, <1>3, <1>4 DEF IInv

\* A message of the handshake is read: nothing of the tunnel moves.
LEMMA HandshakeInv ==
  ASSUME IInv, NegotiateNoAuth \/ ReadRequest
  PROVE  IInv'
<1> USE DEF IInv, NegotiateNoAuth, ReadRequest, ReadMessage, ReadExact, Goto, Tell,
            handshakeVars, uploadVars, downloadVars, endVars, peerVars
<1>1. told' \in Seq(Messages)
  <2>1. \A m \in Messages : Append(told, m) \in Seq(Messages)
    BY DEF TypeOK
  <2>2. told' = told \/ \E m \in Messages : told' = Append(told, m)
    BY DEF Messages
  <2> QED
    BY <2>1, <2>2 DEF TypeOK
<1>2. taken' \in Nat
  BY DEF TypeOK
<1>3. TypeOK'
  BY <1>1, <1>2 DEF TypeOK, Phases
<1>4. Replies'
  BY Conversations DEF Replies, Messages
<1>5. Fresh' /\ UploadEnds'
  BY DEF Fresh, UploadEnds
<1>6. Counts'
  BY DEF TypeOK, Counts, DownInHand, Handshake
<1>7. UploadIsWhole'
  BY DEF TypeOK, UploadIsWhole, UpInHand, Fresh
<1>8. DownloadIsWhole'
  BY DEF TypeOK, DownloadIsWhole, DownInHand, Fresh
<1>9. OneVerdict'
  BY <1>4, Conversations DEF OneVerdict, Fresh, Replies, Handshake, Messages
<1> QED
  BY <1>3, <1>4, <1>5, <1>6, <1>7, <1>8, <1>9

\* A connection that fails in its handshake was left by its client.
LEMMA HandshakeFailsInv ==
  ASSUME IInv, HandshakeFails
  PROVE  IInv'
<1> USE DEF IInv, HandshakeFails, Goto, handshakeVars, uploadVars, downloadVars, endVars, peerVars
<1>1. TypeOK'
  BY DEF TypeOK, Phases
<1>2. Replies'
  BY Conversations DEF Replies, Messages
<1>3. Fresh' /\ UploadEnds'
  BY DEF TypeOK, Fresh, UploadEnds
<1>4. Counts'
  BY DEF TypeOK, Counts, DownInHand, Fresh
<1>5. UploadIsWhole'
  BY DEF TypeOK, UploadIsWhole, UpInHand, Fresh, UploadEnds, Counts, Handshake
<1>6. DownloadIsWhole'
  BY DEF TypeOK, DownloadIsWhole, Fresh, Counts, DownInHand
<1>7. OneVerdict'
  BY <1>2, Conversations DEF OneVerdict, Fresh, Replies, Handshake, Messages, TypeOK
<1> QED
  BY <1>1, <1>2, <1>3, <1>4, <1>5, <1>6, <1>7

\* The reply of a failed open is the second message.
LEMMA OpenErrInv ==
  ASSUME IInv, OpenErr
  PROVE  IInv'
<1> USE DEF IInv, OpenErr, Goto, Tell, handshakeVars, uploadVars, downloadVars, endVars, peerVars
<1>1. TypeOK'
  <2>1. \A m \in Messages : Append(told, m) \in Seq(Messages)
    BY DEF TypeOK
  <2>2. told' = told \/ \E m \in Messages : told' = Append(told, m)
    BY DEF Messages
  <2> QED
    BY <2>1, <2>2 DEF TypeOK, Phases
<1>2. Replies'
  BY Conversations DEF Replies, Messages
<1>3. Fresh' /\ UploadEnds'
  BY DEF TypeOK, Fresh, UploadEnds
<1>4. Counts'
  BY DEF TypeOK, Counts, DownInHand, Fresh
<1>5. UploadIsWhole'
  BY DEF TypeOK, UploadIsWhole, UpInHand, Fresh, UploadEnds, Counts, Handshake
<1>6. DownloadIsWhole'
  BY DEF TypeOK, DownloadIsWhole, Fresh, Counts, DownInHand
<1>7. OneVerdict'
  <2>1. /\ told' \in {<<"method">>, <<"method", "failure">>}
        /\ local' = "open" => told' = <<"method", "failure">>
    BY Conversations DEF Replies, Messages
  <2>2. Len(told') <= Handshake /\ told' # <<"method", "succeeded">>
    <3>1. "failure" \in Messages /\ "succeeded" \in Messages
      BY DEF Messages
    <3>2. <<"method", "failure">> # <<"method", "succeeded">>
      BY <3>1, Conversations
    <3>3. <<"method">> # <<"method", "succeeded">>
      BY <3>1, Conversations
    <3>4. Len(<<"method", "failure">>) = 2
      BY <3>1, Conversations
    <3>5. CASE told' = <<"method">>
      BY <3>3, <3>5 DEF Handshake
    <3>6. CASE told' = <<"method", "failure">>
      BY <3>2, <3>4, <3>6 DEF Handshake
    <3> QED
      BY <2>1, <3>5, <3>6
  <2>3. delivered' = 0 /\ phase' = "ended"
    BY DEF Fresh
  <2> QED
    BY <2>1, <2>2, <2>3 DEF OneVerdict
<1> QED
  BY <1>1, <1>2, <1>3, <1>4, <1>5, <1>6, <1>7

\* The reply of success starts the tunnel with nothing moved.
LEMMA ReplyInv ==
  ASSUME IInv, OpenOk \/ Reply \/ ReplyErr
  PROVE  IInv'
<1> USE DEF IInv, OpenOk, Reply, ReplyErr, Goto, Tell, handshakeVars, uploadVars, downloadVars, endVars, peerVars
<1>1. TypeOK'
  <2>1. \A m \in Messages : Append(told, m) \in Seq(Messages)
    BY DEF TypeOK
  <2>2. told' = told \/ \E m \in Messages : told' = Append(told, m)
    BY DEF Messages
  <2> QED
    BY <2>1, <2>2 DEF TypeOK, Phases
<1>2. Replies'
  BY Conversations DEF Replies, Messages
<1>3. Fresh' /\ UploadEnds'
  BY DEF TypeOK, Fresh, UploadEnds
<1>4. Counts'
  BY DEF TypeOK, Counts, DownInHand, Fresh
<1>5. UploadIsWhole'
  BY DEF TypeOK, UploadIsWhole, UpInHand, Fresh, UploadEnds, Counts, Handshake
<1>6. DownloadIsWhole'
  BY DEF TypeOK, DownloadIsWhole, Fresh, Counts, DownInHand
<1>7. OneVerdict'
  <2>1. CASE phase' = "pump"
    <3>1. told' = <<"method", "succeeded">>
      BY <1>2, <2>1 DEF Replies
    <3>2. Len(told') <= Handshake
      BY <3>1, Conversations DEF Handshake, Messages
    <3> QED
      BY <2>1, <3>1, <3>2 DEF OneVerdict
  <2>2. CASE phase' # "pump"
    <3>1. /\ told' = <<"method">> /\ delivered' = 0
          /\ phase' \in {"replying", "ended"}
          /\ phase' = "ended" => local' = "gone"
      BY <2>2 DEF Replies, Fresh
    <3>2. Len(told') <= Handshake /\ told' # <<"method", "succeeded">>
      BY <3>1, Conversations DEF Handshake, Messages
    <3> QED
      BY <3>1, <3>2 DEF OneVerdict
  <2> QED
    BY <2>1, <2>2
<1> QED
  BY <1>1, <1>2, <1>3, <1>4, <1>5, <1>6, <1>7

\* The upload moves one chunk from its hand to the channel, or the end.
LEMMA UploadInv ==
  ASSUME IInv, UploadRead \/ UploadSend \/ UploadEnd \/ UploadEof
  PROVE  IInv'
<1> USE TunnelAssumption DEF IInv, UploadRead, UploadSend, UploadEnd, UploadEof, UploadStep, ReadExact, handshakeVars, uploadVars, downloadVars, endVars, peerVars
<1>1. TypeOK'
  <2>1. /\ taken' \in Nat /\ window' \in 0..Window
        /\ uploaded' \in Nat /\ up' \in Nat
    <3>1. CASE UploadRead
      BY <3>1 DEF TypeOK
    <3>2. CASE UploadSend
      BY <3>2 DEF TypeOK
    <3>3. CASE UploadEnd \/ UploadEof
      BY <3>3 DEF TypeOK
    <3> QED
      BY <3>1, <3>2, <3>3
  <2>2. eofSent' \in BOOLEAN
    BY DEF TypeOK
  <2>3. upload' \in {"reading", "sending", "finishing", "ended"}
    BY DEF TypeOK
  <2> QED
    BY <2>1, <2>2, <2>3 DEF TypeOK
<1>2. Replies'
  BY Conversations DEF Replies, Messages
<1>3. Fresh' /\ UploadEnds'
  BY DEF TypeOK, Fresh, UploadEnds
<1>4. Counts'
  BY DEF TypeOK, Counts, DownInHand, Fresh
<1>5. UploadIsWhole'
  BY DEF TypeOK, UploadIsWhole, UpInHand, Fresh, UploadEnds, Counts, Handshake
<1>6. DownloadIsWhole'
  BY DEF TypeOK, DownloadIsWhole, Fresh, Counts, DownInHand
<1>7. OneVerdict'
  BY <1>2, Conversations DEF OneVerdict, Fresh, Replies, Handshake, Messages, TypeOK
<1> QED
  BY <1>1, <1>2, <1>3, <1>4, <1>5, <1>6, <1>7

\* The download moves one chunk from its hand to the client.
LEMMA DownloadInv ==
  ASSUME IInv, DownloadRead \/ DownloadWrite
  PROVE  IInv'
<1> USE TunnelAssumption DEF IInv, DownloadRead, DownloadWrite, DownloadStep, handshakeVars, uploadVars, downloadVars, endVars, peerVars
<1>1. TypeOK'
  <2>1. /\ received' \in Nat /\ delivered' \in Nat
        /\ unread' \in 0..Room /\ down' \in Nat
    <3>1. CASE DownloadRead
      BY <3>1 DEF TypeOK
    <3>2. CASE DownloadWrite
      BY <3>2 DEF TypeOK
    <3> QED
      BY <3>1, <3>2
  <2>2. download' \in {"waiting", "writing"}
    BY DEF TypeOK
  <2> QED
    BY <2>1, <2>2 DEF TypeOK
<1>2. Replies'
  BY Conversations DEF Replies, Messages
<1>3. Fresh' /\ UploadEnds'
  BY DEF TypeOK, Fresh, UploadEnds
<1>4. Counts'
  BY DEF TypeOK, Counts, DownInHand, Fresh
<1>5. UploadIsWhole'
  BY DEF TypeOK, UploadIsWhole, UpInHand, Fresh, UploadEnds, Counts, Handshake
<1>6. DownloadIsWhole'
  BY DEF TypeOK, DownloadIsWhole, Fresh, Counts, DownInHand
<1>7. OneVerdict'
  BY <1>2, Conversations DEF OneVerdict, Fresh, Replies, Handshake, Messages, TypeOK
<1> QED
  BY <1>1, <1>2, <1>3, <1>4, <1>5, <1>6, <1>7

\* pump ends well only with the download at its end.
LEMMA PumpEndsInv ==
  ASSUME IInv, RemoteEnds \/ LocalFails \/ SshFails
  PROVE  IInv'
<1> USE DEF IInv, RemoteEnds, LocalFails, SshFails, PumpEnds, Goto, handshakeVars, uploadVars, downloadVars, endVars, peerVars
<1>1. TypeOK'
  BY DEF TypeOK, Phases
<1>2. Replies'
  BY Conversations DEF Replies, Messages
<1>3. Fresh' /\ UploadEnds'
  BY DEF TypeOK, Fresh, UploadEnds
<1>4. Counts'
  BY DEF TypeOK, Counts, DownInHand, Fresh
<1>5. UploadIsWhole'
  BY DEF TypeOK, UploadIsWhole, UpInHand, Fresh, UploadEnds, Counts, Handshake
<1>6. DownloadIsWhole'
  BY DEF TypeOK, DownloadIsWhole, Fresh, Counts, DownInHand
<1>7. OneVerdict'
  BY <1>2, Conversations DEF OneVerdict, Fresh, Replies, Handshake, Messages, TypeOK
<1> QED
  BY <1>1, <1>2, <1>3, <1>4, <1>5, <1>6, <1>7

\* The channel is closed on the way out.
LEMMA CloseInv ==
  ASSUME IInv, Close
  PROVE  IInv'
<1> USE DEF IInv, Close, Goto, handshakeVars, uploadVars, downloadVars, endVars, peerVars
<1>1. TypeOK'
  BY DEF TypeOK, Phases
<1>2. Replies'
  BY Conversations DEF Replies, Messages
<1>3. Fresh' /\ UploadEnds'
  BY DEF TypeOK, Fresh, UploadEnds
<1>4. Counts'
  BY DEF TypeOK, Counts, DownInHand, Fresh
<1>5. UploadIsWhole'
  BY DEF TypeOK, UploadIsWhole, UpInHand, Fresh, UploadEnds, Counts, Handshake
<1>6. DownloadIsWhole'
  BY DEF TypeOK, DownloadIsWhole, Fresh, Counts, DownInHand
<1>7. OneVerdict'
  BY <1>2, Conversations DEF OneVerdict, Fresh, Replies, Handshake, Messages, TypeOK
<1> QED
  BY <1>1, <1>2, <1>3, <1>4, <1>5, <1>6, <1>7

\* The client and the server change their own ends alone.
LEMMA EnvironmentInv ==
  ASSUME IInv, Environment
  PROVE  IInv'
<1>0. window' \in 0..Window /\ unread' \in 0..Room
  <2>1. \/ window' = window /\ unread' = unread
        \/ window' = window + 1 /\ window < Window /\ unread' = unread
        \/ window' = window /\ unread' = unread - 1 /\ unread > 0
    <3>1. CASE ClientWrites \/ ClientLeaves \/ ServerSends \/ ServerEnds
      BY <3>1 DEF ClientWrites, ClientLeaves, ServerSends, ServerEnds
    <3>2. CASE ClientReads
      BY <3>2 DEF ClientReads
    <3>3. CASE WindowAdjust
      BY <3>3 DEF WindowAdjust
    <3> QED
      BY <3>1, <3>2, <3>3 DEF Environment
  <2>2. window \in 0..Window /\ unread \in 0..Room
    BY DEF IInv, TypeOK
  <2> QED
    BY <2>1, <2>2, TunnelAssumption
<1> USE TunnelAssumption DEF IInv, Environment, ClientWrites, ClientReads, ClientLeaves, ServerSends, ServerEnds,
            WindowAdjust, ChannelOpen, proxyVars, handshakeVars, uploadVars, downloadVars, endVars, peerVars
<1>1. TypeOK'
  <2>1. written' \in 0..(Handshake + MaxUp) /\ sent' \in 0..MaxDown
    BY DEF TypeOK, Handshake
  <2>2. /\ local' \in {"open", "shut", "gone"}
        /\ remote' \in {"open", "eof", "lost"}
    BY DEF TypeOK
  <2> QED
    BY <1>0, <2>1, <2>2 DEF TypeOK
<1>2. Replies'
  BY Conversations DEF Replies, Messages
<1>3. Fresh' /\ UploadEnds'
  BY DEF TypeOK, Fresh, UploadEnds
<1>4. Counts'
  BY DEF TypeOK, Counts, DownInHand, Fresh
<1>5. UploadIsWhole'
  BY DEF TypeOK, UploadIsWhole, UpInHand, Fresh, UploadEnds, Counts, Handshake
<1>6. DownloadIsWhole'
  BY DEF TypeOK, DownloadIsWhole, Fresh, Counts, DownInHand
<1>7. OneVerdict'
  BY <1>2, Conversations DEF OneVerdict, Fresh, Replies, Handshake, Messages, TypeOK
<1> QED
  BY <1>1, <1>2, <1>3, <1>4, <1>5, <1>6, <1>7

LEMMA NextInv == IInv /\ [Next]_vars => IInv'
<1> SUFFICES ASSUME IInv, [Next]_vars PROVE IInv'
  OBVIOUS
<1>1. CASE HandleClient
  BY <1>1, HandshakeInv, HandshakeFailsInv, OpenErrInv, ReplyInv DEF HandleClient
<1>2. CASE Pump
  BY <1>2, UploadInv, DownloadInv, PumpEndsInv, CloseInv DEF Pump
<1>3. CASE Environment
  BY <1>3, EnvironmentInv
<1>4. CASE UNCHANGED vars
  BY <1>4 DEF IInv, vars, handshakeVars, uploadVars, downloadVars, endVars, peerVars,
       TypeOK, Replies, Fresh, Counts, UploadEnds, UploadIsWhole, DownloadIsWhole,
       OneVerdict, UpInHand, DownInHand
<1> QED
  BY <1>1, <1>2, <1>3, <1>4 DEF Next

LEMMA Inductive == Spec => []IInv
BY InitInv, NextInv, PTL DEF Spec

\* Type correctness, whatever the client, the server and the network do.
THEOREM TypeCorrect == Spec => []TypeOK
<1>1. IInv => TypeOK
  BY DEF IInv
<1> QED
  BY <1>1, Inductive, PTL

\* However much a client sends before it has its reply, and however often the
\* window closes, no chunk of the upload is lost and its end comes last.
THEOREM UploadArrivesWhole == Spec => []UploadIsWhole
<1>1. IInv => UploadIsWhole
  BY DEF IInv
<1> QED
  BY <1>1, Inductive, PTL

\* A tunnel that ends well has delivered all the server sent.
THEOREM DownloadArrivesWhole == Spec => []DownloadIsWhole
<1>1. IInv => DownloadIsWhole
  BY DEF IInv
<1> QED
  BY <1>1, Inductive, PTL

\* One verdict per client, before any data, and no tunnel's channel left open.
THEOREM VerdictIsOne == Spec => []OneVerdict
<1>1. IInv => OneVerdict
  BY DEF IInv
<1> QED
  BY <1>1, Inductive, PTL
=============================================================================
