------------------------------- MODULE Tunnel -------------------------------
(***************************************************************************)
(* One SOCKS connection from its first byte to the end of its tunnel: the  *)
(* handshake (src/proxy/socks.rs), the replies of handle_client            *)
(* (src/proxy/mod.rs) and pump (src/proxy/tunnel.rs).  How its channel is  *)
(* opened is the business of module Pool.                                  *)
(*                                                                         *)
(* Both transports keep bytes in order, so a stream is the number of       *)
(* chunks that have passed a point.  On the client's stream the first      *)
(* chunk is its greeting and the second its request; a client may send     *)
(* what follows without waiting for the replies.  Upload and download are  *)
(* two futures of one task: each action is one of them running from an     *)
(* await to the next.                                                      *)
(***************************************************************************)
EXTENDS Naturals, Sequences

CONSTANTS
  MaxUp,     \* bound: chunks the client sends after its request
  MaxDown,   \* bound: chunks the server sends
  Window,    \* chunks the SSH window of the upload holds
  Room       \* chunks the local socket holds for the client

ASSUME TunnelAssumption ==
  /\ MaxUp \in Nat
  /\ MaxDown \in Nat
  /\ Window \in Nat \ {0}
  /\ Room \in Nat \ {0}

VARIABLES
  phase,      \* where handle_client is
  greeting,   \* what the client's first message is
  request,    \* what its second message is
  written,    \* chunks the client has written
  taken,      \* chunks the proxy has read from the client
  local,      \* the client's end of its connection
  told,       \* the SOCKS messages written to the client
  upload,     \* where the upload future is
  window,     \* what is left of the SSH window
  uploaded,   \* data chunks sent on the channel
  eofSent,    \* the channel was told the end of the upload
  remote,     \* the server's end of the channel
  sent,       \* data chunks the server has sent
  received,   \* data chunks taken from the channel
  download,   \* where the download future is
  delivered,  \* data chunks written to the client's socket
  unread,     \* those the client has not read yet
  result,     \* how pump ended
  closed,     \* the channel was closed
  killed,     \* the session was killed
  up, down    \* ProxyStats: chunks counted in each direction

handshakeVars == <<greeting, request, told>>
uploadVars    == <<upload, uploaded, eofSent, up>>
downloadVars  == <<received, download, delivered, down>>
endVars       == <<result, closed, killed>>
peerVars      == <<written, local, remote, sent>>
vars == <<phase, handshakeVars, taken, uploadVars, window, downloadVars,
          unread, endVars, peerVars>>

Greetings == {"noAuth", "authOnly", "otherVersion"}
Requests  == {"connect", "otherVersion", "otherCommand", "otherType", "badName"}
Phases == {"greeting", "request", "opening", "replying", "pump", "closing", "ended"}
Messages == {"method", "noMethod", "succeeded", "failure", "badCommand", "badType"}

\* The greeting and the request.
Handshake == 2

---------------------------------------------------------------------------
(* The handshake: negotiate_no_auth and read_request *)

Goto(from, to) ==
  /\ phase = from
  /\ phase' = to

Tell(message) == told' = Append(told, message)

\* Mutant of ReadExact: a buffered reader also takes what is there already.
ReadAll ==
  /\ taken < written
  /\ local # "gone"
  /\ taken' = written

\* read_exact takes the message and nothing behind it.
ReadExact ==
  /\ taken < written
  /\ local # "gone"
  /\ taken' = taken + 1

ReadMessage(from, to) ==
  /\ Goto(from, to)
  /\ ReadExact
  /\ UNCHANGED <<greeting, request, uploadVars, window, downloadVars, unread,
                 endVars, peerVars>>

\* Another version of SOCKS is not answered.
NegotiateNoAuth ==
  \/ /\ greeting = "noAuth"
     /\ ReadMessage("greeting", "request")
     /\ Tell("method")
  \/ /\ greeting = "authOnly"
     /\ ReadMessage("greeting", "ended")
     /\ Tell("noMethod")
  \/ /\ greeting = "otherVersion"
     /\ ReadMessage("greeting", "ended")
     /\ UNCHANGED told

ReadRequest ==
  \/ /\ request = "connect"
     /\ ReadMessage("request", "opening")
     /\ UNCHANGED told
  \/ /\ request = "otherCommand"
     /\ ReadMessage("request", "ended")
     /\ Tell("badCommand")
  \/ /\ request = "otherType"
     /\ ReadMessage("request", "ended")
     /\ Tell("badType")
  \/ /\ request \in {"otherVersion", "badName"}
     /\ ReadMessage("request", "ended")
     /\ UNCHANGED told

\* A read meets the end of the stream in a message, or a read or a write fails.
HandshakeFails ==
  /\ \E from \in {"greeting", "request"} : Goto(from, "ended")
  /\ \/ local = "gone"
     \/ local = "shut" /\ taken = written
  /\ UNCHANGED <<handshakeVars, taken, uploadVars, window, downloadVars, unread,
                 endVars, peerVars>>

---------------------------------------------------------------------------
(* The replies of handle_client *)

\* Mutant of OpenErr: the error is returned without a reply.
OpenErrSilent ==
  /\ Goto("opening", "ended")
  /\ UNCHANGED <<handshakeVars, taken, uploadVars, window, downloadVars, unread,
                 endVars, peerVars>>

\* Pool::open_channel has failed; the reply may fail, too.
OpenErr ==
  /\ Goto("opening", "ended")
  /\ \/ Tell("failure")
     \/ local = "gone" /\ UNCHANGED told
  /\ UNCHANGED <<greeting, request, taken, uploadVars, window, downloadVars,
                 unread, endVars, peerVars>>

OpenOk ==
  /\ Goto("opening", "replying")
  /\ UNCHANGED <<handshakeVars, taken, uploadVars, window, downloadVars, unread,
                 endVars, peerVars>>

Reply ==
  /\ Goto("replying", "pump")
  /\ Tell("succeeded")
  /\ UNCHANGED <<greeting, request, taken, uploadVars, window, downloadVars,
                 unread, endVars, peerVars>>

\* `?` leaves the channel as it is.
ReplyErr ==
  /\ Goto("replying", "ended")
  /\ local = "gone"
  /\ UNCHANGED <<handshakeVars, taken, uploadVars, window, downloadVars, unread,
                 endVars, peerVars>>

---------------------------------------------------------------------------
(* pump: the upload *)

UploadStep(from, to) ==
  /\ phase = "pump" /\ upload = from
  /\ upload' = to
  /\ UNCHANGED <<phase, handshakeVars, downloadVars, unread, endVars, peerVars>>

\* Mutant of UploadRead: one loop serves both directions in turn.
UploadReadInTurn ==
  /\ download = "waiting"
  /\ ReadExact
  /\ UploadStep("reading", "sending")
  /\ up' = up + 1
  /\ UNCHANGED <<window, uploaded, eofSent>>

UploadRead ==
  /\ ReadExact
  /\ UploadStep("reading", "sending")
  /\ up' = up + 1
  /\ UNCHANGED <<window, uploaded, eofSent>>

\* data() waits for room in the window.
UploadSend ==
  /\ window > 0
  /\ UploadStep("sending", "reading")
  /\ window' = window - 1
  /\ uploaded' = uploaded + 1
  /\ UNCHANGED <<taken, eofSent, up>>

\* The client sends no more.
UploadEnd ==
  /\ local = "shut" /\ taken = written
  /\ UploadStep("reading", "finishing")
  /\ UNCHANGED <<taken, window, uploaded, eofSent, up>>

\* eof() is sent; select! goes on with the download alone.
UploadEof ==
  /\ UploadStep("finishing", "ended")
  /\ eofSent' = TRUE
  /\ UNCHANGED <<taken, window, uploaded, up>>

---------------------------------------------------------------------------
(* pump: the download, and the end of both *)

DownloadStep(from, to) ==
  /\ phase = "pump" /\ download = from
  /\ download' = to
  /\ UNCHANGED <<phase, handshakeVars, taken, uploadVars, window, endVars,
                 peerVars>>

\* Mutant of DownloadRead: one loop serves both directions in turn.
DownloadReadInTurn ==
  /\ received < sent /\ upload # "sending"
  /\ DownloadStep("waiting", "writing")
  /\ received' = received + 1
  /\ down' = down + 1
  /\ UNCHANGED <<delivered, unread>>

DownloadRead ==
  /\ received < sent
  /\ DownloadStep("waiting", "writing")
  /\ received' = received + 1
  /\ down' = down + 1
  /\ UNCHANGED <<delivered, unread>>

\* write_all() waits for room in the client's socket.
DownloadWrite ==
  /\ unread < Room
  /\ DownloadStep("writing", "waiting")
  /\ delivered' = delivered + 1
  /\ unread' = unread + 1
  /\ UNCHANGED <<received, down>>

\* select! is over: the other future runs no more.
PumpEnds(how) ==
  /\ Goto("pump", "closing")
  /\ result' = how
  /\ UNCHANGED <<handshakeVars, taken, uploadVars, window, downloadVars, unread,
                 closed, killed, peerVars>>

\* Mutant of RemoteEnds: either direction ends the tunnel.
EitherEnds ==
  /\ \/ received = sent /\ remote # "open" /\ download = "waiting"
     \/ upload = "ended"
  /\ PumpEnds("ok")

\* What the server sent is taken, and Eof or the end of the channel follows.
RemoteEnds ==
  /\ download = "waiting"
  /\ received = sent /\ remote # "open"
  /\ PumpEnds("ok")

\* The local connection fails under the read or the write in progress.
LocalFails ==
  /\ local = "gone"
  /\ upload = "reading" \/ download = "writing"
  /\ PumpEnds("local")

\* data() or eof() fails, for whatever reason russh has.
SshFails ==
  /\ upload \in {"sending", "finishing"}
  /\ PumpEnds("ssh")

\* close() on every way out; an SSH error kills the session.
Close ==
  /\ Goto("closing", "ended")
  /\ closed' = TRUE
  /\ killed' = (result = "ssh")
  /\ UNCHANGED <<handshakeVars, taken, uploadVars, window, downloadVars, unread,
                 result, peerVars>>

---------------------------------------------------------------------------
(* The client and the SSH server *)

proxyVars == <<phase, handshakeVars, taken, uploadVars, downloadVars, endVars>>

ClientWrites ==
  /\ local = "open" /\ written < Handshake + MaxUp
  /\ written' = written + 1
  /\ UNCHANGED <<proxyVars, window, unread, local, remote, sent>>

ClientReads ==
  /\ local # "gone" /\ unread > 0
  /\ unread' = unread - 1
  /\ UNCHANGED <<proxyVars, window, peerVars>>

\* The client shuts down its sending side, or is gone altogether.
ClientLeaves ==
  /\ \/ local = "open" /\ local' \in {"shut", "gone"}
     \/ local = "shut" /\ local' = "gone"
  /\ UNCHANGED <<proxyVars, window, unread, written, remote, sent>>

ChannelOpen == phase \in {"replying", "pump", "closing"}

ServerSends ==
  /\ ChannelOpen
  /\ remote = "open" /\ sent < MaxDown
  /\ sent' = sent + 1
  /\ UNCHANGED <<proxyVars, window, unread, written, local, remote>>

\* Eof, or the channel or the whole session is over without one.
ServerEnds ==
  /\ ChannelOpen
  /\ remote = "open" /\ remote' \in {"eof", "lost"}
  /\ UNCHANGED <<proxyVars, window, unread, written, local, sent>>

WindowAdjust ==
  /\ ChannelOpen
  /\ remote # "lost" /\ window < Window
  /\ window' = window + 1
  /\ UNCHANGED <<proxyVars, unread, peerVars>>

---------------------------------------------------------------------------
Init ==
  /\ phase = "greeting"
  /\ greeting \in Greetings /\ request \in Requests
  /\ written = 0 /\ taken = 0 /\ local = "open"
  /\ told = <<>>
  /\ upload = "reading" /\ window = Window /\ uploaded = 0 /\ eofSent = FALSE
  /\ remote = "open" /\ sent = 0 /\ received = 0
  /\ download = "waiting" /\ delivered = 0 /\ unread = 0
  /\ result = "none" /\ closed = FALSE /\ killed = FALSE
  /\ up = 0 /\ down = 0

HandleClient ==
  \/ NegotiateNoAuth
  \/ ReadRequest
  \/ HandshakeFails
  \/ OpenErr
  \/ OpenOk
  \/ Reply
  \/ ReplyErr

Pump ==
  \/ UploadRead
  \/ UploadSend
  \/ UploadEnd
  \/ UploadEof
  \/ DownloadRead
  \/ DownloadWrite
  \/ RemoteEnds
  \/ LocalFails
  \/ SshFails
  \/ Close

Environment ==
  \/ ClientWrites
  \/ ClientReads
  \/ ClientLeaves
  \/ ServerSends
  \/ ServerEnds
  \/ WindowAdjust

Next == HandleClient \/ Pump \/ Environment

Spec == Init /\ [][Next]_vars

(***************************************************************************)
(* Fairness.  pump's task runs, and select! polls both futures, so a step  *)
(* of either that stays possible is taken.  Nothing is assumed of the      *)
(* client, of the server or of the network.                                *)
(***************************************************************************)
Fairness ==
  /\ WF_vars(UploadRead)
  /\ WF_vars(UploadSend)
  /\ WF_vars(UploadEnd)
  /\ WF_vars(UploadEof)
  /\ WF_vars(DownloadRead)
  /\ WF_vars(DownloadWrite)
  /\ WF_vars(RemoteEnds)
  /\ WF_vars(LocalFails)
  /\ WF_vars(Close)

FairSpec == Spec /\ Fairness

---------------------------------------------------------------------------
(* Properties *)

\* Every variable keeps its type.
TypeOK ==
  /\ phase \in Phases
  /\ greeting \in Greetings /\ request \in Requests
  /\ written \in 0..(Handshake + MaxUp) /\ taken \in Nat
  /\ local \in {"open", "shut", "gone"}
  /\ told \in Seq(Messages)
  /\ upload \in {"reading", "sending", "finishing", "ended"}
  /\ window \in 0..Window /\ uploaded \in Nat /\ eofSent \in BOOLEAN
  /\ remote \in {"open", "eof", "lost"}
  /\ sent \in 0..MaxDown /\ received \in Nat
  /\ download \in {"waiting", "writing"}
  /\ delivered \in Nat /\ unread \in 0..Room
  /\ result \in {"none", "ok", "local", "ssh"}
  /\ closed \in BOOLEAN /\ killed \in BOOLEAN
  /\ up \in Nat /\ down \in Nat

\* The chunk a future has taken and not passed on.
UpInHand   == IF upload = "sending" THEN 1 ELSE 0
DownInHand == IF download = "writing" THEN 1 ELSE 0

\* Everything read behind the request, what the client sent before it had the
\* reply included, is uploaded or in hand, and counted once; the server is told
\* the end only when it has all the client wrote (read_exact, and the 0 of
\* pump's read).
UploadIsWhole ==
  /\ phase \in {"pump", "closing"} => taken = Handshake + uploaded + UpInHand
  /\ eofSent => local # "open" /\ Handshake + uploaded = written
  /\ up = uploaded + UpInHand

\* A tunnel that ends without an error has given the client all the server
\* sent, also when the client had finished sending long before: a half-closed
\* connection is not cut off (the select! of pump).  However it ends, what was
\* counted and did not get through is at most the chunk in hand.
DownloadIsWhole ==
  /\ result = "ok" => remote # "open" /\ delivered = sent
  /\ down = delivered + DownInHand

\* A client that asks for what is supported and stays is answered, once; it is
\* told of a success only when it has a channel, gets data only after that, and
\* no channel that carried a tunnel is left open.
OneVerdict ==
  /\ phase = "ended" /\ local = "open" /\ greeting = "noAuth" /\ request = "connect"
       => told \in {<<"method", "succeeded">>, <<"method", "failure">>}
  /\ delivered > 0 \/ phase \in {"pump", "closing"}
       => told = <<"method", "succeeded">>
  /\ phase = "ended" /\ told = <<"method", "succeeded">> => closed
  /\ Len(told) <= Handshake

\* As long as the client reads, what the server sends reaches it.
DownloadFlows ==
  ([]<>(unread = 0)) =>
    \A n \in 1..MaxDown : (phase = "pump" /\ sent >= n) ~> (delivered >= n \/ phase # "pump")

\* As long as the server opens its window, what the client sends is uploaded,
\* and its end is passed on.
UploadFlows ==
  ([]<>(window > 0)) =>
    /\ \A n \in 1..MaxUp :
         (phase = "pump" /\ written >= Handshake + n) ~> (uploaded >= n \/ phase # "pump")
    /\ (phase = "pump" /\ local = "shut") ~> (eofSent \/ phase # "pump")

\* "A full SSH window in one direction cannot stall the other": each direction
\* depends on its own receiver alone, whatever becomes of the other (pump).
NeitherStallsTheOther == DownloadFlows /\ UploadFlows
=============================================================================
