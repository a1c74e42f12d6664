--------------------------- MODULE ProxiedTcpSocket ---------------------------
(***************************************************************************)
(* A connection through a SOCKS5 proxy (src/src/ProxiedTcpSocket.cpp): the *)
(* socket is its own endpoint while it negotiates, reads the proxy's       *)
(* answers from a stream that may be cut anywhere, and puts the program's  *)
(* endpoint in its place when the proxy has connected.                     *)
(*                                                                         *)
(* Of the TcpSocket below, only what it tells its endpoint is kept.  Bytes *)
(* are numbers; the proxied data are DataFrom + 1, DataFrom + 2, ...  A    *)
(* negotiation that fails ends in undefined behaviour, always: either      *)
(* close() calls connectionClosed, whose `delete this' runs close() again  *)
(* on an endpoint half destroyed, or the TcpSocket goes on with the        *)
(* deleted object.  `ub' ends the run there.                               *)
(*                                                                         *)
(* ProxiedNetworkManager creates the socket and completes this module to a *)
(* specification.                                                          *)
(***************************************************************************)
EXTENDS Naturals, Sequences

CONSTANTS ConnLen,     \* bytes of the answer to the connect request: 10 in the code
          HasUser,     \* the proxy was given with user and password
          MaxData,     \* bound: bytes of proxied data
          MaxJunk      \* bound: bytes the proxy sends out of turn

ASSUME ProxyAssumption ==
  /\ ConnLen \in Nat /\ ConnLen > 4
  /\ HasUser \in BOOLEAN /\ MaxData \in Nat /\ MaxJunk \in Nat

VARIABLES
  base,                  \* the TcpSocket: "new", "connecting", "up", "gone"
  m_proxyStatus,
  m_buffer,
  m_finalClientEndpoint, \* TRUE until the endpoints are exchanged
  asked,                 \* requests sent to the proxy
  answered,              \* proxy: how many of them it has answered
  inbox,                 \* bytes it sent that were not received yet
  junk, data,            \* proxy: bytes out of turn, bytes of data it sent
  good,                  \* history: it accepted everything so far
  calls, relayed,        \* history: what the program's endpoint heard
  cut,                   \* history: part of an answer was thrown away
  ub                     \* history: undefined behaviour was reached

socket   == <<base, m_proxyStatus, m_buffer, m_finalClientEndpoint>>
proxy    == <<answered, inbox, junk, data, good>>
endpoint == <<calls, relayed>>
vars     == <<socket, asked, proxy, endpoint, cut, ub>>

Init ==
  /\ base = "new" /\ m_proxyStatus = "NONE" /\ m_buffer = <<>>
  /\ m_finalClientEndpoint = TRUE
  /\ asked = <<>> /\ answered = 0 /\ inbox = <<>> /\ junk = 0 /\ data = 0 /\ good = TRUE
  /\ calls = <<>> /\ relayed = <<>> /\ cut = FALSE /\ ub = FALSE

Junk     == 77
DataFrom == 100
Outcomes == {"connectionClosed", "connectionLost"}

-----------------------------------------------------------------------------
(* The proxy answers what it was asked, well or badly. An answer to the   *)
(* connect request is assumed to have an IPv4 address, and so ConnLen     *)
(* bytes: the code never looks at the type of the address.                *)

Answers(request, well) ==
  CASE request = "vid"  -> IF well THEN {<<5, 0>>, <<5, 2>>} ELSE {<<0, 0>>, <<5, 255>>}
    [] request = "auth" -> IF well THEN {<<1, 0>>} ELSE {<<0, 0>>, <<1, 1>>}
    [] request = "conn" -> {[i \in 1 .. ConnLen |-> CASE i = 1 -> version [] i = 2 -> reply
                                                      [] OTHER -> 0] :
                             version \in IF well THEN {5} ELSE {0, 5},
                             reply \in IF well THEN {0} ELSE {1}}

Sends(bytes) ==
  /\ base = "up" /\ ~ub /\ inbox' = inbox \o bytes
  /\ UNCHANGED <<socket, asked, endpoint, cut, ub>>

ProxyAnswers ==
  /\ answered < Len(asked) /\ answered' = answered + 1
  /\ \E well \in BOOLEAN : \E bytes \in Answers(asked[answered'], well) :
       Sends(bytes) /\ good' = (good /\ well)
  /\ UNCHANGED <<junk, data>>

Granted == good /\ answered > 0 /\ asked[answered] = "conn"

ProxySendsData ==
  /\ Granted /\ data < MaxData /\ data' = data + 1 /\ Sends(<<DataFrom + data'>>)
  /\ UNCHANGED <<answered, junk, good>>

ProxySendsJunk ==
  /\ ~Granted /\ junk < MaxJunk /\ junk' = junk + 1 /\ Sends(<<Junk>>)
  /\ UNCHANGED <<answered, data, good>>

-----------------------------------------------------------------------------
(* The socket. *)

Asks(status, request, buffer) ==
  /\ m_proxyStatus' = status /\ asked' = Append(asked, request) /\ m_buffer' = buffer

\* connect(), or a connection that is established at once.
Connect ==
  /\ base = "new" /\ base' = "connecting"
  /\ UNCHANGED <<m_proxyStatus, m_buffer, m_finalClientEndpoint, asked, proxy, endpoint, cut, ub>>

connectionEstablished ==
  /\ base = "connecting" /\ ~ub /\ base' = "up"
  /\ Asks("WAIT_VID", "vid", m_buffer)
  /\ UNCHANGED <<m_finalClientEndpoint, proxy, endpoint, cut, ub>>

\* close(true), or the TcpSocket ended by itself, during the negotiation; and a
\* connect() that fails, which closes and deletes the socket.
Abort(outcome) ==
  /\ calls' = Append(calls, outcome) /\ base' = "gone" /\ ub' = TRUE
  /\ UNCHANGED <<m_proxyStatus, m_buffer, m_finalClientEndpoint, asked, relayed, cut>>

\* The TcpSocket ends.
Ends(outcome) ==
  /\ base \in {"connecting", "up"} /\ ~ub
  /\ IF m_finalClientEndpoint THEN Abort(outcome)
     ELSE /\ calls' = Append(calls, outcome) /\ base' = "gone"
          /\ UNCHANGED <<m_proxyStatus, m_buffer, m_finalClientEndpoint, asked, relayed, cut, ub>>
  /\ UNCHANGED proxy

Waits(buffer) ==
  m_buffer' = buffer /\ UNCHANGED <<base, m_proxyStatus, m_finalClientEndpoint, asked, endpoint, cut, ub>>

Step(status, request) ==
  /\ Asks(status, request, <<>>) /\ UNCHANGED <<base, m_finalClientEndpoint, endpoint, cut, ub>>

\* Mutant: a part of the answer is thrown away, as WaitUserauth does.
WaitVidWhole(bytes) ==
  CASE Len(bytes) = 2 /\ bytes[1] = 5 /\ bytes[2] = 0 -> Step("WAIT_CONN", "conn")
    [] Len(bytes) = 2 /\ bytes[1] = 5 /\ bytes[2] = 2 /\ HasUser -> Step("WAIT_USERAUTH", "auth")
    [] Len(bytes) \in {1, 3, 4} -> Waits(<<>>)
    [] OTHER -> \E outcome \in Outcomes : Abort(outcome)

\* The answer to the methods offered; up to two bytes too many are waited with.
WaitVid(bytes) ==
  CASE Len(bytes) = 2 /\ bytes[1] = 5 /\ bytes[2] = 0 -> Step("WAIT_CONN", "conn")
    [] Len(bytes) = 2 /\ bytes[1] = 5 /\ bytes[2] = 2 /\ HasUser -> Step("WAIT_USERAUTH", "auth")
    [] Len(bytes) \in {1, 3, 4} -> Waits(bytes)
    [] OTHER -> \E outcome \in Outcomes : Abort(outcome)

\* The answer to user and password; a part of it is thrown away.
WaitUserauth(bytes) ==
  CASE bytes = <<1, 0>> -> Step("WAIT_CONN", "conn")
    [] Len(bytes) = 1 ->
         /\ cut' = TRUE /\ m_buffer' = <<>>
         /\ UNCHANGED <<base, m_proxyStatus, m_finalClientEndpoint, asked, endpoint, ub>>
    [] OTHER -> \E outcome \in Outcomes : Abort(outcome)

\* pivotEndpoints: what followed the answer is data already.  An endpoint that
\* closes the socket in connectionEstablished or dataRead is called by, or
\* returns to, a deleted object.
Pivot(rest) ==
  /\ m_finalClientEndpoint' = FALSE /\ m_buffer' = <<>>
  /\ UNCHANGED <<m_proxyStatus, asked, cut>>
  /\ \/ /\ calls' = Append(calls, "connectionEstablished") /\ relayed' = relayed \o rest
        /\ UNCHANGED <<base, ub>>
     \/ /\ calls' = calls \o <<"connectionEstablished", "connectionClosed">>
        /\ base' = "gone" /\ ub' = TRUE /\ relayed' \in {relayed, relayed \o rest}

\* Mutants: the reply is not looked at; what follows the answer is forgotten.
WaitConnAnyReply(bytes) ==
  CASE Len(bytes) < ConnLen -> Waits(bytes)
    [] Len(bytes) >= ConnLen /\ bytes[1] = 5 -> Pivot(SubSeq(bytes, ConnLen + 1, Len(bytes)))
    [] OTHER -> \E outcome \in Outcomes : Abort(outcome)
WaitConnOnly(bytes) ==
  CASE Len(bytes) < ConnLen -> Waits(bytes)
    [] Len(bytes) >= ConnLen /\ bytes[1] = 5 /\ bytes[2] = 0 -> Pivot(<<>>)
    [] OTHER -> \E outcome \in Outcomes : Abort(outcome)

WaitConn(bytes) ==
  CASE Len(bytes) < ConnLen -> Waits(bytes)
    [] Len(bytes) >= ConnLen /\ bytes[1] = 5 /\ bytes[2] = 0 ->
         Pivot(SubSeq(bytes, ConnLen + 1, Len(bytes)))
    [] OTHER -> \E outcome \in Outcomes : Abort(outcome)

Relay(chunk) ==
  relayed' = relayed \o chunk /\ UNCHANGED <<socket, asked, calls, cut, ub>>

\* pollRead hands on what has arrived, cut anywhere.
dataRead(n) ==
  LET chunk == SubSeq(inbox, 1, n)
      bytes == m_buffer \o chunk
  IN /\ base = "up" /\ ~ub /\ n <= Len(inbox)
     /\ inbox' = SubSeq(inbox, n + 1, Len(inbox))
     /\ CASE ~m_finalClientEndpoint            -> Relay(chunk)
          [] m_finalClientEndpoint /\ m_proxyStatus = "WAIT_VID"      -> WaitVid(bytes)
          [] m_finalClientEndpoint /\ m_proxyStatus = "WAIT_USERAUTH" -> WaitUserauth(bytes)
          [] m_finalClientEndpoint /\ m_proxyStatus = "WAIT_CONN"     -> WaitConn(bytes)
     /\ UNCHANGED <<answered, junk, data, good>>

Read == \E n \in 1 .. Len(inbox) : dataRead(n)

Done == (base = "gone" \/ ub) /\ UNCHANGED vars

\* What happens to a socket that is connecting or connected.
Life == \/ connectionEstablished \/ Read \/ (\E outcome \in Outcomes : Ends(outcome))
        \/ ProxyAnswers \/ ProxySendsData \/ ProxySendsJunk

-----------------------------------------------------------------------------
(* Properties. *)

Bytes == {0, 1, 2, 5, 255, Junk} \cup (DataFrom + 1 .. DataFrom + MaxData)

\* Every variable keeps its type, and the buffer is freed when it is done with.
SocketTypes ==
  /\ base \in {"new", "connecting", "up", "gone"}
  /\ m_proxyStatus \in {"NONE", "WAIT_VID", "WAIT_USERAUTH", "WAIT_CONN"}
  /\ m_buffer \in Seq(Bytes) /\ Len(m_buffer) < ConnLen
  /\ m_finalClientEndpoint \in BOOLEAN /\ (~m_finalClientEndpoint => m_buffer = <<>>)
  /\ asked \in Seq({"vid", "auth", "conn"}) /\ answered \in 0 .. Len(asked)
  /\ inbox \in Seq(Bytes) /\ junk \in 0 .. MaxJunk /\ data \in 0 .. MaxData
  /\ calls \in Seq(Outcomes \cup {"connectionEstablished"}) /\ relayed \in Seq(Bytes)
  /\ {good, cut, ub} \subseteq BOOLEAN

\* The endpoint is told that the connection is established only when the proxy
\* has accepted the method, the user and the connection.
EstablishedWhenGranted ==
  \A i \in DOMAIN calls : calls[i] = "connectionEstablished" => i = 1 /\ Granted

\* It is given the data behind the proxy's answer, from the first byte on and
\* in order, wherever the stream is cut, and no byte of the negotiation, of
\* which the buffer keeps nothing either; if the proxy answers with an IPv4
\* address (see Answers).
DataIsWhole ==
  /\ SocketTypes
  /\ \A i \in 1 .. Len(relayed) : relayed[i] = DataFrom + i
  /\ base = "up" /\ ~m_finalClientEndpoint => Len(relayed) + Len(inbox) = data

\* A negotiation comes to an end, unless the proxy speaks out of turn or its
\* answer to user and password came in two pieces.
NegotiationEnds ==
  base = "connecting" ~> (calls # <<>> \/ junk > 0 \/ cut)
===============================================================================
