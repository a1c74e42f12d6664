------------------------------ MODULE TcpSocket ------------------------------
(***************************************************************************)
(* One stream socket of libnetworkd (src/src/TcpSocket.cpp) from its       *)
(* creation, by NetworkManager::connectStream or by accept, to its         *)
(* `delete this'.  The module keeps the socket's members, the kernel's     *)
(* half of the connection and the events poll() found for the socket and   *)
(* waitForEventsAndProcess has not dispatched yet.  The bytes passed to    *)
(* send() are numbered 1, 2, 3, ... in the order they are passed.          *)
(*                                                                         *)
(* One action is one call of a member function, or one branch of it.  A    *)
(* callback into the endpoint is the last thing such a call does, except   *)
(* in the branches that end in `delete this', so what the endpoint does    *)
(* in the callback is the next action.  From connectionClosed and          *)
(* connectionLost an endpoint uses its socket no more.                     *)
(*                                                                         *)
(* A socket whose descriptor is in blocking mode stops the thread inside   *)
(* ::send; `caller', `arg' and `done' are that suspended call.             *)
(***************************************************************************)
EXTENDS Naturals, Sequences

CONSTANTS MaxOffered,      \* bound: bytes the endpoint passes to send()
          MaxChunk,        \* bound: bytes in one send()
          SockBuf,         \* bytes the kernel's send buffer holds
          MaxIn,           \* bound: chunks the peer sends
          Origins,         \* how the socket comes to be
          InheritsNonblock,\* accept() passes O_NONBLOCK on (BSD, not Linux)
          Signals,         \* a blocked ::send can be interrupted (EINTR)
          Pressure         \* the kernel can run short of buffer memory

ASSUME BoundsAssumption ==
          /\ MaxOffered \in Nat
          /\ MaxChunk \in Nat
          /\ SockBuf \in Nat \ {0}
          /\ MaxIn \in Nat

ASSUME BuildAssumption ==
          /\ Origins \subseteq {"connect", "accept"}
          /\ InheritsNonblock \in BOOLEAN
          /\ Signals \in BOOLEAN
          /\ Pressure \in BOOLEAN

VARIABLES
  obj,             \* "unborn", "live" or "deleted": the C++ object
  origin,          \* constructor used; "accept" has m_serverEndpointFactory
  m_state,         \* NetworkSocketState
  m_ioSocketState, \* IOSocketState, which selects the poll events
  m_outputBuffer,  \* bytes send() kept for pollWrite
  registered,      \* the IOManager knows the socket
  pending,         \* revents of the last poll() still to be dispatched
  caller,          \* who is suspended in ::send: "none", "send", "pollWrite"
  arg,             \* bytes of that ::send the kernel has not taken
  done,            \* bytes of that ::send the kernel has taken
  conn,            \* kernel: "none", "connecting", "up", "eof", "reset", "dead"
  nonblock,        \* kernel: O_NONBLOCK is set on the descriptor
  room,            \* kernel: free bytes in the send buffer
  inData,          \* kernel: chunks waiting to be received
  arrived,         \* history: chunks the peer has sent
  wire,            \* history: bytes the kernel took, in order
  offered,         \* history: bytes passed to send()
  dropped,         \* history: send() threw bytes away
  calls,           \* history: callbacks to the endpoint and its factory
  ended,           \* history: what ended the socket
  faults           \* history: undefined behaviour met

object  == <<obj, origin, m_state, m_ioSocketState, m_outputBuffer, registered>>
call    == <<caller, arg, done>>
kernel  == <<conn, nonblock, room, inData, arrived>>
history == <<wire, offered, dropped, calls, ended, faults>>
vars    == <<object, call, kernel, history, pending>>

States   == {"UNINITIALIZED", "GOING_UP", "IDLE", "BUFFERING", "GOING_DOWN", "DOWN"}
Conns    == {"none", "connecting", "up", "eof", "reset", "dead"}
Events   == {"ERR", "OUT", "IN"}
Outcomes == {"connectionClosed", "connectionLost"}
Calls    == Outcomes \cup {"connectionEstablished", "dataRead", "destroyEndpoint"}
Causes   == {"no", "no descriptor", "rejected", "setup", "refused", "closed",
             "forced", "flushed", "eof", "lost"}
Twice    == {"closed twice", "told twice", "told after destroy", "deleted twice"}
Faults   == Twice \cup {"null endpoint"}

Init ==
  /\ obj = "unborn" /\ origin \in Origins
  /\ m_state = "UNINITIALIZED" /\ m_ioSocketState = "IGNORE"
  /\ m_outputBuffer = <<>> /\ registered = FALSE
  /\ caller = "none" /\ arg = <<>> /\ done = 0
  /\ conn = "none" /\ nonblock = FALSE /\ room = SockBuf
  /\ inData = 0 /\ arrived = 0
  /\ wire = <<>> /\ offered = 0 /\ dropped = FALSE
  /\ calls = <<>> /\ ended = "no" /\ faults = {}
  /\ pending = {}

-----------------------------------------------------------------------------
(* Shared parts of the member functions. *)

\* The bytes numbered lo+1 .. hi.
Bytes(lo, hi) == [i \in 1 .. hi - lo |-> lo + i]

Drop(s, n) == SubSeq(s, n + 1, Len(s))
Take(s, n) == SubSeq(s, 1, n)

Least(a, b) == IF a < b THEN a ELSE b

\* The thread is not suspended in ::send, so endpoint and loop code can run.
Running == obj = "live" /\ caller = "none"

Connected == conn \in {"up", "eof"}
Broken    == conn \in {"reset", "dead"}

\* Mutant: the two state enumerations are mixed up.
RegisterMixed(state, ioState) ==
  /\ obj' = "live" /\ registered' = TRUE
  /\ m_state' = state /\ m_ioSocketState' = state

\* addSocket, and the two states a socket starts its life in.
Register(state, ioState) ==
  /\ obj' = "live" /\ registered' = TRUE
  /\ m_state' = state /\ m_ioSocketState' = ioState

\* The end of every road: removeSocket, ::close and `delete this'.  The
\* members of the freed object are given fixed values.
Destroy(log, cause, bad) ==
  /\ obj' = "deleted" /\ registered' = FALSE
  /\ m_state' = "DOWN" /\ m_ioSocketState' = "IGNORE" /\ m_outputBuffer' = <<>>
  /\ caller' = "none" /\ arg' = <<>> /\ done' = 0
  /\ conn' = "none" /\ pending' = {}
  /\ calls' = calls \o log /\ ended' = cause /\ faults' = faults \cup bad
  /\ UNCHANGED <<origin, nonblock, inData, arrived, offered>>

\* connectionClosed or connectionLost, then destroyEndpoint if a factory made
\* the endpoint.
Told(outcome) ==
  IF origin = "accept" THEN <<outcome, "destroyEndpoint">> ELSE <<outcome>>

-----------------------------------------------------------------------------
(* NetworkManager::connectStream and connectUnix, and the accept branch of *)
(* a listening socket's pollRead.  A UnixSocket that is made well lives as *)
(* a TcpSocket does.                                                       *)

Unborn(from) == obj = "unborn" /\ origin = from

\* ::socket fails, or ::connect's own socket() does: close(true) finds
\* m_socket = -1 and only deletes.
NoDescriptor ==
  /\ Unborn("connect")
  /\ Destroy(<<>>, "no descriptor", {})
  /\ UNCHANGED <<wire, room, dropped>>

\* setsockopt or fcntl fails under bind(): socket() has closed the descriptor
\* but left its number in m_socket, and close(true) closes it again.
SetupFails ==
  /\ Unborn("connect")
  /\ Destroy(Told("connectionClosed"), "setup", {"closed twice"})
  /\ UNCHANGED <<wire, room, dropped>>

\* ::bind fails, or ::connect fails at once: close(true) on an open descriptor.
ConnectRefused ==
  /\ Unborn("connect")
  /\ Destroy(Told("connectionClosed"), "refused", {})
  /\ UNCHANGED <<wire, room, dropped>>

\* ::connect succeeds at once.
ConnectAtOnce ==
  /\ Unborn("connect")
  /\ Register("IDLE", "IDLE")
  /\ conn' = "up" /\ nonblock' = TRUE
  /\ calls' = Append(calls, "connectionEstablished")
  /\ UNCHANGED <<origin, m_outputBuffer, call, room, inData, arrived, wire,
                 offered, dropped, ended, faults, pending>>

\* Mutant: a connecting socket is not polled for POLLOUT.
ConnectInProgressIdle ==
  /\ Unborn("connect")
  /\ Register("GOING_UP", "IDLE")
  /\ conn' = "connecting" /\ nonblock' = TRUE
  /\ UNCHANGED <<origin, m_outputBuffer, call, room, inData, arrived, history,
                 pending>>

\* ::connect answers EINPROGRESS.
ConnectInProgress ==
  /\ Unborn("connect")
  /\ Register("GOING_UP", "BUFFERING")
  /\ conn' = "connecting" /\ nonblock' = TRUE
  /\ UNCHANGED <<origin, m_outputBuffer, call, room, inData, arrived, history,
                 pending>>

\* The accepting constructor; nothing sets O_NONBLOCK on the new descriptor.
Accept ==
  /\ Unborn("accept")
  /\ Register("IDLE", "IDLE")
  /\ conn' = "up" /\ nonblock' = InheritsNonblock
  /\ calls' = Append(calls, "connectionEstablished")
  /\ UNCHANGED <<origin, m_outputBuffer, call, room, inData, arrived, wire,
                 offered, dropped, ended, faults, pending>>

\* createEndpoint returns 0: the constructor closes the descriptor and deletes.
AcceptRejected ==
  /\ Unborn("accept")
  /\ Destroy(<<>>, "rejected", {})
  /\ UNCHANGED <<wire, room, dropped>>

\* connectUnix fails: close(true) deletes the socket, and connectUnix deletes it
\* once more.  UnixSocket::socket leaves a descriptor it could not set up open,
\* so close(true) is the first to close it.
UnixFails ==
  /\ Unborn("connect")
  /\ \/ Destroy(<<>>, "no descriptor", {"deleted twice"})
     \/ Destroy(Told("connectionClosed"), "refused", {"deleted twice"})
  /\ UNCHANGED <<wire, room, dropped>>

\* createEndpoint returns 0 to the accepting constructor of UnixSocket, which
\* calls connectionEstablished of it all the same; the program ends there.
UnixRejected ==
  /\ Unborn("accept")
  /\ Destroy(<<>>, "rejected", {"null endpoint"})
  /\ UNCHANGED <<wire, room, dropped>>

-----------------------------------------------------------------------------
(* TcpSocket::send *)

Offer(n) ==
  /\ Running
  /\ offered + n <= MaxOffered
  /\ offered' = offered + n

NewBytes(n) == Bytes(offered, offered + n)

\* BUFFERING or GOING_UP: the bytes join the buffer.
SendQueues(n) ==
  /\ Offer(n)
  /\ m_state \in {"BUFFERING", "GOING_UP"}
  /\ m_outputBuffer' = m_outputBuffer \o NewBytes(n)
  /\ UNCHANGED <<obj, origin, m_state, m_ioSocketState, registered, call,
                 kernel, wire, dropped, calls, ended, faults, pending>>

\* IDLE and the kernel takes everything.
SendDirect(n) ==
  /\ Offer(n)
  /\ m_state = "IDLE" /\ Connected /\ n <= room
  /\ wire' = wire \o NewBytes(n) /\ room' = room - n
  /\ UNCHANGED <<object, call, conn, nonblock, inData, arrived, dropped, calls,
                 ended, faults, pending>>

\* Mutant: POLLOUT is not asked for.
SendBuffersUnpolled(n) ==
  /\ Offer(n)
  /\ m_state = "IDLE" /\ Connected /\ nonblock /\ room < n
  /\ wire' = wire \o Take(NewBytes(n), room) /\ room' = 0
  /\ m_outputBuffer' = m_outputBuffer \o Drop(NewBytes(n), room)
  /\ m_state' = "BUFFERING"
  /\ UNCHANGED <<obj, origin, m_ioSocketState, registered, call, conn, nonblock,
                 inData, arrived, dropped, calls, ended, faults, pending>>

\* IDLE, non-blocking, and the kernel takes a part, or nothing (EAGAIN).
SendBuffers(n) ==
  /\ Offer(n)
  /\ m_state = "IDLE" /\ Connected /\ nonblock /\ room < n
  /\ wire' = wire \o Take(NewBytes(n), room) /\ room' = 0
  /\ m_outputBuffer' = m_outputBuffer \o Drop(NewBytes(n), room)
  /\ m_state' = "BUFFERING" /\ m_ioSocketState' = "BUFFERING"
  /\ UNCHANGED <<obj, origin, registered, call, conn, nonblock, inData,
                 arrived, dropped, calls, ended, faults, pending>>

\* IDLE and a hard error: the bytes are dropped, the error is consumed.
SendFails(n) ==
  /\ Offer(n)
  /\ m_state = "IDLE" /\ Broken
  /\ dropped' = TRUE /\ conn' = "dead"
  /\ UNCHANGED <<object, call, nonblock, room, inData, arrived, wire, calls,
                 ended, faults, pending>>

\* IDLE, blocking mode, too little room: the thread stops in ::send.
SendBlocks(n) ==
  /\ Offer(n)
  /\ m_state = "IDLE" /\ Connected /\ ~nonblock /\ room < n
  /\ wire' = wire \o Take(NewBytes(n), room) /\ room' = 0
  /\ caller' = "send" /\ arg' = Drop(NewBytes(n), room) /\ done' = room
  /\ UNCHANGED <<object, conn, nonblock, inData, arrived, dropped, calls,
                 ended, faults, pending>>

Send(n) == \/ SendQueues(n) \/ SendDirect(n) \/ SendBuffers(n)
           \/ SendFails(n) \/ SendBlocks(n)

\* The peer made room for a suspended ::send.
BlockedSendTakes ==
  /\ caller # "none" /\ Connected /\ room > 0 /\ arg # <<>>
  /\ LET k == Least(room, Len(arg)) IN
       /\ wire' = wire \o Take(arg, k) /\ room' = room - k
       /\ arg' = Drop(arg, k) /\ done' = done + k
  /\ UNCHANGED <<object, caller, conn, nonblock, inData, arrived, offered,
                 dropped, calls, ended, faults, pending>>

Interrupted == Signals \/ Broken

Returned == caller' = "none" /\ arg' = <<>> /\ done' = 0

\* All was taken: send() returns.
SendResumes ==
  /\ caller = "send" /\ arg = <<>>
  /\ Returned
  /\ UNCHANGED <<object, kernel, history, pending>>

\* A part was taken, or nothing and EINTR: the rest is buffered.
SendCutShort ==
  /\ caller = "send" /\ arg # <<>>
  /\ IF done > 0 THEN Interrupted ELSE Signals
  /\ m_outputBuffer' = m_outputBuffer \o arg
  /\ m_state' = "BUFFERING" /\ m_ioSocketState' = "BUFFERING"
  /\ Returned
  /\ UNCHANGED <<obj, origin, registered, kernel, history, pending>>

\* The connection broke with nothing taken: the bytes are dropped.
SendBreaks ==
  /\ caller = "send" /\ arg # <<>> /\ done = 0 /\ Broken
  /\ dropped' = TRUE /\ conn' = "dead"
  /\ Returned
  /\ UNCHANGED <<object, nonblock, room, inData, arrived, wire, offered, calls,
                 ended, faults, pending>>

-----------------------------------------------------------------------------
(* TcpSocket::close *)

\* Mutant: every state defers.
CloseDefersAlways ==
  /\ Running
  /\ m_state' = "GOING_DOWN"
  /\ UNCHANGED <<obj, origin, m_ioSocketState, m_outputBuffer, registered, call,
                 kernel, history, pending>>

\* Mutant: the closing socket is not polled for POLLOUT any more.
CloseDefersUnpolled ==
  /\ Running /\ m_state = "BUFFERING"
  /\ m_state' = "GOING_DOWN" /\ m_ioSocketState' = "IDLE"
  /\ UNCHANGED <<obj, origin, m_outputBuffer, registered, call, kernel, history,
                 pending>>

\* BUFFERING and not forced: flush first.
CloseDefers ==
  /\ Running /\ m_state = "BUFFERING"
  /\ m_state' = "GOING_DOWN"
  /\ UNCHANGED <<obj, origin, m_ioSocketState, m_outputBuffer, registered, call,
                 kernel, history, pending>>

\* Every other close tears the connection down at once.
CloseNow(force) ==
  /\ Running /\ (m_state = "BUFFERING" => force)
  /\ Destroy(Told(IF m_state = "BUFFERING" THEN "connectionLost"
                                           ELSE "connectionClosed"),
             IF force THEN "forced" ELSE "closed", {})
  /\ UNCHANGED <<wire, room, dropped>>

Close == CloseDefers \/ \E force \in BOOLEAN : CloseNow(force)

-----------------------------------------------------------------------------
(* The event loop's side: poll() and the three handlers.                   *)

Readable == inData > 0 \/ conn = "eof" \/ Broken
Writable == (Connected /\ room > 0) \/ Broken

Revents ==
  { e \in Events : \/ e = "ERR" /\ conn = "reset"
                   \/ e = "OUT" /\ m_ioSocketState = "BUFFERING" /\ Writable
                   \/ e = "IN" /\ m_ioSocketState \in {"IDLE", "BUFFERING"} /\ Readable }

\* waitForEventsAndProcess builds the pollfd of this socket and polls.
Poll ==
  /\ Running /\ registered /\ pending = {} /\ Revents # {}
  /\ pending' = Revents
  /\ UNCHANGED <<object, call, kernel, history>>

\* Mutant: the factory is forgotten.
PollErrorKeepsEndpoint ==
  /\ Running /\ "ERR" \in pending
  /\ Destroy(<<"connectionLost">>, "lost", {})
  /\ UNCHANGED <<wire, room, dropped>>

PollError ==
  /\ Running /\ "ERR" \in pending
  /\ Destroy(Told("connectionLost"), "lost", {})
  /\ UNCHANGED <<wire, room, dropped>>

DispatchesOut == Running /\ "OUT" \in pending /\ "ERR" \notin pending

\* Mutant: output queued while connecting is not polled for.
PollWriteEstablishesIdle ==
  /\ DispatchesOut /\ m_state = "GOING_UP"
  /\ m_state' = (IF m_outputBuffer # <<>> THEN "BUFFERING" ELSE "IDLE")
  /\ m_ioSocketState' = "IDLE"
  /\ calls' = Append(calls, "connectionEstablished")
  /\ pending' = pending \ {"OUT"}
  /\ UNCHANGED <<obj, origin, m_outputBuffer, registered, call, kernel, wire,
                 offered, dropped, ended, faults>>

\* pollWrite in GOING_UP: the connection stands.
PollWriteEstablishes ==
  /\ DispatchesOut /\ m_state = "GOING_UP"
  /\ LET more == m_outputBuffer # <<>> IN
       /\ m_state' = (IF more THEN "BUFFERING" ELSE "IDLE")
       /\ m_ioSocketState' = (IF more THEN "BUFFERING" ELSE "IDLE")
  /\ calls' = Append(calls, "connectionEstablished")
  /\ pending' = pending \ {"OUT"}
  /\ UNCHANGED <<obj, origin, m_outputBuffer, registered, call, kernel, wire,
                 offered, dropped, ended, faults>>

Writes == DispatchesOut /\ m_state # "GOING_UP"

\* EAGAIN: the room poll() saw is gone.
PollWriteWaits ==
  /\ Writes /\ Connected /\ nonblock /\ room = 0
  /\ pending' = pending \ {"OUT"}
  /\ UNCHANGED <<object, call, kernel, history>>

\* Mutant: the bytes written are not erased.
KeepAll(sent) ==
  /\ sent < Len(m_outputBuffer)
  /\ pending' = pending \ {"OUT"}
  /\ Returned
  /\ UNCHANGED <<obj, origin, m_state, m_ioSocketState, m_outputBuffer,
                 registered, conn, nonblock, inData, arrived, offered, calls,
                 ended, faults>>

\* ::send took `sent' > 0 bytes; part of the buffer is left.
KeepRest(sent) ==
  /\ sent < Len(m_outputBuffer)
  /\ m_outputBuffer' = Drop(m_outputBuffer, sent)
  /\ pending' = pending \ {"OUT"}
  /\ Returned
  /\ UNCHANGED <<obj, origin, m_state, m_ioSocketState, registered, conn,
                 nonblock, inData, arrived, offered, calls, ended, faults>>

\* Mutant: POLLOUT stays asked for.
GoIdlePolled(sent) ==
  /\ sent = Len(m_outputBuffer) /\ m_state # "GOING_DOWN"
  /\ m_outputBuffer' = Drop(m_outputBuffer, sent)
  /\ m_state' = "IDLE"
  /\ pending' = pending \ {"OUT"}
  /\ Returned
  /\ UNCHANGED <<obj, origin, m_ioSocketState, registered, conn, nonblock,
                 inData, arrived, offered, calls, ended, faults>>

\* The buffer is empty: back to IDLE.
GoIdle(sent) ==
  /\ sent = Len(m_outputBuffer) /\ m_state # "GOING_DOWN"
  /\ m_outputBuffer' = Drop(m_outputBuffer, sent)
  /\ m_state' = "IDLE" /\ m_ioSocketState' = "IDLE"
  /\ pending' = pending \ {"OUT"}
  /\ Returned
  /\ UNCHANGED <<obj, origin, registered, conn, nonblock, inData, arrived,
                 offered, calls, ended, faults>>

\* The buffer is empty in GOING_DOWN.  m_socket keeps its number, so the
\* destructor calls close() again: a second ::close, connectionClosed,
\* destroyEndpoint and `delete this'; the endpoint was destroyed before the
\* first connectionClosed.
FinishClosing(sent) ==
  /\ sent = Len(m_outputBuffer) /\ m_state = "GOING_DOWN"
  /\ IF origin = "accept"
     THEN Destroy(<<"destroyEndpoint", "connectionClosed",
                    "connectionClosed", "destroyEndpoint">>, "flushed", Twice)
     ELSE Destroy(<<"connectionClosed", "connectionClosed">>, "flushed",
                  Twice \ {"told after destroy"})

Erase(sent) == KeepRest(sent) \/ GoIdle(sent) \/ FinishClosing(sent)

PollWriteSends ==
  /\ Writes /\ Connected /\ room > 0
  /\ nonblock \/ Len(m_outputBuffer) <= room
  /\ LET sent == Least(room, Len(m_outputBuffer)) IN
       /\ wire' = wire \o Take(m_outputBuffer, sent) /\ room' = room - sent
       /\ Erase(sent)
  /\ UNCHANGED dropped

PollWriteBlocks ==
  /\ Writes /\ Connected /\ ~nonblock /\ room < Len(m_outputBuffer)
  /\ wire' = wire \o Take(m_outputBuffer, room) /\ room' = 0
  /\ caller' = "pollWrite" /\ arg' = Drop(m_outputBuffer, room) /\ done' = room
  /\ UNCHANGED <<object, conn, nonblock, inData, arrived, offered, dropped,
                 calls, ended, faults, pending>>

\* A suspended pollWrite got something through.
PollWriteResumes ==
  /\ caller = "pollWrite" /\ done > 0 /\ (arg = <<>> \/ Interrupted)
  /\ Erase(done)
  /\ UNCHANGED <<wire, room, dropped>>

\* Mutant: EAGAIN is taken for a failure.
PollWriteFailsOnWait ==
  /\ \/ Writes /\ (Broken \/ room = 0)
     \/ caller = "pollWrite" /\ done = 0 /\ Interrupted
  /\ Destroy(Told("connectionLost"), "lost", {})
  /\ UNCHANGED <<wire, room, dropped>>

\* ::send fails: a broken connection, or EINTR in a suspended ::send, which
\* this branch does not tell from one.
PollWriteFails ==
  /\ \/ Writes /\ Broken
     \/ caller = "pollWrite" /\ done = 0 /\ Interrupted
  /\ Destroy(Told("connectionLost"), "lost", {})
  /\ UNCHANGED <<wire, room, dropped>>

PollWrite == \/ PollWriteEstablishes \/ PollWriteWaits \/ PollWriteSends
             \/ PollWriteBlocks \/ PollWriteFails

\* Mutant: POLLIN comes before POLLOUT.
DispatchesInFirst == Running /\ "IN" \in pending /\ "ERR" \notin pending

DispatchesIn == Running /\ pending = {"IN"}

\* recv returns data: dataRead (repeats are recorded once).
PollReadData ==
  /\ DispatchesIn /\ inData > 0
  /\ inData' = inData - 1 /\ pending' = {}
  /\ calls' = (IF calls # <<>> /\ calls[Len(calls)] = "dataRead"
               THEN calls ELSE Append(calls, "dataRead"))
  /\ UNCHANGED <<object, call, conn, nonblock, room, arrived, wire, offered,
                 dropped, ended, faults>>

\* Mutant: a read of 0 is an orderly close whatever is still buffered.
PollReadEndsQuietly ==
  /\ DispatchesIn /\ inData = 0 /\ conn # "up"
  /\ IF conn # "reset"
     THEN Destroy(Told("connectionClosed"), "eof", {})
     ELSE Destroy(Told("connectionLost"), "lost", {})
  /\ UNCHANGED <<wire, room, dropped>>

\* Mutant: `read < 0' instead of `read <= 0'.
PollReadEndsOnError ==
  /\ DispatchesIn /\ inData = 0 /\ conn = "reset"
  /\ Destroy(Told("connectionLost"), "lost", {})
  /\ UNCHANGED <<wire, room, dropped>>

\* recv returns 0 or an error.
PollReadEnds ==
  /\ DispatchesIn /\ inData = 0 /\ conn # "up"
  /\ IF conn # "reset" /\ m_state = "IDLE"
     THEN Destroy(Told("connectionClosed"), "eof", {})
     ELSE Destroy(Told("connectionLost"), "lost", {})
  /\ UNCHANGED <<wire, room, dropped>>

PollRead == PollReadData \/ PollReadEnds

-----------------------------------------------------------------------------
(* The kernel and the peer, as far as the code depends on them.            *)

Kernel(c) == conn' = c /\ UNCHANGED <<object, call, nonblock, room, inData,
                                      arrived, history, pending>>

ConnectEnds  == conn = "connecting" /\ (Kernel("up") \/ Kernel("reset"))
PeerCloses   == conn = "up" /\ Kernel("eof")
PeerResets   == Connected /\ Kernel("reset")

PeerSends ==
  /\ conn = "up" /\ arrived < MaxIn
  /\ inData' = inData + 1 /\ arrived' = arrived + 1
  /\ UNCHANGED <<object, call, conn, nonblock, room, history, pending>>

PeerReads ==
  /\ Connected /\ room < SockBuf
  /\ room' = room + 1
  /\ UNCHANGED <<object, call, conn, nonblock, inData, arrived, history, pending>>

\* Memory pressure shrinks a send buffer in use, also between poll() and ::send.
MemoryShort ==
  /\ Pressure /\ Connected /\ 0 < room /\ room < SockBuf
  /\ room' = 0
  /\ UNCHANGED <<object, call, conn, nonblock, inData, arrived, history, pending>>

-----------------------------------------------------------------------------
Create == \/ NoDescriptor \/ SetupFails \/ ConnectRefused \/ ConnectAtOnce
          \/ ConnectInProgress \/ Accept \/ AcceptRejected
          \/ UnixFails \/ UnixRejected

Resume == \/ BlockedSendTakes \/ SendResumes \/ SendCutShort \/ SendBreaks
          \/ PollWriteResumes

Endpoint == Close \/ \E n \in 1 .. MaxChunk : Send(n)

Loop == Poll \/ PollError \/ PollWrite \/ PollRead

Environment == \/ ConnectEnds \/ PeerCloses \/ PeerResets \/ PeerSends
               \/ PeerReads \/ MemoryShort

\* A deleted socket stays deleted.
Done == obj = "deleted" /\ UNCHANGED vars

Next == Create \/ Endpoint \/ Loop \/ Resume \/ Environment \/ Done

Safe == Init /\ [][Next]_vars

\* The program calls waitForEventsAndProcess for ever, a suspended ::send goes
\* on when it can, and TCP ends every connection attempt.
Fairness == WF_vars(Loop) /\ WF_vars(Resume) /\ WF_vars(ConnectEnds)

Spec == Safe /\ Fairness

\* The peer need not go on reading and the kernel may stay short of memory;
\* some promises are conditional on the first and on an end of the second.
PeerGoesOnReading == WF_vars(PeerReads) /\ <>[][~MemoryShort]_vars
-----------------------------------------------------------------------------
(* Properties. *)

\* Every variable keeps its type.
TypeOK ==
  /\ obj \in {"unborn", "live", "deleted"} /\ origin \in Origins
  /\ m_state \in States /\ m_ioSocketState \in {"IGNORE", "IDLE", "BUFFERING"}
  /\ m_outputBuffer \in Seq(Nat) /\ registered \in BOOLEAN
  /\ caller \in {"none", "send", "pollWrite"} /\ arg \in Seq(Nat) /\ done \in Nat
  /\ conn \in Conns /\ nonblock \in BOOLEAN /\ room \in 0 .. SockBuf
  /\ inData \in Nat /\ arrived \in 0 .. MaxIn
  /\ wire \in Seq(Nat) /\ offered \in 0 .. MaxOffered /\ dropped \in BOOLEAN
  /\ calls \in Seq(Calls) /\ ended \in Causes /\ faults \subseteq Faults
  /\ pending \subseteq Events

\* A live socket is registered with an open descriptor, polls for POLLOUT
\* exactly when pollWrite has something to do for it, and holds output exactly
\* when it is BUFFERING or GOING_DOWN (the assertion in TcpSocket.cpp:333 is
\* the IDLE half): no buffered byte waits for an event nobody asked for.
PollMaskMatchesState ==
  obj = "live" =>
    /\ registered /\ conn # "none"
    /\ m_state \in {"GOING_UP", "IDLE", "BUFFERING", "GOING_DOWN"}
    /\ m_ioSocketState = (IF m_state = "IDLE" THEN "IDLE" ELSE "BUFFERING")
    /\ m_state = "IDLE" => m_outputBuffer = <<>>
    /\ m_state \in {"BUFFERING", "GOING_DOWN"} => m_outputBuffer # <<>>

\* The bytes not yet with the kernel: the suspended ::send holds them all.
Unsent == IF caller = "none" THEN m_outputBuffer ELSE arg

\* The bytes of s are those numbered base + 1, base + 2, ...
Numbered(s, base) == \A i \in 1 .. Len(s) : s[i] = base + i

\* Bytes reach the wire in the order they were passed to send(), none missing
\* before, twice or after another; what is buffered continues the wire; and
\* as long as no send() failed, wire and buffer together hold every byte.
StreamInOrder ==
  /\ Numbered(wire, 0)
  /\ obj = "live" =>
       /\ Numbered(Unsent, Len(wire))
       /\ Len(wire) + Len(Unsent) <= offered
       /\ ~dropped => Len(wire) + Len(Unsent) = offered

\* An end that tells the endpoint connectionClosed after a flush or the peer's
\* close leaves nothing behind, unless a send() had already failed.
QuietEndLosesNothing ==
  ended \in {"flushed", "eof"} /\ ~dropped => Len(wire) = offered

\* The endpoint hears connectionEstablished at most once and before any data,
\* whatever order connect, data and a reset come in (the assertion in
\* TcpSocket.cpp:321), and exactly one outcome, as the last thing but its own destruction by the
\* factory that made it.  Exempt: the flush of FinishClosing.
EndpointProtocol ==
  LET At(c) == {i \in 1 .. Len(calls) : calls[i] = c}
      outcomes == At("connectionClosed") \cup At("connectionLost")
      last == IF origin = "accept" THEN Len(calls) - 1 ELSE Len(calls)
  IN ended # "flushed" =>
       /\ At("connectionEstablished") \subseteq {1}
       /\ \A i \in At("dataRead") : i = 2 /\ calls[1] = "connectionEstablished"
       /\ outcomes = (IF ended \in {"no", "no descriptor", "rejected"}
                       THEN {} ELSE {last})
       /\ At("destroyEndpoint") =
            (IF origin = "accept" /\ ended \notin {"no", "rejected"}
             THEN {Len(calls)} ELSE {})

\* A POLLOUT is only dispatched to a socket that has a connection attempt to
\* finish or output to write (the assertion in TcpSocket.cpp:400).
WriteAssertion ==
  "OUT" \in pending => m_state \in {"GOING_UP", "BUFFERING", "GOING_DOWN"}

\* A connection is only given up for lost when it is, or may be, broken, or a
\* signal interrupted a pollWrite that was suspended in ::send: EWOULDBLOCK and
\* EAGAIN are no reason.
LossNeedsCause ==
  [][ended = "no" /\ ended' = "lost" =>
       conn \in {"eof", "reset", "dead"} \/ caller = "pollWrite"]_vars

\* A socket in GOING_DOWN is left by a finished flush, a loss, or a close() of
\* the endpoint, and never goes back to taking new output.
GoingDownIsFinal ==
  [][m_state = "GOING_DOWN" => m_state' \in {"GOING_DOWN", "DOWN"}]_vars

\* A connection that is reset ends the socket, and so does the peer's close
\* unless the descriptor can block: in particular the send() that swallowed
\* the error does not leave a stale socket behind (the TODO in
\* TcpSocket.cpp:287).
PeerGoneIsNoticed ==
  (obj = "live" /\ (Broken \/ (conn = "eof" /\ nonblock))) ~> (obj = "deleted")

\* Buffered output is written, or the socket ends, if the peer goes on reading.
BufferedIsWritten ==
  PeerGoesOnReading =>
    ((obj = "live" /\ Unsent # <<>> /\ m_state # "GOING_UP") ~> (Unsent = <<>>))

\* What the socket promises, by the abstract connection.
Phase == CASE obj = "unborn"  -> "new"
           [] obj = "deleted" -> "over"
           [] m_state = "GOING_UP"   -> "opening"
           [] m_state = "GOING_DOWN" -> "closing"
           [] OTHER -> "open"

Abstract == INSTANCE Connection WITH phase <- Phase, sent <- Len(wire)

AbstractSafe == Abstract!Safe
AbstractLive == Abstract!Resolves /\ (PeerGoesOnReading => Abstract!Closes)

(* What the code claims of itself and does not keep. *)

\* Network.hpp:103: the flushed socket closes, once.
ClosesOnce == [][m_state = "GOING_DOWN" => faults' = faults]_vars
=============================================================================
