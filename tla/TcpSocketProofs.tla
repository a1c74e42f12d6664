--------------------------- MODULE TcpSocketProofs ---------------------------
(***************************************************************************)
(* Theorems about TcpSocket for every value of its constants: the type     *)
(* invariant, the poll mask, the order of the byte stream, the quiet ends, *)
(* the assertion of pollWrite, and the abstract connection.  They are      *)
(* conjuncts, or consequences, of one inductive invariant, IInv; what the  *)
(* endpoint is told and why follows from a second one, Heard, on top.      *)
(***************************************************************************)
EXTENDS TcpSocket, SequenceTheorems, TLAPS

-----------------------------------------------------------------------------
(* Sequences of bytes. *)

\* Dropping n bytes leaves the others, moved n places to the front.
LEMMA DropFacts ==
  ASSUME NEW s \in Seq(Nat), NEW n \in 0 .. Len(s)
  PROVE  /\ Drop(s, n) \in Seq(Nat)
         /\ Len(Drop(s, n)) = Len(s) - n
         /\ \A i \in 1 .. Len(s) - n : Drop(s, n)[i] = s[n + i]
<1>1. n + 1 \in 1 .. Len(s) + 1 /\ Len(s) \in 0 .. Len(s)
  BY LenProperties, SMT
<1>2. /\ Drop(s, n) \in Seq(Nat)
      /\ Len(Drop(s, n)) = IF n + 1 <= Len(s) THEN Len(s) - (n + 1) + 1 ELSE 0
      /\ \A i \in 1 .. Len(s) - (n + 1) + 1 : Drop(s, n)[i] = s[(n + 1) + i - 1]
  BY SMT DEF Drop
<1>3. Len(s) \in Nat /\ n \in Nat
  BY LenProperties, SMT
<1> QED BY <1>1, <1>2, <1>3, SMT

\* Taking n bytes leaves them where they are.
LEMMA TakeFacts ==
  ASSUME NEW s \in Seq(Nat), NEW n \in 0 .. Len(s)
  PROVE  /\ Take(s, n) \in Seq(Nat)
         /\ Len(Take(s, n)) = n
         /\ \A i \in 1 .. n : Take(s, n)[i] = s[i]
BY SMT DEF Take

\* A concatenation has the elements of the one, then those of the other.
LEMMA JoinFacts ==
  ASSUME NEW s \in Seq(Nat), NEW t \in Seq(Nat)
  PROVE  /\ s \o t \in Seq(Nat)
         /\ Len(s \o t) = Len(s) + Len(t)
         /\ \A i \in 1 .. Len(s) + Len(t) :
              (s \o t)[i] = IF i <= Len(s) THEN s[i] ELSE t[i - Len(s)]
BY SMT

\* What is left of numbered bytes is numbered on from those that went.
LEMMA DropNumbered ==
  ASSUME NEW s \in Seq(Nat), NEW n \in 0 .. Len(s), NEW base \in Nat,
         Numbered(s, base)
  PROVE  Numbered(Drop(s, n), base + n)
<1>1. Len(s) \in Nat /\ n \in Nat /\ n <= Len(s)
  BY LenProperties, SMT
<1>2. SUFFICES ASSUME NEW i \in 1 .. Len(s) - n
               PROVE  Drop(s, n)[i] = (base + n) + i
  BY DropFacts DEF Numbered
<1>3. n + i \in 1 .. Len(s)
  BY <1>1, SMT
<1>4. s[n + i] = base + (n + i)
  BY <1>3 DEF Numbered
<1>5. Drop(s, n)[i] = s[n + i]
  BY DropFacts
<1> QED BY <1>1, <1>4, <1>5, SMT

\* The bytes taken keep their numbers.
LEMMA TakeNumbered ==
  ASSUME NEW s \in Seq(Nat), NEW n \in 0 .. Len(s), NEW base \in Nat,
         Numbered(s, base)
  PROVE  Numbered(Take(s, n), base)
<1>1. Len(s) \in Nat /\ n \in Nat /\ n <= Len(s)
  BY LenProperties, SMT
<1>2. SUFFICES ASSUME NEW i \in 1 .. n PROVE Take(s, n)[i] = base + i
  BY TakeFacts DEF Numbered
<1>3. i \in 1 .. Len(s)
  BY <1>1, SMT
<1> QED BY <1>3, TakeFacts DEF Numbered

\* Bytes that continue the numbering can be appended.
LEMMA JoinNumbered ==
  ASSUME NEW s \in Seq(Nat), NEW t \in Seq(Nat), NEW base \in Nat,
         Numbered(s, base), Numbered(t, base + Len(s))
  PROVE  Numbered(s \o t, base)
<1>1. Len(s) \in Nat /\ Len(t) \in Nat
  BY LenProperties
<1>2. SUFFICES ASSUME NEW i \in 1 .. Len(s) + Len(t)
               PROVE  (s \o t)[i] = base + i
  BY JoinFacts DEF Numbered
<1>3. (s \o t)[i] = IF i <= Len(s) THEN s[i] ELSE t[i - Len(s)]
  BY JoinFacts
<1>4. CASE i <= Len(s)
  <2>1. i \in 1 .. Len(s)
    BY <1>1, <1>4, SMT
  <2> QED BY <1>3, <1>4, <2>1 DEF Numbered
<1>5. CASE ~(i <= Len(s))
  <2>1. i - Len(s) \in 1 .. Len(t)
    BY <1>1, <1>5, SMT
  <2>2. t[i - Len(s)] = (base + Len(s)) + (i - Len(s))
    BY <2>1 DEF Numbered
  <2>3. (base + Len(s)) + (i - Len(s)) = base + i
    BY <1>1, SMT
  <2> QED BY <1>3, <1>5, <2>2, <2>3
<1> QED BY <1>4, <1>5

\* The bytes of one send() are numbered on from those offered before.
LEMMA NewBytesFacts ==
  ASSUME NEW n \in Nat, offered \in Nat
  PROVE  /\ NewBytes(n) \in Seq(Nat)
         /\ Len(NewBytes(n)) = n
         /\ Numbered(NewBytes(n), offered)
<1>1. NewBytes(n) = [i \in 1 .. n |-> offered + i]
  BY SMT DEF NewBytes, Bytes
<1>2. [i \in 1 .. n |-> offered + i] \in [1 .. n -> Nat]
  BY SMT
<1>3. NewBytes(n) \in Seq(Nat) /\ Len(NewBytes(n)) = n
  BY <1>1, <1>2, SMT
<1> QED BY <1>1, <1>3 DEF Numbered

\* The kernel takes k bytes off the front of what continues the wire.
LEMMA WireGrows ==
  ASSUME NEW w \in Seq(Nat), NEW s \in Seq(Nat), NEW k \in 0 .. Len(s),
         Numbered(w, 0), Numbered(s, Len(w))
  PROVE  /\ w \o Take(s, k) \in Seq(Nat)
         /\ Len(w \o Take(s, k)) = Len(w) + k
         /\ Numbered(w \o Take(s, k), 0)
         /\ Drop(s, k) \in Seq(Nat)
         /\ Len(Drop(s, k)) = Len(s) - k
         /\ Numbered(Drop(s, k), Len(w) + k)
<1>1. Len(w) \in Nat /\ 0 + Len(w) = Len(w)
  BY LenProperties, SMT
<1>2. Take(s, k) \in Seq(Nat) /\ Len(Take(s, k)) = k /\ Numbered(Take(s, k), Len(w))
  BY <1>1, TakeFacts, TakeNumbered
<1>3. Drop(s, k) \in Seq(Nat) /\ Len(Drop(s, k)) = Len(s) - k
      /\ Numbered(Drop(s, k), Len(w) + k)
  BY <1>1, DropFacts, DropNumbered
<1> HIDE DEF Take
<1>4. /\ w \o Take(s, k) \in Seq(Nat)
      /\ Len(w \o Take(s, k)) = Len(w) + Len(Take(s, k))
  BY <1>2, JoinFacts
<1>5. Numbered(w \o Take(s, k), 0)
  BY <1>1, <1>2, JoinNumbered
<1> QED BY <1>2, <1>3, <1>4, <1>5

\* One more callback in the log of callbacks.
LEMMA LogGrows ==
  ASSUME NEW log \in Seq(Calls), NEW c \in Calls
  PROVE  Append(log, c) \in Seq(Calls)
BY AppendProperties

\* What an endpoint is told at the end is a log of callbacks.
LEMMA ToldIsALog ==
  /\ <<>> \in Seq(Calls)
  /\ \A outcome \in Outcomes : Told(outcome) \in Seq(Calls)
  /\ <<"connectionClosed", "connectionClosed">> \in Seq(Calls)
  /\ <<"destroyEndpoint", "connectionClosed",
       "connectionClosed", "destroyEndpoint">> \in Seq(Calls)
<1>1. <<>> \in Seq(Calls)
  BY EmptySeq
<1>2. ASSUME NEW a \in Calls PROVE <<a>> \in Seq(Calls)
  BY SMT
<1>3. ASSUME NEW a \in Calls, NEW b \in Calls PROVE <<a, b>> \in Seq(Calls)
  BY SMT
<1>4. ASSUME NEW a \in Calls, NEW b \in Calls PROVE <<a, b, b, a>> \in Seq(Calls)
  BY SMT
<1>5. Outcomes \subseteq Calls /\ "destroyEndpoint" \in Calls
      /\ "connectionClosed" \in Calls
  BY DEF Calls, Outcomes
<1> HIDE DEF Calls, Outcomes
<1>6. \A outcome \in Outcomes : Told(outcome) \in Seq(Calls)
  BY <1>2, <1>3, <1>5 DEF Told
<1> QED BY <1>1, <1>3, <1>4, <1>5, <1>6

-----------------------------------------------------------------------------
(* The inductive invariant. *)

\* Before the constructor has run, nothing has happened.
UnbornIsFresh ==
  obj = "unborn" =>
    /\ m_state = "UNINITIALIZED" /\ m_outputBuffer = <<>>
    /\ caller = "none" /\ conn = "none" /\ pending = {}
    /\ wire = <<>> /\ offered = 0 /\ ~dropped

\* After `delete this', nothing is left to happen.
DeletedIsStill ==
  obj = "deleted" => caller = "none" /\ conn = "none" /\ pending = {}
                     /\ m_state = "DOWN"

\* Only a deleted socket has an end.
EndedMeansDeleted == obj # "deleted" => ended = "no"

\* A suspended ::send is that of send() in IDLE, or that of pollWrite on the
\* buffer: it has taken `done' bytes from its front and holds the others.
SuspendedCall ==
  /\ caller = "send" => m_state = "IDLE"
  /\ caller = "pollWrite" =>
       /\ m_state \in {"BUFFERING", "GOING_DOWN"}
       /\ Len(m_outputBuffer) = done + Len(arg)
       /\ \A i \in 1 .. Len(arg) : m_outputBuffer[done + i] = arg[i]

\* A send() that failed leaves an idle socket on a connection that is dead.
DroppedIsDead ==
  obj = "live" /\ dropped =>
    conn = "dead" /\ m_state = "IDLE" /\ caller = "none"

Inv1 == TypeOK /\ PollMaskMatchesState /\ StreamInOrder /\ QuietEndLosesNothing

Inv2 == /\ UnbornIsFresh /\ DeletedIsStill /\ EndedMeansDeleted
        /\ SuspendedCall /\ DroppedIsDead /\ WriteAssertion

IInv == Inv1 /\ Inv2

-----------------------------------------------------------------------------
(* Every step keeps the invariant. *)

\* A deleted socket satisfies the invariant, whatever the way it went.
LEMMA DestroyStep ==
  ASSUME IInv,
         NEW log \in Seq(Calls), NEW cause \in Causes, NEW bad \in SUBSET Faults,
         Destroy(log, cause, bad),
         wire' \in Seq(Nat), Numbered(wire', 0),
         room' \in 0 .. SockBuf, dropped' \in BOOLEAN,
         cause \in {"flushed", "eof"} /\ ~dropped' => Len(wire') = offered
  PROVE  IInv'
<1>1. TypeOK'
  <2>1. calls' \in Seq(Calls)
    BY ConcatProperties DEF IInv, Inv1, TypeOK, Destroy
  <2>2. faults' \subseteq Faults /\ ended' \in Causes /\ pending' \subseteq Events
    BY DEF IInv, Inv1, TypeOK, Destroy
  <2>3. obj' = "deleted" /\ m_state' \in States /\ m_ioSocketState' = "IGNORE"
        /\ registered' \in BOOLEAN /\ caller' = "none" /\ conn' \in Conns
    BY DEF Destroy, States, Conns
  <2>4. m_outputBuffer' \in Seq(Nat) /\ arg' \in Seq(Nat) /\ done' \in Nat
    BY SMT DEF Destroy
  <2>5. UNCHANGED <<origin, nonblock, inData, arrived, offered>>
    BY DEF Destroy
  <2> QED BY <2>1, <2>2, <2>3, <2>4, <2>5 DEF IInv, Inv1, TypeOK
<1>2. PollMaskMatchesState' /\ StreamInOrder' /\ QuietEndLosesNothing'
  BY SMT DEF Destroy, PollMaskMatchesState, StreamInOrder, QuietEndLosesNothing
<1>3. Inv2'
  BY SMT DEF Destroy, Inv2, UnbornIsFresh, DeletedIsStill, EndedMeansDeleted,
             SuspendedCall, DroppedIsDead, WriteAssertion
<1> QED BY <1>1, <1>2, <1>3 DEF IInv, Inv1

\* The same for the ends that touch neither the wire nor what was dropped.
LEMMA TearDownStep ==
  ASSUME IInv,
         NEW outcome \in Outcomes, NEW cause \in Causes \ {"flushed", "eof"},
         NEW bad \in SUBSET Faults,
         Destroy(Told(outcome), cause, bad) \/ Destroy(<<>>, cause, bad),
         UNCHANGED <<wire, room, dropped>>
  PROVE  IInv'
<1>1. Told(outcome) \in Seq(Calls) /\ <<>> \in Seq(Calls)
  BY ToldIsALog
<1>2. /\ wire' \in Seq(Nat) /\ Numbered(wire', 0)
      /\ room' \in 0 .. SockBuf /\ dropped' \in BOOLEAN
  BY DEF IInv, Inv1, TypeOK, StreamInOrder
<1> QED BY <1>1, <1>2, DestroyStep

\* What goes wrong in one way is a set of faults.
LEMMA FaultSets ==
  /\ {} \in SUBSET Faults /\ {"closed twice"} \in SUBSET Faults
  /\ {"deleted twice"} \in SUBSET Faults /\ {"null endpoint"} \in SUBSET Faults
BY DEF Faults, Twice

\* A socket comes to be.
LEMMA CreateStep ==
  ASSUME IInv, Create
  PROVE  IInv'
<1>1. CASE NoDescriptor
  BY <1>1, TearDownStep, FaultSets DEF NoDescriptor, Causes, Outcomes
<1>2. CASE SetupFails
  BY <1>2, TearDownStep, FaultSets DEF SetupFails, Causes, Outcomes
<1>3. CASE ConnectRefused
  BY <1>3, TearDownStep, FaultSets DEF ConnectRefused, Causes, Outcomes
<1>4. CASE AcceptRejected
  BY <1>4, TearDownStep, FaultSets DEF AcceptRejected, Causes, Outcomes
<1>6. CASE UnixFails
  BY <1>6, TearDownStep, FaultSets DEF UnixFails, Causes, Outcomes
<1>7. CASE UnixRejected
  BY <1>7, TearDownStep, FaultSets DEF UnixRejected, Causes, Outcomes
<1>5. CASE ConnectAtOnce \/ ConnectInProgress \/ Accept
  <2> USE <1>5 DEF ConnectAtOnce, ConnectInProgress, Accept, Unborn, Register
  <2>1. TypeOK'
    <3>1. calls' \in {calls, Append(calls, "connectionEstablished")}
      BY DEF history
    <3>2. calls' \in Seq(Calls)
      <4>1. "connectionEstablished" \in Calls BY DEF Calls
      <4>2. calls \in Seq(Calls) BY DEF IInv, Inv1, TypeOK
      <4> QED BY <3>1, <4>1, <4>2, LogGrows
    <3>3. nonblock' \in BOOLEAN
      BY BuildAssumption
    <3>4. /\ obj' = "live" /\ m_state' \in States
          /\ m_ioSocketState' \in {"IDLE", "BUFFERING"} /\ conn' \in Conns
          /\ registered' = TRUE
      BY DEF States, Conns
    <3>5. UNCHANGED <<origin, m_outputBuffer, call, room, inData, arrived, wire,
                      offered, dropped, ended, faults, pending>>
      BY DEF history
    <3> QED
      BY <3>2, <3>3, <3>4, <3>5, SMT DEF IInv, Inv1, TypeOK, call
  <2>2. PollMaskMatchesState' /\ StreamInOrder' /\ QuietEndLosesNothing'
    BY SMT DEF IInv, Inv1, Inv2, TypeOK, UnbornIsFresh, EndedMeansDeleted,
       PollMaskMatchesState, StreamInOrder, QuietEndLosesNothing, Unsent,
       Numbered, call, history
  <2>3. Inv2'
    BY SMT DEF IInv, Inv2, UnbornIsFresh, DeletedIsStill, EndedMeansDeleted,
       SuspendedCall, DroppedIsDead, WriteAssertion, call, history
  <2> QED BY <2>1, <2>2, <2>3 DEF IInv, Inv1
<1> QED BY <1>1, <1>2, <1>3, <1>4, <1>5, <1>6, <1>7 DEF Create

\* While the socket takes output and no send() has failed, the wire and the
\* buffer hold every byte offered.
LEMMA NothingMissing ==
  ASSUME IInv, obj = "live", conn # "dead" \/ m_state # "IDLE"
  PROVE  /\ ~dropped
         /\ Len(wire) + Len(Unsent) = offered
BY DEF IInv, Inv1, Inv2, DroppedIsDead, StreamInOrder

\* send() in a state that buffers.
LEMMA SendQueuesStep ==
  ASSUME IInv, NEW n \in Nat \ {0}, SendQueues(n)
  PROVE  IInv'
<1>1. /\ m_outputBuffer \in Seq(Nat) /\ Len(m_outputBuffer) \in Nat
      /\ wire \in Seq(Nat) /\ Len(wire) \in Nat
      /\ offered \in Nat /\ offered' = offered + n /\ offered' \in 0 .. MaxOffered
  BY BoundsAssumption, LenProperties, SMT
  DEF IInv, Inv1, TypeOK, SendQueues, Offer
<1>2. NewBytes(n) \in Seq(Nat) /\ Len(NewBytes(n)) = n /\ Numbered(NewBytes(n), offered)
  BY <1>1, NewBytesFacts
<1>3. /\ m_outputBuffer' \in Seq(Nat)
      /\ Len(m_outputBuffer') = Len(m_outputBuffer) + n
  BY <1>1, <1>2, JoinFacts DEF SendQueues
<1>4. ~dropped /\ Len(wire) + Len(m_outputBuffer) = offered
  BY NothingMissing DEF Unsent, SendQueues, Offer, Running
<1>5. Numbered(m_outputBuffer', Len(wire))
  BY <1>1, <1>2, <1>4, JoinNumbered
  DEF IInv, Inv1, StreamInOrder, Unsent, SendQueues, Offer, Running
<1>6. TypeOK'
  BY <1>1, <1>3 DEF IInv, Inv1, TypeOK, SendQueues, call, kernel
<1>7. PollMaskMatchesState'
  BY <1>1, <1>3, EmptySeq, SMT 
  DEF IInv, Inv1, PollMaskMatchesState, SendQueues, kernel
<1>8. StreamInOrder'
  <2>1. Len(wire) + Len(m_outputBuffer') = offered'
    <3>1. Len(wire) + (Len(m_outputBuffer) + n) = (Len(wire) + Len(m_outputBuffer)) + n
      BY <1>1, SMT
    <3> QED BY <1>1, <1>3, <1>4, <3>1, Zenon
  <2>2. Unsent' = m_outputBuffer' /\ UNCHANGED wire
    BY DEF Unsent, SendQueues, Offer, Running, call
  <2>3. Numbered(wire', 0) /\ Numbered(Unsent', Len(wire'))
    BY <1>5, <2>2 DEF IInv, Inv1, StreamInOrder
  <2> QED BY <2>1, <2>2, <2>3, <1>1, SMT DEF StreamInOrder
<1>9. QuietEndLosesNothing' /\ Inv2'
  BY SMT DEF IInv, Inv1, Inv2, QuietEndLosesNothing, UnbornIsFresh,
     DeletedIsStill, EndedMeansDeleted, SuspendedCall, DroppedIsDead,
     WriteAssertion, SendQueues, Offer, Running, call, kernel
<1> QED BY <1>6, <1>7, <1>8, <1>9 DEF IInv, Inv1

\* What is left to show of a step that a live socket survives.
LEMMA LiveStep ==
  ASSUME obj' = "live", ended' = "no", TypeOK', PollMaskMatchesState',
         StreamInOrder', SuspendedCall', DroppedIsDead', WriteAssertion'
  PROVE  IInv'
BY DEF IInv, Inv1, Inv2, QuietEndLosesNothing, UnbornIsFresh, DeletedIsStill,
       EndedMeansDeleted

\* What an idle send() on a standing connection starts from.
LEMMA IdleSend ==
  ASSUME IInv, NEW n \in Nat \ {0}, Offer(n), m_state = "IDLE", Connected
  PROVE  /\ obj = "live" /\ ended = "no" /\ caller = "none" /\ ~dropped
         /\ m_outputBuffer = <<>> /\ offered = Len(wire)
         /\ wire \in Seq(Nat) /\ Len(wire) \in Nat /\ room \in 0 .. SockBuf
         /\ Numbered(wire, 0)
         /\ NewBytes(n) \in Seq(Nat) /\ Len(NewBytes(n)) = n
         /\ Numbered(NewBytes(n), Len(wire))
         /\ offered' = Len(wire) + n /\ offered' \in 0 .. MaxOffered
<1>1. obj = "live" /\ ended = "no" /\ caller = "none"
  BY DEF Offer, Running, IInv, Inv2, EndedMeansDeleted
<1>2. m_outputBuffer = <<>> /\ Numbered(wire, 0)
  BY <1>1 DEF IInv, Inv1, PollMaskMatchesState, StreamInOrder
<1>3. conn # "dead"
  BY DEF Connected
<1>4. wire \in Seq(Nat) /\ Len(wire) \in Nat /\ room \in 0 .. SockBuf /\ offered \in Nat
  BY LenProperties, BoundsAssumption, SMT DEF IInv, Inv1, TypeOK
<1>5. ~dropped /\ Len(wire) + Len(<<>>) = offered
  BY <1>1, <1>2, <1>3, NothingMissing DEF Unsent
<1>6. offered = Len(wire)
  BY <1>4, <1>5, EmptySeq, SMT
<1>7. offered' = Len(wire) + n /\ offered' \in 0 .. MaxOffered
  BY <1>4, <1>6, BoundsAssumption, SMT DEF Offer
<1>8. NewBytes(n) \in Seq(Nat) /\ Len(NewBytes(n)) = n
      /\ Numbered(NewBytes(n), Len(wire))
  BY <1>4, <1>6, NewBytesFacts
<1> QED BY <1>1, <1>2, <1>4, <1>5, <1>6, <1>7, <1>8

\* No byte is left unsent.
LEMMA NothingUnsent ==
  ASSUME NEW w \in Seq(Nat), NEW base
  PROVE  Len(<<>>) = 0 /\ Numbered(<<>>, base) /\ Len(w) + Len(<<>>) = Len(w)
<1>1. Len(<<>>) = 0 /\ Len(w) \in Nat
  BY EmptySeq, LenProperties
<1>2. 1 .. 0 = {}
  BY SMT
<1> QED BY <1>1, <1>2, SMT DEF Numbered

\* send() in IDLE, and all of it goes out.
LEMMA SendDirectStep ==
  ASSUME IInv, NEW n \in Nat \ {0}, SendDirect(n)
  PROVE  IInv'
<1>0. Offer(n) /\ m_state = "IDLE" /\ Connected /\ n <= room
  BY DEF SendDirect
<1>1. /\ obj = "live" /\ ended = "no" /\ caller = "none" /\ ~dropped
      /\ m_outputBuffer = <<>> /\ offered = Len(wire)
      /\ wire \in Seq(Nat) /\ Len(wire) \in Nat /\ room \in 0 .. SockBuf
      /\ Numbered(wire, 0)
      /\ NewBytes(n) \in Seq(Nat) /\ Len(NewBytes(n)) = n
      /\ Numbered(NewBytes(n), Len(wire))
      /\ offered' = Len(wire) + n /\ offered' \in 0 .. MaxOffered
  BY <1>0, IdleSend
<1>2. /\ wire' \in Seq(Nat) /\ Len(wire') = offered'
  BY <1>1, JoinFacts DEF SendDirect
<1>3. Numbered(wire', 0)
  <2>1. 0 + Len(wire) = Len(wire)
    BY <1>1, SMT
  <2> QED BY <1>1, <2>1, JoinNumbered DEF SendDirect
<1>4. room' \in 0 .. SockBuf
  BY <1>0, <1>1, BoundsAssumption, SMT DEF SendDirect
<1>5. UNCHANGED <<object, call, conn, nonblock, inData, arrived, dropped, calls,
                  ended, faults, pending>>
  BY DEF SendDirect
<1>6. TypeOK'
  BY <1>1, <1>2, <1>4, <1>5 DEF IInv, Inv1, TypeOK, object, call
<1>7. PollMaskMatchesState' /\ SuspendedCall' /\ DroppedIsDead' /\ WriteAssertion'
  BY <1>1, <1>5
  DEF IInv, Inv1, Inv2, PollMaskMatchesState, SuspendedCall, DroppedIsDead,
      WriteAssertion, object, call
<1>8. StreamInOrder'
  <2>1. Unsent' = <<>>
    BY <1>1, <1>5 DEF Unsent, object, call
  <2>2. Numbered(Unsent', Len(wire')) /\ Len(wire') + Len(Unsent') = offered'
    BY <1>2, <2>1, NothingUnsent
  <2>3. offered' <= offered'
    BY <1>1, SMT
  <2> QED BY <1>3, <2>2, <2>3 DEF StreamInOrder
<1> QED BY <1>1, <1>5, <1>6, <1>7, <1>8, LiveStep DEF object

\* send() in IDLE, and `room' bytes of it go out: into the wire, and the rest
\* into the buffer or the suspended call.
LEMMA PartlySent ==
  ASSUME IInv, NEW n \in Nat \ {0}, Offer(n), m_state = "IDLE", Connected,
         room < n, wire' = wire \o Take(NewBytes(n), room)
  PROVE  LET rest == Drop(NewBytes(n), room) IN
           /\ wire' \in Seq(Nat) /\ Numbered(wire', 0)
           /\ rest \in Seq(Nat) /\ rest # <<>> /\ Numbered(rest, Len(wire'))
           /\ Len(wire') + Len(rest) = offered'
           /\ offered' \in 0 .. MaxOffered /\ room \in Nat /\ 0 \in 0 .. SockBuf
<1>1. /\ wire \in Seq(Nat) /\ Len(wire) \in Nat /\ room \in 0 .. SockBuf
      /\ Numbered(wire, 0)
      /\ NewBytes(n) \in Seq(Nat) /\ Len(NewBytes(n)) = n
      /\ Numbered(NewBytes(n), Len(wire))
      /\ offered' = Len(wire) + n /\ offered' \in 0 .. MaxOffered
  BY IdleSend
<1>2. room \in 0 .. Len(NewBytes(n)) /\ room \in Nat /\ 0 \in 0 .. SockBuf
  BY <1>1, BoundsAssumption, SMT
<1> DEFINE rest == Drop(NewBytes(n), room)
<1>3. /\ wire' \in Seq(Nat) /\ Len(wire') = Len(wire) + room /\ Numbered(wire', 0)
      /\ rest \in Seq(Nat) /\ Len(rest) = n - room /\ Numbered(rest, Len(wire) + room)
  <2>1. /\ wire \o Take(NewBytes(n), room) \in Seq(Nat)
        /\ Len(wire \o Take(NewBytes(n), room)) = Len(wire) + room
        /\ Numbered(wire \o Take(NewBytes(n), room), 0)
        /\ Drop(NewBytes(n), room) \in Seq(Nat)
        /\ Len(Drop(NewBytes(n), room)) = Len(NewBytes(n)) - room
        /\ Numbered(Drop(NewBytes(n), room), Len(wire) + room)
    <3>1. wire \in Seq(Nat) /\ NewBytes(n) \in Seq(Nat) /\ room \in 0 .. Len(NewBytes(n))
      BY <1>1, <1>2
    <3>2. Numbered(wire, 0) /\ Numbered(NewBytes(n), Len(wire))
      BY <1>1
    <3> HIDE DEF rest
    <3> QED BY <3>1, <3>2, WireGrows, Zenon
  <2>2. Len(NewBytes(n)) = n
    BY <1>1
  <2> QED BY <2>1, <2>2
<1> HIDE DEF rest
<1>4. Len(wire') + Len(rest) = offered'
  <2>1. (Len(wire) + room) + (n - room) = Len(wire) + n
    BY <1>1, <1>2, SMT
  <2> QED BY <1>1, <1>3, <2>1
<1>5. rest # <<>>
  <2>1. n - room # 0
    BY <1>2, SMT
  <2> QED BY <1>3, <2>1, EmptySeq
<1> QED BY <1>1, <1>2, <1>3, <1>4, <1>5 DEF rest

\* send() in IDLE, and the rest is buffered.
LEMMA SendBuffersStep ==
  ASSUME IInv, NEW n \in Nat \ {0}, SendBuffers(n)
  PROVE  IInv'
<1> DEFINE rest == Drop(NewBytes(n), room)
<1>0. /\ Offer(n) /\ m_state = "IDLE" /\ Connected /\ room < n
      /\ wire' = wire \o Take(NewBytes(n), room) /\ room' = 0
      /\ m_outputBuffer' = m_outputBuffer \o rest
      /\ m_state' = "BUFFERING" /\ m_ioSocketState' = "BUFFERING"
      /\ UNCHANGED <<obj, origin, registered, call, conn, nonblock, inData,
                     arrived, dropped, calls, ended, faults, pending>>
  BY DEF SendBuffers
<1>1. /\ obj = "live" /\ ended = "no" /\ caller = "none" /\ ~dropped
      /\ m_outputBuffer = <<>>
  BY <1>0, IdleSend
<1>2. /\ wire' \in Seq(Nat) /\ Numbered(wire', 0)
      /\ rest \in Seq(Nat) /\ rest # <<>> /\ Numbered(rest, Len(wire'))
      /\ Len(wire') + Len(rest) = offered'
      /\ offered' \in 0 .. MaxOffered /\ room \in Nat /\ 0 \in 0 .. SockBuf
  BY <1>0, PartlySent
<1> HIDE DEF rest
<1>3. m_outputBuffer' = rest
  BY <1>0, <1>1, <1>2, ConcatEmptySeq
<1>4. TypeOK'
  BY <1>0, <1>2, <1>3 DEF IInv, Inv1, TypeOK, States, call
<1>5. PollMaskMatchesState' /\ SuspendedCall' /\ DroppedIsDead' /\ WriteAssertion'
  BY <1>0, <1>1, <1>2, <1>3
  DEF IInv, Inv1, Inv2, PollMaskMatchesState, SuspendedCall, DroppedIsDead,
      WriteAssertion, call
<1>6. StreamInOrder'
  <2>1. Unsent' = rest
    BY <1>0, <1>1, <1>3 DEF Unsent, call
  <2>2. offered' <= offered'
    BY <1>2, BoundsAssumption, SMT
  <2> QED BY <1>2, <2>1, <2>2 DEF StreamInOrder
<1> QED BY <1>0, <1>1, <1>4, <1>5, <1>6, LiveStep

\* send() in IDLE, and the thread stops with the rest.
LEMMA SendBlocksStep ==
  ASSUME IInv, NEW n \in Nat \ {0}, SendBlocks(n)
  PROVE  IInv'
<1> DEFINE rest == Drop(NewBytes(n), room)
<1>0. /\ Offer(n) /\ m_state = "IDLE" /\ Connected /\ room < n
      /\ wire' = wire \o Take(NewBytes(n), room) /\ room' = 0
      /\ caller' = "send" /\ arg' = rest /\ done' = room
      /\ UNCHANGED <<object, conn, nonblock, inData, arrived, dropped, calls,
                     ended, faults, pending>>
  BY DEF SendBlocks
<1>1. /\ obj = "live" /\ ended = "no" /\ caller = "none" /\ ~dropped
      /\ m_outputBuffer = <<>>
  BY <1>0, IdleSend
<1>2. /\ wire' \in Seq(Nat) /\ Numbered(wire', 0)
      /\ rest \in Seq(Nat) /\ rest # <<>> /\ Numbered(rest, Len(wire'))
      /\ Len(wire') + Len(rest) = offered'
      /\ offered' \in 0 .. MaxOffered /\ room \in Nat /\ 0 \in 0 .. SockBuf
  BY <1>0, PartlySent
<1> HIDE DEF rest
<1>3. TypeOK'
  BY <1>0, <1>2 DEF IInv, Inv1, TypeOK, object
<1>4. PollMaskMatchesState' /\ SuspendedCall' /\ DroppedIsDead' /\ WriteAssertion'
  BY <1>0, <1>1, <1>2
  DEF IInv, Inv1, Inv2, PollMaskMatchesState, SuspendedCall, DroppedIsDead,
      WriteAssertion, object
<1>5. StreamInOrder'
  <2>1. Unsent' = rest
    BY <1>0 DEF Unsent
  <2>2. offered' <= offered'
    BY <1>2, BoundsAssumption, SMT
  <2> QED BY <1>2, <2>1, <2>2 DEF StreamInOrder
<1> QED BY <1>0, <1>1, <1>3, <1>4, <1>5, LiveStep DEF object

\* send() on a broken connection.
LEMMA SendFailsStep ==
  ASSUME IInv, NEW n \in Nat \ {0}, SendFails(n)
  PROVE  IInv'
<1>0. /\ Offer(n) /\ m_state = "IDLE" /\ dropped' = TRUE /\ conn' = "dead"
      /\ UNCHANGED <<object, call, nonblock, room, inData, arrived, wire, calls,
                     ended, faults, pending>>
  BY DEF SendFails
<1>1. obj = "live" /\ caller = "none" /\ ended = "no" /\ m_outputBuffer = <<>>
  BY <1>0 DEF Offer, Running, IInv, Inv1, Inv2, EndedMeansDeleted,
              PollMaskMatchesState
<1>2. /\ wire \in Seq(Nat) /\ Len(wire) \in Nat /\ Len(wire) <= offered
      /\ offered \in Nat /\ offered' \in 0 .. MaxOffered /\ offered <= offered'
  <2>1. wire \in Seq(Nat) /\ Len(wire) \in Nat /\ offered \in Nat
    BY LenProperties, BoundsAssumption, SMT DEF IInv, Inv1, TypeOK
  <2>2. offered' = offered + n /\ offered + n <= MaxOffered
    BY <1>0 DEF Offer
  <2>3. Len(wire) + Len(<<>>) <= offered
    BY <1>1 DEF IInv, Inv1, StreamInOrder, Unsent
  <2> QED BY <2>1, <2>2, <2>3, NothingUnsent, BoundsAssumption, SMT
<1>3. TypeOK'
  BY <1>0, <1>2 DEF IInv, Inv1, TypeOK, Conns, object, call
<1>4. PollMaskMatchesState' /\ SuspendedCall' /\ DroppedIsDead' /\ WriteAssertion'
  BY <1>0, <1>1
  DEF IInv, Inv1, Inv2, PollMaskMatchesState, SuspendedCall, DroppedIsDead,
      WriteAssertion, object, call
<1>5. StreamInOrder'
  <2>1. Unsent' = <<>> /\ wire' = wire
    BY <1>0, <1>1 DEF Unsent, object, call
  <2>2. Numbered(wire', 0) /\ Numbered(Unsent', Len(wire'))
        /\ Len(wire') + Len(Unsent') = Len(wire)
    BY <1>2, <2>1, NothingUnsent DEF IInv, Inv1, StreamInOrder
  <2>3. Len(wire) <= offered'
    BY <1>2, SMT
  <2> QED BY <1>0, <2>2, <2>3 DEF StreamInOrder
<1> QED BY <1>0, <1>1, <1>3, <1>4, <1>5, LiveStep DEF object


\* The state a suspended ::send is in.
LEMMA Suspended ==
  ASSUME IInv, caller # "none"
  PROVE  /\ obj = "live" /\ ended = "no" /\ ~dropped /\ Unsent = arg
         /\ caller \in {"send", "pollWrite"}
         /\ wire \in Seq(Nat) /\ Len(wire) \in Nat /\ Numbered(wire, 0)
         /\ arg \in Seq(Nat) /\ Len(arg) \in Nat /\ Numbered(arg, Len(wire))
         /\ m_outputBuffer \in Seq(Nat) /\ done \in Nat
         /\ Len(wire) + Len(arg) = offered
         /\ offered \in 0 .. MaxOffered /\ offered <= offered
         /\ caller = "send" => m_outputBuffer = <<>>
<1>1. obj = "live"
  BY DEF IInv, Inv1, Inv2, TypeOK, UnbornIsFresh, DeletedIsStill
<1>2. ended = "no" /\ ~dropped /\ Unsent = arg
  BY <1>1 DEF IInv, Inv2, EndedMeansDeleted, DroppedIsDead, Unsent
<1>3. Numbered(wire, 0) /\ Numbered(arg, Len(wire)) /\ Len(wire) + Len(arg) = offered
  BY <1>1, <1>2 DEF IInv, Inv1, StreamInOrder
<1>4. /\ wire \in Seq(Nat) /\ arg \in Seq(Nat) /\ m_outputBuffer \in Seq(Nat)
      /\ done \in Nat /\ offered \in 0 .. MaxOffered
      /\ caller \in {"send", "pollWrite"}
  BY DEF IInv, Inv1, TypeOK
<1>5. Len(wire) \in Nat /\ Len(arg) \in Nat /\ offered <= offered
  BY <1>4, LenProperties, BoundsAssumption, SMT
<1>6. caller = "send" => m_outputBuffer = <<>>
  BY <1>1 DEF IInv, Inv1, Inv2, SuspendedCall, PollMaskMatchesState
<1> QED BY <1>1, <1>2, <1>3, <1>4, <1>5, <1>6

\* A suspended ::send gets some of its bytes through.
LEMMA BlockedSendTakesStep ==
  ASSUME IInv, BlockedSendTakes
  PROVE  IInv'
<1> DEFINE k == Least(room, Len(arg))
<1>0. /\ caller # "none"
      /\ wire' = wire \o Take(arg, k) /\ room' = room - k
      /\ arg' = Drop(arg, k) /\ done' = done + k
      /\ UNCHANGED <<object, caller, conn, nonblock, inData, arrived, offered,
                     dropped, calls, ended, faults, pending>>
  BY DEF BlockedSendTakes
<1>1. /\ obj = "live" /\ ended = "no" /\ ~dropped
      /\ wire \in Seq(Nat) /\ Len(wire) \in Nat /\ Numbered(wire, 0)
      /\ arg \in Seq(Nat) /\ Len(arg) \in Nat /\ Numbered(arg, Len(wire))
      /\ m_outputBuffer \in Seq(Nat) /\ done \in Nat
      /\ Len(wire) + Len(arg) = offered /\ offered <= offered
  BY <1>0, Suspended
<1>2. k \in 0 .. Len(arg) /\ k \in Nat /\ room - k \in 0 .. SockBuf
  <2>1. room \in 0 .. SockBuf
    BY DEF IInv, Inv1, TypeOK
  <2> QED BY <1>1, <2>1, BoundsAssumption, SMT DEF Least
<1> HIDE DEF k
<1>3. /\ wire' \in Seq(Nat) /\ Len(wire') = Len(wire) + k /\ Numbered(wire', 0)
      /\ arg' \in Seq(Nat) /\ Len(arg') = Len(arg) - k
      /\ Numbered(arg', Len(wire) + k)
  <2>1. /\ wire \o Take(arg, k) \in Seq(Nat)
        /\ Len(wire \o Take(arg, k)) = Len(wire) + k
        /\ Numbered(wire \o Take(arg, k), 0)
        /\ Drop(arg, k) \in Seq(Nat)
        /\ Len(Drop(arg, k)) = Len(arg) - k
        /\ Numbered(Drop(arg, k), Len(wire) + k)
    BY <1>1, <1>2, WireGrows
  <2> QED BY <1>0, <2>1
<1>4. done' \in Nat /\ room' \in 0 .. SockBuf
  BY <1>0, <1>1, <1>2, SMT
<1>5. TypeOK'
  BY <1>0, <1>3, <1>4 DEF IInv, Inv1, TypeOK, object
<1>6. PollMaskMatchesState' /\ DroppedIsDead' /\ WriteAssertion'
  BY <1>0, <1>1
  DEF IInv, Inv1, Inv2, PollMaskMatchesState, DroppedIsDead, WriteAssertion, object
<1>7. SuspendedCall'
  <2>1. CASE caller = "pollWrite"
    <3>1. /\ m_state \in {"BUFFERING", "GOING_DOWN"}
          /\ Len(m_outputBuffer) = done + Len(arg)
          /\ \A i \in 1 .. Len(arg) : m_outputBuffer[done + i] = arg[i]
      BY <2>1 DEF IInv, Inv2, SuspendedCall
    <3>2. done + Len(arg) = (done + k) + (Len(arg) - k)
      BY <1>1, <1>2, SMT
    <3>3. Len(m_outputBuffer) = done' + Len(arg')
      BY <1>0, <1>3, <3>1, <3>2
    <3>4. ASSUME NEW i \in 1 .. Len(arg')
          PROVE  m_outputBuffer[done' + i] = arg'[i]
      <4>1. i \in 1 .. Len(arg) - k /\ k + i \in 1 .. Len(arg)
            /\ (done + k) + i = done + (k + i)
        BY <1>1, <1>2, <1>3, SMT
      <4>2. arg'[i] = arg[k + i]
        BY <1>0, <1>1, <1>2, <4>1, DropFacts
      <4> QED BY <1>0, <3>1, <4>1, <4>2
    <3> QED BY <1>0, <2>1, <3>1, <3>3, <3>4 DEF SuspendedCall, object
  <2>2. CASE caller # "pollWrite"
    BY <1>0, <2>2 DEF IInv, Inv2, SuspendedCall, object
  <2> QED BY <2>1, <2>2
<1>8. StreamInOrder'
  <2>1. Unsent' = arg'
    BY <1>0 DEF Unsent
  <2>2. (Len(wire) + k) + (Len(arg) - k) = Len(wire) + Len(arg)
    BY <1>1, <1>2, SMT
  <2>3. Len(wire') + Len(Unsent') = offered' /\ offered' <= offered'
    BY <1>0, <1>1, <1>3, <2>1, <2>2
  <2> QED BY <1>3, <2>1, <2>3 DEF StreamInOrder
<1> QED BY <1>0, <1>1, <1>5, <1>6, <1>7, <1>8, LiveStep DEF object

\* send() comes back from its ::send.
LEMMA SendReturnsStep ==
  ASSUME IInv, SendResumes \/ SendCutShort \/ SendBreaks
  PROVE  IInv'
<1>0. /\ caller = "send" /\ caller' = "none" /\ arg' = <<>> /\ done' = 0
      /\ UNCHANGED <<obj, origin, registered, nonblock, room, inData, arrived,
                     wire, offered, calls, ended, faults, pending>>
  <2>1. CASE SendResumes
    BY <2>1 DEF SendResumes, Returned, object, kernel, history
  <2>2. CASE SendCutShort
    BY <2>2 DEF SendCutShort, Returned, object, kernel, history
  <2>3. CASE SendBreaks
    BY <2>3 DEF SendBreaks, Returned, object, kernel, history
  <2> QED BY <2>1, <2>2, <2>3
<1>1. /\ obj = "live" /\ ended = "no" /\ ~dropped /\ m_outputBuffer = <<>>
      /\ wire \in Seq(Nat) /\ Len(wire) \in Nat /\ Numbered(wire, 0)
      /\ arg \in Seq(Nat) /\ Len(arg) \in Nat /\ Numbered(arg, Len(wire))
      /\ Len(wire) + Len(arg) = offered
      /\ offered \in 0 .. MaxOffered /\ offered <= offered
  BY <1>0, Suspended
<1>2. m_state = "IDLE" /\ m_ioSocketState = "IDLE" /\ <<>> \in Seq(Nat) /\ 0 \in Nat
  BY <1>0, <1>1, SMT DEF IInv, Inv1, Inv2, SuspendedCall, PollMaskMatchesState
<1>3. Unsent' = m_outputBuffer'
  BY <1>0 DEF Unsent
<1>4. CASE SendResumes
  <2>0. arg = <<>> /\ UNCHANGED <<m_state, m_ioSocketState, m_outputBuffer, conn, dropped>>
    BY <1>4 DEF SendResumes, object, kernel, history
  <2>1. TypeOK'
    BY <1>0, <1>2, <2>0 DEF IInv, Inv1, TypeOK
  <2>2. PollMaskMatchesState' /\ SuspendedCall' /\ DroppedIsDead' /\ WriteAssertion'
    BY <1>0, <1>1, <2>0
    DEF IInv, Inv1, Inv2, PollMaskMatchesState, SuspendedCall, DroppedIsDead,
        WriteAssertion
  <2>3. StreamInOrder'
    BY <1>0, <1>1, <1>3, <2>0 DEF StreamInOrder
  <2> QED BY <1>0, <1>1, <2>1, <2>2, <2>3, LiveStep
<1>5. CASE SendCutShort
  <2>0. /\ arg # <<>> /\ m_outputBuffer' = m_outputBuffer \o arg
        /\ m_state' = "BUFFERING" /\ m_ioSocketState' = "BUFFERING"
        /\ UNCHANGED <<conn, dropped>>
    BY <1>5 DEF SendCutShort, kernel, history
  <2>1. m_outputBuffer' = arg
    BY <1>1, <2>0, ConcatEmptySeq
  <2>2. TypeOK'
    BY <1>0, <1>1, <1>2, <2>0, <2>1 DEF IInv, Inv1, TypeOK, States
  <2>3. PollMaskMatchesState' /\ SuspendedCall' /\ DroppedIsDead' /\ WriteAssertion'
    BY <1>0, <1>1, <2>0, <2>1
    DEF IInv, Inv1, Inv2, PollMaskMatchesState, SuspendedCall, DroppedIsDead,
        WriteAssertion
  <2>4. StreamInOrder'
    BY <1>0, <1>1, <1>3, <2>0, <2>1 DEF StreamInOrder
  <2> QED BY <1>0, <1>1, <2>2, <2>3, <2>4, LiveStep
<1>6. CASE SendBreaks
  <2>0. /\ dropped' = TRUE /\ conn' = "dead"
        /\ UNCHANGED <<m_state, m_ioSocketState, m_outputBuffer>>
    BY <1>6 DEF SendBreaks, object
  <2>1. TypeOK'
    BY <1>0, <1>2, <2>0 DEF IInv, Inv1, TypeOK, Conns
  <2>2. PollMaskMatchesState' /\ SuspendedCall' /\ DroppedIsDead' /\ WriteAssertion'
    BY <1>0, <1>1, <1>2, <2>0
    DEF IInv, Inv1, Inv2, PollMaskMatchesState, SuspendedCall, DroppedIsDead,
        WriteAssertion
  <2>3. StreamInOrder'
    <3>1. /\ Numbered(Unsent', Len(wire')) /\ Len(wire') + Len(Unsent') = Len(wire)
      BY <1>0, <1>1, <1>3, <2>0, NothingUnsent
    <3>2. Len(wire) <= offered
      BY <1>1, SMT
    <3> QED BY <1>0, <1>1, <2>0, <3>1, <3>2 DEF StreamInOrder
  <2> QED BY <1>0, <1>1, <2>1, <2>2, <2>3, LiveStep
<1> QED BY <1>4, <1>5, <1>6


\* The end of pollWrite: `sent' bytes come off the front of the buffer.
LEMMA EraseStep ==
  ASSUME IInv, obj = "live", m_state \in {"BUFFERING", "GOING_DOWN"}, ~dropped,
         NEW sent \in 0 .. Len(m_outputBuffer), Erase(sent), UNCHANGED dropped,
         wire' \in Seq(Nat), Numbered(wire', 0), room' \in 0 .. SockBuf,
         Numbered(Drop(m_outputBuffer, sent), Len(wire')),
         Len(wire') + (Len(m_outputBuffer) - sent) = offered
  PROVE  IInv'
<1> DEFINE rest == Drop(m_outputBuffer, sent)
<1>1. /\ ended = "no" /\ m_outputBuffer \in Seq(Nat) /\ Len(m_outputBuffer) \in Nat
      /\ offered \in 0 .. MaxOffered /\ offered <= offered
      /\ conn # "none" /\ m_ioSocketState = "BUFFERING" /\ registered
      /\ Len(wire') \in Nat
  <2>1. m_outputBuffer \in Seq(Nat) /\ offered \in 0 .. MaxOffered
    BY DEF IInv, Inv1, TypeOK
  <2>2. ended = "no" /\ conn # "none" /\ m_ioSocketState = "BUFFERING" /\ registered
    BY DEF IInv, Inv1, Inv2, EndedMeansDeleted, PollMaskMatchesState
  <2>3. Len(m_outputBuffer) \in Nat /\ offered <= offered /\ Len(wire') \in Nat
    BY <2>1, LenProperties, BoundsAssumption, SMT
  <2> QED BY <2>1, <2>2, <2>3
<1>2. /\ rest \in Seq(Nat) /\ Len(rest) = Len(m_outputBuffer) - sent
      /\ Numbered(rest, Len(wire')) /\ Len(wire') + Len(rest) = offered
      /\ <<>> \in Seq(Nat) /\ 0 \in Nat
  <2>1. /\ Drop(m_outputBuffer, sent) \in Seq(Nat)
        /\ Len(Drop(m_outputBuffer, sent)) = Len(m_outputBuffer) - sent
    BY <1>1, DropFacts
  <2> QED BY <2>1, EmptySeq
<1>3. CASE FinishClosing(sent)
  <2>1. sent = Len(m_outputBuffer)
    BY <1>3 DEF FinishClosing
  <2>2. Len(wire') = offered
    BY <1>1, <2>1, SMT
  <2> DEFINE known == <<"destroyEndpoint", "connectionClosed",
                        "connectionClosed", "destroyEndpoint">>
             unknown == <<"connectionClosed", "connectionClosed">>
  <2>3. known \in Seq(Calls) /\ unknown \in Seq(Calls)
    BY ToldIsALog
  <2> HIDE DEF known, unknown
  <2>4. \/ Destroy(known, "flushed", Twice)
        \/ Destroy(unknown, "flushed", Twice \ {"told after destroy"})
    BY <1>3 DEF FinishClosing, known, unknown
  <2>5. Twice \in SUBSET Faults /\ Twice \ {"told after destroy"} \in SUBSET Faults
        /\ "flushed" \in Causes /\ dropped' \in BOOLEAN
    BY DEF Faults, Causes, IInv, Inv1, TypeOK
  <2>6. CASE Destroy(known, "flushed", Twice)
    BY <2>2, <2>3, <2>5, <2>6, DestroyStep
  <2>7. CASE Destroy(unknown, "flushed", Twice \ {"told after destroy"})
    BY <2>2, <2>3, <2>5, <2>7, DestroyStep
  <2> QED BY <2>4, <2>6, <2>7
<1>4. CASE KeepRest(sent) \/ GoIdle(sent)
  <2> HIDE DEF rest
  <2>0. /\ m_outputBuffer' = rest /\ pending' = pending \ {"OUT"}
        /\ caller' = "none" /\ arg' = <<>> /\ done' = 0
        /\ UNCHANGED <<obj, origin, registered, conn, nonblock, inData, arrived,
                       offered, calls, ended, faults>>
    BY <1>4 DEF KeepRest, GoIdle, Returned, rest
  <2>1. Unsent' = rest
    BY <2>0 DEF Unsent
  <2>2. StreamInOrder'
    BY <1>1, <1>2, <2>0, <2>1 DEF StreamInOrder
  <2>3. DroppedIsDead' /\ WriteAssertion' /\ SuspendedCall'
    BY <2>0 DEF DroppedIsDead, WriteAssertion, SuspendedCall
  <2>4. m_state' \in States /\ m_ioSocketState' \in {"IDLE", "BUFFERING"}
    BY <1>1, <1>4 DEF KeepRest, GoIdle, States
  <2>5. TypeOK'
    BY <1>2, <2>0, <2>4 DEF IInv, Inv1, TypeOK
  <2>6. PollMaskMatchesState'
    <3>1. CASE KeepRest(sent)
      <4>1. sent < Len(m_outputBuffer) /\ UNCHANGED <<m_state, m_ioSocketState>>
        BY <3>1 DEF KeepRest
      <4>2. Len(rest) # 0
        BY <1>1, <1>2, <4>1, SMT
      <4>3. rest # <<>>
        BY <4>2, EmptySeq
      <4> QED BY <1>1, <2>0, <4>1, <4>3 DEF PollMaskMatchesState
    <3>2. CASE GoIdle(sent)
      <4>1. sent = Len(m_outputBuffer) /\ m_state' = "IDLE" /\ m_ioSocketState' = "IDLE"
        BY <3>2 DEF GoIdle
      <4>2. Len(rest) = 0
        BY <1>1, <1>2, <4>1, SMT
      <4>3. rest = <<>>
        BY <1>2, <4>2, EmptySeq
      <4> QED BY <1>1, <2>0, <4>1, <4>3 DEF PollMaskMatchesState
    <3> QED BY <1>4, <3>1, <3>2
  <2> QED BY <1>1, <2>0, <2>2, <2>3, <2>5, <2>6, LiveStep
<1> QED BY <1>3, <1>4 DEF Erase

\* What pollWrite starts from when it has output to write.
LEMMA Writing ==
  ASSUME IInv, Writes
  PROVE  /\ obj = "live" /\ ended = "no" /\ caller = "none" /\ ~dropped
         /\ m_state \in {"BUFFERING", "GOING_DOWN"} /\ Unsent = m_outputBuffer
         /\ wire \in Seq(Nat) /\ Len(wire) \in Nat /\ Numbered(wire, 0)
         /\ m_outputBuffer \in Seq(Nat) /\ Len(m_outputBuffer) \in Nat
         /\ Numbered(m_outputBuffer, Len(wire))
         /\ Len(wire) + Len(m_outputBuffer) = offered
         /\ offered \in 0 .. MaxOffered /\ offered <= offered
         /\ room \in 0 .. SockBuf /\ room \in Nat /\ 0 \in 0 .. SockBuf
<1>1. obj = "live" /\ caller = "none" /\ ended = "no"
  BY DEF Writes, DispatchesOut, Running, IInv, Inv2, EndedMeansDeleted
<1>2. m_state \in {"BUFFERING", "GOING_DOWN"}
  BY DEF Writes, DispatchesOut, IInv, Inv2, WriteAssertion
<1>3. ~dropped /\ Unsent = m_outputBuffer
  BY <1>1, <1>2 DEF IInv, Inv2, DroppedIsDead, Unsent
<1>4. /\ Numbered(wire, 0) /\ Numbered(m_outputBuffer, Len(wire))
      /\ Len(wire) + Len(m_outputBuffer) = offered
  BY <1>1, <1>3 DEF IInv, Inv1, StreamInOrder
<1>5. /\ wire \in Seq(Nat) /\ m_outputBuffer \in Seq(Nat)
      /\ offered \in 0 .. MaxOffered /\ room \in 0 .. SockBuf
  BY DEF IInv, Inv1, TypeOK
<1>6. /\ Len(wire) \in Nat /\ Len(m_outputBuffer) \in Nat /\ offered <= offered
      /\ room \in Nat /\ 0 \in 0 .. SockBuf
  BY <1>5, LenProperties, BoundsAssumption, SMT
<1> QED BY <1>1, <1>2, <1>3, <1>4, <1>5, <1>6

\* The kernel takes k bytes off the front of the buffer.
LEMMA BufferToWire ==
  ASSUME IInv, Writes, NEW k \in 0 .. Len(m_outputBuffer),
         wire' = wire \o Take(m_outputBuffer, k)
  PROVE  LET rest == Drop(m_outputBuffer, k) IN
           /\ wire' \in Seq(Nat) /\ Numbered(wire', 0)
           /\ rest \in Seq(Nat) /\ Len(rest) = Len(m_outputBuffer) - k
           /\ Numbered(rest, Len(wire'))
           /\ Len(wire') + (Len(m_outputBuffer) - k) = offered
<1>1. /\ wire \in Seq(Nat) /\ Len(wire) \in Nat /\ Numbered(wire, 0)
      /\ m_outputBuffer \in Seq(Nat) /\ Len(m_outputBuffer) \in Nat
      /\ Numbered(m_outputBuffer, Len(wire))
      /\ Len(wire) + Len(m_outputBuffer) = offered
  BY Writing
<1>2. /\ wire \o Take(m_outputBuffer, k) \in Seq(Nat)
      /\ Len(wire \o Take(m_outputBuffer, k)) = Len(wire) + k
      /\ Numbered(wire \o Take(m_outputBuffer, k), 0)
      /\ Drop(m_outputBuffer, k) \in Seq(Nat)
      /\ Len(Drop(m_outputBuffer, k)) = Len(m_outputBuffer) - k
      /\ Numbered(Drop(m_outputBuffer, k), Len(wire) + k)
  BY <1>1, WireGrows
<1>3. (Len(wire) + k) + (Len(m_outputBuffer) - k) = Len(wire) + Len(m_outputBuffer)
  BY <1>1, SMT
<1> QED BY <1>1, <1>2, <1>3


\* pollWrite writes, waits or fails.
LEMMA PollWriteStep ==
  ASSUME IInv, PollWriteWaits \/ PollWriteSends \/ PollWriteBlocks \/ PollWriteFails
  PROVE  IInv'
<1>1. CASE PollWriteWaits
  <2>0. /\ Writes /\ pending' = pending \ {"OUT"}
        /\ UNCHANGED <<object, call, kernel, history>>
    BY <1>1 DEF PollWriteWaits
  <2>1. obj = "live" /\ ended = "no"
    BY <2>0, Writing
  <2>2. TypeOK' /\ PollMaskMatchesState' /\ SuspendedCall' /\ DroppedIsDead'
    BY <2>0 DEF IInv, Inv1, Inv2, TypeOK, PollMaskMatchesState, SuspendedCall,
       DroppedIsDead, object, call, kernel, history
  <2>3. StreamInOrder'
    <3>1. Unsent' = Unsent
      BY <2>0 DEF Unsent, object, call
    <3> QED
      BY <2>0, <3>1 DEF IInv, Inv1, StreamInOrder, object, history
  <2>4. WriteAssertion'
    BY <2>0 DEF WriteAssertion
  <2> QED BY <2>0, <2>1, <2>2, <2>3, <2>4, LiveStep DEF object, history
<1>2. CASE PollWriteSends
  <2> DEFINE sent == Least(room, Len(m_outputBuffer))
  <2>0. /\ Writes /\ wire' = wire \o Take(m_outputBuffer, sent)
        /\ room' = room - sent /\ Erase(sent) /\ UNCHANGED dropped
    BY <1>2 DEF PollWriteSends
  <2>1. /\ obj = "live" /\ ~dropped /\ m_state \in {"BUFFERING", "GOING_DOWN"}
        /\ Len(m_outputBuffer) \in Nat /\ room \in 0 .. SockBuf
    BY <2>0, Writing
  <2>2. sent \in 0 .. Len(m_outputBuffer) /\ room - sent \in 0 .. SockBuf
    BY <2>1, BoundsAssumption, SMT DEF Least
  <2> HIDE DEF sent
  <2>3. /\ wire' \in Seq(Nat) /\ Numbered(wire', 0)
        /\ Numbered(Drop(m_outputBuffer, sent), Len(wire'))
        /\ Len(wire') + (Len(m_outputBuffer) - sent) = offered
    BY <2>0, <2>2, BufferToWire
  <2> QED BY <2>0, <2>1, <2>2, <2>3, EraseStep
<1>3. CASE PollWriteBlocks
  <2> DEFINE rest == Drop(m_outputBuffer, room)
  <2>0. /\ Writes /\ room < Len(m_outputBuffer)
        /\ wire' = wire \o Take(m_outputBuffer, room) /\ room' = 0
        /\ caller' = "pollWrite" /\ arg' = rest /\ done' = room
        /\ UNCHANGED <<object, conn, nonblock, inData, arrived, offered, dropped,
                       calls, ended, faults, pending>>
    BY <1>3 DEF PollWriteBlocks
  <2>1. /\ obj = "live" /\ ended = "no" /\ ~dropped
        /\ m_state \in {"BUFFERING", "GOING_DOWN"}
        /\ m_outputBuffer \in Seq(Nat) /\ Len(m_outputBuffer) \in Nat
        /\ offered \in 0 .. MaxOffered /\ offered <= offered
        /\ room \in Nat /\ 0 \in 0 .. SockBuf
    BY <2>0, Writing
  <2>2. room \in 0 .. Len(m_outputBuffer)
    BY <2>0, <2>1, SMT
  <2>3. /\ wire' \in Seq(Nat) /\ Numbered(wire', 0)
        /\ rest \in Seq(Nat) /\ Len(rest) = Len(m_outputBuffer) - room
        /\ Numbered(rest, Len(wire'))
        /\ Len(wire') + (Len(m_outputBuffer) - room) = offered
    BY <2>0, <2>2, BufferToWire
  <2>4. \A i \in 1 .. Len(rest) : m_outputBuffer[room + i] = rest[i]
    BY <2>1, <2>2, <2>3, DropFacts
  <2> HIDE DEF rest
  <2>5. TypeOK'
    BY <2>0, <2>1, <2>3 DEF IInv, Inv1, TypeOK, object
  <2>6. PollMaskMatchesState' /\ DroppedIsDead' /\ WriteAssertion'
    BY <2>0, <2>1 DEF IInv, Inv1, Inv2, PollMaskMatchesState, DroppedIsDead,
       WriteAssertion, object
  <2>7. SuspendedCall'
    <3>1. Len(m_outputBuffer) = room + (Len(m_outputBuffer) - room)
      BY <2>1, SMT
    <3>2. /\ m_outputBuffer' = m_outputBuffer /\ m_state' = m_state
          /\ done' = room /\ arg' = rest /\ caller' = "pollWrite"
      BY <2>0 DEF object
    <3>3. Len(m_outputBuffer') = done' + Len(arg')
      BY <2>3, <3>1, <3>2
    <3>4. \A i \in 1 .. Len(arg') : m_outputBuffer'[done' + i] = arg'[i]
      BY <2>4, <3>2
    <3> QED BY <2>1, <3>2, <3>3, <3>4 DEF SuspendedCall
  <2>8. StreamInOrder'
    <3>1. Unsent' = rest
      BY <2>0 DEF Unsent
    <3> QED BY <2>0, <2>1, <2>3, <3>1 DEF StreamInOrder
  <2> QED BY <2>0, <2>1, <2>5, <2>6, <2>7, <2>8, LiveStep DEF object
<1>4. CASE PollWriteFails
  BY <1>4, TearDownStep, FaultSets DEF PollWriteFails, Outcomes, Causes
<1> QED BY <1>1, <1>2, <1>3, <1>4

\* A suspended pollWrite comes back from its ::send.
LEMMA PollWriteResumesStep ==
  ASSUME IInv, PollWriteResumes
  PROVE  IInv'
<1>0. caller = "pollWrite" /\ Erase(done) /\ UNCHANGED <<wire, room, dropped>>
  BY DEF PollWriteResumes
<1>1. /\ obj = "live" /\ ~dropped /\ m_outputBuffer \in Seq(Nat)
      /\ wire \in Seq(Nat) /\ Numbered(wire, 0)
      /\ arg \in Seq(Nat) /\ Len(arg) \in Nat /\ Numbered(arg, Len(wire))
      /\ done \in Nat /\ Len(wire) + Len(arg) = offered
  BY <1>0, Suspended
<1>2. /\ m_state \in {"BUFFERING", "GOING_DOWN"}
      /\ Len(m_outputBuffer) = done + Len(arg)
      /\ \A i \in 1 .. Len(arg) : m_outputBuffer[done + i] = arg[i]
  BY <1>0 DEF IInv, Inv2, SuspendedCall
<1>3. done \in 0 .. Len(m_outputBuffer) /\ Len(m_outputBuffer) - done = Len(arg)
  BY <1>1, <1>2, SMT
<1>4. Numbered(Drop(m_outputBuffer, done), Len(wire))
  <2>1. /\ Len(Drop(m_outputBuffer, done)) = Len(arg)
        /\ \A i \in 1 .. Len(arg) : Drop(m_outputBuffer, done)[i] = arg[i]
    BY <1>1, <1>2, <1>3, DropFacts
  <2> QED BY <1>1, <2>1 DEF Numbered
<1>5. room' \in 0 .. SockBuf
  BY <1>0 DEF IInv, Inv1, TypeOK
<1>6. wire' \in Seq(Nat) /\ Numbered(wire', 0)
      /\ Numbered(Drop(m_outputBuffer, done), Len(wire'))
      /\ Len(wire') + (Len(m_outputBuffer) - done) = offered
  BY <1>0, <1>1, <1>3, <1>4
<1> QED BY <1>0, <1>1, <1>2, <1>3, <1>5, <1>6, EraseStep


\* The steps that leave the stream alone: wire, buffer and suspended call stay.
LEMMA StreamStays ==
  ASSUME IInv, UNCHANGED <<obj, m_outputBuffer, call, wire, offered, dropped>>
  PROVE  StreamInOrder'
<1>1. Unsent' = Unsent
  BY DEF Unsent, call
<1> QED BY <1>1 DEF IInv, Inv1, StreamInOrder

\* close(), deferred or not.
LEMMA CloseStep ==
  ASSUME IInv, Close
  PROVE  IInv'
<1>1. CASE CloseDefers
  <2>0. /\ obj = "live" /\ caller = "none" /\ m_state = "BUFFERING"
        /\ m_state' = "GOING_DOWN"
        /\ UNCHANGED <<obj, origin, m_ioSocketState, m_outputBuffer, registered,
                       call, kernel, history, pending>>
    BY <1>1 DEF CloseDefers, Running
  <2>1. TypeOK'
    BY <2>0 DEF IInv, Inv1, TypeOK, States, call, kernel, history
  <2>2. PollMaskMatchesState' /\ SuspendedCall' /\ DroppedIsDead' /\ WriteAssertion'
    BY <2>0 DEF IInv, Inv1, Inv2, PollMaskMatchesState, SuspendedCall,
       DroppedIsDead, WriteAssertion, call, kernel, history
  <2>3. StreamInOrder'
    BY <2>0, StreamStays DEF history
  <2>4. ended' = "no" /\ obj' = "live"
    BY <2>0 DEF IInv, Inv2, EndedMeansDeleted, history
  <2> QED BY <2>1, <2>2, <2>3, <2>4, LiveStep
<1>2. ASSUME NEW force \in BOOLEAN, CloseNow(force)
      PROVE  IInv'
  <2> DEFINE outcome == IF m_state = "BUFFERING" THEN "connectionLost"
                                                 ELSE "connectionClosed"
             cause == IF force THEN "forced" ELSE "closed"
  <2>1. outcome \in Outcomes /\ cause \in Causes \ {"flushed", "eof"}
    BY DEF Outcomes, Causes
  <2> HIDE DEF outcome, cause
  <2>2. Destroy(Told(outcome), cause, {}) /\ UNCHANGED <<wire, room, dropped>>
    BY <1>2 DEF CloseNow, outcome, cause
  <2> QED BY <2>1, <2>2, TearDownStep
<1> QED BY <1>1, <1>2 DEF Close

\* poll(), and the handlers other than pollWrite's writing.
LEMMA LoopStep ==
  ASSUME IInv, Loop
  PROVE  IInv'
<1>1. CASE Poll
  <2>0. /\ obj = "live" /\ pending' = Revents
        /\ UNCHANGED <<object, call, kernel, history>>
    BY <1>1 DEF Poll, Running
  <2>1. TypeOK' /\ PollMaskMatchesState' /\ SuspendedCall' /\ DroppedIsDead'
    BY <2>0 DEF IInv, Inv1, Inv2, TypeOK, PollMaskMatchesState, SuspendedCall,
       DroppedIsDead, Revents, object, call, kernel, history
  <2>2. StreamInOrder'
    BY <2>0, StreamStays DEF object, history
  <2>3. WriteAssertion'
    <3>1. SUFFICES ASSUME "OUT" \in Revents
                   PROVE  m_state \in {"GOING_UP", "BUFFERING", "GOING_DOWN"}
      BY <2>0 DEF WriteAssertion, object
    <3>2. m_ioSocketState = "BUFFERING"
      BY <3>1 DEF Revents
    <3> QED BY <2>0, <3>2 DEF IInv, Inv1, PollMaskMatchesState
  <2>4. ended' = "no" /\ obj' = "live"
    BY <2>0 DEF IInv, Inv2, EndedMeansDeleted, object, history
  <2> QED BY <2>1, <2>2, <2>3, <2>4, LiveStep
<1>2. CASE PollError
  BY <1>2, TearDownStep, FaultSets DEF PollError, Outcomes, Causes
<1>3. CASE PollWriteEstablishes
  <2>0. /\ obj = "live" /\ caller = "none" /\ m_state = "GOING_UP"
        /\ m_state' = (IF m_outputBuffer # <<>> THEN "BUFFERING" ELSE "IDLE")
        /\ m_ioSocketState' = m_state'
        /\ calls' = Append(calls, "connectionEstablished")
        /\ pending' = pending \ {"OUT"}
        /\ UNCHANGED <<obj, origin, m_outputBuffer, registered, call, kernel,
                       wire, offered, dropped, ended, faults>>
    BY <1>3 DEF PollWriteEstablishes, DispatchesOut, Running
  <2>1. calls' \in Seq(Calls)
    <3>1. "connectionEstablished" \in Calls /\ calls \in Seq(Calls)
      BY DEF Calls, IInv, Inv1, TypeOK
    <3> QED BY <2>0, <3>1, LogGrows
  <2>2. TypeOK'
    BY <2>0, <2>1 DEF IInv, Inv1, TypeOK, States, call, kernel
  <2>3. PollMaskMatchesState' /\ SuspendedCall' /\ DroppedIsDead' /\ WriteAssertion'
    BY <2>0 DEF IInv, Inv1, Inv2, PollMaskMatchesState, SuspendedCall,
       DroppedIsDead, WriteAssertion, call, kernel
  <2>4. StreamInOrder'
    BY <2>0, StreamStays
  <2>5. ended' = "no" /\ obj' = "live"
    BY <2>0 DEF IInv, Inv2, EndedMeansDeleted
  <2> QED BY <2>2, <2>3, <2>4, <2>5, LiveStep
<1>4. CASE PollWriteWaits \/ PollWriteSends \/ PollWriteBlocks \/ PollWriteFails
  BY <1>4, PollWriteStep
<1>5. CASE PollReadData
  <2>0. /\ obj = "live" /\ inData \in Nat /\ inData > 0
        /\ inData' = inData - 1 /\ pending' = {}
        /\ calls' \in {calls, Append(calls, "dataRead")}
        /\ UNCHANGED <<object, call, conn, nonblock, room, arrived, wire, offered,
                       dropped, ended, faults>>
    BY <1>5 DEF PollReadData, DispatchesIn, Running, IInv, Inv1, TypeOK
  <2>1. calls' \in Seq(Calls)
    <3>1. "dataRead" \in Calls /\ calls \in Seq(Calls)
      BY DEF Calls, IInv, Inv1, TypeOK
    <3> QED BY <2>0, <3>1, LogGrows
  <2>2. inData' \in Nat
    BY <2>0, SMT
  <2>3. TypeOK'
    BY <2>0, <2>1, <2>2 DEF IInv, Inv1, TypeOK, object, call
  <2>4. PollMaskMatchesState' /\ SuspendedCall' /\ DroppedIsDead' /\ WriteAssertion'
    BY <2>0 DEF IInv, Inv1, Inv2, PollMaskMatchesState, SuspendedCall,
       DroppedIsDead, WriteAssertion, object, call
  <2>5. StreamInOrder'
    BY <2>0, StreamStays DEF object
  <2>6. ended' = "no" /\ obj' = "live"
    BY <2>0 DEF IInv, Inv2, EndedMeansDeleted, object
  <2> QED BY <2>3, <2>4, <2>5, <2>6, LiveStep
<1>6. CASE PollReadEnds
  <2>0. obj = "live" /\ caller = "none" /\ UNCHANGED <<wire, room, dropped>>
    BY <1>6 DEF PollReadEnds, DispatchesIn, Running
  <2>1. CASE Destroy(Told("connectionLost"), "lost", {})
    BY <2>0, <2>1, TearDownStep, FaultSets DEF Outcomes, Causes
  <2>2. CASE Destroy(Told("connectionClosed"), "eof", {}) /\ m_state = "IDLE"
    <3>1. Told("connectionClosed") \in Seq(Calls) /\ "eof" \in Causes /\ {} \in SUBSET Faults
      BY ToldIsALog DEF Outcomes, Causes
    <3>2. /\ wire' \in Seq(Nat) /\ Numbered(wire', 0) /\ wire \in Seq(Nat)
          /\ room' \in 0 .. SockBuf /\ dropped' \in BOOLEAN
      BY <2>0 DEF IInv, Inv1, TypeOK, StreamInOrder
    <3>3. ~dropped => Len(wire) + Len(Unsent) = offered
      BY <2>0 DEF IInv, Inv1, StreamInOrder
    <3>4. Unsent = <<>>
      BY <2>0, <2>2 DEF IInv, Inv1, PollMaskMatchesState, Unsent
    <3>5. ~dropped' => Len(wire') = offered
      BY <2>0, <3>2, <3>3, <3>4, NothingUnsent
    <3> QED BY <2>2, <3>1, <3>2, <3>5, DestroyStep
  <2> QED BY <1>6, <2>1, <2>2 DEF PollReadEnds
<1> QED BY <1>1, <1>2, <1>3, <1>4, <1>5, <1>6 DEF Loop, PollWrite, PollRead

\* The kernel and the peer.
LEMMA EnvironmentStep ==
  ASSUME IInv, Environment
  PROVE  IInv'
<1>1. UNCHANGED <<object, call, history, pending, nonblock>>
  BY DEF Environment, ConnectEnds, PeerCloses, PeerResets, PeerSends, PeerReads,
         MemoryShort, Kernel
<1>2. /\ conn' \in Conns
      /\ conn = "dead" => conn' = "dead"
      /\ conn # "none" /\ conn' # "none"
  BY DEF Environment, ConnectEnds, PeerCloses, PeerResets, PeerSends, PeerReads,
         MemoryShort, Kernel, Connected, Conns
<1>3. room' \in 0 .. SockBuf /\ inData' \in Nat /\ arrived' \in 0 .. MaxIn
  <2>1. room \in 0 .. SockBuf /\ inData \in Nat /\ arrived \in 0 .. MaxIn
    BY DEF IInv, Inv1, TypeOK
  <2> QED
    BY <2>1, BoundsAssumption, SMT
    DEF Environment, ConnectEnds, PeerCloses, PeerResets, PeerSends, PeerReads,
        MemoryShort, Kernel
<1>4. obj = "live" /\ ended = "no"
  BY <1>2 DEF IInv, Inv1, Inv2, TypeOK, UnbornIsFresh, DeletedIsStill,
     EndedMeansDeleted
<1>5. TypeOK'
  BY <1>1, <1>2, <1>3 DEF IInv, Inv1, TypeOK, object, call, history
<1>6. PollMaskMatchesState' /\ SuspendedCall' /\ DroppedIsDead' /\ WriteAssertion'
  BY <1>1, <1>2, <1>4
  DEF IInv, Inv1, Inv2, PollMaskMatchesState, SuspendedCall, DroppedIsDead,
      WriteAssertion, object, call, history
<1>7. StreamInOrder'
  BY <1>1, StreamStays DEF object, history
<1> QED BY <1>1, <1>4, <1>5, <1>6, <1>7, LiveStep DEF object, history

-----------------------------------------------------------------------------
(* The theorems. *)

\* IInv is inductive.
LEMMA Inductive ==
  /\ Init => IInv
  /\ IInv /\ [Next]_vars => IInv'
<1>1. Init => IInv
  <2> SUFFICES ASSUME Init PROVE IInv
    OBVIOUS
  <2>1. <<>> \in Seq(Nat) /\ <<>> \in Seq(Calls) /\ Len(<<>>) = 0 /\ Numbered(<<>>, 0)
    BY EmptySeq, NothingUnsent
  <2>2. /\ SockBuf \in 0 .. SockBuf /\ 0 \in 0 .. MaxIn /\ 0 \in 0 .. MaxOffered
        /\ 0 \in Nat
    BY BoundsAssumption, SMT
  <2>3. TypeOK
    BY <2>1, <2>2 DEF Init, TypeOK, States, Conns, Causes
  <2>4. PollMaskMatchesState /\ StreamInOrder /\ QuietEndLosesNothing
    BY <2>1 DEF Init, PollMaskMatchesState, StreamInOrder, QuietEndLosesNothing
  <2>5. Inv2
    BY DEF Init, Inv2, UnbornIsFresh, DeletedIsStill, EndedMeansDeleted,
       SuspendedCall, DroppedIsDead, WriteAssertion
  <2> QED BY <2>3, <2>4, <2>5 DEF IInv, Inv1
<1>2. IInv /\ [Next]_vars => IInv'
  <2> SUFFICES ASSUME IInv, [Next]_vars PROVE IInv'
    OBVIOUS
  <2>1. CASE Create
    BY <2>1, CreateStep
  <2>2. CASE Close
    BY <2>2, CloseStep
  <2>3. ASSUME NEW n \in 1 .. MaxChunk, Send(n)
        PROVE  IInv'
    <3>1. n \in Nat \ {0}
      BY BoundsAssumption, SMT
    <3> QED
      BY <2>3, <3>1, SendQueuesStep, SendDirectStep, SendBuffersStep,
         SendFailsStep, SendBlocksStep DEF Send
  <2>4. CASE Loop
    BY <2>4, LoopStep
  <2>5. CASE Resume
    BY <2>5, BlockedSendTakesStep, SendReturnsStep, PollWriteResumesStep DEF Resume
  <2>6. CASE Environment
    BY <2>6, EnvironmentStep
  <2>7. CASE UNCHANGED vars
    BY <2>7 DEF vars, object, call, kernel, history, IInv, Inv1, Inv2, TypeOK,
       PollMaskMatchesState, StreamInOrder, Unsent, QuietEndLosesNothing,
       UnbornIsFresh, DeletedIsStill, EndedMeansDeleted, SuspendedCall,
       DroppedIsDead, WriteAssertion
  <2> QED
    BY <2>1, <2>2, <2>3, <2>4, <2>5, <2>6, <2>7 DEF Next, Endpoint, Done
<1> QED BY <1>1, <1>2

\* IInv holds in every state of every run.
THEOREM Invariance == Safe => []IInv
BY Inductive, PTL DEF Safe

\* Every variable of the socket keeps its type.
THEOREM TypeCorrect == Safe => []TypeOK
<1>1. IInv => TypeOK
  BY DEF IInv, Inv1
<1> QED BY <1>1, Invariance, PTL

\* However sends, closes, polls and peer events interleave, a live socket polls
\* for POLLOUT exactly when pollWrite has something to do for it.
THEOREM PollMaskIsRight == Safe => []PollMaskMatchesState
<1>1. IInv => PollMaskMatchesState
  BY DEF IInv, Inv1
<1> QED BY <1>1, Invariance, PTL

\* Bytes reach the wire in the order of the sends, none lost between, doubled
\* or overtaken, through buffering, partial writes and suspended calls, for
\* every size of send, of the kernel's buffer and of the stream.
THEOREM StreamIsInOrder == Safe => []StreamInOrder
<1>1. IInv => StreamInOrder
  BY DEF IInv, Inv1
<1> QED BY <1>1, Invariance, PTL

\* An end reported as connectionClosed after a flush or after the peer's close
\* has left no byte behind.
THEOREM QuietEndIsComplete == Safe => []QuietEndLosesNothing
<1>1. IInv => QuietEndLosesNothing
  BY DEF IInv, Inv1
<1> QED BY <1>1, Invariance, PTL

\* The assertion in pollWrite holds.
THEOREM WriteAssertionHolds == Safe => []WriteAssertion
<1>1. IInv => WriteAssertion
  BY DEF IInv, Inv2
<1> QED BY <1>1, Invariance, PTL


-----------------------------------------------------------------------------
(* The step properties. *)

\* A socket in GOING_DOWN never takes output again: it is flushed, lost or
\* closed.
THEOREM GoingDownStays == Safe => GoingDownIsFinal
<1>1. IInv /\ [Next]_vars
        => [m_state = "GOING_DOWN" => m_state' \in {"GOING_DOWN", "DOWN"}]_vars
  <2> SUFFICES ASSUME IInv, Next, m_state = "GOING_DOWN"
               PROVE  m_state' \in {"GOING_DOWN", "DOWN"}
    OBVIOUS
  <2> DEFINE Gone == m_state' = "DOWN"
             Same == m_state' = m_state
  <2>0. obj # "unborn" /\ caller # "send"
    BY DEF IInv, Inv2, UnbornIsFresh, SuspendedCall
  <2>1. CASE Create
    BY <2>0, <2>1 DEF Create, NoDescriptor, SetupFails, ConnectRefused,
       ConnectAtOnce, ConnectInProgress, Accept, AcceptRejected, UnixFails,
       UnixRejected, Unborn
  <2>2. CASE Close
    <3>1. CASE CloseDefers
      BY <3>1 DEF CloseDefers
    <3>2. ASSUME NEW force \in BOOLEAN, CloseNow(force) PROVE Gone
      BY <3>2 DEF CloseNow, Destroy
    <3> QED BY <2>2, <3>1, <3>2 DEF Close
  <2>3. ASSUME NEW n \in 1 .. MaxChunk, Send(n) PROVE FALSE
    BY <2>3 DEF Send, SendQueues, SendDirect, SendBuffers, SendFails, SendBlocks
  <2>4. ASSUME NEW sent, Erase(sent) PROVE Gone \/ Same
    BY <2>4 DEF Erase, KeepRest, GoIdle, FinishClosing, Destroy
  <2>5. CASE Loop
    <3>1. CASE Poll \/ PollReadData
      BY <3>1 DEF Poll, PollReadData, object
    <3>2. CASE PollError \/ PollReadEnds
      BY <3>2 DEF PollError, PollReadEnds, Destroy
    <3>3. CASE PollWrite
      BY <2>4, <3>3 DEF PollWrite, PollWriteEstablishes, PollWriteWaits,
         PollWriteSends, PollWriteBlocks, PollWriteFails, Destroy, object
    <3> QED BY <2>5, <3>1, <3>2, <3>3 DEF Loop, PollRead
  <2>6. CASE Resume
    BY <2>0, <2>4, <2>6 DEF Resume, BlockedSendTakes, SendResumes, SendCutShort,
       SendBreaks, PollWriteResumes, object
  <2>7. CASE Environment
    BY <2>7 DEF Environment, ConnectEnds, PeerCloses, PeerResets, PeerSends,
       PeerReads, MemoryShort, Kernel, object
  <2>8. CASE Done
    BY <2>8 DEF Done, vars, object
  <2> QED BY <2>1, <2>2, <2>3, <2>5, <2>6, <2>7, <2>8 DEF Next, Endpoint
<1> QED BY <1>1, Invariance, PTL DEF Safe, GoingDownIsFinal

\* The phase, state by state.
PhaseIs ==
  /\ obj = "unborn" => Phase = "new"
  /\ obj = "deleted" => Phase = "over"
  /\ obj = "live" /\ m_state = "GOING_UP" => Phase = "opening"
  /\ obj = "live" /\ m_state \in {"IDLE", "BUFFERING"} => Phase = "open"
  /\ obj = "live" /\ m_state = "GOING_DOWN" => Phase = "closing"

LEMMA PhaseFacts == IInv => PhaseIs
<1> SUFFICES ASSUME IInv PROVE PhaseIs
  OBVIOUS
<1>1. /\ obj = "unborn" => m_state = "UNINITIALIZED"
      /\ obj = "deleted" => m_state = "DOWN"
  BY DEF IInv, Inv2, UnbornIsFresh, DeletedIsStill
<1>2. CASE obj = "unborn"
  BY <1>1, <1>2 DEF Phase, PhaseIs
<1>3. CASE obj = "deleted"
  BY <1>1, <1>3 DEF Phase, PhaseIs
<1>4. CASE obj = "live"
  BY <1>4 DEF Phase, PhaseIs
<1> QED BY <1>2, <1>3, <1>4 DEF IInv, Inv1, TypeOK

\* Lengths of the wire are numbers, and bounded by what was offered.
SentIs == Len(wire) \in Nat /\ offered \in Nat
          /\ (obj = "live" => Len(Unsent) \in Nat /\ Len(wire) + Len(Unsent) <= offered)

LEMMA SentFacts == IInv => SentIs
<1> SUFFICES ASSUME IInv PROVE SentIs
  OBVIOUS
<1>1. wire \in Seq(Nat) /\ offered \in 0 .. MaxOffered /\ Unsent \in Seq(Nat)
  BY DEF IInv, Inv1, TypeOK, Unsent
<1>2. Len(wire) \in Nat /\ offered \in Nat /\ Len(Unsent) \in Nat
  BY <1>1, LenProperties, BoundsAssumption, SMT
<1> QED BY <1>2 DEF SentIs, IInv, Inv1, StreamInOrder

\* A step that leaves phase, offer and wire alone is a stutter.
LEMMA Stutters ==
  ASSUME UNCHANGED <<obj, m_state, offered, wire>>
  PROVE  UNCHANGED Abstract!vars
BY DEF Phase, Abstract!vars

\* An end without a flush.
LEMMA EndRefines ==
  ASSUME IInv, IInv', obj # "deleted", obj' = "deleted", UNCHANGED <<wire, offered>>
  PROVE  Abstract!Next
<1>1. PhaseIs /\ PhaseIs'
  BY PhaseFacts, PTL
<1>2. Phase # "over" /\ Phase' = "over"
  BY <1>1 DEF PhaseIs, IInv, Inv1, Inv2, TypeOK, PollMaskMatchesState
<1>3. Abstract!End
  BY <1>2 DEF Abstract!End
<1> QED BY <1>3 DEF Abstract!Next

\* send() is an offer.
LEMMA SendRefines ==
  ASSUME IInv, IInv', NEW n \in 1 .. MaxChunk, Send(n)
  PROVE  Abstract!Next
<1>0. /\ obj = "live" /\ obj' = "live" /\ offered' = offered + n
      /\ m_state \in {"IDLE", "BUFFERING", "GOING_UP"}
      /\ (m_state = "GOING_UP" => m_state' = "GOING_UP" /\ wire' = wire)
      /\ (m_state # "GOING_UP" => m_state' \in {"IDLE", "BUFFERING"})
  BY DEF Send, SendQueues, SendDirect, SendBuffers, SendFails, SendBlocks, Offer,
         Running, object
<1>1. PhaseIs /\ PhaseIs' /\ SentIs /\ SentIs'
  BY PhaseFacts, SentFacts, PTL
<1>2. Phase \in {"opening", "open"} /\ Phase' = Phase
  BY <1>0, <1>1 DEF PhaseIs
<1>3. Phase = "opening" => wire' = wire
  BY <1>0, <1>1 DEF PhaseIs
<1>4. /\ offered' \in Nat /\ Len(wire') \in Nat /\ offered' > offered
      /\ Len(wire') <= offered'
  BY <1>0, <1>1, SMT DEF SentIs
<1>5. Len(wire') >= Len(wire)
  <2>1. wire \in Seq(Nat) /\ n \in Nat \ {0}
    BY BoundsAssumption, SMT DEF IInv, Inv1, TypeOK
  <2>2. CASE UNCHANGED wire
    BY <1>1, <2>2, SMT DEF SentIs
  <2>3. ASSUME NEW t \in Seq(Nat), wire' = wire \o t
        PROVE  Len(wire') >= Len(wire)
    <3>1. Len(wire') = Len(wire) + Len(t) /\ Len(t) \in Nat
      BY <2>1, <2>3, JoinFacts, LenProperties
    <3> QED BY <1>1, <3>1, SMT DEF SentIs
  <2>4. NewBytes(n) \in Seq(Nat) /\ Len(NewBytes(n)) = n
    BY <1>1, <2>1, NewBytesFacts DEF SentIs
  <2>5. CASE SendDirect(n)
    BY <2>3, <2>4, <2>5 DEF SendDirect
  <2>6. CASE SendBuffers(n) \/ SendBlocks(n)
    <3>1. room \in 0 .. Len(NewBytes(n))
      <4>1. room < n /\ room \in 0 .. SockBuf
        BY <2>6 DEF SendBuffers, SendBlocks, IInv, Inv1, TypeOK
      <4> QED BY <2>1, <2>4, <4>1, BoundsAssumption, SMT
    <3>2. Take(NewBytes(n), room) \in Seq(Nat)
      BY <2>4, <3>1, TakeFacts
    <3> QED BY <2>3, <2>6, <3>2 DEF SendBuffers, SendBlocks
  <2> QED BY <2>2, <2>5, <2>6 DEF Send, SendQueues, SendFails
<1>6. Abstract!Offer
  BY <1>2, <1>3, <1>4, <1>5 DEF Abstract!Offer
<1> QED BY <1>6 DEF Abstract!Next

\* More of the buffered bytes on the wire, in a socket that lives on.
LEMMA TransferRefines ==
  ASSUME IInv, IInv', obj = "live", obj' = "live",
         m_state \in {"IDLE", "BUFFERING", "GOING_DOWN"},
         m_state = "GOING_DOWN" <=> m_state' = "GOING_DOWN",
         m_state' \in {"IDLE", "BUFFERING", "GOING_DOWN"},
         UNCHANGED offered,
         NEW t \in Seq(Nat), wire' = wire \o t
  PROVE  [Abstract!Next]_Abstract!vars
<1>1. PhaseIs /\ PhaseIs' /\ SentIs /\ SentIs'
  BY PhaseFacts, SentFacts, PTL
<1>2. Phase \in {"open", "closing"} /\ Phase' = Phase
  BY <1>1 DEF PhaseIs
<1>3. Len(wire') = Len(wire) + Len(t) /\ Len(t) \in Nat
  BY JoinFacts, LenProperties DEF IInv, Inv1, TypeOK
<1>4. Len(wire') \in Nat /\ Len(wire') <= offered
  BY <1>1, SMT DEF SentIs
<1>5. CASE Len(t) = 0
  <2>1. Len(wire') = Len(wire)
    BY <1>1, <1>3, <1>5, SMT DEF SentIs
  <2> QED BY <1>2, <2>1 DEF Abstract!vars
<1>6. CASE Len(t) # 0
  <2>1. Len(wire') > Len(wire)
    BY <1>1, <1>3, <1>6, SMT DEF SentIs
  <2>2. Abstract!Transfer
    BY <1>2, <1>4, <2>1 DEF Abstract!Transfer
  <2> QED BY <2>2 DEF Abstract!Next
<1> QED BY <1>5, <1>6

\* The end of pollWrite is a transfer, or the end of the flush.
LEMMA EraseRefines ==
  ASSUME IInv, IInv', obj = "live", m_state \in {"BUFFERING", "GOING_DOWN"},
         NEW sent, Erase(sent), NEW t \in Seq(Nat), wire' = wire \o t,
         UNCHANGED dropped, ~dropped
  PROVE  [Abstract!Next]_Abstract!vars
<1>1. CASE KeepRest(sent) \/ GoIdle(sent)
  BY <1>1, TransferRefines DEF KeepRest, GoIdle
<1>2. CASE FinishClosing(sent)
  <2>1. /\ m_state = "GOING_DOWN" /\ obj' = "deleted" /\ ended' = "flushed"
        /\ UNCHANGED offered
    BY <1>2 DEF FinishClosing, Destroy
  <2>2. PhaseIs /\ PhaseIs'
    BY PhaseFacts, PTL
  <2>3. Phase = "closing" /\ Phase' = "over"
    BY <2>1, <2>2 DEF PhaseIs
  <2>4. Len(wire') = offered
    BY <2>1 DEF IInv, Inv1, QuietEndLosesNothing
  <2>5. Abstract!Flush
    BY <2>1, <2>3, <2>4 DEF Abstract!Flush
  <2> QED BY <2>5 DEF Abstract!Next
<1> QED BY <1>1, <1>2 DEF Erase

\* A new socket starts, or is over at once.
LEMMA CreateRefines ==
  ASSUME IInv, IInv', Create
  PROVE  Abstract!Next
<1>1. PhaseIs /\ PhaseIs'
  BY PhaseFacts, PTL
<1>2. obj = "unborn" /\ UNCHANGED <<wire, offered>>
  BY DEF Create, NoDescriptor, SetupFails, ConnectRefused, ConnectAtOnce,
     ConnectInProgress, Accept, AcceptRejected, UnixFails, UnixRejected,
     Unborn, Destroy, history
<1>3. CASE obj' = "deleted"
  BY <1>2, <1>3, EndRefines
<1>4. CASE obj' = "live" /\ m_state' \in {"GOING_UP", "IDLE"}
  <2>1. Phase = "new" /\ Phase' \in {"opening", "open"}
    BY <1>1, <1>2, <1>4 DEF PhaseIs
  <2>2. Abstract!Start
    BY <1>2, <2>1 DEF Abstract!Start
  <2> QED BY <2>2 DEF Abstract!Next
<1> QED
  BY <1>3, <1>4 DEF Create, NoDescriptor, SetupFails, ConnectRefused,
     ConnectAtOnce, ConnectInProgress, Accept, AcceptRejected, UnixFails,
     UnixRejected, Destroy, Register

\* close() shuts the connection, or ends it.
LEMMA CloseRefines ==
  ASSUME IInv, IInv', Close
  PROVE  Abstract!Next
<1>1. CASE CloseDefers
  <2>0. /\ obj = "live" /\ caller = "none" /\ m_state = "BUFFERING"
        /\ obj' = "live" /\ m_state' = "GOING_DOWN" /\ UNCHANGED <<wire, offered>>
    BY <1>1 DEF CloseDefers, Running, history
  <2>1. PhaseIs /\ PhaseIs' /\ SentIs
    BY PhaseFacts, SentFacts, PTL
  <2>2. Phase = "open" /\ Phase' = "closing"
    BY <2>0, <2>1 DEF PhaseIs
  <2>3. Unsent = m_outputBuffer /\ m_outputBuffer # <<>> /\ m_outputBuffer \in Seq(Nat)
    BY <2>0 DEF Unsent, IInv, Inv1, TypeOK, PollMaskMatchesState
  <2>4. Len(Unsent) \in Nat \ {0} /\ Len(wire) + Len(Unsent) <= offered
    BY <2>0, <2>1, <2>3, EmptySeq DEF SentIs
  <2>5. Len(wire) < offered
    BY <2>1, <2>4, SMT DEF SentIs
  <2>6. Abstract!Shut
    BY <2>0, <2>2, <2>5 DEF Abstract!Shut
  <2> QED BY <2>6 DEF Abstract!Next
<1>2. ASSUME NEW force \in BOOLEAN, CloseNow(force)
      PROVE  Abstract!Next
  BY <1>2, EndRefines DEF CloseNow, Running, Destroy
<1> QED BY <1>1, <1>2 DEF Close

\* The event loop.
LEMMA LoopRefines ==
  ASSUME IInv, IInv', Loop
  PROVE  [Abstract!Next]_Abstract!vars
<1>1. CASE Poll \/ PollReadData \/ PollWriteWaits
  BY <1>1, Stutters DEF Poll, PollReadData, PollWriteWaits, object, history
<1>2. CASE PollError \/ PollReadEnds
  BY <1>2, EndRefines DEF PollError, PollReadEnds, DispatchesIn, Running, Destroy
<1>3. CASE PollWriteFails
  <2>1. obj # "deleted"
    BY <1>3 DEF PollWriteFails, Writes, DispatchesOut, Running, IInv, Inv2, DeletedIsStill
  <2> QED BY <1>3, <2>1, EndRefines DEF PollWriteFails, Destroy
<1>4. CASE PollWriteEstablishes
  <2>0. /\ obj = "live" /\ m_state = "GOING_UP" /\ obj' = "live"
        /\ m_state' \in {"IDLE", "BUFFERING"} /\ UNCHANGED <<wire, offered>>
    BY <1>4 DEF PollWriteEstablishes, DispatchesOut, Running
  <2>1. PhaseIs /\ PhaseIs'
    BY PhaseFacts, PTL
  <2>2. Phase = "opening" /\ Phase' = "open"
    BY <2>0, <2>1 DEF PhaseIs
  <2>3. Abstract!Opened
    BY <2>0, <2>2 DEF Abstract!Opened
  <2> QED BY <2>3 DEF Abstract!Next
<1>5. CASE PollWriteSends \/ PollWriteBlocks
  <2>0. Writes
    BY <1>5 DEF PollWriteSends, PollWriteBlocks
  <2>1. /\ obj = "live" /\ ~dropped /\ m_state \in {"BUFFERING", "GOING_DOWN"}
        /\ m_outputBuffer \in Seq(Nat) /\ Len(m_outputBuffer) \in Nat /\ room \in Nat
    BY <2>0, Writing
  <2>2. CASE PollWriteSends
    <3> DEFINE sent == Least(room, Len(m_outputBuffer))
    <3>1. sent \in 0 .. Len(m_outputBuffer)
      BY <2>1, SMT DEF Least
    <3> HIDE DEF sent
    <3>2. wire' = wire \o Take(m_outputBuffer, sent) /\ Erase(sent) /\ UNCHANGED dropped
      BY <2>2 DEF PollWriteSends, sent
    <3>3. Take(m_outputBuffer, sent) \in Seq(Nat)
      BY <2>1, <3>1, TakeFacts
    <3> QED BY <2>1, <3>2, <3>3, EraseRefines
  <2>3. CASE PollWriteBlocks
    <3>1. room \in 0 .. Len(m_outputBuffer)
      BY <2>1, <2>3, SMT DEF PollWriteBlocks
    <3>2. Take(m_outputBuffer, room) \in Seq(Nat)
      BY <2>1, <3>1, TakeFacts
    <3>3. /\ wire' = wire \o Take(m_outputBuffer, room)
          /\ UNCHANGED <<obj, m_state, offered>>
      BY <2>3 DEF PollWriteBlocks, object
    <3> QED BY <2>1, <3>2, <3>3, TransferRefines
  <2> QED BY <1>5, <2>2, <2>3
<1> QED BY <1>1, <1>2, <1>3, <1>4, <1>5 DEF Loop, PollWrite, PollRead

\* A suspended ::send.
LEMMA ResumeRefines ==
  ASSUME IInv, IInv', Resume
  PROVE  [Abstract!Next]_Abstract!vars
<1>0. caller # "none"
  BY DEF Resume, BlockedSendTakes, SendResumes, SendCutShort, SendBreaks, PollWriteResumes
<1>1. /\ obj = "live" /\ ~dropped /\ arg \in Seq(Nat) /\ Len(arg) \in Nat
      /\ wire \in Seq(Nat) /\ caller \in {"send", "pollWrite"}
  BY <1>0, Suspended
<1>2. /\ caller = "send" => m_state = "IDLE"
      /\ caller = "pollWrite" => m_state \in {"BUFFERING", "GOING_DOWN"}
  BY DEF IInv, Inv2, SuspendedCall
<1>3. CASE BlockedSendTakes
  <2> DEFINE k == Least(room, Len(arg))
  <2>1. k \in 0 .. Len(arg)
    <3>1. room \in Nat
      BY BoundsAssumption, SMT DEF IInv, Inv1, TypeOK
    <3> QED BY <1>1, <3>1, SMT DEF Least
  <2> HIDE DEF k
  <2>2. wire' = wire \o Take(arg, k) /\ UNCHANGED <<obj, m_state, offered>>
    BY <1>3 DEF BlockedSendTakes, k, object
  <2>3. Take(arg, k) \in Seq(Nat)
    BY <1>1, <2>1, TakeFacts
  <2> QED BY <1>1, <1>2, <2>2, <2>3, TransferRefines
<1>4. CASE SendResumes \/ SendCutShort \/ SendBreaks
  <2>1. /\ obj' = "live" /\ m_state = "IDLE" /\ m_state' \in {"IDLE", "BUFFERING"}
        /\ UNCHANGED <<wire, offered>>
    BY <1>1, <1>2, <1>4 DEF SendResumes, SendCutShort, SendBreaks, object, history
  <2>2. PhaseIs /\ PhaseIs'
    BY PhaseFacts, PTL
  <2>3. Phase' = Phase
    BY <1>1, <2>1, <2>2 DEF PhaseIs
  <2> QED BY <2>1, <2>3 DEF Abstract!vars
<1>5. CASE PollWriteResumes
  <2>1. /\ caller = "pollWrite" /\ Erase(done) /\ UNCHANGED <<wire, dropped>>
    BY <1>5 DEF PollWriteResumes
  <2>2. <<>> \in Seq(Nat) /\ wire' = wire \o <<>>
    BY <1>1, <2>1, EmptySeq, ConcatEmptySeq
  <2> QED BY <1>1, <1>2, <2>1, <2>2, EraseRefines
<1> QED BY <1>3, <1>4, <1>5 DEF Resume

\* The socket implements Connection: an endpoint that sees phase, bytes offered
\* and bytes on the wire cannot tell the code, its buffer, its partial writes
\* and its poll mask from the abstract connection.
THEOREM Refines == Safe => AbstractSafe
<1>1. Init => Abstract!Init
  <2> SUFFICES ASSUME Init PROVE Abstract!Init
    OBVIOUS
  <2>1. Phase = "new" /\ Len(wire) = 0 /\ offered = 0
    BY EmptySeq DEF Init, Phase
  <2> QED BY <2>1 DEF Abstract!Init
<1>2. IInv /\ IInv' /\ [Next]_vars => [Abstract!Next]_Abstract!vars
  <2> SUFFICES ASSUME IInv, IInv', [Next]_vars
               PROVE  [Abstract!Next]_Abstract!vars
    OBVIOUS
  <2>1. CASE Create
    BY <2>1, CreateRefines
  <2>2. CASE Endpoint
    BY <2>2, CloseRefines, SendRefines DEF Endpoint
  <2>3. CASE Loop
    BY <2>3, LoopRefines
  <2>4. CASE Resume
    BY <2>4, ResumeRefines
  <2>5. CASE Environment
    BY <2>5, Stutters
    DEF Environment, ConnectEnds, PeerCloses, PeerResets, PeerSends, PeerReads,
        MemoryShort, Kernel, object, history
  <2>6. CASE Done \/ UNCHANGED vars
    BY <2>6, Stutters DEF Done, vars, object, history
  <2> QED BY <2>1, <2>2, <2>3, <2>4, <2>5, <2>6 DEF Next
<1> QED BY <1>1, <1>2, Invariance, PTL DEF Safe, AbstractSafe, Abstract!Safe

-----------------------------------------------------------------------------
(* What the endpoint is told.                                               *)

\* What the last poll() found is still so: an error is that of a connection
\* that broke, input is that of a connection that was made, and the end of a
\* connection attempt goes to pollWrite before anything goes to pollRead.
PendingIsRight ==
  /\ "ERR" \in pending => Broken
  /\ "IN" \in pending => conn \notin {"none", "connecting"}
  /\ m_state = "GOING_UP" /\ "IN" \in pending => "OUT" \in pending

\* Nothing comes in before there is a connection, and nothing has gone out
\* before the socket knows that there is.
NothingEarly ==
  obj # "deleted" =>
    /\ conn \in {"none", "connecting"} => inData = 0
    /\ m_state \in {"UNINITIALIZED", "GOING_UP"} => room = SockBuf

\* What an endpoint may have heard before its socket ends.
Begun(log) ==
  /\ log \in Seq(Calls) /\ Len(log) <= 2
  /\ Len(log) > 0 => log[1] = "connectionEstablished"
  /\ Len(log) > 1 => log[2] = "dataRead"

CallsSoFar ==
  /\ obj = "unborn" => calls = <<>>
  /\ obj = "live" => Begun(calls) /\ (Len(calls) = 0 <=> m_state = "GOING_UP")
  /\ obj = "deleted" =>
       /\ ended # "no"
       /\ ended \in {"no descriptor", "rejected"} => calls = <<>>
       /\ ended = "no descriptor" => origin # "accept"
       /\ ended \notin {"no descriptor", "rejected", "flushed"} =>
            \E begin : \E outcome \in Outcomes :
              Begun(begin) /\ calls = begin \o Told(outcome)

Heard == PendingIsRight /\ NothingEarly /\ CallsSoFar

\* Nothing, and what comes after nothing and after connectionEstablished.
LEMMA Begins ==
  /\ Begun(<<>>) /\ Len(<<>>) = 0
  /\ \A log : Begun(log) /\ Len(log) = 0 =>
       Begun(Append(log, "connectionEstablished")) /\ Len(Append(log, "connectionEstablished")) = 1
  /\ \A log : Begun(log) /\ Len(log) = 1 =>
       Begun(Append(log, "dataRead")) /\ Len(Append(log, "dataRead")) = 2
<1>1. Begun(<<>>) /\ Len(<<>>) = 0
  BY EmptySeq, SMT DEF Begun
<1>2. ASSUME NEW log, NEW c \in Calls, Begun(log)
      PROVE  /\ Append(log, c) \in Seq(Calls) /\ Len(Append(log, c)) = Len(log) + 1
             /\ Append(log, c)[Len(log) + 1] = c
             /\ \A i \in 1 .. Len(log) : Append(log, c)[i] = log[i]
             /\ Len(log) \in Nat
  BY <1>2, AppendProperties, LenProperties DEF Begun
<1>3. "connectionEstablished" \in Calls /\ "dataRead" \in Calls
  BY DEF Calls
<1>4. ASSUME NEW log, Begun(log), Len(log) = 0
      PROVE  Begun(Append(log, "connectionEstablished")) /\ Len(Append(log, "connectionEstablished")) = 1
  <2>1. PICK t : t = Append(log, "connectionEstablished")
    OBVIOUS
  <2>2. t \in Seq(Calls) /\ Len(t) = 0 + 1 /\ t[0 + 1] = "connectionEstablished"
    BY <1>2, <1>3, <1>4, <2>1
  <2>3. Begun(t) /\ Len(t) = 1
    BY <2>2, SMT DEF Begun
  <2> QED BY <2>1, <2>3
<1>5. ASSUME NEW log, Begun(log), Len(log) = 1
      PROVE  Begun(Append(log, "dataRead")) /\ Len(Append(log, "dataRead")) = 2
  <2>1. PICK t : t = Append(log, "dataRead")
    OBVIOUS
  <2>2. t \in Seq(Calls) /\ Len(t) = 1 + 1 /\ t[1 + 1] = "dataRead" /\ t[1] = log[1]
    <3>1. 1 \in 1 .. Len(log)
      BY <1>5, SMT
    <3>2. /\ t \in Seq(Calls) /\ Len(t) = Len(log) + 1 /\ t[Len(log) + 1] = "dataRead"
          /\ \A i \in 1 .. Len(log) : t[i] = log[i]
      BY <1>2, <1>3, <1>5, <2>1
    <3> QED BY <1>5, <3>1, <3>2
  <2>3. log[1] = "connectionEstablished"
    BY <1>5 DEF Begun
  <2>4. Begun(t) /\ Len(t) = 2
    BY <2>2, <2>3, SMT DEF Begun
  <2> QED BY <2>1, <2>4
<1> QED BY <1>1, <1>4, <1>5

\* An end that is told.
LEMMA EndIsTold ==
  ASSUME IInv, Heard, obj # "deleted", NEW outcome \in Outcomes, NEW cause, NEW bad,
         cause \notin {"no", "no descriptor", "rejected"}, Destroy(Told(outcome), cause, bad)
  PROVE  Heard'
<1>1. PendingIsRight' /\ NothingEarly'
  BY DEF Destroy, PendingIsRight, NothingEarly
<1>2. Begun(calls)
  BY Begins DEF Heard, CallsSoFar, IInv, Inv1, TypeOK
<1>3. PICK begin : begin = calls /\ Begun(begin)
  BY <1>2
<1>4. obj' = "deleted" /\ calls' = begin \o Told(outcome) /\ ended' = cause /\ origin' = origin
  BY <1>3 DEF Destroy
<1>5. Told(outcome)' = Told(outcome)
  BY <1>4 DEF Told
<1>6. \E b : \E o \in Outcomes : Begun(b) /\ calls' = b \o Told(o)'
  BY <1>3, <1>4, <1>5
<1>7. CallsSoFar'
  BY <1>4, <1>6 DEF CallsSoFar, Begun
<1> QED BY <1>1, <1>7 DEF Heard

\* Nothing is appended.
LEMMA NothingMore == <<>> \o <<>> = <<>>
BY SMT

\* An end that is not.
LEMMA EndIsQuiet ==
  ASSUME Heard, obj = "unborn", NEW cause, NEW bad, Destroy(<<>>, cause, bad),
         (cause = "no descriptor" /\ origin # "accept") \/ cause = "rejected"
  PROVE  Heard'
<1>1. calls' = <<>>
  <2>1. calls = <<>> /\ calls' = calls \o <<>>
    BY DEF Heard, CallsSoFar, Destroy
  <2> QED BY <2>1, NothingMore
<1> QED BY <1>1 DEF Destroy, Heard, PendingIsRight, NothingEarly, CallsSoFar

\* Nobody is told anything.
LEMMA NothingTold ==
  ASSUME CallsSoFar, UNCHANGED <<obj, origin, calls, ended>>, m_state' = "GOING_UP" <=> m_state = "GOING_UP"
  PROVE  CallsSoFar'
BY DEF CallsSoFar, Begun, Told

\* The constructors and connectStream.
LEMMA CreateIsHeard ==
  ASSUME IInv, Heard, Create
  PROVE  Heard'
<1>1. obj = "unborn" /\ obj # "deleted" /\ "connectionClosed" \in Outcomes
  BY DEF Create, NoDescriptor, SetupFails, ConnectRefused, ConnectAtOnce, ConnectInProgress, Accept,
         AcceptRejected, UnixFails, UnixRejected, Unborn, Outcomes
<1>2. calls = <<>> /\ pending = {} /\ inData = 0 /\ room = SockBuf
  BY <1>1 DEF IInv, Inv2, UnbornIsFresh, Heard, CallsSoFar, NothingEarly
<1>3. CASE NoDescriptor \/ (UnixFails /\ ended' = "no descriptor")
  <2>1. PICK bad : Destroy(<<>>, "no descriptor", bad)
    BY <1>3 DEF NoDescriptor, UnixFails, Destroy
  <2>2. origin # "accept"
    BY <1>3 DEF NoDescriptor, UnixFails, Unborn
  <2> QED BY <1>1, <2>1, <2>2, EndIsQuiet
<1>4. CASE AcceptRejected \/ UnixRejected
  <2>1. PICK bad : Destroy(<<>>, "rejected", bad)
    BY <1>4 DEF AcceptRejected, UnixRejected
  <2> QED BY <1>1, <2>1, EndIsQuiet
<1>5. CASE SetupFails \/ ConnectRefused \/ (UnixFails /\ ended' # "no descriptor")
  <2>1. \/ Destroy(Told("connectionClosed"), "setup", {"closed twice"})
        \/ Destroy(Told("connectionClosed"), "refused", {})
        \/ Destroy(Told("connectionClosed"), "refused", {"deleted twice"})
    <3>1. Destroy(<<>>, "no descriptor", {"deleted twice"}) => ended' = "no descriptor"
      BY DEF Destroy
    <3> QED BY <1>5, <3>1 DEF SetupFails, ConnectRefused, UnixFails
  <2> QED BY <1>1, <2>1, EndIsTold
<1>6. CASE ConnectAtOnce \/ Accept
  <2>1. /\ obj' = "live" /\ conn' = "up" /\ m_state' = "IDLE" /\ pending' = {}
        /\ calls' = Append(<<>>, "connectionEstablished")
    BY <1>2, <1>6 DEF ConnectAtOnce, Accept, Register
  <2>2. Begun(calls') /\ Len(calls') = 1
    BY <2>1, Begins
  <2>3. CallsSoFar'
    BY <2>1, <2>2, SMT DEF CallsSoFar, Begun
  <2> QED BY <2>1, <2>3 DEF Heard, PendingIsRight, NothingEarly
<1>7. CASE ConnectInProgress
  <2>1. /\ obj' = "live" /\ conn' = "connecting" /\ m_state' = "GOING_UP" /\ pending' = {}
        /\ calls' = <<>> /\ inData' = 0 /\ room' = room
    BY <1>2, <1>7 DEF ConnectInProgress, Register, history
  <2>2. CallsSoFar'
    BY <2>1, Begins DEF CallsSoFar, Begun
  <2> QED BY <1>2, <2>1, <2>2 DEF Heard, PendingIsRight, NothingEarly
<1> QED BY <1>3, <1>4, <1>5, <1>6, <1>7 DEF Create

\* What the endpoint does: send() and close().
LEMMA EndpointIsHeard ==
  ASSUME IInv, Heard, Endpoint \/ (Resume /\ ~PollWriteResumes)
  PROVE  Heard'
<1>1. ASSUME NEW force \in BOOLEAN, CloseNow(force) PROVE Heard'
  <2>1. obj # "deleted"
    BY <1>1 DEF CloseNow, Running
  <2>2. PICK outcome \in Outcomes, cause \in {"forced", "closed"} : Destroy(Told(outcome), cause, {})
    BY <1>1 DEF CloseNow, Outcomes
  <2> QED BY <2>1, <2>2, EndIsTold
<1>2. CASE CloseDefers \/ (Resume /\ ~PollWriteResumes) \/ \E n \in 1 .. MaxChunk : Send(n)
  <2>1. /\ UNCHANGED <<obj, origin, calls, ended, pending, inData>>
        /\ m_state' = m_state \/ (m_state # "GOING_UP" /\ m_state' \notin {"UNINITIALIZED", "GOING_UP"})
    BY <1>2 DEF Resume, CloseDefers, Send, SendQueues, SendDirect, SendBuffers, SendFails, SendBlocks,
                BlockedSendTakes, SendResumes, SendCutShort, SendBreaks, Returned, IInv, Inv2, SuspendedCall,
                object, kernel, history, call
  <2>2. conn' = conn \/ (Broken /\ conn' = "dead")
    BY <1>2 DEF Resume, CloseDefers, Send, SendQueues, SendDirect, SendBuffers, SendFails, SendBlocks,
                BlockedSendTakes, SendResumes, SendCutShort, SendBreaks, kernel
  <2>3. room' = room \/ m_state' \notin {"UNINITIALIZED", "GOING_UP"}
    <3>1. caller # "none" => m_state \notin {"UNINITIALIZED", "GOING_UP"}
      BY DEF IInv, Inv1, Inv2, TypeOK, SuspendedCall
    <3> QED BY <1>2, <3>1 DEF Resume, CloseDefers, Send, SendQueues, SendDirect, SendBuffers, SendFails,
                SendBlocks, BlockedSendTakes, SendResumes, SendCutShort, SendBreaks, kernel, object
  <2>4. PendingIsRight' /\ NothingEarly'
    BY <2>1, <2>2, <2>3 DEF Heard, PendingIsRight, NothingEarly, Broken
  <2>5. CallsSoFar'
    BY <2>1, NothingTold DEF Heard
  <2> QED BY <2>4, <2>5 DEF Heard
<1> QED BY <1>1, <1>2 DEF Endpoint, Close

\* What pollWrite does when a ::send has returned.
LEMMA EraseIsHeard ==
  ASSUME IInv, Heard, NEW sent, Erase(sent), obj = "live", m_state # "GOING_UP"
  PROVE  Heard'
<1>1. CASE FinishClosing(sent)
  BY <1>1 DEF FinishClosing, Destroy, Heard, PendingIsRight, NothingEarly, CallsSoFar
<1>2. CASE KeepRest(sent) \/ GoIdle(sent)
  <2>1. /\ UNCHANGED <<obj, origin, calls, ended, inData, conn>> /\ pending' = pending \ {"OUT"}
        /\ m_state' = m_state \/ m_state' = "IDLE"
    BY <1>2 DEF KeepRest, GoIdle
  <2>2. m_state \notin {"UNINITIALIZED", "GOING_UP"}
    BY DEF IInv, Inv1, PollMaskMatchesState
  <2>3. PendingIsRight' /\ NothingEarly'
    BY <2>1, <2>2 DEF Heard, PendingIsRight, NothingEarly, Broken
  <2>4. CallsSoFar'
    BY <2>1, <2>2, NothingTold DEF Heard
  <2> QED BY <2>3, <2>4 DEF Heard
<1> QED BY <1>1, <1>2 DEF Erase

\* What the loop calls: pollRead, pollWrite and pollError.
LEMMA LoopIsHeard ==
  ASSUME IInv, Heard, Loop \/ PollWriteResumes
  PROVE  Heard'
<1>0. obj = "live"
  <2>1. caller # "none" => obj = "live"
    BY DEF IInv, Inv1, Inv2, TypeOK, UnbornIsFresh, DeletedIsStill
  <2> QED BY <2>1 DEF Loop, Poll, PollError, PollWrite, PollWriteEstablishes, PollWriteWaits, PollWriteSends,
                      PollWriteBlocks, PollWriteFails, PollRead, PollReadData, PollReadEnds, PollWriteResumes,
                      Writes, DispatchesOut, DispatchesIn, Running
<1>1. CASE Poll
  <2>1. /\ UNCHANGED <<obj, origin, calls, ended, m_state, inData, room, conn>>
        /\ pending' = Revents
    BY <1>1 DEF Poll, object, kernel, history
  <2>2. m_state = "GOING_UP" => room = SockBuf /\ m_ioSocketState = "BUFFERING"
    BY <1>0 DEF Heard, NothingEarly, IInv, Inv1, PollMaskMatchesState
  <2>3. conn \in Conns /\ conn # "none" /\ (conn \in {"none", "connecting"} => ~(inData > 0)) /\ SockBuf > 0
    <3>1. conn \in {"none", "connecting"} => inData = 0
      BY <1>0 DEF Heard, NothingEarly
    <3>2. ~(0 > 0) /\ SockBuf > 0
      BY BoundsAssumption, SMT
    <3> QED BY <1>0, <3>1, <3>2 DEF IInv, Inv1, TypeOK, PollMaskMatchesState
  <2>4. /\ "ERR" \in Revents => conn = "reset"
        /\ "IN" \in Revents => Readable
        /\ m_ioSocketState = "BUFFERING" /\ Writable => "OUT" \in Revents
    BY DEF Revents, Events
  <2>5. PendingIsRight'
    <3>1. Readable => conn \notin {"none", "connecting"}
      BY <2>3 DEF Readable, Broken
    <3>2. m_state = "GOING_UP" /\ Readable => Writable
      BY <2>2, <2>3, <3>1 DEF Writable, Connected, Broken, Conns
    <3> QED BY <2>1, <2>2, <2>4, <3>1, <3>2 DEF PendingIsRight, Broken
  <2>6. NothingEarly' /\ CallsSoFar'
    BY <2>1, NothingTold DEF Heard, NothingEarly
  <2> QED BY <2>5, <2>6 DEF Heard
<1>2. CASE PollError \/ PollWriteFails \/ PollReadEnds
  <2>1. PICK outcome \in Outcomes, cause \in {"lost", "eof"} : Destroy(Told(outcome), cause, {})
    BY <1>2 DEF PollError, PollWriteFails, PollReadEnds, Outcomes
  <2> QED BY <1>0, <2>1, EndIsTold
<1>3. CASE PollWriteEstablishes
  <2>1. /\ m_state = "GOING_UP" /\ m_state' \in {"IDLE", "BUFFERING"} /\ obj' = "live"
        /\ calls' = Append(calls, "connectionEstablished") /\ pending' = pending \ {"OUT"}
        /\ UNCHANGED <<conn, inData>>
    BY <1>0, <1>3 DEF PollWriteEstablishes, kernel
  <2>2. Begun(calls) /\ Len(calls) = 0
    BY <1>0, <2>1 DEF Heard, CallsSoFar
  <2>3. Begun(calls') /\ Len(calls') = 1
    BY <2>1, <2>2, Begins
  <2>4. Len(calls') # 0
    BY <2>3
  <2>5. CallsSoFar'
    BY <2>1, <2>3, <2>4 DEF CallsSoFar, Begun
  <2>6. PendingIsRight' /\ NothingEarly'
    BY <1>0, <2>1 DEF Heard, PendingIsRight, NothingEarly, Broken
  <2> QED BY <2>5, <2>6 DEF Heard
<1>4. CASE PollWriteWaits \/ PollWriteBlocks
  <2>1. UNCHANGED <<obj, origin, calls, ended, m_state, inData, conn>> /\ pending' \in {pending, pending \ {"OUT"}}
    BY <1>4 DEF PollWriteWaits, PollWriteBlocks, object, kernel, history
  <2>2. m_state \notin {"UNINITIALIZED", "GOING_UP"}
    BY <1>0, <1>4 DEF PollWriteWaits, PollWriteBlocks, Writes, IInv, Inv1, PollMaskMatchesState
  <2>3. PendingIsRight' /\ NothingEarly'
    BY <2>1, <2>2 DEF Heard, PendingIsRight, NothingEarly, Broken
  <2>4. CallsSoFar'
    BY <2>1, NothingTold DEF Heard
  <2> QED BY <2>3, <2>4 DEF Heard
<1>5. CASE PollWriteSends \/ PollWriteResumes
  <2>1. m_state # "GOING_UP"
    BY <1>5 DEF PollWriteSends, PollWriteResumes, Writes, IInv, Inv2, SuspendedCall
  <2>2. \E sent : Erase(sent)
    BY <1>5 DEF PollWriteSends, PollWriteResumes
  <2> QED BY <1>0, <2>1, <2>2, EraseIsHeard
<1>6. CASE PollReadData
  <2>1. /\ pending = {"IN"} /\ pending' = {} /\ inData > 0
        /\ UNCHANGED <<obj, origin, ended, m_state, conn, room>>
        /\ calls' = (IF calls # <<>> /\ calls[Len(calls)] = "dataRead" THEN calls ELSE Append(calls, "dataRead"))
    BY <1>6 DEF PollReadData, DispatchesIn, object
  <2>2. m_state # "GOING_UP" /\ conn \notin {"none", "connecting"}
    BY <2>1 DEF Heard, PendingIsRight
  <2>3. Begun(calls) /\ Len(calls) # 0 /\ calls # <<>>
    BY <1>0, <2>2, Begins DEF Heard, CallsSoFar
  <2>4. Len(calls) \in Nat /\ Len(calls) <= 2
    BY <2>3, LenProperties DEF Begun
  <2>5. Len(calls) = 1 \/ Len(calls) = 2
    <3>1. PICK n : n = Len(calls)
      OBVIOUS
    <3>2. n \in Nat /\ n <= 2 /\ n # 0
      BY <2>3, <2>4, <3>1
    <3>3. n = 1 \/ n = 2
      BY <3>2, SMT
    <3> QED BY <3>1, <3>3
  <2>6. Begun(calls') /\ Len(calls') # 0
    <3>1. CASE Len(calls) = 1
      <4>1. Begun(Append(calls, "dataRead")) /\ Len(Append(calls, "dataRead")) = 2
        BY <2>3, <3>1, Begins
      <4>2. Len(Append(calls, "dataRead")) # 0
        BY <4>1
      <4> QED BY <2>1, <2>3, <4>1, <4>2
    <3>2. CASE Len(calls) = 2
      <4>1. calls[Len(calls)] = "dataRead"
        BY <2>3, <3>2 DEF Begun
      <4>2. calls' = calls
        BY <2>1, <2>3, <4>1
      <4> QED BY <2>3, <4>2 DEF Begun
    <3> QED BY <2>5, <3>1, <3>2
  <2>7. CallsSoFar'
    BY <1>0, <2>1, <2>2, <2>6 DEF CallsSoFar, Begun
  <2>8. PendingIsRight' /\ NothingEarly'
    BY <1>0, <2>1, <2>2 DEF Heard, PendingIsRight, NothingEarly
  <2> QED BY <2>7, <2>8 DEF Heard
<1> QED BY <1>1, <1>2, <1>3, <1>4, <1>5, <1>6 DEF Loop, PollWrite, PollRead

\* Peer, kernel and signals.
LEMMA EnvironmentIsHeard ==
  ASSUME IInv, Heard, Environment \/ UNCHANGED vars
  PROVE  Heard'
<1>1. UNCHANGED <<obj, origin, calls, ended, m_state, pending>>
  BY DEF Environment, ConnectEnds, PeerCloses, PeerResets, PeerSends, PeerReads, MemoryShort, Kernel, vars,
         object, history
<1>2. /\ Broken => Broken'
      /\ conn \notin {"none", "connecting"} => conn' \notin {"none", "connecting"}
      /\ conn' \in {"none", "connecting"} => conn \in {"none", "connecting"} /\ inData' = inData
  BY DEF Environment, ConnectEnds, PeerCloses, PeerResets, PeerSends, PeerReads, MemoryShort, Kernel, vars,
         kernel, Broken, Connected
<1>3. room = SockBuf => room' = room
  <2>1. ~(SockBuf < SockBuf)
    BY BoundsAssumption, SMT
  <2> QED BY <2>1 DEF Environment, ConnectEnds, PeerCloses, PeerResets, PeerSends, PeerReads, MemoryShort,
                      Kernel, vars, kernel
<1>4. PendingIsRight' /\ NothingEarly'
  BY <1>1, <1>2, <1>3 DEF Heard, PendingIsRight, NothingEarly
<1>5. CallsSoFar'
  BY <1>1, NothingTold DEF Heard
<1> QED BY <1>4, <1>5 DEF Heard

\* What was told so far is right in every state.
LEMMA HeardHolds == Safe => []Heard
<1>1. Init => Heard
  BY Begins, NothingMore DEF Init, Heard, PendingIsRight, NothingEarly, CallsSoFar
<1>2. IInv /\ Heard /\ [Next]_vars => Heard'
  BY CreateIsHeard, EndpointIsHeard, LoopIsHeard, EnvironmentIsHeard DEF Next, Resume, Done
<1> QED BY <1>1, <1>2, Invariance, PTL DEF Safe

\* The endpoint hears connectionEstablished at most once and before any data,
\* and exactly one outcome, as the last thing but its own destruction by the
\* factory that made it; only a flush ends otherwise.
THEOREM EndpointsAreToldInOrder == Safe => []EndpointProtocol
<1>1. ASSUME NEW log, Begun(log)
      PROVE  /\ Len(log) \in Nat
             /\ \A i \in 1 .. Len(log) : \/ i = 1 /\ log[i] = "connectionEstablished"
                                         \/ i = 2 /\ log[i] = "dataRead" /\ log[1] = "connectionEstablished"
  <2>1. Len(log) \in Nat
    BY <1>1, LenProperties DEF Begun
  <2>2. PICK n : n = Len(log)
    OBVIOUS
  <2>3. /\ n \in Nat /\ n <= 2 /\ (n > 0 => log[1] = "connectionEstablished")
        /\ (n > 1 => log[2] = "dataRead")
    BY <1>1, <2>1, <2>2 DEF Begun
  <2>4. \A i \in 1 .. n : (i = 1 /\ n > 0) \/ (i = 2 /\ n > 0 /\ n > 1)
    BY <2>3, SMT
  <2> QED BY <2>1, <2>2, <2>3, <2>4
<1>2. ASSUME IInv, Heard, ended # "flushed"
      PROVE  LET At(c) == {i \in 1 .. Len(calls) : calls[i] = c}
                 outcomes == At("connectionClosed") \cup At("connectionLost")
                 last == IF origin = "accept" THEN Len(calls) - 1 ELSE Len(calls)
             IN  /\ At("connectionEstablished") \subseteq {1}
                 /\ \A i \in At("dataRead") : i = 2 /\ calls[1] = "connectionEstablished"
                 /\ outcomes = (IF ended \in {"no", "no descriptor", "rejected"} THEN {} ELSE {last})
                 /\ At("destroyEndpoint") =
                      (IF origin = "accept" /\ ended \notin {"no", "rejected"} THEN {Len(calls)} ELSE {})
  <2>1. CASE ended \in {"no", "no descriptor", "rejected"}
    <3>1. Begun(calls)
      BY <1>2, <2>1, Begins DEF Heard, CallsSoFar, IInv, Inv1, TypeOK
    <3>2. ended = "no descriptor" => origin # "accept"
      BY <1>2, <2>1 DEF Heard, CallsSoFar, IInv, Inv1, Inv2, TypeOK, EndedMeansDeleted
    <3> QED BY <1>1, <2>1, <3>1, <3>2
  <2>2. CASE ended \notin {"no", "no descriptor", "rejected"}
    <3>1. obj = "deleted"
      BY <1>2, <2>2 DEF IInv, Inv2, EndedMeansDeleted
    <3>2. PICK begin : \E o \in Outcomes : Begun(begin) /\ calls = begin \o Told(o)
      BY <1>2, <2>2, <3>1 DEF Heard, CallsSoFar
    <3>3. PICK outcome \in Outcomes : Begun(begin) /\ calls = begin \o Told(outcome)
      BY <3>2
    <3>4. PICK n, told, m, log : n = Len(begin) /\ told = Told(outcome) /\ m = Len(told) /\ log = calls
      OBVIOUS
    <3>5. /\ told[1] = outcome /\ told \in Seq(Calls)
          /\ \/ origin = "accept" /\ m = 2 /\ told[2] = "destroyEndpoint"
             \/ origin # "accept" /\ m = 1
      <4>1. \A a, b : Len(<<a>>) = 1 /\ <<a>>[1] = a /\ Len(<<a, b>>) = 2 /\ <<a, b>>[1] = a /\ <<a, b>>[2] = b
        BY SMT
      <4>2. Told(outcome) \in Seq(Calls)
        BY ToldIsALog
      <4> QED BY <3>4, <4>1, <4>2 DEF Told
    <3>6. /\ n \in Nat /\ Len(log) = n + m
          /\ \A i \in 1 .. n + m : log[i] = IF i <= n THEN begin[i] ELSE told[i - n]
      <4>1. begin \in Seq(Calls) /\ n \in Nat
        BY <1>1, <3>3, <3>4 DEF Begun
      <4> QED BY <3>3, <3>4, <3>5, <4>1, ConcatProperties
    <3>7. \A i \in 1 .. n : \/ i = 1 /\ log[i] = "connectionEstablished"
                            \/ i = 2 /\ log[i] = "dataRead" /\ log[1] = "connectionEstablished"
      <4>1. \A i \in 1 .. n : \/ i = 1 /\ begin[i] = "connectionEstablished"
                              \/ i = 2 /\ begin[i] = "dataRead" /\ begin[1] = "connectionEstablished"
        BY <1>1, <3>3, <3>4
      <4>2. m \in Nat
        BY <3>5
      <4>3. \A i \in 1 .. n : i \in 1 .. n + m /\ i <= n /\ 1 \in 1 .. n + m /\ 1 <= n
        BY <3>6, <4>2, SMT
      <4> QED BY <3>6, <4>1, <4>3
    <3>8. /\ log[n + 1] = outcome
          /\ origin = "accept" => log[n + 2] = "destroyEndpoint"
      <4>1. /\ n + 1 - n = 1 /\ ~(n + 1 <= n) /\ n + 2 - n = 2 /\ ~(n + 2 <= n)
            /\ n + 1 \in 1 .. n + 1 /\ n + 1 \in 1 .. n + 2 /\ n + 2 \in 1 .. n + 2
        BY <3>6, SMT
      <4> QED BY <3>5, <3>6, <4>1
    <3>9. \A i \in 1 .. Len(log) : i \in 1 .. n \/ i = n + 1 \/ (i = n + 2 /\ origin = "accept")
      <4>1. \A i \in 1 .. n + 1 : i \in 1 .. n \/ i = n + 1
        BY <3>6, SMT
      <4>2. \A i \in 1 .. n + 2 : i \in 1 .. n \/ i = n + 1 \/ i = n + 2
        BY <3>6, SMT
      <4> QED BY <3>5, <3>6, <4>1, <4>2
    <3>10. (IF origin = "accept" THEN Len(log) - 1 ELSE Len(log)) = n + 1
      <4>1. n + 2 - 1 = n + 1
        BY <3>6, SMT
      <4> QED BY <3>5, <3>6, <4>1
    <3>11. /\ n + 1 \in 1 .. Len(log) /\ (origin = "accept" => n + 2 \in 1 .. Len(log) /\ Len(log) = n + 2)
           /\ n + 1 # n + 2
      <4>1. n + 1 \in 1 .. n + 1 /\ n + 1 \in 1 .. n + 2 /\ n + 2 \in 1 .. n + 2 /\ n + 1 # n + 2
        BY <3>6, SMT
      <4> QED BY <3>5, <3>6, <4>1
    <3>12. outcome = "connectionClosed" \/ outcome = "connectionLost"
      BY DEF Outcomes
    <3> QED BY <2>2, <3>4, <3>7, <3>8, <3>9, <3>10, <3>11, <3>12
  <2> QED BY <2>1, <2>2
<1>3. IInv /\ Heard => EndpointProtocol
  BY <1>2 DEF EndpointProtocol
<1> QED BY <1>3, Invariance, HeardHolds, PTL

\* A connection is only reported lost when it is, or may be, broken, or when a
\* signal interrupted a suspended pollWrite: neither EWOULDBLOCK nor EAGAIN,
\* nor what poll() found before the connection changed, is a reason.
THEOREM LossesHaveACause == Safe => LossNeedsCause
<1>1. IInv /\ Heard /\ [Next]_vars =>
        [ended = "no" /\ ended' = "lost" => conn \in {"eof", "reset", "dead"} \/ caller = "pollWrite"]_vars
  <2> SUFFICES ASSUME IInv, Heard, Next, ended = "no", ended' = "lost"
               PROVE  conn \in {"eof", "reset", "dead"} \/ caller = "pollWrite"
    OBVIOUS
  <2>1. ended' # ended
    OBVIOUS
  <2>2. PollError \/ PollWriteFails \/ PollReadEnds
    <3>1. ~Create
      BY DEF Create, NoDescriptor, SetupFails, ConnectRefused, ConnectAtOnce, ConnectInProgress, Accept,
             AcceptRejected, UnixFails, UnixRejected, Destroy, history
    <3>2. ~Endpoint
      <4>1. ~Close
        BY DEF Close, CloseDefers, CloseNow, Destroy, history
      <4>2. \A n \in 1 .. MaxChunk : ~Send(n)
        BY DEF Send, SendQueues, SendDirect, SendBuffers, SendFails, SendBlocks
      <4> QED BY <4>1, <4>2 DEF Endpoint
    <3>3. \A sent : ~Erase(sent)
      BY DEF Erase, KeepRest, GoIdle, FinishClosing, Destroy
    <3>4. ~Resume
      BY <3>3 DEF Resume, BlockedSendTakes, SendResumes, SendCutShort, SendBreaks, PollWriteResumes, history
    <3>5. ~Environment /\ ~Done
      BY DEF Environment, ConnectEnds, PeerCloses, PeerResets, PeerSends, PeerReads, MemoryShort, Kernel, Done,
             vars, history
    <3>6. ~Poll /\ ~PollWriteEstablishes /\ ~PollWriteWaits /\ ~PollWriteSends /\ ~PollWriteBlocks /\ ~PollReadData
      BY <3>3 DEF Poll, PollWriteEstablishes, PollWriteWaits, PollWriteSends, PollWriteBlocks, PollReadData,
                  history
    <3> QED BY <3>1, <3>2, <3>4, <3>5, <3>6 DEF Next, Loop, PollWrite, PollRead
  <2>3. CASE PollError
    BY <2>3 DEF PollError, Heard, PendingIsRight, Broken
  <2>4. CASE PollWriteFails
    BY <2>4 DEF PollWriteFails, Broken
  <2>5. CASE PollReadEnds
    <3>1. "IN" \in pending /\ conn # "up" /\ conn \in Conns
      BY <2>5 DEF PollReadEnds, DispatchesIn, IInv, Inv1, TypeOK
    <3> QED BY <3>1 DEF Heard, PendingIsRight, Conns
  <2> QED BY <2>2, <2>3, <2>4, <2>5
<1> QED BY <1>1, Invariance, HeardHolds, PTL DEF Safe, LossNeedsCause

=============================================================================
