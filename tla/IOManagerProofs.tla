---------------------------- MODULE IOManagerProofs ----------------------------
(***************************************************************************)
(* Theorems about IOManager for any number of sockets, descriptors and     *)
(* events: the list holds exactly the sockets that exist, m_iterator never *)
(* leaves it, and, if no descriptor closed in a pass is given out again in *)
(* that pass, the loop keeps what EventDelivery promises.                  *)
(***************************************************************************)
EXTENDS IOManager, SequenceTheorems, WellFoundedInduction, TLAPS

Entry(s) == [socket |-> s, fileDescriptor |-> fd[s]]
EntryType == [socket : Sockets, fileDescriptor : Fds]

\* What the list holds, without the order.
Entries == {m_socketList[i] : i \in 1 .. Len(m_socketList)}

\* The sockets that are to be in the list.
Alive == {s \in Sockets : status[s] \in {"live", "closed"}}

-----------------------------------------------------------------------------
(* The inductive invariant. *)

\* Nobody is in the list twice, and m_iterator is a position or end().
ListFine ==
  /\ m_socketList \in Seq(EntryType) /\ m_iterator \in 0 .. Len(m_socketList)
  /\ \A i, k \in 1 .. Len(m_socketList) : m_socketList[i].socket = m_socketList[k].socket => i = k

ObjectsFine ==
  /\ status \in [Sockets -> {"unused", "live", "closed", "gone"}]
  /\ fd \in [Sockets -> Fds \cup {0}]
  /\ ioState \in [Sockets -> IOStates \cup {"IGNORE"}]
  /\ ready \in [Sockets -> SUBSET Events]
  /\ closedFds \subseteq Fds

\* The list is that of the sockets that exist; only the socket whose handler runs
\* can have its descriptor closed.
EntriesFine ==
  /\ Entries = {Entry(s) : s \in Alive}
  /\ \A s \in Sockets : status[s] = "closed" => InHandler /\ current.socket = s

\* j is in the poll() result while an event of an entry is being handled.
PassFine ==
  /\ pollfds \in Seq([fd : Fds, revents : SUBSET Events, owner : Sockets])
  /\ j \in 1 .. Len(pollfds) + 1
  /\ pc \in {"out", "check", "write", "read", "handler"}
  /\ current \in [socket : Sockets \cup {"nobody"}, event : Events]
  /\ InHandler <=> current.socket \in Sockets
  /\ pc \in {"write", "read", "handler"} => j <= Len(pollfds)

IInv == ListFine /\ ObjectsFine /\ EntriesFine /\ PassFine

-----------------------------------------------------------------------------
(* The list operations. *)

LEMMA FirstIsLeast ==
  ASSUME NEW S, S \subseteq Nat, S # {}
  PROVE  First(S) \in S /\ \A k \in S : First(S) <= k
<1>1. PICK x \in S : \A y \in S : ~ (<<y, x>> \in OpToRel(<, Nat))
  BY NatLessThanWellFounded, WFMin
<1>2. \A y \in S : x <= y
  <2>1. \A y \in S : ~(y < x)
    BY <1>1 DEF OpToRel
  <2> QED BY <2>1, SMT
<1>3. \E i \in S : \A k \in S : i <= k
  BY <1>2
<1> QED BY <1>3 DEF First

LEMMA RemoveFacts ==
  ASSUME NEW S, NEW q \in Seq(S), NEW it \in 1 .. Len(q)
  PROVE  /\ RemoveAt(q, it) \in Seq(S) /\ Len(RemoveAt(q, it)) = Len(q) - 1
         /\ \A i \in 1 .. Len(q) - 1 : RemoveAt(q, it)[i] = IF i < it THEN q[i] ELSE q[i + 1]
<1> DEFINE m == it - 1
           n == it + 1
           l == Len(q)
           f == SubSeq(q, 1, m)
           g == SubSeq(q, n, l)
<1>1. /\ l \in Nat /\ m \in Nat /\ n = m + 2 /\ it = m + 1 /\ m + 1 <= l
      /\ \A i \in 1 .. l : q[i] \in S
  BY SMT
<1>2. /\ 1 \in Int /\ m \in Int /\ n \in Int /\ l \in Int
      /\ (\A i \in 1 .. m : q[i] \in S) /\ (\A i \in n .. l : q[i] \in S)
  BY <1>1, SMT
<1> HIDE DEF m, n, l
<1>3. f \in Seq(S) /\ Len(f) = (IF 1 <= m THEN m - 1 + 1 ELSE 0)
      /\ \A i \in 1 .. m - 1 + 1 : f[i] = q[1 + i - 1]
  BY <1>2, SubSeqProperties
<1>4. g \in Seq(S) /\ Len(g) = (IF n <= l THEN l - n + 1 ELSE 0)
      /\ \A i \in 1 .. l - n + 1 : g[i] = q[n + i - 1]
  BY <1>1, <1>2, SubSeqProperties
<1> HIDE DEF f, g
<1>5. Len(f) = m /\ \A i \in 1 .. m : f[i] = q[i]
  BY <1>1, <1>3, SMT
<1>6. Len(g) = l - m - 1 /\ \A i \in 1 .. l - m - 1 : g[i] = q[m + 1 + i]
  BY <1>1, <1>4, SMT
<1>7. /\ f \o g \in Seq(S) /\ Len(f \o g) = Len(f) + Len(g)
      /\ \A i \in 1 .. Len(f) + Len(g) : (f \o g)[i] = IF i <= Len(f) THEN f[i] ELSE g[i - Len(f)]
  BY <1>3, <1>4, ConcatProperties
<1>8. RemoveAt(q, it) = f \o g
  BY DEF RemoveAt, f, g, m, n, l
<1>9. Len(q) = l
  BY DEF l
<1>10. ASSUME NEW i \in 1 .. l - 1
       PROVE  (f \o g)[i] = IF i < it THEN q[i] ELSE q[i + 1]
  <2>1. CASE i <= m
    <3>1. i \in 1 .. Len(f) + Len(g) /\ i <= Len(f) /\ i \in 1 .. m /\ i < it
      BY <1>1, <1>5, <1>6, <1>10, <2>1, SMT
    <3> QED BY <1>5, <1>7, <3>1
  <2>2. CASE ~(i <= m)
    <3>1. i \in 1 .. Len(f) + Len(g) /\ ~(i <= Len(f)) /\ i - m \in 1 .. l - m - 1 /\ ~(i < it)
          /\ i - Len(f) = i - m /\ m + 1 + (i - m) = i + 1
      BY <1>1, <1>5, <1>6, <1>10, <2>2, SMT
    <3>2. (f \o g)[i] = g[i - m]
      BY <1>7, <3>1
    <3>3. g[i - m] = q[m + 1 + (i - m)]
      BY <1>6, <3>1
    <3> QED BY <3>1, <3>2, <3>3
  <2> QED BY <2>1, <2>2
<1>11. Len(f \o g) = l - 1
  BY <1>1, <1>5, <1>6, <1>7, SMT
<1> QED BY <1>7, <1>8, <1>9, <1>10, <1>11

\* A socket that exists is in the list at one position.
LEMMA PositionOfAlive ==
  ASSUME IInv, NEW s \in Alive
  PROVE  /\ Positions(s) # {} /\ First(Positions(s)) \in 1 .. Len(m_socketList)
         /\ m_socketList[First(Positions(s))] = Entry(s)
         /\ \A i \in 1 .. Len(m_socketList) : m_socketList[i].socket = s => i = First(Positions(s))
<1>1. Entry(s) \in Entries /\ Entry(s).socket = s
  BY DEF IInv, EntriesFine, Entry
<1>2. PICK i \in 1 .. Len(m_socketList) : m_socketList[i] = Entry(s)
  BY <1>1 DEF Entries
<1>3. i \in Positions(s)
  BY <1>1, <1>2 DEF Positions
<1>4. Positions(s) \subseteq Nat
  BY SMT DEF Positions, IInv, ListFine
<1>5. First(Positions(s)) \in Positions(s)
  BY <1>3, <1>4, FirstIsLeast
<1>6. \A k \in 1 .. Len(m_socketList) : m_socketList[k].socket = s => k = i
  BY <1>1, <1>2 DEF IInv, ListFine
<1> QED BY <1>2, <1>3, <1>5, <1>6 DEF Positions

LEMMA FollowingFacts ==
  ASSUME m_socketList \in Seq(EntryType), NEW pos \in 0 .. Len(m_socketList)
  PROVE  /\ Following(pos) \in 0 .. Len(m_socketList)
         /\ pos < Len(m_socketList) => Following(pos) = pos + 1
         /\ pos = Len(m_socketList) => Following(pos) = End
<1> DEFINE l == Len(m_socketList)
<1>1. l \in Nat /\ (m_socketList = <<>> => l = 0) /\ pos \in 0 .. l
  BY SMT
<1> HIDE DEF l
<1>2. /\ (pos + 1) % (l + 1) \in 0 .. l
      /\ pos < l => (pos + 1) % (l + 1) = pos + 1
      /\ pos = l => (pos + 1) % (l + 1) = 0
  BY <1>1, SMT
<1>3. Following(pos) = IF m_socketList = <<>> THEN 0 ELSE (pos + 1) % (l + 1)
  BY DEF Following, End, l
<1>4. /\ Following(pos) \in 0 .. l
      /\ pos < l => Following(pos) = pos + 1
      /\ pos = l => Following(pos) = 0
  BY <1>1, <1>2, <1>3, SMT
<1> QED BY <1>4 DEF l, End

LEMMA PushStep ==
  ASSUME IInv, NEW s \in Sockets, s \notin Alive, NEW d \in Fds,
         m_socketList' = Push(s, d), UNCHANGED m_iterator
  PROVE  ListFine' /\ Entries' = Entries \cup {[socket |-> s, fileDescriptor |-> d]}
<1> DEFINE e == [socket |-> s, fileDescriptor |-> d]
           l == Len(m_socketList)
<1>1. m_socketList \in Seq(EntryType) /\ e \in EntryType /\ e.socket = s /\ l \in Nat
      /\ m_iterator \in 0 .. l
  BY SMT DEF IInv, ListFine, EntryType
<1>2. m_socketList' = Append(m_socketList, e)
  BY DEF Push
<1> HIDE DEF e
<1>3. /\ m_socketList' \in Seq(EntryType) /\ Len(m_socketList') = l + 1
      /\ \A i \in 1 .. l : m_socketList'[i] = m_socketList[i]
      /\ m_socketList'[l + 1] = e
  BY <1>1, <1>2, AppendProperties
<1>4. 1 .. l + 1 = 1 .. l \cup {l + 1} /\ l + 1 \notin 1 .. l
  BY <1>1, SMT
<1>5. \A i \in 1 .. l : m_socketList[i].socket # s
  <2>1. \A i \in 1 .. l : m_socketList[i] \in Entries
    BY DEF Entries
  <2> QED BY <2>1 DEF IInv, EntriesFine, Entry
<1> HIDE DEF l
<1>6. ASSUME NEW i \in 1 .. l + 1, NEW k \in 1 .. l + 1,
             m_socketList'[i].socket = m_socketList'[k].socket
      PROVE  i = k
  <2>1. CASE i \in 1 .. l /\ k \in 1 .. l
    BY <1>3, <1>6, <2>1 DEF IInv, ListFine, l
  <2>2. CASE i \notin 1 .. l \/ k \notin 1 .. l
    BY <1>1, <1>3, <1>4, <1>5, <1>6, <2>2
  <2> QED BY <2>1, <2>2
<1>7. ListFine'
  <2>1. m_iterator' \in 0 .. Len(m_socketList')
    BY <1>1, <1>3, SMT
  <2> QED BY <1>3, <1>6, <2>1 DEF ListFine
<1>8. Entries' = Entries \cup {e}
  BY <1>3, <1>4 DEF Entries, l
<1> QED BY <1>7, <1>8 DEF e

LEMMA UnregisterStep ==
  ASSUME IInv, NEW s \in Alive, Unregister(s)
  PROVE  ListFine' /\ Entries' = Entries \ {Entry(s)}
<1> DEFINE it == First(Positions(s))
           l == Len(m_socketList)
           kept == IF m_iterator = it THEN Following(it) ELSE m_iterator
<1>1. m_socketList \in Seq(EntryType) /\ l \in Nat /\ m_iterator \in 0 .. l
  BY SMT DEF IInv, ListFine
<1>2. /\ Positions(s) # {} /\ it \in 1 .. l /\ m_socketList[it] = Entry(s)
      /\ \A i \in 1 .. l : m_socketList[i].socket = s => i = it
  BY PositionOfAlive
<1>3. m_socketList' = RemoveAt(m_socketList, it)
      /\ m_iterator' = (IF kept > it THEN kept - 1 ELSE kept)
  BY <1>2 DEF Unregister
<1> HIDE DEF it
<1>4. /\ m_socketList' \in Seq(EntryType) /\ Len(m_socketList') = l - 1
      /\ \A i \in 1 .. l - 1 : m_socketList'[i] = IF i < it THEN m_socketList[i] ELSE m_socketList[i + 1]
  BY <1>1, <1>2, <1>3, RemoveFacts
<1>5. m_iterator' \in 0 .. l - 1
  <2>1. it \in 0 .. l
    BY <1>1, <1>2, SMT
  <2>2. /\ it < l => Following(it) = it + 1
        /\ it = l => Following(it) = 0
    BY <1>1, <2>1, FollowingFacts DEF End
  <2> HIDE DEF l
  <2>3. CASE m_iterator = it
    <3>1. kept = Following(it)
      BY <2>3
    <3>2. kept = it + 1 \/ (it = l /\ kept = 0) 
      BY <1>1, <1>2, <2>2, <3>1, SMT
    <3> HIDE DEF kept
    <3>3. CASE kept = it + 1
      <4>1. it < l
        BY <1>1, <1>2, <2>2, <3>1, <3>3, SMT
      <4> QED BY <1>1, <1>2, <1>3, <3>3, <4>1, SMT
    <3>4. CASE it = l /\ kept = 0
      BY <1>1, <1>2, <1>3, <3>4, SMT
    <3> QED BY <3>2, <3>3, <3>4
  <2>4. CASE m_iterator # it
    <3>1. kept = m_iterator
      BY <2>4
    <3> HIDE DEF kept
    <3> QED BY <1>1, <1>2, <1>3, <2>4, <3>1, SMT
  <2> QED BY <2>3, <2>4
<1> HIDE DEF l, kept
<1> DEFINE From(i) == IF i < it THEN i ELSE i + 1
<1>6. \A i \in 1 .. l - 1 : /\ From(i) \in 1 .. l /\ From(i) # it
                            /\ \A k \in 1 .. l - 1 : From(i) = From(k) => i = k
  BY <1>1, <1>2, SMT
<1>7. \A k \in 1 .. l : k # it => \E i \in 1 .. l - 1 : From(i) = k
  <2> SUFFICES ASSUME NEW k \in 1 .. l, k # it PROVE \E i \in 1 .. l - 1 : From(i) = k
    OBVIOUS
  <2>1. CASE k < it
    <3>1. k \in 1 .. l - 1 /\ From(k) = k
      BY <1>1, <1>2, <2>1, SMT
    <3> QED BY <3>1
  <2>2. CASE k > it
    <3>1. k - 1 \in 1 .. l - 1 /\ From(k - 1) = k
      BY <1>1, <1>2, <2>2, SMT
    <3> QED BY <3>1
  <2> QED BY <1>2, <2>1, <2>2, SMT
<1>8. \A i \in 1 .. l - 1 : m_socketList'[i] = m_socketList[From(i)]
  BY <1>4
<1> HIDE DEF From
<1>9. \A i, k \in 1 .. l - 1 : m_socketList'[i].socket = m_socketList'[k].socket => i = k
  BY <1>6, <1>8 DEF IInv, ListFine, l
<1>10. Entries' = {m_socketList[k] : k \in 1 .. l \ {it}}
  <2>1. Entries' = {m_socketList'[i] : i \in 1 .. l - 1}
    BY <1>4 DEF Entries
  <2> QED BY <1>6, <1>7, <1>8, <2>1
<1>11. Entries = {m_socketList[k] : k \in 1 .. l}
  BY DEF Entries, l
<1>12. \A k \in 1 .. l : k # it => m_socketList[k] # Entry(s)
  <2>1. Entry(s).socket = s
    BY DEF Entry
  <2> QED BY <1>2, <2>1 DEF l
<1>13. Entries' = Entries \ {Entry(s)}
  BY <1>2, <1>10, <1>11, <1>12
<1> QED BY <1>4, <1>5, <1>9, <1>13 DEF ListFine

LEMMA SetFdStep ==
  ASSUME IInv, NEW s \in Alive, NEW d \in Fds,
         m_socketList' = SetFd(s, d), UNCHANGED m_iterator
  PROVE  /\ ListFine'
         /\ Entries' = (Entries \ {Entry(s)}) \cup {[socket |-> s, fileDescriptor |-> d]}
<1> DEFINE it == First(Positions(s))
           l == Len(m_socketList)
           e == [socket |-> s, fileDescriptor |-> d]
<1>1. m_socketList \in Seq(EntryType) /\ l \in Nat /\ m_iterator \in 0 .. l
  BY SMT DEF IInv, ListFine
<1>2. /\ it \in 1 .. l /\ m_socketList[it] = Entry(s)
      /\ \A i \in 1 .. l : m_socketList[i].socket = s => i = it
  BY PositionOfAlive
<1>3. m_socketList[it] \in EntryType /\ e \in EntryType /\ e.socket = s
  BY <1>1, <1>2, ElementOfSeq DEF EntryType, Alive
<1>4. m_socketList' = [m_socketList EXCEPT ![it] = e]
  <2>1. m_socketList' = [m_socketList EXCEPT ![it].fileDescriptor = d]
    BY DEF SetFd
  <2>2. [m_socketList[it] EXCEPT !.fileDescriptor = d] = e
    BY <1>2 DEF Entry
  <2> QED BY <2>1, <2>2
<1> HIDE DEF it, e
<1>5. /\ m_socketList' \in Seq(EntryType) /\ Len(m_socketList') = l
      /\ \A i \in 1 .. l : m_socketList'[i] = IF i = it THEN e ELSE m_socketList[i]
  BY <1>1, <1>2, <1>3, <1>4, ExceptSeq
<1>6. Entry(s).socket = s
  BY DEF Entry
<1>7. \A i, k \in 1 .. l : m_socketList'[i].socket = m_socketList'[k].socket => i = k
  <2>1. \A i \in 1 .. l : m_socketList'[i].socket = m_socketList[i].socket
    BY <1>2, <1>3, <1>5, <1>6
  <2> QED BY <2>1 DEF IInv, ListFine
<1>8. \A k \in 1 .. l : k # it => m_socketList[k] # Entry(s)
  BY <1>2, <1>6
<1>9. Entries' = {m_socketList'[i] : i \in 1 .. l} /\ Entries = {m_socketList[i] : i \in 1 .. l}
  BY <1>5 DEF Entries
<1>10. Entries' = (Entries \ {Entry(s)}) \cup {e}
  BY <1>2, <1>5, <1>8, <1>9
<1> QED BY <1>1, <1>5, <1>7, <1>10 DEF ListFine, e

LEMMA NewFdIsFree ==
  ASSUME Free # {}
  PROVE  /\ NewFd \in Fds /\ (~Reuses => NewFd \notin closedFds)
         /\ \A t \in Sockets : status[t] = "live" => fd[t] # NewFd
<1>1. Free \subseteq Fds /\ Fds \subseteq Nat
  BY BoundsAssumption, SMT DEF Free, Fds
<1>2. NewFd \in Free
  BY <1>1, FirstIsLeast DEF NewFd
<1> QED BY <1>1, <1>2 DEF Free, Open

-----------------------------------------------------------------------------
(* What the program does.                                                  *)

\* A step that leaves the pass alone keeps what is said of it.
LEMMA PassStays ==
  ASSUME IInv, UNCHANGED pass
  PROVE  PassFine' /\ (InHandler' <=> InHandler) /\ current' = current
BY DEF IInv, PassFine, pass, InHandler

LEMMA OpenStep ==
  ASSUME IInv, NEW s \in Sockets, NEW state \in IOStates, OpenSocket(s, state)
  PROVE  IInv'
<1>1. /\ status[s] = "unused" /\ Free # {}
      /\ status' = [status EXCEPT ![s] = "live"] /\ fd' = [fd EXCEPT ![s] = NewFd]
      /\ ioState' = [ioState EXCEPT ![s] = state] /\ m_socketList' = Push(s, NewFd)
      /\ UNCHANGED <<ready, m_iterator, pass, closedFds>>
  BY DEF OpenSocket
<1>2. s \notin Alive /\ NewFd \in Fds
  BY <1>1, NewFdIsFree DEF Alive
<1>3. ListFine' /\ Entries' = Entries \cup {[socket |-> s, fileDescriptor |-> NewFd]}
  BY <1>1, <1>2, PushStep
<1>4. PassFine' /\ (InHandler' <=> InHandler) /\ current' = current
  BY <1>1, PassStays
<1>5. ObjectsFine'
  BY <1>1, <1>2 DEF IInv, ObjectsFine
<1>6. EntriesFine'
  <2>1. Alive' = Alive \cup {s}
    BY <1>1 DEF Alive, IInv, ObjectsFine
  <2>2. Entry(s)' = [socket |-> s, fileDescriptor |-> NewFd]
    BY <1>1 DEF Entry, IInv, ObjectsFine
  <2>3. \A t \in Alive : Entry(t)' = Entry(t)
    BY <1>1, <1>2 DEF Entry, IInv, ObjectsFine, Alive
  <2>4. Entries' = {Entry(t)' : t \in Alive'}
    BY <1>3, <2>1, <2>2, <2>3 DEF IInv, EntriesFine
  <2>5. \A t \in Sockets : status'[t] = "closed" => InHandler' /\ current'.socket = t
    BY <1>1, <1>4 DEF IInv, EntriesFine, ObjectsFine
  <2> QED BY <2>4, <2>5 DEF EntriesFine
<1> QED BY <1>3, <1>4, <1>5, <1>6 DEF IInv

LEMMA MoveStep ==
  ASSUME IInv, NEW s \in Sockets, MoveSocket(s)
  PROVE  IInv'
<1>1. /\ status[s] = "live" /\ Free # {}
      /\ fd' = [fd EXCEPT ![s] = NewFd] /\ m_socketList' = SetFd(s, NewFd)
      /\ ready' = [ready EXCEPT ![s] = {}] /\ closedFds' \subseteq closedFds \cup {fd[s]}
      /\ UNCHANGED <<status, ioState, m_iterator, pass>>
  BY DEF MoveSocket
<1>2. s \in Alive /\ NewFd \in Fds
  BY <1>1, NewFdIsFree DEF Alive
<1>3. /\ ListFine'
      /\ Entries' = (Entries \ {Entry(s)}) \cup {[socket |-> s, fileDescriptor |-> NewFd]}
  BY <1>1, <1>2, SetFdStep
<1>4. PassFine' /\ (InHandler' <=> InHandler) /\ current' = current
  BY <1>1, PassStays
<1>5. fd[s] \in Fds
  <2>1. PICK i \in 1 .. Len(m_socketList) : m_socketList[i] = Entry(s)
    BY <1>2, PositionOfAlive
  <2>2. Entry(s) \in EntryType
    BY <2>1, ElementOfSeq DEF IInv, ListFine
  <2> QED BY <2>2 DEF Entry, EntryType
<1>6. ObjectsFine'
  BY <1>1, <1>2, <1>5 DEF IInv, ObjectsFine
<1>7. EntriesFine'
  <2>1. Alive' = Alive
    BY <1>1 DEF Alive
  <2>2. Entry(s)' = [socket |-> s, fileDescriptor |-> NewFd]
    BY <1>1 DEF Entry, IInv, ObjectsFine
  <2>3. \A t \in Alive : t # s => Entry(t)' = Entry(t) /\ Entry(t) # Entry(s)
    BY <1>1, <1>2 DEF Entry, IInv, ObjectsFine, Alive
  <2>4. Entries' = {Entry(t)' : t \in Alive'}
    BY <1>2, <1>3, <2>1, <2>2, <2>3 DEF IInv, EntriesFine
  <2>5. \A t \in Sockets : status'[t] = "closed" => InHandler' /\ current'.socket = t
    BY <1>1, <1>4 DEF IInv, EntriesFine
  <2> QED BY <2>4, <2>5 DEF EntriesFine
<1> QED BY <1>3, <1>4, <1>6, <1>7 DEF IInv

\* A socket is deleted.
LEMMA BuryStep ==
  ASSUME IInv, NEW s \in Alive, Bury(s), Unregister(s), UNCHANGED pass,
         closedFds' \subseteq closedFds \cup {fd[s]}
  PROVE  IInv'
<1>1. /\ status' = [status EXCEPT ![s] = IF InHandler THEN "gone" ELSE "unused"]
      /\ fd' = [fd EXCEPT ![s] = 0] /\ ioState' = [ioState EXCEPT ![s] = "IGNORE"]
      /\ ready' = [ready EXCEPT ![s] = {}] /\ s \in Sockets
  BY DEF Bury, Alive
<1>2. ListFine' /\ Entries' = Entries \ {Entry(s)}
  BY UnregisterStep
<1>3. PassFine' /\ (InHandler' <=> InHandler) /\ current' = current
  BY PassStays
<1>4. fd[s] \in Fds
  <2>1. PICK i \in 1 .. Len(m_socketList) : m_socketList[i] = Entry(s)
    BY PositionOfAlive
  <2>2. Entry(s) \in EntryType
    BY <2>1, ElementOfSeq DEF IInv, ListFine
  <2> QED BY <2>2 DEF Entry, EntryType
<1>5. ObjectsFine'
  BY <1>1, <1>4 DEF IInv, ObjectsFine
<1>6. EntriesFine'
  <2>1. Alive' = Alive \ {s}
    BY <1>1 DEF Alive, IInv, ObjectsFine
  <2>2. \A t \in Alive : t # s => Entry(t)' = Entry(t) /\ Entry(t) # Entry(s)
    BY <1>1 DEF Entry, IInv, ObjectsFine, Alive
  <2>3. Entries' = {Entry(t)' : t \in Alive'}
    BY <1>2, <2>1, <2>2 DEF IInv, EntriesFine
  <2>4. \A t \in Sockets : status'[t] = "closed" => InHandler' /\ current'.socket = t
    BY <1>1, <1>3 DEF IInv, EntriesFine, ObjectsFine
  <2> QED BY <2>3, <2>4 DEF EntriesFine
<1> QED BY <1>2, <1>3, <1>5, <1>6 DEF IInv

LEMMA LoseStep ==
  ASSUME IInv, LoseOwn
  PROVE  IInv'
<1> DEFINE s == current.socket
<1>1. /\ InHandler /\ s \in Sockets /\ status[s] = "live"
      /\ status' = [status EXCEPT ![s] = "closed"]
      /\ ready' = [ready EXCEPT ![s] = {}] /\ closedFds' = closedFds \cup {fd[s]}
      /\ UNCHANGED <<fd, ioState, list, pass>>
  BY DEF LoseOwn, IInv, PassFine
<1>2. PassFine' /\ (InHandler' <=> InHandler) /\ current' = current
  BY <1>1, PassStays
<1>3. ListFine' /\ Entries' = Entries
  BY <1>1 DEF IInv, ListFine, Entries, list
<1> HIDE DEF s
<1>4. s \in Alive /\ Alive' = Alive
  BY <1>1 DEF Alive, IInv, ObjectsFine
<1>5. fd[s] \in Fds
  <2>1. PICK i \in 1 .. Len(m_socketList) : m_socketList[i] = Entry(s)
    BY <1>4, PositionOfAlive
  <2>2. Entry(s) \in EntryType
    BY <2>1, ElementOfSeq DEF IInv, ListFine
  <2> QED BY <2>2 DEF Entry, EntryType
<1>6. ObjectsFine'
  BY <1>1, <1>5 DEF IInv, ObjectsFine
<1>7. EntriesFine'
  <2>1. \A t \in Alive : Entry(t)' = Entry(t)
    BY <1>1 DEF Entry
  <2>2. Entries' = {Entry(t)' : t \in Alive'}
    BY <1>3, <1>4, <2>1 DEF IInv, EntriesFine
  <2>3. \A t \in Sockets : status'[t] = "closed" => InHandler' /\ current'.socket = t
    BY <1>1, <1>2 DEF IInv, EntriesFine, ObjectsFine, s
  <2> QED BY <2>2, <2>3 DEF EntriesFine
<1> QED BY <1>2, <1>3, <1>6, <1>7 DEF IInv

\* Only what poll() will ask for or report changes.
LEMMA QuietStep ==
  ASSUME IInv, UNCHANGED <<status, fd, list, pass, closedFds>>,
         ioState' \in [Sockets -> IOStates \cup {"IGNORE"}],
         ready' \in [Sockets -> SUBSET Events]
  PROVE  IInv'
<1>1. PassFine' /\ (InHandler' <=> InHandler) /\ current' = current
  BY PassStays
<1>2. ListFine' /\ Entries' = Entries /\ Alive' = Alive
  BY DEF IInv, ListFine, Entries, list, Alive
<1>3. ObjectsFine'
  BY DEF IInv, ObjectsFine
<1>4. \A t \in Alive : Entry(t)' = Entry(t)
  BY DEF Entry
<1>5. EntriesFine'
  BY <1>1, <1>2, <1>4 DEF IInv, EntriesFine
<1> QED BY <1>1, <1>2, <1>3, <1>5 DEF IInv

-----------------------------------------------------------------------------
(* What waitForEventsAndProcess does.                                      *)

Polled == [fd : Fds, revents : SUBSET Events, owner : Sockets]

\* No socket has its descriptor closed when no handler runs.
NoneClosed == \A s \in Sockets : status[s] # "closed"

LEMMA ListStays ==
  ASSUME IInv, NoneClosed, UNCHANGED <<fd, ioState, m_socketList>>,
         ready' \in [Sockets -> SUBSET Events],
         status' = status \/ status' = [s \in Sockets |-> IF status[s] = "gone" THEN "unused"
                                                          ELSE status[s]],
         m_iterator' \in 0 .. Len(m_socketList), closedFds' \in {closedFds, {}}
  PROVE  ListFine' /\ ObjectsFine' /\ EntriesFine'
<1>1. ObjectsFine'
  BY DEF IInv, ObjectsFine
<1>2. ListFine' /\ Entries' = Entries
  BY DEF IInv, ListFine, Entries
<1>3. Alive' = Alive
  BY DEF Alive, IInv, ObjectsFine
<1>4. \A t \in Alive : Entry(t)' = Entry(t)
  BY DEF Entry
<1>5. \A s \in Sockets : status'[s] # "closed"
  BY DEF NoneClosed, IInv, ObjectsFine
<1>6. EntriesFine'
  BY <1>2, <1>3, <1>4, <1>5 DEF IInv, EntriesFine
<1> QED BY <1>1, <1>2, <1>6

LEMMA NobodyIsNoSocket ==
  Nobody \in [socket : Sockets \cup {"nobody"}, event : Events] /\ Nobody.socket \notin Sockets
BY NobodyAssumption DEF Nobody, Events

LEMMA SnapshotFacts ==
  ASSUME IInv
  PROVE  /\ Snapshot \in Seq(Polled) /\ Len(Snapshot) = Len(m_socketList)
         /\ \A i \in 1 .. Len(m_socketList) :
              Snapshot[i] = [fd |-> m_socketList[i].fileDescriptor,
                             revents |-> Revents(m_socketList[i].socket),
                             owner |-> m_socketList[i].socket]
<1> DEFINE l == Len(m_socketList)
<1>1. l \in Nat /\ \A i \in 1 .. l : m_socketList[i] \in EntryType
  BY SMT DEF IInv, ListFine
<1>2. \A s \in Sockets : Revents(s) \in SUBSET Events
  BY DEF Revents, IInv, ObjectsFine
<1>3. \A i \in 1 .. l : Snapshot[i] = [fd |-> m_socketList[i].fileDescriptor,
                                       revents |-> Revents(m_socketList[i].socket),
                                       owner |-> m_socketList[i].socket]
  BY DEF Snapshot
<1>4. ASSUME NEW i \in 1 .. l PROVE Snapshot[i] \in Polled
  <2>1. m_socketList[i].socket \in Sockets /\ m_socketList[i].fileDescriptor \in Fds
    BY <1>1 DEF EntryType
  <2>2. Revents(m_socketList[i].socket) \in SUBSET Events
    BY <1>2, <2>1
  <2>3. [fd |-> m_socketList[i].fileDescriptor, revents |-> Revents(m_socketList[i].socket),
         owner |-> m_socketList[i].socket] \in Polled
    BY <2>1, <2>2 DEF Polled
  <2> QED BY <1>3, <2>3
<1>5. Snapshot \in [1 .. l -> Polled]
  BY <1>4 DEF Snapshot
<1> HIDE DEF l
<1>6. Snapshot \in Seq(Polled) /\ Len(Snapshot) = l
  BY <1>1, <1>5, SMT
<1> QED BY <1>3, <1>6 DEF l

LEMMA PollStep ==
  ASSUME IInv, Poll
  PROVE  IInv'
<1>1. /\ pc = "out" /\ pollfds' = Snapshot /\ j' = 1 /\ m_iterator' = 1 /\ pc' = "check"
      /\ closedFds' = {} /\ UNCHANGED <<objects, m_socketList, current>>
      /\ \E i \in 1 .. Len(m_socketList) : TRUE
  BY DEF Poll
<1>2. 1 \in 0 .. Len(m_socketList)
  BY <1>1, SMT DEF IInv, ListFine
<1>3. NoneClosed
  BY <1>1 DEF IInv, EntriesFine, NoneClosed, InHandler
<1>4. ListFine' /\ ObjectsFine' /\ EntriesFine'
  BY <1>1, <1>2, <1>3, ListStays DEF objects, IInv, ObjectsFine
<1>5. PassFine'
  <2>1. pollfds' \in Seq(Polled) /\ j' \in 1 .. Len(pollfds') + 1
    BY <1>1, SnapshotFacts, SMT
  <2>2. ~InHandler /\ ~InHandler'
    BY <1>1 DEF InHandler
  <2> QED BY <1>1, <2>1, <2>2 DEF IInv, PassFine, Polled
<1> QED BY <1>4, <1>5 DEF IInv

LEMMA FinishStep ==
  ASSUME IInv, Finish
  PROVE  IInv'
<1>1. /\ pc = "check" /\ pc' = "out" /\ pollfds' = <<>> /\ j' = 1 /\ closedFds' = {}
      /\ status' = [s \in Sockets |-> IF status[s] = "gone" THEN "unused" ELSE status[s]]
      /\ UNCHANGED <<fd, ioState, ready, list, current>>
  BY DEF Finish
<1>2. NoneClosed
  BY <1>1 DEF IInv, EntriesFine, NoneClosed, InHandler
<1>3. ListFine' /\ ObjectsFine' /\ EntriesFine'
  <2>1. m_iterator' \in 0 .. Len(m_socketList) /\ ready' \in [Sockets -> SUBSET Events]
        /\ UNCHANGED m_socketList
    BY <1>1 DEF IInv, ListFine, ObjectsFine, list
  <2> QED BY <1>1, <1>2, <2>1, ListStays
<1>4. PassFine'
  <2>1. pollfds' \in Seq(Polled) /\ j' \in 1 .. Len(pollfds') + 1
    BY <1>1, SMT
  <2>2. ~InHandler /\ ~InHandler'
    BY <1>1 DEF InHandler
  <2> QED BY <1>1, <2>1, <2>2 DEF IInv, PassFine, Polled
<1> QED BY <1>3, <1>4 DEF IInv

\* One step on an entry of the poll() result: skip, go on, advance, or call.
LEMMA EntryStep ==
  ASSUME IInv, NoneClosed, j <= Len(pollfds),
         UNCHANGED <<status, fd, ioState, m_socketList, pollfds, closedFds>>,
         m_iterator' \in {m_iterator, Following(m_iterator)},
         ready' \in [Sockets -> SUBSET Events],
         \/ j' = j + 1 /\ pc' = "check" /\ current'.socket \notin Sockets
         \/ j' = j /\ pc' \in {"write", "read"} /\ current'.socket \notin Sockets
         \/ j' = j /\ pc' = "handler" /\ current'.socket \in Sockets,
         current' \in [socket : Sockets \cup {"nobody"}, event : Events]
  PROVE  IInv'
<1>1. m_iterator' \in 0 .. Len(m_socketList)
  BY FollowingFacts DEF IInv, ListFine
<1>2. ListFine' /\ ObjectsFine' /\ EntriesFine'
  BY <1>1, ListStays
<1>3. PassFine'
  <2>1. pollfds \in Seq(Polled) /\ j \in 1 .. Len(pollfds) + 1
    BY DEF IInv, PassFine, Polled
  <2>2. j' \in 1 .. Len(pollfds) + 1 /\ (pc' \in {"write", "read", "handler"} => j' <= Len(pollfds))
    BY <2>1, SMT
  <2>3. (InHandler' <=> current'.socket \in Sockets) /\ pc' \in {"out", "check", "write", "read", "handler"}
    BY DEF InHandler
  <2> QED BY <2>1, <2>2, <2>3 DEF PassFine, Polled
<1> QED BY <1>2, <1>3 DEF IInv

\* The socket whose handler is called is one of the list's.
LEMMA HandleFacts ==
  ASSUME IInv, Matches, NEW event \in Events, Handle(event)
  PROVE  /\ current'.socket \in Alive /\ current'.event = event /\ pc' = "handler"
         /\ current' \in [socket : Sockets \cup {"nobody"}, event : Events]
         /\ ready' \in [Sockets -> SUBSET Events]
         /\ m_socketList[m_iterator] = Entry(current'.socket)
         /\ m_iterator \in 1 .. Len(m_socketList)
<1>1. m_iterator \in 1 .. Len(m_socketList)
  BY SMT DEF IInv, ListFine, Matches, End
<1>2. m_socketList[m_iterator] \in Entries
  BY <1>1 DEF Entries
<1>3. PICK s \in Alive : m_socketList[m_iterator] = Entry(s)
  BY <1>2 DEF IInv, EntriesFine
<1>4. m_socketList[m_iterator].socket = s /\ s \in Sockets
  BY <1>3 DEF Entry, Alive
<1>5. current' = [socket |-> s, event |-> event] /\ pc' = "handler"
      /\ ready' = [ready EXCEPT ![s] = @ \ {event}]
  BY <1>4 DEF Handle
<1> QED BY <1>1, <1>3, <1>4, <1>5 DEF IInv, ObjectsFine

LEMMA LoopStep ==
  ASSUME IInv, CheckSkips \/ CheckPasses \/ Write \/ Read \/ Return
  PROVE  IInv'
<1>1. ready \in [Sockets -> SUBSET Events] /\ Nobody.socket \notin Sockets
      /\ current \in [socket : Sockets \cup {"nobody"}, event : Events]
  BY NobodyIsNoSocket DEF IInv, ObjectsFine, PassFine
<1>2. CASE CheckSkips \/ CheckPasses \/ Write \/ Read
  <2>1. pc \in {"check", "write", "read"}
    BY <1>2 DEF CheckSkips, CheckPasses, Write, Read
  <2>2. NoneClosed /\ current.socket \notin Sockets
    BY <2>1 DEF IInv, EntriesFine, PassFine, NoneClosed, InHandler
  <2>3. j <= Len(pollfds)
    <3>1. CASE pc = "check"
      <4>1. ~PassOver
        BY <1>2, <3>1 DEF CheckSkips, CheckPasses, Write, Read
      <4>2. ~(j > Len(pollfds))
        BY <4>1 DEF PassOver
      <4>3. j \in Nat /\ Len(pollfds) \in Nat
        BY SMT DEF IInv, PassFine
      <4> QED BY <4>2, <4>3, SMT
    <3>2. CASE pc \in {"write", "read"}
      BY <3>2 DEF IInv, PassFine
    <3> QED BY <2>1, <3>1, <3>2
  <2>4. /\ UNCHANGED <<status, fd, ioState, m_socketList, pollfds, closedFds>>
        /\ m_iterator' \in {m_iterator, Following(m_iterator)}
    BY <1>2 DEF CheckSkips, CheckPasses, Write, Read, objects, list, Skip, Handle, Advance
  <2>5. CASE Matches /\ \E event \in Events : Handle(event) /\ j' = j
    <3>1. /\ current'.socket \in Sockets /\ pc' = "handler" /\ j' = j
          /\ current' \in [socket : Sockets \cup {"nobody"}, event : Events]
          /\ ready' \in [Sockets -> SUBSET Events]
      BY <2>5, HandleFacts DEF Alive
    <3> QED BY <2>2, <2>3, <2>4, <3>1, EntryStep
  <2>6. CASE /\ UNCHANGED <<ready, current>>
             /\ \/ j' = j + 1 /\ pc' = "check"
                \/ j' = j /\ pc' \in {"write", "read"}
    BY <1>1, <2>2, <2>3, <2>4, <2>6, EntryStep
  <2>7. \/ Matches /\ \E event \in Events : Handle(event) /\ j' = j
        \/ /\ UNCHANGED <<ready, current>>
           /\ \/ j' = j + 1 /\ pc' = "check"
              \/ j' = j /\ pc' \in {"write", "read"}
    <3>1. "ERR" \in Events /\ "OUT" \in Events /\ "IN" \in Events
      BY DEF Events
    <3>2. CASE CheckSkips
      BY <3>2 DEF CheckSkips, Skip, objects
    <3>3. CASE CheckPasses
      BY <3>1, <3>3 DEF CheckPasses
    <3>4. CASE Write
      BY <3>1, <3>4 DEF Write, Skip
    <3>5. CASE Read
      BY <3>1, <3>5 DEF Read, Skip, Advance
    <3> QED BY <1>2, <3>2, <3>3, <3>4, <3>5
  <2> QED BY <2>5, <2>6, <2>7
<1>3. CASE Return
  <2>1. InHandler /\ status[current.socket] # "closed" /\ current' = Nobody
        /\ UNCHANGED <<objects, m_socketList, pollfds, closedFds>>
    BY <1>3 DEF Return
  <2>2. NoneClosed
    BY <2>1 DEF IInv, EntriesFine, NoneClosed
  <2>3. j <= Len(pollfds) /\ current.event \in Events
    BY <2>1 DEF IInv, PassFine, InHandler
  <2>4. /\ m_iterator' \in {m_iterator, Following(m_iterator)}
        /\ \/ j' = j + 1 /\ pc' = "check"
           \/ j' = j /\ pc' \in {"write", "read"}
    BY <1>3, <2>3 DEF Return, Advance, Skip, Events
  <2> QED BY <1>1, <2>1, <2>2, <2>3, <2>4, NobodyIsNoSocket, EntryStep DEF objects
<1> QED BY <1>2, <1>3

-----------------------------------------------------------------------------
LEMMA InitIInv ==
  ASSUME Init
  PROVE  IInv
<1>1. m_socketList = <<>> /\ pollfds = <<>> /\ m_iterator = 0 /\ j = 1
  BY DEF Init, End
<1>2. m_socketList \in Seq(EntryType) /\ pollfds \in Seq(Polled)
      /\ Len(m_socketList) = 0 /\ Len(pollfds) = 0
  BY <1>1, SMT
<1>3. ListFine
  BY <1>1, <1>2, SMT DEF ListFine
<1>4. ObjectsFine
  BY DEF Init, ObjectsFine
<1>5. EntriesFine
  <2>1. Entries = {}
    BY <1>2, SMT DEF Entries
  <2>2. Alive = {} /\ \A s \in Sockets : status[s] # "closed"
    BY DEF Init, Alive
  <2> QED BY <2>1, <2>2 DEF EntriesFine
<1>6. PassFine
  <2>1. pc = "out" /\ current = Nobody
    BY DEF Init
  <2>2. j \in 1 .. Len(pollfds) + 1
    BY <1>1, <1>2, SMT
  <2>3. pc \notin {"write", "read", "handler"} /\ ~InHandler
    BY <2>1 DEF InHandler
  <2> QED BY <1>2, <2>1, <2>2, <2>3, NobodyIsNoSocket DEF PassFine, Polled
<1> QED BY <1>3, <1>4, <1>5, <1>6 DEF IInv

LEMMA NextIInv ==
  ASSUME IInv, [Next]_vars
  PROVE  IInv'
<1>1. CASE Program
  <2>1. PICK s \in Sockets :
          \/ MoveSocket(s) \/ CloseSocket(s)
          \/ \E state \in IOStates : OpenSocket(s, state) \/ SetState(s, state)
    BY <1>1 DEF Program
  <2>2. CASE MoveSocket(s)
    BY <2>2, MoveStep
  <2>3. CASE CloseSocket(s)
    <3>1. status[s] = "live" /\ Bury(s) /\ Unregister(s) /\ UNCHANGED pass
          /\ closedFds' \subseteq closedFds \cup {fd[s]}
      BY <2>3 DEF CloseSocket
    <3>2. s \in Alive
      BY <3>1 DEF Alive
    <3> QED BY <3>1, <3>2, BuryStep
  <2>4. ASSUME NEW state \in IOStates, OpenSocket(s, state)
        PROVE  IInv'
    BY <2>4, OpenStep
  <2>5. ASSUME NEW state \in IOStates, SetState(s, state)
        PROVE  IInv'
    <3>1. /\ UNCHANGED <<status, fd, list, pass, closedFds>> /\ ready' = ready
          /\ ioState' = [ioState EXCEPT ![s] = state]
      BY <2>5 DEF SetState
    <3>2. ioState' \in [Sockets -> IOStates \cup {"IGNORE"}]
          /\ ready' \in [Sockets -> SUBSET Events]
      BY <3>1 DEF IInv, ObjectsFine
    <3> QED BY <3>1, <3>2, QuietStep
  <2> QED BY <2>1, <2>2, <2>3, <2>4, <2>5
<1>2. CASE LoseOwn
  BY <1>2, LoseStep
<1>3. CASE DropOwn
  <2>1. InHandler /\ status[current.socket] = "closed" /\ Bury(current.socket)
        /\ Unregister(current.socket) /\ UNCHANGED pass /\ closedFds' = closedFds
    BY <1>3 DEF DropOwn
  <2>2. current.socket \in Alive
    BY <2>1 DEF IInv, PassFine, Alive
  <2> QED BY <2>1, <2>2, BuryStep
<1>4. CASE Poll
  BY <1>4, PollStep
<1>5. CASE Finish
  BY <1>5, FinishStep
<1>6. CASE CheckSkips \/ CheckPasses \/ Write \/ Read \/ Return
  BY <1>6, LoopStep
<1>7. ASSUME NEW s \in Sockets, NEW event \in Events, BecomeReady(s, event)
      PROVE  IInv'
  <2>1. /\ UNCHANGED <<status, fd, ioState, list, pass, closedFds>>
        /\ ready' = [ready EXCEPT ![s] = @ \cup {event}]
    BY <1>7 DEF BecomeReady
  <2>2. ioState' \in [Sockets -> IOStates \cup {"IGNORE"}]
        /\ ready' \in [Sockets -> SUBSET Events]
    BY <2>1 DEF IInv, ObjectsFine
  <2> QED BY <2>1, <2>2, QuietStep
<1>8. CASE UNCHANGED vars
  BY <1>8, QuietStep DEF vars, objects, IInv, ObjectsFine
<1> QED BY <1>1, <1>2, <1>3, <1>4, <1>5, <1>6, <1>7, <1>8 DEF Next, Pass

\* In every state the list is that of the sockets that exist, each once, and
\* m_iterator is a position of it or end().
THEOREM Invariance == Safe => []IInv
BY InitIInv, NextIInv, PTL DEF Safe

\* RegisteredAreAlive, for any number of sockets, descriptors and events and
\* whatever handlers open, move and close: removeSocket steps m_iterator off the
\* entry it erases, and no deleted socket stays in m_socketList.
THEOREM ListIsThatOfTheSockets == Safe => []RegisteredAreAlive
<1>1. IInv => RegisteredAreAlive
  <2> SUFFICES ASSUME IInv PROVE RegisteredAreAlive
    OBVIOUS
  <2>1. Types
    BY DEF Types, IInv, ListFine, ObjectsFine, PassFine, EntryType
  <2>2. ASSUME NEW i \in 1 .. Len(m_socketList)
        PROVE  LET s == m_socketList[i].socket IN
                 /\ status[s] \in {"live", "closed"}
                 /\ status[s] = "closed" => InHandler /\ current.socket = s
                 /\ m_socketList[i].fileDescriptor = fd[s]
    <3>1. PICK s \in Alive : m_socketList[i] = Entry(s)
      BY DEF IInv, EntriesFine, Entries
    <3>2. m_socketList[i].socket = s /\ m_socketList[i].fileDescriptor = fd[s]
      BY <3>1 DEF Entry
    <3>3. status[s] = "closed" => InHandler /\ current.socket = s
      BY DEF IInv, EntriesFine, Alive
    <3> QED BY <3>2, <3>3 DEF Alive
  <2>3. \A s \in Sockets : status[s] \in {"live", "closed"} => Positions(s) # {}
    BY PositionOfAlive DEF Alive
  <2> QED BY <2>1, <2>2, <2>3 DEF RegisteredAreAlive
<1> QED BY <1>1, Invariance, PTL


-----------------------------------------------------------------------------
(* Where a descriptor closed in a pass is not given out again in that pass, the *)
(* descriptor line 118 compares names one socket.                          *)

\* Every entry of the poll() result is that of one socket, which no other socket
\* is taken for, and a handler runs for the owner of the entry j is at.
OwnersFine ==
  /\ pc = "out" => pollfds = <<>>
  /\ \A i, k \in 1 .. Len(pollfds) : pollfds[i].owner = pollfds[k].owner => i = k
  /\ \A k \in 1 .. Len(pollfds) : status[pollfds[k].owner] # "unused"
  /\ InHandler => pollfds[j].owner = current.socket

\* A polled descriptor is its owner's until it is closed, and then nobody's.
DescriptorsFine ==
  /\ \A s, t \in Open : fd[s] = fd[t] => s = t
  /\ \A k \in 1 .. Len(pollfds) : \/ pollfds[k].fd \in closedFds
                                  \/ \E s \in Open : fd[s] = pollfds[k].fd
  /\ \A k \in 1 .. Len(pollfds) :
       \A s \in Open : fd[s] = pollfds[k].fd => s = pollfds[k].owner

RInv == IInv /\ OwnersFine /\ DescriptorsFine


LEMMA InitRInv ==
  ASSUME Init
  PROVE  RInv
<1>1. pollfds = <<>> /\ Len(pollfds) = 0 /\ Open = {} /\ ~InHandler
  BY SMT DEF Init, Open, InHandler
<1>2. 1 .. Len(pollfds) = {}
  BY <1>1, SMT
<1> QED BY <1>1, <1>2, InitIInv DEF RInv, OwnersFine, DescriptorsFine

LEMMA OpenRInv ==
  ASSUME ~Reuses, RInv, NEW s \in Sockets, NEW state \in IOStates, OpenSocket(s, state)
  PROVE  OwnersFine' /\ DescriptorsFine'
<1>1. /\ status[s] = "unused" /\ Free # {}
      /\ status' = [status EXCEPT ![s] = "live"] /\ fd' = [fd EXCEPT ![s] = NewFd]
      /\ UNCHANGED <<pass, closedFds>>
  BY DEF OpenSocket
<1>2. NewFd \notin closedFds /\ \A t \in Open : fd[t] # NewFd
  BY <1>1, NewFdIsFree DEF Open
<1>3. ObjectsFine /\ pollfds' = pollfds /\ (InHandler' <=> InHandler) /\ UNCHANGED <<pc, j, current>>
  BY <1>1 DEF RInv, IInv, pass, InHandler
<1>4. Open' = Open \cup {s} /\ s \notin Open
  BY <1>1, <1>3 DEF Open, ObjectsFine
<1>5. fd'[s] = NewFd /\ \A t \in Open : fd'[t] = fd[t]
  BY <1>1, <1>3, <1>4 DEF Open, ObjectsFine
<1>6. OwnersFine'
  <2>1. ASSUME NEW k \in 1 .. Len(pollfds) PROVE status'[pollfds[k].owner] # "unused"
    BY <1>1, <1>3 DEF RInv, OwnersFine, ObjectsFine
  <2> QED BY <1>3, <2>1 DEF RInv, OwnersFine
<1>7. DescriptorsFine'
  <2>1. \A k \in 1 .. Len(pollfds) : pollfds[k].fd # NewFd
    BY <1>2 DEF RInv, DescriptorsFine
  <2>2. \A t, u \in Open' : fd'[t] = fd'[u] => t = u
    BY <1>2, <1>4, <1>5 DEF RInv, DescriptorsFine
  <2>3. ASSUME NEW k \in 1 .. Len(pollfds)
        PROVE  /\ pollfds[k].fd \in closedFds \/ \E t \in Open' : fd'[t] = pollfds[k].fd
               /\ \A t \in Open' : fd'[t] = pollfds[k].fd => t = pollfds[k].owner
    BY <1>4, <1>5, <2>1 DEF RInv, DescriptorsFine
  <2> QED BY <1>1, <1>3, <2>2, <2>3 DEF DescriptorsFine
<1> QED BY <1>6, <1>7

LEMMA MoveRInv ==
  ASSUME ~Reuses, RInv, NEW s \in Sockets, MoveSocket(s)
  PROVE  OwnersFine' /\ DescriptorsFine'
<1>1. /\ pc \in {"out", "handler"} /\ status[s] = "live" /\ Free # {}
      /\ fd' = [fd EXCEPT ![s] = NewFd]
      /\ closedFds' = closedFds \cup (IF InHandler THEN {fd[s]} ELSE {})
      /\ UNCHANGED <<status, pass>>
  BY ProgramAssumption DEF MoveSocket
<1>2. NewFd \notin closedFds /\ \A t \in Open : fd[t] # NewFd
  BY <1>1, NewFdIsFree DEF Open
<1>3. ObjectsFine /\ pollfds' = pollfds /\ (InHandler' <=> InHandler) /\ UNCHANGED <<pc, j, current>>
  BY <1>1 DEF RInv, IInv, pass, InHandler
<1>4. Open' = Open /\ s \in Open
  BY <1>1 DEF Open
<1>5. fd'[s] = NewFd /\ \A t \in Open : t # s => fd'[t] = fd[t]
  BY <1>1, <1>3, <1>4 DEF Open, ObjectsFine
<1>6. OwnersFine'
  BY <1>1, <1>3 DEF RInv, OwnersFine
<1>7. DescriptorsFine'
  <2>1. \A k \in 1 .. Len(pollfds) : pollfds[k].fd # NewFd
    BY <1>2 DEF RInv, DescriptorsFine
  <2>2. \A t, u \in Open : fd'[t] = fd'[u] => t = u
    BY <1>2, <1>4, <1>5 DEF RInv, DescriptorsFine
  <2>3. CASE pc = "out"
    <3>1. pollfds = <<>> /\ 1 .. Len(pollfds) = {}
      BY <2>3, SMT DEF RInv, OwnersFine
    <3> QED BY <1>3, <1>4, <2>2, <3>1 DEF DescriptorsFine
  <2>4. CASE pc = "handler"
    <3>1. closedFds' = closedFds \cup {fd[s]}
      BY <1>1, <2>4 DEF InHandler
    <3>2. ASSUME NEW k \in 1 .. Len(pollfds)
          PROVE  /\ pollfds[k].fd \in closedFds' \/ \E t \in Open : fd'[t] = pollfds[k].fd
                 /\ \A t \in Open : fd'[t] = pollfds[k].fd => t = pollfds[k].owner
      BY <1>4, <1>5, <2>1, <3>1 DEF RInv, DescriptorsFine
    <3> QED BY <1>3, <1>4, <2>2, <3>2 DEF DescriptorsFine
  <2> QED BY <1>1, <2>3, <2>4
<1> QED BY <1>6, <1>7

\* A socket is closed: its descriptor is nobody's until poll() is called again.
LEMMA CloseRInv ==
  ASSUME RInv, NEW s \in Sockets, CloseSocket(s)
  PROVE  OwnersFine' /\ DescriptorsFine'
<1>1. /\ pc \in {"out", "handler"} /\ status[s] = "live"
      /\ status' = [status EXCEPT ![s] = IF InHandler THEN "gone" ELSE "unused"]
      /\ fd' = [fd EXCEPT ![s] = 0]
      /\ closedFds' = closedFds \cup (IF InHandler THEN {fd[s]} ELSE {})
      /\ UNCHANGED pass
  BY DEF CloseSocket, Bury, Programs
<1>2. ObjectsFine /\ pollfds' = pollfds /\ (InHandler' <=> InHandler) /\ UNCHANGED <<pc, j, current>>
  BY <1>1 DEF RInv, IInv, pass, InHandler
<1>3. Open' = Open \ {s}
  BY <1>1, <1>2 DEF Open, ObjectsFine
<1>4. \A t \in Open : t # s => fd'[t] = fd[t]
  BY <1>1, <1>2 DEF Open, ObjectsFine
<1>5. \A t, u \in Open' : fd'[t] = fd'[u] => t = u
  BY <1>3, <1>4 DEF RInv, DescriptorsFine
<1>6. CASE pc = "out"
  <2>1. pollfds = <<>> /\ 1 .. Len(pollfds) = {} /\ ~InHandler
    BY <1>6, SMT DEF RInv, OwnersFine, InHandler
  <2> QED BY <1>2, <1>5, <2>1 DEF OwnersFine, DescriptorsFine
<1>7. CASE pc = "handler"
  <2>1. closedFds' = closedFds \cup {fd[s]} /\ status' = [status EXCEPT ![s] = "gone"]
    BY <1>1, <1>7 DEF InHandler
  <2>2. ASSUME NEW k \in 1 .. Len(pollfds) PROVE status'[pollfds[k].owner] # "unused"
    BY <1>2, <2>1 DEF RInv, OwnersFine, ObjectsFine
  <2>3. OwnersFine'
    BY <1>2, <2>2 DEF RInv, OwnersFine
  <2>4. ASSUME NEW k \in 1 .. Len(pollfds)
        PROVE  /\ pollfds[k].fd \in closedFds' \/ \E t \in Open' : fd'[t] = pollfds[k].fd
               /\ \A t \in Open' : fd'[t] = pollfds[k].fd => t = pollfds[k].owner
    BY <1>3, <1>4, <2>1 DEF RInv, DescriptorsFine
  <2> QED BY <1>2, <1>5, <2>3, <2>4 DEF DescriptorsFine
<1> QED BY <1>1, <1>6, <1>7

LEMMA LoseRInv ==
  ASSUME RInv, LoseOwn
  PROVE  OwnersFine' /\ DescriptorsFine'
<1> DEFINE s == current.socket
<1>1. /\ s \in Sockets /\ status[s] = "live"
      /\ status' = [status EXCEPT ![s] = "closed"] /\ closedFds' = closedFds \cup {fd[s]}
      /\ fd' = fd /\ UNCHANGED pass
  BY DEF LoseOwn, RInv, IInv, PassFine
<1>2. ObjectsFine /\ pollfds' = pollfds /\ (InHandler' <=> InHandler) /\ UNCHANGED <<pc, j, current>>
  BY <1>1 DEF RInv, IInv, pass, InHandler
<1> HIDE DEF s
<1>3. Open' = Open \ {s}
  BY <1>1, <1>2 DEF Open, ObjectsFine
<1>4. ASSUME NEW k \in 1 .. Len(pollfds) PROVE status'[pollfds[k].owner] # "unused"
  BY <1>1, <1>2 DEF RInv, OwnersFine, ObjectsFine
<1>5. OwnersFine'
  BY <1>2, <1>4 DEF RInv, OwnersFine
<1>6. ASSUME NEW k \in 1 .. Len(pollfds)
      PROVE  pollfds[k].fd \in closedFds' \/ \E t \in Open' : fd[t] = pollfds[k].fd
  BY <1>1, <1>3 DEF RInv, DescriptorsFine
<1>7. DescriptorsFine'
  BY <1>1, <1>2, <1>3, <1>6 DEF RInv, DescriptorsFine
<1> QED BY <1>5, <1>7

LEMMA DropRInv ==
  ASSUME RInv, DropOwn
  PROVE  OwnersFine' /\ DescriptorsFine'
<1> DEFINE s == current.socket
<1>1. /\ InHandler /\ s \in Sockets /\ status[s] = "closed"
      /\ status' = [status EXCEPT ![s] = "gone"] /\ fd' = [fd EXCEPT ![s] = 0]
      /\ UNCHANGED <<pass, closedFds>>
  BY DEF DropOwn, Bury, RInv, IInv, PassFine
<1>2. ObjectsFine /\ pollfds' = pollfds /\ (InHandler' <=> InHandler) /\ UNCHANGED <<pc, j, current>>
  BY <1>1 DEF RInv, IInv, pass, InHandler
<1> HIDE DEF s
<1>3. Open' = Open /\ \A t \in Open : fd'[t] = fd[t]
  BY <1>1, <1>2 DEF Open, ObjectsFine
<1>4. ASSUME NEW k \in 1 .. Len(pollfds) PROVE status'[pollfds[k].owner] # "unused"
  BY <1>1, <1>2 DEF RInv, OwnersFine, ObjectsFine
<1>5. OwnersFine'
  BY <1>2, <1>4 DEF RInv, OwnersFine
<1>6. DescriptorsFine'
  BY <1>1, <1>2, <1>3 DEF RInv, DescriptorsFine
<1> QED BY <1>5, <1>6

LEMMA PollRInv ==
  ASSUME RInv, Poll
  PROVE  OwnersFine' /\ DescriptorsFine'
<1>1. /\ pc = "out" /\ pollfds' = Snapshot /\ pc' = "check" /\ closedFds' = {}
      /\ UNCHANGED <<status, fd>>
  BY DEF Poll, objects
<1>2. NoneClosed
  BY <1>1 DEF RInv, IInv, EntriesFine, NoneClosed, InHandler
<1>3. Alive = Open /\ Open' = Open
  BY <1>1, <1>2 DEF Alive, Open, NoneClosed
<1>4. Len(pollfds') = Len(m_socketList)
  BY <1>1, SnapshotFacts DEF RInv
<1>5. ASSUME NEW k \in 1 .. Len(m_socketList)
      PROVE  /\ pollfds'[k].owner = m_socketList[k].socket
             /\ pollfds'[k].owner \in Open /\ pollfds'[k].fd = fd[pollfds'[k].owner]
  <2>1. PICK s \in Alive : m_socketList[k] = Entry(s)
    BY DEF RInv, IInv, EntriesFine, Entries
  <2>2. m_socketList[k].socket = s /\ m_socketList[k].fileDescriptor = fd[s]
    BY <2>1 DEF Entry
  <2>3. pollfds'[k].owner = m_socketList[k].socket /\ pollfds'[k].fd = m_socketList[k].fileDescriptor
    <3>1. Snapshot[k] = [fd |-> m_socketList[k].fileDescriptor,
                         revents |-> Revents(m_socketList[k].socket),
                         owner |-> m_socketList[k].socket]
      BY SnapshotFacts DEF RInv
    <3> QED BY <1>1, <3>1
  <2> QED BY <1>3, <2>2, <2>3
<1>6. OwnersFine'
  <2>1. \A i, k \in 1 .. Len(m_socketList) : pollfds'[i].owner = pollfds'[k].owner => i = k
    BY <1>5 DEF RInv, IInv, ListFine
  <2>2. \A k \in 1 .. Len(m_socketList) : status[pollfds'[k].owner] # "unused"
    BY <1>5 DEF Open
  <2> QED BY <1>1, <1>4, <2>1, <2>2 DEF OwnersFine, InHandler
<1>7. DescriptorsFine'
  <2>1. \A s, t \in Open : fd[s] = fd[t] => s = t
    BY DEF RInv, DescriptorsFine
  <2>2. \A k \in 1 .. Len(m_socketList) :
          /\ \E s \in Open : fd[s] = pollfds'[k].fd
          /\ \A s \in Open : fd[s] = pollfds'[k].fd => s = pollfds'[k].owner
    BY <1>5, <2>1
  <2> QED BY <1>1, <1>3, <1>4, <2>1, <2>2 DEF DescriptorsFine
<1> QED BY <1>6, <1>7

LEMMA FinishRInv ==
  ASSUME RInv, Finish
  PROVE  OwnersFine' /\ DescriptorsFine'
<1>1. /\ pc' = "out" /\ pollfds' = <<>> /\ fd' = fd
      /\ status' = [s \in Sockets |-> IF status[s] = "gone" THEN "unused" ELSE status[s]]
  BY DEF Finish
<1>2. Open' = Open
  BY <1>1 DEF Open, RInv, IInv, ObjectsFine
<1>3. 1 .. Len(pollfds') = {} /\ ~InHandler'
  BY <1>1, SMT DEF InHandler
<1> QED BY <1>1, <1>2, <1>3 DEF RInv, OwnersFine, DescriptorsFine


\* The socket whose handler is called owns the entry its event was read from.
LEMMA HandlesTheOwner ==
  ASSUME RInv, NoneClosed, j <= Len(pollfds), Matches, NEW event \in Events, Handle(event)
  PROVE  current'.socket = pollfds[j].owner /\ current'.socket \in Alive
<1>1. current'.socket \in Alive /\ m_socketList[m_iterator] = Entry(current'.socket)
  BY HandleFacts DEF RInv
<1> DEFINE s == current'.socket
<1>2. s \in Open /\ fd[s] = pollfds[j].fd
  <2>1. m_socketList[m_iterator].fileDescriptor = fd[s]
    BY <1>1 DEF Entry
  <2> QED BY <1>1, <2>1 DEF Alive, Open, NoneClosed, Matches
<1>3. j \in 1 .. Len(pollfds)
  BY SMT DEF RInv, IInv, PassFine
<1> HIDE DEF s
<1>4. s = pollfds[j].owner
  BY <1>2, <1>3 DEF RInv, DescriptorsFine
<1> QED BY <1>1, <1>4 DEF s

\* What a step of the loop on an entry does to the pass.
LEMMA EntryCases ==
  ASSUME IInv, CheckSkips \/ CheckPasses \/ Write \/ Read
  PROVE  /\ NoneClosed /\ j <= Len(pollfds) /\ ~InHandler
         /\ UNCHANGED <<status, fd, ioState, m_socketList, pollfds, closedFds>>
         /\ \/ j' = j + 1 /\ pc' = "check" /\ current' = current
            \/ /\ j' = j /\ current' = current
               /\ \/ pc = "check" /\ pc' = "write"
                  \/ pc = "write" /\ pc' = "read"
            \/ /\ j' = j /\ Matches
               /\ \/ pc = "check" /\ "ERR" \in pollfds[j].revents /\ Handle("ERR")
                  \/ pc = "write" /\ "OUT" \in pollfds[j].revents /\ Handle("OUT")
                  \/ pc = "read" /\ "IN" \in pollfds[j].revents /\ Handle("IN")
<1>1. pc \in {"check", "write", "read"}
  BY DEF CheckSkips, CheckPasses, Write, Read
<1>2. NoneClosed /\ ~InHandler
  BY <1>1 DEF IInv, EntriesFine, NoneClosed, InHandler
<1>3. j <= Len(pollfds)
  <2>1. CASE pc = "check"
    <3>1. ~PassOver
      BY <2>1 DEF CheckSkips, CheckPasses, Write, Read
    <3>2. ~(j > Len(pollfds))
      BY <3>1 DEF PassOver
    <3>3. j \in Nat /\ Len(pollfds) \in Nat
      BY SMT DEF IInv, PassFine
    <3> QED BY <3>2, <3>3, SMT
  <2>2. CASE pc \in {"write", "read"}
    BY <2>2 DEF IInv, PassFine
  <2> QED BY <1>1, <2>1, <2>2
<1>4. UNCHANGED <<status, fd, ioState, m_socketList, pollfds, closedFds>>
  BY DEF CheckSkips, CheckPasses, Write, Read, objects, list, Skip, Handle, Advance
<1>5. CASE CheckSkips
  BY <1>2, <1>3, <1>4, <1>5 DEF CheckSkips, Skip
<1>6. CASE CheckPasses
  BY <1>2, <1>3, <1>4, <1>6 DEF CheckPasses
<1>7. CASE Write
  BY <1>2, <1>3, <1>4, <1>7 DEF Write, Skip
<1>8. CASE Read
  BY <1>2, <1>3, <1>4, <1>8 DEF Read, Skip, Advance
<1> QED BY <1>5, <1>6, <1>7, <1>8

LEMMA EntryRInv ==
  ASSUME RInv, CheckSkips \/ CheckPasses \/ Write \/ Read \/ Return
  PROVE  OwnersFine' /\ DescriptorsFine'
<1>1. /\ UNCHANGED <<status, fd, pollfds, closedFds>> /\ pc' # "out"
      /\ InHandler' => j' = j /\ current'.socket = pollfds[j].owner
  <2>1. CASE CheckSkips \/ CheckPasses \/ Write \/ Read
    <3>1. ASSUME NEW event \in Events, Matches, Handle(event)
          PROVE  current'.socket = pollfds[j].owner /\ pc' = "handler"
      BY <2>1, <3>1, EntryCases, HandlesTheOwner DEF RInv, Handle
    <3>2. "ERR" \in Events /\ "OUT" \in Events /\ "IN" \in Events
      BY DEF Events
    <3> QED BY <2>1, <3>1, <3>2, EntryCases DEF RInv, InHandler
  <2>2. CASE Return
    <3>1. /\ UNCHANGED <<objects, m_socketList, pollfds, closedFds>>
          /\ current.event \in Events
      BY <2>2 DEF Return, RInv, IInv, PassFine
    <3>2. pc' \in {"check", "write", "read"}
      BY <2>2, <3>1 DEF Return, Advance, Skip, Events
    <3> QED BY <3>1, <3>2 DEF objects, InHandler
  <2> QED BY <2>1, <2>2
<1>2. Open' = Open
  BY <1>1 DEF Open
<1> QED BY <1>1, <1>2 DEF RInv, OwnersFine, DescriptorsFine

LEMMA NextRInv ==
  ASSUME ~Reuses, RInv, [Next]_vars
  PROVE  RInv'
<1>1. IInv'
  BY NextIInv DEF RInv
<1>2. OwnersFine' /\ DescriptorsFine'
  <2>1. CASE Program
    <3>1. PICK s \in Sockets :
            \/ MoveSocket(s) \/ CloseSocket(s)
            \/ \E state \in IOStates : OpenSocket(s, state) \/ SetState(s, state)
      BY <2>1 DEF Program
    <3>2. CASE \E state \in IOStates : SetState(s, state)
      BY <3>2 DEF SetState, RInv, OwnersFine, DescriptorsFine, Open, pass, InHandler
    <3> QED BY <3>1, <3>2, MoveRInv, CloseRInv, OpenRInv
  <2>2. CASE LoseOwn
    BY <2>2, LoseRInv
  <2>3. CASE DropOwn
    BY <2>3, DropRInv
  <2>4. CASE Poll
    BY <2>4, PollRInv
  <2>5. CASE Finish
    BY <2>5, FinishRInv
  <2>6. CASE CheckSkips \/ CheckPasses \/ Write \/ Read \/ Return
    BY <2>6, EntryRInv
  <2>7. CASE \E s \in Sockets, event \in Events : BecomeReady(s, event)
    BY <2>7 DEF BecomeReady, RInv, OwnersFine, DescriptorsFine, Open, pass, InHandler
  <2>8. CASE UNCHANGED vars
    BY <2>8 DEF vars, objects, RInv, OwnersFine, DescriptorsFine, Open, pass, InHandler
  <2> QED BY <2>1, <2>2, <2>3, <2>4, <2>5, <2>6, <2>7, <2>8 DEF Next, Pass
<1> QED BY <1>1, <1>2 DEF RInv

\* What IO.hpp:73 says, which the code keeps as long as the kernel gives out no
\* descriptor that was closed since poll() returned: a handler is called for a
\* socket only if poll returned its event for that socket.
THEOREM EventsAreReportedWithoutReuse ==
  ASSUME ~Reuses
  PROVE  Safe => []EventsAreReported
<1>1. RInv => EventsAreReported
  BY DEF RInv, OwnersFine, EventsAreReported
<1>2. Init => RInv
  BY InitRInv
<1>3. RInv /\ [Next]_vars => RInv'
  BY NextRInv
<1> QED BY <1>1, <1>2, <1>3, PTL DEF Safe


-----------------------------------------------------------------------------
(* The loop implements EventDelivery.                                      *)

\* The registered sockets are those that exist.
LEMMA RegisteredIsAlive == IInv => Registered = Alive
<1> SUFFICES ASSUME IInv PROVE Registered = Alive
  OBVIOUS
<1>1. ASSUME NEW s \in Alive PROVE s \in Registered
  BY <1>1, PositionOfAlive DEF Registered, Alive
<1>2. ASSUME NEW s \in Registered PROVE s \in Alive
  <2>1. s \in Sockets /\ Positions(s) # {}
    BY <1>2 DEF Registered
  <2>2. PICK i \in 1 .. Len(m_socketList) : m_socketList[i].socket = s
    BY <2>1 DEF Positions
  <2>3. PICK t \in Alive : m_socketList[i] = Entry(t)
    BY <2>2 DEF IInv, EntriesFine, Entries
  <2> QED BY <2>2, <2>3 DEF Entry
<1> QED BY <1>1, <1>2 DEF Registered, Alive

\* The events poll() reported for a socket in entries after the one at j.
Later(s, event) ==
  \E k \in j + 1 .. Len(pollfds) : pollfds[k].owner = s /\ event \in pollfds[k].revents

\* ... and what is left of the entry at j.
Here(s, event) == j <= Len(pollfds) /\ pollfds[j].owner = s /\ event \in NotYetHandled

\* What is due to a socket is one or the other.
DueIsLaterOrHere ==
  \A s \in Sockets : \A event :
    event \in Due[s] <=> s \in Registered /\ (Later(s, event) \/ Here(s, event))

LEMMA DueMembers == DueIsLaterOrHere
<1> SUFFICES ASSUME NEW s \in Sockets, NEW event
             PROVE  event \in Due[s] <=> s \in Registered /\ (Later(s, event) \/ Here(s, event))
  BY DEF DueIsLaterOrHere
<1>1. event \in Reported(s) <=> Later(s, event)
  BY DEF Reported, Later
<1>2. Due[s] = IF s \notin Registered THEN {}
               ELSE Reported(s) \cup
                    (IF j <= Len(pollfds) /\ pollfds[j].owner = s THEN NotYetHandled ELSE {})
  BY DEF Due
<1>3. CASE s \in Registered
  BY <1>1, <1>2, <1>3 DEF Here
<1>4. CASE s \notin Registered
  BY <1>2, <1>4
<1> QED BY <1>3, <1>4

\* What is left of the entry at j at each place in the loop's body.
EntryIsLeft ==
  j <= Len(pollfds) =>
    /\ pc = "check" => NotYetHandled = pollfds[j].revents
    /\ pc = "write" => NotYetHandled = pollfds[j].revents \ {"ERR"}
    /\ pc = "read" => NotYetHandled = pollfds[j].revents \ {"ERR", "OUT"}
    /\ pc = "handler" /\ current.event = "ERR" => NotYetHandled = pollfds[j].revents \ {"ERR"}
    /\ pc = "handler" /\ current.event = "OUT" =>
         NotYetHandled = pollfds[j].revents \ {"ERR", "OUT"}
    /\ pc = "handler" /\ current.event = "IN" => NotYetHandled = pollfds[j].revents \ Events

LEMMA LeftOfTheEntry == EntryIsLeft
<1> SUFFICES ASSUME j <= Len(pollfds)
             PROVE  /\ pc = "check" => NotYetHandled = pollfds[j].revents
                    /\ pc = "write" => NotYetHandled = pollfds[j].revents \ {"ERR"}
                    /\ pc = "read" => NotYetHandled = pollfds[j].revents \ {"ERR", "OUT"}
                    /\ pc = "handler" /\ current.event = "ERR" =>
                         NotYetHandled = pollfds[j].revents \ {"ERR"}
                    /\ pc = "handler" /\ current.event = "OUT" =>
                         NotYetHandled = pollfds[j].revents \ {"ERR", "OUT"}
                    /\ pc = "handler" /\ current.event = "IN" =>
                         NotYetHandled = pollfds[j].revents \ Events
  BY DEF EntryIsLeft
<1>1. CASE pc = "check"
  BY <1>1 DEF NotYetHandled
<1>2. CASE pc = "write"
  BY <1>2 DEF NotYetHandled
<1>3. CASE pc = "read"
  BY <1>3 DEF NotYetHandled
<1>4. CASE pc = "handler" /\ current.event = "ERR"
  BY <1>4 DEF NotYetHandled
<1>5. CASE pc = "handler" /\ current.event = "OUT"
  BY <1>5 DEF NotYetHandled
<1>6. CASE pc = "handler" /\ current.event = "IN"
  BY <1>6 DEF NotYetHandled
<1> QED BY <1>1, <1>2, <1>3, <1>4, <1>5, <1>6


\* A step that reports nothing leaves a socket nothing more to handle: the pass is
\* where it was, or further on in the entry at j, or at the next entry.
LEMMA NothingMoreDue ==
  ASSUME IInv, IInv', pollfds' = pollfds,
         \A s \in Sockets : s \in Alive' /\ s \notin Alive =>
            \A k \in 1 .. Len(pollfds) : pollfds[k].owner # s,
         \/ j' = j /\ (j <= Len(pollfds) => NotYetHandled' \subseteq NotYetHandled)
         \/ j' = j + 1 /\ pc' = "check"
  PROVE  \A s \in Sockets : Due'[s] \subseteq Due[s]
<1>1. Registered = Alive /\ Registered' = Alive'
  <2>1. (Registered = Alive)'
    BY RegisteredIsAlive, PTL
  <2> QED BY <2>1, RegisteredIsAlive
<1>2. j \in Nat /\ j >= 1 /\ Len(pollfds) \in Nat
  BY SMT DEF IInv, PassFine
<1> SUFFICES ASSUME NEW s \in Sockets, NEW event, event \in Due'[s] PROVE event \in Due[s]
  OBVIOUS
<1>3. s \in Registered' /\ (Later(s, event)' \/ Here(s, event)')
  <2>1. DueIsLaterOrHere'
    BY DueMembers, PTL
  <2> QED BY <2>1 DEF DueIsLaterOrHere
<1>4. Later(s, event) \/ Here(s, event)
  <2>1. CASE j' = j /\ (j <= Len(pollfds) => NotYetHandled' \subseteq NotYetHandled)
    BY <1>3, <2>1 DEF Later, Here
  <2>2. CASE j' = j + 1 /\ pc' = "check"
    <3>1. CASE Later(s, event)'
      <4>1. PICK k \in j + 1 + 1 .. Len(pollfds) :
              pollfds[k].owner = s /\ event \in pollfds[k].revents
        BY <2>2, <3>1 DEF Later
      <4>2. k \in j + 1 .. Len(pollfds)
        BY <1>2, <4>1, SMT
      <4> QED BY <4>1, <4>2 DEF Later
    <3>2. CASE Here(s, event)'
      <4>1. j + 1 <= Len(pollfds) /\ pollfds[j + 1].owner = s /\ event \in NotYetHandled'
        BY <2>2, <3>2 DEF Here
      <4>2. EntryIsLeft'
        BY LeftOfTheEntry, PTL
      <4>3. NotYetHandled' = pollfds[j + 1].revents
        BY <2>2, <4>1, <4>2 DEF EntryIsLeft
      <4>4. j + 1 \in j + 1 .. Len(pollfds)
        BY <1>2, <4>1, SMT
      <4> QED BY <4>1, <4>3, <4>4 DEF Later
    <3> QED BY <1>3, <3>1, <3>2
  <2> QED BY <2>1, <2>2
<1>5. \E k \in 1 .. Len(pollfds) : pollfds[k].owner = s
  <2>1. CASE Later(s, event)
    <3>1. PICK k \in j + 1 .. Len(pollfds) : pollfds[k].owner = s
      BY <2>1 DEF Later
    <3>2. k \in 1 .. Len(pollfds)
      BY <1>2, <3>1, SMT
    <3> QED BY <3>1, <3>2
  <2>2. CASE Here(s, event)
    <3>1. j \in 1 .. Len(pollfds) /\ pollfds[j].owner = s
      BY <1>2, <2>2, SMT DEF Here
    <3> QED BY <3>1
  <2> QED BY <1>4, <2>1, <2>2
<1>6. s \in Registered
  BY <1>1, <1>3, <1>5
<1> QED BY <1>4, <1>6, DueMembers DEF DueIsLaterOrHere

\* The program's steps, and the kernel's, leave the pass where it is.
LEMMA ProgramRefines ==
  ASSUME RInv, IInv', UNCHANGED pass,
         \A s \in Sockets : s \in Alive' /\ s \notin Alive => status[s] = "unused"
  PROVE  Delivery!Change
<1>1. pollfds' = pollfds /\ j' = j /\ current' = current /\ NotYetHandled' = NotYetHandled
  BY DEF pass, NotYetHandled
<1>2. \A s \in Sockets : s \in Alive' /\ s \notin Alive =>
        \A k \in 1 .. Len(pollfds) : pollfds[k].owner # s
  BY DEF RInv, OwnersFine
<1>3. \A s \in Sockets : Due'[s] \subseteq Due[s]
  BY <1>1, <1>2, NothingMoreDue DEF RInv
<1>4. Registered' \subseteq Sockets
  BY DEF Registered
<1> QED BY <1>1, <1>3, <1>4 DEF Delivery!Change

\* waitForEventsAndProcess calls poll() when nothing is left of its last result.
LEMMA PollRefines ==
  ASSUME RInv, IInv', Poll
  PROVE  Delivery!Report
<1>1. /\ pc = "out" /\ pollfds = <<>> /\ UNCHANGED <<m_socketList, current>>
  BY DEF Poll, RInv, OwnersFine
<1>2. \A s \in Sockets : Due[s] = {}
  <2>1. Len(pollfds) = 0 /\ j \in Nat /\ j >= 1
    BY <1>1, SMT DEF RInv, IInv, PassFine
  <2>2. ~(j <= Len(pollfds)) /\ j + 1 .. Len(pollfds) = {}
    BY <2>1, SMT
  <2>3. \A s \in Sockets : \A event : ~Later(s, event) /\ ~Here(s, event)
    BY <2>2 DEF Later, Here
  <2> QED BY <2>3, DueMembers DEF DueIsLaterOrHere
<1>3. Registered' = Registered
  BY <1>1 DEF Registered, Positions
<1>4. \A s \in Sockets : \A event \in Due'[s] : s \in Registered' /\ event \in Events
  <2> SUFFICES ASSUME NEW s \in Sockets, NEW event \in Due'[s]
               PROVE  s \in Registered' /\ event \in Events
    OBVIOUS
  <2>1. DueIsLaterOrHere'
    BY DueMembers, PTL
  <2>2. s \in Registered' /\ (Later(s, event)' \/ Here(s, event)')
    BY <2>1 DEF DueIsLaterOrHere
  <2>3. \A k \in 1 .. Len(pollfds') : pollfds'[k].revents \subseteq Events
    <3>1. pollfds' \in Seq(Polled)
      BY DEF IInv, PassFine, Polled
    <3>2. \A k \in 1 .. Len(pollfds') : pollfds'[k] \in Polled
      BY <3>1, ElementOfSeq
    <3> QED BY <3>2 DEF Polled
  <2>4. j' = 1 /\ Len(pollfds') \in Nat
    BY SMT DEF Poll, IInv, PassFine
  <2>5. CASE Later(s, event)'
    <3>1. PICK k \in 1 + 1 .. Len(pollfds') : event \in pollfds'[k].revents
      BY <2>4, <2>5 DEF Later
    <3>2. k \in 1 .. Len(pollfds')
      BY <2>4, <3>1, SMT
    <3> QED BY <2>2, <2>3, <3>1, <3>2
  <2>6. CASE Here(s, event)'
    <3>1. j' <= Len(pollfds') /\ event \in NotYetHandled'
      BY <2>6 DEF Here
    <3>2. EntryIsLeft'
      BY LeftOfTheEntry, PTL
    <3>3. NotYetHandled' = pollfds'[j'].revents
      BY <3>1, <3>2 DEF Poll, EntryIsLeft
    <3>4. j' \in 1 .. Len(pollfds')
      BY <2>4, <3>1, SMT
    <3> QED BY <2>2, <2>3, <3>1, <3>3, <3>4
  <2> QED BY <2>2, <2>5, <2>6
<1>5. Due' = [s \in Sockets |-> Due'[s]]
  BY DEF Due
<1>6. Due' \in [Sockets -> SUBSET Events]
  <2>1. \A s \in Sockets : Due'[s] \in SUBSET Events
    BY <1>4
  <2> QED BY <1>5, <2>1
<1>7. Delivery!Events = Events
  BY DEF Delivery!Events, Events
<1> QED BY <1>1, <1>2, <1>3, <1>4, <1>6, <1>7 DEF Delivery!Report


\* A handler is called for an event that is due to its socket, once.
LEMMA HandleRefines ==
  ASSUME RInv, IInv', NoneClosed, ~InHandler, j <= Len(pollfds), j' = j, Matches,
         UNCHANGED <<status, m_socketList, pollfds>>,
         NEW event \in Events, event \in NotYetHandled, Handle(event),
         NotYetHandled' \subseteq NotYetHandled \ ({event} \cup Delivery!Before(event))
  PROVE  \E s \in Sockets : Delivery!Handle(s, event)
<1>1. PICK s \in Sockets : s \in Alive /\ s = pollfds[j].owner /\ s = current'.socket
  BY HandlesTheOwner DEF RInv, Alive
<1>2. current' = [socket |-> s, event |-> event]
  BY <1>1 DEF Handle
<1>3. s \in Registered
  BY <1>1, RegisteredIsAlive DEF RInv
<1>4. event \in Due[s]
  BY <1>1, <1>3, DueMembers DEF DueIsLaterOrHere, Here
<1>5. \A t \in Sockets : Due'[t] \subseteq Due[t]
  <2>1. Alive' = Alive
    BY DEF Alive
  <2> QED BY <2>1, NothingMoreDue DEF RInv
<1>6. \A e : ~Later(s, e)'
  <2>1. j \in Nat /\ j >= 1 /\ Len(pollfds) \in Nat
    BY SMT DEF RInv, IInv, PassFine
  <2>2. \A k \in j + 1 .. Len(pollfds) : k \in 1 .. Len(pollfds) /\ j \in 1 .. Len(pollfds) /\ k # j
    BY <2>1, SMT
  <2>3. \A k \in j + 1 .. Len(pollfds) : pollfds[k].owner # s
    BY <1>1, <2>2 DEF RInv, OwnersFine
  <2> QED BY <2>3 DEF Later
<1>7. Due'[s] \subseteq Due[s] \ ({event} \cup Delivery!Before(event))
  <2> SUFFICES ASSUME NEW e, e \in Due'[s]
               PROVE  e \in Due[s] /\ e \notin {event} \cup Delivery!Before(event)
    OBVIOUS
  <2>1. DueIsLaterOrHere'
    BY DueMembers, PTL
  <2>2. Here(s, e)'
    BY <1>1, <1>6, <2>1 DEF DueIsLaterOrHere
  <2>3. e \in NotYetHandled'
    BY <2>2 DEF Here
  <2> QED BY <1>1, <1>5, <2>3
<1>8. current.socket \notin Sockets
  BY DEF RInv, IInv, PassFine
<1>9. Registered' = Registered
  BY DEF Registered, Positions
<1> QED BY <1>1, <1>2, <1>3, <1>4, <1>5, <1>7, <1>8, <1>9 DEF Delivery!Handle

\* Errors come before output, and output before input.
LEMMA InOrder ==
  /\ Delivery!Before("ERR") = {} /\ Delivery!Before("OUT") = {"ERR"}
  /\ Delivery!Before("IN") = {"ERR", "OUT"}
  /\ Delivery!Events = Events /\ Events = {"ERR", "OUT", "IN"}
<1>1. Delivery!Before("ERR") = {}
  BY DEF Delivery!Before
<1>2. Delivery!Before("OUT") = {"ERR"}
  BY DEF Delivery!Before
<1>3. Delivery!Before("IN") = {"ERR", "OUT"}
  BY DEF Delivery!Before
<1> QED BY <1>1, <1>2, <1>3 DEF Delivery!Events, Events

\* A step that leaves no socket more to handle and calls no handler is a Change.
LEMMA LessRefines ==
  ASSUME RInv, IInv', pollfds' = pollfds, status' = status,
         \/ j' = j /\ (j <= Len(pollfds) => NotYetHandled' \subseteq NotYetHandled)
         \/ j' = j + 1 /\ pc' = "check",
         current' = current \/ current' = Nobody
  PROVE  Delivery!Change
<1>1. Alive' = Alive
  BY DEF Alive
<1>2. \A s \in Sockets : Due'[s] \subseteq Due[s]
  BY <1>1, NothingMoreDue DEF RInv
<1>3. Registered' \subseteq Sockets
  BY DEF Registered
<1>4. current' = current \/ current'.socket \notin Sockets
  BY NobodyIsNoSocket
<1> QED BY <1>2, <1>3, <1>4 DEF Delivery!Change

LEMMA EntryRefines ==
  ASSUME RInv, IInv', CheckSkips \/ CheckPasses \/ Write \/ Read
  PROVE  Delivery!Next
<1>1. IInv
  BY DEF RInv
<1>2. /\ NoneClosed /\ j <= Len(pollfds) /\ ~InHandler
      /\ UNCHANGED <<status, m_socketList, pollfds>>
  BY <1>1, EntryCases
<1>3. EntryIsLeft /\ EntryIsLeft'
  <2>1. EntryIsLeft'
    BY LeftOfTheEntry, PTL
  <2> QED BY <2>1, LeftOfTheEntry
<1> DEFINE R == pollfds[j].revents
<1>4. /\ pc = "check" => NotYetHandled = R
      /\ pc = "write" => NotYetHandled = R \ {"ERR"}
      /\ pc = "read" => NotYetHandled = R \ {"ERR", "OUT"}
  BY <1>2, <1>3 DEF EntryIsLeft
<1>5. j' = j => /\ pc' = "write" => NotYetHandled' = R \ {"ERR"}
                /\ pc' = "read" => NotYetHandled' = R \ {"ERR", "OUT"}
                /\ pc' = "handler" /\ current'.event = "ERR" => NotYetHandled' = R \ {"ERR"}
                /\ pc' = "handler" /\ current'.event = "OUT" => NotYetHandled' = R \ {"ERR", "OUT"}
                /\ pc' = "handler" /\ current'.event = "IN" => NotYetHandled' = R \ Events
  BY <1>2, <1>3 DEF EntryIsLeft
<1> HIDE DEF R
<1>6. CASE j' = j + 1 /\ pc' = "check" /\ current' = current
  <2>1. Delivery!Change
    BY <1>2, <1>6, LessRefines
  <2> QED BY <2>1 DEF Delivery!Next
<1>7. CASE /\ j' = j /\ current' = current
           /\ \/ pc = "check" /\ pc' = "write"
              \/ pc = "write" /\ pc' = "read"
  <2>1. NotYetHandled' \subseteq NotYetHandled
    BY <1>4, <1>5, <1>7
  <2>2. Delivery!Change
    BY <1>2, <1>7, <2>1, LessRefines
  <2> QED BY <2>2 DEF Delivery!Next
<1>8. ASSUME NEW event \in Events, j' = j, Matches, Handle(event), event \in NotYetHandled,
             NotYetHandled' \subseteq NotYetHandled \ ({event} \cup Delivery!Before(event))
      PROVE  Delivery!Next
  <2>1. \E s \in Sockets : Delivery!Handle(s, event)
    BY <1>2, <1>8, HandleRefines
  <2> QED BY <2>1, InOrder DEF Delivery!Next
<1>9. \A event \in Events : Handle(event) => pc' = "handler" /\ current'.event = event
  BY DEF Handle
<1>10. CASE j' = j /\ Matches /\ pc = "check" /\ "ERR" \in R /\ Handle("ERR")
  <2>1. "ERR" \in Events /\ pc' = "handler" /\ current'.event = "ERR"
    BY <1>9, <1>10, InOrder
  <2>2. "ERR" \in NotYetHandled /\ NotYetHandled' = NotYetHandled \ {"ERR"}
    BY <1>4, <1>5, <1>10, <2>1
  <2>3. NotYetHandled' \subseteq NotYetHandled \ ({"ERR"} \cup Delivery!Before("ERR"))
    BY <2>2, InOrder
  <2> QED BY <1>8, <1>10, <2>1, <2>2, <2>3
<1>11. CASE j' = j /\ Matches /\ pc = "write" /\ "OUT" \in R /\ Handle("OUT")
  <2>1. "OUT" \in Events /\ pc' = "handler" /\ current'.event = "OUT"
    BY <1>9, <1>11, InOrder
  <2>2. NotYetHandled = R \ {"ERR"} /\ NotYetHandled' = R \ {"ERR", "OUT"}
    BY <1>4, <1>5, <1>11, <2>1
  <2>3. NotYetHandled' \subseteq NotYetHandled \ ({"OUT"} \cup Delivery!Before("OUT"))
    BY <2>2, InOrder
  <2>4. "OUT" \in NotYetHandled
    BY <1>11, <2>2
  <2> QED BY <1>8, <1>11, <2>1, <2>3, <2>4
<1>12. CASE j' = j /\ Matches /\ pc = "read" /\ "IN" \in R /\ Handle("IN")
  <2>1. "IN" \in Events /\ pc' = "handler" /\ current'.event = "IN"
    BY <1>9, <1>12, InOrder
  <2>2. NotYetHandled = R \ {"ERR", "OUT"} /\ NotYetHandled' = R \ Events
    BY <1>4, <1>5, <1>12, <2>1
  <2>3. NotYetHandled' \subseteq NotYetHandled \ ({"IN"} \cup Delivery!Before("IN"))
    BY <2>2, InOrder
  <2>4. "IN" \in NotYetHandled
    BY <1>12, <2>2
  <2> QED BY <1>8, <1>12, <2>1, <2>3, <2>4
<1> QED BY <1>1, <1>6, <1>7, <1>10, <1>11, <1>12, EntryCases DEF R

LEMMA ReturnRefines ==
  ASSUME RInv, IInv', Return
  PROVE  Delivery!Change
<1>1. /\ InHandler /\ current' = Nobody /\ UNCHANGED <<status, pollfds>>
      /\ j <= Len(pollfds) /\ current.event \in Events
  BY DEF Return, objects, RInv, IInv, PassFine, InHandler
<1>2. EntryIsLeft /\ EntryIsLeft'
  <2>1. EntryIsLeft'
    BY LeftOfTheEntry, PTL
  <2> QED BY <2>1, LeftOfTheEntry
<1>3. CASE current.event = "ERR"
  <2>1. pc' = "write" /\ j' = j
    BY <1>3 DEF Return
  <2>2. NotYetHandled' = NotYetHandled
    BY <1>1, <1>2, <1>3, <2>1 DEF EntryIsLeft, InHandler
  <2> QED BY <1>1, <2>1, <2>2, LessRefines
<1>4. CASE current.event = "OUT"
  <2>1. pc' = "read" /\ j' = j
    BY <1>4 DEF Return
  <2>2. NotYetHandled' = NotYetHandled
    BY <1>1, <1>2, <1>4, <2>1 DEF EntryIsLeft, InHandler
  <2> QED BY <1>1, <2>1, <2>2, LessRefines
<1>5. CASE current.event = "IN"
  <2>1. pc' = "check" /\ j' = j + 1
    BY <1>5 DEF Return, Advance, Skip
  <2> QED BY <1>1, <2>1, LessRefines
<1> QED BY <1>1, <1>3, <1>4, <1>5 DEF Events

\* The pass gives up what is left of a result m_iterator came to the end before.
LEMMA FinishRefines ==
  ASSUME RInv, IInv', Finish
  PROVE  Delivery!Change
<1>1. pollfds' = <<>> /\ j' = 1 /\ current' = current /\ UNCHANGED list
  BY DEF Finish
<1>2. \A s \in Sockets : Due'[s] = {}
  <2>1. DueIsLaterOrHere'
    BY DueMembers, PTL
  <2>2. ~(j' <= Len(pollfds')) /\ j' + 1 .. Len(pollfds') = {}
    BY <1>1, SMT
  <2>3. \A s \in Sockets : \A event : ~Later(s, event)' /\ ~Here(s, event)'
    BY <2>2 DEF Later, Here
  <2> QED BY <2>1, <2>3 DEF DueIsLaterOrHere
<1>3. Registered' \subseteq Sockets
  BY DEF Registered
<1> QED BY <1>1, <1>2, <1>3 DEF Delivery!Change


LEMMA NextRefines ==
  ASSUME RInv, RInv', [Next]_vars
  PROVE  [Delivery!Next]_(Delivery!vars)
<1>1. IInv' /\ ObjectsFine
  BY DEF RInv, IInv
<1>2. CASE Delivery!Change
  BY <1>2 DEF Delivery!Next
<1>3. CASE Program
  <2>1. PICK s \in Sockets :
          \/ MoveSocket(s) \/ CloseSocket(s)
          \/ \E state \in IOStates : OpenSocket(s, state) \/ SetState(s, state)
    BY <1>3 DEF Program
  <2>2. UNCHANGED pass /\ \A t \in Sockets : t \in Alive' /\ t \notin Alive => status[t] = "unused"
    <3>1. CASE MoveSocket(s)
      BY <3>1 DEF MoveSocket, Alive
    <3>2. CASE CloseSocket(s)
      <4>1. UNCHANGED pass
            /\ status' = [status EXCEPT ![s] = IF InHandler THEN "gone" ELSE "unused"]
        BY <3>2 DEF CloseSocket, Bury
      <4> QED BY <1>1, <4>1 DEF Alive, ObjectsFine
    <3>3. ASSUME NEW state \in IOStates, OpenSocket(s, state)
          PROVE  UNCHANGED pass /\ \A t \in Sockets : t \in Alive' /\ t \notin Alive => status[t] = "unused"
      <4>1. UNCHANGED pass /\ status[s] = "unused" /\ status' = [status EXCEPT ![s] = "live"]
        BY <3>3 DEF OpenSocket
      <4> QED BY <1>1, <4>1 DEF Alive, ObjectsFine
    <3>4. CASE \E state \in IOStates : SetState(s, state)
      BY <3>4 DEF SetState, Alive
    <3> QED BY <2>1, <3>1, <3>2, <3>3, <3>4
  <2> QED BY <1>1, <1>2, <2>2, ProgramRefines
<1>4. CASE LoseOwn
  <2>1. UNCHANGED pass /\ status[current.socket] = "live"
        /\ status' = [status EXCEPT ![current.socket] = "closed"]
    BY <1>4 DEF LoseOwn
  <2>2. \A t \in Sockets : t \in Alive' => t \in Alive
    BY <1>1, <2>1 DEF Alive, ObjectsFine
  <2> QED BY <1>1, <1>2, <2>1, <2>2, ProgramRefines
<1>5. CASE DropOwn
  <2>1. UNCHANGED pass
        /\ status' = [status EXCEPT ![current.socket] = IF InHandler THEN "gone" ELSE "unused"]
    BY <1>5 DEF DropOwn, Bury
  <2>2. \A t \in Sockets : t \in Alive' => t \in Alive
    BY <1>1, <2>1 DEF Alive, ObjectsFine
  <2> QED BY <1>1, <1>2, <2>1, <2>2, ProgramRefines
<1>6. CASE Poll
  BY <1>1, <1>6, PollRefines DEF Delivery!Next
<1>7. CASE Finish
  BY <1>1, <1>2, <1>7, FinishRefines
<1>8. CASE CheckSkips \/ CheckPasses \/ Write \/ Read
  BY <1>1, <1>8, EntryRefines
<1>9. CASE Return
  BY <1>1, <1>2, <1>9, ReturnRefines
<1>10. CASE \E s \in Sockets, event \in Events : BecomeReady(s, event)
  <2>1. UNCHANGED <<pass, status>>
    BY <1>10 DEF BecomeReady
  <2> QED BY <1>1, <1>2, <2>1, ProgramRefines DEF Alive
<1>11. CASE UNCHANGED vars
  BY <1>1, <1>2, <1>11, ProgramRefines DEF vars, objects, Alive
<1> QED BY <1>3, <1>4, <1>5, <1>6, <1>7, <1>8, <1>9, <1>10, <1>11 DEF Next, Pass

\* The loop implements EventDelivery for any number of sockets and descriptors, if
\* no descriptor closed since poll() returned is given out again before the pass is
\* over: whatever the handlers open, move and close, a handler is called only for a
\* registered socket, with an event poll() reported for that socket, at most once
\* per report, and an error before output before input.  EventsAreReported and the
\* run that reuses descriptors show that the hypothesis is needed.
THEOREM DeliversEvents ==
  ASSUME ~Reuses
  PROVE  Safe => DeliverySpec
<1>1. Init => Delivery!Init
  <2> SUFFICES ASSUME Init PROVE Delivery!Init
    OBVIOUS
  <2>1. IInv /\ Alive = {} /\ current.socket \notin Sockets
    BY InitIInv, NobodyIsNoSocket DEF Init, Alive
  <2>2. Registered = {}
    BY <2>1, RegisteredIsAlive
  <2>3. Due = [s \in Sockets |-> {}]
    BY <2>2 DEF Due
  <2> QED BY <2>1, <2>2, <2>3 DEF Delivery!Init
<1>2. Init => RInv
  BY InitRInv
<1>3. RInv /\ [Next]_vars => RInv'
  BY NextRInv
<1>4. RInv /\ RInv' /\ [Next]_vars => [Delivery!Next]_(Delivery!vars)
  BY NextRefines
<1> QED BY <1>1, <1>2, <1>3, <1>4, PTL DEF Safe, DeliverySpec, Delivery!Spec

===============================================================================
